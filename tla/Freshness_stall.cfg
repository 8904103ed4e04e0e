SPECIFICATION Spec
CONSTANTS
  Files = {f}
  Waiters = {w}
  a = a
  b = b
  Types = {a, b}
  Pictures <- TwoPictures
  Blank = Blank
  MaxText = 2
  MaxSends = 2
  MaxVersion = 1
  MaxPushes = 1
  GivesUp = FALSE
  Stalls = {TRUE, FALSE}
INVARIANT BelievedIsWhole
CHECK_DEADLOCK FALSE
