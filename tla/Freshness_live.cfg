SPECIFICATION FairSpec
CONSTANTS
  Files = {f}
  Waiters = {w}
  a = a
  b = b
  Types = {a}
  Pictures <- OnePicture
  Blank = Blank
  MaxText = 1
  MaxSends = 2
  MaxVersion = 3
  MaxPushes = 0
  GivesUp = TRUE
  Stalls = {TRUE}
PROPERTY WaitEnds
CHECK_DEADLOCK FALSE
