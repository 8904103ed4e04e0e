SPECIFICATION Spec
CONSTANTS
  thy = thy
  pre = pre
  o1 = o1
  o2 = o2
  Garbled = Garbled
  Files = {thy, pre}
  Heap = {pre}
  Openers = {o1, o2}
  MaxWrites = 2
  MaxOpens = 2
  MaxStarts = 2
  MaxPipe = 1
  Glyphs = {FALSE}
  CutsBeforeBytes = TRUE
  Kept = FALSE
SYMMETRY OpenersAlike
INVARIANT TypeOK
INVARIANT PushedTextArrives
PROPERTY TargetsStay
CHECK_DEADLOCK FALSE
