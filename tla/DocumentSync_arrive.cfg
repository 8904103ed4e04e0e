SPECIFICATION FairSpec
CONSTANTS
  thy = thy
  pre = pre
  o1 = o1
  o2 = o2
  Garbled = Garbled
  Files = {thy}
  Heap = {}
  Openers = {o1}
  MaxWrites = 3
  MaxOpens = 2
  MaxStarts = 1
  MaxPipe = 2
  Glyphs = {TRUE, FALSE}
  CutsBeforeBytes = FALSE
  Kept = TRUE
INVARIANT HiddenEditsAreSeen
PROPERTY EditsArrive
CHECK_DEADLOCK FALSE
