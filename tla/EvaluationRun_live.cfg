SPECIFICATION FairSpec
CONSTANTS
  Evaluators = {e1}
  Readers = {q1}
  Cancellers = {c1}
  Files = {f, g}
  MaxLine = 1
  HeapFiles = {g}
  Debug = FALSE
  TheorySet <- OwnTheory
  NoRun = NoRun
  NoFile = NoFile
  Free = Free
PROPERTY EveryRequestAnswered
PROPERTY CancelEndsTheRun
CHECK_DEADLOCK FALSE
