SPECIFICATION Spec
CONSTANTS
  Evaluators = {e1, e2}
  Readers = {q1}
  Cancellers = {}
  Files = {f}
  MaxLine = 2
  HeapFiles = {}
  Debug = FALSE
  TheorySet <- OwnTheory
  NoRun = NoRun
  NoFile = NoFile
  Free = Free
SYMMETRY Symmetric
INVARIANT TypeOK
INVARIANT DrivenToTarget
PROPERTY TargetNeverRetreats
PROPERTY ProgressIsCurrent
PROPERTY CompletionIsEarned
CHECK_DEADLOCK FALSE
