SPECIFICATION Spec
CONSTANTS
  Evaluators = {e1, e2}
  Readers = {q1}
  Cancellers = {c1}
  Files = {f}
  MaxLine = 1
  HeapFiles = {}
  Debug = TRUE
  TheorySet <- OwnTheory
  NoRun = NoRun
  NoFile = NoFile
  Free = Free
SYMMETRY Symmetric
INVARIANT Bookkeeping
INVARIANT AbortSparesSharedRun
INVARIANT CompletedIsStamped
INVARIANT NoCaretAfterCancel
PROPERTY OutcomeWrittenOnce
CHECK_DEADLOCK FALSE
