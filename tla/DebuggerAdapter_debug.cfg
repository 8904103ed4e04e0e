SPECIFICATION Spec
CONSTANTS
  Threads = {worker}
  Evals = {ask1, ask2}
  Fetches = {ask2}
  Resumes = {cont}
  Aborts = {stop}
  OnThread <- OneThread
  MaxStops = 2
  MaxOut = 2
  MaxDown = 1
  NoCall = NoCall
INVARIANT TypeOK
INVARIANT OwnReply
INVARIANT StateBeforeReply
INVARIANT NoneForgotten
PROPERTY PromiseKept
CHECK_DEADLOCK FALSE
