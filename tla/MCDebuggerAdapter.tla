------------------------- MODULE MCDebuggerAdapter -------------------------
(* Instances of DebuggerAdapter for TLC.                                    *)
EXTENDS DebuggerAdapter

\* All calls address the first thread.
OneThread == [c \in Evals \cup Resumes \cup Aborts |-> CHOOSE t \in Threads : TRUE]
=============================================================================
