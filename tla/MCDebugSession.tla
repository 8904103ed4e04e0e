--------------------------- MODULE MCDebugSession ---------------------------
(* Instances of DebugSession for TLC.                                       *)
EXTENDS DebugSession, TLC

Alike == Permutations(Threads) \cup Permutations(Calls) \cup Permutations(Sessions)
=============================================================================
