---- MODULE MCDocumentSync ----
(* Instances of DocumentSync for TLC. *)
EXTENDS DocumentSync, TLC

CONSTANTS thy, pre, o1, o2

OpenersAlike == Permutations(Openers)
====
