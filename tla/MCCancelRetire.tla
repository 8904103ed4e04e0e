--------------------------- MODULE MCCancelRetire ---------------------------
(* CancelRetire for TLC: a theory of two commands. *)
EXTENDS CancelRetire
=============================================================================
