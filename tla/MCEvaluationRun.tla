-------------------------- MODULE MCEvaluationRun --------------------------
(* Instances of EvaluationRun for TLC.                                      *)
EXTENDS EvaluationRun, TLC

\* Every file is its own evaluation's theory set.
OwnTheory == [f \in Files |-> {f}]

Symmetric == Permutations(Evaluators) \cup Permutations(Readers)
=============================================================================
