---- MODULE MCFreshness ----
(* Instances of Freshness for TLC. *)
EXTENDS Freshness

CONSTANTS a, b

\* Two pictures that differ in one of two types: a change of one into the
\* other is published as a slice.
TwoPictures == {[t \in {a, b} |-> 0], [t \in {a, b} |-> IF t = a THEN 1 ELSE 0]}

\* One picture of one type, for liveness: whether a picture comes, not which.
OnePicture == {[t \in {a} |-> 0]}
====
