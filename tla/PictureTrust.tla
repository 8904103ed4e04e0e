---------------------------- MODULE PictureTrust ----------------------------
(***************************************************************************)
(* What the decoration cache promises a reader: for each open file it      *)
(* either knows nothing, or it knows the state of the very text the client *)
(* gave the prover.  Any event may make it forget; only an edit changes    *)
(* the text, and an edit makes it forget every file at once.               *)
(***************************************************************************)
EXTENDS Naturals

CONSTANTS Files, Unknown

VARIABLES text, seen

TrustInit == text \in [Files -> Nat] /\ seen = [f \in Files |-> Unknown]

\* New text for a file: no picture is trusted until the prover has it.
Edited == /\ \E f \in Files : text' = [text EXCEPT ![f] = text'[f]]
          /\ seen' = [f \in Files |-> Unknown]

\* The picture of some files is trusted now, that of others no longer.
Learned == /\ UNCHANGED text
           /\ \A f \in Files : seen'[f] \in {Unknown, text[f]}
           /\ seen' = [f \in Files |-> seen'[f]]

TrustSpec == TrustInit /\ [][Edited \/ Learned]_<<text, seen>>
=============================================================================
