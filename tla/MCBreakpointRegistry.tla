------------------------ MODULE MCBreakpointRegistry ------------------------
(* Instances of BreakpointRegistry for TLC.                                 *)
EXTENDS BreakpointRegistry, TLC

CONSTANTS thy, ml, stmtT, stmtM, Snippet, Other

\* A theory with one breakable statement, which loads an .ML file with one.
Loads    == [f \in {thy, ml} |-> {thy, ml} \ {f}]
InFiles  == [s \in {stmtT, stmtM} |-> IF s = stmtT THEN thy ELSE ml]
Snippets == [s \in {stmtT, stmtM} |-> IF s = stmtT THEN Snippet ELSE Other]

FirstLine == [s \in {stmtT, stmtM} |-> 1]

CallsAlike == Permutations(Calls)
=============================================================================
