----------------------------- MODULE OneReply ------------------------------
(***************************************************************************)
(* What the evaluations at a breakpoint are promised by                    *)
(* src/src/isabelle_mcp/scala/Isabelle2026/src/debugger.scala: a thread    *)
(* works for at most one of them, owner[t], from its acceptance until its  *)
(* end, whether or not its caller was answered in the meantime; each gets  *)
(* at most one reply, and what is refused never owns its thread.           *)
(***************************************************************************)
CONSTANTS Threads, Evals, OnThread, NoCall

VARIABLES owner, reply

vars == <<owner, reply>>

Replied(c, s) == reply[c] = "" /\ reply' = [reply EXCEPT ![c] = s]

Init ==
  /\ owner = [t \in Threads |-> NoCall]
  /\ reply = [c \in Evals |-> ""]

Accept(c) ==
  /\ owner[OnThread[c]] = NoCall /\ reply[c] = ""
  /\ owner' = [owner EXCEPT ![OnThread[c]] = c]
  /\ UNCHANGED reply

\* Only a thread at work for another evaluation is busy.
Refuse(c) ==
  /\ owner[OnThread[c]] # c
  /\ Replied(c, "not_stopped") \/ (owner[OnThread[c]] # NoCall /\ Replied(c, "busy"))
  /\ UNCHANGED owner

\* The evaluation ends and its caller is told.
Answer(c) ==
  /\ owner[OnThread[c]] = c
  /\ Replied(c, "ok") \/ Replied(c, "resumed")
  /\ owner' = [owner EXCEPT ![OnThread[c]] = NoCall]

\* The caller is told to wait no longer; the thread is not free yet.
Expire(c) == owner[OnThread[c]] = c /\ Replied(c, "timeout") /\ UNCHANGED owner

\* An expired evaluation ends after all, and nobody is told.
Settle(c) ==
  /\ owner[OnThread[c]] = c /\ reply[c] = "timeout"
  /\ owner' = [owner EXCEPT ![OnThread[c]] = NoCall]
  /\ UNCHANGED reply

\* The prover exits: whoever still waits is told so.
Crash ==
  /\ owner' = [t \in Threads |-> NoCall]
  /\ reply' = [c \in Evals |->
                 IF owner[OnThread[c]] = c /\ reply[c] = "" THEN "crashed" ELSE reply[c]]

Next ==
  \/ \E c \in Evals : Accept(c) \/ Refuse(c) \/ Answer(c) \/ Expire(c) \/ Settle(c)
  \/ Crash

Spec == Init /\ [][Next]_vars
=============================================================================
