------------------------ MODULE EvaluationRunProofs ------------------------
(***************************************************************************)
(* Proofs about EvaluationRun, for any set of requests, files and lines.   *)
(*                                                                         *)
(* Every invariant follows from one inductive invariant, IInv: the types,  *)
(* what a request holds at each of its places (Requests), who may be       *)
(* inside the evaluation lock (Locking), flag and stamps (Ledger), riders  *)
(* (Counting), the caret (Driving) and the evidence of completions         *)
(* (Peaking).  Each part is preserved by every step given all the parts.   *)
(***************************************************************************)
EXTENDS EvaluationRun, FiniteSetTheorems, TLAPS

\* The places from which a request leaves the evaluation lock, and the places
\* at which an evaluate_to is on a run.
Holding == {"open", "caret", "sent", "sweep"}
Joined  == {"caret", "fresh", "park", "snap", "failed", "report"}

Requests ==
  /\ \A p \in Procs : reply[p] # "none" => pc[p] = "done"
  /\ \A p \in Procs : pc[p] = "ride" => p \in Readers /\ run[p] \in Evaluators
  /\ \A q \in Readers :
       pc[q] \in {"foot", "stamp"} => run[q] \in Evaluators /\ req[q].line \in Lines
  /\ \A e \in Evaluators : pc[e] \in {"idle", "open"} => run[e] = NoRun
  /\ \A e \in Evaluators : pc[e] \in Joined => run[e] \in Evaluators
  /\ \A e \in Evaluators :
       pc[e] \in Joined \cup {"open"} => req[e].file \in Files /\ req[e].line \in Lines
  /\ caret # NoCaret => caret.file \in Files

Locking ==
  /\ \A p \in Procs : pc[p] \in Holding => lock = p
  /\ lock # Free => alive
  /\ active => alive
  /\ \A e \in Evaluators : pc[e] = "open" => ~BusyWithAnotherFile(req[e].file)

Ledger ==
  /\ RunLedger
  /\ \A e \in Evaluators : pc[e] \in {"idle", "open"} =>
       current # e /\ outcome[e] = "" /\ \A p \in Procs : run[p] # e
  /\ \A r \in Evaluators : outcome[r] = "" => swept[r] = "no"

Counting == RidersCounted /\ AbortSparesSharedRun

Target == [file |-> file, line |-> dest, run |-> current]

Driving ==
  /\ \A e \in Evaluators : pc[e] = "caret" => CaretOf(e) = Target
  /\ active /\ current \notin stranded /\ (\A e \in Evaluators : pc[e] # "caret") =>
       caret = Target
  /\ NoCaretAfterCancel
  /\ \A e \in Evaluators : pc[e] = "caret" => swept[run[e]] # "retracted"

Peaking ==
  /\ QuietLine <= peak
  /\ \A p \in Procs : /\ pc[p] \in Joined \cup {"foot", "stamp"}
                      /\ run[p] = current
                      => req[p].file = file
  /\ \A p \in Procs : pc[p] = "stamp" /\ run[p] = current => req[p].line <= peak

Completions == \A p \in Procs : reply[p] = "complete" =>
                 run[p] \in Evaluators /\ outcome[run[p]] = "complete"

IInv ==
  TypeOK /\ Requests /\ Locking /\ Ledger /\ Counting /\ Driving /\ Peaking /\ Completions

LEMMA LinesInt == \A l \in Lines : l \in Int
BY LineBound DEF Lines

-----------------------------------------------------------------------------
(* What the helpers of the model do.                                       *)

\* What _finish(o) leaves behind.
Stamps(o) ==
  /\ UNCHANGED <<file, dest, current>>
  /\ active' = FALSE
  /\ current # NoRun => outcome'[current] = IF outcome[current] = "" THEN o ELSE outcome[current]
  /\ \A r \in Evaluators : r # current => outcome'[r] = outcome[r]

LEMMA FinishStamps ==
  ASSUME TypeOK, NEW o, Finish(o) PROVE Stamps(o)
BY DEF TypeOK, Finish, Stamps

LEMMA FinishIfOwnerStamps ==
  ASSUME TypeOK, NEW r, NEW o, NEW judged, FinishIfOwner(r, o, judged)
  PROVE  \/ UNCHANGED <<runState, outcome>> /\ ~MayStamp(r, judged)
         \/ Stamps(o) /\ MayStamp(r, judged)
BY FinishStamps DEF FinishIfOwner

\* Stamping a run that has ended changes nothing.
LEMMA StampEnded ==
  ASSUME TypeOK, RunLedger, NEW o, Stamps(o), outcome' \in [Evaluators -> Outcomes],
         ~active
  PROVE  UNCHANGED <<runState, outcome>>
<1>1. current # NoRun => outcome[current] # "" BY DEF RunLedger
<1>2. ASSUME NEW r \in Evaluators PROVE outcome'[r] = outcome[r]
  <2>1. CASE r = current BY <1>1, <2>1, Distinct DEF Stamps
  <2>2. CASE r # current BY <2>2 DEF Stamps
  <2> QED BY <2>1, <2>2
<1>3. outcome' = outcome BY <1>2 DEF TypeOK
<1>4. active' = active BY DEF Stamps, TypeOK
<1> QED BY <1>3, <1>4 DEF Stamps, runState

\* A joined request that gives up: the last of its run ends it.
GaveUp(e) ==
  /\ run[e] \in Evaluators
  /\ riders' = [riders EXCEPT ![run[e]] = riders[run[e]] - 1]
  /\ Done(e, "gaveup") /\ UNCHANGED run
  /\ \/ UNCHANGED <<runState, outcome>>
     \/ riders[run[e]] = 1 /\ current = run[e] /\ Stamps("cancelled")

LEMMA GiveUpEffect ==
  ASSUME TypeOK, Requests, NEW e \in Evaluators, pc[e] \in Joined, GiveUp(e) PROVE GaveUp(e)
<1>1. run[e] \in Evaluators BY DEF Requests
<1>2. CASE LastRider(run[e])
  <2>1. FinishIfOwner(run[e], "cancelled", 0) BY <1>2 DEF GiveUp
  <2> QED
    BY <1>1, <1>2, <2>1, FinishIfOwnerStamps DEF GiveUp, GaveUp, LastRider, MayStamp, Owns
<1>3. CASE ~LastRider(run[e])
  BY <1>1, <1>3 DEF GiveUp, GaveUp
<1> QED BY <1>2, <1>3

\* The end of a wait that is not a failure.
Waited(e) ==
  /\ pc[e] \in {"park", "snap"}
  /\ UNCHANGED <<riders, lock, req, run, prover, swept, stranded>>
  /\ \/ UNCHANGED <<runState, outcome>>
     \/ Stamps("abandoned")
     \/ Stamps("complete") /\ dest <= QuietLine
  /\ \/ \E place \in {"fresh", "park", "snap", "report"} :
          pc' = [pc EXCEPT ![e] = place] /\ UNCHANGED reply
     \/ \E answer \in {"cancelled", "error", "abandoned", "in_progress", "complete"} :
          pc' = [pc EXCEPT ![e] = "done"] /\ reply' = [reply EXCEPT ![e] = answer]
  /\ reply'[e] = "complete" => outcome'[run[e]] = "complete"
  /\ reply'[e] = "in_progress" \/ pc'[e] = "report" => active' /\ current' = run[e]

LEMMA ConcludeEffect ==
  ASSUME IInv, NEW e \in Evaluators, NEW s \in {"cancelled", "in_progress", "complete",
    "hit"},
         pc[e] \in {"park", "snap"}, Conclude(e, s), outcome' \in [Evaluators -> Outcomes],
         s = "complete" => EvaluationComplete(req[e].file, dest),
         UNCHANGED <<riders, lock, run, prover, swept, stranded>>
  PROVE  Waited(e)
<1> DEFINE r == run[e]
           seen == Seen(r, s)
           d == IF Owns(r) THEN dest ELSE req[e].line
<1>a. TypeOK /\ Requests /\ RunLedger /\ (active => alive) /\ r \in Evaluators /\ reply[e] = "none"
  BY DEF IInv, Requests, Joined, Ledger, Locking, TypeOK, Procs
<1>c. e \in Procs /\ pc \in [Procs -> Places] /\ reply \in [Procs -> Replies]
      /\ outcome \in [Evaluators -> Outcomes] /\ NoRun \notin Evaluators
  BY <1>a, Distinct DEF TypeOK, Procs
<1>b. outcome[r] = "" => current = r /\ active
  BY <1>a, <1>c DEF RunLedger
<1>1. CASE Retries(e, s)
  BY <1>1, <1>a, <1>c DEF Conclude, Waited, Goto
<1>2. CASE ~Retries(e, s) /\ Stopped(r) /\ FinishIfOwner(r, "cancelled", 0) /\ Done(e,
  "cancelled")
  <2>1. UNCHANGED <<runState, outcome>>
    <3>1. CASE MayStamp(r, 0)
      <4>1. ~active BY <1>2, <3>1, <1>a DEF Stopped, MayStamp, Owns, RunLedger
      <4> QED BY <1>2, <3>1, <1>a, <4>1, FinishIfOwnerStamps, StampEnded
    <3>2. CASE ~MayStamp(r, 0)
      BY <1>2, <3>2, <1>a, FinishIfOwnerStamps
    <3> QED BY <3>1, <3>2
  <2> QED BY <1>2, <2>1, <1>a, <1>c DEF Waited, Done
<1>3. CASE ~Retries(e, s) /\ ~Stopped(r) /\ seen = "hit" /\ Goto(e, "report")
           /\ UNCHANGED <<runState, outcome, req, retried>>
  <2>1. outcome[r] = "" BY <1>3, <1>c, <1>a DEF Seen, Outcomes
  <2> QED BY <1>3, <2>1, <1>a, <1>b, <1>c DEF Waited, Goto, runState
<1>4. CASE /\ ~Retries(e, s) /\ ~Stopped(r)
           /\ FinishIfOwner(r, "abandoned", 0)
           /\ Done(e, IF outcome[r] = "" THEN "error" ELSE "abandoned")
  <2>1. UNCHANGED <<runState, outcome>> \/ Stamps("abandoned")
    BY <1>4, <1>a, FinishIfOwnerStamps
  <2> QED BY <1>4, <2>1, <1>a, <1>c DEF Waited, Done
<1>5. CASE ~Retries(e, s) /\ ~Stopped(r) /\ seen = "complete" /\ FinishIfOwner(r,
  "complete", d)
           /\ Done(e, "complete")
  <2>1. CASE outcome[r] = ""
    <3>1. s = "complete" /\ current = r /\ active BY <1>5, <2>1, <1>b DEF Seen
    <3>2. req[e].file = file BY <3>1, <1>a, <1>c DEF IInv, Peaking, Joined
    <3>3. dest <= QuietLine
      BY <3>1, <3>2, <1>a DEF EvaluationComplete, FrontierReached, QuietLine, TypeOK, Lines
    <3>4. Stamps("complete")
      BY <1>5, <3>1, <1>a, FinishIfOwnerStamps DEF MayStamp, Owns
    <3>5. outcome'[r] = "complete" BY <3>1, <3>4, <2>1, <1>a, <1>c DEF Stamps
    <3> QED BY <1>5, <3>3, <3>4, <3>5, <1>a, <1>c DEF Waited, Done
  <2>2. CASE outcome[r] # ""
    <3>1. outcome[r] = "complete" BY <1>5, <2>2 DEF Seen
    <3>2. UNCHANGED <<runState, outcome>>
      <4>1. CASE MayStamp(r, d)
        <5>1. ~active BY <3>1, <4>1, <1>a DEF MayStamp, Owns, RunLedger
        <5> QED BY <1>5, <4>1, <1>a, <5>1, FinishIfOwnerStamps, StampEnded
      <4>2. CASE ~MayStamp(r, d)
        BY <1>5, <4>2, <1>a, FinishIfOwnerStamps
      <4> QED BY <4>1, <4>2
    <3> QED BY <1>5, <3>1, <3>2, <1>a, <1>c DEF Waited, Done
  <2> QED BY <2>1, <2>2
<1>6. CASE ~Retries(e, s) /\ ~Stopped(r) /\ seen = "in_progress" /\ Done(e, "in_progress")
           /\ UNCHANGED <<runState, outcome>>
  <2>1. outcome[r] = "" BY <1>6, <1>c, <1>a DEF Seen, Outcomes
  <2> QED BY <1>6, <2>1, <1>a, <1>b, <1>c DEF Waited, Done, runState
<1> QED BY <1>1, <1>2, <1>3, <1>4, <1>5, <1>6 DEF Conclude

LEMMA WaitEffect ==
  ASSUME IInv, NEW e \in Evaluators, outcome' \in [Evaluators -> Outcomes],
         EvalChecks(e) \/ EvalDecides(e) \/ EvalTimesOut(e)
  PROVE  Waited(e)
<1>a. e \in Procs /\ pc \in [Procs -> Places] /\ TypeOK
  BY DEF IInv, TypeOK, Procs
<1>1. CASE EvalChecks(e)
  <2>1. CASE outcome[run[e]] # "" \/ ~active
    BY <1>1, <2>1, ConcludeEffect DEF EvalChecks
  <2>2. CASE ~(outcome[run[e]] # "" \/ ~active)
    <3>1. pc' = [pc EXCEPT ![e] = "snap"] /\ UNCHANGED <<runState, outcome, reply, req>>
      BY <1>1, <2>2 DEF EvalChecks, Goto
    <3>2. reply[e] = "none" BY <1>1, <1>a DEF EvalChecks, IInv, Requests
    <3>3. reply'[e] = "none" /\ pc'[e] # "report" BY <3>1, <3>2, <1>a
    <3> QED BY <1>1, <3>1, <3>3, <1>a DEF EvalChecks, Waited
  <2> QED BY <2>1, <2>2
<1>2. CASE EvalDecides(e)
  <2>1. CASE Verdict(e) = "wait"
    <3>1. pc' = [pc EXCEPT ![e] = "park"] /\ UNCHANGED <<runState, outcome, reply, req>>
      BY <1>2, <2>1 DEF EvalDecides, Goto
    <3>2. reply[e] = "none" BY <1>2, <1>a DEF EvalDecides, IInv, Requests
    <3>3. reply'[e] = "none" /\ pc'[e] # "report" BY <3>1, <3>2, <1>a
    <3> QED BY <1>2, <3>1, <3>3, <1>a DEF EvalDecides, Waited
  <2>2. CASE Verdict(e) # "wait"
    <3>1. Conclude(e, Verdict(e)) BY <1>2, <2>2 DEF EvalDecides
    <3>2. /\ Verdict(e) \in {"cancelled", "in_progress", "complete", "hit"}
          /\ Verdict(e) = "complete" => EvaluationComplete(req[e].file, dest)
      BY <2>2 DEF Verdict
    <3> QED BY <1>2, <3>1, <3>2, ConcludeEffect DEF EvalDecides
  <2> QED BY <2>1, <2>2
<1>3. CASE EvalTimesOut(e)
  BY <1>3, ConcludeEffect DEF EvalTimesOut
<1> QED BY <1>1, <1>2, <1>3

\* A reader's verdict stamps the run it captured, at the target it judged.
Judged(q) ==
  /\ UNCHANGED <<riders, lock, run, req, retried, prover, swept, stranded>>
  /\ pc' = [pc EXCEPT ![q] = "done"]
  /\ \/ /\ UNCHANGED <<runState, outcome>>
        /\ \E answer \in {"idle", "in_progress"} : reply' = [reply EXCEPT ![q] = answer]
     \/ /\ Stamps("complete") /\ reply' = [reply EXCEPT ![q] = "complete"]
        /\ run[q] \in Evaluators /\ current = run[q] /\ dest <= peak
        /\ outcome[run[q]] \in {"", "complete"}

LEMMA StatusEffect ==
  ASSUME IInv, NEW q \in Readers, StatusDecides(q) PROVE Judged(q)
<1>a. TypeOK /\ RunLedger /\ QuietLine <= peak /\ NoRun \notin Evaluators
  BY Distinct DEF IInv, Ledger, Peaking
<1> DEFINE complete == active /\ EvaluationComplete(file, dest)
<1>1. CASE NoPendingWork /\ Done(q, "idle") /\ UNCHANGED <<runState, outcome>>
  BY <1>1 DEF StatusDecides, Judged, Done
<1>2. CASE ~NoPendingWork /\ ~(complete /\ MayStamp(run[q], dest)) /\ Done(q, "in_progress")
           /\ UNCHANGED <<runState, outcome>>
  BY <1>2 DEF StatusDecides, Judged, Done
<1>3. CASE complete /\ MayStamp(run[q], dest) /\ FinishIfOwner(run[q], "complete", dest)
           /\ Done(q, "complete")
  <2>1. current = run[q] /\ Stamps("complete")
    BY <1>3, <1>a, FinishIfOwnerStamps DEF MayStamp, Owns
  <2>2. run[q] \in Evaluators /\ outcome[run[q]] = ""
    BY <1>3, <1>a, <2>1 DEF RunLedger, TypeOK
  <2>3. dest <= QuietLine
    BY <1>3, <1>a DEF EvaluationComplete, FrontierReached, QuietLine
  <2>4. dest <= peak BY <2>3, <1>a, LineBound DEF TypeOK, QuietLine, Lines
  <2> QED BY <1>3, <2>1, <2>2, <2>4 DEF StatusDecides, Judged, Done
<1> QED BY <1>1, <1>2, <1>3 DEF StatusDecides

LEMMA FooterEffect ==
  ASSUME IInv, NEW q \in Readers, FooterStamps(q) PROVE Judged(q)
<1>a. /\ TypeOK /\ q \in Procs /\ pc[q] = "stamp" /\ run[q] \in Evaluators
      /\ run[q] = current => req[q].line <= peak
      /\ req[q].line \in Lines
  BY DEF IInv, FooterStamps, Procs, Requests, Peaking
<1>1. CASE FooterGate(q) /\ MayStamp(run[q], req[q].line)
  <2>1. Stamps("complete") /\ reply' = [reply EXCEPT ![q] = "complete"]
    BY <1>1, <1>a, FinishStamps DEF FooterStamps, Done
  <2>2. current = run[q] /\ req[q].line \in {0, dest}
    BY <1>1 DEF MayStamp, Owns
  <2>3. pc' = [pc EXCEPT ![q] = "done"] BY <1>1 DEF FooterStamps, Done
  <2>4. dest <= peak BY <2>2, <1>a DEF Lines
  <2> QED BY <1>1, <1>a, <2>1, <2>2, <2>3, <2>4 DEF FooterStamps, Judged, Done, FooterGate
<1>2. CASE ~(FooterGate(q) /\ MayStamp(run[q], req[q].line))
  BY <1>2 DEF FooterStamps, Judged, Done
<1> QED BY <1>1, <1>2

-----------------------------------------------------------------------------
(* How a step may touch the run: only EvalJoins starts or moves one.       *)

RunKept ==
  \/ UNCHANGED <<runState, outcome>>
  \/ \E o \in {"complete", "cancelled", "abandoned"} :
       Stamps(o) /\ (o = "complete" => dest <= peak)

LEMMA WaitedKeeps ==
  ASSUME IInv, NEW e \in Evaluators, Waited(e) PROVE RunKept
<1>1. QuietLine <= peak BY DEF IInv, Peaking
<1>2. QuietLine \in Int /\ peak \in Int /\ dest \in Int
  BY LineBound DEF IInv, TypeOK, QuietLine, Lines
<1>3. dest <= QuietLine => dest <= peak BY <1>1, <1>2
<1> QED BY <1>3 DEF Waited, RunKept

LEMMA RunStep ==
  ASSUME IInv, TypeOK', Step PROVE RunKept \/ \E e \in Evaluators : EvalJoins(e)
<1> USE DEF runState, ledger
<1>a. TypeOK /\ Requests /\ outcome' \in [Evaluators -> Outcomes] BY DEF IInv, TypeOK
<1>1. ASSUME NEW e \in Evaluators, EvalRefused(e)
      PROVE  RunKept
  BY <1>1 DEF RunKept, EvalRefused
<1>2. ASSUME NEW e \in Evaluators, NEW f \in Files, NEW l \in Lines, EvalEnters(e, f, l)
      PROVE  RunKept
  BY <1>2 DEF RunKept, EvalEnters
<1>3. ASSUME NEW e \in Evaluators, EvalOpenFails(e)
      PROVE  RunKept
  BY <1>3 DEF RunKept, EvalOpenFails
<1>4. ASSUME NEW e \in Evaluators, EvalCaretSent(e)
      PROVE  RunKept
  BY <1>4 DEF RunKept, EvalCaretSent
<1>5. ASSUME NEW e \in Evaluators, EvalFresh(e)
      PROVE  RunKept
  BY <1>5 DEF RunKept, EvalFresh
<1>6. ASSUME NEW e \in Evaluators, EvalReports(e)
      PROVE  RunKept
  BY <1>6 DEF RunKept, EvalReports
<1>7. ASSUME NEW q \in Readers, StatusCaptures(q)
      PROVE  RunKept
  BY <1>7 DEF RunKept, StatusCaptures
<1>8. ASSUME NEW q \in Readers, FooterCaptures(q)
      PROVE  RunKept
  BY <1>8 DEF RunKept, FooterCaptures
<1>9. ASSUME NEW q \in Readers, FooterJudges(q)
      PROVE  RunKept
  BY <1>9 DEF RunKept, FooterJudges
<1>10. ASSUME NEW q \in Readers, QueryServed(q)
      PROVE  RunKept
  BY <1>10 DEF RunKept, QueryServed
<1>11. ASSUME NEW q \in Readers, QueryRefused(q)
      PROVE  RunKept
  BY <1>11 DEF RunKept, QueryRefused
<1>12. ASSUME NEW q \in Readers, QueryRides(q)
      PROVE  RunKept
  BY <1>12 DEF RunKept, QueryRides
<1>13. ASSUME NEW q \in Readers, QueryUnjoins(q)
      PROVE  RunKept
  BY <1>13 DEF RunKept, QueryUnjoins
<1>14. ASSUME NEW q \in Readers, QueryJudges(q)
      PROVE  RunKept
  BY <1>14 DEF RunKept, QueryJudges
<1>15. ASSUME NEW q \in Readers, QueryReports(q)
      PROVE  RunKept
  BY <1>15 DEF RunKept, QueryReports
<1>16. ASSUME NEW q \in Readers, QueryFails(q)
      PROVE  RunKept
  BY <1>16 DEF RunKept, QueryFails
<1>17. ASSUME NEW q \in Readers, NEW f \in Files, NEW l \in Lines, QueryAsks(q, f, l)
      PROVE  RunKept
  BY <1>17 DEF RunKept, QueryAsks
<1>18. ASSUME NEW c \in Cancellers, CancelShortcut(c)
      PROVE  RunKept
  BY <1>18 DEF RunKept, CancelShortcut
<1>19. ASSUME NEW c \in Cancellers, CancelSends(c)
      PROVE  RunKept
  BY <1>19 DEF RunKept, CancelSends
<1>20. ASSUME NEW c \in Cancellers, CancelSweeps(c)
      PROVE  RunKept
  BY <1>20 DEF RunKept, CancelSweeps
<1>21. ASSUME Launch
      PROVE  RunKept
  BY <1>21 DEF RunKept, Launch
<1>22. ASSUME LateCancel
      PROVE  RunKept
  BY <1>22 DEF RunKept, LateCancel
<1>23. ASSUME ProverAdvances
      PROVE  RunKept
  BY <1>23 DEF RunKept, ProverAdvances
<1>24. ASSUME NEW f \in Files, ForkJoins(f)
      PROVE  RunKept
  BY <1>24 DEF RunKept, ForkJoins
<1>25. ASSUME NEW f \in Files, PictureArrives(f)
      PROVE  RunKept
  BY <1>25 DEF RunKept, PictureArrives
<1>26. ASSUME NEW f \in Files, HitLands(f)
      PROVE  RunKept
  BY <1>26 DEF RunKept, HitLands
<1>27. ASSUME NEW f \in Files, HitContinues(f)
      PROVE  RunKept
  BY <1>27 DEF RunKept, HitContinues
<1>28. ASSUME NEW f \in Files, NEW l \in Lines, EditPushed(f, l)
      PROVE  RunKept
  BY <1>28 DEF RunKept, EditPushed
<1>29. ASSUME NEW e \in Evaluators, EvalChecks(e) \/ EvalDecides(e) \/ EvalTimesOut(e)
      PROVE  RunKept
  <2>1. Waited(e) BY <1>29, <1>a, WaitEffect
  <2> QED BY <2>1, WaitedKeeps
<1>30. ASSUME NEW e \in Evaluators, EvalCaretFails(e) \/ EvalAborts(e)
      PROVE  RunKept
  <2>1. GaveUp(e) BY <1>30, <1>a, GiveUpEffect DEF EvalCaretFails, EvalAborts, Joined
  <2> QED BY <2>1 DEF GaveUp, RunKept
<1>31. ASSUME NEW q \in Readers, StatusDecides(q) \/ FooterStamps(q)
      PROVE  RunKept
  <2>1. Judged(q) BY <1>31, StatusEffect, FooterEffect
  <2> QED BY <2>1 DEF Judged, RunKept
<1>32. ASSUME NEW c \in Cancellers,
             CancelReturns(c) \/ CancelFails(c) \/ CancelDropped(c) \/ Catastrophe(c)
      PROVE  RunKept
  <2>1. Stamps("cancelled")
    BY <1>32, <1>a, FinishStamps DEF CancelReturns, CancelFails, CancelDropped,
      Catastrophe, Teardown, ResetRun
  <2> QED BY <2>1 DEF RunKept
<1>33. ASSUME Terminate
      PROVE  RunKept
  <2>1. Stamps("cancelled")
    BY <1>33, <1>a, FinishStamps DEF Terminate, Teardown, ResetRun
  <2> QED BY <2>1 DEF RunKept
<1> QED
  BY <1>1, <1>2, <1>3, <1>4, <1>5, <1>6, <1>7, <1>8, <1>9, <1>10, <1>11, <1>12, <1>13,
    <1>14, <1>15, <1>16, <1>17, <1>18, <1>19, <1>20, <1>21, <1>22, <1>23, <1>24, <1>25,
      <1>26, <1>27, <1>28, <1>29, <1>30, <1>31, <1>32, <1>33 DEF Step, Evaluate, Read,
        Cancel, Environment

LEMMA RunKeptFrame ==
  ASSUME RunKept PROVE UNCHANGED <<file, dest, current>> /\ (active' => active)
<1>1. CASE UNCHANGED <<runState, outcome>>
  BY <1>1 DEF runState
<1>2. ASSUME NEW o, Stamps(o) PROVE UNCHANGED <<file, dest, current>> /\ ~active'
  BY <1>2 DEF Stamps
<1> QED BY <1>1, <1>2 DEF RunKept

\* A run is stamped complete at a target its picture was seen to reach.
LEMMA StampsEarned ==
  ASSUME TypeOK, RunKept, NEW r \in Evaluators, outcome[r] = "", outcome'[r] = "complete"
  PROVE  r = current /\ dest <= peak
<1>1. PICK o \in {"complete", "cancelled", "abandoned"} :
        Stamps(o) /\ (o = "complete" => dest <= peak)
  BY DEF RunKept
<1>2. r = current BY <1>1 DEF Stamps
<1>3. o = "complete" BY <1>1, <1>2, Distinct DEF Stamps
<1> QED BY <1>1, <1>2, <1>3

\* A stamp, once written, stays.
LEMMA StampsStay ==
  ASSUME TypeOK, RunKept \/ UNCHANGED outcome
  PROVE  \A r \in Evaluators : outcome[r] # "" => outcome'[r] = outcome[r]
<1> SUFFICES ASSUME NEW r \in Evaluators, outcome[r] # "" PROVE outcome'[r] = outcome[r]
  OBVIOUS
<1>1. CASE UNCHANGED outcome BY <1>1
<1>2. ASSUME NEW o, Stamps(o) PROVE outcome'[r] = outcome[r]
  <2>1. CASE r = current BY <1>2, <2>1, Distinct DEF Stamps
  <2>2. CASE r # current BY <1>2, <2>2 DEF Stamps
  <2> QED BY <2>1, <2>2
<1> QED BY <1>1, <1>2 DEF RunKept

LEMMA RequestsStep ==
  ASSUME IInv, TypeOK', Step PROVE Requests'
<1> USE Distinct DEF Procs, runState, ledger, requests, prover
<1>a. /\ pc \in [Procs -> Places]
      /\ reply \in [Procs -> Replies]
      /\ run \in [Procs -> Evaluators \cup {NoRun}]
      /\ req \in [Procs -> Req]
      /\ current \in Evaluators \cup {NoRun}
      /\ outcome' \in [Evaluators -> Outcomes]
  BY DEF IInv, TypeOK
<1>b. TypeOK /\ Requests /\ RunLedger BY DEF IInv, Ledger
<1>1. ASSUME NEW e \in Evaluators, EvalRefused(e)
      PROVE  Requests'
  BY <1>1, <1>a, <1>b DEF EvalRefused, Done, Requests, Joined
<1>2. ASSUME NEW e \in Evaluators, NEW f \in Files, NEW l \in Lines, EvalEnters(e, f, l)
      PROVE  Requests'
  BY <1>2, <1>a, <1>b DEF EvalEnters, Goto, Requests, Joined
<1>3. ASSUME NEW e \in Evaluators, EvalOpenFails(e)
      PROVE  Requests'
  BY <1>3, <1>a, <1>b DEF EvalOpenFails, Done, Requests, Joined
<1>4. ASSUME NEW e \in Evaluators, EvalJoins(e)
      PROVE  Requests'
  <2>1. run' = [run EXCEPT ![e] = run'[e]] /\ run'[e] \in Evaluators
    BY <1>4, <1>a, <1>b DEF EvalJoins, JoinOrStart, Joins, RunLedger
  <2>2. /\ pc[e] = "open" /\ pc' = [pc EXCEPT ![e] = pc'[e]]
        /\ pc'[e] \in {"caret", "fresh"}
        /\ UNCHANGED <<reply, req, caret>>
    BY <1>4, <1>a DEF EvalJoins, Goto
  <2> QED BY <2>1, <2>2, <1>a, <1>b DEF Requests, Joined
<1>5. ASSUME NEW e \in Evaluators, EvalCaretSent(e)
      PROVE  Requests'
  BY <1>5, <1>a, <1>b DEF EvalCaretSent, Goto, CaretOf, NoCaret, Requests, Joined
<1>6. ASSUME NEW e \in Evaluators, EvalCaretFails(e)
      PROVE  Requests'
  <2>1. GaveUp(e) BY <1>6, <1>b, GiveUpEffect DEF EvalCaretFails, Joined
  <2> QED
    BY <1>6, <2>1, <1>a, <1>b DEF EvalCaretFails, GaveUp, Done, CaretOf, NoCaret,
      Requests, Joined
<1>7. ASSUME NEW e \in Evaluators, EvalFresh(e)
      PROVE  Requests'
  BY <1>7, <1>a, <1>b DEF EvalFresh, Goto, Requests, Joined
<1>8. ASSUME NEW e \in Evaluators, EvalChecks(e) \/ EvalDecides(e) \/ EvalTimesOut(e)
      PROVE  Requests'
  <2>1. Waited(e) BY <1>8, WaitEffect, <1>a
  <2>2. run' = run /\ req' = req /\ caret' = caret BY <2>1 DEF Waited
  <2>3. \/ /\ pc' = [pc EXCEPT ![e] = pc'[e]] /\ reply' = reply
           /\ pc'[e] \in {"fresh", "park", "snap", "report"}
        \/ /\ pc' = [pc EXCEPT ![e] = "done"] /\ reply' = [reply EXCEPT ![e] = reply'[e]]
    BY <2>1, <1>a DEF Waited
  <2>4. pc[e] \in {"park", "snap"} BY <2>1 DEF Waited
  <2> QED BY <2>2, <2>3, <2>4, <1>a, <1>b DEF Requests, Joined
<1>9. ASSUME NEW e \in Evaluators, EvalAborts(e)
      PROVE  Requests'
  <2>1. GaveUp(e) BY <1>9, <1>b, GiveUpEffect DEF EvalAborts, Joined
  <2> QED BY <1>9, <2>1, <1>a, <1>b DEF EvalAborts, GaveUp, Done, Requests, Joined
<1>10. ASSUME NEW e \in Evaluators, EvalReports(e)
      PROVE  Requests'
  BY <1>10, <1>a, <1>b DEF EvalReports, Done, Requests, Joined
<1>11. ASSUME NEW q \in Readers, StatusCaptures(q)
      PROVE  Requests'
  BY <1>11, <1>a, <1>b DEF StatusCaptures, Goto, Requests, Joined
<1>12. ASSUME NEW q \in Readers, StatusDecides(q)
      PROVE  Requests'
  <2>1. Judged(q) BY <1>12, StatusEffect
  <2> QED BY <1>12, <2>1, <1>a, <1>b DEF StatusDecides, Judged, Requests, Joined
<1>13. ASSUME NEW q \in Readers, FooterCaptures(q)
      PROVE  Requests'
  <2>1. CASE active /\ FrontierReached(file, dest)
    <3>1. current \in Evaluators /\ dest \in Lines BY <2>1, <1>b DEF RunLedger, TypeOK
    <3> QED BY <1>13, <2>1, <3>1, <1>a, <1>b DEF FooterCaptures, Goto, Requests, Joined
  <2>2. CASE ~(active /\ FrontierReached(file, dest))
    BY <1>13, <2>2, <1>a, <1>b DEF FooterCaptures, Done, Requests, Joined
  <2> QED BY <2>1, <2>2
<1>14. ASSUME NEW q \in Readers, FooterJudges(q)
      PROVE  Requests'
  BY <1>14, <1>a, <1>b DEF FooterJudges, Done, Goto, Requests, Joined
<1>15. ASSUME NEW q \in Readers, FooterStamps(q)
      PROVE  Requests'
  <2>1. Judged(q) BY <1>15, FooterEffect
  <2> QED BY <1>15, <2>1, <1>a, <1>b DEF FooterStamps, Judged, Requests, Joined
<1>16. ASSUME NEW q \in Readers, QueryServed(q)
      PROVE  Requests'
  BY <1>16, <1>a, <1>b DEF QueryServed, Done, Requests, Joined
<1>17. ASSUME NEW q \in Readers, QueryRefused(q)
      PROVE  Requests'
  BY <1>17, <1>a, <1>b DEF QueryRefused, Done, Requests, Joined
<1>18. ASSUME NEW q \in Readers, QueryRides(q)
      PROVE  Requests'
  BY <1>18, <1>a, <1>b DEF QueryRides, Goto, Covers, Joins, RunLedger, Requests, Joined
<1>19. ASSUME NEW q \in Readers, QueryUnjoins(q)
      PROVE  Requests'
  BY <1>19, <1>a, <1>b DEF QueryUnjoins, Goto, Requests, Joined
<1>20. ASSUME NEW q \in Readers, QueryJudges(q)
      PROVE  Requests'
  BY <1>20, <1>a, <1>b DEF QueryJudges, Done, Goto, Requests, Joined
<1>21. ASSUME NEW q \in Readers, QueryReports(q)
      PROVE  Requests'
  BY <1>21, <1>a, <1>b DEF QueryReports, Done, Requests, Joined
<1>22. ASSUME NEW q \in Readers, QueryFails(q)
      PROVE  Requests'
  BY <1>22, <1>a, <1>b DEF QueryFails, Done, Requests, Joined
<1>23. ASSUME NEW q \in Readers, NEW f \in Files, NEW l \in Lines, QueryAsks(q, f, l)
      PROVE  Requests'
  BY <1>23, <1>a, <1>b DEF QueryAsks, Goto, Requests, Joined
<1>24. ASSUME NEW c \in Cancellers, CancelShortcut(c)
      PROVE  Requests'
  BY <1>24, <1>a, <1>b DEF CancelShortcut, Done, Requests, Joined
<1>25. ASSUME NEW c \in Cancellers, CancelSends(c)
      PROVE  Requests'
  BY <1>25, <1>a, <1>b DEF CancelSends, Goto, Requests, Joined
<1>26. ASSUME NEW c \in Cancellers, CancelReturns(c)
      PROVE  Requests'
  <2>1. Stamps("cancelled") BY <1>26, <1>b, FinishStamps DEF CancelReturns, ResetRun
  <2> QED
    BY <1>26, <2>1, <1>a, <1>b DEF CancelReturns, Goto, ServerCancelled, ResetRun,
      Requests, Joined
<1>27. ASSUME NEW c \in Cancellers, CancelSweeps(c)
      PROVE  Requests'
  BY <1>27, <1>a, <1>b DEF CancelSweeps, Done, Goto, Requests, Joined
<1>28. ASSUME NEW c \in Cancellers, CancelFails(c)
      PROVE  Requests'
  <2>1. Stamps("cancelled") BY <1>28, <1>b, FinishStamps DEF CancelFails, ResetRun
  <2> QED BY <1>28, <2>1, <1>a, <1>b DEF CancelFails, Goto, ResetRun, Requests, Joined
<1>29. ASSUME NEW c \in Cancellers, CancelDropped(c)
      PROVE  Requests'
  <2>1. Stamps("cancelled") BY <1>29, <1>b, FinishStamps DEF CancelDropped, ResetRun
  <2> QED BY <1>29, <2>1, <1>a, <1>b DEF CancelDropped, Done, ResetRun, Requests, Joined
<1>30. ASSUME NEW c \in Cancellers, Catastrophe(c)
      PROVE  Requests'
  <2>1. Stamps("cancelled") BY <1>30, <1>b, FinishStamps DEF Catastrophe, Teardown, ResetRun
  <2> QED
    BY <1>30, <2>1, <1>a, <1>b DEF Catastrophe, Teardown, ResetRun, Failed, FailedReply,
      Requests, Joined
<1>31. ASSUME Terminate
      PROVE  Requests'
  <2>1. Stamps("cancelled") BY <1>31, <1>b, FinishStamps DEF Terminate, Teardown, ResetRun
  <2> QED
    BY <1>31, <2>1, <1>a, <1>b DEF Terminate, Teardown, ResetRun, Failed, FailedReply,
      Requests, Joined
<1>32. ASSUME Launch
      PROVE  Requests'
  BY <1>32, <1>a, <1>b DEF Launch, Requests, Joined
<1>33. ASSUME LateCancel
      PROVE  Requests'
  BY <1>33, <1>a, <1>b DEF LateCancel, ServerCancelled, Requests, Joined
<1>34. ASSUME ProverAdvances
      PROVE  Requests'
  BY <1>34, <1>a, <1>b DEF ProverAdvances, Requests, Joined
<1>35. ASSUME NEW f \in Files, ForkJoins(f)
      PROVE  Requests'
  BY <1>35, <1>a, <1>b DEF ForkJoins, Requests, Joined
<1>36. ASSUME NEW f \in Files, PictureArrives(f)
      PROVE  Requests'
  BY <1>36, <1>a, <1>b DEF PictureArrives, Requests, Joined
<1>37. ASSUME NEW f \in Files, HitLands(f)
      PROVE  Requests'
  BY <1>37, <1>a, <1>b DEF HitLands, Requests, Joined
<1>38. ASSUME NEW f \in Files, HitContinues(f)
      PROVE  Requests'
  BY <1>38, <1>a, <1>b DEF HitContinues, Requests, Joined
<1>39. ASSUME NEW f \in Files, NEW l \in Lines, EditPushed(f, l)
      PROVE  Requests'
  BY <1>39, <1>a, <1>b DEF EditPushed, Min2, Requests, Joined
<1> QED
  BY <1>1, <1>2, <1>3, <1>4, <1>5, <1>6, <1>7, <1>8, <1>9, <1>10, <1>11, <1>12, <1>13,
    <1>14, <1>15, <1>16, <1>17, <1>18, <1>19, <1>20, <1>21, <1>22, <1>23, <1>24, <1>25,
      <1>26, <1>27, <1>28, <1>29, <1>30, <1>31, <1>32, <1>33, <1>34, <1>35, <1>36, <1>37,
        <1>38, <1>39 DEF Step, Evaluate, Read, Cancel, Environment

-----------------------------------------------------------------------------
(* The lock.                                                               *)

LEMMA LockingStep ==
  ASSUME IInv, TypeOK', Step PROVE Locking'
<1> USE Distinct DEF Procs, runState, ledger, requests, prover
<1>a. /\ pc \in [Procs -> Places]
      /\ req \in [Procs -> Req]
      /\ active \in BOOLEAN
      /\ run \in [Procs -> Evaluators \cup {NoRun}]
      /\ outcome' \in [Evaluators -> Outcomes]
  BY DEF IInv, TypeOK
<1>b. TypeOK /\ Requests /\ Locking BY DEF IInv
<1>1. ASSUME NEW e \in Evaluators, EvalRefused(e)
      PROVE  Locking'
  BY <1>1, <1>a, <1>b DEF EvalRefused, Done, Locking, Holding, BusyWithAnotherFile
<1>2. ASSUME NEW e \in Evaluators, NEW f \in Files, NEW l \in Lines, EvalEnters(e, f, l)
      PROVE  Locking'
  BY <1>2, <1>a, <1>b DEF EvalEnters, Goto, Locking, Holding, BusyWithAnotherFile
<1>3. ASSUME NEW e \in Evaluators, EvalOpenFails(e)
      PROVE  Locking'
  BY <1>3, <1>a, <1>b DEF EvalOpenFails, Done, Locking, Holding, BusyWithAnotherFile
<1>4. ASSUME NEW e \in Evaluators, EvalJoins(e)
      PROVE  Locking'
  BY <1>4, <1>a, <1>b DEF EvalJoins, JoinOrStart, Goto, Advanced, Max2, IsTarget, Joins,
    Locking, Holding, BusyWithAnotherFile
<1>5. ASSUME NEW e \in Evaluators, EvalCaretSent(e)
      PROVE  Locking'
  BY <1>5, <1>a, <1>b DEF EvalCaretSent, Goto, CaretOf, Locking, Holding,
    BusyWithAnotherFile
<1>6. ASSUME NEW e \in Evaluators, EvalCaretFails(e)
      PROVE  Locking'
  <2>1. GaveUp(e) BY <1>6, <1>b, GiveUpEffect DEF EvalCaretFails, Joined
  <2> QED
    BY <1>6, <2>1, <1>a, <1>b DEF EvalCaretFails, GaveUp, Done, CaretOf, Stamps, Locking,
      Holding, BusyWithAnotherFile
<1>7. ASSUME NEW e \in Evaluators, EvalFresh(e)
      PROVE  Locking'
  BY <1>7, <1>a, <1>b DEF EvalFresh, Goto, Locking, Holding, BusyWithAnotherFile
<1>8. ASSUME NEW e \in Evaluators, EvalChecks(e) \/ EvalDecides(e) \/ EvalTimesOut(e)
      PROVE  Locking'
  <2>1. Waited(e) BY <1>8, WaitEffect, <1>a
  <2>2. file' = file /\ (active' => active)
    <3>1. RunKept BY <2>1, WaitedKeeps
    <3> QED BY <3>1, RunKeptFrame
  <2>3. UNCHANGED <<lock, alive, req>> BY <2>1 DEF Waited
  <2>4. pc' = [pc EXCEPT ![e] = pc'[e]] /\ pc'[e] \notin Holding
    BY <2>1, <1>a DEF Waited, Holding
  <2> QED BY <2>2, <2>3, <2>4, <1>a, <1>b DEF Locking, Holding, BusyWithAnotherFile
<1>9. ASSUME NEW e \in Evaluators, EvalAborts(e)
      PROVE  Locking'
  <2>1. GaveUp(e) BY <1>9, <1>b, GiveUpEffect DEF EvalAborts, Joined
  <2>2. file' = file /\ (active' => active)
    <3>1. RunKept BY <2>1 DEF GaveUp, RunKept
    <3> QED BY <3>1, RunKeptFrame
  <2> QED
    BY <1>9, <2>1, <2>2, <1>a, <1>b DEF EvalAborts, GaveUp, Done, Locking, Holding,
      BusyWithAnotherFile
<1>10. ASSUME NEW e \in Evaluators, EvalReports(e)
      PROVE  Locking'
  BY <1>10, <1>a, <1>b DEF EvalReports, Done, Locking, Holding, BusyWithAnotherFile
<1>11. ASSUME NEW q \in Readers, StatusCaptures(q)
      PROVE  Locking'
  BY <1>11, <1>a, <1>b DEF StatusCaptures, Goto, Locking, Holding, BusyWithAnotherFile
<1>12. ASSUME NEW q \in Readers, StatusDecides(q)
      PROVE  Locking'
  <2>1. Judged(q) BY <1>12, StatusEffect
  <2>2. file' = file /\ (active' => active)
    <3>1. RunKept BY <2>1 DEF Judged, RunKept
    <3> QED BY <3>1, RunKeptFrame
  <2>3. UNCHANGED <<lock, alive, req>> /\ pc' = [pc EXCEPT ![q] = "done"] BY <2>1 DEF Judged
  <2> QED BY <2>2, <2>3, <1>a, <1>b DEF Locking, Holding, BusyWithAnotherFile
<1>13. ASSUME NEW q \in Readers, FooterCaptures(q)
      PROVE  Locking'
  BY <1>13, <1>a, <1>b DEF FooterCaptures, Done, Goto, Locking, Holding, BusyWithAnotherFile
<1>14. ASSUME NEW q \in Readers, FooterJudges(q)
      PROVE  Locking'
  BY <1>14, <1>a, <1>b DEF FooterJudges, Done, Goto, Locking, Holding, BusyWithAnotherFile
<1>15. ASSUME NEW q \in Readers, FooterStamps(q)
      PROVE  Locking'
  <2>1. Judged(q) BY <1>15, FooterEffect
  <2>2. file' = file /\ (active' => active)
    <3>1. RunKept BY <2>1 DEF Judged, RunKept
    <3> QED BY <3>1, RunKeptFrame
  <2>3. UNCHANGED <<lock, alive, req>> /\ pc' = [pc EXCEPT ![q] = "done"] BY <2>1 DEF Judged
  <2> QED BY <2>2, <2>3, <1>a, <1>b DEF Locking, Holding, BusyWithAnotherFile
<1>16. ASSUME NEW q \in Readers, QueryServed(q)
      PROVE  Locking'
  BY <1>16, <1>a, <1>b DEF QueryServed, Done, Locking, Holding, BusyWithAnotherFile
<1>17. ASSUME NEW q \in Readers, QueryRefused(q)
      PROVE  Locking'
  BY <1>17, <1>a, <1>b DEF QueryRefused, Done, Locking, Holding, BusyWithAnotherFile
<1>18. ASSUME NEW q \in Readers, QueryRides(q)
      PROVE  Locking'
  BY <1>18, <1>a, <1>b DEF QueryRides, Goto, Locking, Holding, BusyWithAnotherFile
<1>19. ASSUME NEW q \in Readers, QueryUnjoins(q)
      PROVE  Locking'
  BY <1>19, <1>a, <1>b DEF QueryUnjoins, Goto, Locking, Holding, BusyWithAnotherFile
<1>20. ASSUME NEW q \in Readers, QueryJudges(q)
      PROVE  Locking'
  BY <1>20, <1>a, <1>b DEF QueryJudges, Done, Goto, Locking, Holding, BusyWithAnotherFile
<1>21. ASSUME NEW q \in Readers, QueryReports(q)
      PROVE  Locking'
  BY <1>21, <1>a, <1>b DEF QueryReports, Done, Locking, Holding, BusyWithAnotherFile
<1>22. ASSUME NEW q \in Readers, QueryFails(q)
      PROVE  Locking'
  BY <1>22, <1>a, <1>b DEF QueryFails, Done, Locking, Holding, BusyWithAnotherFile
<1>23. ASSUME NEW q \in Readers, NEW f \in Files, NEW l \in Lines, QueryAsks(q, f, l)
      PROVE  Locking'
  BY <1>23, <1>a, <1>b DEF QueryAsks, Goto, Locking, Holding, BusyWithAnotherFile
<1>24. ASSUME NEW c \in Cancellers, CancelShortcut(c)
      PROVE  Locking'
  BY <1>24, <1>a, <1>b DEF CancelShortcut, Done, Locking, Holding, BusyWithAnotherFile
<1>25. ASSUME NEW c \in Cancellers, CancelSends(c)
      PROVE  Locking'
  BY <1>25, <1>a, <1>b DEF CancelSends, Goto, Locking, Holding, BusyWithAnotherFile
<1>26. ASSUME NEW c \in Cancellers, CancelReturns(c)
      PROVE  Locking'
  <2>1. Stamps("cancelled") BY <1>26, <1>b, FinishStamps DEF CancelReturns, ResetRun
  <2> QED
    BY <1>26, <2>1, <1>a, <1>b DEF CancelReturns, Goto, ServerCancelled, ResetRun,
      Stamps, Locking, Holding, BusyWithAnotherFile
<1>27. ASSUME NEW c \in Cancellers, CancelSweeps(c)
      PROVE  Locking'
  BY <1>27, <1>a, <1>b DEF CancelSweeps, Done, Goto, Locking, Holding, BusyWithAnotherFile
<1>28. ASSUME NEW c \in Cancellers, CancelFails(c)
      PROVE  Locking'
  <2>1. Stamps("cancelled") BY <1>28, <1>b, FinishStamps DEF CancelFails, ResetRun
  <2> QED
    BY <1>28, <2>1, <1>a, <1>b DEF CancelFails, Goto, ResetRun, Stamps, Locking, Holding,
      BusyWithAnotherFile
<1>29. ASSUME NEW c \in Cancellers, CancelDropped(c)
      PROVE  Locking'
  <2>1. Stamps("cancelled") BY <1>29, <1>b, FinishStamps DEF CancelDropped, ResetRun
  <2> QED
    BY <1>29, <2>1, <1>a, <1>b DEF CancelDropped, Done, ResetRun, Stamps, Locking,
      Holding, BusyWithAnotherFile
<1>30. ASSUME NEW c \in Cancellers, Catastrophe(c)
      PROVE  Locking'
  <2>1. Stamps("cancelled") BY <1>30, <1>b, FinishStamps DEF Catastrophe, Teardown, ResetRun
  <2> QED
    BY <1>30, <2>1, <1>a, <1>b DEF Catastrophe, Teardown, ResetRun, Failed, FailedReply,
      Stamps, Locking, Holding, BusyWithAnotherFile
<1>31. ASSUME Terminate
      PROVE  Locking'
  <2>1. Stamps("cancelled") BY <1>31, <1>b, FinishStamps DEF Terminate, Teardown, ResetRun
  <2> QED
    BY <1>31, <2>1, <1>a, <1>b DEF Terminate, Teardown, ResetRun, Failed, FailedReply,
      Stamps, Locking, Holding, BusyWithAnotherFile
<1>32. ASSUME Launch
      PROVE  Locking'
  BY <1>32, <1>a, <1>b DEF Launch, Locking, Holding, BusyWithAnotherFile
<1>33. ASSUME LateCancel
      PROVE  Locking'
  BY <1>33, <1>a, <1>b DEF LateCancel, ServerCancelled, Locking, Holding,
    BusyWithAnotherFile
<1>34. ASSUME ProverAdvances
      PROVE  Locking'
  BY <1>34, <1>a, <1>b DEF ProverAdvances, Locking, Holding, BusyWithAnotherFile
<1>35. ASSUME NEW f \in Files, ForkJoins(f)
      PROVE  Locking'
  BY <1>35, <1>a, <1>b DEF ForkJoins, Locking, Holding, BusyWithAnotherFile
<1>36. ASSUME NEW f \in Files, PictureArrives(f)
      PROVE  Locking'
  BY <1>36, <1>a, <1>b DEF PictureArrives, Locking, Holding, BusyWithAnotherFile
<1>37. ASSUME NEW f \in Files, HitLands(f)
      PROVE  Locking'
  BY <1>37, <1>a, <1>b DEF HitLands, Locking, Holding, BusyWithAnotherFile
<1>38. ASSUME NEW f \in Files, HitContinues(f)
      PROVE  Locking'
  BY <1>38, <1>a, <1>b DEF HitContinues, Locking, Holding, BusyWithAnotherFile
<1>39. ASSUME NEW f \in Files, NEW l \in Lines, EditPushed(f, l)
      PROVE  Locking'
  BY <1>39, <1>a, <1>b DEF EditPushed, Min2, Locking, Holding, BusyWithAnotherFile
<1> QED
  BY <1>1, <1>2, <1>3, <1>4, <1>5, <1>6, <1>7, <1>8, <1>9, <1>10, <1>11, <1>12, <1>13,
    <1>14, <1>15, <1>16, <1>17, <1>18, <1>19, <1>20, <1>21, <1>22, <1>23, <1>24, <1>25,
      <1>26, <1>27, <1>28, <1>29, <1>30, <1>31, <1>32, <1>33, <1>34, <1>35, <1>36, <1>37,
        <1>38, <1>39 DEF Step, Evaluate, Read, Cancel, Environment

-----------------------------------------------------------------------------
(* Flag and stamps.                                                        *)

\* A request takes up no run but the current one, and none is forgotten.
PlacesKept ==
  /\ \A p \in Procs : run'[p] \in {run[p], current}
  /\ \A e \in Evaluators : pc'[e] \in {"idle", "open"} => pc[e] \in {"idle", "open"}

LEMMA RunLedgerKept ==
  ASSUME TypeOK, RunLedger, RunKept, PlacesKept PROVE RunLedger'
<1>1. CASE UNCHANGED <<runState, outcome>>
  BY <1>1 DEF RunLedger, PlacesKept, runState
<1>2. ASSUME NEW o \in {"complete", "cancelled", "abandoned"}, Stamps(o) PROVE RunLedger'
  <2>1. ~active' /\ current' = current BY <1>2 DEF Stamps
  <2>2. current # NoRun => outcome'[current] # "" BY <1>2 DEF Stamps
  <2>3. ASSUME NEW p \in Procs, run'[p] \notin {NoRun, current'}
    PROVE outcome'[run'[p]] # ""
    <3>1. run'[p] = run[p] /\ run[p] \in Evaluators /\ run[p] # current
      BY <2>1, <2>3 DEF PlacesKept, TypeOK
    <3>2. outcome[run[p]] # "" BY <3>1, <2>3, Distinct DEF RunLedger
    <3> QED BY <1>2, <3>1, <3>2 DEF Stamps
  <2> QED BY <2>1, <2>2, <2>3 DEF RunLedger
<1> QED BY <1>1, <1>2 DEF RunKept

LEMMA LedgerKept ==
  ASSUME TypeOK, Ledger, RunKept, PlacesKept,
         \A r \in Evaluators : outcome'[r] = "" => swept'[r] = "no"
  PROVE  Ledger'
<1>1. RunLedger' BY RunLedgerKept DEF Ledger
<1>2. ASSUME NEW e \in Evaluators, pc'[e] \in {"idle", "open"}
      PROVE  current' # e /\ outcome'[e] = "" /\ \A p \in Procs : run'[p] # e
  <2>1. current # e /\ outcome[e] = "" /\ \A p \in Procs : run[p] # e
    BY <1>2 DEF PlacesKept, Ledger
  <2>2. current' = current BY DEF RunKept, Stamps, runState
  <2>3. outcome'[e] = outcome[e] BY <2>1 DEF RunKept, Stamps
  <2> QED BY <2>1, <2>2, <2>3 DEF PlacesKept
<1> QED BY <1>1, <1>2 DEF Ledger

LEMMA LedgerStep ==
  ASSUME IInv, TypeOK', Step PROVE Ledger'
<1> USE Distinct DEF Procs, runState, ledger, requests, prover
<1>a. /\ pc \in [Procs -> Places] /\ run \in [Procs -> Evaluators \cup {NoRun}]
      /\ swept \in [Evaluators -> {"no", "reset", "retracted"}]
      /\ outcome \in [Evaluators -> Outcomes] /\ outcome' \in [Evaluators -> Outcomes]
  BY DEF IInv, TypeOK
<1>b. TypeOK /\ Requests /\ Ledger BY DEF IInv
<1>c. (\E e \in Evaluators : EvalJoins(e)) \/ RunKept BY RunStep
<1>d. \A r \in Evaluators : outcome[r] = "" => swept[r] = "no" BY <1>b DEF Ledger
<1>e. RunKept => \A r \in Evaluators : outcome'[r] = "" => outcome[r] = ""
  BY <1>b, StampsStay
<1>1. ASSUME NEW e \in Evaluators, EvalJoins(e)
      PROVE  Ledger'
  <2>1. /\ pc[e] = "open" /\ run[e] = NoRun /\ outcome[e] = "" /\ current # e
        /\ ~BusyWithAnotherFile(req[e].file)
        /\ \A p \in Procs : run[p] # e
    BY <1>1, <1>b DEF EvalJoins, Requests, Ledger, IInv, Locking
  <2>2. /\ active' = TRUE /\ UNCHANGED <<outcome, swept>>
        /\ pc' = [pc EXCEPT ![e] = pc'[e]] /\ pc'[e] \notin {"idle", "open"}
        /\ run' = [run EXCEPT ![e] = current']
        /\ \/ active /\ current' = current
           \/ ~active /\ current' = e
    BY <1>1, <2>1, <1>a DEF EvalJoins, JoinOrStart, Goto, Joins, BusyWithAnotherFile
  <2>3. RunLedger'
    <3>1. current' # NoRun /\ outcome'[current'] = ""
      BY <2>1, <2>2, <1>b DEF Ledger, RunLedger
    <3>2. ASSUME NEW p \in Procs, run'[p] \notin {NoRun, current'}
      PROVE outcome'[run'[p]] # ""
      <4>1. p # e /\ run'[p] = run[p] BY <2>2, <3>2, <1>a
      <4> QED BY <4>1, <3>2, <2>1, <2>2, <1>b DEF Ledger, RunLedger
    <3> QED BY <2>2, <3>1, <3>2 DEF RunLedger
  <2>4. ASSUME NEW d \in Evaluators, pc'[d] \in {"idle", "open"}
        PROVE  current' # d /\ outcome'[d] = "" /\ \A p \in Procs : run'[p] # d
    BY <2>1, <2>2, <2>4, <1>a, <1>b DEF Ledger
  <2> QED BY <2>2, <2>3, <2>4, <1>b DEF Ledger
<1>2. ASSUME NEW e \in Evaluators, EvalRefused(e)
      PROVE  PlacesKept /\ UNCHANGED swept
  BY <1>2, <1>a DEF PlacesKept, EvalRefused, Done
<1>3. ASSUME NEW e \in Evaluators, NEW f \in Files, NEW l \in Lines, EvalEnters(e, f, l)
      PROVE  PlacesKept /\ UNCHANGED swept
  BY <1>3, <1>a DEF PlacesKept, EvalEnters, Goto
<1>4. ASSUME NEW e \in Evaluators, EvalOpenFails(e)
      PROVE  PlacesKept /\ UNCHANGED swept
  BY <1>4, <1>a DEF PlacesKept, EvalOpenFails, Done
<1>5. ASSUME NEW e \in Evaluators, EvalCaretSent(e)
      PROVE  PlacesKept /\ UNCHANGED swept
  BY <1>5, <1>a DEF PlacesKept, EvalCaretSent, Goto
<1>6. ASSUME NEW e \in Evaluators, EvalFresh(e)
      PROVE  PlacesKept /\ UNCHANGED swept
  BY <1>6, <1>a DEF PlacesKept, EvalFresh, Goto
<1>7. ASSUME NEW e \in Evaluators, EvalReports(e)
      PROVE  PlacesKept /\ UNCHANGED swept
  BY <1>7, <1>a DEF PlacesKept, EvalReports, Done
<1>8. ASSUME NEW q \in Readers, StatusCaptures(q)
      PROVE  PlacesKept /\ UNCHANGED swept
  BY <1>8, <1>a DEF PlacesKept, StatusCaptures, Goto
<1>9. ASSUME NEW q \in Readers, FooterCaptures(q)
      PROVE  PlacesKept /\ UNCHANGED swept
  BY <1>9, <1>a DEF PlacesKept, FooterCaptures, Done, Goto
<1>10. ASSUME NEW q \in Readers, FooterJudges(q)
      PROVE  PlacesKept /\ UNCHANGED swept
  BY <1>10, <1>a DEF PlacesKept, FooterJudges, Done, Goto
<1>11. ASSUME NEW q \in Readers, QueryServed(q)
      PROVE  PlacesKept /\ UNCHANGED swept
  BY <1>11, <1>a DEF PlacesKept, QueryServed, Done
<1>12. ASSUME NEW q \in Readers, QueryRefused(q)
      PROVE  PlacesKept /\ UNCHANGED swept
  BY <1>12, <1>a DEF PlacesKept, QueryRefused, Done
<1>13. ASSUME NEW q \in Readers, QueryRides(q)
      PROVE  PlacesKept /\ UNCHANGED swept
  BY <1>13, <1>a DEF PlacesKept, QueryRides, Goto
<1>14. ASSUME NEW q \in Readers, QueryUnjoins(q)
      PROVE  PlacesKept /\ UNCHANGED swept
  BY <1>14, <1>a DEF PlacesKept, QueryUnjoins, Goto
<1>15. ASSUME NEW q \in Readers, QueryJudges(q)
      PROVE  PlacesKept /\ UNCHANGED swept
  BY <1>15, <1>a DEF PlacesKept, QueryJudges, Done, Goto
<1>16. ASSUME NEW q \in Readers, QueryReports(q)
      PROVE  PlacesKept /\ UNCHANGED swept
  BY <1>16, <1>a DEF PlacesKept, QueryReports, Done
<1>17. ASSUME NEW q \in Readers, QueryFails(q)
      PROVE  PlacesKept /\ UNCHANGED swept
  BY <1>17, <1>a DEF PlacesKept, QueryFails, Done
<1>18. ASSUME NEW q \in Readers, NEW f \in Files, NEW l \in Lines, QueryAsks(q, f, l)
      PROVE  PlacesKept /\ UNCHANGED swept
  BY <1>18, <1>a DEF PlacesKept, QueryAsks, Goto
<1>19. ASSUME NEW c \in Cancellers, CancelShortcut(c)
      PROVE  PlacesKept /\ UNCHANGED swept
  BY <1>19, <1>a DEF PlacesKept, CancelShortcut, Done
<1>20. ASSUME NEW c \in Cancellers, CancelSends(c)
      PROVE  PlacesKept /\ UNCHANGED swept
  BY <1>20, <1>a DEF PlacesKept, CancelSends, Goto
<1>21. ASSUME NEW c \in Cancellers, CancelSweeps(c)
      PROVE  PlacesKept /\ UNCHANGED swept
  BY <1>21, <1>a DEF PlacesKept, CancelSweeps, Done, Goto
<1>22. ASSUME Launch
      PROVE  PlacesKept /\ UNCHANGED swept
  BY <1>22, <1>a DEF PlacesKept, Launch
<1>23. ASSUME LateCancel
      PROVE  PlacesKept /\ UNCHANGED swept
  BY <1>23, <1>a DEF PlacesKept, LateCancel
<1>24. ASSUME ProverAdvances
      PROVE  PlacesKept /\ UNCHANGED swept
  BY <1>24, <1>a DEF PlacesKept, ProverAdvances
<1>25. ASSUME NEW f \in Files, ForkJoins(f)
      PROVE  PlacesKept /\ UNCHANGED swept
  BY <1>25, <1>a DEF PlacesKept, ForkJoins
<1>26. ASSUME NEW f \in Files, PictureArrives(f)
      PROVE  PlacesKept /\ UNCHANGED swept
  BY <1>26, <1>a DEF PlacesKept, PictureArrives
<1>27. ASSUME NEW f \in Files, HitLands(f)
      PROVE  PlacesKept /\ UNCHANGED swept
  BY <1>27, <1>a DEF PlacesKept, HitLands
<1>28. ASSUME NEW f \in Files, HitContinues(f)
      PROVE  PlacesKept /\ UNCHANGED swept
  BY <1>28, <1>a DEF PlacesKept, HitContinues
<1>29. ASSUME NEW f \in Files, NEW l \in Lines, EditPushed(f, l)
      PROVE  PlacesKept /\ UNCHANGED swept
  BY <1>29, <1>a DEF PlacesKept, EditPushed
<1>30. ASSUME NEW e \in Evaluators, EvalChecks(e) \/ EvalDecides(e) \/ EvalTimesOut(e)
      PROVE  PlacesKept /\ UNCHANGED swept
  <2>1. Waited(e) BY <1>30, <1>a, WaitEffect
  <2> QED BY <2>1, <1>a DEF Waited, PlacesKept
<1>31. ASSUME NEW e \in Evaluators, EvalCaretFails(e) \/ EvalAborts(e)
      PROVE  PlacesKept /\ UNCHANGED swept
  <2>1. GaveUp(e) BY <1>31, <1>b, GiveUpEffect DEF EvalCaretFails, EvalAborts, Joined
  <2> QED BY <1>31, <2>1, <1>a DEF EvalCaretFails, EvalAborts, GaveUp, Done, PlacesKept
<1>32. ASSUME NEW q \in Readers, StatusDecides(q) \/ FooterStamps(q)
      PROVE  PlacesKept /\ UNCHANGED swept
  <2>1. Judged(q) BY <1>32, StatusEffect, FooterEffect
  <2> QED BY <2>1, <1>a DEF Judged, PlacesKept
<1>33. ASSUME NEW c \in Cancellers, CancelReturns(c)
      PROVE  PlacesKept /\ \E how \in {"reset", "retracted"} : ResetRun(how)
  BY <1>33, <1>a DEF PlacesKept, CancelReturns, Goto
<1>34. ASSUME NEW c \in Cancellers, CancelFails(c)
      PROVE  PlacesKept /\ \E how \in {"reset", "retracted"} : ResetRun(how)
  BY <1>34, <1>a DEF PlacesKept, CancelFails, Goto
<1>35. ASSUME NEW c \in Cancellers, CancelDropped(c)
      PROVE  PlacesKept /\ \E how \in {"reset", "retracted"} : ResetRun(how)
  BY <1>35, <1>a DEF PlacesKept, CancelDropped, Done
<1>36. ASSUME NEW c \in Cancellers, Catastrophe(c)
      PROVE  PlacesKept /\ \E how \in {"reset", "retracted"} : ResetRun(how)
  BY <1>36, <1>a DEF PlacesKept, Catastrophe, Failed, Teardown
<1>37. ASSUME Terminate
      PROVE  PlacesKept /\ \E how \in {"reset", "retracted"} : ResetRun(how)
  BY <1>37, <1>a DEF PlacesKept, Terminate, Teardown, Failed
<1>y. ASSUME NEW how \in {"reset", "retracted"}, ResetRun(how)
      PROVE  \A r \in Evaluators : outcome'[r] = "" => swept'[r] = "no"
  <2>1. Stamps("cancelled") BY <1>y, <1>b, FinishStamps DEF ResetRun
  <2>2. ASSUME NEW r \in Evaluators, outcome'[r] = "" PROVE swept'[r] = "no"
    <3>1. r # current BY <2>1, <2>2 DEF Stamps
    <3>2. outcome[r] = "" BY <2>1, <2>2, <3>1 DEF Stamps
    <3> QED BY <1>y, <3>1, <3>2, <1>a, <1>d DEF ResetRun
  <2> QED BY <2>2
<1>z. (\E e \in Evaluators : EvalJoins(e)) \/ (PlacesKept /\ \A r \in Evaluators : outcome'[r] = "" => swept'[r] = "no")
  BY <1>c, <1>d, <1>e, <1>y, <1>2, <1>3, <1>4, <1>5, <1>6, <1>7, <1>8, <1>9, <1>10,
    <1>11, <1>12, <1>13, <1>14, <1>15, <1>16, <1>17, <1>18, <1>19, <1>20, <1>21, <1>22,
      <1>23, <1>24, <1>25, <1>26, <1>27, <1>28, <1>29, <1>30, <1>31, <1>32, <1>33, <1>34,
        <1>35, <1>36, <1>37 DEF Step, Evaluate, Read, Cancel, Environment
<1> QED BY <1>1, <1>b, <1>c, <1>z, LedgerKept


-----------------------------------------------------------------------------
(* The caret.                                                              *)

LEMMA DrivingKept ==
  ASSUME Driving, UNCHANGED <<file, dest, current, caret>>, active' => active,
         stranded \subseteq stranded',
         \A e \in Evaluators :
           /\ pc'[e] = "caret" <=> pc[e] = "caret"
           /\ pc[e] = "caret" => run'[e] = run[e] /\ req'[e] = req[e],
         caret.run # NoRun => (swept'[caret.run] = "retracted" => swept[caret.run] = "retracted"),
         \A e \in Evaluators :
           pc[e] = "caret" /\ swept'[run[e]] = "retracted" => swept[run[e]] = "retracted"
  PROVE  Driving'
BY DEF Driving, Target, CaretOf, NoCaretAfterCancel

\* A cancel or a teardown: the caret is gone and the run is over.
LEMMA NoCaretDriven ==
  ASSUME caret' = NoCaret, ~active', \A e \in Evaluators : pc'[e] # "caret" PROVE Driving'
BY DEF Driving, NoCaret, NoCaretAfterCancel

LEMMA DrivingStep ==
  ASSUME IInv, TypeOK', Step PROVE Driving'
<1> USE Distinct DEF Procs, runState, ledger, requests, prover
<1>a. /\ pc \in [Procs -> Places]
      /\ run \in [Procs -> Evaluators \cup {NoRun}]
      /\ req \in [Procs -> Req]
      /\ active \in BOOLEAN
      /\ current \in Evaluators \cup {NoRun}
      /\ outcome \in [Evaluators -> Outcomes]
      /\ swept \in [Evaluators -> {"no", "reset", "retracted"}]
      /\ caret \in Caret
      /\ dest \in Lines
      /\ outcome' \in [Evaluators -> Outcomes]
  BY DEF IInv, TypeOK
<1>b. TypeOK /\ Requests /\ Locking /\ Ledger /\ Driving BY DEF IInv
<1>1. ASSUME NEW e \in Evaluators, EvalRefused(e)
      PROVE  Driving'
  BY <1>1, <1>a, <1>b DEF EvalRefused, Done, Driving, Target, CaretOf, NoCaretAfterCancel
<1>2. ASSUME NEW e \in Evaluators, NEW f \in Files, NEW l \in Lines, EvalEnters(e, f, l)
      PROVE  Driving'
  BY <1>2, <1>a, <1>b DEF EvalEnters, Goto, Driving, Target, CaretOf, NoCaretAfterCancel
<1>3. ASSUME NEW e \in Evaluators, EvalOpenFails(e)
      PROVE  Driving'
  BY <1>3, <1>a, <1>b DEF EvalOpenFails, Done, Driving, Target, CaretOf, NoCaretAfterCancel
<1>4. ASSUME NEW e \in Evaluators, EvalJoins(e)
      PROVE  Driving'
  <2>1. /\ pc[e] = "open" /\ ~BusyWithAnotherFile(req[e].file) /\ req[e].line \in Lines
        /\ outcome[e] = "" /\ current # e /\ lock = e
    BY <1>4, <1>b DEF EvalJoins, Requests, Ledger, Locking, Holding
  <2>7. dest \in Int /\ req[e].line \in Int
    <3>1. req[e].line \in Lines BY <2>1
    <3>2. dest \in Lines BY <1>a
    <3> QED BY <3>1, <3>2, LinesInt
  <2>2. \A d \in Evaluators : pc[d] # "caret"
    BY <2>1, <1>b, <1>a DEF Locking, Holding
  <2>3. /\ UNCHANGED <<caret, stranded, swept, req>>
        /\ run' = [run EXCEPT ![e] = current'] /\ pc' = [pc EXCEPT ![e] = pc'[e]]
        /\ file' = req[e].file
    BY <1>4, <1>a DEF EvalJoins, JoinOrStart, Goto
  <2>4. current' \in Evaluators /\ swept[current'] # "retracted"
    <3>1. CASE Joins(req[e].file)
      BY <1>4, <3>1, <1>b DEF EvalJoins, JoinOrStart, Joins, Ledger, RunLedger, TypeOK
    <3>2. CASE ~Joins(req[e].file)
      BY <1>4, <3>2, <2>1, <1>b DEF EvalJoins, JoinOrStart, Ledger
    <3> QED BY <3>1, <3>2
  <2>5. CASE IsTarget(req[e].file, req[e].line)
    <3>1. pc'[e] = "caret" BY <1>4, <2>5, <1>a DEF EvalJoins, Goto
    <3>2. dest' = req[e].line
      <4>1. CASE Joins(req[e].file)
        <5>1. req[e].line >= dest BY <2>5, <4>1 DEF IsTarget
        <5>2. Max2(dest, req[e].line) = req[e].line BY <5>1, <2>7 DEF Max2
        <5> QED BY <1>4, <4>1, <5>2 DEF EvalJoins, JoinOrStart, Advanced
      <4>2. CASE ~Joins(req[e].file) BY <1>4, <4>2 DEF EvalJoins, JoinOrStart
      <4> QED BY <4>1, <4>2
    <3> QED
      BY <3>1, <3>2, <2>2, <2>3, <2>4, <1>a, <1>b DEF Driving, Target, CaretOf,
        NoCaretAfterCancel
  <2>6. CASE ~IsTarget(req[e].file, req[e].line)
    <3>1. pc'[e] = "fresh" BY <1>4, <2>6, <1>a DEF EvalJoins, Goto
    <3>2. Joins(req[e].file) /\ ~(req[e].line >= dest) BY <2>6 DEF IsTarget
    <3>3. Max2(dest, req[e].line) = dest BY <3>2, <2>7 DEF Max2
    <3>4. dest' = dest /\ current' = current
      BY <1>4, <3>2, <3>3 DEF EvalJoins, JoinOrStart, Advanced
    <3>5. file' = file /\ active BY <2>3, <3>2 DEF Joins
    <3> QED
      BY <3>1, <3>4, <3>5, <2>2, <2>3, <1>a, <1>b DEF Driving, Target, NoCaretAfterCancel
  <2> QED BY <2>5, <2>6
<1>5. ASSUME NEW e \in Evaluators, EvalCaretSent(e)
      PROVE  Driving'
  BY <1>5, <1>a, <1>b DEF EvalCaretSent, Goto, CaretOf, Locking, Holding, Driving,
    Target, NoCaretAfterCancel
<1>6. ASSUME NEW e \in Evaluators, EvalCaretFails(e)
      PROVE  Driving'
  <2>1. GaveUp(e) BY <1>6, <1>b, GiveUpEffect DEF EvalCaretFails, Joined
  <2>2. UNCHANGED <<file, dest, current>> /\ (active' => active)
    <3>1. RunKept BY <2>1 DEF GaveUp, RunKept
    <3> QED BY <3>1, RunKeptFrame
  <2>3. \A d \in Evaluators \ {e} : pc[d] # "caret"
    BY <1>6, <1>b, <1>a DEF EvalCaretFails, Locking, Holding
  <2>4. CaretOf(e) = Target /\ run[e] = current /\ current \in Evaluators /\ swept[run[e]] # "retracted"
    BY <1>6, <2>1, <1>b DEF EvalCaretFails, Driving, CaretOf, Target, GaveUp
  <2>5. \A d \in Evaluators : pc'[d] # "caret"
    BY <2>1, <2>3, <1>a DEF GaveUp, Done
  <2>6. CASE caret' = CaretOf(e)
    BY <1>6, <2>2, <2>4, <2>5, <2>6, <1>b DEF EvalCaretFails, Driving, Target,
      NoCaretAfterCancel
  <2>7. CASE caret' = caret /\ caret' # CaretOf(e)
    BY <1>6, <2>2, <2>4, <2>5, <2>7, <1>b DEF EvalCaretFails, Driving, Target,
      NoCaretAfterCancel
  <2> QED BY <1>6, <2>6, <2>7 DEF EvalCaretFails
<1>7. ASSUME NEW e \in Evaluators, EvalFresh(e)
      PROVE  Driving'
  BY <1>7, <1>a, <1>b DEF EvalFresh, Goto, Driving, Target, CaretOf, NoCaretAfterCancel
<1>8. ASSUME NEW e \in Evaluators, EvalChecks(e) \/ EvalDecides(e) \/ EvalTimesOut(e)
      PROVE  Driving'
  <2>1. Waited(e) BY <1>8, WaitEffect, <1>a
  <2>2. UNCHANGED <<file, dest, current>> /\ (active' => active)
    <3>1. RunKept BY <2>1, WaitedKeeps
    <3> QED BY <3>1, RunKeptFrame
  <2>3. UNCHANGED <<caret, stranded, swept, run, req>> BY <2>1 DEF Waited
  <2>4. \A d \in Evaluators : pc'[d] = "caret" <=> pc[d] = "caret" BY <2>1, <1>a DEF Waited
  <2> QED BY <2>2, <2>3, <2>4, <1>b, DrivingKept
<1>9. ASSUME NEW e \in Evaluators, EvalAborts(e)
      PROVE  Driving'
  <2>1. GaveUp(e) BY <1>9, <1>b, GiveUpEffect DEF EvalAborts, Joined
  <2>2. UNCHANGED <<file, dest, current>> /\ (active' => active)
    <3>1. RunKept BY <2>1 DEF GaveUp, RunKept
    <3> QED BY <3>1, RunKeptFrame
  <2>3. UNCHANGED <<caret, stranded, swept, run, req>>
    BY <1>9, <2>1 DEF EvalAborts, GaveUp, Done
  <2>4. \A d \in Evaluators : pc'[d] = "caret" <=> pc[d] = "caret"
    BY <1>9, <2>1, <1>a DEF EvalAborts, GaveUp, Done
  <2> QED BY <2>2, <2>3, <2>4, <1>b, DrivingKept
<1>10. ASSUME NEW e \in Evaluators, EvalReports(e)
      PROVE  Driving'
  BY <1>10, <1>a, <1>b DEF EvalReports, Done, Driving, Target, CaretOf, NoCaretAfterCancel
<1>11. ASSUME NEW q \in Readers, StatusCaptures(q)
      PROVE  Driving'
  BY <1>11, <1>a, <1>b DEF StatusCaptures, Goto, Driving, Target, CaretOf,
    NoCaretAfterCancel
<1>12. ASSUME NEW q \in Readers, StatusDecides(q)
      PROVE  Driving'
  <2>1. Judged(q) BY <1>12, StatusEffect
  <2>2. UNCHANGED <<file, dest, current>> /\ (active' => active)
    <3>1. RunKept BY <2>1 DEF Judged, RunKept
    <3> QED BY <3>1, RunKeptFrame
  <2>3. UNCHANGED <<caret, stranded, swept, run, req>> BY <2>1 DEF Judged
  <2>4. pc[q] # "caret" BY <1>12 DEF StatusDecides, FooterStamps
  <2>5. \A d \in Evaluators : pc'[d] = "caret" <=> pc[d] = "caret"
    BY <2>1, <2>4, <1>a DEF Judged
  <2> QED BY <2>2, <2>3, <2>5, <1>b, DrivingKept
<1>13. ASSUME NEW q \in Readers, FooterCaptures(q)
      PROVE  Driving'
  BY <1>13, <1>a, <1>b DEF FooterCaptures, Done, Goto, Driving, Target, CaretOf,
    NoCaretAfterCancel
<1>14. ASSUME NEW q \in Readers, FooterJudges(q)
      PROVE  Driving'
  BY <1>14, <1>a, <1>b DEF FooterJudges, Done, Goto, Driving, Target, CaretOf,
    NoCaretAfterCancel
<1>15. ASSUME NEW q \in Readers, FooterStamps(q)
      PROVE  Driving'
  <2>1. Judged(q) BY <1>15, FooterEffect
  <2>2. UNCHANGED <<file, dest, current>> /\ (active' => active)
    <3>1. RunKept BY <2>1 DEF Judged, RunKept
    <3> QED BY <3>1, RunKeptFrame
  <2>3. UNCHANGED <<caret, stranded, swept, run, req>> BY <2>1 DEF Judged
  <2>4. pc[q] # "caret" BY <1>15 DEF StatusDecides, FooterStamps
  <2>5. \A d \in Evaluators : pc'[d] = "caret" <=> pc[d] = "caret"
    BY <2>1, <2>4, <1>a DEF Judged
  <2> QED BY <2>2, <2>3, <2>5, <1>b, DrivingKept
<1>16. ASSUME NEW q \in Readers, QueryServed(q)
      PROVE  Driving'
  BY <1>16, <1>a, <1>b DEF QueryServed, Done, Driving, Target, CaretOf, NoCaretAfterCancel
<1>17. ASSUME NEW q \in Readers, QueryRefused(q)
      PROVE  Driving'
  BY <1>17, <1>a, <1>b DEF QueryRefused, Done, Driving, Target, CaretOf, NoCaretAfterCancel
<1>18. ASSUME NEW q \in Readers, QueryRides(q)
      PROVE  Driving'
  BY <1>18, <1>a, <1>b DEF QueryRides, Goto, Driving, Target, CaretOf, NoCaretAfterCancel
<1>19. ASSUME NEW q \in Readers, QueryUnjoins(q)
      PROVE  Driving'
  BY <1>19, <1>a, <1>b DEF QueryUnjoins, Goto, Driving, Target, CaretOf, NoCaretAfterCancel
<1>20. ASSUME NEW q \in Readers, QueryJudges(q)
      PROVE  Driving'
  BY <1>20, <1>a, <1>b DEF QueryJudges, Done, Goto, Driving, Target, CaretOf,
    NoCaretAfterCancel
<1>21. ASSUME NEW q \in Readers, QueryReports(q)
      PROVE  Driving'
  BY <1>21, <1>a, <1>b DEF QueryReports, Done, Driving, Target, CaretOf, NoCaretAfterCancel
<1>22. ASSUME NEW q \in Readers, QueryFails(q)
      PROVE  Driving'
  BY <1>22, <1>a, <1>b DEF QueryFails, Done, Driving, Target, CaretOf, NoCaretAfterCancel
<1>23. ASSUME NEW q \in Readers, NEW f \in Files, NEW l \in Lines, QueryAsks(q, f, l)
      PROVE  Driving'
  BY <1>23, <1>a, <1>b DEF QueryAsks, Goto, Driving, Target, CaretOf, NoCaretAfterCancel
<1>24. ASSUME NEW c \in Cancellers, CancelShortcut(c)
      PROVE  Driving'
  BY <1>24, <1>a, <1>b DEF CancelShortcut, Done, Driving, Target, CaretOf,
    NoCaretAfterCancel
<1>25. ASSUME NEW c \in Cancellers, CancelSends(c)
      PROVE  Driving'
  BY <1>25, <1>a, <1>b DEF CancelSends, Goto, Driving, Target, CaretOf, NoCaretAfterCancel
<1>26. ASSUME NEW c \in Cancellers, CancelReturns(c)
      PROVE  Driving'
  <2>1. ~active' BY <1>26 DEF CancelReturns, ResetRun, Finish
  <2>2. \A e \in Evaluators : pc'[e] # "caret"
    BY <1>26, <1>a, <1>b DEF CancelReturns, Goto, Locking, Holding
  <2> QED BY <1>26, <2>1, <2>2, NoCaretDriven DEF CancelReturns, ServerCancelled
<1>27. ASSUME NEW c \in Cancellers, CancelSweeps(c)
      PROVE  Driving'
  BY <1>27, <1>a, <1>b DEF CancelSweeps, Done, Goto, Driving, Target, CaretOf,
    NoCaretAfterCancel
<1>28. ASSUME NEW c \in Cancellers, CancelFails(c)
      PROVE  Driving'
  <2>1. UNCHANGED <<file, dest, current, caret, stranded, run, req>> /\ ~active'
    BY <1>28 DEF CancelFails, ResetRun, Finish, Done
  <2>2. \A e \in Evaluators : pc[e] # "caret" /\ pc'[e] # "caret"
    BY <1>28, <1>a, <1>b DEF CancelFails, Goto, Done, Locking, Holding
  <2>3. \A r \in Evaluators : swept'[r] = "retracted" => swept[r] = "retracted"
    BY <1>28, <1>a DEF CancelFails, ResetRun
  <2>4. caret.run # NoRun => caret.run \in Evaluators BY <1>a DEF Caret
  <2> QED BY <2>1, <2>2, <2>3, <2>4, <1>b, DrivingKept
<1>29. ASSUME NEW c \in Cancellers, CancelDropped(c)
      PROVE  Driving'
  <2>1. UNCHANGED <<file, dest, current, caret, stranded, run, req>> /\ ~active'
    BY <1>29 DEF CancelDropped, ResetRun, Finish, Done
  <2>2. \A e \in Evaluators : pc[e] # "caret" /\ pc'[e] # "caret"
    BY <1>29, <1>a, <1>b DEF CancelDropped, Goto, Done, Locking, Holding
  <2>3. \A r \in Evaluators : swept'[r] = "retracted" => swept[r] = "retracted"
    BY <1>29, <1>a DEF CancelDropped, ResetRun
  <2>4. caret.run # NoRun => caret.run \in Evaluators BY <1>a DEF Caret
  <2> QED BY <2>1, <2>2, <2>3, <2>4, <1>b, DrivingKept
<1>30. ASSUME NEW c \in Cancellers, Catastrophe(c)
      PROVE  Driving'
  <2>1. ~active' /\ caret' = NoCaret BY <1>30 DEF Catastrophe, Teardown, ResetRun, Finish
  <2>2. \A e \in Evaluators : pc[e] # "caret"
    BY <1>30, <1>a, <1>b DEF Catastrophe, Locking, Holding
  <2>3. \A e \in Evaluators : pc'[e] # "caret" BY <1>30, <2>2, <1>a DEF Catastrophe, Failed
  <2> QED BY <2>1, <2>3, NoCaretDriven
<1>31. ASSUME Terminate
      PROVE  Driving'
  <2>1. ~active' /\ caret' = NoCaret BY <1>31 DEF Terminate, Teardown, ResetRun, Finish
  <2>2. \A e \in Evaluators : pc[e] # "caret"
    BY <1>31, <1>a, <1>b DEF Terminate, Locking, Holding
  <2>3. \A e \in Evaluators : pc'[e] # "caret" BY <1>31, <2>2, <1>a DEF Terminate, Failed
  <2> QED BY <2>1, <2>3, NoCaretDriven
<1>32. ASSUME Launch
      PROVE  Driving'
  BY <1>32, <1>a, <1>b DEF Launch, Driving, Target, CaretOf, NoCaretAfterCancel
<1>33. ASSUME LateCancel
      PROVE  Driving'
  <2>1. CASE active' /\ current' \notin stranded' /\ \A e \in Evaluators : pc'[e] # "caret"
    <3>1. active /\ current \in Evaluators /\ current \notin stranded
          /\ \A e \in Evaluators : pc[e] # "caret"
      BY <1>33, <2>1, <1>b DEF LateCancel, Ledger, RunLedger, TypeOK
    <3>2. caret.run = current BY <3>1, <1>b DEF Driving, Target
    <3>3. current \in stranded' BY <1>33, <3>1, <3>2 DEF LateCancel
    <3> QED BY <1>33, <2>1, <3>3 DEF LateCancel
  <2>2. CASE ~(active' /\ current' \notin stranded' /\ \A e \in Evaluators : pc'[e] # "caret")
    BY <1>33, <2>2, <1>a, <1>b DEF LateCancel, ServerCancelled, Driving, Target, CaretOf,
      NoCaret, NoCaretAfterCancel
  <2> QED BY <2>1, <2>2
<1>34. ASSUME ProverAdvances
      PROVE  Driving'
  BY <1>34, <1>a, <1>b DEF ProverAdvances, Driving, Target, CaretOf, NoCaretAfterCancel
<1>35. ASSUME NEW f \in Files, ForkJoins(f)
      PROVE  Driving'
  BY <1>35, <1>a, <1>b DEF ForkJoins, Driving, Target, CaretOf, NoCaretAfterCancel
<1>36. ASSUME NEW f \in Files, PictureArrives(f)
      PROVE  Driving'
  BY <1>36, <1>a, <1>b DEF PictureArrives, Driving, Target, CaretOf, NoCaretAfterCancel
<1>37. ASSUME NEW f \in Files, HitLands(f)
      PROVE  Driving'
  BY <1>37, <1>a, <1>b DEF HitLands, Driving, Target, CaretOf, NoCaretAfterCancel
<1>38. ASSUME NEW f \in Files, HitContinues(f)
      PROVE  Driving'
  BY <1>38, <1>a, <1>b DEF HitContinues, Driving, Target, CaretOf, NoCaretAfterCancel
<1>39. ASSUME NEW f \in Files, NEW l \in Lines, EditPushed(f, l)
      PROVE  Driving'
  BY <1>39, <1>a, <1>b DEF EditPushed, Min2, Driving, Target, CaretOf, NoCaretAfterCancel
<1> QED
  BY <1>1, <1>2, <1>3, <1>4, <1>5, <1>6, <1>7, <1>8, <1>9, <1>10, <1>11, <1>12, <1>13,
    <1>14, <1>15, <1>16, <1>17, <1>18, <1>19, <1>20, <1>21, <1>22, <1>23, <1>24, <1>25,
      <1>26, <1>27, <1>28, <1>29, <1>30, <1>31, <1>32, <1>33, <1>34, <1>35, <1>36, <1>37,
        <1>38, <1>39 DEF Step, Evaluate, Read, Cancel, Environment

-----------------------------------------------------------------------------
(* COMPLETED is said of stamped runs.                                      *)

\* Nobody but a judge of a completed run answers COMPLETED.
AnswersKept == \A p \in Procs : reply'[p] = "complete" =>
                 \/ reply[p] = "complete" /\ run'[p] = run[p]
                 \/ run'[p] \in Evaluators /\ outcome'[run'[p]] = "complete"

LEMMA CompletionsStep ==
  ASSUME IInv, TypeOK', Step PROVE Completions'
<1> USE Distinct DEF Procs, runState, ledger, requests, prover
<1>a. /\ pc \in [Procs -> Places] /\ run \in [Procs -> Evaluators \cup {NoRun}]
      /\ reply \in [Procs -> Replies]
      /\ outcome \in [Evaluators -> Outcomes] /\ outcome' \in [Evaluators -> Outcomes]
  BY DEF IInv, TypeOK
<1>b. TypeOK /\ Requests /\ Completions BY DEF IInv
<1>c. \A r \in Evaluators : outcome[r] # "" => outcome'[r] = outcome[r]
  <2>1. (\E e \in Evaluators : EvalJoins(e)) \/ RunKept BY RunStep
  <2>2. ASSUME NEW e \in Evaluators, EvalJoins(e) PROVE UNCHANGED outcome
    BY <2>2 DEF EvalJoins, JoinOrStart
  <2> QED BY <2>1, <2>2, <1>b, StampsStay
<1>1. ASSUME NEW e \in Evaluators, EvalRefused(e)
      PROVE  AnswersKept
  BY <1>1, <1>a, <1>b DEF AnswersKept, Requests, EvalRefused, Done
<1>2. ASSUME NEW e \in Evaluators, NEW f \in Files, NEW l \in Lines, EvalEnters(e, f, l)
      PROVE  AnswersKept
  BY <1>2, <1>a, <1>b DEF AnswersKept, Requests, EvalEnters, Goto
<1>3. ASSUME NEW e \in Evaluators, EvalOpenFails(e)
      PROVE  AnswersKept
  BY <1>3, <1>a, <1>b DEF AnswersKept, Requests, EvalOpenFails, Done
<1>4. ASSUME NEW e \in Evaluators, EvalJoins(e)
      PROVE  AnswersKept
  BY <1>4, <1>a, <1>b DEF AnswersKept, Requests, EvalJoins, JoinOrStart, Goto
<1>5. ASSUME NEW e \in Evaluators, EvalCaretSent(e)
      PROVE  AnswersKept
  BY <1>5, <1>a, <1>b DEF AnswersKept, Requests, EvalCaretSent, Goto
<1>6. ASSUME NEW e \in Evaluators, EvalFresh(e)
      PROVE  AnswersKept
  BY <1>6, <1>a, <1>b DEF AnswersKept, Requests, EvalFresh, Goto
<1>7. ASSUME NEW e \in Evaluators, EvalReports(e)
      PROVE  AnswersKept
  BY <1>7, <1>a, <1>b DEF AnswersKept, Requests, EvalReports, Done
<1>8. ASSUME NEW q \in Readers, StatusCaptures(q)
      PROVE  AnswersKept
  BY <1>8, <1>a, <1>b DEF AnswersKept, Requests, StatusCaptures, Goto
<1>9. ASSUME NEW q \in Readers, FooterCaptures(q)
      PROVE  AnswersKept
  BY <1>9, <1>a, <1>b DEF AnswersKept, Requests, FooterCaptures, Done, Goto
<1>10. ASSUME NEW q \in Readers, FooterJudges(q)
      PROVE  AnswersKept
  BY <1>10, <1>a, <1>b DEF AnswersKept, Requests, FooterJudges, Done, Goto
<1>11. ASSUME NEW q \in Readers, QueryServed(q)
      PROVE  AnswersKept
  BY <1>11, <1>a, <1>b DEF AnswersKept, Requests, QueryServed, Done
<1>12. ASSUME NEW q \in Readers, QueryRefused(q)
      PROVE  AnswersKept
  BY <1>12, <1>a, <1>b DEF AnswersKept, Requests, QueryRefused, Done
<1>13. ASSUME NEW q \in Readers, QueryRides(q)
      PROVE  AnswersKept
  BY <1>13, <1>a, <1>b DEF AnswersKept, Requests, QueryRides, Goto
<1>14. ASSUME NEW q \in Readers, QueryUnjoins(q)
      PROVE  AnswersKept
  BY <1>14, <1>a, <1>b DEF AnswersKept, Requests, QueryUnjoins, Goto
<1>15. ASSUME NEW q \in Readers, QueryJudges(q)
      PROVE  AnswersKept
  BY <1>15, <1>a, <1>b DEF AnswersKept, Requests, QueryJudges, Done, Goto
<1>16. ASSUME NEW q \in Readers, QueryReports(q)
      PROVE  AnswersKept
  BY <1>16, <1>a, <1>b DEF AnswersKept, Requests, QueryReports, Done
<1>17. ASSUME NEW q \in Readers, QueryFails(q)
      PROVE  AnswersKept
  BY <1>17, <1>a, <1>b DEF AnswersKept, Requests, QueryFails, Done
<1>18. ASSUME NEW q \in Readers, NEW f \in Files, NEW l \in Lines, QueryAsks(q, f, l)
      PROVE  AnswersKept
  BY <1>18, <1>a, <1>b DEF AnswersKept, Requests, QueryAsks, Goto
<1>19. ASSUME NEW c \in Cancellers, CancelShortcut(c)
      PROVE  AnswersKept
  BY <1>19, <1>a, <1>b DEF AnswersKept, Requests, CancelShortcut, Done
<1>20. ASSUME NEW c \in Cancellers, CancelSends(c)
      PROVE  AnswersKept
  BY <1>20, <1>a, <1>b DEF AnswersKept, Requests, CancelSends, Goto
<1>21. ASSUME NEW c \in Cancellers, CancelReturns(c)
      PROVE  AnswersKept
  BY <1>21, <1>a, <1>b DEF AnswersKept, Requests, CancelReturns, Goto
<1>22. ASSUME NEW c \in Cancellers, CancelSweeps(c)
      PROVE  AnswersKept
  BY <1>22, <1>a, <1>b DEF AnswersKept, Requests, CancelSweeps, Done, Goto
<1>23. ASSUME NEW c \in Cancellers, CancelFails(c)
      PROVE  AnswersKept
  BY <1>23, <1>a, <1>b DEF AnswersKept, Requests, CancelFails, Goto
<1>24. ASSUME NEW c \in Cancellers, CancelDropped(c)
      PROVE  AnswersKept
  BY <1>24, <1>a, <1>b DEF AnswersKept, Requests, CancelDropped, Done
<1>25. ASSUME NEW c \in Cancellers, Catastrophe(c)
      PROVE  AnswersKept
  BY <1>25, <1>a, <1>b DEF AnswersKept, Requests, Catastrophe, Teardown, FailedReply
<1>26. ASSUME Terminate
      PROVE  AnswersKept
  BY <1>26, <1>a, <1>b DEF AnswersKept, Requests, Terminate, Teardown, FailedReply
<1>27. ASSUME Launch
      PROVE  AnswersKept
  BY <1>27, <1>a, <1>b DEF AnswersKept, Requests, Launch
<1>28. ASSUME LateCancel
      PROVE  AnswersKept
  BY <1>28, <1>a, <1>b DEF AnswersKept, Requests, LateCancel
<1>29. ASSUME ProverAdvances
      PROVE  AnswersKept
  BY <1>29, <1>a, <1>b DEF AnswersKept, Requests, ProverAdvances
<1>30. ASSUME NEW f \in Files, ForkJoins(f)
      PROVE  AnswersKept
  BY <1>30, <1>a, <1>b DEF AnswersKept, Requests, ForkJoins
<1>31. ASSUME NEW f \in Files, PictureArrives(f)
      PROVE  AnswersKept
  BY <1>31, <1>a, <1>b DEF AnswersKept, Requests, PictureArrives
<1>32. ASSUME NEW f \in Files, HitLands(f)
      PROVE  AnswersKept
  BY <1>32, <1>a, <1>b DEF AnswersKept, Requests, HitLands
<1>33. ASSUME NEW f \in Files, HitContinues(f)
      PROVE  AnswersKept
  BY <1>33, <1>a, <1>b DEF AnswersKept, Requests, HitContinues
<1>34. ASSUME NEW f \in Files, NEW l \in Lines, EditPushed(f, l)
      PROVE  AnswersKept
  BY <1>34, <1>a, <1>b DEF AnswersKept, Requests, EditPushed
<1>35. ASSUME NEW e \in Evaluators, EvalChecks(e) \/ EvalDecides(e) \/ EvalTimesOut(e)
      PROVE  AnswersKept
  <2>1. Waited(e) BY <1>35, <1>a, WaitEffect
  <2>2. run[e] \in Evaluators BY <2>1, <1>b DEF Waited, Requests, Joined
  <2>3. run' = run /\ (reply'[e] = "complete" => outcome'[run[e]] = "complete")
    BY <2>1 DEF Waited
  <2>4. \A p \in Procs : p # e => reply'[p] = reply[p] BY <2>1, <1>a DEF Waited
  <2> QED BY <2>2, <2>3, <2>4 DEF AnswersKept
<1>36. ASSUME NEW e \in Evaluators, EvalCaretFails(e) \/ EvalAborts(e)
      PROVE  AnswersKept
  <2>1. GaveUp(e) BY <1>36, <1>b, GiveUpEffect DEF EvalCaretFails, EvalAborts, Joined
  <2> QED BY <2>1, <1>a DEF GaveUp, Done, AnswersKept
<1>37. ASSUME NEW q \in Readers, StatusDecides(q) \/ FooterStamps(q)
      PROVE  AnswersKept
  <2>1. Judged(q) BY <1>37, StatusEffect, FooterEffect
  <2>2. run' = run /\ \A p \in Procs : p # q => reply'[p] = reply[p]
    BY <2>1, <1>a DEF Judged
  <2>3. ASSUME reply'[q] = "complete"
    PROVE run[q] \in Evaluators /\ outcome'[run[q]] = "complete"
    <3>1. /\ Stamps("complete") /\ run[q] \in Evaluators /\ current = run[q]
          /\ outcome[run[q]] \in {"", "complete"}
      BY <2>1, <2>3, <1>a DEF Judged
    <3> QED BY <3>1 DEF Stamps
  <2> QED BY <2>2, <2>3 DEF AnswersKept
<1>z. AnswersKept
  BY <1>1, <1>2, <1>3, <1>4, <1>5, <1>6, <1>7, <1>8, <1>9, <1>10, <1>11, <1>12, <1>13,
    <1>14, <1>15, <1>16, <1>17, <1>18, <1>19, <1>20, <1>21, <1>22, <1>23, <1>24, <1>25,
      <1>26, <1>27, <1>28, <1>29, <1>30, <1>31, <1>32, <1>33, <1>34, <1>35, <1>36,
        <1>37 DEF Step, Evaluate, Read, Cancel, Environment
<1> QED BY <1>z, <1>a, <1>b, <1>c DEF AnswersKept, Completions

-----------------------------------------------------------------------------
(* Progress is told of the run that is outstanding.                        *)

\* Nobody decides in this step that a run is in progress or at a hit.
Untold == \A e \in Evaluators :
  /\ pc'[e] = "report" => pc[e] = "report"
  /\ reply'[e] = "in_progress" => reply[e] = "in_progress" \/ pc[e] = "report"

ToldOfCurrent == \A e \in Evaluators :
  \/ pc[e] # "report" /\ reply[e] = "none" /\ reply'[e] = "in_progress"
  \/ pc[e] # "report" /\ pc'[e] = "report"
  => active' /\ current' = run[e]

LEMMA ProgressTold ==
  ASSUME IInv, TypeOK', Step PROVE ToldOfCurrent
<1> USE Distinct DEF Procs, runState, ledger, requests, prover
<1>a. /\ pc \in [Procs -> Places] /\ reply \in [Procs -> Replies]
      /\ outcome' \in [Evaluators -> Outcomes]
  BY DEF IInv, TypeOK
<1>b. TypeOK /\ Requests BY DEF IInv
<1>1. ASSUME NEW e \in Evaluators, EvalRefused(e)
      PROVE  Untold
  BY <1>1, <1>a DEF Untold, EvalRefused, Done
<1>2. ASSUME NEW e \in Evaluators, NEW f \in Files, NEW l \in Lines, EvalEnters(e, f, l)
      PROVE  Untold
  BY <1>2, <1>a DEF Untold, EvalEnters, Goto
<1>3. ASSUME NEW e \in Evaluators, EvalOpenFails(e)
      PROVE  Untold
  BY <1>3, <1>a DEF Untold, EvalOpenFails, Done
<1>4. ASSUME NEW e \in Evaluators, EvalJoins(e)
      PROVE  Untold
  BY <1>4, <1>a DEF Untold, EvalJoins, JoinOrStart, Goto
<1>5. ASSUME NEW e \in Evaluators, EvalCaretSent(e)
      PROVE  Untold
  BY <1>5, <1>a DEF Untold, EvalCaretSent, Goto
<1>6. ASSUME NEW e \in Evaluators, EvalFresh(e)
      PROVE  Untold
  BY <1>6, <1>a DEF Untold, EvalFresh, Goto
<1>7. ASSUME NEW e \in Evaluators, EvalReports(e)
      PROVE  Untold
  BY <1>7, <1>a DEF Untold, EvalReports, Done
<1>8. ASSUME NEW q \in Readers, StatusCaptures(q)
      PROVE  Untold
  BY <1>8, <1>a DEF Untold, StatusCaptures, Goto
<1>9. ASSUME NEW q \in Readers, FooterCaptures(q)
      PROVE  Untold
  BY <1>9, <1>a DEF Untold, FooterCaptures, Done, Goto
<1>10. ASSUME NEW q \in Readers, FooterJudges(q)
      PROVE  Untold
  BY <1>10, <1>a DEF Untold, FooterJudges, Done, Goto
<1>11. ASSUME NEW q \in Readers, QueryServed(q)
      PROVE  Untold
  BY <1>11, <1>a DEF Untold, QueryServed, Done
<1>12. ASSUME NEW q \in Readers, QueryRefused(q)
      PROVE  Untold
  BY <1>12, <1>a DEF Untold, QueryRefused, Done
<1>13. ASSUME NEW q \in Readers, QueryRides(q)
      PROVE  Untold
  BY <1>13, <1>a DEF Untold, QueryRides, Goto
<1>14. ASSUME NEW q \in Readers, QueryUnjoins(q)
      PROVE  Untold
  BY <1>14, <1>a DEF Untold, QueryUnjoins, Goto
<1>15. ASSUME NEW q \in Readers, QueryJudges(q)
      PROVE  Untold
  BY <1>15, <1>a DEF Untold, QueryJudges, Done, Goto
<1>16. ASSUME NEW q \in Readers, QueryReports(q)
      PROVE  Untold
  BY <1>16, <1>a DEF Untold, QueryReports, Done
<1>17. ASSUME NEW q \in Readers, QueryFails(q)
      PROVE  Untold
  BY <1>17, <1>a DEF Untold, QueryFails, Done
<1>18. ASSUME NEW q \in Readers, NEW f \in Files, NEW l \in Lines, QueryAsks(q, f, l)
      PROVE  Untold
  BY <1>18, <1>a DEF Untold, QueryAsks, Goto
<1>19. ASSUME NEW c \in Cancellers, CancelShortcut(c)
      PROVE  Untold
  BY <1>19, <1>a DEF Untold, CancelShortcut, Done
<1>20. ASSUME NEW c \in Cancellers, CancelSends(c)
      PROVE  Untold
  BY <1>20, <1>a DEF Untold, CancelSends, Goto
<1>21. ASSUME NEW c \in Cancellers, CancelReturns(c)
      PROVE  Untold
  BY <1>21, <1>a DEF Untold, CancelReturns, Goto
<1>22. ASSUME NEW c \in Cancellers, CancelSweeps(c)
      PROVE  Untold
  BY <1>22, <1>a DEF Untold, CancelSweeps, Done, Goto
<1>23. ASSUME NEW c \in Cancellers, CancelFails(c)
      PROVE  Untold
  BY <1>23, <1>a DEF Untold, CancelFails, Goto
<1>24. ASSUME NEW c \in Cancellers, CancelDropped(c)
      PROVE  Untold
  BY <1>24, <1>a DEF Untold, CancelDropped, Done
<1>25. ASSUME NEW c \in Cancellers, Catastrophe(c)
      PROVE  Untold
  BY <1>25, <1>a DEF Untold, Catastrophe, Failed, FailedReply
<1>26. ASSUME Terminate
      PROVE  Untold
  BY <1>26, <1>a DEF Untold, Terminate, Failed, FailedReply
<1>27. ASSUME Launch
      PROVE  Untold
  BY <1>27, <1>a DEF Untold, Launch
<1>28. ASSUME LateCancel
      PROVE  Untold
  BY <1>28, <1>a DEF Untold, LateCancel
<1>29. ASSUME ProverAdvances
      PROVE  Untold
  BY <1>29, <1>a DEF Untold, ProverAdvances
<1>30. ASSUME NEW f \in Files, ForkJoins(f)
      PROVE  Untold
  BY <1>30, <1>a DEF Untold, ForkJoins
<1>31. ASSUME NEW f \in Files, PictureArrives(f)
      PROVE  Untold
  BY <1>31, <1>a DEF Untold, PictureArrives
<1>32. ASSUME NEW f \in Files, HitLands(f)
      PROVE  Untold
  BY <1>32, <1>a DEF Untold, HitLands
<1>33. ASSUME NEW f \in Files, HitContinues(f)
      PROVE  Untold
  BY <1>33, <1>a DEF Untold, HitContinues
<1>34. ASSUME NEW f \in Files, NEW l \in Lines, EditPushed(f, l)
      PROVE  Untold
  BY <1>34, <1>a DEF Untold, EditPushed
<1>35. ASSUME NEW e \in Evaluators, EvalChecks(e) \/ EvalDecides(e) \/ EvalTimesOut(e)
      PROVE  ToldOfCurrent
  <2>1. Waited(e) BY <1>35, <1>a, WaitEffect
  <2>2. \A p \in Procs : p # e => reply'[p] = reply[p] /\ pc'[p] = pc[p]
    BY <2>1, <1>a DEF Waited
  <2>3. reply'[e] = "in_progress" \/ pc'[e] = "report" => active' /\ current' = run[e]
    BY <2>1 DEF Waited
  <2> QED BY <2>2, <2>3 DEF ToldOfCurrent
<1>36. ASSUME NEW e \in Evaluators, EvalCaretFails(e) \/ EvalAborts(e)
      PROVE  Untold
  <2>1. GaveUp(e) BY <1>36, <1>b, GiveUpEffect DEF EvalCaretFails, EvalAborts, Joined
  <2> QED BY <2>1, <1>a DEF GaveUp, Done, Untold
<1>37. ASSUME NEW q \in Readers, StatusDecides(q) \/ FooterStamps(q)
      PROVE  Untold
  <2>1. Judged(q) BY <1>37, StatusEffect, FooterEffect
  <2>2. \A p \in Procs : p # q => reply'[p] = reply[p] /\ pc'[p] = pc[p]
    BY <2>1, <1>a DEF Judged
  <2> QED BY <2>2 DEF Untold
<1>38. ASSUME Untold PROVE ToldOfCurrent BY <1>38 DEF Untold, ToldOfCurrent
<1> QED
  BY <1>1, <1>2, <1>3, <1>4, <1>5, <1>6, <1>7, <1>8, <1>9, <1>10, <1>11, <1>12,
    <1>13, <1>14, <1>15, <1>16, <1>17, <1>18, <1>19, <1>20, <1>21, <1>22, <1>23,
    <1>24, <1>25, <1>26, <1>27, <1>28, <1>29, <1>30, <1>31, <1>32, <1>33, <1>34,
    <1>35, <1>36, <1>37, <1>38 DEF Step, Evaluate, Read, Cancel,
    Environment

-----------------------------------------------------------------------------
(* The evidence of a completion.                                           *)

Watching == Joined \cup {"foot", "stamp"}

\* Who watches the current run looked at its file, up to the peak.
OnTarget ==
  \A p \in Procs : pc[p] \in Watching /\ run[p] = current =>
    /\ req[p].file = file
    /\ pc[p] = "stamp" => req[p].line <= peak

LEMMA PeakGrows ==
  ASSUME TypeOK, TypeOK', PeakFollows
  PROVE  QuietLine' <= peak' /\ (current' = current => peak <= peak')
<1>1. QuietLine' \in Int /\ peak \in Int BY LineBound DEF TypeOK, QuietLine
<1> QED BY <1>1 DEF PeakFollows, Max2

LEMMA PeakingStep ==
  ASSUME IInv, TypeOK', Step, PeakFollows PROVE Peaking'
<1> USE Distinct DEF Procs, runState, ledger, requests, prover
<1>a. /\ pc \in [Procs -> Places] /\ run \in [Procs -> Evaluators \cup {NoRun}]
      /\ req \in [Procs -> Req] /\ peak \in Int /\ peak' \in Int
  BY LineBound DEF IInv, TypeOK
<1>b. TypeOK /\ Requests /\ OnTarget BY DEF IInv, Peaking, OnTarget, Watching
<1>c. QuietLine <= peak /\ QuietLine' <= peak' /\ (current' = current => peak <= peak')
  BY PeakGrows DEF IInv, Peaking
<1>d. \A p \in Procs : req[p].line \in Int BY <1>a, LineBound DEF Req
<1>e. ASSUME UNCHANGED <<file, current>>,
             \A p \in Procs : pc'[p] \in Watching =>
               /\ pc[p] \in Watching /\ run'[p] = run[p] /\ req'[p] = req[p]
               /\ pc'[p] = "stamp" => pc[p] = "stamp"
      PROVE  OnTarget'
  BY <1>a, <1>b, <1>c, <1>d, <1>e DEF OnTarget
<1>1. ASSUME NEW e \in Evaluators, EvalRefused(e)
      PROVE  OnTarget'
  BY <1>1, <1>a, <1>e DEF Watching, Joined, EvalRefused, Done
<1>2. ASSUME NEW e \in Evaluators, NEW f \in Files, NEW l \in Lines, EvalEnters(e, f, l)
      PROVE  OnTarget'
  BY <1>2, <1>a, <1>e DEF Watching, Joined, EvalEnters, Goto
<1>3. ASSUME NEW e \in Evaluators, EvalOpenFails(e)
      PROVE  OnTarget'
  BY <1>3, <1>a, <1>e DEF Watching, Joined, EvalOpenFails, Done
<1>4. ASSUME NEW e \in Evaluators, EvalCaretSent(e)
      PROVE  OnTarget'
  BY <1>4, <1>a, <1>e DEF Watching, Joined, EvalCaretSent, Goto
<1>5. ASSUME NEW e \in Evaluators, EvalFresh(e)
      PROVE  OnTarget'
  BY <1>5, <1>a, <1>e DEF Watching, Joined, EvalFresh, Goto
<1>6. ASSUME NEW e \in Evaluators, EvalReports(e)
      PROVE  OnTarget'
  BY <1>6, <1>a, <1>e DEF Watching, Joined, EvalReports, Done
<1>7. ASSUME NEW q \in Readers, StatusCaptures(q)
      PROVE  OnTarget'
  BY <1>7, <1>a, <1>e DEF Watching, Joined, StatusCaptures, Goto
<1>8. ASSUME NEW q \in Readers, QueryServed(q)
      PROVE  OnTarget'
  BY <1>8, <1>a, <1>e DEF Watching, Joined, QueryServed, Done
<1>9. ASSUME NEW q \in Readers, QueryRefused(q)
      PROVE  OnTarget'
  BY <1>9, <1>a, <1>e DEF Watching, Joined, QueryRefused, Done
<1>10. ASSUME NEW q \in Readers, QueryRides(q)
      PROVE  OnTarget'
  BY <1>10, <1>a, <1>e DEF Watching, Joined, QueryRides, Goto
<1>11. ASSUME NEW q \in Readers, QueryUnjoins(q)
      PROVE  OnTarget'
  BY <1>11, <1>a, <1>e DEF Watching, Joined, QueryUnjoins, Goto
<1>12. ASSUME NEW q \in Readers, QueryJudges(q)
      PROVE  OnTarget'
  BY <1>12, <1>a, <1>e DEF Watching, Joined, QueryJudges, Done, Goto
<1>13. ASSUME NEW q \in Readers, QueryReports(q)
      PROVE  OnTarget'
  BY <1>13, <1>a, <1>e DEF Watching, Joined, QueryReports, Done
<1>14. ASSUME NEW q \in Readers, QueryFails(q)
      PROVE  OnTarget'
  BY <1>14, <1>a, <1>e DEF Watching, Joined, QueryFails, Done
<1>15. ASSUME NEW q \in Readers, NEW f \in Files, NEW l \in Lines, QueryAsks(q, f, l)
      PROVE  OnTarget'
  BY <1>15, <1>a, <1>e DEF Watching, Joined, QueryAsks, Goto
<1>16. ASSUME NEW c \in Cancellers, CancelShortcut(c)
      PROVE  OnTarget'
  BY <1>16, <1>a, <1>e DEF Watching, Joined, CancelShortcut, Done
<1>17. ASSUME NEW c \in Cancellers, CancelSends(c)
      PROVE  OnTarget'
  BY <1>17, <1>a, <1>e DEF Watching, Joined, CancelSends, Goto
<1>18. ASSUME NEW c \in Cancellers, CancelSweeps(c)
      PROVE  OnTarget'
  BY <1>18, <1>a, <1>e DEF Watching, Joined, CancelSweeps, Done, Goto
<1>19. ASSUME Launch
      PROVE  OnTarget'
  BY <1>19, <1>a, <1>e DEF Watching, Joined, Launch
<1>20. ASSUME LateCancel
      PROVE  OnTarget'
  BY <1>20, <1>a, <1>e DEF Watching, Joined, LateCancel
<1>21. ASSUME ProverAdvances
      PROVE  OnTarget'
  BY <1>21, <1>a, <1>e DEF Watching, Joined, ProverAdvances
<1>22. ASSUME NEW f \in Files, ForkJoins(f)
      PROVE  OnTarget'
  BY <1>22, <1>a, <1>e DEF Watching, Joined, ForkJoins
<1>23. ASSUME NEW f \in Files, PictureArrives(f)
      PROVE  OnTarget'
  BY <1>23, <1>a, <1>e DEF Watching, Joined, PictureArrives
<1>24. ASSUME NEW f \in Files, HitLands(f)
      PROVE  OnTarget'
  BY <1>24, <1>a, <1>e DEF Watching, Joined, HitLands
<1>25. ASSUME NEW f \in Files, HitContinues(f)
      PROVE  OnTarget'
  BY <1>25, <1>a, <1>e DEF Watching, Joined, HitContinues
<1>26. ASSUME NEW f \in Files, NEW l \in Lines, EditPushed(f, l)
      PROVE  OnTarget'
  BY <1>26, <1>a, <1>e DEF Watching, Joined, EditPushed
<1>27. ASSUME NEW e \in Evaluators, EvalJoins(e)
      PROVE  OnTarget'
  <2>1. \A p \in Procs : run[p] # e
    BY <1>27 DEF EvalJoins, IInv, Ledger
  <2>2. /\ run' = [run EXCEPT ![e] = current'] /\ UNCHANGED req
        /\ pc[e] = "open" /\ pc' = [pc EXCEPT ![e] = pc'[e]] /\ pc'[e] # "stamp"
        /\ file' = req[e].file
        /\ \/ file' = file /\ current' = current
           \/ current' = e
    BY <1>27, <1>a DEF EvalJoins, JoinOrStart, Goto, Joins
  <2>3. ASSUME NEW p \in Procs, pc'[p] \in Watching, run'[p] = current'
        PROVE  req'[p].file = file' /\ (pc'[p] = "stamp" => req'[p].line <= peak')
    <3>1. CASE p = e BY <3>1, <2>2
    <3>2. CASE p # e
      <4>1. pc'[p] = pc[p] /\ run'[p] = run[p] BY <3>2, <2>2, <1>a
      <4>2. file' = file /\ current' = current /\ run[p] = current BY <4>1, <2>1, <2>2, <2>3
      <4> QED BY <4>1, <4>2, <2>2, <2>3, <1>a, <1>b, <1>c, <1>d DEF OnTarget
    <3> QED BY <3>1, <3>2
  <2> QED BY <2>3 DEF OnTarget
<1>28. ASSUME NEW q \in Readers, FooterCaptures(q)
      PROVE  OnTarget'
  <2>1. CASE active /\ FrontierReached(file, dest)
    <3>1. /\ run' = [run EXCEPT ![q] = current] /\ pc' = [pc EXCEPT ![q] = "foot"]
          /\ req' = [req EXCEPT ![q] = [file |-> file, line |-> dest]]
          /\ UNCHANGED <<file, current>>
      BY <1>28, <2>1 DEF FooterCaptures, Goto
    <3>2. ASSUME NEW p \in Procs, pc'[p] \in Watching, run'[p] = current'
          PROVE  req'[p].file = file' /\ (pc'[p] = "stamp" => req'[p].line <= peak')
      <4>1. CASE p = q BY <3>1, <4>1, <1>a
      <4>2. CASE p # q BY <3>1, <3>2, <4>2, <1>a, <1>b, <1>c, <1>d DEF OnTarget
      <4> QED BY <4>1, <4>2
    <3> QED BY <3>2 DEF OnTarget
  <2>2. CASE ~(active /\ FrontierReached(file, dest))
    BY <1>28, <2>2, <1>a, <1>e DEF FooterCaptures, Done, Watching, Joined
  <2> QED BY <2>1, <2>2
<1>29. ASSUME NEW q \in Readers, FooterJudges(q)
      PROVE  OnTarget'
  <2>1. CASE EvaluationComplete(req[q].file, req[q].line)
    <3>1. /\ UNCHANGED <<file, current, run, req>> /\ pc[q] = "foot"
          /\ pc' = [pc EXCEPT ![q] = "stamp"]
      BY <1>29, <2>1 DEF FooterJudges, Goto
    <3>2. ASSUME run[q] = current PROVE req[q].file = file /\ req[q].line <= peak'
      <4>1. req[q].file = file BY <3>1, <3>2, <1>b DEF OnTarget, Watching
      <4>2. req[q].line <= QuietLine
        BY <2>1, <4>1 DEF EvaluationComplete, FrontierReached, QuietLine
      <4>3. QuietLine \in Int BY <1>b, LineBound DEF TypeOK, QuietLine
      <4> QED BY <4>1, <4>2, <4>3, <3>1, <1>a, <1>c, <1>d
    <3>3. ASSUME NEW p \in Procs, pc'[p] \in Watching, run'[p] = current'
          PROVE  req'[p].file = file' /\ (pc'[p] = "stamp" => req'[p].line <= peak')
      <4>1. CASE p = q BY <3>1, <3>2, <3>3, <4>1, <1>a
      <4>2. CASE p # q BY <3>1, <3>3, <4>2, <1>a, <1>b, <1>c, <1>d DEF OnTarget
      <4> QED BY <4>1, <4>2
    <3> QED BY <3>3 DEF OnTarget
  <2>2. CASE ~EvaluationComplete(req[q].file, req[q].line)
    BY <1>29, <2>2, <1>a, <1>e DEF FooterJudges, Done, Watching, Joined
  <2> QED BY <2>1, <2>2
<1>30. ASSUME NEW e \in Evaluators, EvalChecks(e) \/ EvalDecides(e) \/ EvalTimesOut(e)
      PROVE  OnTarget'
  <2>1. Waited(e) BY <1>30, <1>b, WaitEffect DEF TypeOK, IInv
  <2>2. UNCHANGED <<file, current>>
    <3>1. RunKept BY <2>1, WaitedKeeps
    <3> QED BY <3>1, RunKeptFrame
  <2>3. UNCHANGED <<run, req>> /\ pc[e] \in Watching BY <2>1 DEF Waited, Watching, Joined
  <2>4. pc' = [pc EXCEPT ![e] = pc'[e]] /\ pc'[e] # "stamp" BY <2>1, <1>a DEF Waited
  <2> QED BY <2>2, <2>3, <2>4, <1>a, <1>e
<1>31. ASSUME NEW e \in Evaluators, EvalCaretFails(e) \/ EvalAborts(e)
      PROVE  OnTarget'
  <2>1. GaveUp(e) BY <1>31, <1>b, GiveUpEffect DEF EvalCaretFails, EvalAborts, Joined
  <2>2. UNCHANGED <<file, current>>
    <3>1. RunKept BY <2>1 DEF GaveUp, RunKept
    <3> QED BY <3>1, RunKeptFrame
  <2>3. UNCHANGED <<run, req>> /\ pc' = [pc EXCEPT ![e] = "done"] BY <2>1 DEF GaveUp, Done
  <2> QED BY <2>2, <2>3, <1>a, <1>e DEF Watching, Joined
<1>32. ASSUME NEW q \in Readers, StatusDecides(q) \/ FooterStamps(q)
      PROVE  OnTarget'
  <2>1. Judged(q) BY <1>32, StatusEffect, FooterEffect
  <2>2. UNCHANGED <<file, current>>
    <3>1. RunKept BY <2>1 DEF Judged, RunKept
    <3> QED BY <3>1, RunKeptFrame
  <2>3. UNCHANGED <<run, req>> /\ pc' = [pc EXCEPT ![q] = "done"] BY <2>1 DEF Judged
  <2> QED BY <2>2, <2>3, <1>a, <1>e DEF Watching, Joined
<1>33. ASSUME NEW c \in Cancellers, CancelReturns(c)
      PROVE  OnTarget'
  BY <1>33, <1>a, <1>e DEF Watching, Joined, CancelReturns, Goto, ResetRun, Finish
<1>34. ASSUME NEW c \in Cancellers, CancelFails(c)
      PROVE  OnTarget'
  BY <1>34, <1>a, <1>e DEF Watching, Joined, CancelFails, Goto, ResetRun, Finish
<1>35. ASSUME NEW c \in Cancellers, CancelDropped(c)
      PROVE  OnTarget'
  BY <1>35, <1>a, <1>e DEF Watching, Joined, CancelDropped, Done, ResetRun, Finish
<1>36. ASSUME NEW c \in Cancellers, Catastrophe(c)
      PROVE  OnTarget'
  BY <1>36, <1>a, <1>e DEF Watching, Joined, Catastrophe, Teardown, ResetRun, Finish, Failed
<1>37. ASSUME Terminate
      PROVE  OnTarget'
  BY <1>37, <1>a, <1>e DEF Watching, Joined, Terminate, Teardown, ResetRun, Finish, Failed
<1>z. OnTarget'
  BY <1>1, <1>2, <1>3, <1>4, <1>5, <1>6, <1>7, <1>8, <1>9, <1>10, <1>11, <1>12, <1>13,
    <1>14, <1>15, <1>16, <1>17, <1>18, <1>19, <1>20, <1>21, <1>22, <1>23, <1>24, <1>25,
      <1>26, <1>27, <1>28, <1>29, <1>30, <1>31, <1>32, <1>33, <1>34, <1>35, <1>36,
        <1>37 DEF Step, Evaluate, Read, Cancel, Environment
<1> QED BY <1>z, <1>c DEF OnTarget, Peaking, Watching

-----------------------------------------------------------------------------
(* The riders.                                                             *)

LEMMA OnFinite ==
  ASSUME Requests, NEW r PROVE IsFiniteSet(On(r))
<1>1. On(r) \subseteq Evaluators \cup Readers BY DEF On, Requests
<1>2. IsFiniteSet(Evaluators \cup Readers) BY FiniteRequests, FS_Union
<1> QED BY <1>1, <1>2, FS_Subset

\* Nobody gets on or off a run.
AboardKept == /\ UNCHANGED riders
              /\ \A r \in Evaluators, p \in Procs : (p \in On(r))' <=> p \in On(r)

\* No run is newly cancelled by its own requests.
CancelKept == \A r \in Evaluators : outcome'[r] = "cancelled" /\ swept'[r] = "no" =>
                outcome[r] = "cancelled" /\ swept[r] = "no"

LEMMA CountingKept ==
  ASSUME Counting, AboardKept, CancelKept PROVE Counting'
<1>1. ASSUME NEW r \in Evaluators PROVE On(r)' = On(r)
  BY DEF AboardKept, On
<1> QED BY <1>1 DEF Counting, RidersCounted, AbortSparesSharedRun, AboardKept, CancelKept

\* A request that gets on run r, which has not ended.
LEMMA CountingJoins ==
  ASSUME TypeOK, Requests, Counting, NEW p \in Procs, NEW r \in Evaluators,
         p \notin On(r), outcome[r] = "", UNCHANGED <<outcome, swept>>,
         riders' = [riders EXCEPT ![r] = riders[r] + 1],
         On(r)' = On(r) \cup {p}, \A s \in Evaluators : s # r => On(s)' = On(s)
  PROVE  Counting'
<1>1. Cardinality(On(r)') = Cardinality(On(r)) + 1 BY OnFinite, FS_AddElement
<1>2. RidersCounted' BY <1>1 DEF Counting, RidersCounted, TypeOK
<1>3. AbortSparesSharedRun' BY DEF Counting, AbortSparesSharedRun
<1> QED BY <1>2, <1>3 DEF Counting

\* A request that gets off run r, and cancels it only if it was the last.
LEMMA CountingLeaves ==
  ASSUME TypeOK, Requests, Counting, NEW p \in Procs, NEW r \in Evaluators, p \in On(r),
         riders' = [riders EXCEPT ![r] = riders[r] - 1],
         On(r)' = On(r) \ {p}, \A s \in Evaluators : s # r => On(s)' = On(s),
         UNCHANGED swept,
         UNCHANGED outcome \/ (riders[r] = 1 /\ \A s \in Evaluators : s # r => outcome'[s] = outcome[s])
  PROVE  Counting'
<1>1. IsFiniteSet(On(r)) BY OnFinite
<1>2. Cardinality(On(r)') = Cardinality(On(r)) - 1 BY <1>1, FS_RemoveElement
<1>3. Cardinality(On(r)) \in Nat BY <1>1, FS_CardinalityType
<1>4. RidersCounted' BY <1>2, <1>3 DEF Counting, RidersCounted, TypeOK
<1>5. riders[r] = 1 => On(r)' = {}
  <2>1. riders[r] = 1 => Cardinality(On(r) \ {p}) = 0 BY <1>2 DEF Counting, RidersCounted
  <2> QED BY <2>1, <1>1, FS_RemoveElement, FS_EmptySet
<1>6. AbortSparesSharedRun' BY <1>5 DEF Counting, AbortSparesSharedRun
<1> QED BY <1>4, <1>6 DEF Counting

LEMMA CountingStep ==
  ASSUME IInv, TypeOK', Step PROVE Counting'
<1> USE Distinct DEF Procs, runState, ledger, requests, prover
<1>a. /\ pc \in [Procs -> Places] /\ run \in [Procs -> Evaluators \cup {NoRun}]
      /\ reply \in [Procs -> Replies]
      /\ outcome \in [Evaluators -> Outcomes] /\ outcome' \in [Evaluators -> Outcomes]
      /\ swept \in [Evaluators -> {"no", "reset", "retracted"}]
  BY DEF IInv, TypeOK
<1>b. TypeOK /\ Requests /\ Counting /\ Ledger BY DEF IInv
<1>1. ASSUME NEW e \in Evaluators, EvalRefused(e)
      PROVE  AboardKept /\ CancelKept
  BY <1>1, <1>a, <1>b DEF AboardKept, CancelKept, On, Requests, EvalRefused, Done
<1>2. ASSUME NEW e \in Evaluators, NEW f \in Files, NEW l \in Lines, EvalEnters(e, f, l)
      PROVE  AboardKept /\ CancelKept
  BY <1>2, <1>a, <1>b DEF AboardKept, CancelKept, On, Requests, EvalEnters, Goto
<1>3. ASSUME NEW e \in Evaluators, EvalOpenFails(e)
      PROVE  AboardKept /\ CancelKept
  BY <1>3, <1>a, <1>b DEF AboardKept, CancelKept, On, Requests, EvalOpenFails, Done
<1>4. ASSUME NEW e \in Evaluators, EvalCaretSent(e)
      PROVE  AboardKept /\ CancelKept
  BY <1>4, <1>a, <1>b DEF AboardKept, CancelKept, On, Requests, EvalCaretSent, Goto
<1>5. ASSUME NEW e \in Evaluators, EvalFresh(e)
      PROVE  AboardKept /\ CancelKept
  BY <1>5, <1>a, <1>b DEF AboardKept, CancelKept, On, Requests, EvalFresh, Goto
<1>6. ASSUME NEW e \in Evaluators, EvalReports(e)
      PROVE  AboardKept /\ CancelKept
  BY <1>6, <1>a, <1>b DEF AboardKept, CancelKept, On, Requests, EvalReports, Done
<1>7. ASSUME NEW q \in Readers, StatusCaptures(q)
      PROVE  AboardKept /\ CancelKept
  BY <1>7, <1>a, <1>b DEF AboardKept, CancelKept, On, Requests, StatusCaptures, Goto
<1>8. ASSUME NEW q \in Readers, FooterCaptures(q)
      PROVE  AboardKept /\ CancelKept
  BY <1>8, <1>a, <1>b DEF AboardKept, CancelKept, On, Requests, FooterCaptures, Done, Goto
<1>9. ASSUME NEW q \in Readers, FooterJudges(q)
      PROVE  AboardKept /\ CancelKept
  BY <1>9, <1>a, <1>b DEF AboardKept, CancelKept, On, Requests, FooterJudges, Done, Goto
<1>10. ASSUME NEW q \in Readers, QueryServed(q)
      PROVE  AboardKept /\ CancelKept
  BY <1>10, <1>a, <1>b DEF AboardKept, CancelKept, On, Requests, QueryServed, Done
<1>11. ASSUME NEW q \in Readers, QueryRefused(q)
      PROVE  AboardKept /\ CancelKept
  BY <1>11, <1>a, <1>b DEF AboardKept, CancelKept, On, Requests, QueryRefused, Done
<1>12. ASSUME NEW q \in Readers, QueryJudges(q)
      PROVE  AboardKept /\ CancelKept
  BY <1>12, <1>a, <1>b DEF AboardKept, CancelKept, On, Requests, QueryJudges, Done, Goto
<1>13. ASSUME NEW q \in Readers, QueryReports(q)
      PROVE  AboardKept /\ CancelKept
  BY <1>13, <1>a, <1>b DEF AboardKept, CancelKept, On, Requests, QueryReports, Done
<1>14. ASSUME NEW q \in Readers, QueryFails(q)
      PROVE  AboardKept /\ CancelKept
  BY <1>14, <1>a, <1>b DEF AboardKept, CancelKept, On, Requests, QueryFails, Done
<1>15. ASSUME NEW q \in Readers, NEW f \in Files, NEW l \in Lines, QueryAsks(q, f, l)
      PROVE  AboardKept /\ CancelKept
  BY <1>15, <1>a, <1>b DEF AboardKept, CancelKept, On, Requests, QueryAsks, Goto
<1>16. ASSUME NEW c \in Cancellers, CancelShortcut(c)
      PROVE  AboardKept /\ CancelKept
  BY <1>16, <1>a, <1>b DEF AboardKept, CancelKept, On, Requests, CancelShortcut, Done
<1>17. ASSUME NEW c \in Cancellers, CancelSends(c)
      PROVE  AboardKept /\ CancelKept
  BY <1>17, <1>a, <1>b DEF AboardKept, CancelKept, On, Requests, CancelSends, Goto
<1>18. ASSUME NEW c \in Cancellers, CancelSweeps(c)
      PROVE  AboardKept /\ CancelKept
  BY <1>18, <1>a, <1>b DEF AboardKept, CancelKept, On, Requests, CancelSweeps, Done, Goto
<1>19. ASSUME Launch
      PROVE  AboardKept /\ CancelKept
  BY <1>19, <1>a, <1>b DEF AboardKept, CancelKept, On, Requests, Launch
<1>20. ASSUME LateCancel
      PROVE  AboardKept /\ CancelKept
  BY <1>20, <1>a, <1>b DEF AboardKept, CancelKept, On, Requests, LateCancel
<1>21. ASSUME ProverAdvances
      PROVE  AboardKept /\ CancelKept
  BY <1>21, <1>a, <1>b DEF AboardKept, CancelKept, On, Requests, ProverAdvances
<1>22. ASSUME NEW f \in Files, ForkJoins(f)
      PROVE  AboardKept /\ CancelKept
  BY <1>22, <1>a, <1>b DEF AboardKept, CancelKept, On, Requests, ForkJoins
<1>23. ASSUME NEW f \in Files, PictureArrives(f)
      PROVE  AboardKept /\ CancelKept
  BY <1>23, <1>a, <1>b DEF AboardKept, CancelKept, On, Requests, PictureArrives
<1>24. ASSUME NEW f \in Files, HitLands(f)
      PROVE  AboardKept /\ CancelKept
  BY <1>24, <1>a, <1>b DEF AboardKept, CancelKept, On, Requests, HitLands
<1>25. ASSUME NEW f \in Files, HitContinues(f)
      PROVE  AboardKept /\ CancelKept
  BY <1>25, <1>a, <1>b DEF AboardKept, CancelKept, On, Requests, HitContinues
<1>26. ASSUME NEW f \in Files, NEW l \in Lines, EditPushed(f, l)
      PROVE  AboardKept /\ CancelKept
  BY <1>26, <1>a, <1>b DEF AboardKept, CancelKept, On, Requests, EditPushed
<1>27. ASSUME NEW e \in Evaluators, EvalChecks(e) \/ EvalDecides(e) \/ EvalTimesOut(e)
      PROVE  AboardKept /\ CancelKept
  <2>1. Waited(e) BY <1>27, <1>a, WaitEffect
  <2>2. CancelKept
    <3>1. UNCHANGED swept BY <2>1 DEF Waited
    <3>2. ASSUME NEW o \in {"abandoned", "complete"}, Stamps(o) PROVE CancelKept
      BY <3>1, <3>2 DEF Stamps, CancelKept
    <3>3. CASE UNCHANGED outcome BY <3>1, <3>3 DEF CancelKept
    <3> QED BY <2>1, <3>2, <3>3 DEF Waited
  <2>3. UNCHANGED <<riders, run>> /\ pc[e] # "ride" /\ reply[e] = "none"
    BY <2>1, <1>b DEF Waited, Requests
  <2>4. /\ pc' = [pc EXCEPT ![e] = pc'[e]] /\ pc'[e] # "ride"
        /\ reply' = [reply EXCEPT ![e] = reply'[e]] /\ reply'[e] # "gaveup"
    BY <2>1, <2>3, <1>a DEF Waited
  <2> QED BY <2>2, <2>3, <2>4, <1>a DEF AboardKept, On
<1>28. ASSUME NEW q \in Readers, StatusDecides(q) \/ FooterStamps(q)
      PROVE  AboardKept /\ CancelKept
  <2>1. Judged(q) BY <1>28, StatusEffect, FooterEffect
  <2>2. CancelKept
    <3>1. UNCHANGED swept BY <2>1 DEF Judged
    <3>2. ASSUME Stamps("complete") PROVE CancelKept BY <3>1, <3>2 DEF Stamps, CancelKept
    <3>3. CASE UNCHANGED outcome BY <3>1, <3>3 DEF CancelKept
    <3> QED BY <2>1, <3>2, <3>3 DEF Judged
  <2>3. UNCHANGED <<riders, run>> /\ pc[q] # "ride" /\ pc' = [pc EXCEPT ![q] = "done"]
    BY <1>28, <2>1 DEF Judged, StatusDecides, FooterStamps
  <2>4. \A p \in Evaluators : reply'[p] = reply[p] BY <2>1, <1>a DEF Judged
  <2> QED BY <2>2, <2>3, <2>4, <1>a DEF AboardKept, On
<1>29. ASSUME NEW c \in Cancellers, CancelReturns(c)
      PROVE  AboardKept /\ CancelKept
  <2>1. PICK how \in {"reset", "retracted"} : ResetRun(how)
    BY <1>29 DEF CancelReturns
  <2>2. Stamps("cancelled") BY <2>1, <1>b, FinishStamps DEF ResetRun
  <2>3. CancelKept
    <3>1. ASSUME NEW r \in Evaluators, outcome'[r] = "cancelled", swept'[r] = "no"
          PROVE  outcome[r] = "cancelled" /\ swept[r] = "no"
      <4>1. CASE r # current BY <4>1, <3>1, <2>1, <2>2, <1>a DEF Stamps, ResetRun
      <4>2. CASE r = current /\ outcome[r] = "" BY <4>2, <3>1, <2>1, <1>a DEF ResetRun
      <4>3. CASE r = current /\ outcome[r] # ""
        BY <4>3, <3>1, <2>1, <2>2, <1>a DEF Stamps, ResetRun
      <4> QED BY <4>1, <4>2, <4>3
    <3> QED BY <3>1 DEF CancelKept
  <2>4. AboardKept BY <1>29, <1>a, <1>b DEF AboardKept, On, Requests, CancelReturns, Goto
  <2> QED BY <2>3, <2>4
<1>30. ASSUME NEW c \in Cancellers, CancelFails(c)
      PROVE  AboardKept /\ CancelKept
  <2>1. PICK how \in {"reset", "retracted"} : ResetRun(how)
    BY <1>30 DEF CancelFails
  <2>2. Stamps("cancelled") BY <2>1, <1>b, FinishStamps DEF ResetRun
  <2>3. CancelKept
    <3>1. ASSUME NEW r \in Evaluators, outcome'[r] = "cancelled", swept'[r] = "no"
          PROVE  outcome[r] = "cancelled" /\ swept[r] = "no"
      <4>1. CASE r # current BY <4>1, <3>1, <2>1, <2>2, <1>a DEF Stamps, ResetRun
      <4>2. CASE r = current /\ outcome[r] = "" BY <4>2, <3>1, <2>1, <1>a DEF ResetRun
      <4>3. CASE r = current /\ outcome[r] # ""
        BY <4>3, <3>1, <2>1, <2>2, <1>a DEF Stamps, ResetRun
      <4> QED BY <4>1, <4>2, <4>3
    <3> QED BY <3>1 DEF CancelKept
  <2>4. AboardKept BY <1>30, <1>a, <1>b DEF AboardKept, On, Requests, CancelFails, Goto
  <2> QED BY <2>3, <2>4
<1>31. ASSUME NEW c \in Cancellers, CancelDropped(c)
      PROVE  AboardKept /\ CancelKept
  <2>1. PICK how \in {"reset", "retracted"} : ResetRun(how)
    BY <1>31 DEF CancelDropped
  <2>2. Stamps("cancelled") BY <2>1, <1>b, FinishStamps DEF ResetRun
  <2>3. CancelKept
    <3>1. ASSUME NEW r \in Evaluators, outcome'[r] = "cancelled", swept'[r] = "no"
          PROVE  outcome[r] = "cancelled" /\ swept[r] = "no"
      <4>1. CASE r # current BY <4>1, <3>1, <2>1, <2>2, <1>a DEF Stamps, ResetRun
      <4>2. CASE r = current /\ outcome[r] = "" BY <4>2, <3>1, <2>1, <1>a DEF ResetRun
      <4>3. CASE r = current /\ outcome[r] # ""
        BY <4>3, <3>1, <2>1, <2>2, <1>a DEF Stamps, ResetRun
      <4> QED BY <4>1, <4>2, <4>3
    <3> QED BY <3>1 DEF CancelKept
  <2>4. AboardKept BY <1>31, <1>a, <1>b DEF AboardKept, On, Requests, CancelDropped, Done
  <2> QED BY <2>3, <2>4
<1>32. ASSUME NEW c \in Cancellers, Catastrophe(c)
      PROVE  AboardKept /\ CancelKept
  <2>1. PICK how \in {"reset", "retracted"} : ResetRun(how)
    BY <1>32 DEF Catastrophe, Teardown
  <2>2. Stamps("cancelled") BY <2>1, <1>b, FinishStamps DEF ResetRun
  <2>3. CancelKept
    <3>1. ASSUME NEW r \in Evaluators, outcome'[r] = "cancelled", swept'[r] = "no"
          PROVE  outcome[r] = "cancelled" /\ swept[r] = "no"
      <4>1. CASE r # current BY <4>1, <3>1, <2>1, <2>2, <1>a DEF Stamps, ResetRun
      <4>2. CASE r = current /\ outcome[r] = "" BY <4>2, <3>1, <2>1, <1>a DEF ResetRun
      <4>3. CASE r = current /\ outcome[r] # ""
        BY <4>3, <3>1, <2>1, <2>2, <1>a DEF Stamps, ResetRun
      <4> QED BY <4>1, <4>2, <4>3
    <3> QED BY <3>1 DEF CancelKept
  <2>4. AboardKept
    BY <1>32, <1>a, <1>b DEF AboardKept, On, Requests, Catastrophe, Teardown, Failed,
      FailedReply
  <2> QED BY <2>3, <2>4
<1>33. ASSUME Terminate
      PROVE  AboardKept /\ CancelKept
  <2>1. PICK how \in {"reset", "retracted"} : ResetRun(how)
    BY <1>33 DEF Terminate, Teardown
  <2>2. Stamps("cancelled") BY <2>1, <1>b, FinishStamps DEF ResetRun
  <2>3. CancelKept
    <3>1. ASSUME NEW r \in Evaluators, outcome'[r] = "cancelled", swept'[r] = "no"
          PROVE  outcome[r] = "cancelled" /\ swept[r] = "no"
      <4>1. CASE r # current BY <4>1, <3>1, <2>1, <2>2, <1>a DEF Stamps, ResetRun
      <4>2. CASE r = current /\ outcome[r] = "" BY <4>2, <3>1, <2>1, <1>a DEF ResetRun
      <4>3. CASE r = current /\ outcome[r] # ""
        BY <4>3, <3>1, <2>1, <2>2, <1>a DEF Stamps, ResetRun
      <4> QED BY <4>1, <4>2, <4>3
    <3> QED BY <3>1 DEF CancelKept
  <2>4. AboardKept
    BY <1>33, <1>a, <1>b DEF AboardKept, On, Requests, Terminate, Teardown, Failed,
      FailedReply
  <2> QED BY <2>3, <2>4
<1>34. ASSUME NEW e \in Evaluators, EvalJoins(e)
      PROVE  Counting'
  <2>1. /\ pc[e] = "open" /\ run[e] = NoRun /\ reply[e] = "none"
        /\ outcome[e] = "" /\ current # e
    BY <1>34, <1>b DEF EvalJoins, Requests, Ledger
  <2>2. PICK r \in Evaluators : r = current' /\ outcome[r] = ""
    BY <1>34, <2>1, <1>b DEF EvalJoins, JoinOrStart, Joins, Ledger, RunLedger, TypeOK
  <2>3. /\ run' = [run EXCEPT ![e] = r] /\ UNCHANGED <<reply, outcome, swept>>
        /\ pc' = [pc EXCEPT ![e] = pc'[e]] /\ pc'[e] # "ride"
        /\ riders' = [riders EXCEPT ![r] = riders[r] + 1]
    BY <1>34, <2>2, <1>a DEF EvalJoins, JoinOrStart, Goto
  <2>4. e \notin On(r) BY <2>1, <2>2 DEF On
  <2>5. On(r)' = On(r) \cup {e} BY <2>1, <2>3, <1>a DEF On
  <2>6. ASSUME NEW s \in Evaluators, s # r PROVE On(s)' = On(s)
    BY <2>1, <2>3, <2>6, <1>a DEF On
  <2> QED BY <2>2, <2>3, <2>4, <2>5, <2>6, <1>b, CountingJoins
<1>35. ASSUME NEW q \in Readers, QueryRides(q)
      PROVE  Counting'
  <2>1. PICK r \in Evaluators : r = current /\ outcome[r] = ""
    BY <1>35, <1>b DEF QueryRides, Covers, Joins, Ledger, RunLedger, TypeOK
  <2>2. /\ pc[q] = "join" /\ UNCHANGED <<outcome, swept, reply>> /\ q \notin Evaluators
        /\ run' = [run EXCEPT ![q] = r] /\ pc' = [pc EXCEPT ![q] = "ride"]
        /\ riders' = [riders EXCEPT ![r] = riders[r] + 1]
    BY <1>35, <2>1 DEF QueryRides, Goto
  <2>3. q \notin On(r) BY <2>2 DEF On
  <2>4. On(r)' = On(r) \cup {q} BY <2>2, <1>a DEF On
  <2>5. ASSUME NEW s \in Evaluators, s # r PROVE On(s)' = On(s)
    BY <2>2, <2>5, <1>a DEF On
  <2> QED BY <2>1, <2>2, <2>3, <2>4, <2>5, <1>b, CountingJoins
<1>36. ASSUME NEW q \in Readers, QueryUnjoins(q)
      PROVE  Counting'
  <2>1. PICK r \in Evaluators : r = run[q] BY <1>36, <1>b DEF QueryUnjoins, Requests
  <2>2. /\ pc[q] = "ride" /\ UNCHANGED <<run, outcome, swept, reply>> /\ q \notin Evaluators
        /\ pc' = [pc EXCEPT ![q] = "judge"]
        /\ riders' = [riders EXCEPT ![r] = riders[r] - 1]
    BY <1>36, <2>1 DEF QueryUnjoins, Goto
  <2>3. q \in On(r) BY <2>1, <2>2 DEF On
  <2>4. On(r)' = On(r) \ {q} BY <2>1, <2>2, <1>a DEF On
  <2>5. ASSUME NEW s \in Evaluators, s # r PROVE On(s)' = On(s)
    BY <2>1, <2>2, <2>5, <1>a DEF On
  <2> QED BY <2>2, <2>3, <2>4, <2>5, <1>b, CountingLeaves
<1>37. ASSUME NEW e \in Evaluators, EvalCaretFails(e) \/ EvalAborts(e)
      PROVE  Counting'
  <2>1. GaveUp(e) BY <1>37, <1>b, GiveUpEffect DEF EvalCaretFails, EvalAborts, Joined
  <2>2. PICK r \in Evaluators : r = run[e] BY <2>1 DEF GaveUp
  <2>3. /\ UNCHANGED <<run, swept>>
        /\ riders' = [riders EXCEPT ![r] = riders[r] - 1]
        /\ pc' = [pc EXCEPT ![e] = "done"] /\ reply' = [reply EXCEPT ![e] = "gaveup"]
        /\ pc[e] # "ride" /\ reply[e] = "none"
    BY <1>37, <2>1, <2>2, <1>b DEF EvalCaretFails, EvalAborts, GaveUp, Done, Requests
  <2>4. e \in On(r) BY <2>2, <2>3 DEF On
  <2>5. On(r)' = On(r) \ {e} BY <2>2, <2>3, <1>a DEF On
  <2>6. ASSUME NEW s \in Evaluators, s # r PROVE On(s)' = On(s)
    BY <2>2, <2>3, <2>6, <1>a DEF On
  <2>7. UNCHANGED outcome
        \/ (riders[r] = 1 /\ \A s \in Evaluators : s # r => outcome'[s] = outcome[s])
    BY <2>1, <2>2 DEF GaveUp, Stamps
  <2> QED BY <2>3, <2>4, <2>5, <2>6, <2>7, <1>b, CountingLeaves
<1>z. (AboardKept /\ CancelKept) \/ Counting'
  BY <1>1, <1>2, <1>3, <1>4, <1>5, <1>6, <1>7, <1>8, <1>9, <1>10, <1>11, <1>12, <1>13,
    <1>14, <1>15, <1>16, <1>17, <1>18, <1>19, <1>20, <1>21, <1>22, <1>23, <1>24, <1>25,
      <1>26, <1>27, <1>28, <1>29, <1>30, <1>31, <1>32, <1>33, <1>34, <1>35, <1>36,
        <1>37 DEF Step, Evaluate, Read, Cancel, Environment
<1> QED BY <1>z, <1>b, CountingKept

-----------------------------------------------------------------------------
(* Types.                                                                  *)

\* TypeOK without the history variable that follows every step.
StateTyped ==
  /\ active \in BOOLEAN
  /\ file \in Files \cup {NoFile}
  /\ dest \in Lines
  /\ current \in Evaluators \cup {NoRun}
  /\ outcome \in [Evaluators -> Outcomes]
  /\ riders \in [Evaluators -> Int]
  /\ lock \in Procs \cup {Free}
  /\ pc \in [Procs -> Places]
  /\ req \in [Procs -> Req]
  /\ run \in [Procs -> Evaluators \cup {NoRun}]
  /\ retried \in [Evaluators -> BOOLEAN]
  /\ reply \in [Procs -> Replies]
  /\ alive \in BOOLEAN
  /\ caret \in Caret
  /\ reached \in [Files -> 0 .. MaxLine]
  /\ forks \subseteq Files
  /\ fresh \subseteq Files
  /\ hits \subseteq Files
  /\ late \in BOOLEAN
  /\ swept \in [Evaluators -> {"no", "reset", "retracted"}]
  /\ stranded \subseteq Evaluators

LEMMA StateTypedStep ==
  ASSUME TypeOK, Requests, RunLedger, Step PROVE StateTyped'
<1>0. StateTyped /\ (active => current \in Evaluators)
  BY DEF TypeOK, StateTyped, RunLedger
<1> USE LineBound, FilesGiven DEF StateTyped, Procs, Lines, runState, ledger, requests,
  prover
<1>1. ASSUME NEW e \in Evaluators, EvalRefused(e) PROVE StateTyped'
  <2>1. pc' \in [Procs -> Places] BY <1>0, <1>1 DEF EvalRefused, Done, Places
  <2>2. reply' \in [Procs -> Replies] BY <1>0, <1>1 DEF EvalRefused, Done, Replies
  <2>3. UNCHANGED <<active, file, dest, current, outcome, riders, lock, req, run, retried,
                    alive, caret, reached, forks, fresh, hits, late, swept, stranded>>
    BY <1>0, <1>1 DEF EvalRefused, Done
  <2> QED BY <1>0, <2>1, <2>2, <2>3
<1>2. ASSUME NEW e \in Evaluators, NEW f \in Files, NEW l \in Lines, EvalEnters(e, f, l)
  PROVE StateTyped'
  <2>1. lock' \in Procs \cup {Free} BY <1>0, <1>2 DEF EvalEnters
  <2>2. pc' \in [Procs -> Places] BY <1>0, <1>2 DEF EvalEnters, Goto, Places
  <2>3. req' \in [Procs -> Req] BY <1>0, <1>2 DEF EvalEnters, Req
  <2>4. UNCHANGED <<active, file, dest, current, outcome, riders, run, retried, reply,
    alive,
                    caret, reached, forks, fresh, hits, late, swept, stranded>>
    BY <1>0, <1>2 DEF EvalEnters, Goto
  <2> QED BY <1>0, <2>1, <2>2, <2>3, <2>4
<1>3. ASSUME NEW e \in Evaluators, EvalOpenFails(e) PROVE StateTyped'
  <2>1. lock' \in Procs \cup {Free} BY <1>0, <1>3 DEF EvalOpenFails
  <2>2. pc' \in [Procs -> Places] BY <1>0, <1>3 DEF EvalOpenFails, Done, Places
  <2>3. reply' \in [Procs -> Replies] BY <1>0, <1>3 DEF EvalOpenFails, Done, Replies
  <2>4. UNCHANGED <<active, file, dest, current, outcome, riders, req, run, retried, alive,
                    caret, reached, forks, fresh, hits, late, swept, stranded>>
    BY <1>0, <1>3 DEF EvalOpenFails, Done
  <2> QED BY <1>0, <2>1, <2>2, <2>3, <2>4
<1>4. ASSUME NEW e \in Evaluators, EvalJoins(e) PROVE StateTyped'
  <2>1. active' \in BOOLEAN BY <1>0, <1>4 DEF EvalJoins, JoinOrStart
  <2>2. file' \in Files \cup {NoFile} BY <1>0, <1>4 DEF EvalJoins, JoinOrStart, Requests
  <2>3. dest' \in Lines BY <1>0, <1>4 DEF EvalJoins, JoinOrStart, Requests, Advanced, Max2
  <2>4. current' \in Evaluators \cup {NoRun}
    BY <1>0, <1>4 DEF EvalJoins, JoinOrStart, Requests
  <2>5. riders' \in [Evaluators -> Int]
    BY <1>0, <1>4 DEF EvalJoins, JoinOrStart, Requests, Joins
  <2>6. lock' \in Procs \cup {Free} BY <1>0, <1>4 DEF EvalJoins
  <2>7. pc' \in [Procs -> Places] BY <1>0, <1>4 DEF EvalJoins, JoinOrStart, Goto, Places
  <2>8. run' \in [Procs -> Evaluators \cup {NoRun}] BY <1>0, <1>4 DEF EvalJoins, JoinOrStart
  <2>9. fresh' \in SUBSET Files BY <1>0, <1>4 DEF EvalJoins
  <2>10. UNCHANGED <<outcome, req, retried, reply, alive, caret, reached, forks, hits, late,
                    swept, stranded>>
    BY <1>0, <1>4 DEF EvalJoins, JoinOrStart, Goto
  <2> QED BY <1>0, <2>1, <2>2, <2>3, <2>4, <2>5, <2>6, <2>7, <2>8, <2>9, <2>10
<1>5. ASSUME NEW e \in Evaluators, EvalCaretSent(e) PROVE StateTyped'
  <2>1. lock' \in Procs \cup {Free} BY <1>0, <1>5 DEF EvalCaretSent
  <2>2. pc' \in [Procs -> Places] BY <1>0, <1>5 DEF EvalCaretSent, Goto, Places
  <2>3. caret' \in Caret BY <1>0, <1>5 DEF EvalCaretSent, CaretOf, Caret, Req
  <2>4. UNCHANGED <<active, file, dest, current, outcome, riders, req, run, retried, reply,
                    alive, reached, forks, fresh, hits, late, swept, stranded>>
    BY <1>0, <1>5 DEF EvalCaretSent, Goto
  <2> QED BY <1>0, <2>1, <2>2, <2>3, <2>4
<1>6. ASSUME NEW e \in Evaluators, EvalCaretFails(e) PROVE StateTyped'
  <2>1. active' \in BOOLEAN BY <1>0, <1>6 DEF EvalCaretFails, GiveUp, FinishIfOwner, Finish
  <2>2. outcome' \in [Evaluators -> Outcomes]
    BY <1>0, <1>6 DEF EvalCaretFails, GiveUp, FinishIfOwner, Finish, Outcomes
  <2>3. riders' \in [Evaluators -> Int]
    BY <1>0, <1>6 DEF EvalCaretFails, GiveUp, Requests, Joined
  <2>4. lock' \in Procs \cup {Free} BY <1>0, <1>6 DEF EvalCaretFails
  <2>5. pc' \in [Procs -> Places] BY <1>0, <1>6 DEF EvalCaretFails, GiveUp, Done, Places
  <2>6. reply' \in [Procs -> Replies]
    BY <1>0, <1>6 DEF EvalCaretFails, GiveUp, Done, Replies
  <2>7. caret' \in Caret BY <1>0, <1>6 DEF EvalCaretFails, CaretOf, Caret, Req
  <2>8. stranded' \in SUBSET Evaluators BY <1>0, <1>6 DEF EvalCaretFails, Requests, Joined
  <2>9. UNCHANGED <<file, dest, current, req, run, retried, alive, reached, forks, fresh,
    hits,
                    late, swept>>
    BY <1>0, <1>6 DEF EvalCaretFails, GiveUp, FinishIfOwner, Finish, Done
  <2> QED BY <1>0, <2>1, <2>2, <2>3, <2>4, <2>5, <2>6, <2>7, <2>8, <2>9
<1>7. ASSUME NEW e \in Evaluators, EvalFresh(e) PROVE StateTyped'
  <2>1. pc' \in [Procs -> Places] BY <1>0, <1>7 DEF EvalFresh, Goto, Places
  <2>2. UNCHANGED <<active, file, dest, current, outcome, riders, lock, req, run, retried,
                    reply, alive, caret, reached, forks, fresh, hits, late, swept,
                      stranded>>
    BY <1>0, <1>7 DEF EvalFresh, Goto
  <2> QED BY <1>0, <2>1, <2>2
<1>8. ASSUME NEW e \in Evaluators, EvalChecks(e) PROVE StateTyped'
  <2>1. active' \in BOOLEAN
    BY <1>0, <1>8 DEF EvalChecks, Conclude, Stopped, FinishIfOwner, Finish
  <2>2. outcome' \in [Evaluators -> Outcomes]
    BY <1>0, <1>8 DEF EvalChecks, Conclude, Stopped, FinishIfOwner, Finish, Outcomes
  <2>3. pc' \in [Procs -> Places]
    BY <1>0, <1>8 DEF EvalChecks, Conclude, Stopped, Done, Goto, Places
  <2>4. retried' \in [Evaluators -> BOOLEAN]
    BY <1>0, <1>8 DEF EvalChecks, Conclude, Stopped, Done
  <2>5. reply' \in [Procs -> Replies]
    BY <1>0, <1>8 DEF EvalChecks, Conclude, Stopped, Done, Goto, Replies
  <2>6. UNCHANGED <<file, dest, current, riders, lock, req, run, alive, caret, reached,
    forks,
                    fresh, hits, late, swept, stranded>>
    BY <1>0, <1>8 DEF EvalChecks, Conclude, Stopped, FinishIfOwner, Finish, Done, Goto
  <2> QED BY <1>0, <2>1, <2>2, <2>3, <2>4, <2>5, <2>6
<1>9. ASSUME NEW e \in Evaluators, EvalDecides(e) PROVE StateTyped'
  <2>1. active' \in BOOLEAN
    BY <1>0, <1>9 DEF EvalDecides, Conclude, Stopped, FinishIfOwner, Finish
  <2>2. outcome' \in [Evaluators -> Outcomes]
    BY <1>0, <1>9 DEF EvalDecides, Conclude, Stopped, FinishIfOwner, Finish, Outcomes
  <2>3. pc' \in [Procs -> Places]
    BY <1>0, <1>9 DEF EvalDecides, Conclude, Stopped, Done, Goto, Places
  <2>4. retried' \in [Evaluators -> BOOLEAN]
    BY <1>0, <1>9 DEF EvalDecides, Conclude, Stopped, Done
  <2>5. reply' \in [Procs -> Replies]
    BY <1>0, <1>9 DEF EvalDecides, Conclude, Stopped, Done, Goto, Replies
  <2>6. UNCHANGED <<file, dest, current, riders, lock, req, run, alive, caret, reached,
    forks,
                    fresh, hits, late, swept, stranded>>
    BY <1>0, <1>9 DEF EvalDecides, Conclude, Stopped, FinishIfOwner, Finish, Done, Goto
  <2> QED BY <1>0, <2>1, <2>2, <2>3, <2>4, <2>5, <2>6
<1>10. ASSUME NEW e \in Evaluators, EvalTimesOut(e) PROVE StateTyped'
  <2>1. active' \in BOOLEAN
    BY <1>0, <1>10 DEF EvalTimesOut, Conclude, Stopped, FinishIfOwner, Finish
  <2>2. outcome' \in [Evaluators -> Outcomes]
    BY <1>0, <1>10 DEF EvalTimesOut, Conclude, Stopped, FinishIfOwner, Finish, Outcomes
  <2>3. pc' \in [Procs -> Places]
    BY <1>0, <1>10 DEF EvalTimesOut, Conclude, Stopped, Done, Goto, Places
  <2>4. retried' \in [Evaluators -> BOOLEAN]
    BY <1>0, <1>10 DEF EvalTimesOut, Conclude, Stopped, Done
  <2>5. reply' \in [Procs -> Replies]
    BY <1>0, <1>10 DEF EvalTimesOut, Conclude, Stopped, Done, Goto, Replies
  <2>6. UNCHANGED <<file, dest, current, riders, lock, req, run, alive, caret, reached,
    forks,
                    fresh, hits, late, swept, stranded>>
    BY <1>0, <1>10 DEF EvalTimesOut, Conclude, Stopped, FinishIfOwner, Finish, Done, Goto
  <2> QED BY <1>0, <2>1, <2>2, <2>3, <2>4, <2>5, <2>6
<1>11. ASSUME NEW e \in Evaluators, EvalAborts(e) PROVE StateTyped'
  <2>1. active' \in BOOLEAN BY <1>0, <1>11 DEF EvalAborts, GiveUp, FinishIfOwner, Finish
  <2>2. outcome' \in [Evaluators -> Outcomes]
    BY <1>0, <1>11 DEF EvalAborts, GiveUp, FinishIfOwner, Finish, Outcomes
  <2>3. riders' \in [Evaluators -> Int]
    BY <1>0, <1>11 DEF EvalAborts, GiveUp, Requests, Joined
  <2>4. pc' \in [Procs -> Places] BY <1>0, <1>11 DEF EvalAborts, GiveUp, Done, Places
  <2>5. reply' \in [Procs -> Replies] BY <1>0, <1>11 DEF EvalAborts, GiveUp, Done, Replies
  <2>6. UNCHANGED <<file, dest, current, lock, req, run, retried, alive, caret, reached,
    forks,
                    fresh, hits, late, swept, stranded>>
    BY <1>0, <1>11 DEF EvalAborts, GiveUp, FinishIfOwner, Finish, Done
  <2> QED BY <1>0, <2>1, <2>2, <2>3, <2>4, <2>5, <2>6
<1>12. ASSUME NEW e \in Evaluators, EvalReports(e) PROVE StateTyped'
  <2>1. pc' \in [Procs -> Places] BY <1>0, <1>12 DEF EvalReports, Done, Places
  <2>2. reply' \in [Procs -> Replies] BY <1>0, <1>12 DEF EvalReports, Done, Replies
  <2>3. UNCHANGED <<active, file, dest, current, outcome, riders, lock, req, run, retried,
                    alive, caret, reached, forks, fresh, hits, late, swept, stranded>>
    BY <1>0, <1>12 DEF EvalReports, Done
  <2> QED BY <1>0, <2>1, <2>2, <2>3
<1>13. ASSUME NEW q \in Readers, StatusCaptures(q) PROVE StateTyped'
  <2>1. pc' \in [Procs -> Places] BY <1>0, <1>13 DEF StatusCaptures, Goto, Places
  <2>2. run' \in [Procs -> Evaluators \cup {NoRun}] BY <1>0, <1>13 DEF StatusCaptures
  <2>3. UNCHANGED <<active, file, dest, current, outcome, riders, lock, req, retried, reply,
                    alive, caret, reached, forks, fresh, hits, late, swept, stranded>>
    BY <1>0, <1>13 DEF StatusCaptures, Goto
  <2> QED BY <1>0, <2>1, <2>2, <2>3
<1>14. ASSUME NEW q \in Readers, StatusDecides(q) PROVE StateTyped'
  <2>1. active' \in BOOLEAN BY <1>0, <1>14 DEF StatusDecides, FinishIfOwner, Finish
  <2>2. outcome' \in [Evaluators -> Outcomes]
    BY <1>0, <1>14 DEF StatusDecides, FinishIfOwner, Finish, Outcomes
  <2>3. pc' \in [Procs -> Places] BY <1>0, <1>14 DEF StatusDecides, Done, Places
  <2>4. reply' \in [Procs -> Replies] BY <1>0, <1>14 DEF StatusDecides, Done, Replies
  <2>5. UNCHANGED <<file, dest, current, riders, lock, req, run, retried, alive, caret,
                    reached, forks, fresh, hits, late, swept, stranded>>
    BY <1>0, <1>14 DEF StatusDecides, Done, FinishIfOwner, Finish
  <2> QED BY <1>0, <2>1, <2>2, <2>3, <2>4, <2>5
<1>15. ASSUME NEW q \in Readers, FooterCaptures(q) PROVE StateTyped'
  <2>1. pc' \in [Procs -> Places] BY <1>0, <1>15 DEF FooterCaptures, Done, Goto, Places
  <2>2. req' \in [Procs -> Req] BY <1>0, <1>15 DEF FooterCaptures, Req, Done, Lines
  <2>3. run' \in [Procs -> Evaluators \cup {NoRun}] BY <1>0, <1>15 DEF FooterCaptures
  <2>4. reply' \in [Procs -> Replies] BY <1>0, <1>15 DEF FooterCaptures, Done, Goto, Replies
  <2>5. UNCHANGED <<active, file, dest, current, outcome, riders, lock, retried, alive,
    caret,
                    reached, forks, fresh, hits, late, swept, stranded>>
    BY <1>0, <1>15 DEF FooterCaptures, Goto, Done
  <2> QED BY <1>0, <2>1, <2>2, <2>3, <2>4, <2>5
<1>16. ASSUME NEW q \in Readers, FooterJudges(q) PROVE StateTyped'
  <2>1. pc' \in [Procs -> Places] BY <1>0, <1>16 DEF FooterJudges, Done, Goto, Places
  <2>2. reply' \in [Procs -> Replies] BY <1>0, <1>16 DEF FooterJudges, Done, Goto, Replies
  <2>3. UNCHANGED <<active, file, dest, current, outcome, riders, lock, req, run, retried,
                    alive, caret, reached, forks, fresh, hits, late, swept, stranded>>
    BY <1>0, <1>16 DEF FooterJudges, Goto, Done
  <2> QED BY <1>0, <2>1, <2>2, <2>3
<1>17. ASSUME NEW q \in Readers, FooterStamps(q) PROVE StateTyped'
  <2>1. active' \in BOOLEAN BY <1>0, <1>17 DEF FooterStamps, Finish
  <2>2. outcome' \in [Evaluators -> Outcomes]
    BY <1>0, <1>17 DEF FooterStamps, Finish, Outcomes
  <2>3. pc' \in [Procs -> Places] BY <1>0, <1>17 DEF FooterStamps, Done, Places
  <2>4. reply' \in [Procs -> Replies] BY <1>0, <1>17 DEF FooterStamps, Done, Replies
  <2>5. UNCHANGED <<file, dest, current, riders, lock, req, run, retried, alive, caret,
                    reached, forks, fresh, hits, late, swept, stranded>>
    BY <1>0, <1>17 DEF FooterStamps, Done, Finish
  <2> QED BY <1>0, <2>1, <2>2, <2>3, <2>4, <2>5
<1>18. ASSUME NEW q \in Readers, QueryServed(q) PROVE StateTyped'
  <2>1. pc' \in [Procs -> Places] BY <1>0, <1>18 DEF QueryServed, Done, Places
  <2>2. reply' \in [Procs -> Replies] BY <1>0, <1>18 DEF QueryServed, Done, Replies
  <2>3. UNCHANGED <<active, file, dest, current, outcome, riders, lock, req, run, retried,
                    alive, caret, reached, forks, fresh, hits, late, swept, stranded>>
    BY <1>0, <1>18 DEF QueryServed, Done
  <2> QED BY <1>0, <2>1, <2>2, <2>3
<1>19. ASSUME NEW q \in Readers, QueryRefused(q) PROVE StateTyped'
  <2>1. pc' \in [Procs -> Places] BY <1>0, <1>19 DEF QueryRefused, Done, Places
  <2>2. reply' \in [Procs -> Replies] BY <1>0, <1>19 DEF QueryRefused, Done, Replies
  <2>3. UNCHANGED <<active, file, dest, current, outcome, riders, lock, req, run, retried,
                    alive, caret, reached, forks, fresh, hits, late, swept, stranded>>
    BY <1>0, <1>19 DEF QueryRefused, Done
  <2> QED BY <1>0, <2>1, <2>2, <2>3
<1>20. ASSUME NEW q \in Readers, QueryRides(q) PROVE StateTyped'
  <2>1. riders' \in [Evaluators -> Int] BY <1>0, <1>20 DEF QueryRides, Covers, Joins
  <2>2. pc' \in [Procs -> Places] BY <1>0, <1>20 DEF QueryRides, Goto, Places
  <2>3. run' \in [Procs -> Evaluators \cup {NoRun}] BY <1>0, <1>20 DEF QueryRides
  <2>4. UNCHANGED <<active, file, dest, current, outcome, lock, req, retried, reply, alive,
                    caret, reached, forks, fresh, hits, late, swept, stranded>>
    BY <1>0, <1>20 DEF QueryRides, Goto
  <2> QED BY <1>0, <2>1, <2>2, <2>3, <2>4
<1>21. ASSUME NEW q \in Readers, QueryUnjoins(q) PROVE StateTyped'
  <2>1. riders' \in [Evaluators -> Int] BY <1>0, <1>21 DEF QueryUnjoins, Requests
  <2>2. pc' \in [Procs -> Places] BY <1>0, <1>21 DEF QueryUnjoins, Goto, Places
  <2>3. UNCHANGED <<active, file, dest, current, outcome, lock, req, run, retried, reply,
                    alive, caret, reached, forks, fresh, hits, late, swept, stranded>>
    BY <1>0, <1>21 DEF QueryUnjoins, Goto
  <2> QED BY <1>0, <2>1, <2>2, <2>3
<1>22. ASSUME NEW q \in Readers, QueryJudges(q) PROVE StateTyped'
  <2>1. pc' \in [Procs -> Places] BY <1>0, <1>22 DEF QueryJudges, Done, Goto, Places
  <2>2. reply' \in [Procs -> Replies] BY <1>0, <1>22 DEF QueryJudges, Done, Goto, Replies
  <2>3. UNCHANGED <<active, file, dest, current, outcome, riders, lock, req, run, retried,
                    alive, caret, reached, forks, fresh, hits, late, swept, stranded>>
    BY <1>0, <1>22 DEF QueryJudges, Done, Goto
  <2> QED BY <1>0, <2>1, <2>2, <2>3
<1>23. ASSUME NEW q \in Readers, QueryReports(q) PROVE StateTyped'
  <2>1. pc' \in [Procs -> Places] BY <1>0, <1>23 DEF QueryReports, Done, Places
  <2>2. reply' \in [Procs -> Replies] BY <1>0, <1>23 DEF QueryReports, Done, Replies
  <2>3. UNCHANGED <<active, file, dest, current, outcome, riders, lock, req, run, retried,
                    alive, caret, reached, forks, fresh, hits, late, swept, stranded>>
    BY <1>0, <1>23 DEF QueryReports, Done
  <2> QED BY <1>0, <2>1, <2>2, <2>3
<1>24. ASSUME NEW q \in Readers, QueryFails(q) PROVE StateTyped'
  <2>1. pc' \in [Procs -> Places] BY <1>0, <1>24 DEF QueryFails, Done, Places
  <2>2. reply' \in [Procs -> Replies] BY <1>0, <1>24 DEF QueryFails, Done, Replies
  <2>3. UNCHANGED <<active, file, dest, current, outcome, riders, lock, req, run, retried,
                    alive, caret, reached, forks, fresh, hits, late, swept, stranded>>
    BY <1>0, <1>24 DEF QueryFails, Done
  <2> QED BY <1>0, <2>1, <2>2, <2>3
<1>25. ASSUME NEW q \in Readers, NEW f \in Files, NEW l \in Lines, QueryAsks(q, f, l)
  PROVE StateTyped'
  <2>1. pc' \in [Procs -> Places] BY <1>0, <1>25 DEF QueryAsks, Goto, Places
  <2>2. req' \in [Procs -> Req] BY <1>0, <1>25 DEF QueryAsks, Req
  <2>3. UNCHANGED <<active, file, dest, current, outcome, riders, lock, run, retried, reply,
                    alive, caret, reached, forks, fresh, hits, late, swept, stranded>>
    BY <1>0, <1>25 DEF QueryAsks, Goto
  <2> QED BY <1>0, <2>1, <2>2, <2>3
<1>26. ASSUME NEW c \in Cancellers, CancelShortcut(c) PROVE StateTyped'
  <2>1. pc' \in [Procs -> Places] BY <1>0, <1>26 DEF CancelShortcut, Done, Places
  <2>2. reply' \in [Procs -> Replies] BY <1>0, <1>26 DEF CancelShortcut, Done, Replies
  <2>3. UNCHANGED <<active, file, dest, current, outcome, riders, lock, req, run, retried,
                    alive, caret, reached, forks, fresh, hits, late, swept, stranded>>
    BY <1>0, <1>26 DEF CancelShortcut, Done
  <2> QED BY <1>0, <2>1, <2>2, <2>3
<1>27. ASSUME NEW c \in Cancellers, CancelSends(c) PROVE StateTyped'
  <2>1. lock' \in Procs \cup {Free} BY <1>0, <1>27 DEF CancelSends
  <2>2. pc' \in [Procs -> Places] BY <1>0, <1>27 DEF CancelSends, Goto, Places
  <2>3. UNCHANGED <<active, file, dest, current, outcome, riders, req, run, retried, reply,
                    alive, caret, reached, forks, fresh, hits, late, swept, stranded>>
    BY <1>0, <1>27 DEF CancelSends, Goto
  <2> QED BY <1>0, <2>1, <2>2, <2>3
<1>28. ASSUME NEW c \in Cancellers, CancelReturns(c) PROVE StateTyped'
  <2>1. active' \in BOOLEAN BY <1>0, <1>28 DEF CancelReturns, ResetRun, Finish
  <2>2. outcome' \in [Evaluators -> Outcomes]
    BY <1>0, <1>28 DEF CancelReturns, ResetRun, Finish, Outcomes
  <2>3. pc' \in [Procs -> Places] BY <1>0, <1>28 DEF CancelReturns, Goto, Places
  <2>4. caret' \in Caret BY <1>0, <1>28 DEF CancelReturns, ServerCancelled, Caret, NoCaret
  <2>5. forks' \in SUBSET Files BY <1>0, <1>28 DEF CancelReturns, ServerCancelled
  <2>6. fresh' \in SUBSET Files BY <1>0, <1>28 DEF CancelReturns, ServerCancelled
  <2>7. hits' \in SUBSET Files BY <1>0, <1>28 DEF CancelReturns, ServerCancelled
  <2>8. swept' \in [Evaluators -> {"no", "reset", "retracted"}]
    BY <1>0, <1>28 DEF CancelReturns, ResetRun
  <2>9. UNCHANGED <<file, dest, current, riders, lock, req, run, retried, reply, alive,
                    reached, late, stranded>>
    BY <1>0, <1>28 DEF CancelReturns, ServerCancelled, ResetRun, Finish, Goto
  <2> QED BY <1>0, <2>1, <2>2, <2>3, <2>4, <2>5, <2>6, <2>7, <2>8, <2>9
<1>29. ASSUME NEW c \in Cancellers, CancelSweeps(c) PROVE StateTyped'
  <2>1. lock' \in Procs \cup {Free} BY <1>0, <1>29 DEF CancelSweeps
  <2>2. pc' \in [Procs -> Places] BY <1>0, <1>29 DEF CancelSweeps, Done, Goto, Places
  <2>3. reply' \in [Procs -> Replies] BY <1>0, <1>29 DEF CancelSweeps, Done, Goto, Replies
  <2>4. UNCHANGED <<active, file, dest, current, outcome, riders, req, run, retried, alive,
                    caret, reached, forks, fresh, hits, late, swept, stranded>>
    BY <1>0, <1>29 DEF CancelSweeps, Done, Goto
  <2> QED BY <1>0, <2>1, <2>2, <2>3, <2>4
<1>30. ASSUME NEW c \in Cancellers, CancelFails(c) PROVE StateTyped'
  <2>1. active' \in BOOLEAN BY <1>0, <1>30 DEF CancelFails, ResetRun, Finish
  <2>2. outcome' \in [Evaluators -> Outcomes]
    BY <1>0, <1>30 DEF CancelFails, ResetRun, Finish, Outcomes
  <2>3. lock' \in Procs \cup {Free} BY <1>0, <1>30 DEF CancelFails
  <2>4. pc' \in [Procs -> Places] BY <1>0, <1>30 DEF CancelFails, Goto, Places
  <2>5. swept' \in [Evaluators -> {"no", "reset", "retracted"}]
    BY <1>0, <1>30 DEF CancelFails, ResetRun
  <2>6. UNCHANGED <<file, dest, current, riders, req, run, retried, reply, alive, caret,
                    reached, forks, fresh, hits, late, stranded>>
    BY <1>0, <1>30 DEF CancelFails, ResetRun, Finish, Goto
  <2> QED BY <1>0, <2>1, <2>2, <2>3, <2>4, <2>5, <2>6
<1>31. ASSUME NEW c \in Cancellers, CancelDropped(c) PROVE StateTyped'
  <2>1. active' \in BOOLEAN BY <1>0, <1>31 DEF CancelDropped, ResetRun, Finish
  <2>2. outcome' \in [Evaluators -> Outcomes]
    BY <1>0, <1>31 DEF CancelDropped, ResetRun, Finish, Outcomes
  <2>3. lock' \in Procs \cup {Free} BY <1>0, <1>31 DEF CancelDropped
  <2>4. pc' \in [Procs -> Places] BY <1>0, <1>31 DEF CancelDropped, Done, Places
  <2>5. reply' \in [Procs -> Replies] BY <1>0, <1>31 DEF CancelDropped, Done, Replies
  <2>6. late' \in BOOLEAN BY <1>0, <1>31 DEF CancelDropped
  <2>7. swept' \in [Evaluators -> {"no", "reset", "retracted"}]
    BY <1>0, <1>31 DEF CancelDropped, ResetRun
  <2>8. UNCHANGED <<file, dest, current, riders, req, run, retried, alive, caret, reached,
                    forks, fresh, hits, stranded>>
    BY <1>0, <1>31 DEF CancelDropped, ResetRun, Finish, Done
  <2> QED BY <1>0, <2>1, <2>2, <2>3, <2>4, <2>5, <2>6, <2>7, <2>8
<1>32. ASSUME NEW c \in Cancellers, Catastrophe(c) PROVE StateTyped'
  <2>1. active' \in BOOLEAN BY <1>0, <1>32 DEF Catastrophe, Teardown, ResetRun, Finish
  <2>2. outcome' \in [Evaluators -> Outcomes]
    BY <1>0, <1>32 DEF Catastrophe, Teardown, ResetRun, Finish, Outcomes
  <2>3. pc' \in [Procs -> Places] BY <1>0, <1>32 DEF Catastrophe, Failed, Places
  <2>4. reply' \in [Procs -> Replies] BY <1>0, <1>32 DEF Catastrophe, FailedReply, Replies
  <2>5. alive' \in BOOLEAN BY <1>0, <1>32 DEF Catastrophe, Teardown
  <2>6. caret' \in Caret BY <1>0, <1>32 DEF Catastrophe, Teardown, Caret, NoCaret
  <2>7. reached' \in [Files -> 0 .. MaxLine] BY <1>0, <1>32 DEF Catastrophe, Teardown
  <2>8. forks' \in SUBSET Files BY <1>0, <1>32 DEF Catastrophe, Teardown
  <2>9. fresh' \in SUBSET Files BY <1>0, <1>32 DEF Catastrophe, Teardown
  <2>10. hits' \in SUBSET Files BY <1>0, <1>32 DEF Catastrophe, Teardown
  <2>11. late' \in BOOLEAN BY <1>0, <1>32 DEF Catastrophe, Teardown
  <2>12. swept' \in [Evaluators -> {"no", "reset", "retracted"}]
    BY <1>0, <1>32 DEF Catastrophe, Teardown, ResetRun
  <2>13. UNCHANGED <<file, dest, current, riders, lock, req, run, retried, stranded>>
    BY <1>0, <1>32 DEF Catastrophe, Teardown, ResetRun, Finish
  <2> QED
    BY <1>0, <2>1, <2>2, <2>3, <2>4, <2>5, <2>6, <2>7, <2>8, <2>9, <2>10, <2>11, <2>12,
      <2>13
<1>33. ASSUME Terminate PROVE StateTyped'
  <2>1. active' \in BOOLEAN BY <1>0, <1>33 DEF Terminate, Teardown, ResetRun, Finish
  <2>2. outcome' \in [Evaluators -> Outcomes]
    BY <1>0, <1>33 DEF Terminate, Teardown, ResetRun, Finish, Outcomes
  <2>3. pc' \in [Procs -> Places] BY <1>0, <1>33 DEF Terminate, Failed, Places
  <2>4. reply' \in [Procs -> Replies] BY <1>0, <1>33 DEF Terminate, FailedReply, Replies
  <2>5. alive' \in BOOLEAN BY <1>0, <1>33 DEF Terminate, Teardown
  <2>6. caret' \in Caret BY <1>0, <1>33 DEF Terminate, Teardown, Caret, NoCaret
  <2>7. reached' \in [Files -> 0 .. MaxLine] BY <1>0, <1>33 DEF Terminate, Teardown
  <2>8. forks' \in SUBSET Files BY <1>0, <1>33 DEF Terminate, Teardown
  <2>9. fresh' \in SUBSET Files BY <1>0, <1>33 DEF Terminate, Teardown
  <2>10. hits' \in SUBSET Files BY <1>0, <1>33 DEF Terminate, Teardown
  <2>11. late' \in BOOLEAN BY <1>0, <1>33 DEF Terminate, Teardown
  <2>12. swept' \in [Evaluators -> {"no", "reset", "retracted"}]
    BY <1>0, <1>33 DEF Terminate, Teardown, ResetRun
  <2>13. UNCHANGED <<file, dest, current, riders, lock, req, run, retried, stranded>>
    BY <1>0, <1>33 DEF Terminate, Teardown, ResetRun, Finish
  <2> QED
    BY <1>0, <2>1, <2>2, <2>3, <2>4, <2>5, <2>6, <2>7, <2>8, <2>9, <2>10, <2>11, <2>12,
      <2>13
<1>34. ASSUME Launch PROVE StateTyped'
  <2>1. alive' \in BOOLEAN BY <1>0, <1>34 DEF Launch
  <2>2. UNCHANGED <<active, file, dest, current, outcome, riders, lock, pc, req, run,
    retried,
                    reply, caret, reached, forks, fresh, hits, late, swept, stranded>>
    BY <1>0, <1>34 DEF Launch
  <2> QED BY <1>0, <2>1, <2>2
<1>35. ASSUME LateCancel PROVE StateTyped'
  <2>1. caret' \in Caret BY <1>0, <1>35 DEF LateCancel, ServerCancelled, Caret, NoCaret
  <2>2. forks' \in SUBSET Files BY <1>0, <1>35 DEF LateCancel, ServerCancelled
  <2>3. fresh' \in SUBSET Files BY <1>0, <1>35 DEF LateCancel, ServerCancelled
  <2>4. hits' \in SUBSET Files BY <1>0, <1>35 DEF LateCancel, ServerCancelled
  <2>5. late' \in BOOLEAN BY <1>0, <1>35 DEF LateCancel
  <2>6. stranded' \in SUBSET Evaluators BY <1>0, <1>35 DEF LateCancel, Caret
  <2>7. UNCHANGED <<active, file, dest, current, outcome, riders, lock, pc, req, run,
    retried,
                    reply, alive, reached, swept>>
    BY <1>0, <1>35 DEF LateCancel, ServerCancelled
  <2> QED BY <1>0, <2>1, <2>2, <2>3, <2>4, <2>5, <2>6, <2>7
<1>36. ASSUME ProverAdvances PROVE StateTyped'
  <2>1. reached' \in [Files -> 0 .. MaxLine]
    BY <1>0, <1>36 DEF ProverAdvances, Requests, Caret
  <2>2. forks' \in SUBSET Files BY <1>0, <1>36 DEF ProverAdvances, Requests
  <2>3. UNCHANGED <<active, file, dest, current, outcome, riders, lock, pc, req, run,
    retried,
                    reply, alive, caret, fresh, hits, late, swept, stranded>>
    BY <1>0, <1>36 DEF ProverAdvances
  <2> QED BY <1>0, <2>1, <2>2, <2>3
<1>37. ASSUME NEW f \in Files, ForkJoins(f) PROVE StateTyped'
  <2>1. forks' \in SUBSET Files BY <1>0, <1>37 DEF ForkJoins
  <2>2. UNCHANGED <<active, file, dest, current, outcome, riders, lock, pc, req, run,
    retried,
                    reply, alive, caret, reached, fresh, hits, late, swept, stranded>>
    BY <1>0, <1>37 DEF ForkJoins
  <2> QED BY <1>0, <2>1, <2>2
<1>38. ASSUME NEW f \in Files, PictureArrives(f) PROVE StateTyped'
  <2>1. fresh' \in SUBSET Files BY <1>0, <1>38 DEF PictureArrives
  <2>2. UNCHANGED <<active, file, dest, current, outcome, riders, lock, pc, req, run,
    retried,
                    reply, alive, caret, reached, forks, hits, late, swept, stranded>>
    BY <1>0, <1>38 DEF PictureArrives
  <2> QED BY <1>0, <2>1, <2>2
<1>39. ASSUME NEW f \in Files, HitLands(f) PROVE StateTyped'
  <2>1. hits' \in SUBSET Files BY <1>0, <1>39 DEF HitLands
  <2>2. UNCHANGED <<active, file, dest, current, outcome, riders, lock, pc, req, run,
    retried,
                    reply, alive, caret, reached, forks, fresh, late, swept, stranded>>
    BY <1>0, <1>39 DEF HitLands
  <2> QED BY <1>0, <2>1, <2>2
<1>40. ASSUME NEW f \in Files, HitContinues(f) PROVE StateTyped'
  <2>1. hits' \in SUBSET Files BY <1>0, <1>40 DEF HitContinues
  <2>2. UNCHANGED <<active, file, dest, current, outcome, riders, lock, pc, req, run,
    retried,
                    reply, alive, caret, reached, forks, fresh, late, swept, stranded>>
    BY <1>0, <1>40 DEF HitContinues
  <2> QED BY <1>0, <2>1, <2>2
<1>41. ASSUME NEW f \in Files, NEW l \in Lines, EditPushed(f, l) PROVE StateTyped'
  <2>1. reached' \in [Files -> 0 .. MaxLine] BY <1>0, <1>41 DEF EditPushed, Min2
  <2>2. fresh' \in SUBSET Files BY <1>0, <1>41 DEF EditPushed
  <2>3. UNCHANGED <<active, file, dest, current, outcome, riders, lock, pc, req, run,
    retried,
                    reply, alive, caret, forks, hits, late, swept, stranded>>
    BY <1>0, <1>41 DEF EditPushed
  <2> QED BY <1>0, <2>1, <2>2, <2>3
<1> QED
  BY <1>0, <1>1, <1>2, <1>3, <1>4, <1>5, <1>6, <1>7, <1>8, <1>9, <1>10, <1>11, <1>12,
    <1>13, <1>14, <1>15, <1>16, <1>17, <1>18, <1>19, <1>20, <1>21, <1>22, <1>23, <1>24,
      <1>25, <1>26, <1>27, <1>28, <1>29, <1>30, <1>31, <1>32, <1>33, <1>34, <1>35, <1>36,
        <1>37, <1>38, <1>39, <1>40, <1>41 DEF Step, Evaluate, Read, Cancel, Environment

-----------------------------------------------------------------------------
(* The inductive invariant.                                                *)

LEMMA TypeStep ==
  ASSUME IInv, Step, PeakFollows PROVE TypeOK'
<1>1. StateTyped' BY StateTypedStep DEF IInv, Ledger
<1>2. QuietLine' \in 0 .. MaxLine
  <2>1. CASE file' \in fresh' \ forks' BY <1>1, <2>1 DEF StateTyped, QuietLine
  <2>2. CASE file' \notin fresh' \ forks' BY <2>2, LineBound DEF QuietLine
  <2> QED BY <2>1, <2>2
<1>3. peak \in 0 .. MaxLine BY DEF IInv, TypeOK
<1>4. peak' \in 0 .. MaxLine BY <1>2, <1>3 DEF PeakFollows, Max2
<1> QED BY <1>1, <1>4 DEF StateTyped, TypeOK

LEMMA InitIInv == Init => IInv
<1> SUFFICES ASSUME Init PROVE IInv OBVIOUS
<1>1. TypeOK
  <2>1. 1 \in Lines /\ 0 \in 0 .. MaxLine BY LineBound DEF Lines
  <2>2. NoReq \in Req /\ NoCaret \in Caret BY <2>1 DEF NoReq, Req, NoCaret, Caret
  <2>3. active \in BOOLEAN /\ file \in Files \cup {NoFile} /\ dest \in Lines
    BY <2>1 DEF Init
  <2>4. current \in Evaluators \cup {NoRun} /\ outcome \in [Evaluators -> Outcomes]
    BY DEF Init, Outcomes
  <2>5. lock \in Procs \cup {Free} BY DEF Init
  <2>6. pc \in [Procs -> Places] /\ reply \in [Procs -> Replies]
    BY DEF Init, Places, Replies
  <2>7. req \in [Procs -> Req] /\ run \in [Procs -> Evaluators \cup {NoRun}]
    BY <2>2 DEF Init
  <2>8. retried \in [Evaluators -> BOOLEAN] /\ alive \in BOOLEAN /\ caret \in Caret
    BY <2>2 DEF Init
  <2>9. reached \in [Files -> 0 .. MaxLine] /\ peak \in 0 .. MaxLine
    BY <2>1 DEF Init
  <2>10. forks \subseteq Files /\ fresh \subseteq Files /\ hits \subseteq Files
    BY DEF Init
  <2>11. late \in BOOLEAN /\ stranded \subseteq Evaluators
         /\ swept \in [Evaluators -> {"no", "reset", "retracted"}]
    BY DEF Init
  <2>12. riders \in [Evaluators -> Int]
    <3>1. 0 \in Int OBVIOUS
    <3> QED BY <3>1 DEF Init
  <2> QED BY <2>12, <2>3, <2>4, <2>5, <2>6, <2>7, <2>8, <2>9, <2>10, <2>11 DEF TypeOK
<1>2. Requests BY DEF Init, Requests, Procs, NoCaret, Joined
<1>3. Locking BY DEF Init, Locking, Procs, Holding
<1>4. Ledger BY Distinct DEF Init, Ledger, RunLedger, Procs
<1>5. Counting
  <2>1. ASSUME NEW r \in Evaluators PROVE On(r) = {}
    BY Distinct DEF Init, On, Procs
  <2>2. Cardinality({}) = 0 BY FS_EmptySet
  <2> QED BY <2>1, <2>2 DEF Init, Counting, RidersCounted, AbortSparesSharedRun
<1>6. Driving BY DEF Init, Driving, NoCaretAfterCancel, NoCaret, Procs
<1>7. Peaking
  <2>1. QuietLine = 0 /\ peak = 0 BY Distinct DEF Init, QuietLine
  <2>2. \A p \in Procs : pc[p] = "idle" BY DEF Init
  <2> QED BY <2>1, <2>2 DEF Peaking, Joined
<1>8. Completions BY DEF Init, Completions, Procs
<1> QED BY <1>1, <1>2, <1>3, <1>4, <1>5, <1>6, <1>7, <1>8 DEF IInv

LEMMA IInvStep == IInv /\ [Next]_vars => IInv'
<1> SUFFICES ASSUME IInv, [Next]_vars PROVE IInv' OBVIOUS
<1>1. CASE Step /\ PeakFollows
  <2>1. TypeOK' BY <1>1, TypeStep
  <2>2. Requests' BY <1>1, <2>1, RequestsStep
  <2>3. Locking' BY <1>1, <2>1, LockingStep
  <2>4. Ledger' BY <1>1, <2>1, LedgerStep
  <2>5. Counting' BY <1>1, <2>1, CountingStep
  <2>6. Driving' BY <1>1, <2>1, DrivingStep
  <2>7. Peaking' BY <1>1, <2>1, PeakingStep
  <2>8. Completions' BY <1>1, <2>1, CompletionsStep
  <2> QED BY <2>1, <2>2, <2>3, <2>4, <2>5, <2>6, <2>7, <2>8 DEF IInv
<1>2. CASE UNCHANGED vars
  <2> USE <1>2 DEF IInv, vars, runState, ledger, requests, prover
  <2>1. TypeOK' BY DEF TypeOK
  <2>2. Requests' BY DEF Requests
  <2>3. Locking' BY DEF Locking, BusyWithAnotherFile
  <2>4. Ledger' BY DEF Ledger, RunLedger
  <2>5. Counting' BY DEF Counting, RidersCounted, AbortSparesSharedRun, On
  <2>6. Driving' BY DEF Driving, CaretOf, Target, NoCaretAfterCancel
  <2>7. Peaking' BY DEF Peaking, QuietLine
  <2>8. Completions' BY DEF Completions
  <2> QED BY <2>1, <2>2, <2>3, <2>4, <2>5, <2>6, <2>7, <2>8
<1> QED BY <1>1, <1>2 DEF Next

LEMMA Inductive == Spec => []IInv
BY InitIInv, IInvStep, PTL DEF Spec

-----------------------------------------------------------------------------
(* The theorems.                                                           *)

\* Every variable keeps its type; in particular the target of a run is always
\* a line of a file, and a rider count is a number.
THEOREM TypeCorrect == Spec => []TypeOK
<1>1. IInv => TypeOK BY DEF IInv
<1> QED BY <1>1, Inductive, PTL

\* riders is the number of requests on the run (join_or_start, join_only,
\* leave, unjoin): no path forgets to leave, leaves twice, or leaves a
\* successor.
THEOREM RidersAreCounted == Spec => []RidersCounted
<1>1. IInv => RidersCounted BY DEF IInv, Counting
<1> QED BY <1>1, Inductive, PTL

\* The shared flag and the per-run stamps written by _finish agree, and a run
\* that lost the state to a successor has its outcome.
THEOREM FlagAndStampsAgree == Spec => []RunLedger
<1>1. IInv => RunLedger BY DEF IInv, Ledger
<1> QED BY <1>1, Inductive, PTL

\* Both: what the footer, the guard and a cancel read of a run is true of it.
THEOREM BooksAreKept == Spec => []Bookkeeping
<1>1. IInv => Bookkeeping BY DEF IInv, Counting, Ledger, Bookkeeping
<1> QED BY <1>1, Inductive, PTL

\* One call's failure never ends the run under another (leave's return value
\* gates _finish_if_owner).
THEOREM AbortSparesOthers == Spec => []AbortSparesSharedRun
<1>1. IInv => AbortSparesSharedRun BY DEF IInv, Counting
<1> QED BY <1>1, Inductive, PTL

\* COMPLETED is only ever said of a run stamped complete: the stamp override
\* of evaluate_to, the ownership test of evaluation_status, the outcome gate
\* of the footer.
THEOREM CompletedOnlyIfStamped == Spec => []CompletedIsStamped
<1>1. IInv => CompletedIsStamped BY DEF IInv, Completions, CompletedIsStamped
<1> QED BY <1>1, Inductive, PTL

\* A confirmed cancel is never undone by a caret of the run it cancelled: the
\* caret is sent under the evaluation lock.
THEOREM CancelIsNotUndone == Spec => []NoCaretAfterCancel
<1>1. IInv => NoCaretAfterCancel BY DEF IInv, Driving
<1> QED BY <1>1, Inductive, PTL

\* While a run is outstanding and nobody is inside the lock, the caret on the
\* wire is the run's target (set_caret follows advance in one critical
\* section, and only for the furthest line).
THEOREM ProverIsDriven == Spec => []DrivenToTarget
<1>1. ASSUME IInv PROVE DrivenToTarget
  <2>1. ASSUME lock = Free, NEW e \in Evaluators PROVE pc[e] # "caret"
    BY <1>1, <2>1, Distinct DEF IInv, Locking, Holding, Procs
  <2> QED BY <1>1, <2>1 DEF IInv, Driving, DrivenToTarget, Target
<1> QED BY <1>1, Inductive, PTL

\* _finish writes a run's outcome once.
THEOREM StampedOnce == Spec => OutcomeWrittenOnce
<1>1. IInv /\ [Next]_vars =>
        [\A r \in Evaluators : outcome[r] # "" => outcome'[r] = outcome[r]]_vars
  <2> SUFFICES ASSUME IInv, Next
               PROVE  \A r \in Evaluators : outcome[r] # "" => outcome'[r] = outcome[r]
    OBVIOUS
  <2>1. TypeOK /\ TypeOK' BY TypeStep DEF IInv, Next
  <2>2. RunKept \/ \E e \in Evaluators : EvalJoins(e) BY <2>1, RunStep DEF Next
  <2>3. RunKept \/ UNCHANGED outcome BY <2>2 DEF EvalJoins, JoinOrStart
  <2> QED BY <2>1, <2>3, StampsStay
<1> QED BY <1>1, Inductive, PTL DEF Spec, OutcomeWrittenOnce

\* advance only raises a run's target, and only a new run takes another file.
THEOREM TargetOnlyAdvances == Spec => TargetNeverRetreats
<1>1. IInv /\ [Next]_vars =>
        [current' = current /\ current # NoRun => file' = file /\ dest' >= dest]_vars
  <2> SUFFICES ASSUME IInv, Next, current' = current, current # NoRun
               PROVE  file' = file /\ dest' >= dest
    OBVIOUS
  <2>1. TypeOK /\ TypeOK' /\ dest \in Int
    BY TypeStep, LinesInt DEF IInv, Next, TypeOK
  <2>2. CASE RunKept
    <3>1. UNCHANGED <<file, dest>> BY <2>2, RunKeptFrame
    <3> QED BY <2>1, <3>1
  <2>3. ASSUME NEW e \in Evaluators, EvalJoins(e) PROVE file' = file /\ dest' >= dest
    <3>1. Joins(req[e].file)
      BY <2>3 DEF EvalJoins, JoinOrStart, IInv, Ledger
    <3>2. req[e].line \in Int BY <2>3, LinesInt DEF EvalJoins, IInv, Requests
    <3> QED BY <2>1, <2>3, <3>1, <3>2 DEF EvalJoins, JoinOrStart, Joins, Advanced, Max2
  <2>4. RunKept \/ \E e \in Evaluators : EvalJoins(e) BY <2>1, RunStep DEF Next
  <2> QED BY <2>2, <2>3, <2>4
<1> QED BY <1>1, Inductive, PTL DEF Spec, TargetNeverRetreats

\* A run is stamped complete only while it is the state's own run and its file
\* had been seen quiet through the target it has by then.
THEOREM CompletedWhenReached == Spec => CompletionIsEarned
<1>1. IInv /\ [Next]_vars =>
        [\A r \in Evaluators : outcome[r] = "" /\ outcome'[r] = "complete" =>
           r = current /\ dest <= peak]_vars
  <2> SUFFICES ASSUME IInv, Next, NEW r \in Evaluators, outcome[r] = "",
                      outcome'[r] = "complete"
               PROVE  r = current /\ dest <= peak
    OBVIOUS
  <2>1. TypeOK /\ TypeOK' BY TypeStep DEF IInv, Next
  <2>2. RunKept \/ \E e \in Evaluators : EvalJoins(e) BY <2>1, RunStep DEF Next
  <2>3. RunKept BY <2>2 DEF EvalJoins, JoinOrStart
  <2> QED BY <2>1, <2>3, StampsEarned
<1> QED BY <1>1, Inductive, PTL DEF Spec, CompletionIsEarned

\* evaluate_to tells progress, or goes to report a hit, only of the run that is
\* outstanding: the stamp of a run that ended overrides what the loop last saw.
THEOREM ProgressIsOfCurrentRun == Spec => ProgressIsCurrent
<1>1. IInv /\ [Next]_vars =>
        [\A e \in Evaluators :
           \/ pc[e] # "report" /\ reply[e] = "none" /\ reply'[e] = "in_progress"
           \/ pc[e] # "report" /\ pc'[e] = "report"
           => active' /\ current' = run[e]]_vars
  <2> SUFFICES ASSUME IInv, Next
               PROVE  ToldOfCurrent
    BY DEF ToldOfCurrent
  <2>1. TypeOK' BY TypeStep DEF IInv, Next
  <2> QED BY <2>1, ProgressTold DEF Next
<1> QED BY <1>1, Inductive, PTL DEF Spec, ProgressIsCurrent
=============================================================================
