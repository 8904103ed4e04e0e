--------------------------- MODULE EvaluationRun ---------------------------
(***************************************************************************)
(* The evaluation run of src/src/isabelle_mcp/evaluation.py: one shared    *)
(* EvaluationState, the requests that start, join, judge, leave, cancel    *)
(* and tear down its runs, and the evaluation lock between them.           *)
(*                                                                         *)
(* The server is one asyncio process: a request runs without interruption  *)
(* from one await to the next, so an action is the code between two        *)
(* awaits.  A request of evaluate_to is a member of Evaluators, and the    *)
(* run it starts (an Evaluation object, whose identity is its reference)   *)
(* is named after it.  Readers are calls that read the run: the status     *)
(* tool, the footer, the query guard.                                      *)
(***************************************************************************)
EXTENDS Naturals, Integers, FiniteSets

CONSTANTS
  Evaluators,   \* calls of isabelle_evaluate_to
  Readers,      \* calls of evaluation_status, of the footer, of the query guard
  Cancellers,   \* calls of isabelle_cancel_evaluation
  Files,        \* theory files
  MaxLine,      \* the last line of every file
  HeapFiles,    \* precompiled files whose text differs from the heap's copy
  Debug,        \* the session was launched with ML debugging
  TheorySet,    \* for a file, the files whose hits belong to its evaluation
  NoRun, NoFile, Free

ASSUME FiniteRequests == IsFiniteSet(Evaluators) /\ IsFiniteSet(Readers)
ASSUME Distinct ==
  /\ NoRun \notin Evaluators
  /\ NoFile \notin Files
  /\ Free \notin Evaluators \cup Readers \cup Cancellers
  /\ Evaluators \cap Readers = {}
  /\ Evaluators \cap Cancellers = {}
  /\ Readers \cap Cancellers = {}
ASSUME DebugGiven == Debug \in BOOLEAN
ASSUME LineBound == MaxLine \in Nat \ {0}
ASSUME FilesGiven == HeapFiles \subseteq Files /\ TheorySet \in [Files -> SUBSET Files]

Lines == 1 .. MaxLine
Procs == Evaluators \cup Readers \cup Cancellers

VARIABLES
  active, file, dest, current,   \* the EvaluationState
  outcome, riders,               \* each run's stamp and its count of riders
  lock,                          \* _evaluation_state_lock: its holder, or Free
  pc, req, run, retried, reply,  \* each request: where it is, what it asks, its run
  alive,                         \* a prover session exists
  caret,                         \* the last caret the prover was sent
  reached, forks, fresh,         \* the picture: frontier, running forks, freshness
  hits,                          \* files holding a live breakpoint hit
  late,                          \* the server still works on a cancel nobody awaits
  swept, stranded, peak          \* history: see below

runState == <<active, file, dest, current>>
ledger   == <<outcome, riders>>
requests == <<pc, req, run, retried, reply>>
prover   == <<alive, caret, reached, forks, fresh, hits, late>>
vars     == <<runState, ledger, lock, requests, prover, swept, stranded, peak>>

(***************************************************************************)
(* History variables, read by no guard.  swept[r]: a cancel or a teardown  *)
(* reset run r ("reset"), and the prover confirmed it ("retracted").       *)
(* stranded: runs whose caret was lost, by a failed send or a late cancel. *)
(* peak: the highest line the current run's file was fully processed to.   *)
(***************************************************************************)
Outcomes == {"", "complete", "cancelled", "abandoned"}
Replies  == {"none", "refused", "error", "gaveup", "in_progress", "complete",
             "cancelled", "abandoned", "idle", "served"}
Places   == {"idle", "done", "open", "caret", "fresh", "park", "snap", "failed",
             "report", "status", "foot", "stamp", "join", "ride", "judge", "view",
             "sent", "sweep", "catastrophe"}

Req     == [file : Files \cup {NoFile}, line : 0 .. MaxLine]
NoReq   == [file |-> NoFile, line |-> 0]
Caret   == [file : Files \cup {NoFile}, line : 0 .. MaxLine, run : Evaluators \cup {NoRun}]
NoCaret == [file |-> NoFile, line |-> 0, run |-> NoRun]

TypeOK ==
  /\ active \in BOOLEAN
  /\ file \in Files \cup {NoFile}
  /\ dest \in Lines
  /\ current \in Evaluators \cup {NoRun}
  /\ outcome \in [Evaluators -> Outcomes]
  /\ riders \in [Evaluators -> Int]
  /\ lock \in Procs \cup {Free}
  /\ pc \in [Procs -> Places]
  /\ req \in [Procs -> Req]
  /\ run \in [Procs -> Evaluators \cup {NoRun}]
  /\ retried \in [Evaluators -> BOOLEAN]
  /\ reply \in [Procs -> Replies]
  /\ alive \in BOOLEAN
  /\ caret \in Caret
  /\ reached \in [Files -> 0 .. MaxLine]
  /\ forks \subseteq Files
  /\ fresh \subseteq Files
  /\ hits \subseteq Files
  /\ late \in BOOLEAN
  /\ swept \in [Evaluators -> {"no", "reset", "retracted"}]
  /\ stranded \subseteq Evaluators
  /\ peak \in 0 .. MaxLine

Init ==
  /\ active = FALSE /\ file = NoFile /\ dest = 1 /\ current = NoRun
  /\ outcome = [r \in Evaluators |-> ""]
  /\ riders = [r \in Evaluators |-> 0]
  /\ lock = Free
  /\ pc = [p \in Procs |-> "idle"]
  /\ req = [p \in Procs |-> NoReq]
  /\ run = [p \in Procs |-> NoRun]
  /\ retried = [e \in Evaluators |-> FALSE]
  /\ reply = [p \in Procs |-> "none"]
  /\ alive = TRUE
  /\ caret = NoCaret
  /\ reached = [f \in Files |-> 0]
  /\ forks = {} /\ fresh = Files /\ hits = {}
  /\ late = FALSE
  /\ swept = [r \in Evaluators |-> "no"]
  /\ stranded = {}
  /\ peak = 0

-----------------------------------------------------------------------------
(* What the picture of a file says.                                        *)

\* The frontier passed line d.  A picture that is not fresh says nothing.
FrontierReached(f, d) == f \in fresh /\ reached[f] >= d

\* The frontier passed line d and no fork of the prefix still runs.
EvaluationComplete(f, d) == FrontierReached(f, d) /\ f \notin forks

NoPendingWork == ~active /\ forks = {}

Max2(a, b) == IF a >= b THEN a ELSE b
Min2(a, b) == IF a <= b THEN a ELSE b

\* The highest line the outstanding run could now be declared complete at.
QuietLine == IF file \in fresh \ forks THEN reached[file] ELSE 0

-----------------------------------------------------------------------------
(* EvaluationState.                                                        *)

BusyWithAnotherFile(f) == active /\ file # f
Joins(f) == active /\ file = f

\* Whether run r may be stamped.  judged is the line a completion was judged
\* at, 0 for every other ending: those end the run wherever its target stands.
Owns(r) == current = r
\* Broken: without the ownership test; without the target the verdict was for.
MayStampAnyRun(r, judged) == judged \in {0, dest}
MayStampAnyTarget(r, judged) == Owns(r)
MayStamp(r, judged) == Owns(r) /\ judged \in {0, dest}

\* Broken: the stamp is overwritten.
FinishRestamps(o) ==
  /\ active' = FALSE
  /\ outcome' = IF current # NoRun THEN [outcome EXCEPT ![current] = o] ELSE outcome
  /\ UNCHANGED <<file, dest, current>>

\* _finish: the flag comes down, the stamp is written once.
Finish(o) ==
  /\ active' = FALSE
  /\ outcome' = IF current # NoRun /\ outcome[current] = ""
                THEN [outcome EXCEPT ![current] = o] ELSE outcome
  /\ UNCHANGED <<file, dest, current>>

FinishIfOwner(r, o, judged) ==
  IF MayStamp(r, judged) THEN Finish(o) ELSE UNCHANGED <<runState, outcome>>

\* The count of a run's riders after p left it, and whether p must end it.
LastRider(r) == riders[r] = 1

Done(p, answer) ==
  /\ pc' = [pc EXCEPT ![p] = "done"]
  /\ reply' = [reply EXCEPT ![p] = answer]
  /\ UNCHANGED <<req, retried>>

Goto(p, place) ==
  /\ pc' = [pc EXCEPT ![p] = place]
  /\ UNCHANGED reply

(***************************************************************************)
(* evaluate_to, up to its wait.  Entry: under the lock, the hits refusal,  *)
(* then the busy refusal; then the document is opened, still under it.     *)
(***************************************************************************)
EvalRefused(e) ==
  /\ pc[e] = "idle" /\ alive /\ lock = Free
  /\ \E f \in Files : hits # {} \/ BusyWithAnotherFile(f)
  /\ Done(e, "refused")
  /\ UNCHANGED <<runState, ledger, lock, run, prover, swept, stranded>>

EvalEnters(e, f, l) ==
  /\ pc[e] = "idle" /\ alive /\ lock = Free
  /\ hits = {} /\ ~BusyWithAnotherFile(f)
  /\ lock' = e
  /\ req' = [req EXCEPT ![e] = [file |-> f, line |-> l]]
  /\ Goto(e, "open")
  /\ UNCHANGED <<runState, ledger, run, retried, prover, swept, stranded>>

\* open_document or the arming fence raised: the request joined nothing.
EvalOpenFails(e) ==
  /\ pc[e] = "open"
  /\ lock' = Free
  /\ Done(e, "error")
  /\ UNCHANGED <<runState, ledger, run, prover, swept, stranded>>

\* Whether a request for line l of f may move the caret.
AlwaysTarget(f, l) == TRUE
IsTarget(f, l) == Joins(f) => l >= dest

\* advance: the target of a run only moves forward.
AdvancedToRequest(l) == l
AdvancedPastRequest(l) == Max2(dest, l) + 1
Advanced(l) == Max2(dest, l)

\* join_or_start, and the caret kept for the end of the locked section.
JoinOrStart(e) ==
  LET f == req[e].file
      l == req[e].line
      r == IF Joins(f) THEN current ELSE e
  IN /\ active' = TRUE
     /\ file' = f
     /\ dest' = IF Joins(f) THEN Advanced(l) ELSE l
     /\ current' = r
     /\ riders' = [riders EXCEPT ![r] = @ + 1]
     /\ run' = [run EXCEPT ![e] = r]
     /\ UNCHANGED outcome

\* Broken: the lock is released before the caret is on the wire.
EvalJoinsUnlocked(e) ==
  /\ pc[e] = "open"
  /\ JoinOrStart(e)
  /\ Goto(e, IF IsTarget(req[e].file, req[e].line) THEN "caret" ELSE "fresh")
  /\ lock' = Free
  /\ fresh' \in {fresh, {}}
  /\ UNCHANGED <<req, retried, alive, caret, reached, forks, hits, late, swept, stranded>>

\* A file opened here is new text on the wire: no picture is fresh then.
EvalJoins(e) ==
  /\ pc[e] = "open"
  /\ JoinOrStart(e)
  /\ IF IsTarget(req[e].file, req[e].line)
     THEN Goto(e, "caret") /\ UNCHANGED lock
     ELSE Goto(e, "fresh") /\ lock' = Free
  /\ fresh' \in {fresh, {}}
  /\ UNCHANGED <<req, retried, alive, caret, reached, forks, hits, late, swept, stranded>>

CaretOf(e) == [file |-> req[e].file, line |-> req[e].line, run |-> run[e]]

EvalCaretSent(e) ==
  /\ pc[e] = "caret" /\ alive
  /\ caret' = CaretOf(e)
  /\ lock' = Free
  /\ Goto(e, "fresh")
  /\ UNCHANGED <<runState, ledger, req, run, retried, alive, reached, forks, fresh,
                 hits, late, swept, stranded>>

GiveUp(e) ==
  /\ riders' = [riders EXCEPT ![run[e]] = @ - 1]
  /\ IF LastRider(run[e])
     THEN FinishIfOwner(run[e], "cancelled", 0)
     ELSE UNCHANGED <<runState, outcome>>
  /\ Done(e, "gaveup")
  /\ UNCHANGED run

\* The send failed or the call was cancelled in it, before or after the write.
EvalCaretFails(e) ==
  /\ pc[e] = "caret"
  /\ caret' \in {caret, CaretOf(e)}
  /\ stranded' = IF caret' = CaretOf(e) THEN stranded ELSE stranded \cup {run[e]}
  /\ GiveUp(e)
  /\ lock' = Free
  /\ UNCHANGED <<alive, reached, forks, fresh, hits, late, swept>>

-----------------------------------------------------------------------------
(* evaluate_to, its wait.  It holds no lock.                               *)

EvalFresh(e) ==
  /\ pc[e] = "fresh" /\ (req[e].file \in fresh \/ ~alive)
  /\ Goto(e, "park")
  /\ UNCHANGED <<runState, ledger, lock, req, run, retried, prover, swept, stranded>>

\* An await of the wait raised: the freshness budget, a health check, a
\* request failed by a teardown, or the cancellation of the call.
EvalAborts(e) ==
  /\ pc[e] \in {"fresh", "park", "snap", "failed"}
  /\ GiveUp(e)
  /\ UNCHANGED <<lock, prover, swept, stranded>>

(***************************************************************************)
(* The end of the wait, from the loop's return to the reply: no await.  s  *)
(* is what the loop saw; the stamp overrides it.                           *)
(***************************************************************************)
SeenInThePicture(r, s) == s
Seen(r, s) == IF outcome[r] # "" THEN outcome[r] ELSE s

\* The heap branch's second chance: the miss may be an unfresh picture.
Retries(e, s) ==
  /\ req[e].file \in HeapFiles \ fresh
  /\ s \notin {"complete", "hit"}
  /\ outcome[run[e]] = "" /\ Owns(run[e])
  /\ ~retried[e]

\* The prover is gone, or a cancel or a teardown ended the run.
Stopped(r) == ~alive \/ outcome[r] = "cancelled"

Conclude(e, s) ==
  LET r == run[e]
      seen == Seen(r, s)
      d == IF Owns(r) THEN dest ELSE req[e].line
  IN IF Retries(e, s)
     THEN /\ retried' = [retried EXCEPT ![e] = TRUE]
          /\ Goto(e, "fresh")
          /\ UNCHANGED <<runState, outcome, req>>
     ELSE \/ /\ Stopped(r)
             /\ FinishIfOwner(r, "cancelled", 0)
             /\ Done(e, "cancelled")
          \/ /\ ~Stopped(r) /\ seen = "hit"
             /\ Goto(e, "report")
             /\ UNCHANGED <<runState, outcome, req, retried>>
          \/ /\ ~Stopped(r) /\ req[e].file \in HeapFiles
             /\ seen \in {"abandoned", "in_progress"}
             /\ FinishIfOwner(r, "abandoned", 0)
             /\ Done(e, IF outcome[r] = "" THEN "error" ELSE "abandoned")
          \/ /\ ~Stopped(r) /\ seen = "complete"
             /\ FinishIfOwner(r, "complete", d)
             /\ Done(e, "complete")
          \/ /\ ~Stopped(r) /\ req[e].file \notin HeapFiles
             /\ seen = "in_progress"
             /\ Done(e, "in_progress")
             /\ UNCHANGED <<runState, outcome>>

\* The top of the loop: a run somebody ended is reported with its reason.
EvalChecks(e) ==
  /\ pc[e] = "park"
  /\ IF outcome[run[e]] # "" \/ ~active
     THEN Conclude(e, "cancelled")
     ELSE /\ Goto(e, "snap")
          /\ UNCHANGED <<runState, outcome, req, retried>>
  /\ UNCHANGED <<riders, lock, run, prover, swept, stranded>>

\* The snapshot arrived.  The target is the run's target now.
Verdict(e) ==
  CASE hits \cap TheorySet[req[e].file] # {} -> "hit"
    [] EvaluationComplete(req[e].file, dest) -> "complete"
    [] FrontierReached(req[e].file, dest) -> "in_progress"
    [] OTHER -> "wait"

EvalDecides(e) ==
  /\ pc[e] = "snap"
  /\ IF Verdict(e) = "wait"
     THEN Goto(e, "park") /\ UNCHANGED <<runState, outcome, req, retried>>
     ELSE Conclude(e, Verdict(e))
  /\ UNCHANGED <<riders, lock, run, prover, swept, stranded>>

\* The poll interval ran out before the frontier arrived.
EvalTimesOut(e) ==
  /\ pc[e] = "snap" /\ Verdict(e) = "wait"
  /\ Conclude(e, "in_progress")
  /\ UNCHANGED <<riders, lock, run, prover, swept, stranded>>

\* The hit report was built, over round trips that may fail or be cancelled.
EvalReports(e) ==
  /\ pc[e] = "report"
  /\ \E answer \in {"in_progress", "error"} : Done(e, answer)
  /\ UNCHANGED <<runState, ledger, lock, run, prover, swept, stranded>>

-----------------------------------------------------------------------------
(* evaluation_status.                                                      *)

\* Its wait for every picture is over; the run is captured before the await.
StatusCaptures(q) ==
  /\ pc[q] = "idle" /\ alive /\ fresh = Files
  /\ run' = [run EXCEPT ![q] = current]
  /\ Goto(q, "status")
  /\ UNCHANGED <<runState, ledger, lock, req, retried, prover, swept, stranded>>

StatusDecides(q) ==
  /\ pc[q] = "status"
  /\ LET complete == active /\ EvaluationComplete(file, dest)
     IN \/ /\ NoPendingWork
           /\ Done(q, "idle")
           /\ UNCHANGED <<runState, outcome>>
        \/ /\ ~NoPendingWork /\ complete /\ MayStamp(run[q], dest)
           /\ FinishIfOwner(run[q], "complete", dest)
           /\ Done(q, "complete")
        \/ /\ ~NoPendingWork /\ ~(complete /\ MayStamp(run[q], dest))
           /\ Done(q, "in_progress")
           /\ UNCHANGED <<runState, outcome>>
  /\ UNCHANGED <<riders, lock, run, prover, swept, stranded>>

-----------------------------------------------------------------------------
(* evaluation_footer.                                                      *)

\* The run and the target it belongs to are captured before the round trip,
\* which is made only once the target line was reached.
FooterCaptures(q) ==
  /\ pc[q] = "idle" /\ alive
  /\ IF active /\ FrontierReached(file, dest)
     THEN /\ run' = [run EXCEPT ![q] = current]
          /\ req' = [req EXCEPT ![q] = [file |-> file, line |-> dest]]
          /\ Goto(q, "foot")
          /\ UNCHANGED retried
     ELSE /\ Done(q, IF active THEN "in_progress" ELSE "idle")
          /\ UNCHANGED run
  /\ UNCHANGED <<runState, ledger, lock, prover, swept, stranded>>

FooterJudges(q) ==
  /\ pc[q] = "foot"
  /\ IF EvaluationComplete(req[q].file, req[q].line)
     THEN Goto(q, "stamp") /\ UNCHANGED <<req, retried>>
     ELSE Done(q, "in_progress")
  /\ UNCHANGED <<runState, ledger, lock, run, prover, swept, stranded>>

\* The outcome gate: no COMPLETED sentence for a run that ended otherwise.
FooterOpen(q) == TRUE
FooterGate(q) == outcome[run[q]] \in {"", "complete"}

FooterStamps(q) ==
  /\ pc[q] = "stamp" /\ lock = Free
  /\ IF FooterGate(q) /\ MayStamp(run[q], req[q].line)
     THEN Finish("complete") /\ Done(q, "complete")
     ELSE Done(q, "in_progress") /\ UNCHANGED <<runState, outcome>>
  /\ UNCHANGED <<riders, lock, run, prover, swept, stranded>>

-----------------------------------------------------------------------------
(* check_evaluation_guard: a query waits on a run, and never moves one.    *)

QueryServed(q) ==
  /\ pc[q] = "idle" /\ alive
  /\ \E f \in Files, l \in Lines : FrontierReached(f, l)
  /\ Done(q, "served")
  /\ UNCHANGED <<runState, ledger, lock, run, prover, swept, stranded>>

QueryAsks(q, f, l) ==
  /\ pc[q] = "idle" /\ alive
  /\ f \in fresh /\ ~FrontierReached(f, l)
  /\ req' = [req EXCEPT ![q] = [file |-> f, line |-> l]]
  /\ Goto(q, "join")
  /\ UNCHANGED <<runState, ledger, lock, run, retried, prover, swept, stranded>>

\* join_only: the run on this file already goes to this line.
Covers(q) == Joins(req[q].file) /\ req[q].line <= dest

QueryRides(q) ==
  /\ pc[q] = "join" /\ lock = Free
  /\ Covers(q)
  /\ riders' = [riders EXCEPT ![current] = @ + 1]
  /\ run' = [run EXCEPT ![q] = current]
  /\ Goto(q, "ride")
  /\ UNCHANGED <<runState, outcome, lock, req, retried, prover, swept, stranded>>

\* No run to ride: another file has the prover, or nothing evaluates it.
QueryRefused(q) ==
  /\ pc[q] = "join" /\ lock = Free
  /\ ~Covers(q)
  /\ Done(q, "refused")
  /\ UNCHANGED <<runState, ledger, lock, run, prover, swept, stranded>>

\* Broken: the query leaves whatever run is current when its wait ends.
QueryUnjoinsCurrent(q) ==
  /\ pc[q] = "ride"
  /\ riders' = [riders EXCEPT ![current] = @ - 1]
  /\ Goto(q, "judge")
  /\ UNCHANGED <<runState, outcome, lock, req, run, retried, prover, swept, stranded>>

\* The wait is over, whatever ended it.
QueryUnjoins(q) ==
  /\ pc[q] = "ride"
  /\ riders' = [riders EXCEPT ![run[q]] = @ - 1]
  /\ Goto(q, "judge")
  /\ UNCHANGED <<runState, outcome, lock, req, run, retried, prover, swept, stranded>>

\* Judged again on a fresh picture: served, or the progress of the run on this
\* file, whose report is a round trip, or refused.
QueryJudges(q) ==
  LET f == req[q].file
  IN /\ pc[q] = "judge" /\ f \in fresh
     /\ IF FrontierReached(f, req[q].line)
        THEN Done(q, "served")
        ELSE IF Joins(f) THEN Goto(q, "view") /\ UNCHANGED <<req, retried>>
             ELSE Done(q, "refused")
     /\ UNCHANGED <<runState, ledger, lock, run, prover, swept, stranded>>

QueryReports(q) ==
  /\ pc[q] = "view"
  /\ Done(q, "in_progress")
  /\ UNCHANGED <<runState, ledger, lock, run, prover, swept, stranded>>

\* An await of the judgement or of the report raised.
QueryFails(q) ==
  /\ pc[q] \in {"judge", "view"}
  /\ Done(q, "error")
  /\ UNCHANGED <<runState, ledger, lock, run, prover, swept, stranded>>

-----------------------------------------------------------------------------
(* cancel_evaluation: it holds the lock for the whole request.             *)

\* The unconditional reset of the finally block, or of a teardown.
ResetRun(how) ==
  /\ Finish("cancelled")
  /\ swept' = IF current # NoRun /\ outcome[current] = ""
              THEN [swept EXCEPT ![current] = how] ELSE swept

CancelShortcut(c) ==
  /\ pc[c] = "idle" /\ alive /\ lock = Free
  /\ NoPendingWork
  /\ Done(c, "idle")
  /\ UNCHANGED <<runState, ledger, lock, run, prover, swept, stranded>>

CancelSends(c) ==
  /\ pc[c] = "idle" /\ alive /\ lock = Free
  /\ lock' = c
  /\ Goto(c, "sent")
  /\ UNCHANGED <<runState, ledger, req, run, retried, prover, swept, stranded>>

\* What the server did when it answers: every perspective retracted, the
\* caret gone, every running command reset, a new version for every file.
ServerCancelled ==
  /\ caret' = NoCaret
  /\ forks' = {} /\ hits' = {} /\ fresh' = {}
  /\ UNCHANGED <<alive, reached>>

CancelReturns(c) ==
  /\ pc[c] = "sent"
  /\ ServerCancelled
  /\ ResetRun("retracted")
  /\ Goto(c, "sweep")
  /\ UNCHANGED <<riders, lock, req, run, retried, late, stranded>>

\* finish_cancel_sweep, still under the lock and the budget: it succeeds, or
\* the budget runs out or it raises, or the tool call is cancelled.
CancelSweeps(c) ==
  /\ pc[c] = "sweep"
  /\ lock' = Free
  /\ \/ Done(c, "cancelled") \/ Done(c, "error")
     \/ Goto(c, "catastrophe") /\ UNCHANGED <<req, retried>>
  /\ UNCHANGED <<runState, ledger, run, prover, swept, stranded>>

\* Broken: a failed cancel keeps the lock; a dropped one leaves the run up.
CancelFailsLocked(c) ==
  /\ pc[c] = "sent"
  /\ ResetRun("reset")
  /\ Goto(c, "catastrophe")
  /\ UNCHANGED <<riders, lock, req, run, retried, prover, stranded>>

CancelDroppedBare(c) ==
  /\ pc[c] = "sent"
  /\ lock' = Free
  /\ Done(c, "error")
  /\ UNCHANGED <<runState, ledger, run, prover, swept, stranded>>

\* Aborted, timed out, out of budget: the catastrophe leaves the lock, and
\* the tool boundary takes it again to tear the session down.
CancelFails(c) ==
  /\ pc[c] = "sent"
  /\ ResetRun("reset")
  /\ lock' = Free
  /\ Goto(c, "catastrophe")
  /\ UNCHANGED <<riders, req, run, retried, prover, stranded>>

\* The tool call was cancelled while it waited.  A request that was written
\* is still carried out by the server.
CancelDropped(c) ==
  /\ pc[c] = "sent"
  /\ ResetRun("reset")
  /\ lock' = Free
  /\ late' \in {late, TRUE}
  /\ Done(c, "error")
  /\ UNCHANGED <<riders, run, alive, caret, reached, forks, fresh, hits, stranded>>

LateCancel ==
  /\ late /\ late' = FALSE
  /\ ServerCancelled
  /\ stranded' = stranded \cup ({caret.run} \ {NoRun})
  /\ UNCHANGED <<runState, ledger, lock, requests, swept>>

-----------------------------------------------------------------------------
(* The session.  teardown fails every request in flight.                   *)

Teardown ==
  /\ alive' = FALSE /\ caret' = NoCaret /\ late' = FALSE
  /\ reached' = [f \in Files |-> 0]
  /\ forks' = {} /\ hits' = {} /\ fresh' = Files
  /\ ResetRun("reset")
  /\ UNCHANGED <<riders, lock, req, run, retried, stranded>>

Failed(p) == CASE pc[p] = "snap" -> "failed"
               [] pc[p] \in {"status", "foot", "view"} -> "done"
               [] OTHER -> pc[p]
FailedReply(p) == IF pc[p] \in {"status", "foot", "view"} THEN "error" ELSE reply[p]

Terminate ==
  /\ alive /\ lock = Free
  /\ Teardown
  /\ pc' = [p \in Procs |-> Failed(p)]
  /\ reply' = [p \in Procs |-> FailedReply(p)]

Catastrophe(c) ==
  /\ pc[c] = "catastrophe" /\ lock = Free
  /\ Teardown
  /\ pc' = [p \in Procs |-> IF p = c THEN "done" ELSE Failed(p)]
  /\ reply' = [p \in Procs |-> IF p = c THEN "error" ELSE FailedReply(p)]

Launch ==
  /\ ~alive /\ lock = Free
  /\ alive' = TRUE
  /\ UNCHANGED <<runState, ledger, lock, requests, caret, reached, forks, fresh,
                 hits, late, swept, stranded>>

-----------------------------------------------------------------------------
(* The prover and the user's editor.                                       *)

\* It works towards the caret unless a hit holds it; a command may fork.
ProverAdvances ==
  LET f == caret.file
  IN /\ caret # NoCaret /\ f \notin HeapFiles
     /\ hits \cap TheorySet[f] = {}
     /\ reached[f] < caret.line
     /\ reached' = [reached EXCEPT ![f] = @ + 1]
     /\ forks' \in {forks, forks \cup {f}}
     /\ UNCHANGED <<runState, ledger, lock, requests, alive, caret, fresh, hits,
                    late, swept, stranded>>

ForkJoins(f) ==
  /\ f \in forks
  /\ forks' = forks \ {f}
  /\ UNCHANGED <<runState, ledger, lock, requests, alive, caret, reached, fresh,
                 hits, late, swept, stranded>>

PictureArrives(f) ==
  /\ f \notin fresh
  /\ fresh' = fresh \cup {f}
  /\ UNCHANGED <<runState, ledger, lock, requests, alive, caret, reached, forks,
                 hits, late, swept, stranded>>

HitLands(f) ==
  /\ Debug /\ caret # NoCaret /\ f \notin hits
  /\ hits' = hits \cup {f}
  /\ UNCHANGED <<runState, ledger, lock, requests, alive, caret, reached, forks,
                 fresh, late, swept, stranded>>

HitContinues(f) ==
  /\ f \in hits
  /\ hits' = hits \ {f}
  /\ UNCHANGED <<runState, ledger, lock, requests, alive, caret, reached, forks,
                 fresh, late, swept, stranded>>

\* A saved edit at line l, pushed under the lock (sync_file_locked).
EditPushed(f, l) ==
  /\ alive /\ lock = Free
  /\ reached' = [reached EXCEPT ![f] = Min2(@, l - 1)]
  /\ fresh' = {}
  /\ UNCHANGED <<runState, ledger, lock, requests, alive, caret, forks, hits, late,
                 swept, stranded>>

-----------------------------------------------------------------------------
Evaluate(e) ==
  \/ EvalRefused(e)
  \/ \E f \in Files, l \in Lines : EvalEnters(e, f, l)
  \/ EvalOpenFails(e) \/ EvalJoins(e)
  \/ EvalCaretSent(e) \/ EvalCaretFails(e)
  \/ EvalFresh(e) \/ EvalChecks(e) \/ EvalDecides(e) \/ EvalTimesOut(e)
  \/ EvalAborts(e) \/ EvalReports(e)

Read(q) ==
  \/ StatusCaptures(q) \/ StatusDecides(q)
  \/ FooterCaptures(q) \/ FooterJudges(q) \/ FooterStamps(q)
  \/ QueryServed(q) \/ QueryRefused(q) \/ QueryRides(q) \/ QueryUnjoins(q)
  \/ QueryJudges(q) \/ QueryReports(q) \/ QueryFails(q)
  \/ \E f \in Files, l \in Lines : QueryAsks(q, f, l)

Cancel(c) ==
  \/ CancelShortcut(c) \/ CancelSends(c)
  \/ CancelReturns(c) \/ CancelSweeps(c) \/ CancelFails(c) \/ CancelDropped(c)
  \/ Catastrophe(c)

Environment ==
  \/ Terminate \/ Launch \/ LateCancel
  \/ ProverAdvances
  \/ \E f \in Files : ForkJoins(f) \/ PictureArrives(f) \/ HitLands(f) \/ HitContinues(f)
  \/ \E f \in Files, l \in Lines : EditPushed(f, l)

Step ==
  \/ \E e \in Evaluators : Evaluate(e)
  \/ \E q \in Readers : Read(q)
  \/ \E c \in Cancellers : Cancel(c)
  \/ Environment

\* peak follows the current run, whatever the step.
PeakFollows ==
  peak' = IF current' = current THEN Max2(peak, QuietLine') ELSE QuietLine'

Next == /\ Step
        /\ PeakFollows

Spec == Init /\ [][Next]_vars

-----------------------------------------------------------------------------
(* Safety.                                                                 *)

\* The requests counted in r's riders: evaluate_to calls that have not given
\* up on it, and queries inside their wait.
On(r) == {p \in Procs : /\ run[p] = r
                        /\ \/ p \in Evaluators /\ reply[p] # "gaveup"
                           \/ pc[p] = "ride"}

\* The riders count of every run is the number of requests on it: no failure
\* path forgets to leave, leaves twice, or leaves a later run.
RidersCounted == \A r \in Evaluators : riders[r] = Cardinality(On(r))

\* The shared flag and the stamps agree: the flag is up exactly while the
\* current run has no outcome, and a run that lost the state to a successor
\* was ended first, so a wait that outlives its run always finds the reason.
RunLedger ==
  /\ active <=> (current # NoRun /\ outcome[current] = "")
  /\ \A p \in Procs : run[p] \notin {NoRun, current} => outcome[run[p]] # ""

\* The run's books: who is on it, and whether it is over.
Bookkeeping == RidersCounted /\ RunLedger

\* A run ended by a request giving up (neither a cancel nor a teardown) has
\* nobody left on it: one call's abort never ends the run under another.
AbortSparesSharedRun ==
  \A r \in Evaluators : outcome[r] = "cancelled" /\ swept[r] = "no" => On(r) = {}

\* COMPLETED is said, by any of the three tools that say it, only of a run
\* stamped complete, whatever cancels or successors came in between.
CompletedIsStamped ==
  \A p \in Procs : reply[p] = "complete" => outcome[run[p]] = "complete"

\* Once the prover has confirmed a cancel, it is not driven by a caret of the
\* cancelled run: the caret goes out under the lock, before the cancel.
NoCaretAfterCancel ==
  caret.run # NoRun => swept[caret.run] # "retracted"

\* While a run is outstanding and the lock is free, the prover's caret is at
\* the run's target, unless a send failed in this run or a cancel nobody
\* awaited came late: no joiner pulls the caret back or leaves it behind.
DrivenToTarget ==
  active /\ lock = Free /\ current \notin stranded =>
    caret = [file |-> file, line |-> dest, run |-> current]

(* What a step may never do.                                               *)

\* A run's outcome is written once: a late cancel, completion or teardown
\* never rewrites the story of a run that has ended.
OutcomeWrittenOnce ==
  [][\A r \in Evaluators : outcome[r] # "" => outcome'[r] = outcome[r]]_vars

\* Within one run the target's file is fixed and its line never moves back.
TargetNeverRetreats ==
  [][current' = current /\ current # NoRun => file' = file /\ dest' >= dest]_vars

\* A run is stamped complete only by the state it belongs to, and only if its
\* picture had been quiet through the target it has now, not an older one.
CompletionIsEarned ==
  [][\A r \in Evaluators : outcome[r] = "" /\ outcome'[r] = "complete" =>
       r = current /\ dest <= peak]_vars

\* evaluate_to decides to report progress, or a hit, only of the run that is
\* outstanding: a run ended or replaced during its awaits is reported with its
\* stamp.
ProgressIsCurrent ==
  [][\A e \in Evaluators :
       \/ pc[e] # "report" /\ reply[e] = "none" /\ reply'[e] = "in_progress"
       \/ pc[e] # "report" /\ pc'[e] = "report"
       => active' /\ current' = run[e]]_vars

-----------------------------------------------------------------------------
(***************************************************************************)
(* Liveness.  Every wait is bounded in the code (the send and freshness    *)
(* timeouts, the poll interval, the cancel budget), so a request always    *)
(* takes its next step; asyncio grants the lock in the order it was asked  *)
(* for, so a request that waits for it is not passed over for ever.  No    *)
(* fairness is assumed of the prover, the editor or the session calls.     *)
(***************************************************************************)
EvalWaitRaises(e) == pc[e] \in {"fresh", "failed"} /\ EvalAborts(e)

Hist(A) == A /\ PeakFollows

EvaluateFair(e) ==
  /\ WF_vars(Hist(\/ EvalOpenFails(e) \/ EvalJoins(e)
                  \/ EvalCaretSent(e) \/ EvalCaretFails(e)
                  \/ EvalFresh(e) \/ EvalWaitRaises(e) \/ EvalReports(e)
                  \/ EvalChecks(e) \/ EvalDecides(e)))
  /\ SF_vars(Hist(EvalTimesOut(e)))

ReadFair(q) ==
  /\ WF_vars(Hist(StatusDecides(q) \/ FooterJudges(q) \/ QueryUnjoins(q)
                  \/ QueryJudges(q) \/ QueryReports(q) \/ QueryFails(q)))
  /\ SF_vars(Hist(FooterStamps(q) \/ QueryRides(q) \/ QueryRefused(q)))

CancelFair(c) ==
  /\ WF_vars(Hist(CancelReturns(c) \/ CancelSweeps(c) \/ CancelFails(c) \/ CancelDropped(c)))
  /\ SF_vars(Hist(Catastrophe(c)))

FairSpec ==
  /\ Spec
  /\ \A e \in Evaluators : EvaluateFair(e)
  /\ \A q \in Readers : ReadFair(q)
  /\ \A c \in Cancellers : CancelFair(c)

\* Every request that was taken up is answered, whatever the others do.
EveryRequestAnswered == \A p \in Procs : pc[p] # "idle" ~> pc[p] = "done"

\* A cancel always ends the outstanding run, whether it succeeds, fails or
\* is itself cancelled: no failed cancel wedges every later evaluation.
CancelEndsTheRun ==
  \A c \in Cancellers, r \in Evaluators :
    pc[c] = "sent" /\ active /\ current = r ~> ~(active /\ current = r)

=============================================================================
