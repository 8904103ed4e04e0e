-------------------------- MODULE DebuggerAdapter --------------------------
(***************************************************************************)
(* Evaluations at a breakpoint: the callers in                             *)
(* src/src/isabelle_mcp/debugger.py, the adapter of                        *)
(* scala/Isabelle2026/src/debugger.scala, and Pure's debugger loop as the  *)
(* adapter sees it.                                                        *)
(*                                                                         *)
(* The adapter's bookkeeping is touched by one thread, the session         *)
(* dispatcher, which runs the prover's messages (out) and the closures     *)
(* posted to it (posted), each in order but in no order between the two.   *)
(* The main loop reads requests (up) and acts on resumptions and aborts at *)
(* once, past whatever is posted.  down is the channel to the client.      *)
(***************************************************************************)
EXTENDS Naturals, Sequences, FiniteSets, SequencesExt

CONSTANTS
  Threads,      \* names of ML threads
  Evals,        \* calls that evaluate: eval, locals, the report's implicit locals
  Fetches,      \* those of them that are implicit and ask no fence
  Resumes,      \* calls of continue or step
  Aborts,       \* calls of isabelle_abort_eval_at_breakpoint
  OnThread,     \* the thread whose hit a call addresses
  MaxStops,     \* bound: how often a thread stops
  MaxOut,       \* bound: messages on their way from the prover
  MaxDown,      \* bound: messages on their way to the client
  NoCall

ASSUME CallsGiven ==
  /\ Fetches \subseteq Evals
  /\ OnThread \in [Evals \cup Resumes \cup Aborts -> Threads]
  /\ NoCall \notin Evals \cup Resumes \cup Aborts
  /\ Evals \cap Resumes = {} /\ Evals \cap Aborts = {} /\ Resumes \cap Aborts = {}
  /\ {"away", "stopped"} \cap Evals = {}
ASSUME EvalsGiven == IsFiniteSet(Evals)
ASSUME BoundsGiven == MaxStops \in Nat /\ MaxOut \in Nat /\ MaxDown \in Nat

Calls == Evals \cup Resumes \cup Aborts

VARIABLES
  pc,           \* each call
  target,       \* an abort's target, if its hit had an evaluation outstanding
  view, task,   \* the client: the stopped threads, each hit's eval_task
  up, down,     \* the two directions of the connection
  posted,       \* closures posted to the dispatcher
  pending, gathered, debt, threads,   \* the adapter's tables
  timer,        \* the backstop of an evaluation
  alive, at, inputs, out, stops,      \* the prover
  answer, said, owed, astray          \* history: see below

callers == <<pc, target, view, task>>
adapter == <<pending, gathered, debt, threads, timer>>
prover  == <<alive, at, inputs, stops>>
history == <<answer, said, owed, astray>>
vars    == <<callers, up, down, posted, adapter, prover, out, history>>

RoomOut == Len(out) < MaxOut
RoomDown == Len(down) < MaxDown

(***************************************************************************)
(* History variables, read by no guard.  answer[c], said[c]: the status    *)
(* evaluation c was answered with and whose output the reply carried.      *)
(* owed[t]: the evaluation for which t's debt was made.  astray: threads   *)
(* that were sent an evaluation in one stop and had it unread at another:  *)
(* the debugger loop keeps its inputs from stop to stop.                   *)
(***************************************************************************)
Statuses == {"ok", "resumed", "timeout", "crashed", "busy", "not_stopped"}

Request(k, c)    == [kind |-> k, call |-> c]
State(S)         == [kind |-> "state", stopped |-> S]
Reply(c, s)      == [kind |-> "reply", call |-> c, status |-> s]
Printed(t, c)    == [kind |-> "output", thread |-> t, of |-> c]
Halted(t, on, c) == [kind |-> "state", thread |-> t, on |-> on, of |-> c]
ExitMark         == [kind |-> "exit"]

TypeOK ==
  /\ pc \in [Calls -> {"idle", "sent", "done", "asked", "watch"}]
  /\ target \in [Aborts -> Evals \cup {NoCall}]
  /\ view \subseteq Threads /\ threads \subseteq Threads
  /\ task \in [Threads -> Evals \cup {NoCall}]
  /\ up \in Seq([kind : {"eval", "resume", "abort"}, call : Calls])
  /\ posted \in Seq([kind : {"start", "backstop"}, call : Evals])
  /\ \A i \in DOMAIN down : down[i].kind \in {"state", "reply"}
  /\ \A i \in DOMAIN out : out[i].kind \in {"state", "output", "exit"}
  /\ pending \in [Threads -> Evals \cup {NoCall}]
  /\ gathered \in [Threads -> SUBSET Evals]
  /\ debt \in [Threads -> 0 .. 1]
  /\ timer \in [Evals -> {"off", "armed", "fired"}]
  /\ alive \in BOOLEAN
  /\ at \in [Threads -> {"away", "stopped"} \cup Evals]
  /\ inputs \in [Threads -> Seq(Evals \cup Resumes)]
  /\ stops \in [Threads -> 0 .. MaxStops]
  /\ answer \in [Evals -> Statuses \cup {""}]
  /\ said \in [Evals -> SUBSET Evals]
  /\ owed \in [Threads -> Evals \cup {NoCall}]
  /\ astray \subseteq Threads

Init ==
  /\ pc = [c \in Calls |-> "idle"]
  /\ target = [a \in Aborts |-> NoCall]
  /\ view = {} /\ task = [t \in Threads |-> NoCall]
  /\ up = <<>> /\ down = <<>> /\ posted = <<>> /\ out = <<>>
  /\ pending = [t \in Threads |-> NoCall] /\ gathered = [t \in Threads |-> {}]
  /\ debt = [t \in Threads |-> 0] /\ threads = {}
  /\ timer = [c \in Evals |-> "off"]
  /\ alive = TRUE /\ at = [t \in Threads |-> "away"]
  /\ inputs = [t \in Threads |-> <<>>] /\ stops = [t \in Threads |-> 0]
  /\ answer = [c \in Evals |-> ""] /\ said = [c \in Evals |-> {}]
  /\ owed = [t \in Threads |-> NoCall] /\ astray = {}

-----------------------------------------------------------------------------
(* The callers.  A hit lives while its thread is in the client's map.      *)
(* task is its eval_task while that is not done: _check_eval_fence.        *)

Sends(k, c) == up' = Append(up, Request(k, c))

FenceOpen(t) == task[t] = NoCall

\* The task of call c is done.
TaskDone(c) == task' = [t \in Threads |-> IF task[t] = c THEN NoCall ELSE task[t]]

EvalStarts(c) ==
  /\ pc[c] = "idle" /\ OnThread[c] \in view
  /\ c \in Fetches \/ FenceOpen(OnThread[c])
  /\ pc' = [pc EXCEPT ![c] = "sent"]
  /\ task' = [task EXCEPT ![OnThread[c]] = c]
  /\ Sends("eval", c)
  /\ UNCHANGED <<target, view, down, posted, adapter, prover, out, history>>

\* The transport's deadline passes, or the caller is cancelled and takes its task along.
EvalDropped(c) ==
  /\ pc[c] = "sent"
  /\ pc' = [pc EXCEPT ![c] = "done"]
  /\ TaskDone(c)
  /\ UNCHANGED <<target, view, up, down, posted, adapter, prover, out, history>>

ResumeStarts(r) ==
  /\ pc[r] = "idle" /\ OnThread[r] \in view /\ FenceOpen(OnThread[r])
  /\ pc' = [pc EXCEPT ![r] = "done"]
  /\ Sends("resume", r)
  /\ UNCHANGED <<target, view, task, down, posted, adapter, prover, out, history>>

AbortAsks(a) ==
  /\ pc' = [pc EXCEPT ![a] = "asked"]
  /\ Sends("abort", a)
  /\ UNCHANGED <<view, task, down, posted, adapter, prover, out, history>>

AbortStarts(a) ==
  LET t == OnThread[a] IN
  /\ pc[a] = "idle" /\ t \in view
  /\ target' = [target EXCEPT ![a] = task[t]]
  /\ AbortAsks(a)

AbortDone(a) ==
  /\ pc' = [pc EXCEPT ![a] = "done"]
  /\ target' = [target EXCEPT ![a] = NoCall]

TargetDone(a) == \E c \in Evals : target[a] = c /\ pc[c] = "done"

\* One period passed and the target's reply has not arrived: ask again.
AbortAgain(a) ==
  /\ pc[a] = "watch" /\ ~TargetDone(a)
  /\ AbortAsks(a)
  /\ UNCHANGED target

\* The target is done and the abort reports its end, or the bound passes without.
AbortEnds(a) ==
  /\ pc[a] = "watch"
  /\ AbortDone(a)
  /\ UNCHANGED <<view, task, up, down, posted, adapter, prover, out, history>>

ClientReadsState ==
  /\ down # <<>> /\ Head(down).kind = "state"
  /\ view' = Head(down).stopped
  /\ task' = [t \in Threads |-> IF t \in view' THEN task[t] ELSE NoCall]
  /\ down' = Tail(down)
  /\ UNCHANGED <<pc, target, up, posted, adapter, prover, out, history>>

\* The reply to a call that was dropped changes nothing.
ClientReadsReply ==
  /\ down # <<>> /\ Head(down).kind = "reply"
  /\ LET c == Head(down).call IN
     IF Head(down).status = "aborting"
     THEN pc' = [pc EXCEPT ![c] = "watch"] /\ UNCHANGED <<target, task>>
     ELSE IF c \in Aborts
     THEN AbortDone(c) /\ UNCHANGED task
     ELSE pc' = [pc EXCEPT ![c] = "done"] /\ TaskDone(c) /\ UNCHANGED target
  /\ down' = Tail(down)
  /\ UNCHANGED <<view, up, posted, adapter, prover, out, history>>

-----------------------------------------------------------------------------
(* The adapter.                                                            *)

\* Thread t has left the stop the adapter knows of.
LeftStop(t) ==
  \/ at[t] = "away"
  \/ \E i \in DOMAIN out : out[i].kind = "state" /\ out[i].thread = t /\ ~out[i].on

\* Debugger.input: the prover keeps inputs by thread name, whether or not it is stopped.
Feed(t, i) ==
  /\ inputs' = IF alive THEN [inputs EXCEPT ![t] = Append(@, i)] ELSE inputs
  /\ astray' = IF alive /\ i \in Evals /\ LeftStop(t) THEN astray \cup {t} ELSE astray
  /\ UNCHANGED <<alive, at, stops>>

MainReads(kind) == up # <<>> /\ Head(up).kind = kind /\ up' = Tail(up)

\* eval, print_vals: the check and the send are left to the dispatcher.
MainReadsEval ==
  /\ MainReads("eval")
  /\ posted' = Append(posted, Request("start", Head(up).call))
  /\ UNCHANGED <<callers, down, adapter, prover, out, history>>

MainReadsResume ==
  /\ MainReads("resume")
  /\ Feed(OnThread[Head(up).call], Head(up).call)
  /\ UNCHANGED <<callers, down, posted, adapter, out, answer, said, owed>>

\* The flag only hastens an end that may come at any time, and may be lost.
MainReadsAbort ==
  /\ MainReads("abort") /\ RoomDown
  /\ LET t == OnThread[Head(up).call] IN
     down' = Append(down, Reply(Head(up).call,
               IF pending[t] = NoCall /\ debt[t] = 0 THEN "no_evaluation" ELSE "aborting"))
  /\ UNCHANGED <<callers, posted, adapter, prover, out, history>>

\* Broken: the reply goes out before the notification.
RespondFirst(c, s, texts, ms) ==
  /\ answer' = [answer EXCEPT ![c] = s]
  /\ said' = [said EXCEPT ![c] = texts]
  /\ down' = down \o <<Reply(c, s)>> \o ms

\* respond: write evaluation c's reply behind the messages ms.
Respond(c, s, texts, ms) ==
  /\ answer' = [answer EXCEPT ![c] = s]
  /\ said' = [said EXCEPT ![c] = texts]
  /\ down' = down \o Append(ms, Reply(c, s))

\* Broken: a debt does not keep the thread busy.
BusyPending(t) == pending[t] # NoCall

Busy(t) == pending[t] # NoCall \/ debt[t] > 0

\* Broken: a refused evaluation is left without a reply.
StartIgnored(c) ==
  /\ Busy(OnThread[c]) \/ OnThread[c] \notin threads
  /\ UNCHANGED <<adapter, prover, down, history>>

StartRefused(c) ==
  /\ Busy(OnThread[c]) \/ OnThread[c] \notin threads
  /\ Respond(c, IF Busy(OnThread[c]) THEN "busy" ELSE "not_stopped", {}, <<>>)
  /\ UNCHANGED <<adapter, prover, owed, astray>>

StartAccepted(c) ==
  LET t == OnThread[c] IN
  /\ ~Busy(t) /\ t \in threads
  /\ pending' = [pending EXCEPT ![t] = c]
  /\ timer' = [timer EXCEPT ![c] = "armed"]
  /\ Feed(t, c)
  /\ UNCHANGED <<gathered, debt, threads, down, answer, said, owed>>

StartEval(c) == StartRefused(c) \/ StartAccepted(c)

\* Broken: the closure answers whatever is pending on its thread.
BackstopUnchecked(c) ==
  LET t == OnThread[c] IN
  /\ IF pending[t] # NoCall
     THEN /\ pending' = [pending EXCEPT ![t] = NoCall]
          /\ debt' = [debt EXCEPT ![t] = @ + 1]
          /\ owed' = [owed EXCEPT ![t] = pending[t]]
          /\ gathered' = [gathered EXCEPT ![t] = {}]
          /\ Respond(pending[t], "timeout", gathered[t], <<>>)
     ELSE UNCHANGED <<pending, debt, owed, gathered, answer, said, down>>
  /\ UNCHANGED <<threads, timer, prover, astray>>

\* Broken: a request answered by the backstop leaves no debt.
BackstopDebtless(c) ==
  LET t == OnThread[c] IN
  /\ IF pending[t] = c
     THEN /\ pending' = [pending EXCEPT ![t] = NoCall]
          /\ gathered' = [gathered EXCEPT ![t] = {}]
          /\ Respond(c, "timeout", gathered[t], <<>>)
     ELSE UNCHANGED <<pending, gathered, answer, said, down>>
  /\ UNCHANGED <<debt, owed, threads, timer, prover, astray>>

\* The timer's closure meets another request than its own, or none, or its own.
Backstop(c) ==
  LET t == OnThread[c] IN
  /\ IF pending[t] = c
     THEN /\ pending' = [pending EXCEPT ![t] = NoCall]
          /\ debt' = [debt EXCEPT ![t] = @ + 1]
          /\ owed' = [owed EXCEPT ![t] = c]
          /\ gathered' = [gathered EXCEPT ![t] = {}]
          /\ Respond(c, "timeout", gathered[t], <<>>)
     ELSE UNCHANGED <<pending, debt, owed, gathered, answer, said, down>>
  /\ UNCHANGED <<threads, timer, prover, astray>>

RunsPosted ==
  /\ posted # <<>> /\ RoomDown /\ posted' = Tail(posted)
  /\ \/ Head(posted).kind = "start" /\ StartEval(Head(posted).call)
     \/ Head(posted).kind = "backstop" /\ Backstop(Head(posted).call)
  /\ UNCHANGED <<callers, up, out>>

TimerFires(c) ==
  /\ timer[c] = "armed"
  /\ timer' = [timer EXCEPT ![c] = "fired"]
  /\ posted' = Append(posted, Request("backstop", c))
  /\ UNCHANGED <<callers, up, down, pending, gathered, debt, threads, prover, out, history>>

\* timer.cancel(): too late for one that fired.
Cancelled(cs) == [c \in Evals |-> IF c \in cs /\ timer[c] = "armed" THEN "off" ELSE timer[c]]

\* An owed completion is paid; the state of a thread that owes none pays nothing.
DebtPaid(t) == [debt EXCEPT ![t] = IF @ > 0 THEN @ - 1 ELSE 0]

\* handle_state: the map, its notification, then whoever the completion belongs to.
TakesState ==
  /\ out # <<>> /\ Head(out).kind = "state" /\ RoomDown /\ out' = Tail(out)
  /\ LET t == Head(out).thread
         c == pending[t] IN
     /\ threads' = IF Head(out).on THEN threads \cup {t} ELSE threads \ {t}
     /\ pending' = [pending EXCEPT ![t] = NoCall]
     /\ gathered' = [gathered EXCEPT ![t] = {}]
     /\ IF c # NoCall
        THEN /\ timer' = Cancelled({c})
             /\ Respond(c, IF Head(out).on THEN "ok" ELSE "resumed", gathered[t],
                        <<State(threads')>>)
             /\ UNCHANGED <<debt, owed>>
        ELSE /\ debt' = DebtPaid(t)
             /\ owed' = [owed EXCEPT ![t] = IF debt'[t] > 0 THEN @ ELSE NoCall]
             /\ down' = Append(down, State(threads'))
             /\ UNCHANGED <<timer, answer, said>>
  /\ UNCHANGED <<callers, up, posted, prover, astray>>

\* handle_output: kept for the pending request; an indebted thread's is discarded.
TakesOutput ==
  /\ out # <<>> /\ Head(out).kind = "output" /\ out' = Tail(out)
  /\ LET t == Head(out).thread IN
     gathered' = IF pending[t] = NoCall THEN gathered
                 ELSE [gathered EXCEPT ![t] = @ \cup {Head(out).of}]
  /\ UNCHANGED <<callers, up, down, posted, pending, debt, threads, timer, prover, history>>

\* prover_exit, behind every message of the prover.
TakesExit ==
  LET orphans == {c \in Evals : pending[OnThread[c]] = c}
      replies == SetToSeq({Reply(c, "crashed") : c \in orphans}) IN
  /\ out # <<>> /\ Head(out).kind = "exit" /\ RoomDown /\ out' = Tail(out)
  /\ timer' = Cancelled(orphans)
  /\ answer' = [c \in Evals |-> IF c \in orphans THEN "crashed" ELSE answer[c]]
  /\ pending' = [t \in Threads |-> NoCall]
  /\ gathered' = [t \in Threads |-> {}]
  /\ debt' = [t \in Threads |-> 0] /\ owed' = [t \in Threads |-> NoCall]
  /\ threads' = {}
  /\ down' = down \o Append(replies, State({}))
  /\ UNCHANGED <<callers, up, posted, prover, said, astray>>

-----------------------------------------------------------------------------
(* The prover: the debugger loop of each thread.  It posts one state when  *)
(* it stops and one per input, after the input's output; a resumption's,   *)
(* and that of a thread interrupted by an edit or a cancel, is empty.      *)

LeavesInput(t, rest) ==
  astray' = IF \E i \in DOMAIN rest : rest[i] \in Evals THEN astray \cup {t} ELSE astray

Stops(t) ==
  /\ alive /\ RoomOut /\ at[t] = "away" /\ stops[t] < MaxStops
  /\ at' = [at EXCEPT ![t] = "stopped"]
  /\ stops' = [stops EXCEPT ![t] = @ + 1]
  /\ out' = Append(out, Halted(t, TRUE, NoCall))
  /\ UNCHANGED <<callers, up, down, posted, adapter, alive, inputs, history>>

TakesEval(t) ==
  /\ alive /\ at[t] = "stopped" /\ inputs[t] # <<>> /\ Head(inputs[t]) \in Evals
  /\ at' = [at EXCEPT ![t] = Head(inputs[t])]
  /\ inputs' = [inputs EXCEPT ![t] = Tail(@)]
  /\ UNCHANGED <<callers, up, down, posted, adapter, alive, out, stops, history>>

TakesResume(t) ==
  /\ alive /\ RoomOut /\ at[t] = "stopped"
  /\ inputs[t] # <<>> /\ Head(inputs[t]) \in Resumes
  /\ at' = [at EXCEPT ![t] = "away"]
  /\ inputs' = [inputs EXCEPT ![t] = Tail(@)]
  /\ out' = Append(out, Halted(t, FALSE, NoCall))
  /\ LeavesInput(t, Tail(inputs[t]))
  /\ UNCHANGED <<callers, up, down, posted, adapter, alive, stops, answer, said, owed>>

\* By itself, by its deadline, or by an abort.  It may also never do so.
Finishes(t) ==
  /\ alive /\ RoomOut /\ at[t] \in Evals
  /\ at' = [at EXCEPT ![t] = "stopped"]
  /\ out' = out \o <<Printed(t, at[t]), Halted(t, TRUE, at[t])>>
  /\ UNCHANGED <<callers, up, down, posted, adapter, alive, inputs, stops, history>>

\* A genuine interrupt: the command is cancelled or edited away.
Interrupted(t) ==
  /\ alive /\ RoomOut /\ at[t] # "away"
  /\ at' = [at EXCEPT ![t] = "away"]
  /\ out' = Append(out, Halted(t, FALSE, IF at[t] \in Evals THEN at[t] ELSE NoCall))
  /\ LeavesInput(t, inputs[t])
  /\ UNCHANGED <<callers, up, down, posted, adapter, alive, inputs, stops, answer, said, owed>>

ProverExits ==
  /\ alive /\ RoomOut /\ alive' = FALSE
  /\ at' = [t \in Threads |-> "away"]
  /\ inputs' = [t \in Threads |-> <<>>]
  /\ out' = Append(out, ExitMark)
  /\ UNCHANGED <<callers, up, down, posted, adapter, stops, history>>

-----------------------------------------------------------------------------

CallerSteps ==
  \/ \E c \in Evals : EvalStarts(c) \/ EvalDropped(c)
  \/ \E r \in Resumes : ResumeStarts(r)
  \/ \E a \in Aborts : AbortStarts(a) \/ AbortAgain(a) \/ AbortEnds(a)
  \/ ClientReadsState
  \/ ClientReadsReply

AdapterSteps ==
  \/ MainReadsEval \/ MainReadsResume \/ MainReadsAbort
  \/ RunsPosted
  \/ \E c \in Evals : TimerFires(c)
  \/ TakesState \/ TakesOutput \/ TakesExit

ProverSteps ==
  \/ \E t \in Threads :
       Stops(t) \/ TakesEval(t) \/ TakesResume(t) \/ Finishes(t) \/ Interrupted(t)
  \/ ProverExits

Next == CallerSteps \/ AdapterSteps \/ ProverSteps

Spec == Init /\ [][Next]_vars

-----------------------------------------------------------------------------
(* Properties.                                                             *)

\* Evaluations of t whose completion the adapter has not seen: queued, at work, or done
\* with the state still on its way.
Unseen(t) ==
  Cardinality({i \in DOMAIN inputs[t] : inputs[t][i] \in Evals})
  + (IF at[t] \in Evals THEN 1 ELSE 0)
  + Cardinality({i \in DOMAIN out : out[i].kind = "state" /\ out[i].thread = t
                                    /\ out[i].of \in Evals})

\* The tables are the prover's true debts: a thread has as many completions to come as it
\* has a pending request and owed states, whatever the backstop, interrupts and dropped
\* callers did; so the next state of the thread is never mistaken for another's.
DebtIsOwed ==
  alive => \A t \in Threads \ astray :
             Unseen(t) = debt[t] + (IF pending[t] = NoCall THEN 0 ELSE 1)

\* A reply says what its own evaluation printed, all of it when the evaluation completed;
\* and a caller is only told "timeout" when its own backstop fired.  It rests on the debts
\* being the true ones.
OwnReply ==
  DebtIsOwed /\ \A c \in Evals :
    /\ answer[c] = "timeout" => timer[c] = "fired"
    /\ OnThread[c] \notin astray =>
         /\ said[c] \subseteq {c}
         /\ answer[c] = "ok" => said[c] = {c}

\* The stopped threads the client knows of when it reads message i of the channel.
KnownAt(i) ==
  LET earlier == {j \in 1 .. i - 1 : down[j].kind = "state"} IN
  IF earlier = {} THEN view ELSE down[Max(earlier)].stopped

\* When a completion is read, the client's map already says whether the thread is still
\* stopped: the notification of a state precedes the reply it completes.
StateBeforeReply ==
  \A i \in DOMAIN down :
    down[i].kind = "reply" /\ down[i].status \in {"ok", "resumed"} =>
      (OnThread[down[i].call] \in KnownAt(i) <=> down[i].status = "ok")

\* What OneReply promises: a thread works for its pending request, or for the one it owes.
Owner == [t \in Threads |-> IF pending[t] # NoCall THEN pending[t]
                            ELSE IF debt[t] > 0 THEN owed[t] ELSE NoCall]

Promise == INSTANCE OneReply WITH owner <- Owner, reply <- answer

\* The adapter keeps the promise: one evaluation at a time, one reply each, none lost or
\* misdirected, through backstops, interrupts, resumptions and the prover's exit.
PromiseKept == Promise!Spec

\* Whoever waits for an evaluation will be told something without the prover's help: its
\* request or its reply is on the way, or a backstop is set on it or has fired for it.
NoneForgotten ==
  \A c \in Evals : pc[c] = "sent" =>
    \/ \E i \in DOMAIN up : up[i] = Request("eval", c)
    \/ \E i \in DOMAIN posted : posted[i] = Request("start", c)
    \/ /\ pending[OnThread[c]] = c
       /\ timer[c] = "armed" \/ \E i \in DOMAIN posted : posted[i] = Request("backstop", c)
    \/ \E i \in DOMAIN down : down[i].kind = "reply" /\ down[i].call = c

=============================================================================
