---------------------------- MODULE DebugSession ----------------------------
(***************************************************************************)
(* The prover's life and the threads that stop in it.  isabelle_launch,    *)
(* isabelle_terminate and the catastrophe handler start and tear down the  *)
(* prover under _evaluation_state_lock; the debugger's hit table folds the *)
(* state pushes of that prover, one push at a time, whenever a tool looks; *)
(* the tools that resume a thread attribute the end of its hit.            *)
(* Evaluations at a breakpoint are DebuggerAdapter's; the breakpoints are  *)
(* BreakpointRegistry's.                                                   *)
(***************************************************************************)
EXTENDS Naturals, Sequences, FiniteSets, FiniteSetsExt, Functions

CONSTANTS
  Threads,   \* ML threads of a prover; each process numbers them afresh
  Calls,     \* tool calls that may be in flight together
  Sessions,  \* what a launch may ask for: session and debug flag
  Nobody,    \* no call: the lock is free
  MaxHalts,  \* times a thread halts
  MaxStarts, \* prover processes
  MaxCalls,  \* tool calls in all
  MaxTrouble \* crashes, timeouts, failed requests, cancelled calls

ASSUME SessionAssumption ==
  /\ IsFiniteSet(Threads) /\ Nobody \notin Calls
  /\ {MaxHalts, MaxStarts, MaxCalls, MaxTrouble} \subseteq Nat

VARIABLES
  process,   \* client.process: the number of the process it holds, 0 for None
  living,    \* the processes that have not exited
  shaken,    \* client._handshake_done
  logic,     \* client.logic and client.debug
  halted,    \* the halt each thread of the prover is in, 0 when it runs
  inbox,     \* resume verbs queued for each thread
  swept,     \* threads whose work a cancellation interrupted
  wire,      \* state pushes on their way to the client
  threads,   \* client.debugger_threads: the last push
  backlog,   \* client.debugger_state_history beyond registry._consumed
  table,     \* the hit table, the retired hits and the notice buffer
  lock,      \* _evaluation_state_lock
  call,      \* the tool calls
  told,      \* history: hits the agent was told of
  cut,       \* history: hits a cancelled or failed call left half-done
  spent      \* what is used up of each bound

proverVars == <<living, halted, inbox, swept, wire>>
clientVars == <<process, shaken, logic, threads, backlog>>
histVars == <<told, cut>>
vars == <<proverVars, clientVars, table, lock, call, histVars, spent>>

Running == [t \in Threads |-> 0]
Idle == [pc |-> "idle", hits |-> <<>>, todo |-> {}, halt |-> 0, news |-> FALSE,
         process |-> 0, want |-> Nobody]
Hit(t, halt) == [thread |-> t, stack |-> halt, stepping |-> FALSE, ending |-> "none"]
EmptyTable == [live |-> <<>>, retired |-> <<>>, seq |-> 0, notices |-> {}]

Live == DOMAIN table.live
NewHit(h) == <<"new", h>>
HitEnded(h) == <<"ended", h>>
Announced(tbl) == {n[2] : n \in {m \in tbl.notices : m[1] = "new"}}

Spend(what) == spent' = [spent EXCEPT ![what] = @ + 1]
MoreTrouble == spent.trouble < MaxTrouble
-----------------------------------------------------------------------------
(* The hit table.                                                          *)

\* Hits leave the live table, each with its ending.
Retire(tbl, endings) ==
  [tbl EXCEPT
     !.live = [h \in DOMAIN @ \ DOMAIN endings |-> @[h]],
     !.retired = [h \in DOMAIN @ \cup DOMAIN endings |->
                    IF h \in DOMAIN endings THEN endings[h] ELSE @[h]]]

\* A hit stopped again is not stepping any more.
Restopped(hit, halt) == [hit EXCEPT !.stack = halt, !.stepping = FALSE]

\* The live hits after a push: a stopped thread's hit takes the new stack; the
\* hit of a thread that left is retired, with a notice when no tool attributed
\* the ending; a stepping one stays.
Refreshed(tbl, stopped) ==
  LET on == tbl.live
      left == {h \in DOMAIN on : on[h].thread \notin DOMAIN stopped /\ ~on[h].stepping}
      unattributed == {h \in left : on[h].ending = "none"}
      kept == [h \in DOMAIN on |-> IF on[h].thread \in DOMAIN stopped
                                     THEN Restopped(on[h], stopped[on[h].thread])
                                     ELSE on[h]]
  IN [Retire([tbl EXCEPT !.live = kept],
             [h \in left |-> IF h \in unattributed THEN "resumed" ELSE on[h].ending])
      EXCEPT !.notices = @ \cup {HitEnded(h) : h \in unattributed}]

\* Mutant: the ids are not counted up.
MintedAgain(tbl, stopped, fresh) ==
  LET ids == tbl.seq + 1 .. tbl.seq + Cardinality(fresh)
      of == CHOOSE f \in Bijection(ids, fresh) : TRUE
  IN [tbl EXCEPT !.live = [h \in DOMAIN @ \cup ids |->
                             IF h \in ids THEN Hit(of[h], stopped[of[h]]) ELSE @[h]],
                 !.notices = @ \cup {NewHit(h) : h \in ids}]

\* A new hit for each of the FRESH threads, in some order, and its notice.
Minted(tbl, stopped, fresh) ==
  LET ids == tbl.seq + 1 .. tbl.seq + Cardinality(fresh)
      of == CHOOSE f \in Bijection(ids, fresh) : TRUE
  IN [tbl EXCEPT !.seq = @ + Cardinality(fresh),
                 !.live = [h \in DOMAIN @ \cup ids |->
                             IF h \in ids THEN Hit(of[h], stopped[of[h]]) ELSE @[h]],
                 !.notices = @ \cup {NewHit(h) : h \in ids}]

\* One push folded into the table.
FoldPush(tbl, push) ==
  LET stopped == [t \in {u \in Threads : push[u] # 0} |-> push[t]]
      kept == Refreshed(tbl, stopped)
      taken == {kept.live[h].thread : h \in DOMAIN kept.live}
  IN Minted(kept, stopped, DOMAIN stopped \ taken)

\* All the pushes of the backlog folded into TBL, in their order.
Folded(tbl) ==
  LET after[i \in 0..Len(backlog)] ==
        IF i = 0 THEN tbl ELSE FoldPush(after[i - 1], backlog[i])
  IN after[Len(backlog)]

\* The table after sync_hits.
Synced == Folded(table)

\* Attributing an ending, and the stepping flag; a hit no longer live is left
\* alone.
Ending(tbl, hits, ending) ==
  [tbl EXCEPT !.live = [h \in DOMAIN @ |-> IF h \in hits THEN [@[h] EXCEPT !.ending = ending]
                                           ELSE @[h]]]
Stepping(tbl, hits, flag) ==
  [tbl EXCEPT !.live = [h \in DOMAIN @ |-> IF h \in hits THEN [@[h] EXCEPT !.stepping = flag]
                                           ELSE @[h]]]

\* The attribution of a cancellation that interrupted nothing.
Withdrawn(tbl, hits) ==
  Ending(tbl, {h \in hits \cap DOMAIN tbl.live : tbl.live[h].ending = "cancelled"}, "none")

\* Mutant: the buffer is emptied, whatever it holds.
ConsumedAll(tbl, hits) == [tbl EXCEPT !.notices = {}]

\* A result that leads with HITS takes their queued new-hit notices.
Consumed(tbl, hits) == [tbl EXCEPT !.notices = @ \ {NewHit(h) : h \in hits}]

\* The registry's part of a teardown: every live hit ends, with a notice.
TornDown(tbl) ==
  [Retire(tbl, [h \in DOMAIN tbl.live |-> "terminated"]) EXCEPT
     !.notices = @ \cup {HitEnded(h) : h \in DOMAIN tbl.live}]

\* The client folds what has arrived, then holds TBL.
Becomes(tbl) == table' = tbl /\ backlog' = <<>>
-----------------------------------------------------------------------------
(* The prover and its pushes.                                              *)

Up == process \in living

Push(now) == halted' = now /\ wire' = Append(wire, now)

\* A thread reaches an armed site and halts; what runs was evaluated after the
\* launch let go of the lock.
Halt(t) ==
  /\ Up /\ \A c \in Calls : call[c].pc \notin {"shake", "probe"}
  /\ halted[t] = 0
  /\ spent.halts < MaxHalts
  /\ Push([halted EXCEPT ![t] = spent.halts + 1])
  /\ Spend("halts")
  /\ UNCHANGED <<living, inbox, swept, clientVars, table, lock, call, histVars>>

\* A halted thread takes the next verb of its queue, or its work is interrupted.
Resume(t) ==
  /\ halted[t] # 0
  /\ \/ inbox[t] > 0 /\ inbox' = [inbox EXCEPT ![t] = @ - 1] /\ UNCHANGED swept
     \/ t \in swept /\ swept' = swept \ {t} /\ UNCHANGED inbox
  /\ Push([halted EXCEPT ![t] = 0])
  /\ UNCHANGED <<living, clientVars, table, lock, call, histVars, spent>>

Vanish(p) ==
  /\ living' = living \ {p}
  /\ halted' = Running
  /\ inbox' = Running
  /\ swept' = {}

\* The process dies; what it has written may still be read.
Crash ==
  /\ Up /\ MoreTrouble
  /\ Vanish(process)
  /\ Spend("trouble")
  /\ UNCHANGED <<wire, clientVars, table, lock, call, histVars>>

\* The reader takes the next push.
Receive ==
  /\ wire # <<>> /\ process # 0
  /\ threads' = Head(wire)
  /\ backlog' = Append(backlog, Head(wire))
  /\ wire' = Tail(wire)
  /\ call' = [c \in Calls |->
                IF call[c].pc \in {"step", "stepping"} THEN [call[c] EXCEPT !.news = TRUE]
                ELSE call[c]]
  /\ UNCHANGED <<living, halted, inbox, swept, process, shaken, logic, table, lock,
                 histVars, spent>>
-----------------------------------------------------------------------------
(* Calls.                                                                  *)

At(c, pc) == call[c].pc = pc
Goto(c, pc) == call' = [call EXCEPT ![c].pc = pc]
Done(c) == call' = [call EXCEPT ![c] = [Idle EXCEPT !.pc = "returning"]]
Finish(c) == call' = [call EXCEPT ![c] = Idle]
Free(c) == lock' = IF lock = c THEN Nobody ELSE lock

\* A call starts.
Enters(c) == At(c, "idle") /\ spent.calls < MaxCalls /\ Spend("calls")

\* The prover was torn down, is being torn down, or died under the call.
Closing == \E c \in Calls : call[c].pc \in {"closing", "closing for launch"}
Lost(c) == call[c].process # process \/ ~Up \/ Closing

\* The body of C is done: the middleware folds the pushes once more and hands
\* over the notices.
Returns(c) ==
  /\ At(c, "returning")
  /\ LET tbl == IF process # 0 THEN Synced ELSE table
     IN /\ table' = [tbl EXCEPT !.notices = {}]
        /\ told' = told \cup Announced(tbl)
  /\ backlog' = IF process # 0 THEN <<>> ELSE backlog
  /\ Finish(c)
  /\ UNCHANGED <<proverVars, process, shaken, logic, threads, lock, cut, spent>>

\* A tool that only looks: the middleware's turn is all that matters here.
Look(c) ==
  /\ Enters(c) /\ process # 0
  /\ Done(c)
  /\ UNCHANGED <<proverVars, clientVars, table, lock, histVars>>
-----------------------------------------------------------------------------
(* isabelle_continue_breakpoint and isabelle_step_at_breakpoint.  A call    *)
(* keeps its hits with their threads, whatever becomes of them meanwhile.   *)

Mine(c) == DOMAIN call[c].hits
ThreadsOf(c) == {call[c].hits[h] : h \in Mine(c)}

\* A call at PC with HITS of TBL.
Holding(pc, tbl, hits) ==
  [Idle EXCEPT !.pc = pc, !.process = process, !.todo = hits,
               !.hits = [h \in hits |-> tbl.live[h].thread]]

Stopped(c) == \E t \in ThreadsOf(c) : threads[t] # 0

\* The wait for the threads of C to leave the map ends, or runs out.
LeftOrLate(c) ==
  \/ ~Stopped(c) /\ UNCHANGED spent
  \/ Stopped(c) /\ MoreTrouble /\ Spend("trouble")

\* The prover queues a verb for any thread it is given.
Verb(t) == inbox' = [inbox EXCEPT ![t] = @ + 1]

\* A request of C fails: its prover is gone, or it timed out.
Fails(c) ==
  /\ Lost(c) \/ MoreTrouble
  /\ spent' = [spent EXCEPT !.trouble = @ + IF Lost(c) THEN 0 ELSE 1]

\* One hit, or all of them.
ContinueStarts(c) ==
  /\ Enters(c) /\ process # 0
  /\ \E hits \in {DOMAIN Synced.live} \cup {{h} : h \in DOMAIN Synced.live} :
       /\ hits # {}
       /\ call' = [call EXCEPT ![c] = Holding("continue", Synced, hits)]
  /\ Becomes(Synced)
  /\ UNCHANGED <<proverVars, process, shaken, logic, threads, lock, histVars>>

\* The next hit is attributed and its thread told to continue, or the request
\* fails.
ContinueSends(c) ==
  /\ At(c, "continue") /\ call[c].todo # {}
  /\ LET h == Min(call[c].todo)
     IN /\ table' = Ending(table, {h}, "continued")
        /\ \/ /\ ~Lost(c)
              /\ Verb(call[c].hits[h])
              /\ call' = [call EXCEPT ![c].todo = @ \ {h}]
              /\ UNCHANGED spent
           \/ /\ Fails(c)
              /\ Finish(c)
              /\ UNCHANGED inbox
  /\ UNCHANGED <<living, halted, swept, wire, clientVars, lock, histVars>>

\* The threads left, or the wait ran out: the hits still live are unattributed.
ContinueEnds(c) ==
  /\ At(c, "continue") /\ call[c].todo = {}
  /\ LeftOrLate(c)
  /\ Becomes(Ending(Synced, Mine(c), "none"))
  /\ Done(c)
  /\ UNCHANGED <<proverVars, process, shaken, logic, threads, lock, histVars>>

StepStarts(c) ==
  /\ Enters(c) /\ process # 0
  /\ \E h \in DOMAIN Synced.live :
       /\ Becomes(Ending(Stepping(Synced, {h}, TRUE), {h}, "none"))
       /\ IF Up /\ ~Closing THEN Verb(Synced.live[h].thread) ELSE UNCHANGED inbox
       /\ call' = [call EXCEPT ![c] =
                     [Holding("step", Synced, {h}) EXCEPT
                        !.halt = threads[Synced.live[h].thread]]]
  /\ UNCHANGED <<living, halted, swept, wire, process, shaken, logic, threads, lock,
                 histVars>>

\* The verb is acknowledged, or the request fails and the hit is no longer
\* stepping.
StepAnswered(c) ==
  /\ At(c, "step")
  /\ \/ /\ ~Lost(c)
        /\ Goto(c, "stepping")
        /\ UNCHANGED <<table, cut, spent>>
     \/ /\ Fails(c)
        /\ table' = Stepping(table, Mine(c), FALSE)
        /\ cut' = cut \cup Mine(c)
        /\ Finish(c)
  /\ UNCHANGED <<proverVars, clientVars, lock, told>>

\* A push came and the thread is not in it: the wait goes on.
StepLooks(c) ==
  /\ At(c, "stepping") /\ call[c].news /\ ~Stopped(c)
  /\ call' = [call EXCEPT ![c].news = FALSE]
  /\ UNCHANGED <<proverVars, clientVars, table, lock, histVars, spent>>

\* "Stopped again", with a push or when the wait runs out: the table is
\* brought up to date before the flag is cleared.
StepStops(c) ==
  /\ At(c, "stepping") /\ Stopped(c)
  /\ \/ call[c].news /\ UNCHANGED spent
     \/ ~call[c].news /\ MoreTrouble /\ Spend("trouble")
  /\ Becomes(Stepping(Synced, Mine(c), FALSE))
  /\ Done(c)
  /\ UNCHANGED <<proverVars, process, shaken, logic, threads, lock, histVars>>

\* Mutant: only the pushes retire a hit.
LeftByPushes(tbl, hits) == tbl

\* No push carried the absence: the hit is retired on the live map's evidence.
LeftByMap(tbl, hits) ==
  Retire(tbl, [h \in hits \cap DOMAIN tbl.live |-> "step left"])

\* "Did not stop": the wait ran out with the thread not stopped.
StepLeaves(c) ==
  /\ At(c, "stepping") /\ ~Stopped(c)
  /\ MoreTrouble /\ Spend("trouble")
  /\ LET left == Ending(Stepping(table, Mine(c), FALSE), Mine(c), "step left")
     IN Becomes(LeftByMap(Folded(left), Mine(c)))
  /\ Done(c)
  /\ UNCHANGED <<proverVars, process, shaken, logic, threads, lock, histVars>>
-----------------------------------------------------------------------------
(* isabelle_evaluate_to: the refusal over live hits, and the report of the *)
(* hits that end its wait.                                                 *)

\* A failed call hands no notices over; the refusal itself names the hits.
EvaluateRefused(c) ==
  /\ Enters(c) /\ process # 0 /\ lock = Nobody
  /\ DOMAIN Synced.live # {}
  /\ Becomes(Consumed(Synced, DOMAIN Synced.live))
  /\ told' = told \cup DOMAIN Synced.live
  /\ UNCHANGED <<proverVars, process, shaken, logic, threads, lock, call, cut>>

Evaluates(c) ==
  /\ Enters(c) /\ process # 0 /\ lock = Nobody
  /\ DOMAIN Synced.live = {}
  /\ Becomes(Synced)
  /\ Goto(c, "evaluating")
  /\ UNCHANGED <<proverVars, process, shaken, logic, threads, lock, histVars>>

\* The wait sees live hits: the report takes their notices, then fetches the
\* locals of each.
ReportStarts(c) ==
  /\ At(c, "evaluating") /\ process # 0
  /\ DOMAIN Synced.live # {}
  /\ Becomes(Consumed(Synced, DOMAIN Synced.live))
  /\ call' = [call EXCEPT ![c] = Holding("report", Synced, DOMAIN Synced.live)]
  /\ UNCHANGED <<proverVars, process, shaken, logic, threads, lock, histVars, spent>>

\* A failed fetch only loses its listing.
ReportEnds(c) ==
  /\ At(c, "report")
  /\ told' = told \cup Mine(c)
  /\ Done(c)
  /\ UNCHANGED <<proverVars, clientVars, table, lock, cut, spent>>

\* The evaluation ended without a hit, or with its prover.
EvaluationEnds(c) ==
  /\ At(c, "evaluating")
  /\ Done(c)
  /\ UNCHANGED <<proverVars, clientVars, table, lock, histVars, spent>>
-----------------------------------------------------------------------------
(* isabelle_cancel_evaluation, under the lock throughout.                  *)

\* The coming ends are attributed before the interrupt.
CancelStarts(c) ==
  /\ Enters(c) /\ process # 0 /\ lock = Nobody
  /\ Becomes(Ending(Synced, DOMAIN Synced.live, "cancelled"))
  /\ lock' = c
  /\ call' = [call EXCEPT ![c] = Holding("cancel", Synced, DOMAIN Synced.live)]
  /\ UNCHANGED <<proverVars, process, shaken, logic, threads, histVars>>

\* Retired: whatever is halted was interrupted, and will leave.
CancelRetired(c) ==
  /\ At(c, "cancel") /\ ~Lost(c)
  /\ swept' = {t \in Threads : halted[t] # 0}
  /\ Goto(c, "sweep")
  /\ UNCHANGED <<living, halted, inbox, wire, clientVars, table, lock, histVars, spent>>

\* Nothing was running: the attribution is taken back.
CancelNothing(c) ==
  /\ At(c, "cancel") /\ ~Lost(c)
  /\ halted = Running
  /\ LET withdrawn == Withdrawn(table, Mine(c))
     IN Becomes(Folded(withdrawn))
  /\ Free(c) /\ Done(c)
  /\ UNCHANGED <<proverVars, process, shaken, logic, threads, histVars, spent>>

\* The swept threads left the map, or the wait ran out.
CancelEnds(c) ==
  /\ At(c, "sweep")
  /\ LeftOrLate(c)
  /\ Becomes(Synced)
  /\ Free(c) /\ Done(c)
  /\ UNCHANGED <<proverVars, process, shaken, logic, threads, histVars>>

\* No success outcome: the attribution is taken back, and the catastrophe
\* handler waits for the lock.
CancelFails(c) ==
  /\ At(c, "cancel") /\ Fails(c)
  /\ table' = Withdrawn(table, Mine(c))
  /\ Free(c) /\ Goto(c, "doomed")
  /\ UNCHANGED <<proverVars, clientVars, histVars>>
-----------------------------------------------------------------------------
(* The life of the prover.                                                 *)

Sound == process # 0 /\ Up

\* isabelle_launch takes the lock.  The session is already running, or
\* another one holds live hits, or what there is must go first, or nothing.
LaunchRuns(c, s) ==
  /\ Enters(c) /\ lock = Nobody
  /\ Sound /\ logic = s
  /\ Done(c)
  /\ UNCHANGED <<proverVars, clientVars, table, lock, histVars>>

LaunchRefused(c, s) ==
  /\ Enters(c) /\ lock = Nobody
  /\ Sound /\ logic # s
  /\ DOMAIN Synced.live # {}
  /\ Becomes(Consumed(Synced, DOMAIN Synced.live))
  /\ told' = told \cup DOMAIN Synced.live
  /\ UNCHANGED <<proverVars, process, shaken, logic, threads, lock, call, cut>>

LaunchStarts(c, s) ==
  /\ Enters(c) /\ lock = Nobody
  /\ IF Sound THEN logic # s /\ DOMAIN Synced.live = {} /\ Becomes(Synced)
     ELSE UNCHANGED <<table, backlog>>
  /\ lock' = c
  /\ call' = [call EXCEPT ![c] =
                [Idle EXCEPT !.pc = IF process # 0 THEN "closing for launch" ELSE "spawn",
                             !.want = s]]
  /\ UNCHANGED <<proverVars, process, shaken, logic, threads, histVars>>

\* The last steps of a teardown, which no failure skips: the process is dead
\* and forgotten, the session's state cleared, the registry told.
Clears ==
  /\ process' = 0 /\ shaken' = FALSE
  /\ Vanish(process)
  /\ wire' = <<>> /\ threads' = Running /\ backlog' = <<>>
  /\ table' = TornDown(table)

TeardownEnds(c) ==
  /\ At(c, "closing") \/ At(c, "closing for launch")
  /\ Clears
  /\ IF At(c, "closing")
       THEN Free(c) /\ Done(c)
       ELSE Goto(c, "spawn") /\ UNCHANGED lock
  /\ UNCHANGED <<logic, histVars, spent>>

\* isabelle_terminate tests for a process, then waits for the lock.
Terminate(c) ==
  /\ Enters(c) /\ process # 0
  /\ Goto(c, "doomed")
  /\ UNCHANGED <<proverVars, clientVars, table, lock, histVars>>

\* The lock is free for isabelle_terminate or the catastrophe handler.
TeardownStarts(c) ==
  /\ At(c, "doomed") /\ lock = Nobody
  /\ lock' = c /\ Goto(c, "closing")
  /\ UNCHANGED <<proverVars, clientVars, table, histVars, spent>>

Spawns(c) ==
  /\ At(c, "spawn") /\ spent.starts < MaxStarts
  /\ Spend("starts")
  /\ process' = spent.starts + 1
  /\ living' = living \cup {spent.starts + 1}
  /\ shaken' = FALSE
  /\ logic' = call[c].want
  /\ call' = [call EXCEPT ![c].pc = "shake", ![c].process = spent.starts + 1]
  /\ UNCHANGED <<halted, inbox, swept, wire, threads, backlog, table, lock, histVars>>

Shakes(c) ==
  /\ At(c, "shake") /\ Up
  /\ shaken' = TRUE
  /\ Goto(c, "probe")
  /\ UNCHANGED <<proverVars, process, logic, threads, backlog, table, lock, histVars, spent>>

\* The heap probe's verdict is in.
Launched(c) ==
  /\ At(c, "probe")
  /\ Free(c) /\ Done(c)
  /\ UNCHANGED <<proverVars, clientVars, table, histVars, spent>>

\* The handshake or the heap probe fails, or the call is cancelled: the
\* process is killed before anything else can run.
LaunchFails(c) ==
  /\ At(c, "shake") \/ At(c, "probe")
  /\ Up => MoreTrouble
  /\ spent' = [spent EXCEPT !.trouble = @ + IF Up THEN 1 ELSE 0]
  /\ Vanish(process)
  /\ Goto(c, "reap")
  /\ UNCHANGED <<wire, clientVars, table, lock, histVars>>

\* Mutant: the launch fails with the killed process still on the client.
ReapsKept(c) ==
  /\ At(c, "reap")
  /\ Free(c) /\ Finish(c)
  /\ UNCHANGED <<proverVars, clientVars, table, histVars, spent>>

\* It is collected and forgotten.  A cancellation delivered again skips the
\* collection, never the forgetting.
Reaps(c) ==
  /\ At(c, "reap")
  /\ process' = 0
  /\ \/ /\ shaken' = FALSE /\ wire' = <<>> /\ threads' = Running /\ backlog' = <<>>
        /\ table' = TornDown(table)
        /\ UNCHANGED spent
     \/ /\ MoreTrouble /\ Spend("trouble")
        /\ UNCHANGED <<shaken, wire, threads, backlog, table>>
  /\ Free(c) /\ Finish(c)
  /\ UNCHANGED <<living, halted, inbox, swept, logic, histVars>>
-----------------------------------------------------------------------------
(* The client cancels a call at the await it is in.                        *)

CutShort(c) ==
  /\ MoreTrouble /\ Spend("trouble")
  /\ \/ /\ call[c].pc \in {"continue", "evaluating", "returning", "doomed"}
        /\ Finish(c)
        /\ UNCHANGED <<table, lock, histVars>>
     \/ /\ At(c, "report")
        /\ told' = told \cup Mine(c)
        /\ Finish(c)
        /\ UNCHANGED <<table, lock, cut>>
     \/ /\ At(c, "stepping")
        /\ cut' = cut \cup Mine(c)
        /\ Finish(c)
        /\ UNCHANGED <<table, lock, told>>
     \/ /\ At(c, "cancel") \/ At(c, "sweep")
        /\ table' = Withdrawn(table, Mine(c))
        /\ Free(c) /\ Finish(c)
        /\ UNCHANGED histVars
  /\ UNCHANGED <<proverVars, clientVars>>
-----------------------------------------------------------------------------
Init ==
  /\ process = 0 /\ living = {} /\ shaken = FALSE /\ logic = Nobody
  /\ halted = Running /\ inbox = Running /\ swept = {} /\ wire = <<>>
  /\ threads = Running /\ backlog = <<>>
  /\ table = EmptyTable
  /\ lock = Nobody
  /\ call = [c \in Calls |-> Idle]
  /\ told = {} /\ cut = {}
  /\ spent = [halts |-> 0, starts |-> 0, calls |-> 0, trouble |-> 0]

Next ==
  \/ \E t \in Threads : Halt(t) \/ Resume(t)
  \/ Crash
  \/ Receive
  \/ \E c \in Calls :
       \/ Returns(c) \/ Look(c) \/ CutShort(c)
       \/ ContinueStarts(c) \/ ContinueSends(c) \/ ContinueEnds(c)
       \/ StepStarts(c) \/ StepAnswered(c) \/ StepLooks(c) \/ StepStops(c) \/ StepLeaves(c)
       \/ EvaluateRefused(c) \/ Evaluates(c) \/ ReportStarts(c) \/ ReportEnds(c)
       \/ EvaluationEnds(c)
       \/ CancelStarts(c) \/ CancelRetired(c) \/ CancelNothing(c) \/ CancelEnds(c)
       \/ CancelFails(c)
       \/ \E s \in Sessions : LaunchRuns(c, s) \/ LaunchRefused(c, s) \/ LaunchStarts(c, s)
       \/ TeardownEnds(c) \/ Terminate(c) \/ TeardownStarts(c)
       \/ Spawns(c) \/ Shakes(c) \/ Launched(c) \/ LaunchFails(c) \/ Reaps(c)

Spec == Init /\ [][Next]_vars
-----------------------------------------------------------------------------
HitIds == 1..table.seq
Snapshots == [Threads -> 0..MaxHalts]
Endings == {"none", "resumed", "continued", "cancelled", "step left", "terminated"}

TypeOK ==
  /\ process \in 0..MaxStarts /\ living \subseteq 1..MaxStarts
  /\ shaken \in BOOLEAN /\ logic \in Sessions \cup {Nobody}
  /\ {halted, threads} \subseteq Snapshots
  /\ inbox \in [Threads -> Nat] /\ swept \subseteq Threads
  /\ Range(wire) \cup Range(backlog) \subseteq Snapshots
  /\ DOMAIN table.retired = HitIds \ Live /\ Live \subseteq HitIds
  /\ \A h \in Live : table.live[h] \in [thread : Threads, stack : 1..MaxHalts,
                                         stepping : BOOLEAN, ending : Endings]
  /\ Range(table.retired) \subseteq Endings \ {"none"}
  /\ table.notices \subseteq {"new", "ended"} \X HitIds
  /\ lock \in Calls \cup {Nobody}
  /\ \A c \in Calls : Mine(c) \subseteq HitIds /\ call[c].todo \subseteq Mine(c)
  /\ told \cup cut \subseteq HitIds

\* The hit table says what the prover's last push says: once every push is
\* folded, each stopped thread has one live hit with the stack it halted in,
\* and a live hit whose thread is not stopped is being stepped by a call --
\* unless the call that stepped it was cut short.
HitPerHalt ==
  /\ \A g, h \in Live : table.live[g].thread = table.live[h].thread => g = h
  /\ backlog = <<>> =>
       /\ \A t \in Threads : threads[t] # 0 =>
            \E h \in Live : /\ table.live[h].thread = t
                            /\ table.live[h].stack = threads[t]
       /\ \A h \in Live \ cut : threads[table.live[h].thread] = 0 =>
            /\ table.live[h].stepping
            /\ \E c \in Calls : call[c].pc \in {"step", "stepping"} /\ h \in Mine(c)

\* No hit passes the agent by: each was named to it, has its notice queued, or
\* is in a report under way.
EveryHitIsTold ==
  \A h \in HitIds :
    \/ h \in told \cup Announced(table)
    \/ \E c \in Calls : At(c, "report") /\ h \in Mine(c)

\* Whoever finds the lock free finds a settled session: no process but the
\* client's own is alive, that one has completed its handshake, and without a
\* process there are no hits.
SettledWhenFree ==
  lock = Nobody =>
    /\ living \subseteq {process}
    /\ process # 0 => shaken
    /\ process = 0 => Live = {} /\ backlog = <<>>
=============================================================================
