----------------------- MODULE DebuggerAdapterProofs -----------------------
(***************************************************************************)
(* The debugger adapter, for every number of threads and calls.            *)
(*                                                                         *)
(* The inductive invariant follows one evaluation: where it is on its way  *)
(* (Stages), what the adapter's tables say of it (Tables), what the prover *)
(* has at hand for its thread (Ones), in which order the prover's messages *)
(* about a thread come (Marks, Gone), what was printed for it (Prints,     *)
(* SaidOwn), and what its caller is told (Told, Waited).  Owner, whose     *)
(* work a thread does, is what the adapter's and the prover's side agree   *)
(* on.                                                                     *)
(***************************************************************************)
EXTENDS DebuggerAdapter, DataLemmas, FiniteSetTheorems

-----------------------------------------------------------------------------
(* Types.                                                                  *)

UpMessages == [kind : {"eval"}, call : Evals] \cup [kind : {"resume"}, call : Resumes]
              \cup [kind : {"abort"}, call : Aborts]
Closures   == [kind : {"start", "backstop"}, call : Evals]
Notices    == [kind : {"state"}, stopped : SUBSET Threads]
Answers    == [kind : {"reply"}, call : Evals, status : Statuses]
Acks       == [kind : {"reply"}, call : Aborts, status : {"aborting", "no_evaluation"}]
DownMessages == Notices \cup Answers \cup Acks
Halts      == [kind : {"state"}, thread : Threads, on : BOOLEAN, of : Evals \cup {NoCall}]
Outputs    == [kind : {"output"}, thread : Threads, of : Evals]
OutMessages == Halts \cup Outputs \cup {ExitMark}

Queues == /\ up \in Seq(UpMessages) /\ posted \in Seq(Closures)
          /\ down \in Seq(DownMessages) /\ out \in Seq(OutMessages)
Callers == /\ pc \in [Calls -> {"idle", "sent", "done", "asked", "watch"}]
           /\ \A c \in Calls : pc[c] = "sent" => c \in Evals
           /\ target \in [Aborts -> Evals \cup {NoCall}]
           /\ view \subseteq Threads /\ task \in [Threads -> Evals \cup {NoCall}]
Adapter == /\ pending \in [Threads -> Evals \cup {NoCall}]
           /\ gathered \in [Threads -> SUBSET Evals]
           /\ debt \in [Threads -> 0 .. 1] /\ threads \subseteq Threads
           /\ timer \in [Evals -> {"off", "armed", "fired"}]
Prover  == /\ alive \in BOOLEAN /\ at \in [Threads -> {"away", "stopped"} \cup Evals]
           /\ inputs \in [Threads -> Seq(Evals \cup Resumes)]
           /\ stops \in [Threads -> 0 .. MaxStops]
History == /\ answer \in [Evals -> Statuses \cup {""}] /\ said \in [Evals -> SUBSET Evals]
           /\ owed \in [Threads -> Evals \cup {NoCall}] /\ astray \subseteq Threads

Typed == Queues /\ Callers /\ Adapter /\ Prover /\ History

LEMMA Widened == ASSUME NEW S, NEW T, S \subseteq T, NEW q \in Seq(S) PROVE q \in Seq(T)
OBVIOUS

LEMMA TypedIsTypeOK == Typed => TypeOK
<1> SUFFICES ASSUME Typed PROVE TypeOK OBVIOUS
<1>1. up \in Seq([kind : {"eval", "resume", "abort"}, call : Calls])
  <2>1. UpMessages \subseteq [kind : {"eval", "resume", "abort"}, call : Calls]
    BY DEF UpMessages, Calls
  <2> HIDE DEF UpMessages
  <2>2. up \in Seq(UpMessages) BY DEF Typed, Queues
  <2> QED BY <2>1, <2>2, Widened
<1>2. posted \in Seq([kind : {"start", "backstop"}, call : Evals])
  BY DEF Typed, Queues, Closures
<1>3. \A i \in DOMAIN down : down[i].kind \in {"state", "reply"}
  <2>1. \A m \in DownMessages : m.kind \in {"state", "reply"}
    BY DEF DownMessages, Notices, Answers, Acks
  <2> QED BY <2>1 DEF Typed, Queues
<1>4. \A i \in DOMAIN out : out[i].kind \in {"state", "output", "exit"}
  <2>1. \A m \in OutMessages : m.kind \in {"state", "output", "exit"}
    BY DEF OutMessages, Halts, Outputs, ExitMark
  <2> QED BY <2>1 DEF Typed, Queues
<1> QED BY <1>1, <1>2, <1>3, <1>4, Zenon DEF TypeOK, Typed, Callers, Adapter, Prover, History

LEMMA InitTyped == Init => Typed
<1> SUFFICES ASSUME Init PROVE Typed OBVIOUS
<1>1. Queues
  <2>1. up = <<>> /\ down = <<>> /\ posted = <<>> /\ out = <<>> BY Zenon DEF Init
  <2> HIDE DEF UpMessages, DownMessages, Closures, OutMessages
  <2> QED BY <2>1 DEF Queues
<1>2. Callers BY DEF Init, Callers
<1>3. Adapter
  <2>1. /\ pending = [t \in Threads |-> NoCall] /\ gathered = [t \in Threads |-> {}]
        /\ debt = [t \in Threads |-> 0] /\ threads = {} /\ timer = [c \in Evals |-> "off"]
    BY Zenon DEF Init
  <2>2. gathered \in [Threads -> SUBSET Evals] BY <2>1
  <2>3. debt \in [Threads -> 0 .. 1] BY <2>1
  <2> QED BY <2>1, <2>2, <2>3 DEF Adapter
<1>4. Prover
  <2>1. /\ alive = TRUE /\ at = [t \in Threads |-> "away"]
        /\ inputs = [t \in Threads |-> <<>>] /\ stops = [t \in Threads |-> 0]
    BY Zenon DEF Init
  <2>2. inputs \in [Threads -> Seq(Evals \cup Resumes)] BY <2>1
  <2>3. stops \in [Threads -> 0 .. MaxStops] BY <2>1, BoundsGiven
  <2>4. at \in [Threads -> {"away", "stopped"} \cup Evals] /\ alive \in BOOLEAN BY <2>1
  <2> QED BY <2>2, <2>3, <2>4 DEF Prover
<1>5. History BY DEF Init, History
<1> QED BY <1>1, <1>2, <1>3, <1>4, <1>5 DEF Typed

-----------------------------------------------------------------------------
(* Frames: what the steps of a process leave alone.                        *)

LEMMA CallerFrame == CallerSteps => UNCHANGED <<posted, adapter, prover, out, history>>
BY Zenon DEF CallerSteps, EvalStarts, EvalDropped, ResumeStarts, AbortStarts, AbortAgain, AbortAsks,
  AbortEnds, ClientReadsState, ClientReadsReply

LEMMA AdapterFrame == AdapterSteps => UNCHANGED callers
BY Zenon DEF AdapterSteps, MainReadsEval, MainReadsResume, MainReadsAbort, RunsPosted, TimerFires,
  TakesState, TakesOutput, TakesExit

LEMMA ProverFrame ==
  ProverSteps => UNCHANGED <<callers, up, down, posted, adapter, answer, said, owed>>
<1>1. ASSUME NEW t \in Threads, Stops(t) \/ TakesEval(t) \/ Finishes(t)
      PROVE UNCHANGED <<callers, up, down, posted, adapter, history>>
  BY <1>1, Zenon DEF Stops, TakesEval, Finishes
<1>2. ASSUME NEW t \in Threads, TakesResume(t) \/ Interrupted(t)
      PROVE UNCHANGED <<callers, up, down, posted, adapter, answer, said, owed>>
  BY <1>2, Zenon DEF TakesResume, Interrupted
<1>3. ProverExits => UNCHANGED <<callers, up, down, posted, adapter, history>>
  BY Zenon DEF ProverExits
<1> QED BY <1>1, <1>2, <1>3 DEF ProverSteps, history

-----------------------------------------------------------------------------
(* Sequences made of sets.                                                 *)

LEMMA Listed ==
  ASSUME NEW S, IsFiniteSet(S)
  PROVE  /\ SetToSeq(S) \in Seq(S)
         /\ \A x \in S : \E i \in 1 .. Len(SetToSeq(S)) : SetToSeq(S)[i] = x
<1> DEFINE n == Cardinality(S)
           q == SetToSeq(S)
<1>1. n \in Nat /\ ExistsBijection(1 .. n, S) BY FS_CardinalityType
<1>2. \E f \in [1 .. n -> S] : IsInjective(f)
  BY <1>1 DEF ExistsBijection, Bijection, Injection, IsInjective
<1>3. q \in [1 .. n -> S] /\ IsInjective(q) BY <1>2 DEF SetToSeq
<1> HIDE DEF q
<1>4. q \in Injection(1 .. n, S) BY <1>3 DEF Injection, IsInjective
<1>5. IsFiniteSet(1 .. n) /\ Cardinality(1 .. n) = n BY <1>1, FS_Interval
<1>6. q \in Surjection(1 .. n, S) BY <1>4, <1>5, FS_Injection
<1>7. \A x \in S : \E i \in 1 .. n : q[i] = x BY <1>6 DEF Surjection
<1>8. q \in Seq(S) /\ Len(q) = n BY <1>1, <1>3
<1> QED BY <1>7, <1>8 DEF q

LEMMA MessagesGiven ==
  /\ \A S \in SUBSET Threads : State(S) \in Notices
  /\ \A c \in Evals : \A s \in Statuses : Reply(c, s) \in Answers
  /\ \A a \in Aborts : Reply(a, "aborting") \in Acks /\ Reply(a, "no_evaluation") \in Acks
  /\ \A c \in Evals : Request("eval", c) \in UpMessages
  /\ \A c \in Resumes : Request("resume", c) \in UpMessages
  /\ \A c \in Aborts : Request("abort", c) \in UpMessages
  /\ \A c \in Evals : Request("start", c) \in Closures /\ Request("backstop", c) \in Closures
  /\ \A t \in Threads : \A on \in BOOLEAN : \A c \in Evals \cup {NoCall} : Halted(t, on, c) \in Halts
  /\ \A t \in Threads : \A c \in Evals : Printed(t, c) \in Outputs
  /\ Notices \subseteq DownMessages /\ Answers \subseteq DownMessages /\ Acks \subseteq DownMessages
  /\ Halts \subseteq OutMessages /\ Outputs \subseteq OutMessages /\ ExitMark \in OutMessages
<1>1. \A S \in SUBSET Threads : State(S) \in Notices BY DEF State, Notices
<1>2. \A c \in Evals : \A s \in Statuses : Reply(c, s) \in Answers BY DEF Reply, Answers
<1>3. \A a \in Aborts : Reply(a, "aborting") \in Acks /\ Reply(a, "no_evaluation") \in Acks
  BY DEF Reply, Acks
<1>4. /\ \A c \in Evals : Request("eval", c) \in UpMessages
      /\ \A c \in Resumes : Request("resume", c) \in UpMessages
      /\ \A c \in Aborts : Request("abort", c) \in UpMessages
  BY DEF Request, UpMessages
<1>5. \A c \in Evals : Request("start", c) \in Closures /\ Request("backstop", c) \in Closures
  BY DEF Request, Closures
<1>6. \A t \in Threads : \A on \in BOOLEAN : \A c \in Evals \cup {NoCall} :
        Halted(t, on, c) \in Halts
  BY DEF Halted, Halts
<1>7. \A t \in Threads : \A c \in Evals : Printed(t, c) \in Outputs BY DEF Printed, Outputs
<1>8. Notices \subseteq DownMessages /\ Answers \subseteq DownMessages /\ Acks \subseteq DownMessages
  BY Zenon DEF DownMessages
<1>9. Halts \subseteq OutMessages /\ Outputs \subseteq OutMessages /\ ExitMark \in OutMessages
  BY Zenon DEF OutMessages
<1> QED BY <1>1, <1>2, <1>3, <1>4, <1>5, <1>6, <1>7, <1>8, <1>9, Zenon

\* What the head of each queue can be.
LEMMA HeadsGiven ==
  ASSUME Typed
  PROVE  /\ up # <<>> =>
              /\ Head(up) \in UpMessages
              /\ Head(up).kind = "eval" => Head(up) = Request("eval", Head(up).call) /\ Head(up).call \in Evals
              /\ Head(up).kind = "resume" => Head(up).call \in Resumes
              /\ Head(up).kind = "abort" => Head(up).call \in Aborts
         /\ posted # <<>> =>
              /\ Head(posted).call \in Evals
              /\ Head(posted) = Request(Head(posted).kind, Head(posted).call)
         /\ down # <<>> =>
              /\ Head(down).kind = "state" => Head(down).stopped \subseteq Threads
              /\ Head(down).kind = "reply" =>
                   \/ Head(down).call \in Aborts
                   \/ /\ Head(down).call \in Evals /\ Head(down).status \in Statuses
         /\ out # <<>> =>
              /\ Head(out).kind = "state" => Head(out) \in Halts
              /\ Head(out).kind = "output" => Head(out) \in Outputs
<1>1. ASSUME up # <<>>
      PROVE  /\ Head(up) \in UpMessages
             /\ Head(up).kind = "eval" =>
                  Head(up) = Request("eval", Head(up).call) /\ Head(up).call \in Evals
             /\ Head(up).kind = "resume" => Head(up).call \in Resumes
             /\ Head(up).kind = "abort" => Head(up).call \in Aborts
  <2>1. \A m \in UpMessages :
          /\ m.kind = "eval" => m = Request("eval", m.call) /\ m.call \in Evals
          /\ m.kind = "resume" => m.call \in Resumes
          /\ m.kind = "abort" => m.call \in Aborts
    BY DEF UpMessages, Request
  <2>2. Head(up) \in UpMessages BY <1>1, Shifted DEF Typed, Queues
  <2> QED BY <2>1, <2>2
<1>2. ASSUME posted # <<>>
      PROVE  /\ Head(posted).call \in Evals
             /\ Head(posted) = Request(Head(posted).kind, Head(posted).call)
  <2>1. \A m \in Closures : m.call \in Evals /\ m = Request(m.kind, m.call) BY DEF Closures, Request
  <2>2. Head(posted) \in Closures BY <1>2, Shifted DEF Typed, Queues
  <2> QED BY <2>1, <2>2
<1>3. ASSUME down # <<>>
      PROVE  /\ Head(down).kind = "state" => Head(down).stopped \subseteq Threads
             /\ Head(down).kind = "reply" =>
                  \/ Head(down).call \in Aborts
                  \/ /\ Head(down).call \in Evals /\ Head(down).status \in Statuses
  <2>1. \A m \in DownMessages :
          /\ m.kind = "state" => m.stopped \subseteq Threads
          /\ m.kind = "reply" => m.call \in Aborts \/ (m.call \in Evals /\ m.status \in Statuses)
    <3>1. \A m \in Notices : m.kind = "state" /\ m.stopped \subseteq Threads BY DEF Notices
    <3>2. \A m \in Answers : m.kind = "reply" /\ m.call \in Evals /\ m.status \in Statuses
      BY DEF Answers
    <3>3. \A m \in Acks : m.kind = "reply" /\ m.call \in Aborts BY DEF Acks
    <3> QED BY <3>1, <3>2, <3>3 DEF DownMessages
  <2>2. Head(down) \in DownMessages BY <1>3, Shifted DEF Typed, Queues
  <2> QED BY <2>1, <2>2
<1>4. ASSUME out # <<>>
      PROVE  /\ Head(out).kind = "state" => Head(out) \in Halts
             /\ Head(out).kind = "output" => Head(out) \in Outputs
  <2>1. \A m \in OutMessages : /\ m.kind = "state" => m \in Halts
                               /\ m.kind = "output" => m \in Outputs
    BY DEF OutMessages, Halts, Outputs, ExitMark
  <2>2. Head(out) \in OutMessages BY <1>4, Shifted DEF Typed, Queues
  <2> QED BY <2>1, <2>2
<1> QED BY <1>1, <1>2, <1>3, <1>4

LEMMA HaltGiven ==
  ASSUME NEW m \in Halts
  PROVE  /\ m.thread \in Threads /\ m.of \in Evals \cup {NoCall} /\ m.on \in BOOLEAN
         /\ m.kind = "state" /\ m = Halted(m.thread, m.on, m.of)
BY DEF Halts, Halted

LEMMA CallsApart ==
  /\ OnThread \in [Calls -> Threads] /\ Evals \subseteq Calls /\ Aborts \subseteq Calls
  /\ Resumes \subseteq Calls /\ Evals \cap Aborts = {} /\ Evals \cap Resumes = {}
  /\ Aborts \cap Resumes = {}
  /\ NoCall \notin Calls /\ "away" \notin Evals /\ "stopped" \notin Evals
  /\ \A c \in Calls : OnThread[c] \in Threads
BY CallsGiven DEF Calls

-----------------------------------------------------------------------------
(* Types are kept: the callers.                                            *)

LEMMA CallerTyped == ASSUME Typed, CallerSteps PROVE Typed'
<1>0. UNCHANGED <<posted, adapter, prover, out, history>> BY CallerFrame
<1>1. Adapter' /\ Prover' /\ History' /\ posted' \in Seq(Closures) /\ out' \in Seq(OutMessages)
  BY <1>0 DEF Typed, Adapter, Prover, History, Queues, adapter, prover, history
<1>2. /\ up \in Seq(UpMessages) /\ down \in Seq(DownMessages)
      /\ pc \in [Calls -> {"idle", "sent", "done", "asked", "watch"}]
      /\ \A c \in Calls : pc[c] = "sent" => c \in Evals
      /\ target \in [Aborts -> Evals \cup {NoCall}] /\ view \subseteq Threads
      /\ task \in [Threads -> Evals \cup {NoCall}]
  BY DEF Typed, Queues, Callers
<1> SUFFICES Callers' /\ up' \in Seq(UpMessages) /\ down' \in Seq(DownMessages)
  BY <1>1 DEF Typed, Queues
<1> USE CallsApart
<1>3. ASSUME NEW c \in Evals, EvalStarts(c)
      PROVE  Callers' /\ up' \in Seq(UpMessages) /\ down' \in Seq(DownMessages)
  <2>1. up' \in Seq(UpMessages)
    BY <1>2, <1>3, MessagesGiven, Appended DEF EvalStarts, Sends
  <2>2. /\ pc' = [pc EXCEPT ![c] = "sent"] /\ task' = [task EXCEPT ![OnThread[c]] = c]
        /\ UNCHANGED <<target, view, down>>
    BY <1>3, Zenon DEF EvalStarts
  <2> QED BY <1>2, <2>1, <2>2 DEF Callers
<1>4. ASSUME NEW c \in Evals, EvalDropped(c)
      PROVE  Callers' /\ up' \in Seq(UpMessages) /\ down' \in Seq(DownMessages)
  BY <1>2, <1>4 DEF EvalDropped, TaskDone, Callers
<1>5. ASSUME NEW r \in Resumes, ResumeStarts(r)
      PROVE  Callers' /\ up' \in Seq(UpMessages) /\ down' \in Seq(DownMessages)
  <2>1. up' \in Seq(UpMessages)
    BY <1>2, <1>5, MessagesGiven, Appended DEF ResumeStarts, Sends
  <2>2. pc' = [pc EXCEPT ![r] = "done"] /\ UNCHANGED <<target, view, task, down>>
    BY <1>5, Zenon DEF ResumeStarts
  <2> QED BY <1>2, <2>1, <2>2 DEF Callers
<1>6. ASSUME NEW a \in Aborts, AbortStarts(a) \/ AbortAgain(a)
      PROVE  Callers' /\ up' \in Seq(UpMessages) /\ down' \in Seq(DownMessages)
  <2>1. AbortAsks(a) BY <1>6 DEF AbortStarts, AbortAgain
  <2>2. up' \in Seq(UpMessages) BY <1>2, <2>1, MessagesGiven, Appended DEF AbortAsks, Sends
  <2>3. pc' = [pc EXCEPT ![a] = "asked"] /\ UNCHANGED <<view, task, down>>
    BY <2>1, Zenon DEF AbortAsks
  <2>4. target' = [target EXCEPT ![a] = task[OnThread[a]]] \/ target' = target
    BY <1>6, Zenon DEF AbortStarts, AbortAgain
  <2>5. task[OnThread[a]] \in Evals \cup {NoCall} BY <1>2
  <2>6. target' \in [Aborts -> Evals \cup {NoCall}] BY <1>2, <2>4, <2>5
  <2> QED BY <1>2, <2>2, <2>3, <2>6 DEF Callers
<1>7. ASSUME NEW a \in Aborts, AbortEnds(a)
      PROVE  Callers' /\ up' \in Seq(UpMessages) /\ down' \in Seq(DownMessages)
  BY <1>2, <1>7 DEF AbortEnds, AbortDone, Callers
<1>8. CASE ClientReadsState
  <2>1. down # <<>> /\ down' = Tail(down) /\ view' = Head(down).stopped /\ Head(down).kind = "state"
        /\ task' = [t \in Threads |-> IF t \in view' THEN task[t] ELSE NoCall]
        /\ UNCHANGED <<pc, target, up>>
    BY <1>8, Zenon DEF ClientReadsState
  <2>2. view' \subseteq Threads BY <2>1, HeadsGiven
  <2>3. down' \in Seq(DownMessages) BY <2>1, <1>2, Shifted
  <2> QED BY <1>2, <2>1, <2>2, <2>3 DEF Callers
<1>9. CASE ClientReadsReply
  <2>1. down # <<>> /\ down' = Tail(down) /\ Head(down).kind = "reply"
        /\ UNCHANGED <<view, up>>
    BY <1>9, Zenon DEF ClientReadsReply
  <2>2. down' \in Seq(DownMessages) BY <2>1, <1>2, Shifted
  <2> DEFINE c == Head(down).call
  <2>3. c \in Calls BY <2>1, HeadsGiven
  <2>4. CASE Head(down).status = "aborting"
    <3>1. pc' = [pc EXCEPT ![c] = "watch"] /\ UNCHANGED <<target, task>>
      BY <1>9, <2>4 DEF ClientReadsReply
    <3> HIDE DEF c
    <3> QED BY <1>2, <2>1, <2>2, <2>3, <3>1 DEF Callers
  <2>5. CASE c \in Aborts /\ Head(down).status # "aborting"
    <3>1. pc' = [pc EXCEPT ![c] = "done"] /\ target' = [target EXCEPT ![c] = NoCall]
          /\ UNCHANGED task
      BY <1>9, <2>5 DEF ClientReadsReply, AbortDone
    <3> HIDE DEF c
    <3> QED BY <1>2, <2>1, <2>2, <2>3, <3>1 DEF Callers
  <2>6. CASE c \notin Aborts /\ Head(down).status # "aborting"
    <3>1. pc' = [pc EXCEPT ![c] = "done"] /\ UNCHANGED target
          /\ task' = [t \in Threads |-> IF task[t] = c THEN NoCall ELSE task[t]]
      BY <1>9, <2>6 DEF ClientReadsReply, TaskDone
    <3> HIDE DEF c
    <3> QED BY <1>2, <2>1, <2>2, <2>3, <3>1 DEF Callers
  <2> QED BY <2>4, <2>5, <2>6
<1> QED BY <1>3, <1>4, <1>5, <1>6, <1>7, <1>8, <1>9 DEF CallerSteps

-----------------------------------------------------------------------------
(* Types are kept: the adapter and the prover.                             *)

\* A thread with a pending request owes nothing.
Single == \A t \in Threads : pending[t] # NoCall => debt[t] = 0

LEMMA Responding ==
  ASSUME Typed, NEW c \in Evals, NEW s \in Statuses, NEW texts \in SUBSET Evals,
         NEW ms \in Seq(Notices), Respond(c, s, texts, ms)
  PROVE  /\ down' \in Seq(DownMessages)
         /\ answer' \in [Evals -> Statuses \cup {""}] /\ said' \in [Evals -> SUBSET Evals]
         /\ Append(ms, Reply(c, s)) \in Seq(DownMessages)
         /\ down' = down \o Append(ms, Reply(c, s))
<1>1. Reply(c, s) \in DownMessages BY MessagesGiven
<1>2. ms \in Seq(DownMessages)
  <2> HIDE DEF Notices, DownMessages
  <2> QED BY MessagesGiven, Widened
<1>3. Append(ms, Reply(c, s)) \in Seq(DownMessages) BY <1>1, <1>2, Appended
<1>4. down' = down \o Append(ms, Reply(c, s)) BY DEF Respond
<1>5. down' \in Seq(DownMessages) BY <1>3, <1>4, Joined DEF Typed, Queues
<1>6. answer' = [answer EXCEPT ![c] = s] /\ said' = [said EXCEPT ![c] = texts]
  BY Zenon DEF Respond
<1>7. answer \in [Evals -> Statuses \cup {""}] /\ said \in [Evals -> SUBSET Evals]
  BY DEF Typed, History
<1> QED BY <1>3, <1>4, <1>5, <1>6, <1>7

LEMMA Fed ==
  ASSUME Typed, NEW t \in Threads, NEW i \in Evals \cup Resumes, Feed(t, i)
  PROVE  Prover' /\ astray' \subseteq Threads /\ astray \subseteq astray'
<1>1. /\ inputs \in [Threads -> Seq(Evals \cup Resumes)] /\ astray \subseteq Threads
      /\ inputs' = IF alive THEN [inputs EXCEPT ![t] = Append(inputs[t], i)] ELSE inputs
      /\ astray' = IF alive /\ i \in Evals /\ LeftStop(t) THEN astray \cup {t} ELSE astray
      /\ UNCHANGED <<alive, at, stops>>
  BY DEF Feed, Typed, Prover, History
<1>2. Append(inputs[t], i) \in Seq(Evals \cup Resumes) BY <1>1
<1>3. inputs' \in [Threads -> Seq(Evals \cup Resumes)] BY <1>1, <1>2
<1>4. Prover' BY <1>1, <1>3 DEF Typed, Prover
<1> QED BY <1>1, <1>4

\* What a closure run by the dispatcher does.
LEMMA PostedSteps ==
  ASSUME Typed, RunsPosted
  PROVE  /\ posted # <<>> /\ posted' = Tail(posted) /\ UNCHANGED <<callers, up, out>>
         /\ \E c \in Evals :
              /\ \/ Head(posted) = Request("start", c) /\ StartEval(c)
                 \/ Head(posted) = Request("backstop", c) /\ Backstop(c)
<1>1. posted # <<>> /\ posted' = Tail(posted) /\ UNCHANGED <<callers, up, out>>
  BY Zenon DEF RunsPosted
<1>2. \/ Head(posted).kind = "start" /\ StartEval(Head(posted).call)
      \/ Head(posted).kind = "backstop" /\ Backstop(Head(posted).call)
  BY Zenon DEF RunsPosted
<1> QED BY <1>1, <1>2, HeadsGiven

LEMMA StartTyped ==
  ASSUME Typed, NEW c \in Evals, StartEval(c)
  PROVE  Adapter' /\ Prover' /\ History' /\ down' \in Seq(DownMessages)
<1> USE CallsApart
<1>1. CASE StartRefused(c)
  <2>1. UNCHANGED <<adapter, prover, owed, astray>> BY <1>1, Zenon DEF StartRefused
  <2>2. PICK s \in Statuses : Respond(c, s, {}, <<>>)
    BY <1>1 DEF StartRefused, Statuses
  <2>3. <<>> \in Seq(Notices)
    <3> HIDE DEF Notices
    <3> QED OBVIOUS
  <2>4. /\ down' \in Seq(DownMessages) /\ answer' \in [Evals -> Statuses \cup {""}]
        /\ said' \in [Evals -> SUBSET Evals]
    BY <2>2, <2>3, Responding
  <2>5. Adapter' /\ Prover' BY <2>1 DEF Typed, Adapter, Prover, adapter, prover
  <2>6. History' BY <2>1, <2>4 DEF Typed, History
  <2> QED BY <2>4, <2>5, <2>6
<1>2. CASE StartAccepted(c)
  <2>1. /\ pending' = [pending EXCEPT ![OnThread[c]] = c] /\ timer' = [timer EXCEPT ![c] = "armed"]
        /\ Feed(OnThread[c], c) /\ UNCHANGED <<gathered, debt, threads, down, answer, said, owed>>
    BY <1>2, Zenon DEF StartAccepted
  <2>2. Prover' /\ astray' \subseteq Threads BY <2>1, Fed
  <2>3. Adapter' BY <2>1 DEF Typed, Adapter
  <2>4. History' BY <2>1, <2>2 DEF Typed, History
  <2>5. down' \in Seq(DownMessages) BY <2>1 DEF Typed, Queues
  <2> QED BY <2>2, <2>3, <2>4, <2>5
<1> QED BY <1>1, <1>2 DEF StartEval

LEMMA BackstopTyped ==
  ASSUME Typed, Single, NEW c \in Evals, Backstop(c)
  PROVE  Adapter' /\ Prover' /\ History' /\ down' \in Seq(DownMessages)
<1> USE CallsApart
<1> DEFINE t == OnThread[c]
<1>1. t \in Threads OBVIOUS
<1>2. UNCHANGED <<threads, timer, prover, astray>> BY Zenon DEF Backstop
<1>3. Prover' BY <1>2 DEF Typed, Prover, prover
<1>4. CASE pending[t] = c
  <2>1. /\ pending' = [pending EXCEPT ![t] = NoCall] /\ debt' = [debt EXCEPT ![t] = debt[t] + 1]
        /\ owed' = [owed EXCEPT ![t] = c] /\ gathered' = [gathered EXCEPT ![t] = {}]
        /\ Respond(c, "timeout", gathered[t], <<>>)
    BY <1>4 DEF Backstop
  <2>2. debt[t] = 0 BY <1>4 DEF Single
  <2>3. gathered[t] \in SUBSET Evals BY DEF Typed, Adapter
  <2>4. "timeout" \in Statuses BY DEF Statuses
  <2>5. <<>> \in Seq(Notices)
    <3> HIDE DEF Notices
    <3> QED OBVIOUS
  <2> HIDE DEF t
  <2>6. /\ down' \in Seq(DownMessages) /\ answer' \in [Evals -> Statuses \cup {""}]
        /\ said' \in [Evals -> SUBSET Evals]
    BY <2>1, <2>3, <2>4, <2>5, Responding
  <2>7. Adapter' BY <1>1, <1>2, <2>1, <2>2 DEF Typed, Adapter
  <2>8. History' BY <1>1, <1>2, <2>1, <2>6 DEF Typed, History
  <2> QED BY <1>3, <2>6, <2>7, <2>8
<1>5. CASE pending[t] # c
  <2>1. UNCHANGED <<pending, debt, owed, gathered, answer, said, down>> BY <1>5 DEF Backstop
  <2> QED BY <1>2, <1>3, <2>1 DEF Typed, Adapter, History, Queues
<1> QED BY <1>4, <1>5

\* What the dispatcher does with a state.
StateTaken(t, on) ==
  /\ t \in Threads /\ on \in BOOLEAN
  /\ threads' = IF on THEN threads \cup {t} ELSE threads \ {t}
  /\ pending' = [pending EXCEPT ![t] = NoCall]
  /\ gathered' = [gathered EXCEPT ![t] = {}]
  /\ \/ /\ pending[t] # NoCall /\ pending[t] \in Evals
        /\ timer' = Cancelled({pending[t]})
        /\ Respond(pending[t], IF on THEN "ok" ELSE "resumed", gathered[t], <<State(threads')>>)
        /\ UNCHANGED <<debt, owed>>
     \/ /\ pending[t] = NoCall
        /\ debt' = [debt EXCEPT ![t] = 0]
        /\ owed' = [owed EXCEPT ![t] = NoCall]
        /\ down' = Append(down, State(threads'))
        /\ UNCHANGED <<timer, answer, said>>
  /\ UNCHANGED <<callers, up, posted, prover, astray>>

LEMMA StateSteps ==
  ASSUME Typed, TakesState
  PROVE  /\ out # <<>> /\ out' = Tail(out) /\ Head(out) \in Halts
         /\ StateTaken(Head(out).thread, Head(out).on)
<1> DEFINE m == Head(out)
           t == m.thread
<1>1. out # <<>> /\ Head(out).kind = "state" /\ out' = Tail(out) BY Zenon DEF TakesState
<1>2. m \in Halts BY <1>1, HeadsGiven
<1>3. t \in Threads /\ m.on \in BOOLEAN BY <1>2, HaltGiven
<1>4. /\ threads' = IF m.on THEN threads \cup {t} ELSE threads \ {t}
      /\ pending' = [pending EXCEPT ![t] = NoCall]
      /\ gathered' = [gathered EXCEPT ![t] = {}]
      /\ UNCHANGED <<callers, up, posted, prover, astray>>
  BY Zenon DEF TakesState
<1>5. CASE pending[t] # NoCall
  <2>1. /\ timer' = Cancelled({pending[t]})
        /\ Respond(pending[t], IF m.on THEN "ok" ELSE "resumed", gathered[t], <<State(threads')>>)
        /\ UNCHANGED <<debt, owed>>
    BY <1>5, Zenon DEF TakesState
  <2>2. pending[t] \in Evals BY <1>3, <1>5 DEF Typed, Adapter
  <2> HIDE DEF m
  <2> QED BY <1>1, <1>2, <1>3, <1>4, <1>5, <2>1, <2>2, Zenon DEF StateTaken, m
<1>6. CASE pending[t] = NoCall
  <2>1. /\ debt' = DebtPaid(t)
        /\ owed' = [owed EXCEPT ![t] = IF debt'[t] > 0 THEN owed[t] ELSE NoCall]
        /\ down' = Append(down, State(threads'))
        /\ UNCHANGED <<timer, answer, said>>
    BY <1>6, Zenon DEF TakesState
  <2>2. debt[t] \in 0 .. 1 /\ debt \in [Threads -> 0 .. 1] BY <1>3 DEF Typed, Adapter
  <2> HIDE DEF t
  <2>3. debt' = [debt EXCEPT ![t] = 0]
    <3>1. (IF debt[t] > 0 THEN debt[t] - 1 ELSE 0) = 0 BY <2>2
    <3> QED BY <3>1, <2>1, Zenon DEF DebtPaid
  <2>4. owed' = [owed EXCEPT ![t] = NoCall]
    <3>1. debt'[t] = 0 BY <2>2, <2>3, <1>3
    <3>2. ~(debt'[t] > 0) BY <3>1
    <3> QED BY <2>1, <3>2
  <2> QED BY <1>1, <1>2, <1>3, <1>4, <1>6, <2>1, <2>3, <2>4, Zenon DEF StateTaken, t
<1> QED BY <1>5, <1>6

LEMMA CancelledGiven ==
  ASSUME Typed, NEW cs
  PROVE  /\ Cancelled(cs) \in [Evals -> {"off", "armed", "fired"}]
         /\ \A c \in Evals : /\ Cancelled(cs)[c] = "fired" <=> timer[c] = "fired"
                             /\ timer[c] = "off" => Cancelled(cs)[c] = "off"
                             /\ c \notin cs => Cancelled(cs)[c] = timer[c]
<1>1. timer \in [Evals -> {"off", "armed", "fired"}] BY DEF Typed, Adapter
<1> QED BY <1>1 DEF Cancelled

LEMMA StateTyped ==
  ASSUME Typed, NEW t, NEW on, StateTaken(t, on)
  PROVE  Adapter' /\ Prover' /\ History' /\ down' \in Seq(DownMessages)
<1>1. /\ t \in Threads /\ on \in BOOLEAN
      /\ threads' = IF on THEN threads \cup {t} ELSE threads \ {t}
      /\ pending' = [pending EXCEPT ![t] = NoCall]
      /\ gathered' = [gathered EXCEPT ![t] = {}]
      /\ UNCHANGED <<callers, up, posted, prover, astray>>
  BY Zenon DEF StateTaken
<1>2. threads' \subseteq Threads BY <1>1 DEF Typed, Adapter
<1>3. State(threads') \in Notices /\ State(threads') \in DownMessages BY <1>2, MessagesGiven
<1>4. Prover' BY <1>1 DEF Typed, Prover, prover
<1>5. /\ pending \in [Threads -> Evals \cup {NoCall}] /\ gathered \in [Threads -> SUBSET Evals]
      /\ debt \in [Threads -> 0 .. 1] /\ timer \in [Evals -> {"off", "armed", "fired"}]
      /\ answer \in [Evals -> Statuses \cup {""}] /\ said \in [Evals -> SUBSET Evals]
      /\ owed \in [Threads -> Evals \cup {NoCall}] /\ astray \subseteq Threads
  BY DEF Typed, Adapter, History
<1>6. CASE pending[t] # NoCall
  <2>1. /\ pending[t] \in Evals /\ timer' = Cancelled({pending[t]}) /\ UNCHANGED <<debt, owed>>
        /\ Respond(pending[t], IF on THEN "ok" ELSE "resumed", gathered[t], <<State(threads')>>)
    BY <1>6, Zenon DEF StateTaken
  <2>2. (IF on THEN "ok" ELSE "resumed") \in Statuses BY DEF Statuses
  <2>3. <<State(threads')>> \in Seq(Notices)
    <3> HIDE DEF Notices
    <3> QED BY <1>3
  <2>4. gathered[t] \in SUBSET Evals BY <1>1, <1>5
  <2>5. /\ down' \in Seq(DownMessages) /\ answer' \in [Evals -> Statuses \cup {""}]
        /\ said' \in [Evals -> SUBSET Evals]
    BY <2>1, <2>2, <2>3, <2>4, Responding
  <2>6. timer' \in [Evals -> {"off", "armed", "fired"}] BY <2>1, CancelledGiven
  <2>7. Adapter' BY <1>1, <1>2, <1>5, <2>1, <2>6 DEF Adapter
  <2>8. History' BY <1>1, <1>5, <2>1, <2>5 DEF History
  <2> QED BY <1>4, <2>5, <2>7, <2>8
<1>7. CASE pending[t] = NoCall
  <2>1. /\ debt' = [debt EXCEPT ![t] = 0] /\ owed' = [owed EXCEPT ![t] = NoCall]
        /\ down' = Append(down, State(threads')) /\ UNCHANGED <<timer, answer, said>>
    BY <1>7, Zenon DEF StateTaken
  <2>2. down' \in Seq(DownMessages) BY <1>3, <2>1, Appended DEF Typed, Queues
  <2>3. Adapter'
    <3>1. gathered' \in [Threads -> SUBSET Evals] BY <1>1, <1>5
    <3>2. debt' \in [Threads -> 0 .. 1]
      <4>1. 0 \in 0 .. 1 OBVIOUS
      <4>2. debt' = [debt EXCEPT ![t] = 0] /\ debt \in [Threads -> 0 .. 1] BY <1>5, <2>1
      <4> QED BY <4>1, <4>2, Zenon
    <3>3. pending' \in [Threads -> Evals \cup {NoCall}] BY <1>1, <1>5
    <3> QED BY <1>2, <1>5, <2>1, <3>1, <3>2, <3>3 DEF Adapter
  <2>4. History' BY <1>1, <1>5, <2>1 DEF History
  <2> QED BY <1>4, <2>2, <2>3, <2>4
<1> QED BY <1>6, <1>7

\* The requests the prover's exit leaves without an end.
Orphans == {c \in Evals : pending[OnThread[c]] = c}

LEMMA ExitSteps ==
  ASSUME Typed, TakesExit
  PROVE  /\ out # <<>> /\ out' = Tail(out) /\ Head(out).kind = "exit"
         /\ timer' = Cancelled(Orphans)
         /\ answer' = [c \in Evals |-> IF c \in Orphans THEN "crashed" ELSE answer[c]]
         /\ pending' = [t \in Threads |-> NoCall] /\ gathered' = [t \in Threads |-> {}]
         /\ debt' = [t \in Threads |-> 0] /\ owed' = [t \in Threads |-> NoCall]
         /\ threads' = {} /\ UNCHANGED <<callers, up, posted, prover, said, astray>>
         /\ \E r \in Seq(DownMessages) :
              /\ down' = down \o r
              /\ \A i \in 1 .. Len(r) : r[i].kind = "reply" => r[i].status = "crashed"
              /\ \A c \in Orphans : \E i \in 1 .. Len(r) : r[i] = Reply(c, "crashed")
<1> DEFINE S == {Reply(c, "crashed") : c \in Orphans}
           replies == SetToSeq(S)
           r == Append(replies, State({}))
<1>1. /\ out # <<>> /\ out' = Tail(out) /\ Head(out).kind = "exit"
      /\ timer' = Cancelled(Orphans)
      /\ answer' = [c \in Evals |-> IF c \in Orphans THEN "crashed" ELSE answer[c]]
      /\ pending' = [t \in Threads |-> NoCall] /\ gathered' = [t \in Threads |-> {}]
      /\ debt' = [t \in Threads |-> 0] /\ owed' = [t \in Threads |-> NoCall]
      /\ threads' = {} /\ UNCHANGED <<callers, up, posted, prover, said, astray>>
      /\ down' = down \o r
  BY Zenon DEF TakesExit, Orphans
<1>2. IsFiniteSet(S)
  <2>1. IsFiniteSet(Orphans) BY EvalsGiven, FS_Subset DEF Orphans
  <2> DEFINE f == [c \in Orphans |-> Reply(c, "crashed")]
  <2>2. f \in Surjection(Orphans, S) BY DEF Surjection
  <2> QED BY <2>1, <2>2, FS_Surjection
<1>3. S \subseteq Answers /\ S \subseteq DownMessages
  <2>1. \A c \in Orphans : Reply(c, "crashed") \in Answers BY MessagesGiven DEF Orphans, Statuses
  <2>2. S \subseteq Answers BY <2>1
  <2> QED BY <2>2, MessagesGiven
<1>4. replies \in Seq(S) /\ \A x \in S : \E i \in 1 .. Len(replies) : replies[i] = x
  BY <1>2, Listed
<1>s. \A x \in S : x.status = "crashed" BY DEF Reply
<1>o. \A c \in Orphans : Reply(c, "crashed") \in S OBVIOUS
<1>5. State({}) \in DownMessages /\ State({}).kind = "state" BY MessagesGiven DEF State
<1> HIDE DEF S, replies
<1>6. replies \in Seq(DownMessages) BY <1>3, <1>4, Widened
<1>7. /\ r \in Seq(DownMessages) /\ Len(r) = Len(replies) + 1 /\ Len(replies) \in Nat
      /\ \A i \in 1 .. Len(replies) : r[i] = replies[i]
      /\ r[Len(replies) + 1] = State({})
  BY <1>5, <1>6, Appended
<1> HIDE DEF r
<1>8. \A i \in 1 .. Len(r) : r[i].kind = "reply" => r[i].status = "crashed"
  <2> TAKE i \in 1 .. Len(r)
  <2>1. CASE i = Len(replies) + 1 BY <2>1, <1>5, <1>7
  <2>2. CASE i # Len(replies) + 1
    <3>1. i \in 1 .. Len(replies) BY <2>2, <1>7
    <3>2. r[i] = replies[i] /\ replies[i] \in S BY <3>1, <1>7, <1>4
    <3> QED BY <3>2, <1>s
  <2> QED BY <2>1, <2>2
<1>9. \A c \in Orphans : \E i \in 1 .. Len(r) : r[i] = Reply(c, "crashed")
  <2> TAKE c \in Orphans
  <2>1. PICK i \in 1 .. Len(replies) : replies[i] = Reply(c, "crashed") BY <1>4, <1>o
  <2>2. i \in 1 .. Len(r) /\ r[i] = replies[i] BY <1>7
  <2> QED BY <2>1, <2>2
<1> QED BY <1>1, <1>7, <1>8, <1>9

LEMMA AdapterTyped == ASSUME Typed, Single, AdapterSteps PROVE Typed'
<1>0. UNCHANGED callers BY AdapterFrame
<1>1. Callers' BY <1>0 DEF Typed, Callers, callers
<1>2. /\ up \in Seq(UpMessages) /\ posted \in Seq(Closures)
      /\ down \in Seq(DownMessages) /\ out \in Seq(OutMessages)
  BY DEF Typed, Queues
<1>3. UNCHANGED <<adapter, prover, history>> => Adapter' /\ Prover' /\ History'
  BY DEF Typed, Adapter, Prover, History, adapter, prover, history
<1>4. CASE MainReadsEval
  <2>1. up # <<>> /\ Head(up).kind = "eval" /\ up' = Tail(up)
        /\ posted' = Append(posted, Request("start", Head(up).call))
        /\ UNCHANGED <<down, adapter, prover, out, history>>
    BY <1>4, Zenon DEF MainReadsEval, MainReads
  <2>2. Request("start", Head(up).call) \in Closures BY <2>1, HeadsGiven, MessagesGiven
  <2>3. Queues' BY <1>2, <2>1, <2>2, Appended, Shifted DEF Queues
  <2> QED BY <1>1, <1>3, <2>1, <2>3 DEF Typed
<1>5. CASE MainReadsResume
  <2>1. up # <<>> /\ Head(up).kind = "resume" /\ up' = Tail(up)
        /\ Feed(OnThread[Head(up).call], Head(up).call)
        /\ UNCHANGED <<down, posted, adapter, out, answer, said, owed>>
    BY <1>5, Zenon DEF MainReadsResume, MainReads
  <2>2. Head(up).call \in Resumes BY <2>1, HeadsGiven
  <2>3. Prover' /\ astray' \subseteq Threads BY <2>1, <2>2, CallsApart, Fed
  <2>4. Queues' BY <1>2, <2>1, Shifted DEF Queues
  <2>5. Adapter' /\ History' BY <2>1, <2>3 DEF Typed, Adapter, History, adapter
  <2> QED BY <1>1, <2>3, <2>4, <2>5 DEF Typed
<1>6. CASE MainReadsAbort
  <2> DEFINE c == Head(up).call
             s == IF pending[OnThread[c]] = NoCall /\ debt[OnThread[c]] = 0 THEN "no_evaluation"
                  ELSE "aborting"
  <2>1. up # <<>> /\ Head(up).kind = "abort" /\ up' = Tail(up)
        /\ down' = Append(down, Reply(c, s))
        /\ UNCHANGED <<posted, adapter, prover, out, history>>
    BY <1>6, Zenon DEF MainReadsAbort, MainReads
  <2>2. c \in Aborts BY <2>1, HeadsGiven
  <2>3. Reply(c, s) \in DownMessages BY <2>2, MessagesGiven
  <2> HIDE DEF c, s
  <2>4. Queues' BY <1>2, <2>1, <2>3, Appended, Shifted DEF Queues
  <2> QED BY <1>1, <1>3, <2>1, <2>4 DEF Typed
<1>7. CASE RunsPosted
  <2>1. posted # <<>> /\ posted' = Tail(posted) /\ UNCHANGED <<up, out>> BY <1>7, PostedSteps
  <2>2. PICK c \in Evals : StartEval(c) \/ Backstop(c) BY <1>7, PostedSteps
  <2>3. Adapter' /\ Prover' /\ History' /\ down' \in Seq(DownMessages)
    BY <2>2, StartTyped, BackstopTyped
  <2>4. Queues' BY <1>2, <2>1, <2>3, Shifted DEF Queues
  <2> QED BY <1>1, <2>3, <2>4 DEF Typed
<1>8. ASSUME NEW c \in Evals, TimerFires(c) PROVE Typed'
  <2>1. timer' = [timer EXCEPT ![c] = "fired"] /\ posted' = Append(posted, Request("backstop", c))
        /\ UNCHANGED <<up, down, pending, gathered, debt, threads, prover, out, history>>
    BY <1>8, Zenon DEF TimerFires
  <2>2. Request("backstop", c) \in Closures BY MessagesGiven
  <2>3. Queues' BY <1>2, <2>1, <2>2, Appended DEF Queues
  <2>4. Adapter' BY <2>1 DEF Typed, Adapter
  <2>5. Prover' /\ History' BY <2>1 DEF Typed, Prover, History, prover, history
  <2> QED BY <1>1, <2>3, <2>4, <2>5 DEF Typed
<1>9. CASE TakesState
  <2>1. out # <<>> /\ out' = Tail(out) /\ StateTaken(Head(out).thread, Head(out).on)
    BY <1>9, StateSteps
  <2>2. Adapter' /\ Prover' /\ History' /\ down' \in Seq(DownMessages) BY <2>1, StateTyped
  <2>3. UNCHANGED <<up, posted>> BY <2>1, Zenon DEF StateTaken
  <2>4. Queues' BY <1>2, <2>1, <2>2, <2>3, Shifted DEF Queues
  <2> QED BY <1>1, <2>2, <2>4 DEF Typed
<1>10. CASE TakesOutput
  <2> DEFINE t == Head(out).thread
  <2>1. out # <<>> /\ out' = Tail(out) /\ Head(out).kind = "output"
        /\ gathered' = (IF pending[t] = NoCall THEN gathered
                        ELSE [gathered EXCEPT ![t] = gathered[t] \cup {Head(out).of}])
        /\ UNCHANGED <<up, down, posted, pending, debt, threads, timer, prover, history>>
    BY <1>10, Zenon DEF TakesOutput
  <2>2. t \in Threads /\ Head(out).of \in Evals
    <3>1. Head(out) \in Outputs BY <2>1, HeadsGiven
    <3> QED BY <3>1 DEF Outputs
  <2> HIDE DEF t
  <2>3. gathered' \in [Threads -> SUBSET Evals] BY <2>1, <2>2 DEF Typed, Adapter
  <2>4. Queues' BY <1>2, <2>1, Shifted DEF Queues
  <2>5. Adapter' BY <2>1, <2>3 DEF Typed, Adapter
  <2>6. Prover' /\ History' BY <2>1 DEF Typed, Prover, History, prover, history
  <2> QED BY <1>1, <2>4, <2>5, <2>6 DEF Typed
<1>11. CASE TakesExit
  <2>1. /\ out # <<>> /\ out' = Tail(out) /\ timer' = Cancelled(Orphans)
        /\ answer' = [c \in Evals |-> IF c \in Orphans THEN "crashed" ELSE answer[c]]
        /\ pending' = [t \in Threads |-> NoCall] /\ gathered' = [t \in Threads |-> {}]
        /\ debt' = [t \in Threads |-> 0] /\ owed' = [t \in Threads |-> NoCall]
        /\ threads' = {} /\ UNCHANGED <<up, posted, prover, said, astray>>
        /\ \E r \in Seq(DownMessages) : down' = down \o r
    BY <1>11, ExitSteps
  <2>2. down' \in Seq(DownMessages)
    <3>1. PICK r \in Seq(DownMessages) : down' = down \o r BY <2>1
    <3> QED BY <3>1, <1>2, Joined
  <2>3. Queues' BY <1>2, <2>1, <2>2, Shifted DEF Queues
  <2>4. timer' \in [Evals -> {"off", "armed", "fired"}] BY <2>1, CancelledGiven
  <2>5. Adapter'
    <3>1. gathered' \in [Threads -> SUBSET Evals] BY <2>1
    <3>2. debt' \in [Threads -> 0 .. 1] BY <2>1
    <3> QED BY <2>1, <2>4, <3>1, <3>2 DEF Adapter
  <2>6. answer' \in [Evals -> Statuses \cup {""}]
    <3>1. answer \in [Evals -> Statuses \cup {""}] BY DEF Typed, History
    <3> QED BY <2>1, <3>1 DEF Statuses
  <2>7. Prover' /\ History' BY <2>1, <2>6 DEF Typed, Prover, History, prover
  <2> QED BY <1>1, <2>3, <2>5, <2>7 DEF Typed
<1> QED BY <1>4, <1>5, <1>6, <1>7, <1>8, <1>9, <1>10, <1>11, AdapterFrame, Zenon DEF AdapterSteps

\* What the prover sends, and where its threads go.
LEMMA ProverTyped == ASSUME Typed, ProverSteps PROVE Typed'
<1>0. UNCHANGED <<callers, up, down, posted, adapter, answer, said, owed>> BY ProverFrame
<1>1. Callers' /\ Adapter' BY <1>0 DEF Typed, Callers, Adapter, callers, adapter
<1>2. /\ alive \in BOOLEAN /\ at \in [Threads -> {"away", "stopped"} \cup Evals]
      /\ inputs \in [Threads -> Seq(Evals \cup Resumes)]
      /\ stops \in [Threads -> 0 .. MaxStops] /\ out \in Seq(OutMessages) /\ astray \subseteq Threads
  BY DEF Typed, Prover, Queues, History
<1> SUFFICES Prover' /\ astray' \subseteq Threads /\ out' \in Seq(OutMessages)
  BY <1>0, <1>1 DEF Typed, Queues, History
<1>3. ASSUME NEW t \in Threads, Stops(t)
      PROVE  Prover' /\ astray' \subseteq Threads /\ out' \in Seq(OutMessages)
  <2>1. /\ at' = [at EXCEPT ![t] = "stopped"] /\ stops' = [stops EXCEPT ![t] = stops[t] + 1]
        /\ out' = Append(out, Halted(t, TRUE, NoCall)) /\ UNCHANGED <<alive, inputs, history>>
        /\ stops[t] < MaxStops
    BY <1>3, Zenon DEF Stops
  <2>2. stops[t] + 1 \in 0 .. MaxStops BY <1>2, <2>1, BoundsGiven
  <2>3. Halted(t, TRUE, NoCall) \in OutMessages BY MessagesGiven
  <2>4. out' \in Seq(OutMessages) BY <1>2, <2>1, <2>3, Appended
  <2>5. Prover' BY <1>2, <2>1, <2>2 DEF Prover
  <2> QED BY <1>2, <2>1, <2>4, <2>5 DEF history
<1>4. ASSUME NEW t \in Threads, TakesEval(t)
      PROVE  Prover' /\ astray' \subseteq Threads /\ out' \in Seq(OutMessages)
  <2>1. /\ inputs[t] # <<>> /\ Head(inputs[t]) \in Evals
        /\ at' = [at EXCEPT ![t] = Head(inputs[t])] /\ inputs' = [inputs EXCEPT ![t] = Tail(inputs[t])]
        /\ UNCHANGED <<alive, out, stops, history>>
    BY <1>4, Zenon DEF TakesEval
  <2>2. Tail(inputs[t]) \in Seq(Evals \cup Resumes) BY <1>2, <2>1, Shifted
  <2>3. Prover' BY <1>2, <2>1, <2>2 DEF Prover
  <2> QED BY <1>2, <2>1, <2>3 DEF history
<1>5. ASSUME NEW t \in Threads, TakesResume(t)
      PROVE  Prover' /\ astray' \subseteq Threads /\ out' \in Seq(OutMessages)
  <2>1. /\ inputs[t] # <<>> /\ at' = [at EXCEPT ![t] = "away"]
        /\ inputs' = [inputs EXCEPT ![t] = Tail(inputs[t])]
        /\ out' = Append(out, Halted(t, FALSE, NoCall)) /\ LeavesInput(t, Tail(inputs[t]))
        /\ UNCHANGED <<alive, stops>>
    BY <1>5, Zenon DEF TakesResume
  <2>2. Tail(inputs[t]) \in Seq(Evals \cup Resumes) BY <1>2, <2>1, Shifted
  <2>3. Halted(t, FALSE, NoCall) \in OutMessages BY MessagesGiven
  <2>4. out' \in Seq(OutMessages) BY <1>2, <2>1, <2>3, Appended
  <2>5. Prover' BY <1>2, <2>1, <2>2 DEF Prover
  <2> QED BY <1>2, <2>1, <2>4, <2>5 DEF LeavesInput
<1>6. ASSUME NEW t \in Threads, Finishes(t)
      PROVE  Prover' /\ astray' \subseteq Threads /\ out' \in Seq(OutMessages)
  <2>1. /\ at[t] \in Evals /\ at' = [at EXCEPT ![t] = "stopped"]
        /\ out' = out \o <<Printed(t, at[t]), Halted(t, TRUE, at[t])>>
        /\ UNCHANGED <<alive, inputs, stops, history>>
    BY <1>6, Zenon DEF Finishes
  <2>2. Printed(t, at[t]) \in OutMessages /\ Halted(t, TRUE, at[t]) \in OutMessages
    BY <2>1, MessagesGiven
  <2>3. <<Printed(t, at[t]), Halted(t, TRUE, at[t])>> \in Seq(OutMessages)
    <3> DEFINE m == Printed(t, at[t])
               n == Halted(t, TRUE, at[t])
    <3>1. m \in OutMessages /\ n \in OutMessages BY <2>2
    <3> HIDE DEF OutMessages, m, n
    <3>2. <<m, n>> \in Seq(OutMessages) BY <3>1
    <3> QED BY <3>2 DEF m, n
  <2>4. out' \in Seq(OutMessages) BY <1>2, <2>1, <2>3, Joined
  <2>5. Prover' BY <1>2, <2>1 DEF Prover
  <2> QED BY <1>2, <2>1, <2>4, <2>5 DEF history
<1>7. ASSUME NEW t \in Threads, Interrupted(t)
      PROVE  Prover' /\ astray' \subseteq Threads /\ out' \in Seq(OutMessages)
  <2> DEFINE c == IF at[t] \in Evals THEN at[t] ELSE NoCall
  <2>1. /\ at' = [at EXCEPT ![t] = "away"] /\ out' = Append(out, Halted(t, FALSE, c))
        /\ LeavesInput(t, inputs[t]) /\ UNCHANGED <<alive, inputs, stops>>
    BY <1>7, Zenon DEF Interrupted
  <2>2. Halted(t, FALSE, c) \in OutMessages BY MessagesGiven
  <2> HIDE DEF c
  <2>3. out' \in Seq(OutMessages) BY <1>2, <2>1, <2>2, Appended
  <2>4. Prover' BY <1>2, <2>1 DEF Prover
  <2> QED BY <1>2, <2>1, <2>3, <2>4 DEF LeavesInput
<1>8. CASE ProverExits
  <2>1. /\ alive' = FALSE /\ at' = [t \in Threads |-> "away"] /\ inputs' = [t \in Threads |-> <<>>]
        /\ out' = Append(out, ExitMark) /\ UNCHANGED <<stops, history>>
    BY <1>8, Zenon DEF ProverExits
  <2>2. out' \in Seq(OutMessages) BY <1>2, <2>1, MessagesGiven, Appended
  <2>3. inputs' \in [Threads -> Seq(Evals \cup Resumes)] BY <2>1
  <2>4. Prover' BY <1>2, <2>1, <2>3 DEF Prover
  <2> QED BY <1>2, <2>1, <2>2, <2>4 DEF history
<1> QED BY <1>3, <1>4, <1>5, <1>6, <1>7, <1>8, Zenon DEF ProverSteps

LEMMA TypedStep == ASSUME Typed, Single, [Next]_vars PROVE Typed'
<1>1. CASE UNCHANGED vars
  BY <1>1 DEF vars, callers, adapter, prover, history, Typed, Queues, Callers, Adapter, Prover, History
<1> QED BY <1>1, CallerTyped, AdapterTyped, ProverTyped DEF Next

LEMMA PlacesKept ==
  ASSUME NEW M, NEW q \in Seq(M), NEW S, NEW r,
         \/ r = q
         \/ \E m \in M : m \notin S /\ r = Append(q, m)
         \/ q # <<>> /\ r = Tail(q)
         \/ \E p \in Seq(M) : (\A i \in 1 .. Len(p) : p[i] \notin S) /\ r = q \o p
  PROVE  /\ Places(q, S) = {} => Places(r, S) = {}
         /\ Once(q, S) => Once(r, S)
<1>1. CASE r = q BY <1>1
<1>2. ASSUME NEW m \in M, m \notin S, r = Append(q, m) PROVE Places(r, S) = Places(q, S)
  BY <1>2, PlacesAppended
<1>3. CASE q # <<>> /\ r = Tail(q)
  <2>1. \A i \in Places(r, S) : i + 1 \in Places(q, S) /\ i \in Nat BY <1>3, PlacesTail DEF Places
  <2> QED BY <2>1 DEF Once
<1>4. ASSUME NEW p \in Seq(M), \A i \in 1 .. Len(p) : p[i] \notin S, r = q \o p
      PROVE  Places(r, S) = Places(q, S)
  BY <1>4, PlacesJoined
<1> QED BY <1>1, <1>2, <1>3, <1>4 DEF Once

LEMMA PlacesTaken ==
  ASSUME NEW M, NEW q \in Seq(M), NEW S, q # <<>>, Head(q) \in S
  PROVE  Places(q, S) # {} /\ (Once(q, S) => Places(Tail(q), S) = {})
<1>1. 1 \in Places(q, S) /\ \A i \in Places(Tail(q), S) : i + 1 \in Places(q, S) /\ i \in Nat \ {0}
  BY PlacesTail DEF Places
<1> QED BY <1>1 DEF Once

LEMMA PlacesAdded ==
  ASSUME NEW M, NEW q \in Seq(M), NEW m \in M, NEW S, m \in S
  PROVE  /\ Places(Append(q, m), S) # {}
         /\ Places(q, S) = {} => Once(Append(q, m), S)
BY PlacesAppended DEF Once

-----------------------------------------------------------------------------
(* The way of one evaluation: its request, the closure that starts it, its *)
(* timer and the closure that gives it up.                                 *)

Asked(c)    == Places(up, {Request("eval", c)})
Starting(c) == Places(posted, {Request("start", c)})
GivenUp(c)  == Places(posted, {Request("backstop", c)})

Untried(c) == answer[c] = "" /\ timer[c] = "off" /\ \A t \in Threads : pending[t] # c

Stage(c) ==
  /\ pc[c] = "idle" => Asked(c) = {} /\ Starting(c) = {} /\ Untried(c) /\ GivenUp(c) = {}
  /\ Once(up, {Request("eval", c)}) /\ Once(posted, {Request("start", c)})
  /\ Asked(c) # {} => Starting(c) = {} /\ Untried(c) /\ GivenUp(c) = {}
  /\ Starting(c) # {} => Untried(c) /\ GivenUp(c) = {}
  /\ GivenUp(c) # {} => timer[c] = "fired"
  /\ answer[c] = "timeout" => timer[c] = "fired"
Stages == \A c \in Evals : Stage(c)

\* The tables name evaluations of their thread: the pending one is unanswered and has
\* its backstop, the one owed was answered by it.
Pends(t) == /\ OnThread[pending[t]] = t /\ answer[pending[t]] = "" /\ debt[t] = 0
            /\ timer[pending[t]] = "armed" \/ GivenUp(pending[t]) # {}
Owes(t)  == owed[t] \in Evals /\ OnThread[owed[t]] = t /\ answer[owed[t]] = "timeout"
Tables == \A t \in Threads : /\ pending[t] # NoCall => Pends(t)
                             /\ debt[t] > 0 => Owes(t)

LEMMA TablesSingle == Tables => Single
BY DEF Tables, Pends, Single

\* A step that does not move evaluation c on its way.
Untouched(c) ==
  /\ pc'[c] = "idle" => pc[c] = "idle"
  /\ \/ up' = up
     \/ \E m \in UpMessages : m # Request("eval", c) /\ up' = Append(up, m)
     \/ up # <<>> /\ up' = Tail(up)
  /\ \/ posted' = posted
     \/ \E m \in Closures : /\ m # Request("start", c) /\ m # Request("backstop", c)
                            /\ posted' = Append(posted, m)
     \/ posted # <<>> /\ posted' = Tail(posted)
  /\ Untried(c) => Untried(c)'
  /\ timer[c] = "fired" => timer'[c] = "fired"
  /\ answer'[c] = "timeout" => answer[c] = "timeout"

LEMMA CallerMoves ==
  ASSUME Typed, NEW c \in Evals, CallerSteps PROVE Untouched(c) \/ EvalStarts(c)
<1>0. UNCHANGED <<posted, pending, timer, answer>>
  BY CallerFrame DEF adapter, history
<1>1. ASSUME pc'[c] = "idle" => pc[c] = "idle",
             \/ up' = up
             \/ \E m \in UpMessages : m # Request("eval", c) /\ up' = Append(up, m)
      PROVE  Untouched(c)
  BY <1>0, <1>1 DEF Untouched, Untried
<1>2. pc \in [Calls -> {"idle", "sent", "done", "asked", "watch"}] /\ c \in Calls
  BY CallsApart DEF Typed, Callers
<1>3. ASSUME NEW d \in Evals, EvalStarts(d), d # c PROVE Untouched(c)
  <2>1. pc' = [pc EXCEPT ![d] = "sent"] /\ up' = Append(up, Request("eval", d))
    BY <1>3, Zenon DEF EvalStarts, Sends
  <2>2. Request("eval", d) # Request("eval", c) BY <1>3 DEF Request
  <2>3. Request("eval", d) \in UpMessages BY MessagesGiven
  <2>4. pc'[c] = pc[c] BY <2>1, <1>2, <1>3
  <2> HIDE DEF Request
  <2> QED BY <2>1, <2>2, <2>3, <2>4, <1>1
<1>4. ASSUME NEW d \in Evals, EvalDropped(d) PROVE Untouched(c)
  BY <1>4, <1>1, <1>2 DEF EvalDropped
<1>5. ASSUME NEW d \in Resumes, ResumeStarts(d) PROVE Untouched(c)
  <2>1. pc' = [pc EXCEPT ![d] = "done"] /\ up' = Append(up, Request("resume", d))
    BY <1>5, Zenon DEF ResumeStarts, Sends
  <2>2. Request("resume", d) # Request("eval", c) BY DEF Request
  <2>3. Request("resume", d) \in UpMessages BY MessagesGiven
  <2> HIDE DEF Request
  <2> QED BY <2>1, <2>2, <2>3, <1>2, <1>1
<1>6. ASSUME NEW d \in Aborts, AbortStarts(d) \/ AbortAgain(d) PROVE Untouched(c)
  <2>1. pc' = [pc EXCEPT ![d] = "asked"] /\ up' = Append(up, Request("abort", d))
    BY <1>6, Zenon DEF AbortStarts, AbortAgain, AbortAsks, Sends
  <2>2. Request("abort", d) # Request("eval", c) BY DEF Request
  <2>3. Request("abort", d) \in UpMessages BY MessagesGiven
  <2> HIDE DEF Request
  <2> QED BY <2>1, <2>2, <2>3, <1>2, <1>1
<1>7. ASSUME NEW d \in Aborts, AbortEnds(d) PROVE Untouched(c)
  BY <1>7, <1>1, <1>2 DEF AbortEnds, AbortDone
<1>8. CASE ClientReadsState
  <2>1. UNCHANGED <<pc, up>> BY <1>8, Zenon DEF ClientReadsState
  <2> QED BY <2>1, <1>1
<1>9. CASE ClientReadsReply
  <2>1. UNCHANGED up BY <1>9, Zenon DEF ClientReadsReply
  <2>2. \E d : \/ pc' = [pc EXCEPT ![d] = "watch"] \/ pc' = [pc EXCEPT ![d] = "done"]
    BY <1>9, Zenon DEF ClientReadsReply, AbortDone
  <2> QED BY <2>1, <2>2, <1>1, <1>2
<1> QED BY <1>3, <1>4, <1>5, <1>6, <1>7, <1>8, <1>9 DEF CallerSteps

\* A reply answers its own call only.
LEMMA RespondOne ==
  ASSUME Typed, NEW d \in Evals, NEW s, NEW texts, NEW ms, Respond(d, s, texts, ms)
  PROVE  answer'[d] = s /\ \A c \in Evals : c # d => answer'[c] = answer[c]
<1>1. answer' = [answer EXCEPT ![d] = s] BY Zenon DEF Respond
<1> QED BY <1>1 DEF Typed, History

\* What a started closure changes, for the tables.
LEMMA StartMoves ==
  ASSUME Typed, NEW d \in Evals, StartEval(d)
  PROVE  \/ /\ UNCHANGED <<adapter, prover, owed, astray>>
            /\ answer'[d] \in {"busy", "not_stopped"}
            /\ \A c \in Evals : c # d => answer'[c] = answer[c]
         \/ /\ pending' = [pending EXCEPT ![OnThread[d]] = d] /\ ~Busy(OnThread[d])
            /\ timer' = [timer EXCEPT ![d] = "armed"]
            /\ Feed(OnThread[d], d)
            /\ UNCHANGED <<gathered, debt, threads, down, answer, said, owed>>
<1>1. CASE StartRefused(d)
  <2>1. UNCHANGED <<adapter, prover, owed, astray>> BY <1>1, Zenon DEF StartRefused
  <2>2. PICK s \in {"busy", "not_stopped"} : Respond(d, s, {}, <<>>) BY <1>1 DEF StartRefused
  <2> QED BY <2>1, <2>2, RespondOne
<1>2. CASE StartAccepted(d) BY <1>2, Zenon DEF StartAccepted
<1> QED BY <1>1, <1>2 DEF StartEval

LEMMA BackstopMoves ==
  ASSUME Typed, NEW d \in Evals, Backstop(d)
  PROVE  /\ UNCHANGED <<threads, timer, prover, astray>>
         /\ \/ /\ pending[OnThread[d]] # d
               /\ UNCHANGED <<pending, debt, owed, gathered, answer, said, down>>
            \/ /\ pending[OnThread[d]] = d
               /\ pending' = [pending EXCEPT ![OnThread[d]] = NoCall]
               /\ debt' = [debt EXCEPT ![OnThread[d]] = debt[OnThread[d]] + 1]
               /\ owed' = [owed EXCEPT ![OnThread[d]] = d]
               /\ gathered' = [gathered EXCEPT ![OnThread[d]] = {}]
               /\ answer'[d] = "timeout" /\ \A c \in Evals : c # d => answer'[c] = answer[c]
               /\ Respond(d, "timeout", gathered[OnThread[d]], <<>>)
<1>1. UNCHANGED <<threads, timer, prover, astray>> BY Zenon DEF Backstop
<1>2. CASE pending[OnThread[d]] # d BY <1>1, <1>2 DEF Backstop
<1>3. CASE pending[OnThread[d]] = d
  <2>1. /\ pending' = [pending EXCEPT ![OnThread[d]] = NoCall]
        /\ debt' = [debt EXCEPT ![OnThread[d]] = debt[OnThread[d]] + 1]
        /\ owed' = [owed EXCEPT ![OnThread[d]] = d]
        /\ gathered' = [gathered EXCEPT ![OnThread[d]] = {}]
        /\ Respond(d, "timeout", gathered[OnThread[d]], <<>>)
    BY <1>3 DEF Backstop
  <2> QED BY <1>1, <1>3, <2>1, RespondOne
<1> QED BY <1>2, <1>3

LEMMA StateMoves ==
  ASSUME Typed, NEW t, NEW on, StateTaken(t, on)
  PROVE  /\ t \in Threads
         /\ pending' = [pending EXCEPT ![t] = NoCall] /\ pending'[t] = NoCall
         /\ gathered' = [gathered EXCEPT ![t] = {}] /\ gathered'[t] = {}
         /\ UNCHANGED <<callers, up, posted, prover, astray>>
         /\ \/ /\ pending[t] \in Evals /\ timer' = Cancelled({pending[t]}) /\ UNCHANGED <<debt, owed>>
               /\ answer'[pending[t]] = IF on THEN "ok" ELSE "resumed"
               /\ \A c \in Evals : c # pending[t] => answer'[c] = answer[c]
               /\ Respond(pending[t], IF on THEN "ok" ELSE "resumed", gathered[t], <<State(threads')>>)
            \/ /\ pending[t] = NoCall /\ debt' = [debt EXCEPT ![t] = 0] /\ debt'[t] = 0
               /\ owed' = [owed EXCEPT ![t] = NoCall] /\ UNCHANGED <<timer, answer, said>>
               /\ down' = Append(down, State(threads'))
<1>1. /\ t \in Threads /\ pending' = [pending EXCEPT ![t] = NoCall]
      /\ gathered' = [gathered EXCEPT ![t] = {}]
      /\ UNCHANGED <<callers, up, posted, prover, astray>>
  BY Zenon DEF StateTaken
<1>2. pending'[t] = NoCall /\ gathered'[t] = {} BY <1>1 DEF Typed, Adapter
<1>3. CASE pending[t] # NoCall
  <2>1. /\ pending[t] \in Evals /\ timer' = Cancelled({pending[t]}) /\ UNCHANGED <<debt, owed>>
        /\ Respond(pending[t], IF on THEN "ok" ELSE "resumed", gathered[t], <<State(threads')>>)
    BY <1>3, Zenon DEF StateTaken
  <2> QED BY <1>1, <1>2, <2>1, RespondOne
<1>4. CASE pending[t] = NoCall
  <2>1. /\ debt' = [debt EXCEPT ![t] = 0] /\ owed' = [owed EXCEPT ![t] = NoCall]
        /\ UNCHANGED <<timer, answer, said>> /\ down' = Append(down, State(threads'))
    BY <1>4, Zenon DEF StateTaken
  <2>2. debt'[t] = 0 BY <2>1, <1>1 DEF Typed, Adapter
  <2> QED BY <1>1, <1>2, <1>4, <2>1, <2>2
<1> QED BY <1>3, <1>4

LEMMA AdapterMoves ==
  ASSUME Typed, NEW c \in Evals, AdapterSteps
  PROVE  \/ Untouched(c)
         \/ MainReadsEval /\ Head(up) = Request("eval", c)
         \/ RunsPosted /\ Head(posted) = Request("start", c) /\ StartEval(c)
         \/ RunsPosted /\ Head(posted) = Request("backstop", c) /\ Backstop(c)
         \/ TimerFires(c)
<1>0. pc' = pc BY AdapterFrame DEF callers
<1>t. /\ timer \in [Evals -> {"off", "armed", "fired"}] /\ pending \in [Threads -> Evals \cup {NoCall}]
      /\ \A d \in Evals : OnThread[d] \in Threads /\ d # NoCall
  BY CallsApart DEF Typed, Adapter
<1>1. ASSUME \/ up' = up
             \/ up # <<>> /\ up' = Tail(up),
             \/ posted' = posted
             \/ \E m \in Closures : /\ m # Request("start", c) /\ m # Request("backstop", c)
                                    /\ posted' = Append(posted, m)
             \/ posted # <<>> /\ posted' = Tail(posted),
             Untried(c) => Untried(c)',
             timer[c] = "fired" => timer'[c] = "fired",
             answer'[c] = "timeout" => answer[c] = "timeout"
      PROVE  Untouched(c)
  BY <1>0, <1>1, Zenon DEF Untouched
<1>2. UNCHANGED <<pending, timer, answer>> => (Untried(c) => Untried(c)') BY DEF Untried
<1>3. CASE MainReadsEval
  <2>1. /\ up # <<>> /\ up' = Tail(up) /\ Head(up).kind = "eval"
        /\ posted' = Append(posted, Request("start", Head(up).call))
        /\ UNCHANGED <<adapter, history>>
    BY <1>3, Zenon DEF MainReadsEval, MainReads
  <2>2. Head(up) = Request("eval", Head(up).call) /\ Head(up).call \in Evals BY <2>1, HeadsGiven
  <2>3. CASE Head(up).call # c
    <3>1. /\ Request("start", Head(up).call) \in Closures
          /\ Request("start", Head(up).call) # Request("start", c)
          /\ Request("start", Head(up).call) # Request("backstop", c)
      BY <2>2, <2>3, MessagesGiven DEF Request
    <3> HIDE DEF Request
    <3> QED BY <2>1, <3>1, <1>1, <1>2 DEF adapter, history
  <2> QED BY <1>3, <2>2, <2>3
<1>4. CASE MainReadsResume
  <2>1. up # <<>> /\ up' = Tail(up) /\ UNCHANGED <<posted, adapter, answer>>
    BY <1>4, Zenon DEF MainReadsResume, MainReads
  <2> QED BY <2>1, <1>1, <1>2 DEF adapter
<1>5. CASE MainReadsAbort
  <2>1. up # <<>> /\ up' = Tail(up) /\ UNCHANGED <<posted, adapter, history>>
    BY <1>5, Zenon DEF MainReadsAbort, MainReads
  <2> QED BY <2>1, <1>1, <1>2 DEF adapter, history
<1>6. CASE RunsPosted
  <2>1. posted # <<>> /\ posted' = Tail(posted) /\ UNCHANGED up BY <1>6, PostedSteps
  <2>2. PICK d \in Evals : \/ Head(posted) = Request("start", d) /\ StartEval(d)
                           \/ Head(posted) = Request("backstop", d) /\ Backstop(d)
    BY <1>6, PostedSteps
  <2>3. CASE StartEval(d) /\ d # c
    <3>1. /\ timer'[c] = timer[c] /\ answer'[c] = answer[c]
          /\ \A t \in Threads : pending'[t] = pending[t] \/ pending'[t] = d
      BY <2>3, <1>t, StartMoves DEF adapter
    <3> QED BY <2>1, <2>3, <3>1, <1>1 DEF Untried
  <2>4. CASE Backstop(d) /\ d # c
    <3>1. /\ timer'[c] = timer[c] /\ answer'[c] = answer[c]
          /\ \A t \in Threads : pending'[t] = pending[t] \/ pending'[t] = NoCall
      BY <2>4, <1>t, BackstopMoves
    <3>2. c # NoCall BY <1>t
    <3> QED BY <2>1, <2>4, <3>1, <3>2, <1>1 DEF Untried
  <2> QED BY <1>6, <2>2, <2>3, <2>4
<1>7. ASSUME NEW d \in Evals, TimerFires(d), d # c PROVE Untouched(c)
  <2>1. timer' = [timer EXCEPT ![d] = "fired"] /\ posted' = Append(posted, Request("backstop", d))
        /\ UNCHANGED <<up, pending, history>>
    BY <1>7, Zenon DEF TimerFires
  <2>2. /\ Request("backstop", d) \in Closures
        /\ Request("backstop", d) # Request("start", c)
        /\ Request("backstop", d) # Request("backstop", c)
    BY <1>7, MessagesGiven DEF Request
  <2>3. timer'[c] = timer[c] BY <2>1, <1>7, <1>t
  <2> HIDE DEF Request
  <2> QED BY <2>1, <2>2, <2>3, <1>1 DEF Untried, history
<1>8. CASE TakesState
  <2>1. PICK t, on : StateTaken(t, on) BY <1>8, StateSteps
  <2>2. /\ UNCHANGED <<up, posted>> /\ \A u \in Threads : pending'[u] \in {pending[u], NoCall}
    BY <2>1, <1>t, StateMoves
  <2>3. c # NoCall BY <1>t
  <2>4. CASE pending[t] = c
    <3>1. /\ timer' = Cancelled({c}) /\ answer'[c] \in {"ok", "resumed"} /\ ~Untried(c)
      BY <2>1, <2>3, <2>4, StateMoves DEF Untried
    <3>2. timer[c] = "fired" => timer'[c] = "fired" BY <3>1, CancelledGiven
    <3> QED BY <2>2, <3>1, <3>2, <1>1
  <2>5. CASE pending[t] # c
    <3>1. /\ answer'[c] = answer[c]
          /\ timer' = timer \/ timer' = Cancelled({pending[t]})
      BY <2>1, <2>5, StateMoves
    <3>2. timer'[c] = timer[c] BY <3>1, <2>5, CancelledGiven
    <3> QED BY <2>2, <2>3, <3>1, <3>2, <1>1 DEF Untried
  <2> QED BY <2>4, <2>5
<1>9. CASE TakesOutput
  <2>1. UNCHANGED <<up, posted, pending, timer, history>> BY <1>9, Zenon DEF TakesOutput
  <2> QED BY <2>1, <1>1, <1>2 DEF history
<1>10. CASE TakesExit
  <2>1. /\ timer' = Cancelled(Orphans) /\ pending' = [t \in Threads |-> NoCall]
        /\ answer' = [e \in Evals |-> IF e \in Orphans THEN "crashed" ELSE answer[e]]
        /\ UNCHANGED <<up, posted>>
    BY <1>10, ExitSteps
  <2>2. timer[c] = "fired" => timer'[c] = "fired" BY <2>1, CancelledGiven
  <2>3. answer'[c] = "timeout" => answer[c] = "timeout" BY <2>1
  <2>4. Untried(c) => Untried(c)'
    <3> SUFFICES ASSUME Untried(c) PROVE Untried(c)' OBVIOUS
    <3>1. c \notin Orphans BY <1>t DEF Untried, Orphans
    <3>2. answer'[c] = answer[c] /\ timer'[c] = timer[c] BY <2>1, <3>1, CancelledGiven
    <3>3. \A t \in Threads : pending'[t] # c BY <2>1, <1>t
    <3> QED BY <3>2, <3>3 DEF Untried
  <2> QED BY <2>1, <2>2, <2>3, <2>4, <1>1
<1> QED BY <1>3, <1>4, <1>5, <1>6, <1>7, <1>8, <1>9, <1>10, Zenon DEF AdapterSteps

LEMMA ProverMoves == ASSUME NEW c \in Evals, ProverSteps \/ UNCHANGED vars PROVE Untouched(c)
<1>1. UNCHANGED <<pc, up, posted, pending, timer, answer>>
  <2>1. CASE ProverSteps BY <2>1, ProverFrame DEF callers, adapter
  <2>2. CASE UNCHANGED vars BY <2>2 DEF vars, callers, adapter, history
  <2> QED BY <2>1, <2>2
<1> QED BY <1>1 DEF Untouched, Untried

LEMMA StageKept ==
  ASSUME Typed, NEW c \in Evals, Stage(c), Untouched(c)
  PROVE  Stage(c)'
<1>1. up \in Seq(UpMessages) /\ posted \in Seq(Closures) BY DEF Typed, Queues
<1>2. /\ Asked(c) = {} => Asked(c)' = {}
      /\ Once(up, {Request("eval", c)}) => Once(up', {Request("eval", c)})
  <2> HIDE DEF UpMessages, Request
  <2> QED BY <1>1, PlacesKept DEF Untouched, Asked
<1>3. /\ Starting(c) = {} => Starting(c)' = {}
      /\ GivenUp(c) = {} => GivenUp(c)' = {}
      /\ Once(posted, {Request("start", c)}) => Once(posted', {Request("start", c)})
  <2> HIDE DEF Closures, Request
  <2> QED BY <1>1, PlacesKept DEF Untouched, Starting, GivenUp
<1> QED BY <1>2, <1>3 DEF Stage, Untouched

LEMMA StagesStep == ASSUME Typed, Typed', Stages, Tables, [Next]_vars PROVE Stages'
<1> SUFFICES ASSUME NEW c \in Evals PROVE Stage(c)' BY DEF Stages
<1>1. Stage(c) BY DEF Stages
<1>2. /\ up \in Seq(UpMessages) /\ posted \in Seq(Closures)
      /\ pc \in [Calls -> {"idle", "sent", "done", "asked", "watch"}] /\ c \in Calls
      /\ timer \in [Evals -> {"off", "armed", "fired"}] /\ pending \in [Threads -> Evals \cup {NoCall}]
      /\ OnThread[c] \in Threads /\ c # NoCall
  BY CallsApart DEF Typed, Queues, Callers, Adapter
<1>3. /\ Request("eval", c) \in UpMessages /\ Request("start", c) \in Closures
      /\ Request("backstop", c) \in Closures /\ Request("start", c) # Request("backstop", c)
  BY MessagesGiven DEF Request
<1> HIDE DEF Request
<1>4. CASE EvalStarts(c)
  <2>1. /\ pc[c] = "idle" /\ pc' = [pc EXCEPT ![c] = "sent"] /\ up' = Append(up, Request("eval", c))
        /\ UNCHANGED <<posted, adapter, history>>
    BY <1>4, Zenon DEF EvalStarts, Sends
  <2>2. Once(up', {Request("eval", c)}) BY <2>1, <1>1, <1>2, <1>3, PlacesAdded DEF Stage, Asked
  <2>3. pc'[c] # "idle" BY <2>1, <1>2
  <2> QED BY <2>1, <2>2, <2>3, <1>1 DEF Stage, Starting, GivenUp, Untried, adapter, history
<1>5. CASE MainReadsEval /\ Head(up) = Request("eval", c)
  <2>1. /\ up # <<>> /\ up' = Tail(up) /\ UNCHANGED <<pc, adapter, history>>
        /\ posted' = Append(posted, Request("start", c))
    <3>1. Head(up).call = c BY <1>5 DEF Request
    <3> QED BY <1>5, <3>1 DEF MainReadsEval, MainReads, callers
  <2>2. Asked(c) # {} /\ Asked(c)' = {} BY <1>1, <1>2, <1>5, <2>1, PlacesTaken DEF Stage, Asked
  <2>3. Starting(c) = {} /\ Untried(c) /\ GivenUp(c) = {} /\ pc[c] # "idle"
    BY <2>2, <1>1 DEF Stage
  <2>4. Once(posted', {Request("start", c)})
    BY <2>1, <2>3, <1>2, <1>3, PlacesAdded DEF Starting
  <2>5. GivenUp(c)' = {}
    <3>1. Request("start", c) \notin {Request("backstop", c)} BY <1>3
    <3> HIDE DEF Closures
    <3>2. Places(Append(posted, Request("start", c)), {Request("backstop", c)})
          = Places(posted, {Request("backstop", c)})
      BY <1>2, <1>3, <3>1, PlacesAppended
    <3> QED BY <2>1, <2>3, <3>2 DEF GivenUp
  <2>6. Once(up', {Request("eval", c)}) BY <2>2 DEF Once, Asked
  <2>7. Untried(c)' BY <2>1, <2>3 DEF Untried, adapter, history
  <2> QED BY <2>1, <2>2, <2>3, <2>4, <2>5, <2>6, <2>7 DEF Stage, Untried
<1>6. CASE RunsPosted /\ Head(posted) = Request("start", c) /\ StartEval(c)
  <2>1. posted # <<>> /\ posted' = Tail(posted) /\ UNCHANGED <<pc, up>>
    BY <1>6, PostedSteps DEF callers
  <2>2. Starting(c) # {} /\ Starting(c)' = {}
    BY <1>1, <1>2, <1>6, <2>1, PlacesTaken DEF Stage, Starting
  <2>3. Asked(c) = {} /\ Untried(c) /\ GivenUp(c) = {} /\ pc[c] # "idle"
    BY <2>2, <1>1 DEF Stage
  <2>4. GivenUp(c)' = {} BY <2>1, <2>3, <1>2, PlacesKept DEF GivenUp
  <2>5. Asked(c)' = {} BY <2>1, <2>3 DEF Asked
  <2>6. Once(up', {Request("eval", c)}) /\ Once(posted', {Request("start", c)})
    BY <2>2, <2>5 DEF Once, Asked, Starting
  <2>7. answer'[c] # "timeout" BY <1>6, <2>3, StartMoves DEF Untried
  <2> QED BY <2>1, <2>2, <2>3, <2>4, <2>5, <2>6, <2>7 DEF Stage
<1>7. CASE RunsPosted /\ Head(posted) = Request("backstop", c) /\ Backstop(c)
  <2>1. posted # <<>> /\ posted' = Tail(posted) /\ UNCHANGED <<pc, up>>
    BY <1>7, PostedSteps DEF callers
  <2>2. GivenUp(c) # {} BY <1>2, <1>7, <2>1, PlacesTaken DEF GivenUp
  <2>3. Asked(c) = {} /\ Starting(c) = {} /\ timer[c] = "fired" /\ pc[c] # "idle"
    BY <2>2, <1>1 DEF Stage
  <2>4. Asked(c)' = {} BY <2>1, <2>3 DEF Asked
  <2>5. Starting(c)' = {} BY <2>1, <2>3, <1>2, PlacesKept DEF Starting
  <2>6. Once(up', {Request("eval", c)}) /\ Once(posted', {Request("start", c)})
    BY <2>4, <2>5 DEF Once, Asked, Starting
  <2>7. timer'[c] = "fired" BY <1>7, <2>3, BackstopMoves
  <2> QED BY <2>1, <2>3, <2>4, <2>5, <2>6, <2>7 DEF Stage
<1>8. CASE TimerFires(c)
  <2>1. /\ timer[c] = "armed" /\ timer' = [timer EXCEPT ![c] = "fired"]
        /\ posted' = Append(posted, Request("backstop", c)) /\ UNCHANGED <<pc, up>>
    BY <1>8 DEF TimerFires, callers
  <2>2. Asked(c) = {} /\ Starting(c) = {} /\ pc[c] # "idle" BY <2>1, <1>1 DEF Stage, Untried
  <2>3. Asked(c)' = {} BY <2>1, <2>2 DEF Asked
  <2>4. Starting(c)' = {}
    <3>1. Request("backstop", c) \notin {Request("start", c)} BY <1>3
    <3> HIDE DEF Closures
    <3>2. Places(Append(posted, Request("backstop", c)), {Request("start", c)})
          = Places(posted, {Request("start", c)})
      BY <1>2, <1>3, <3>1, PlacesAppended
    <3> QED BY <2>1, <2>2, <3>2 DEF Starting
  <2>5. Once(up', {Request("eval", c)}) /\ Once(posted', {Request("start", c)})
    BY <2>3, <2>4 DEF Once, Asked, Starting
  <2>6. timer'[c] = "fired" BY <2>1, <1>2
  <2> QED BY <2>1, <2>2, <2>3, <2>4, <2>5, <2>6 DEF Stage
<1>9. CASE Untouched(c) BY <1>1, <1>9, StageKept
<1> QED BY <1>4, <1>5, <1>6, <1>7, <1>8, <1>9, CallerMoves, AdapterMoves, ProverMoves DEF Next

\* An answer is given once.
LEMMA AnsweredOnce ==
  ASSUME Typed, Stages, Tables, [Next]_vars, NEW c \in Evals, answer[c] # ""
  PROVE  answer'[c] = answer[c]
<1>1. CASE CallerSteps \/ ProverSteps \/ UNCHANGED vars
  BY <1>1, CallerFrame, ProverFrame DEF history, vars
<1>2. CASE AdapterSteps
  <2>1. CASE MainReadsEval \/ MainReadsAbort \/ TakesOutput \/ \E d \in Evals : TimerFires(d)
    <3>1. UNCHANGED history
      BY <2>1, Zenon DEF MainReadsEval, MainReadsAbort, TakesOutput, TimerFires
    <3> QED BY <3>1 DEF history
  <2>2. CASE MainReadsResume BY <2>2, Zenon DEF MainReadsResume
  <2>3. CASE RunsPosted
    <3>1. PICK d \in Evals : \/ Head(posted) = Request("start", d) /\ StartEval(d)
                             \/ Head(posted) = Request("backstop", d) /\ Backstop(d)
      BY <2>3, PostedSteps
    <3>2. posted # <<>> BY <2>3, PostedSteps
    <3>3. CASE Head(posted) = Request("start", d) /\ StartEval(d)
      <4>1. Starting(d) # {} BY <3>2, <3>3, PlacesTaken DEF Starting, Typed, Queues
      <4>2. Untried(d) BY <4>1 DEF Stages, Stage
      <4>3. d # c BY <4>2 DEF Untried
      <4> QED BY <3>3, <4>3, StartMoves
    <3>4. CASE Backstop(d)
      <4>1. pending[OnThread[d]] = d => answer[d] = ""
        <5>1. OnThread[d] \in Threads /\ d # NoCall BY CallsApart
        <5> QED BY <5>1 DEF Tables, Pends
      <4> QED BY <3>4, <4>1, BackstopMoves
    <3> QED BY <3>1, <3>3, <3>4
  <2>4. CASE TakesState
    <3>1. PICK t, on : StateTaken(t, on) BY <2>4, StateSteps
    <3>2. t \in Threads BY <3>1, StateMoves
    <3>3. pending[t] \in Evals => answer[pending[t]] = ""
      <4>1. NoCall \notin Evals BY CallsApart
      <4> QED BY <3>2, <4>1 DEF Tables, Pends
    <3> QED BY <3>1, <3>3, StateMoves
  <2>5. CASE TakesExit
    <3>1. answer' = [e \in Evals |-> IF e \in Orphans THEN "crashed" ELSE answer[e]]
      BY <2>5, ExitSteps
    <3>2. c \notin Orphans
      <4>1. OnThread[c] \in Threads /\ c # NoCall BY CallsApart
      <4> QED BY <4>1 DEF Orphans, Tables, Pends
    <3> QED BY <3>1, <3>2
  <2> QED BY <1>2, <2>1, <2>2, <2>3, <2>4, <2>5, Zenon DEF AdapterSteps
<1> QED BY <1>1, <1>2 DEF Next

\* A pending request is not disturbed by a step that leaves its row, its answer and its
\* timer alone and runs another closure than its backstop.
LEMMA PendsKept ==
  ASSUME NEW t \in Threads, Pends(t), UNCHANGED <<pending[t], debt[t]>>,
         UNCHANGED <<answer[pending[t]], timer[pending[t]]>>,
         GivenUp(pending[t]) # {} => GivenUp(pending[t])' # {}
  PROVE  Pends(t)'
<1> DEFINE c == pending[t]
<1>1. pending'[t] = c /\ debt'[t] = debt[t] /\ answer'[c] = answer[c] /\ timer'[c] = timer[c]
  OBVIOUS
<1>2. GivenUp(pending[t])' = Places(posted', {Request("backstop", pending'[t])}) BY DEF GivenUp
<1> HIDE DEF c
<1> QED BY <1>1, <1>2 DEF Pends, GivenUp, c

LEMMA OwesKept ==
  ASSUME Typed, Stages, Tables, [Next]_vars, NEW t \in Threads, Owes(t), UNCHANGED owed[t]
  PROVE  Owes(t)'
<1>1. owed[t] \in Evals /\ answer[owed[t]] # "" BY DEF Owes
<1>2. answer'[owed[t]] = answer[owed[t]] BY <1>1, AnsweredOnce
<1> QED BY <1>2 DEF Owes

\* The closures of evaluation c survive a step that appends, or runs another one.
LEMMA GivenUpKept ==
  ASSUME Typed, NEW c \in Evals, GivenUp(c) # {},
         \/ posted' = posted
         \/ \E m \in Closures : posted' = Append(posted, m)
         \/ posted # <<>> /\ posted' = Tail(posted) /\ Head(posted) # Request("backstop", c)
  PROVE  Places(posted', {Request("backstop", c)}) # {}
<1>1. posted \in Seq(Closures) /\ Places(posted, {Request("backstop", c)}) # {}
  BY DEF Typed, Queues, GivenUp
<1> HIDE DEF Closures, Request
<1>2. ASSUME NEW m \in Closures PROVE Places(Append(posted, m), {Request("backstop", c)}) # {}
  <2>1. CASE m = Request("backstop", c)
    BY <1>1, <2>1, PlacesAdded
  <2>2. CASE m # Request("backstop", c)
    <3>1. m \notin {Request("backstop", c)} BY <2>2
    <3>2. Places(Append(posted, m), {Request("backstop", c)}) = Places(posted, {Request("backstop", c)})
      BY <1>1, <3>1, PlacesAppended
    <3> QED BY <1>1, <3>2
  <2> QED BY <2>1, <2>2
<1>3. CASE posted # <<>> /\ posted' = Tail(posted) /\ Head(posted) # Request("backstop", c)
  <2>1. PICK i : i \in Places(posted, {Request("backstop", c)}) BY <1>1
  <2>2. 1 \notin Places(posted, {Request("backstop", c)}) BY <1>1, <1>3, PlacesTail
  <2>3. i - 1 \in Places(Tail(posted), {Request("backstop", c)}) BY <1>1, <1>3, <2>1, <2>2, PlacesTail
  <2> QED BY <1>3, <2>3
<1> QED BY <1>1, <1>2, <1>3

LEMMA TablesStep ==
  ASSUME Typed, Typed', Stages, Tables, [Next]_vars PROVE Tables'
<1> SUFFICES ASSUME NEW t \in Threads
             PROVE  /\ pending'[t] # NoCall => Pends(t)'
                    /\ debt'[t] > 0 => Owes(t)'
  BY DEF Tables
<1>y. /\ pending \in [Threads -> Evals \cup {NoCall}] /\ debt \in [Threads -> 0 .. 1]
      /\ owed \in [Threads -> Evals \cup {NoCall}]
      /\ timer \in [Evals -> {"off", "armed", "fired"}]
  BY DEF Typed, Adapter, History
<1>c. \A d \in Evals : OnThread[d] \in Threads /\ d # NoCall BY CallsApart
<1>o. \A d \in Evals, u \in Threads : pending[u] = d => OnThread[d] = u
  BY <1>c DEF Tables, Pends
<1>t. /\ pending[t] # NoCall => Pends(t) /\ pending[t] \in Evals
      /\ debt[t] > 0 => Owes(t)
  BY <1>y DEF Tables
<1>0. ASSUME NEW c \in Evals,
             \/ posted' = posted
             \/ \E m \in Closures : posted' = Append(posted, m)
             \/ posted # <<>> /\ posted' = Tail(posted) /\ Head(posted) # Request("backstop", c)
      PROVE  GivenUp(c) # {} => Places(posted', {Request("backstop", c)}) # {}
  BY <1>0, GivenUpKept
<1>1. ASSUME UNCHANGED <<pending, debt, owed, answer, timer>>,
             posted' = posted \/ \E m \in Closures : posted' = Append(posted, m)
      PROVE  (pending'[t] # NoCall => Pends(t)') /\ (debt'[t] > 0 => Owes(t)')
  <2>1. ASSUME pending[t] # NoCall PROVE Pends(t)'
    <3>1. pending[t] \in Evals /\ Pends(t) BY <2>1, <1>t
    <3>2. GivenUp(pending[t]) # {} => GivenUp(pending[t])' # {}
      BY <3>1, <1>0, <1>1 DEF GivenUp
    <3> QED BY <3>1, <3>2, <1>1, PendsKept
  <2>2. ASSUME debt[t] > 0 PROVE Owes(t)' BY <2>2, <1>t, <1>1, OwesKept
  <2> QED BY <1>1, <2>1, <2>2
<1>2. CASE CallerSteps \/ ProverSteps \/ UNCHANGED vars
  BY <1>2, <1>1, CallerFrame, ProverFrame DEF adapter, history, vars
<1>3. CASE MainReadsEval \/ MainReadsResume \/ MainReadsAbort
  <2>1. /\ UNCHANGED <<adapter, answer, owed>>
        /\ \/ posted' = posted
           \/ up # <<>> /\ Head(up).kind = "eval" /\ posted' = Append(posted, Request("start", Head(up).call))
    BY <1>3, Zenon DEF MainReadsEval, MainReadsResume, MainReadsAbort, MainReads, history
  <2>2. up # <<>> /\ Head(up).kind = "eval" => Request("start", Head(up).call) \in Closures
    BY HeadsGiven, MessagesGiven
  <2> HIDE DEF Request
  <2>3. posted' = posted \/ \E m \in Closures : posted' = Append(posted, m) BY <2>1, <2>2
  <2> QED BY <2>1, <2>3, <1>1 DEF adapter
<1>4. CASE RunsPosted
  <2>1. posted # <<>> /\ posted' = Tail(posted) BY <1>4, PostedSteps
  <2>2. PICK d \in Evals : \/ Head(posted) = Request("start", d) /\ StartEval(d)
                           \/ Head(posted) = Request("backstop", d) /\ Backstop(d)
    BY <1>4, PostedSteps
  <2>a. \A c \in Evals : Request("start", d) # Request("backstop", c) BY DEF Request
  <2>b. \A c \in Evals : Request("backstop", d) = Request("backstop", c) => c = d BY DEF Request
  <2>3. CASE Head(posted) = Request("start", d) /\ StartEval(d)
    <3>1. Starting(d) # {} BY <2>1, <2>3, PlacesTaken DEF Starting, Typed, Queues
    <3>2. Untried(d) BY <3>1 DEF Stages, Stage
    <3>3. pending[t] # d /\ owed'[t] = owed[t] /\ debt'[t] = debt[t]
      BY <2>3, <3>2, StartMoves DEF Untried, adapter
    <3>4. ASSUME debt'[t] > 0 PROVE Owes(t)' BY <3>3, <3>4, <1>t, OwesKept
    <3>5. ASSUME pending[t] # NoCall, pending'[t] = pending[t] PROVE Pends(t)'
      <4>1. pending[t] \in Evals /\ Pends(t) BY <3>5, <1>t
      <4>2. answer'[pending[t]] = answer[pending[t]] /\ timer'[pending[t]] = timer[pending[t]]
        BY <4>1, <2>3, <3>3, <1>y, <1>c, <1>o, StartMoves DEF adapter
      <4>3. GivenUp(pending[t]) # {} => GivenUp(pending[t])' # {}
        BY <4>1, <1>0, <2>1, <2>3, <2>a, <3>5 DEF GivenUp
      <4> QED BY <4>1, <4>2, <4>3, <3>3, <3>5, PendsKept
    <3>6. ASSUME pending'[t] # pending[t] PROVE Pends(t)'
      <4>1. /\ t = OnThread[d] /\ pending'[t] = d /\ ~Busy(t) /\ timer'[d] = "armed"
            /\ UNCHANGED <<answer, debt>>
        BY <2>3, <3>6, <1>y, <1>c, <1>o, StartMoves DEF adapter
      <4>2. debt[t] = 0 BY <4>1, <1>y DEF Busy
      <4>3. answer[d] = "" BY <3>2 DEF Untried
      <4> QED BY <4>1, <4>2, <4>3 DEF Pends
    <3> QED BY <3>4, <3>5, <3>6
  <2>4. CASE Head(posted) = Request("backstop", d) /\ Backstop(d)
    <3>1. ASSUME pending'[t] # NoCall PROVE Pends(t)'
      <4>1. /\ pending'[t] = pending[t] /\ debt'[t] = debt[t] /\ timer' = timer
            /\ \A c \in Evals : c # d => answer'[c] = answer[c]
        BY <2>4, <3>1, <1>y, <1>c, <1>o, BackstopMoves
      <4>2. pending[t] \in Evals /\ Pends(t) /\ pending[t] # d
        <5>1. pending[t] \in Evals /\ Pends(t) BY <3>1, <4>1, <1>t
        <5>2. pending[t] = d => OnThread[d] = t /\ pending'[t] = NoCall
          BY <2>4, <1>y, <1>c, <1>o, BackstopMoves
        <5> QED BY <3>1, <5>1, <5>2
      <4>3. GivenUp(pending[t]) # {} => GivenUp(pending[t])' # {}
        BY <4>1, <4>2, <1>0, <2>1, <2>4, <2>b DEF GivenUp
      <4> QED BY <4>1, <4>2, <4>3, PendsKept
    <3>2. ASSUME debt'[t] > 0 PROVE Owes(t)'
      <4>1. CASE pending[OnThread[d]] = d /\ t = OnThread[d]
        <5>1. owed'[t] = d /\ answer'[d] = "timeout" BY <2>4, <4>1, <1>y, <1>c, <1>o, BackstopMoves
        <5> QED BY <4>1, <5>1 DEF Owes
      <4>2. CASE ~(pending[OnThread[d]] = d /\ t = OnThread[d])
        <5>1. owed'[t] = owed[t] /\ debt'[t] = debt[t] BY <2>4, <4>2, <1>y, <1>c, <1>o, BackstopMoves
        <5> QED BY <3>2, <5>1, <1>t, OwesKept
      <4> QED BY <4>1, <4>2
    <3> QED BY <3>1, <3>2
  <2> QED BY <2>2, <2>3, <2>4
<1>5. ASSUME NEW d \in Evals, TimerFires(d)
      PROVE  (pending'[t] # NoCall => Pends(t)') /\ (debt'[t] > 0 => Owes(t)')
  <2>1. /\ timer' = [timer EXCEPT ![d] = "fired"] /\ posted' = Append(posted, Request("backstop", d))
        /\ UNCHANGED <<pending, debt, history>>
    BY <1>5, Zenon DEF TimerFires
  <2>2. UNCHANGED <<answer, owed>> BY <2>1 DEF history
  <2>3. Request("backstop", d) \in Closures BY MessagesGiven
  <2>4. ASSUME pending[t] # NoCall PROVE Pends(t)'
    <3>1. pending[t] \in Evals /\ Pends(t) BY <2>4, <1>t
    <3>2. CASE pending[t] = d
      <4>1. Places(posted', {Request("backstop", d)}) # {}
        BY <2>1, <2>3, PlacesAdded DEF Typed, Queues
      <4> QED BY <2>1, <2>2, <3>1, <3>2, <4>1 DEF Pends, GivenUp
    <3>3. CASE pending[t] # d
      <4>1. GivenUp(pending[t]) # {} => GivenUp(pending[t])' # {}
        <5> HIDE DEF Closures, Request
        <5> QED BY <3>1, <1>0, <2>1, <2>3 DEF GivenUp
      <4> QED BY <2>1, <2>2, <3>1, <3>3, <4>1, <1>t, PendsKept
    <3> QED BY <3>2, <3>3
  <2>5. ASSUME debt[t] > 0 PROVE Owes(t)' BY <2>5, <1>t, <2>1, <2>2, OwesKept
  <2> QED BY <2>1, <2>4, <2>5
<1>6. CASE TakesState
  <2>1. PICK u, on : StateTaken(u, on) BY <1>6, StateSteps
  <2>2. ASSUME pending'[t] # NoCall PROVE Pends(t)'
    <3>1. /\ u # t /\ pending'[t] = pending[t] /\ debt'[t] = debt[t] /\ posted' = posted
      BY <2>1, <2>2, <1>y, <1>c, <1>o, StateMoves
    <3>2. pending[t] \in Evals /\ Pends(t) BY <2>2, <3>1, <1>t
    <3>3. pending[u] \in Evals => pending[u] # pending[t]
      <4>1. u \in Threads BY <2>1, StateMoves
      <4> QED BY <3>1, <4>1, <1>o
    <3>4. answer'[pending[t]] = answer[pending[t]] /\ timer'[pending[t]] = timer[pending[t]]
      <4>1. \/ /\ pending[u] \in Evals /\ timer' = Cancelled({pending[u]})
               /\ \A c \in Evals : c # pending[u] => answer'[c] = answer[c]
            \/ UNCHANGED <<timer, answer>>
        BY <2>1, StateMoves
      <4>2. pending[t] \notin {pending[u]} \/ UNCHANGED <<timer, answer>> BY <4>1, <3>3
      <4> QED BY <3>2, <3>3, <4>1, <4>2, CancelledGiven
    <3>5. GivenUp(pending[t]) # {} => GivenUp(pending[t])' # {} BY <3>1, <3>2, <1>0 DEF GivenUp
    <3> QED BY <3>1, <3>2, <3>4, <3>5, PendsKept
  <2>3. ASSUME debt'[t] > 0 PROVE Owes(t)'
    <3>1. \/ UNCHANGED <<debt, owed>>
          \/ debt' = [debt EXCEPT ![u] = 0] /\ owed' = [owed EXCEPT ![u] = NoCall] /\ debt'[u] = 0
      BY <2>1, StateMoves
    <3>2. u # t \/ UNCHANGED <<debt, owed>> BY <2>3, <3>1
    <3>3. debt'[t] = debt[t] /\ owed'[t] = owed[t] BY <3>1, <3>2, <1>y
    <3> QED BY <2>3, <3>3, <1>t, OwesKept
  <2> QED BY <2>2, <2>3
<1>7. CASE TakesOutput
  <2>1. UNCHANGED <<posted, pending, debt, timer, history>> BY <1>7, Zenon DEF TakesOutput
  <2> QED BY <2>1, <1>1 DEF history
<1>8. CASE TakesExit
  <2>1. pending'[t] = NoCall /\ debt'[t] = 0 BY <1>8, ExitSteps
  <2> QED BY <2>1
<1> QED BY <1>2, <1>3, <1>4, <1>5, <1>6, <1>7, <1>8, Zenon DEF Next, AdapterSteps

-----------------------------------------------------------------------------
(* The adapter implements the promise of OneReply.                         *)

Rows(t) == <<pending[t], debt[t], owed[t]>>

LEMMA OwnerKept == ASSUME \A t \in Threads : UNCHANGED Rows(t) PROVE Owner' = Owner
<1>1. \A t \in Threads : pending'[t] = pending[t] /\ debt'[t] = debt[t] /\ owed'[t] = owed[t]
  BY DEF Rows
<1> QED BY <1>1 DEF Owner

LEMMA OwnerSet ==
  ASSUME NEW t \in Threads, NEW v, Owner'[t] = v,
         \A u \in Threads : u # t => UNCHANGED Rows(u)
  PROVE  Owner' = [Owner EXCEPT ![t] = v]
<1>1. \A u \in Threads : u # t => pending'[u] = pending[u] /\ debt'[u] = debt[u] /\ owed'[u] = owed[u]
  BY DEF Rows
<1>2. \A u \in Threads : u # t => Owner'[u] = Owner[u] BY <1>1 DEF Owner
<1>3. Owner = [u \in Threads |-> Owner[u]] /\ Owner' = [u \in Threads |-> Owner'[u]] BY DEF Owner
<1> HIDE DEF Owner
<1> QED BY <1>2, <1>3

\* Whom a thread works for, by the tables.
LEMMA OwnerIs ==
  ASSUME NEW t \in Threads
  PROVE  /\ pending[t] # NoCall => Owner[t] = pending[t]
         /\ pending[t] = NoCall /\ debt[t] > 0 => Owner[t] = owed[t]
         /\ pending[t] = NoCall /\ ~(debt[t] > 0) => Owner[t] = NoCall
BY DEF Owner

LEMMA OwnerBecomes ==
  ASSUME NEW t \in Threads
  PROVE  /\ pending'[t] # NoCall => Owner'[t] = pending'[t]
         /\ pending'[t] = NoCall /\ debt'[t] > 0 => Owner'[t] = owed'[t]
         /\ pending'[t] = NoCall /\ ~(debt'[t] > 0) => Owner'[t] = NoCall
BY DEF Owner

\* An evaluation no thread was given owns none.
LEMMA UntriedOwnsNothing ==
  ASSUME Typed, Tables, NEW c \in Evals, Untried(c), NEW t \in Threads
  PROVE  Owner[t] # c
<1>1. /\ pending[t] # c /\ answer[c] = "" /\ c # NoCall BY CallsApart DEF Untried
<1>2. CASE pending[t] = NoCall /\ debt[t] > 0
  <2>1. answer[owed[t]] = "timeout" BY <1>2 DEF Tables, Owes
  <2> QED BY <1>1, <1>2, <2>1, OwnerIs
<1> QED BY <1>1, <1>2, OwnerIs

LEMMA StartPromised ==
  ASSUME Typed, Stages, Tables, NEW c \in Evals, posted # <<>>, Head(posted) = Request("start", c),
         StartEval(c)
  PROVE  Promise!Accept(c) \/ Promise!Refuse(c)
<1> DEFINE t == OnThread[c]
<1>0. t \in Threads /\ c # NoCall BY CallsApart
<1>1. Starting(c) # {} BY PlacesTaken DEF Starting, Typed, Queues
<1>2. Untried(c) BY <1>1 DEF Stages, Stage
<1>3. Owner[t] # c BY <1>0, <1>2, UntriedOwnsNothing
<1>4. answer[c] = "" BY <1>2 DEF Untried
<1>5. CASE StartRefused(c)
  <2>1. UNCHANGED <<adapter, owed>> BY <1>5, Zenon DEF StartRefused
  <2>2. Owner' = Owner BY <2>1, OwnerKept DEF adapter, Rows
  <2>3. answer' = [answer EXCEPT ![c] = IF Busy(t) THEN "busy" ELSE "not_stopped"]
    BY <1>5, Zenon DEF StartRefused, Respond
  <2>4. Busy(t) => Owner[t] # NoCall
    <3>1. debt[t] > 0 => owed[t] # NoCall
      <4>1. debt[t] > 0 => owed[t] \in Evals BY <1>0 DEF Tables, Owes
      <4> QED BY <4>1, CallsApart
    <3> QED BY <1>0, <3>1, OwnerIs DEF Busy
  <2> HIDE DEF t
  <2> QED BY <1>3, <1>4, <2>2, <2>3, <2>4 DEF Promise!Refuse, Promise!Replied, t
<1>6. CASE StartAccepted(c)
  <2>1. /\ ~Busy(t) /\ pending' = [pending EXCEPT ![t] = c] /\ UNCHANGED <<debt, answer, owed>>
    BY <1>6, Zenon DEF StartAccepted
  <2>2. pending'[t] = c /\ \A u \in Threads : u # t => UNCHANGED Rows(u)
    BY <2>1, <1>0 DEF Typed, Adapter, Rows
  <2>3. Owner'[t] = c BY <2>2, <1>0, OwnerBecomes
  <2> HIDE DEF t
  <2>4. Owner' = [Owner EXCEPT ![t] = c] BY <2>2, <2>3, <1>0, OwnerSet
  <2>5. Owner[t] = NoCall BY <2>1, <1>0, OwnerIs DEF Busy
  <2> QED BY <1>4, <2>1, <2>4, <2>5 DEF Promise!Accept, t
<1> QED BY <1>5, <1>6 DEF StartEval

LEMMA BackstopPromised ==
  ASSUME Typed, Tables, NEW c \in Evals, Backstop(c)
  PROVE  Promise!Expire(c) \/ UNCHANGED <<Owner, answer>>
<1> DEFINE t == OnThread[c]
<1>0. t \in Threads /\ c # NoCall BY CallsApart
<1>1. CASE pending[t] # c
  <2>1. UNCHANGED <<pending, debt, owed, answer>> BY <1>1, BackstopMoves
  <2> QED BY <2>1, OwnerKept DEF Rows
<1>2. CASE pending[t] = c
  <2>1. /\ pending' = [pending EXCEPT ![t] = NoCall] /\ debt' = [debt EXCEPT ![t] = debt[t] + 1]
        /\ owed' = [owed EXCEPT ![t] = c] /\ Respond(c, "timeout", gathered[t], <<>>)
    BY <1>2, BackstopMoves
  <2>2. answer' = [answer EXCEPT ![c] = "timeout"] BY <2>1, Zenon DEF Respond
  <2>3. answer[c] = "" /\ debt[t] = 0 BY <1>0, <1>2 DEF Tables, Pends
  <2>4. /\ pending'[t] = NoCall /\ debt'[t] > 0 /\ owed'[t] = c
        /\ \A u \in Threads : u # t => UNCHANGED Rows(u)
    <3>1. /\ pending \in [Threads -> Evals \cup {NoCall}] /\ debt \in [Threads -> 0 .. 1]
          /\ owed \in [Threads -> Evals \cup {NoCall}]
      BY DEF Typed, Adapter, History
    <3> HIDE DEF t
    <3>2. /\ pending' = [pending EXCEPT ![t] = NoCall] /\ debt' = [debt EXCEPT ![t] = 0 + 1]
          /\ owed' = [owed EXCEPT ![t] = c]
      BY <2>1, <2>3
    <3>4. pending'[t] = NoCall /\ debt'[t] = 1 /\ owed'[t] = c BY <3>2, <3>1, <1>0
    <3>3. \A u \in Threads : u # t => /\ pending'[u] = pending[u] /\ debt'[u] = debt[u]
                                       /\ owed'[u] = owed[u]
      BY <2>1, <3>1, <1>0
    <3> QED BY <3>4, <3>3 DEF Rows
  <2>5. Owner'[t] = c /\ Owner[t] = c BY <2>4, <1>0, <1>2, OwnerBecomes, OwnerIs
  <2> HIDE DEF t
  <2>6. Owner' = [Owner EXCEPT ![t] = c] BY <2>4, <2>5, <1>0, OwnerSet
  <2>7. Owner' = Owner BY <2>5, <2>6 DEF Owner
  <2> QED BY <2>2, <2>3, <2>5, <2>7 DEF Promise!Expire, Promise!Replied, t
<1> QED BY <1>1, <1>2

LEMMA StatePromised ==
  ASSUME Typed, Tables, NEW t, NEW on, StateTaken(t, on)
  PROVE  \/ \E c \in Evals : Promise!Answer(c) \/ Promise!Settle(c)
         \/ UNCHANGED <<Owner, answer>>
<1>1. t \in Threads /\ pending' = [pending EXCEPT ![t] = NoCall] /\ pending'[t] = NoCall
  BY StateMoves
<1>y. pending \in [Threads -> Evals \cup {NoCall}] /\ debt \in [Threads -> 0 .. 1]
      /\ owed \in [Threads -> Evals \cup {NoCall}]
  BY DEF Typed, Adapter, History
<1>2. CASE pending[t] # NoCall
  <2> DEFINE c == pending[t]
  <2>1. /\ c \in Evals /\ UNCHANGED <<debt, owed>>
        /\ Respond(c, IF on THEN "ok" ELSE "resumed", gathered[t], <<State(threads')>>)
    <3>1. \/ /\ pending[t] \in Evals /\ UNCHANGED <<debt, owed>>
             /\ Respond(pending[t], IF on THEN "ok" ELSE "resumed", gathered[t], <<State(threads')>>)
          \/ pending[t] = NoCall
      BY Zenon DEF StateTaken
    <3> QED BY <1>2, <3>1, Zenon
  <2>2. answer' = [answer EXCEPT ![c] = IF on THEN "ok" ELSE "resumed"] BY <2>1, Zenon DEF Respond
  <2>3. answer[c] = "" /\ debt[t] = 0 /\ OnThread[c] = t BY <1>1, <1>2 DEF Tables, Pends
  <2>4. ~(debt'[t] > 0) /\ \A u \in Threads : u # t => UNCHANGED Rows(u)
    <3>1. debt'[t] = 0 BY <2>1, <2>3
    <3>2. \A u \in Threads : u # t => pending'[u] = pending[u] BY <1>1, <1>y
    <3> QED BY <2>1, <3>1, <3>2 DEF Rows
  <2>5. Owner'[t] = NoCall /\ Owner[t] = c BY <1>1, <1>2, <2>4, OwnerBecomes, OwnerIs
  <2> HIDE DEF c
  <2>6. Owner' = [Owner EXCEPT ![OnThread[c]] = NoCall] BY <1>1, <2>3, <2>4, <2>5, OwnerSet
  <2>7. Promise!Answer(c)
    BY <2>2, <2>3, <2>5, <2>6 DEF Promise!Answer, Promise!Replied
  <2> QED BY <2>1, <2>7
<1>3. CASE pending[t] = NoCall
  <2>1. /\ debt' = [debt EXCEPT ![t] = 0] /\ debt'[t] = 0 /\ owed' = [owed EXCEPT ![t] = NoCall]
        /\ UNCHANGED answer
    BY <1>3, CallsApart, StateMoves
  <2>2. \A u \in Threads : u # t => UNCHANGED Rows(u) BY <1>1, <1>y, <2>1 DEF Rows
  <2>3. Owner'[t] = NoCall BY <1>1, <2>1, OwnerBecomes
  <2>4. Owner' = [Owner EXCEPT ![t] = NoCall] BY <1>1, <2>2, <2>3, OwnerSet
  <2>5. CASE debt[t] > 0
    <3>1. owed[t] \in Evals /\ OnThread[owed[t]] = t /\ answer[owed[t]] = "timeout"
      BY <1>1, <2>5 DEF Tables, Owes
    <3>2. Owner[t] = owed[t] BY <1>1, <1>3, <2>5, OwnerIs
    <3>3. Promise!Settle(owed[t]) BY <2>1, <2>4, <3>1, <3>2 DEF Promise!Settle
    <3> QED BY <3>1, <3>3
  <2>6. CASE ~(debt[t] > 0)
    <3>1. Owner[t] = NoCall BY <1>1, <1>3, <2>6, OwnerIs
    <3>2. Owner' = Owner BY <2>4, <3>1 DEF Owner
    <3> QED BY <2>1, <3>2
  <2> QED BY <2>5, <2>6
<1> QED BY <1>2, <1>3

LEMMA ExitPromised == ASSUME Typed, Tables, TakesExit PROVE Promise!Crash
<1>1. /\ pending' = [t \in Threads |-> NoCall] /\ debt' = [t \in Threads |-> 0]
      /\ answer' = [c \in Evals |-> IF c \in Orphans THEN "crashed" ELSE answer[c]]
  BY ExitSteps
<1>2. Owner' = [t \in Threads |-> NoCall] BY <1>1 DEF Owner
<1>3. \A c \in Evals : c \in Orphans <=> Owner[OnThread[c]] = c /\ answer[c] = ""
  <2> TAKE c \in Evals
  <2> DEFINE t == OnThread[c]
  <2>1. t \in Threads /\ c # NoCall BY CallsApart
  <2>2. pending[t] = c => answer[c] = "" BY <2>1 DEF Tables, Pends
  <2>3. pending[t] = NoCall /\ debt[t] > 0 => answer[owed[t]] = "timeout" BY <2>1 DEF Tables, Owes
  <2>4. c \in Orphans <=> pending[t] = c BY DEF Orphans
  <2> HIDE DEF t
  <2> QED BY <2>1, <2>2, <2>3, <2>4, OwnerIs DEF t
<1>4. answer' = [c \in Evals |-> IF Owner[OnThread[c]] = c /\ answer[c] = "" THEN "crashed"
                                 ELSE answer[c]]
  BY <1>1, <1>3
<1> QED BY <1>2, <1>4 DEF Promise!Crash

LEMMA Promised ==
  ASSUME Typed, Stages, Tables, [Next]_vars PROVE [Promise!Next]_(Promise!vars)
<1>0. ASSUME UNCHANGED <<pending, debt, owed, answer>> PROVE UNCHANGED Promise!vars
  <2>1. Owner' = Owner BY <1>0, OwnerKept DEF Rows
  <2> QED BY <1>0, <2>1 DEF Promise!vars
<1>1. CASE CallerSteps \/ ProverSteps \/ UNCHANGED vars
  BY <1>0, <1>1, CallerFrame, ProverFrame DEF adapter, history, vars
<1>2. CASE MainReadsEval \/ MainReadsResume \/ MainReadsAbort \/ TakesOutput
  <2>1. UNCHANGED <<pending, debt, owed, answer>>
    BY <1>2, Zenon DEF MainReadsEval, MainReadsResume, MainReadsAbort, TakesOutput, adapter, history
  <2> QED BY <2>1, <1>0
<1>3. ASSUME NEW c \in Evals, TimerFires(c) PROVE UNCHANGED Promise!vars
  <2>1. UNCHANGED <<pending, debt, owed, answer>> BY <1>3, Zenon DEF TimerFires, history
  <2> QED BY <2>1, <1>0
<1>4. CASE RunsPosted
  <2>1. PICK c \in Evals : \/ Head(posted) = Request("start", c) /\ StartEval(c)
                           \/ Head(posted) = Request("backstop", c) /\ Backstop(c)
    BY <1>4, PostedSteps
  <2>2. posted # <<>> BY <1>4, PostedSteps
  <2>3. Promise!Accept(c) \/ Promise!Refuse(c) \/ Promise!Expire(c) \/ UNCHANGED <<Owner, answer>>
    BY <2>1, <2>2, StartPromised, BackstopPromised
  <2> QED BY <2>3 DEF Promise!Next, Promise!vars
<1>5. CASE TakesState
  <2>1. PICK t, on : StateTaken(t, on) BY <1>5, StateSteps
  <2> QED BY <2>1, StatePromised DEF Promise!Next, Promise!vars
<1>6. CASE TakesExit BY <1>6, ExitPromised DEF Promise!Next
<1> QED BY <1>1, <1>2, <1>3, <1>4, <1>5, <1>6, Zenon DEF Next, AdapterSteps

-----------------------------------------------------------------------------
(* What the client is told, and in which order.                            *)

\* Message m completes an evaluation, and says whether its thread stopped again.
Completes(m) == m.kind = "reply" /\ m.status \in {"ok", "resumed"}
Agrees(m, S) == OnThread[m.call] \in S <=> m.status = "ok"

\* Every completion in r comes right behind a state that agrees with it.
Orderly(r) ==
  \A i \in 1 .. Len(r) : Completes(r[i]) =>
    i > 1 /\ r[i - 1].kind = "state" /\ Agrees(r[i], r[i - 1].stopped)

\* So in the channel, where the state may be read already.
Told ==
  \A i \in 1 .. Len(down) : Completes(down[i]) =>
    \/ i > 1 /\ down[i - 1].kind = "state" /\ Agrees(down[i], down[i - 1].stopped)
    \/ i = 1 /\ Agrees(down[i], view)

LEMMA ToldIsStateBeforeReply == ASSUME Typed, Told PROVE StateBeforeReply
<1> SUFFICES ASSUME NEW i \in 1 .. Len(down), Completes(down[i])
             PROVE  Agrees(down[i], KnownAt(i))
  <2>1. DOMAIN down = 1 .. Len(down) BY DEF Typed, Queues
  <2> QED BY <2>1 DEF StateBeforeReply, Completes, Agrees
<1> DEFINE earlier == {j \in 1 .. i - 1 : down[j].kind = "state"}
<1>0. Len(down) \in Nat BY DEF Typed, Queues
<1>1. KnownAt(i) = IF earlier = {} THEN view ELSE down[Max(earlier)].stopped BY DEF KnownAt
<1>2. CASE i = 1
  <2>1. earlier = {} BY <1>2
  <2> HIDE DEF earlier
  <2> QED BY <1>1, <1>2, <2>1 DEF Told
<1>3. CASE i # 1
  <2>1. down[i - 1].kind = "state" /\ Agrees(down[i], down[i - 1].stopped) BY <1>3 DEF Told
  <2>2. i - 1 \in earlier /\ earlier \in SUBSET (0 .. i - 1) /\ i - 1 \in Nat BY <1>0, <1>3, <2>1
  <2>3. \A j \in earlier : j <= i - 1 /\ j \in Nat OBVIOUS
  <2> HIDE DEF earlier
  <2>4. Max(earlier) \in earlier /\ \A j \in earlier : j <= Max(earlier) BY <2>2, MaxIsGreatest
  <2> DEFINE top == Max(earlier)
  <2>5. top \in earlier /\ \A j \in earlier : j <= top BY <2>4
  <2> HIDE DEF top
  <2>6. top = i - 1
    <3>1. top <= i - 1 /\ top \in Nat /\ i - 1 <= top BY <2>2, <2>3, <2>5
    <3> QED BY <2>2, <3>1
  <2> QED BY <1>1, <2>1, <2>2, <2>6 DEF top
<1> QED BY <1>2, <1>3

LEMMA ToldGrows ==
  ASSUME Typed, Told, NEW r \in Seq(DownMessages), Orderly(r), down' = down \o r, UNCHANGED view
  PROVE  Told'
<1> HIDE DEF DownMessages
<1>1. /\ down \in Seq(DownMessages) /\ Len(down) \in Nat /\ Len(r) \in Nat
      /\ Len(down') = Len(down) + Len(r)
      /\ \A i \in 1 .. Len(down) : down'[i] = down[i]
      /\ \A i \in Len(down) + 1 .. Len(down) + Len(r) : down'[i] = r[i - Len(down)]
  BY Joined DEF Typed, Queues
<1>2. ASSUME NEW i \in 1 .. Len(down'), Completes(down'[i])
      PROVE  \/ i > 1 /\ down'[i - 1].kind = "state" /\ Agrees(down'[i], down'[i - 1].stopped)
             \/ i = 1 /\ Agrees(down'[i], view')
  <2>1. CASE i \in 1 .. Len(down)
    <3>1. down'[i] = down[i] /\ (i > 1 => down'[i - 1] = down[i - 1]) BY <1>1, <2>1
    <3> QED BY <1>2, <2>1, <3>1 DEF Told
  <2>2. CASE i \notin 1 .. Len(down)
    <3> DEFINE k == i - Len(down)
    <3>1. k \in 1 .. Len(r) /\ down'[i] = r[k] BY <1>1, <1>2, <2>2
    <3>2. k > 1 /\ r[k - 1].kind = "state" /\ Agrees(r[k], r[k - 1].stopped)
      BY <1>2, <3>1 DEF Orderly
    <3>3. down'[i - 1] = r[k - 1] /\ i > 1 BY <1>1, <3>1, <3>2
    <3> HIDE DEF k
    <3> QED BY <3>1, <3>2, <3>3
  <2> QED BY <2>1, <2>2
<1> QED BY <1>2 DEF Told, Completes, Agrees

\* Whatever the adapter does, it appends, and in order.
LEMMA DownMoves ==
  ASSUME Typed, Tables, AdapterSteps
  PROVE  \E r \in Seq(DownMessages) : Orderly(r) /\ down' = down \o r
<1>d. down \in Seq(DownMessages) BY DEF Typed, Queues
<1>0. ASSUME down' = down PROVE \E r \in Seq(DownMessages) : Orderly(r) /\ down' = down \o r
  <2> HIDE DEF DownMessages
  <2>1. <<>> \in Seq(DownMessages) /\ Orderly(<<>>) BY DEF Orderly
  <2>2. down \o <<>> = down BY <1>d
  <2> QED BY <1>0, <2>1, <2>2
<1>1. ASSUME NEW m \in DownMessages, ~Completes(m), down' = Append(down, m)
      PROVE  \E r \in Seq(DownMessages) : Orderly(r) /\ down' = down \o r
  <2> HIDE DEF DownMessages
  <2>1. <<m>> \in Seq(DownMessages) /\ Orderly(<<m>>) BY <1>1 DEF Orderly
  <2>2. down \o <<m>> = Append(down, m) BY <1>d, <1>1
  <2> QED BY <1>1, <2>1, <2>2
<1>2. ASSUME NEW c \in Evals, NEW s \in Statuses \ {"ok", "resumed"}, NEW texts,
             Respond(c, s, texts, <<>>)
      PROVE  \E r \in Seq(DownMessages) : Orderly(r) /\ down' = down \o r
  <2>1. down' = down \o Append(<<>>, Reply(c, s)) BY <1>2, Zenon DEF Respond
  <2>2. Reply(c, s) \in DownMessages /\ ~Completes(Reply(c, s))
    <3>1. ~Completes(Reply(c, s)) BY DEF Completes, Reply
    <3> QED BY <3>1, MessagesGiven
  <2> DEFINE m == Reply(c, s)
  <2> HIDE DEF m, DownMessages
  <2>3. m \in DownMessages /\ ~Completes(m) BY <2>2 DEF m
  <2>4. down' = Append(down, m)
    <3>1. down' = down \o Append(<<>>, m) BY <2>1 DEF m
    <3> QED BY <3>1, <2>3, <1>d
  <2> QED BY <2>3, <2>4, <1>1
<1>3. CASE MainReadsEval \/ MainReadsResume \/ TakesOutput \/ \E c \in Evals : TimerFires(c)
  <2>1. down' = down BY <1>3, Zenon DEF MainReadsEval, MainReadsResume, TakesOutput, TimerFires
  <2> QED BY <2>1, <1>0
<1>4. CASE MainReadsAbort
  <2>1. PICK s \in {"no_evaluation", "aborting"} : down' = Append(down, Reply(Head(up).call, s))
    BY <1>4 DEF MainReadsAbort
  <2>2. up # <<>> /\ Head(up).kind = "abort" BY <1>4, Zenon DEF MainReadsAbort, MainReads
  <2>3. Head(up).call \in Aborts BY <2>2, HeadsGiven
  <2>4. Reply(Head(up).call, s) \in DownMessages
    <3>1. s = "no_evaluation" \/ s = "aborting" OBVIOUS
    <3> QED BY <2>3, <3>1, MessagesGiven
  <2>5. ~Completes(Reply(Head(up).call, s)) BY DEF Completes, Reply
  <2> QED BY <2>1, <2>4, <2>5, <1>1
<1>5. CASE RunsPosted
  <2>1. PICK d \in Evals : StartEval(d) \/ Backstop(d) BY <1>5, PostedSteps
  <2>2. CASE StartRefused(d)
    <3>1. PICK s \in {"busy", "not_stopped"} : Respond(d, s, {}, <<>>) BY <2>2 DEF StartRefused
    <3>2. s \in Statuses \ {"ok", "resumed"} BY DEF Statuses
    <3> QED BY <3>1, <3>2, <1>2
  <2>3. CASE StartAccepted(d)
    <3>1. down' = down BY <2>3, Zenon DEF StartAccepted
    <3> QED BY <3>1, <1>0
  <2>4. CASE Backstop(d)
    <3>1. down' = down \/ Respond(d, "timeout", gathered[OnThread[d]], <<>>)
      BY <2>4, BackstopMoves
    <3>2. "timeout" \in Statuses \ {"ok", "resumed"} BY DEF Statuses
    <3> QED BY <3>1, <3>2, <1>0, <1>2
  <2> QED BY <2>1, <2>2, <2>3, <2>4 DEF StartEval
<1>6. CASE TakesState
  <2>1. PICK t, on : StateTaken(t, on) BY <1>6, StateSteps
  <2>2. /\ t \in Threads /\ on \in BOOLEAN
        /\ threads' = IF on THEN threads \cup {t} ELSE threads \ {t}
    BY <2>1, Zenon DEF StateTaken
  <2>3. threads' \in SUBSET Threads BY <2>2 DEF Typed, Adapter
  <2>4. State(threads') \in DownMessages BY <2>3, MessagesGiven
  <2>5. State(threads').kind = "state" /\ State(threads').stopped = threads' BY DEF State
  <2>6. t \in threads' <=> on BY <2>2
  <2>7. CASE pending[t] # NoCall
    <3> DEFINE c == pending[t]
               s == IF on THEN "ok" ELSE "resumed"
               a == State(threads')
               b == Reply(c, s)
    <3>1. c \in Evals /\ OnThread[c] = t
      <4>1. pending \in [Threads -> Evals \cup {NoCall}] BY DEF Typed, Adapter
      <4>2. OnThread[pending[t]] = t BY <2>2, <2>7 DEF Tables, Pends
      <4> QED BY <2>2, <2>7, <4>1, <4>2
    <3>2. s \in Statuses /\ (s = "ok" <=> on) BY <2>2 DEF Statuses
    <3>3. down' = down \o Append(<<a>>, b) BY <2>1, <2>7, Zenon DEF StateTaken, Respond
    <3>4. b \in DownMessages BY <3>1, <3>2, MessagesGiven
    <3>5. b.kind = "reply" /\ b.call = c /\ b.status = s BY DEF Reply
    <3>6. ~Completes(a) BY <2>5 DEF Completes
    <3>7. Agrees(b, a.stopped) BY <2>5, <2>6, <3>1, <3>2, <3>5 DEF Agrees
    <3>8. a \in DownMessages /\ a.kind = "state" BY <2>4, <2>5
    <3> HIDE DEF a, b, c, s, DownMessages
    <3> DEFINE r == Append(<<a>>, b)
    <3>9. r \in Seq(DownMessages) /\ Len(r) = 2 /\ r[1] = a /\ r[2] = b
      <4>1. <<a>> \in Seq(DownMessages) /\ Len(<<a>>) = 1 /\ <<a>>[1] = a BY <3>8
      <4> QED BY <3>4, <4>1, Appended
    <3> HIDE DEF r
    <3>10. Orderly(r)
      <4>1. \A i \in 1 .. 2 : i = 1 \/ i = 2 OBVIOUS
      <4> QED BY <3>6, <3>7, <3>8, <3>9, <4>1 DEF Orderly
    <3> QED BY <3>3, <3>9, <3>10 DEF r
  <2>8. CASE pending[t] = NoCall
    <3>1. down' = Append(down, State(threads')) BY <2>1, <2>8, CallsApart, StateMoves
    <3>2. ~Completes(State(threads')) BY <2>5 DEF Completes
    <3> HIDE DEF DownMessages
    <3> QED BY <2>4, <3>1, <3>2, <1>1
  <2> QED BY <2>7, <2>8
<1>7. CASE TakesExit
  <2>1. PICK r \in Seq(DownMessages) :
          down' = down \o r /\ \A i \in 1 .. Len(r) : r[i].kind = "reply" => r[i].status = "crashed"
    BY <1>7, ExitSteps
  <2>2. Orderly(r) BY <2>1 DEF Orderly, Completes
  <2> QED BY <2>1, <2>2
<1> QED BY <1>3, <1>4, <1>5, <1>6, <1>7, Zenon DEF AdapterSteps

LEMMA ToldStep == ASSUME Typed, Tables, Told, [Next]_vars PROVE Told'
<1>1. ASSUME UNCHANGED <<down, view>> PROVE Told' BY <1>1 DEF Told
<1>2. CASE ProverSteps \/ UNCHANGED vars BY <1>1, <1>2, ProverFrame DEF vars, callers
<1>3. CASE AdapterSteps
  <2>1. UNCHANGED view BY <1>3, AdapterFrame DEF callers
  <2> QED BY <1>3, <2>1, DownMoves, ToldGrows
<1>4. CASE CallerSteps
  <2>1. CASE down # <<>> /\ down' = Tail(down)
             /\ \/ Head(down).kind = "state" /\ view' = Head(down).stopped
                \/ Head(down).kind = "reply" /\ view' = view
    <3> HIDE DEF DownMessages
    <3>1. /\ Len(down') = Len(down) - 1 /\ Len(down) \in Nat \ {0} /\ Head(down) = down[1]
          /\ \A i \in 1 .. Len(down') : down'[i] = down[i + 1]
      BY <2>1, Shifted DEF Typed, Queues
    <3>2. ASSUME NEW i \in 1 .. Len(down'), Completes(down'[i])
          PROVE  \/ i > 1 /\ down'[i - 1].kind = "state" /\ Agrees(down'[i], down'[i - 1].stopped)
                 \/ i = 1 /\ Agrees(down'[i], view')
      <4>1. i + 1 \in 1 .. Len(down) /\ i + 1 > 1 /\ down'[i] = down[i + 1] BY <3>1
      <4>2. down[i].kind = "state" /\ Agrees(down[i + 1], down[i].stopped)
        BY <3>2, <4>1 DEF Told
      <4>3. CASE i = 1 BY <2>1, <3>1, <4>1, <4>2, <4>3
      <4>4. CASE i # 1
        <5>1. down'[i - 1] = down[i] /\ i > 1 BY <3>1, <4>4
        <5> QED BY <4>1, <4>2, <5>1
      <4> QED BY <4>3, <4>4
    <3> QED BY <3>2 DEF Told, Completes, Agrees
  <2>2. CASE ClientReadsState
    <3>1. down # <<>> /\ Head(down).kind = "state" /\ down' = Tail(down) /\ view' = Head(down).stopped
      BY <2>2, Zenon DEF ClientReadsState
    <3> QED BY <2>1, <3>1
  <2>3. CASE ClientReadsReply
    <3>1. down # <<>> /\ Head(down).kind = "reply" /\ down' = Tail(down) /\ view' = view
      BY <2>3, Zenon DEF ClientReadsReply
    <3> QED BY <2>1, <3>1
  <2>4. CASE ~ClientReadsState /\ ~ClientReadsReply
    <3>1. UNCHANGED <<down, view>>
      BY <1>4, <2>4, Zenon DEF CallerSteps, EvalStarts, EvalDropped, ResumeStarts, AbortStarts,
         AbortAgain, AbortAsks, AbortEnds
    <3> QED BY <3>1, <1>1
  <2> QED BY <2>2, <2>3, <2>4
<1> QED BY <1>2, <1>3, <1>4 DEF Next

-----------------------------------------------------------------------------
(* Nobody is forgotten.                                                    *)

RepliesTo(c) == {Reply(c, s) : s \in Statuses}
Replied(c)   == Places(down, RepliesTo(c))

Waits(c) == pc[c] = "sent" => \/ Asked(c) # {} \/ Starting(c) # {}
                              \/ pending[OnThread[c]] = c \/ Replied(c) # {}
Waited == \A c \in Evals : Waits(c)

LEMMA WaitedIsNoneForgotten == ASSUME Typed, Tables, Waited PROVE NoneForgotten
<1> SUFFICES ASSUME NEW c \in Evals, pc[c] = "sent"
             PROVE  \/ \E i \in DOMAIN up : up[i] = Request("eval", c)
                    \/ \E i \in DOMAIN posted : posted[i] = Request("start", c)
                    \/ /\ pending[OnThread[c]] = c
                       /\ timer[c] = "armed" \/ \E i \in DOMAIN posted : posted[i] = Request("backstop", c)
                    \/ \E i \in DOMAIN down : down[i].kind = "reply" /\ down[i].call = c
  BY DEF NoneForgotten
<1>1. DOMAIN up = 1 .. Len(up) /\ DOMAIN posted = 1 .. Len(posted) /\ DOMAIN down = 1 .. Len(down)
  BY DEF Typed, Queues
<1>2. Asked(c) # {} \/ Starting(c) # {} \/ pending[OnThread[c]] = c \/ Replied(c) # {}
  BY DEF Waited, Waits
<1>3. ASSUME Asked(c) # {} PROVE \E i \in DOMAIN up : up[i] = Request("eval", c)
  BY <1>1, <1>3 DEF Asked, Places
<1>4. ASSUME Starting(c) # {} PROVE \E i \in DOMAIN posted : posted[i] = Request("start", c)
  BY <1>1, <1>4 DEF Starting, Places
<1>5. ASSUME pending[OnThread[c]] = c
      PROVE  timer[c] = "armed" \/ \E i \in DOMAIN posted : posted[i] = Request("backstop", c)
  <2>1. OnThread[c] \in Threads /\ c # NoCall BY CallsApart
  <2>2. timer[c] = "armed" \/ GivenUp(c) # {} BY <1>5, <2>1 DEF Tables, Pends
  <2> QED BY <1>1, <2>2 DEF GivenUp, Places
<1>6. ASSUME Replied(c) # {}
      PROVE  \E i \in DOMAIN down : down[i].kind = "reply" /\ down[i].call = c
  <2>1. \A m \in RepliesTo(c) : m.kind = "reply" /\ m.call = c BY DEF RepliesTo, Reply
  <2> HIDE DEF RepliesTo
  <2> QED BY <1>1, <1>6, <2>1 DEF Replied, Places
<1> QED BY <1>2, <1>3, <1>4, <1>5, <1>6

LEMMA PlacesLonger ==
  ASSUME NEW M, NEW q \in Seq(M), NEW r \in Seq(M), NEW S
  PROVE  /\ Places(q, S) # {} => Places(q \o r, S) # {}
         /\ (\E i \in 1 .. Len(r) : r[i] \in S) => Places(q \o r, S) # {}
<1>1. /\ Len(q \o r) = Len(q) + Len(r) /\ Len(q) \in Nat /\ Len(r) \in Nat
      /\ \A i \in 1 .. Len(q) : (q \o r)[i] = q[i]
      /\ \A i \in 1 .. Len(r) : (q \o r)[Len(q) + i] = r[i]
  BY Joined
<1>2. ASSUME NEW i \in 1 .. Len(r), r[i] \in S PROVE Len(q) + i \in Places(q \o r, S)
  BY <1>1, <1>2 DEF Places
<1>3. ASSUME NEW i \in Places(q, S) PROVE i \in Places(q \o r, S)
  BY <1>1, <1>3 DEF Places
<1> QED BY <1>2, <1>3

LEMMA PlacesKeptLonger ==
  ASSUME NEW M, NEW q \in Seq(M), NEW S, Places(q, S) # {}, NEW r,
         \/ r = q
         \/ \E m \in M : r = Append(q, m)
         \/ q # <<>> /\ r = Tail(q) /\ Head(q) \notin S
  PROVE  Places(r, S) # {}
<1>1. ASSUME NEW m \in M PROVE Places(Append(q, m), S) # {}
  <2>1. CASE m \in S BY <2>1, PlacesAdded
  <2>2. CASE m \notin S
    <3>1. Places(Append(q, m), S) = Places(q, S) BY <2>2, PlacesAppended
    <3> QED BY <3>1
  <2> QED BY <2>1, <2>2
<1>2. CASE q # <<>> /\ r = Tail(q) /\ Head(q) \notin S
  <2>1. PICK i : i \in Places(q, S) OBVIOUS
  <2>2. i # 1 BY <1>2, <2>1, PlacesTail
  <2>3. i - 1 \in Places(Tail(q), S) BY <1>2, <2>1, <2>2, PlacesTail
  <2> QED BY <1>2, <2>3
<1> QED BY <1>1, <1>2

\* The reply is written behind what is in the channel.
LEMMA RespondReplies ==
  ASSUME Typed, NEW c \in Evals, NEW s \in Statuses, NEW texts \in SUBSET Evals,
         NEW ms \in Seq(Notices), Respond(c, s, texts, ms)
  PROVE  Replied(c)' # {}
<1>1. Append(ms, Reply(c, s)) \in Seq(DownMessages) /\ down' = down \o Append(ms, Reply(c, s))
  BY Responding
<1>2. Reply(c, s) \in RepliesTo(c) BY DEF RepliesTo
<1>3. Len(ms) \in Nat /\ Len(ms) + 1 \in 1 .. Len(Append(ms, Reply(c, s)))
      /\ Append(ms, Reply(c, s))[Len(ms) + 1] = Reply(c, s)
  <2> DEFINE m == Reply(c, s)
  <2> HIDE DEF Notices, m
  <2>1. Len(ms) \in Nat /\ Len(ms) + 1 \in 1 .. Len(Append(ms, m)) /\ Append(ms, m)[Len(ms) + 1] = m
    OBVIOUS
  <2> QED BY <2>1 DEF m
<1> DEFINE r == Append(ms, Reply(c, s))
<1> HIDE DEF DownMessages, RepliesTo, r
<1>4. r \in Seq(DownMessages) /\ down' = down \o r BY <1>1 DEF r
<1>5. \E i \in 1 .. Len(r) : r[i] \in RepliesTo(c) BY <1>2, <1>3 DEF r
<1>6. Places(down \o r, RepliesTo(c)) # {} BY <1>4, <1>5, PlacesLonger DEF Typed, Queues
<1>7. Replied(c)' = Places(down', RepliesTo(c)) BY DEF Replied, RepliesTo, Reply
<1> QED BY <1>4, <1>6, <1>7

LEMMA RepliedStays ==
  ASSUME Typed, Tables, AdapterSteps, NEW c \in Evals, Replied(c) # {} PROVE Replied(c)' # {}
<1>1. PICK r \in Seq(DownMessages) : down' = down \o r BY DownMoves
<1> HIDE DEF DownMessages, RepliesTo
<1>2. Places(down \o r, RepliesTo(c)) # {} BY <1>1, PlacesLonger DEF Typed, Queues, Replied
<1>3. Replied(c)' = Places(down', RepliesTo(c)) BY DEF Replied, RepliesTo, Reply
<1> QED BY <1>1, <1>2, <1>3

\* Where the request of c goes on when the main loop takes it.
LEMMA AskedMovesOn ==
  ASSUME Typed, AdapterSteps, NEW c \in Evals, Asked(c) # {}
  PROVE  Asked(c)' # {} \/ Starting(c)' # {}
<1> DEFINE S == {Request("eval", c)}
<1>0. /\ up \in Seq(UpMessages) /\ posted \in Seq(Closures) /\ Places(up, S) # {}
      /\ Asked(c)' = Places(up', S)
  BY DEF Typed, Queues, Asked
<1>a. ASSUME \/ up' = up
             \/ up # <<>> /\ up' = Tail(up) /\ Head(up) # Request("eval", c)
      PROVE  Asked(c)' # {}
  <2> HIDE DEF UpMessages, Request
  <2>1. up' = up \/ (up # <<>> /\ up' = Tail(up) /\ Head(up) \notin S) BY <1>a
  <2> HIDE DEF S
  <2>2. Places(up', S) # {} BY <1>0, <2>1, PlacesKeptLonger
  <2> QED BY <1>0, <2>2
<1>1. CASE MainReadsEval
  <2>1. /\ up # <<>> /\ up' = Tail(up) /\ Head(up).kind = "eval"
        /\ posted' = Append(posted, Request("start", Head(up).call))
    BY <1>1, Zenon DEF MainReadsEval, MainReads
  <2>2. CASE Head(up) = Request("eval", c)
    <3>1. Head(up).call = c BY <2>2 DEF Request
    <3>2. Request("start", c) \in Closures BY MessagesGiven
    <3>3. posted' = Append(posted, Request("start", c)) BY <2>1, <3>1
    <3> HIDE DEF Closures, Request
    <3>4. Places(posted', {Request("start", c)}) # {} BY <1>0, <3>2, <3>3, PlacesAdded
    <3> QED BY <3>4 DEF Starting
  <2> QED BY <1>a, <2>1, <2>2
<1>2. CASE MainReadsResume \/ MainReadsAbort
  <2>1. up # <<>> /\ up' = Tail(up) /\ Head(up).kind \in {"resume", "abort"}
    BY <1>2 DEF MainReadsResume, MainReadsAbort, MainReads
  <2>2. Head(up) # Request("eval", c) BY <2>1 DEF Request
  <2> QED BY <1>a, <2>1, <2>2
<1>3. CASE ~(MainReadsEval \/ MainReadsResume \/ MainReadsAbort)
  <2>1. up' = up
    BY <1>3, Zenon DEF AdapterSteps, RunsPosted, TimerFires, TakesState, TakesOutput, TakesExit
  <2> QED BY <1>a, <2>1
<1> QED BY <1>1, <1>2, <1>3

LEMMA WaitedAdapter ==
  ASSUME Typed, Tables, AdapterSteps, NEW c \in Evals, Waits(c)
  PROVE  Waits(c)'
<1>1. SUFFICES ASSUME pc[c] = "sent"
               PROVE  \/ Asked(c)' # {} \/ Starting(c)' # {} \/ pending'[OnThread[c]] = c
                      \/ Replied(c)' # {}
  BY AdapterFrame DEF Waits, callers
<1> DEFINE t == OnThread[c]
<1>0. t \in Threads /\ c # NoCall /\ pending \in [Threads -> Evals \cup {NoCall}]
  BY CallsApart DEF Typed, Adapter
<1>2. ASSUME Starting(c) # {}, \/ posted' = posted
                               \/ \E m \in Closures : posted' = Append(posted, m)
                               \/ /\ posted # <<>> /\ posted' = Tail(posted)
                                  /\ Head(posted) # Request("start", c)
      PROVE  Starting(c)' # {}
  <2> DEFINE S == {Request("start", c)}
  <2>1. posted \in Seq(Closures) /\ Places(posted, S) # {} /\ Starting(c)' = Places(posted', S)
    BY <1>2 DEF Typed, Queues, Starting
  <2> HIDE DEF Closures, Request
  <2>2. Head(posted) # Request("start", c) => Head(posted) \notin S OBVIOUS
  <2> HIDE DEF S
  <2>3. Places(posted', S) # {} BY <1>2, <2>1, <2>2, PlacesKeptLonger
  <2> QED BY <2>1, <2>3
<1>3. CASE MainReadsEval \/ MainReadsResume \/ MainReadsAbort \/ TakesOutput
           \/ \E d \in Evals : TimerFires(d)
  <2>1. UNCHANGED pending
    BY <1>3, Zenon DEF MainReadsEval, MainReadsResume, MainReadsAbort, TakesOutput, TimerFires, adapter
  <2>2. posted' = posted \/ \E m \in Closures : posted' = Append(posted, m)
    <3>1. \/ posted' = posted
          \/ /\ up # <<>> /\ Head(up).kind = "eval"
             /\ posted' = Append(posted, Request("start", Head(up).call))
          \/ \E d \in Evals : posted' = Append(posted, Request("backstop", d))
      BY <1>3, Zenon DEF MainReadsEval, MainReads, MainReadsResume, MainReadsAbort, TakesOutput, TimerFires
    <3>2. up # <<>> /\ Head(up).kind = "eval" => Request("start", Head(up).call) \in Closures
      BY HeadsGiven, MessagesGiven
    <3>3. \A d \in Evals : Request("backstop", d) \in Closures BY MessagesGiven
    <3> HIDE DEF Closures, Request
    <3> QED BY <3>1, <3>2, <3>3
  <2>3. Starting(c) # {} => Starting(c)' # {} BY <1>2, <2>2
  <2> QED BY <1>1, <2>1, <2>3, AskedMovesOn, RepliedStays DEF Waits
<1>4. CASE RunsPosted
  <2>1. posted # <<>> /\ posted' = Tail(posted) BY <1>4, PostedSteps
  <2>2. PICK d \in Evals : \/ Head(posted) = Request("start", d) /\ StartEval(d)
                           \/ Head(posted) = Request("backstop", d) /\ Backstop(d)
    BY <1>4, PostedSteps
  <2>3. CASE Head(posted) = Request("start", c)
    <3>1. StartEval(c) BY <2>2, <2>3 DEF Request
    <3>2. CASE StartRefused(c)
      <4>1. PICK s \in {"busy", "not_stopped"} : Respond(c, s, {}, <<>>) BY <3>2 DEF StartRefused
      <4>2. s \in Statuses BY DEF Statuses
      <4>3. <<>> \in Seq(Notices)
        <5> HIDE DEF Notices
        <5> QED OBVIOUS
      <4> QED BY <4>1, <4>2, <4>3, RespondReplies
    <3>3. CASE StartAccepted(c)
      <4>1. pending' = [pending EXCEPT ![OnThread[c]] = c] BY <3>3, Zenon DEF StartAccepted
      <4> QED BY <4>1, <1>0
    <3> QED BY <3>1, <3>2, <3>3 DEF StartEval
  <2>4. CASE Head(posted) # Request("start", c)
    <3>1. Starting(c) # {} => Starting(c)' # {} BY <1>2, <2>1, <2>4
    <3>2. ASSUME pending[t] = c PROVE pending'[t] = c \/ Replied(c)' # {}
      <4>1. CASE StartEval(d)
        <5>1. \/ pending' = pending
              \/ pending' = [pending EXCEPT ![OnThread[d]] = d] /\ ~Busy(OnThread[d])
          BY <4>1, StartMoves DEF adapter
        <5>2. Busy(t) BY <3>2, <1>0 DEF Busy
        <5> QED BY <5>1, <5>2, <3>2, <1>0
      <4>2. CASE Backstop(d) /\ d # c
        <5>1. pending' = pending \/ (pending[OnThread[d]] = d /\ pending' = [pending EXCEPT ![OnThread[d]] = NoCall])
          BY <4>2, BackstopMoves
        <5> QED BY <4>2, <5>1, <3>2, <1>0
      <4>3. CASE Backstop(d) /\ d = c
        <5>1. Respond(c, "timeout", gathered[t], <<>>) BY <4>3, <3>2, BackstopMoves
        <5>2. "timeout" \in Statuses /\ gathered[t] \in SUBSET Evals BY <1>0 DEF Statuses, Typed, Adapter
        <5>3. <<>> \in Seq(Notices)
          <6> HIDE DEF Notices
          <6> QED OBVIOUS
        <5> QED BY <5>1, <5>2, <5>3, RespondReplies
      <4> QED BY <2>2, <4>1, <4>2, <4>3
    <3> QED BY <1>1, <3>1, <3>2, AskedMovesOn, RepliedStays DEF Waits
  <2> QED BY <2>3, <2>4
<1>5. CASE TakesState
  <2>1. PICK u, on : StateTaken(u, on) BY <1>5, StateSteps
  <2>2. /\ u \in Threads /\ pending' = [pending EXCEPT ![u] = NoCall] /\ posted' = posted
    BY <2>1, StateMoves
  <2>3. ASSUME pending[t] = c PROVE pending'[t] = c \/ Replied(c)' # {}
    <3>1. CASE u # t BY <3>1, <2>2, <2>3, <1>0
    <3>2. CASE u = t
      <4>1. Respond(c, IF on THEN "ok" ELSE "resumed", gathered[t], <<State(threads')>>)
        <5>1. \/ Respond(pending[u], IF on THEN "ok" ELSE "resumed", gathered[u], <<State(threads')>>)
              \/ pending[u] = NoCall
          BY <2>1, Zenon DEF StateTaken
        <5> QED BY <5>1, <2>3, <3>2, <1>0
      <4>2. (IF on THEN "ok" ELSE "resumed") \in Statuses /\ gathered[t] \in SUBSET Evals
        BY <1>0 DEF Statuses, Typed, Adapter
      <4>3. State(threads') \in Notices
        <5>1. threads' = IF on THEN threads \cup {u} ELSE threads \ {u} BY <2>1, Zenon DEF StateTaken
        <5>2. threads' \in SUBSET Threads BY <2>2, <5>1 DEF Typed, Adapter
        <5> QED BY <5>2, MessagesGiven
      <4>4. <<State(threads')>> \in Seq(Notices)
        <5> HIDE DEF Notices
        <5> QED BY <4>3
      <4> QED BY <4>1, <4>2, <4>4, RespondReplies
    <3> QED BY <3>1, <3>2
  <2>4. Starting(c) # {} => Starting(c)' # {} BY <1>2, <2>2
  <2> QED BY <1>1, <2>3, <2>4, AskedMovesOn, RepliedStays DEF Waits
<1>6. CASE TakesExit
  <2>1. PICK r \in Seq(DownMessages) :
          /\ down' = down \o r
          /\ \A e \in Orphans : \E i \in 1 .. Len(r) : r[i] = Reply(e, "crashed")
    BY <1>6, ExitSteps
  <2>2. posted' = posted BY <1>6, ExitSteps
  <2>3. ASSUME pending[t] = c PROVE Replied(c)' # {}
    <3>1. c \in Orphans BY <2>3 DEF Orphans
    <3>2. \E i \in 1 .. Len(r) : r[i] \in RepliesTo(c)
      <4>1. Reply(c, "crashed") \in RepliesTo(c) BY DEF RepliesTo, Statuses
      <4> QED BY <2>1, <3>1, <4>1
    <3> HIDE DEF DownMessages, RepliesTo
    <3>3. Places(down \o r, RepliesTo(c)) # {} BY <3>2, PlacesLonger DEF Typed, Queues
    <3>4. Replied(c)' = Places(down', RepliesTo(c)) BY DEF Replied, RepliesTo, Reply
    <3> QED BY <2>1, <3>3, <3>4
  <2>4. Starting(c) # {} => Starting(c)' # {} BY <1>2, <2>2
  <2> QED BY <1>1, <2>3, <2>4, AskedMovesOn, RepliedStays DEF Waits
<1> QED BY <1>3, <1>4, <1>5, <1>6, Zenon DEF AdapterSteps

LEMMA WaitedStep == ASSUME Typed, Tables, Waited, [Next]_vars PROVE Waited'
<1> SUFFICES ASSUME NEW c \in Evals PROVE Waits(c)' BY DEF Waited
<1>0. Waits(c) BY DEF Waited
<1>1. CASE AdapterSteps BY <1>0, <1>1, WaitedAdapter
<1>2. CASE ProverSteps \/ UNCHANGED vars
  <2>1. UNCHANGED <<pc, up, posted, pending, down>>
    BY <1>2, ProverFrame DEF vars, callers, adapter
  <2> QED BY <1>0, <2>1 DEF Waits, Asked, Starting, Replied
<1>3. CASE CallerSteps
  <2>0. UNCHANGED <<posted, pending>> BY <1>3, CallerFrame DEF adapter
  <2>1. CASE Untouched(c) /\ (pc'[c] = "sent" => pc[c] = "sent") /\ ~ClientReadsState /\ ~ClientReadsReply
    <3>1. down' = down
      BY <1>3, <2>1, Zenon DEF CallerSteps, EvalStarts, EvalDropped, ResumeStarts, AbortStarts, AbortAgain,
         AbortAsks, AbortEnds
    <3>2. Asked(c) # {} => Asked(c)' # {}
      <4>1. up' = up \/ \E m \in UpMessages : up' = Append(up, m)
        BY <1>3, <2>1, Zenon, MessagesGiven DEF CallerSteps, EvalStarts, EvalDropped, ResumeStarts,
           AbortStarts, AbortAgain, AbortAsks, AbortEnds, Sends
      <4>2. up \in Seq(UpMessages) BY DEF Typed, Queues
      <4> HIDE DEF UpMessages, Request
      <4> QED BY <4>1, <4>2, PlacesKeptLonger DEF Asked
    <3> QED BY <1>0, <2>0, <2>1, <3>1, <3>2 DEF Waits, Starting, Replied
  <2>2. CASE EvalStarts(c)
    <3>1. up' = Append(up, Request("eval", c)) BY <2>2, Zenon DEF EvalStarts, Sends
    <3>2. Request("eval", c) \in UpMessages BY MessagesGiven
    <3> HIDE DEF UpMessages, Request
    <3>3. Places(up', {Request("eval", c)}) # {} BY <3>1, <3>2, PlacesAdded DEF Typed, Queues
    <3> QED BY <3>3 DEF Waits, Asked
  <2>3. ASSUME ~EvalStarts(c), pc'[c] = "sent" PROVE pc[c] = "sent"
    <3>1. \/ \E d : d # c /\ pc' = [pc EXCEPT ![d] = "sent"]
          \/ \E d : \E v \in {"done", "asked", "watch"} : pc' = [pc EXCEPT ![d] = v]
          \/ pc' = pc
      <4>1. ASSUME NEW d \in Evals, EvalStarts(d) PROVE d # c /\ pc' = [pc EXCEPT ![d] = "sent"]
        BY <2>3, <4>1, Zenon DEF EvalStarts
      <4>2. (\E d \in Evals : EvalDropped(d)) \/ (\E d \in Resumes : ResumeStarts(d))
            \/ (\E d \in Aborts : AbortEnds(d))
              => \E d : pc' = [pc EXCEPT ![d] = "done"]
        BY Zenon DEF EvalDropped, ResumeStarts, AbortEnds, AbortDone
      <4>3. (\E d \in Aborts : AbortStarts(d) \/ AbortAgain(d)) => \E d : pc' = [pc EXCEPT ![d] = "asked"]
        BY Zenon DEF AbortStarts, AbortAgain, AbortAsks
      <4>4. ClientReadsReply => \E d : \/ pc' = [pc EXCEPT ![d] = "watch"]
                                       \/ pc' = [pc EXCEPT ![d] = "done"]
        BY Zenon DEF ClientReadsReply, AbortDone
      <4>5. ClientReadsState => pc' = pc BY Zenon DEF ClientReadsState
      <4> QED BY <1>3, <4>1, <4>2, <4>3, <4>4, <4>5 DEF CallerSteps
    <3> QED BY <2>3, <3>1, CallsApart DEF Typed, Callers
  <2>4. CASE ClientReadsState \/ ClientReadsReply
    <3>1. UNCHANGED up /\ down # <<>> /\ down' = Tail(down)
      BY <2>4, Zenon DEF ClientReadsState, ClientReadsReply
    <3>2. pc'[c] = "sent" => Head(down) \notin RepliesTo(c)
      <4>1. CASE ClientReadsState
        <5>1. Head(down).kind = "state" BY <4>1, Zenon DEF ClientReadsState
        <5> QED BY <5>1 DEF RepliesTo, Reply
      <4>2. CASE ClientReadsReply /\ Head(down) \in RepliesTo(c)
        <5>1. Head(down).call = c /\ Head(down).status # "aborting"
          BY <4>2 DEF RepliesTo, Reply, Statuses
        <5>2. c \notin Aborts BY CallsApart
        <5>3. pc' = [pc EXCEPT ![c] = "done"] BY <4>2, <5>1, <5>2 DEF ClientReadsReply
        <5>4. pc'[c] = "done" BY <5>3, CallsApart DEF Typed, Callers
        <5> QED BY <5>4
      <4> QED BY <2>4, <4>1, <4>2
    <3>3. ~EvalStarts(c)
      <4>1. EvalStarts(c) => down' = down BY Zenon DEF EvalStarts
      <4>2. Tail(down) # down
        <5>1. Len(Tail(down)) = Len(down) - 1 /\ Len(down) \in Nat
          BY <3>1, Shifted DEF Typed, Queues
        <5> QED BY <5>1
      <4> QED BY <3>1, <4>1, <4>2
    <3>4. ASSUME pc'[c] = "sent", Replied(c) # {} PROVE Replied(c)' # {}
      <4>1. Head(down) \notin RepliesTo(c) BY <3>2, <3>4
      <4>2. Replied(c)' = Places(down', RepliesTo(c)) BY DEF Replied, RepliesTo, Reply
      <4> HIDE DEF DownMessages, RepliesTo
      <4>3. Places(down', RepliesTo(c)) # {}
        BY <3>1, <3>4, <4>1, PlacesKeptLonger DEF Typed, Queues, Replied
      <4> QED BY <4>2, <4>3
    <3> QED BY <1>0, <2>0, <2>3, <3>1, <3>3, <3>4 DEF Waits, Asked, Starting
  <2> QED BY <1>3, <2>1, <2>2, <2>3, <2>4, CallerMoves
<1> QED BY <1>1, <1>2, <1>3 DEF Next

-----------------------------------------------------------------------------
(* The prover's messages about one thread.                                 *)

StatesOf(t, ons, ofs) == [kind : {"state"}, thread : {t}, on : ons, of : ofs]
About(t)       == StatesOf(t, BOOLEAN, Evals \cup {NoCall})
Completions(t) == StatesOf(t, BOOLEAN, Evals)
Offs(t)        == StatesOf(t, {FALSE}, Evals \cup {NoCall})
Ons(t)         == StatesOf(t, {TRUE}, Evals \cup {NoCall})
Arrivals(t)    == StatesOf(t, {TRUE}, {NoCall})
Ends(t)        == StatesOf(t, BOOLEAN, {NoCall}) \cup Offs(t)

Queued(t)  == Places(inputs[t], Evals)
Ended(t)   == Places(out, Completions(t))
Left(t)    == Places(out, Offs(t))
Halting(t) == Places(out, Ons(t))
Arrived(t) == Places(out, Arrivals(t))
Quiet(t)   == Places(out, Ends(t))

LEMMA KindsGiven ==
  ASSUME NEW t
  PROVE  /\ Completions(t) \subseteq About(t) /\ Offs(t) \subseteq About(t) /\ Ons(t) \subseteq About(t)
         /\ Arrivals(t) \subseteq Ons(t) /\ Arrivals(t) \subseteq Ends(t) /\ Ends(t) \subseteq About(t)
         /\ Offs(t) \subseteq Ends(t)
<1>1. Offs(t) \subseteq Ends(t) BY DEF Ends
<1>2. Offs(t) \subseteq About(t) BY DEF Offs, About, StatesOf
<1>3. StatesOf(t, BOOLEAN, {NoCall}) \subseteq About(t) BY DEF About, StatesOf
<1>4. Completions(t) \subseteq About(t) BY DEF Completions, About, StatesOf
<1>5. Ons(t) \subseteq About(t) BY DEF Ons, About, StatesOf
<1>6. Arrivals(t) \subseteq Ons(t) BY DEF Ons, Arrivals, StatesOf
<1>7. Arrivals(t) \subseteq StatesOf(t, BOOLEAN, {NoCall}) BY DEF Arrivals, StatesOf
<1> QED BY <1>1, <1>2, <1>3, <1>4, <1>5, <1>6, <1>7, Zenon DEF Ends

\* Which of them a state is.
LEMMA KindOf ==
  ASSUME NEW t \in Threads, NEW on \in BOOLEAN, NEW c \in Evals \cup {NoCall}
  PROVE  /\ Halted(t, on, c) \in Completions(t) <=> c \in Evals
         /\ Halted(t, on, c) \in Offs(t) <=> on = FALSE
         /\ Halted(t, on, c) \in Ons(t) <=> on = TRUE
         /\ Halted(t, on, c) \in Arrivals(t) <=> on = TRUE /\ c = NoCall
         /\ Halted(t, on, c).of = c /\ Halted(t, on, c).on = on /\ Halted(t, on, c).thread = t
         /\ \A u \in Threads : u # t => Halted(t, on, c) \notin About(u)
<1>1. Halted(t, on, c) \in Completions(t) <=> c \in Evals BY DEF Halted, Completions, StatesOf
<1>2. Halted(t, on, c) \in Offs(t) <=> on = FALSE BY DEF Halted, Offs, StatesOf
<1>3. Halted(t, on, c) \in Ons(t) <=> on = TRUE BY DEF Halted, Ons, StatesOf
<1>4. Halted(t, on, c) \in Arrivals(t) <=> on = TRUE /\ c = NoCall BY DEF Halted, Arrivals, StatesOf
<1>6. \A u \in Threads : u # t => Halted(t, on, c) \notin About(u) BY DEF Halted, About, StatesOf
<1>7. Halted(t, on, c).of = c /\ Halted(t, on, c).on = on /\ Halted(t, on, c).thread = t BY DEF Halted
<1> QED BY <1>1, <1>2, <1>3, <1>4, <1>6, <1>7

LEMMA EndsOf ==
  ASSUME NEW t \in Threads, NEW on \in BOOLEAN, NEW c \in Evals \cup {NoCall}
  PROVE  Halted(t, on, c) \in Ends(t) <=> (on => c = NoCall)
BY DEF Halted, Ends, Offs, StatesOf

LEMMA OutputsGiven ==
  ASSUME NEW t \in Threads, NEW c \in Evals
  PROVE  /\ \A u \in Threads : Printed(t, c) \notin About(u)
         /\ Printed(t, c).kind = "output" /\ Printed(t, c).of = c /\ Printed(t, c).thread = t
BY DEF Printed, About, StatesOf

LEMMA ExitGiven == \A u : ExitMark \notin About(u) /\ ExitMark.kind = "exit"
BY DEF ExitMark, About, StatesOf

LEMMA AboutGiven ==
  ASSUME NEW t \in Threads
  PROVE  /\ \A m \in About(t) : m.kind = "state" /\ m.thread = t /\ m \in OutMessages
         /\ \A m \in Completions(t) : m.of \in Evals
         /\ \A m \in Offs(t) : m.on = FALSE
<1>1. \A m \in About(t) : m.kind = "state" /\ m.thread = t BY DEF About, StatesOf
<1>2. \A m \in Completions(t) : m.of \in Evals BY DEF Completions, StatesOf
<1>3. About(t) \subseteq Halts BY DEF About, StatesOf, Halts
<1>4. \A m \in Offs(t) : m.on = FALSE BY DEF Offs, StatesOf
<1> QED BY <1>1, <1>2, <1>3, <1>4, MessagesGiven

-----------------------------------------------------------------------------
(* A step that moves messages of others only renumbers those about u.      *)

Others(u) == \/ out' = out
             \/ \E m \in OutMessages : m \notin About(u) /\ out' = Append(out, m)
             \/ \E m, n \in OutMessages : /\ m \notin About(u) /\ n \notin About(u)
                                          /\ out' = out \o <<m, n>>
             \/ out # <<>> /\ Head(out) \notin About(u) /\ out' = Tail(out)

Renumbers(u, d) ==
  /\ \A S \in SUBSET About(u) : \A i :
       i \in Places(out', S) <=> i \in Nat \ {0} /\ i + d \in Places(out, S)
  /\ \A i \in Places(out', About(u)) : out'[i] = out[i + d]
  /\ \A j \in Places(out, About(u)) : j \in Nat /\ j - d \in Nat \ {0} /\ out'[j - d] = out[j]

LEMMA Renumbering ==
  ASSUME Typed, NEW u \in Threads, Others(u) PROVE \E d \in {0, 1} : Renumbers(u, d)
<1>0. out \in Seq(OutMessages) /\ Len(out) \in Nat BY DEF Typed, Queues
<1> HIDE DEF OutMessages, About
<1>1. ASSUME Len(out') \in Nat, Len(out) <= Len(out'), \A i \in 1 .. Len(out) : out'[i] = out[i],
             \A i \in Len(out) + 1 .. Len(out') : out'[i] \notin About(u)
      PROVE  Renumbers(u, 0)
  <2>1. \A S \in SUBSET About(u) : Places(out', S) = Places(out, S) BY <1>0, <1>1 DEF Places
  <2>2. \A S \in SUBSET About(u) : \A i : i \in Places(out, S) <=> i \in Nat \ {0} /\ i + 0 \in Places(out, S)
    BY <1>0 DEF Places
  <2>3. \A i \in Places(out, About(u)) : i \in Nat \ {0} /\ out'[i] = out[i] BY <1>0, <1>1 DEF Places
  <2> QED BY <2>1, <2>2, <2>3 DEF Renumbers
<1>2. CASE out' = out
  BY <1>0, <1>1, <1>2
<1>3. ASSUME NEW m \in OutMessages, m \notin About(u), out' = Append(out, m) PROVE Renumbers(u, 0)
  <2>1. Len(out') = Len(out) + 1 /\ (\A i \in 1 .. Len(out) : out'[i] = out[i]) /\ out'[Len(out) + 1] = m
    BY <1>0, <1>3, Appended
  <2>2. \A i \in Len(out) + 1 .. Len(out') : i = Len(out) + 1 BY <1>0, <2>1
  <2> QED BY <1>0, <1>1, <1>3, <2>1, <2>2
<1>4. ASSUME NEW m \in OutMessages, NEW n \in OutMessages, m \notin About(u), n \notin About(u),
             out' = out \o <<m, n>>
      PROVE  Renumbers(u, 0)
  <2>1. <<m, n>> \in Seq(OutMessages) /\ Len(<<m, n>>) = 2 /\ <<m, n>>[1] = m /\ <<m, n>>[2] = n
    OBVIOUS
  <2>2. /\ Len(out') = Len(out) + 2 /\ (\A i \in 1 .. Len(out) : out'[i] = out[i])
        /\ \A i \in Len(out) + 1 .. Len(out) + 2 : out'[i] = <<m, n>>[i - Len(out)]
    BY <1>0, <1>4, <2>1, Joined
  <2>3. \A i \in Len(out) + 1 .. Len(out) + 2 : i - Len(out) = 1 \/ i - Len(out) = 2 BY <1>0
  <2>4. \A i \in Len(out) + 1 .. Len(out) + 2 : out'[i] \notin About(u) BY <1>4, <2>1, <2>2, <2>3
  <2> QED BY <1>0, <1>1, <2>2, <2>4
<1>5. ASSUME out # <<>>, Head(out) \notin About(u), out' = Tail(out) PROVE Renumbers(u, 1)
  <2>1. /\ Len(out') = Len(out) - 1 /\ Len(out) \in Nat \ {0} /\ Head(out) = out[1]
        /\ \A i \in 1 .. Len(out') : out'[i] = out[i + 1]
    BY <1>0, <1>5, Shifted
  <2>2. \A S \in SUBSET About(u) : \A i :
          i \in Places(out', S) <=> i \in Nat \ {0} /\ i + 1 \in Places(out, S)
    BY <2>1 DEF Places
  <2>3. \A i \in Places(out', About(u)) : out'[i] = out[i + 1] BY <2>1 DEF Places
  <2>4. \A j \in Places(out, About(u)) : j \in Nat /\ j - 1 \in Nat \ {0} /\ out'[j - 1] = out[j]
    BY <1>5, <2>1 DEF Places
  <2> QED BY <2>2, <2>3, <2>4 DEF Renumbers
<1> QED BY <1>2, <1>3, <1>4, <1>5 DEF Others

-----------------------------------------------------------------------------
(* What the prover has at hand for a thread is its owner's, once; and what *)
(* its messages say of it, in the order in which they will be taken.       *)

AtHand(t) == Queued(t) # {} \/ at[t] \in Evals

One(t) ==
  /\ Once(inputs[t], Evals) /\ Once(out, Completions(t))
  /\ \A i \in Queued(t) : inputs[t][i] = Owner[t]
  /\ at[t] \in Evals => at[t] = Owner[t] /\ Queued(t) = {}
  /\ \A i \in Ended(t) : out[i].of = Owner[t] /\ ~AtHand(t)
  /\ alive /\ Owner[t] # NoCall => AtHand(t) \/ Ended(t) # {}
  /\ at[t] = "away" => Queued(t) = {}
  /\ \A i \in Quiet(t) : ~AtHand(t) /\ \A j \in Ended(t) : j <= i
  /\ \A i \in Arrived(t) : (\A j \in Left(t) : j > i) => Owner[t] = NoCall
Ones == \A t \in Threads \ astray : One(t)

Marked(t) ==
  /\ alive /\ at[t] = "away" => /\ Left(t) = {} => t \notin threads
                                /\ \A i \in Halting(t) : \E j \in Left(t) : j > i
  /\ \A j \in Arrived(t) : /\ \A i \in Halting(t) : i < j => \E k \in Left(t) : i < k /\ k < j
                           /\ (\A i \in Left(t) : i > j) => t \notin threads
Marks == \A t \in Threads : Marked(t)

\* The prover's exit is its last word.
Gone == /\ ~alive => \A t \in Threads : at[t] = "away" /\ inputs[t] = <<>>
        /\ \A i \in 1 .. Len(out) : out[i].kind = "exit" => i = Len(out) /\ ~alive

LEMMA KindsRenumbered ==
  ASSUME NEW u \in Threads, NEW d \in {0, 1}, Renumbers(u, d)
  PROVE  /\ \A i : i \in Ended(u)' <=> i \in Nat \ {0} /\ i + d \in Ended(u)
         /\ \A i : i \in Left(u)' <=> i \in Nat \ {0} /\ i + d \in Left(u)
         /\ \A i : i \in Halting(u)' <=> i \in Nat \ {0} /\ i + d \in Halting(u)
         /\ \A i : i \in Arrived(u)' <=> i \in Nat \ {0} /\ i + d \in Arrived(u)
         /\ \A i : i \in Quiet(u)' <=> i \in Nat \ {0} /\ i + d \in Quiet(u)
         /\ \A i \in Ended(u)' : out'[i] = out[i + d]
         /\ \A j \in Ended(u) \cup Left(u) \cup Halting(u) \cup Quiet(u) \cup Arrived(u) :
              j \in Nat /\ j - d \in Nat \ {0}
<1>1. /\ Completions(u) \in SUBSET About(u) /\ Offs(u) \in SUBSET About(u) /\ Ons(u) \in SUBSET About(u)
      /\ Arrivals(u) \in SUBSET About(u) /\ Ends(u) \in SUBSET About(u)
  BY KindsGiven
<1>2. /\ Ended(u)' = Places(out', Completions(u)) /\ Left(u)' = Places(out', Offs(u))
      /\ Halting(u)' = Places(out', Ons(u)) /\ Arrived(u)' = Places(out', Arrivals(u))
      /\ Quiet(u)' = Places(out', Ends(u))
  BY DEF Ended, Left, Halting, Arrived, Quiet
<1>3. \A S \in SUBSET About(u) : Places(out, S) \subseteq Places(out, About(u))
                                 /\ Places(out', S) \subseteq Places(out', About(u))
  BY DEF Places
<1>4. \A S \in SUBSET About(u) : /\ \A i : i \in Places(out', S) <=> i \in Nat \ {0} /\ i + d \in Places(out, S)
                                 /\ \A i \in Places(out', S) : out'[i] = out[i + d]
                                 /\ \A j \in Places(out, S) : j \in Nat /\ j - d \in Nat \ {0}
  BY <1>3 DEF Renumbers
<1>5. /\ Ended(u) = Places(out, Completions(u)) /\ Left(u) = Places(out, Offs(u))
      /\ Halting(u) = Places(out, Ons(u)) /\ Arrived(u) = Places(out, Arrivals(u))
      /\ Quiet(u) = Places(out, Ends(u))
  BY DEF Ended, Left, Halting, Arrived, Quiet
<1>6. /\ \A i : i \in Ended(u)' <=> i \in Nat \ {0} /\ i + d \in Ended(u)
      /\ \A i \in Ended(u)' : out'[i] = out[i + d]
      /\ \A j \in Ended(u) : j \in Nat /\ j - d \in Nat \ {0}
  BY <1>1, <1>2, <1>4, <1>5
<1>7. /\ \A i : i \in Left(u)' <=> i \in Nat \ {0} /\ i + d \in Left(u)
      /\ \A j \in Left(u) : j \in Nat /\ j - d \in Nat \ {0}
  BY <1>1, <1>2, <1>4, <1>5
<1>8. /\ \A i : i \in Halting(u)' <=> i \in Nat \ {0} /\ i + d \in Halting(u)
      /\ \A j \in Halting(u) : j \in Nat /\ j - d \in Nat \ {0}
  BY <1>1, <1>2, <1>4, <1>5
<1>9. /\ \A i : i \in Arrived(u)' <=> i \in Nat \ {0} /\ i + d \in Arrived(u)
      /\ \A j \in Arrived(u) : j \in Nat /\ j - d \in Nat \ {0}
  BY <1>1, <1>2, <1>4, <1>5
<1>10. /\ \A i : i \in Quiet(u)' <=> i \in Nat \ {0} /\ i + d \in Quiet(u)
       /\ \A j \in Quiet(u) : j \in Nat /\ j - d \in Nat \ {0}
  BY <1>1, <1>2, <1>4, <1>5
<1> QED BY <1>6, <1>7, <1>8, <1>9, <1>10

\* Inputs that are resumptions are no evaluations.
LEMMA InputsKept ==
  ASSUME Typed, NEW u \in Threads,
         \/ inputs'[u] = inputs[u]
         \/ \E r \in Resumes : inputs'[u] = Append(inputs[u], r)
  PROVE  Queued(u)' = Queued(u) /\ \A i \in Queued(u) : inputs'[u][i] = inputs[u][i]
<1>1. inputs[u] \in Seq(Evals \cup Resumes) BY DEF Typed, Prover
<1>2. Queued(u)' = Places(inputs'[u], Evals) BY DEF Queued
<1>3. CASE inputs'[u] = inputs[u] BY <1>2, <1>3 DEF Queued
<1>4. ASSUME NEW r \in Resumes, inputs'[u] = Append(inputs[u], r)
      PROVE  Queued(u)' = Queued(u) /\ \A i \in Queued(u) : inputs'[u][i] = inputs[u][i]
  <2>1. r \notin Evals /\ r \in Evals \cup Resumes BY CallsApart
  <2>2. Places(Append(inputs[u], r), Evals) = Places(inputs[u], Evals) BY <1>1, <2>1, PlacesAppended
  <2>3. \A i \in 1 .. Len(inputs[u]) : inputs'[u][i] = inputs[u][i] BY <1>1, <1>4, <2>1, Appended
  <2> QED BY <1>2, <1>4, <2>2, <2>3 DEF Queued, Places
<1> QED BY <1>3, <1>4

LEMMA OneKept ==
  ASSUME Typed, NEW u \in Threads, One(u), Others(u), UNCHANGED <<at[u], Owner[u]>>, alive' => alive,
         \/ inputs'[u] = inputs[u]
         \/ \E r \in Resumes : inputs'[u] = Append(inputs[u], r)
  PROVE  One(u)'
<1>1. PICK d \in {0, 1} : Renumbers(u, d) BY Renumbering
<1>2. /\ \A i : i \in Ended(u)' <=> i \in Nat \ {0} /\ i + d \in Ended(u)
      /\ \A i : i \in Left(u)' <=> i \in Nat \ {0} /\ i + d \in Left(u)
      /\ \A i : i \in Arrived(u)' <=> i \in Nat \ {0} /\ i + d \in Arrived(u)
      /\ \A i : i \in Quiet(u)' <=> i \in Nat \ {0} /\ i + d \in Quiet(u)
      /\ \A i \in Ended(u)' : out'[i] = out[i + d]
      /\ \A j \in Ended(u) \cup Left(u) \cup Quiet(u) \cup Arrived(u) : j \in Nat /\ j - d \in Nat \ {0}
  BY <1>1, KindsRenumbered
<1>3. Queued(u)' = Queued(u) /\ \A i \in Queued(u) : inputs'[u][i] = inputs[u][i] BY InputsKept
<1>4. AtHand(u)' <=> AtHand(u) BY <1>3 DEF AtHand
<1>5. Once(inputs[u], Evals)' BY <1>3 DEF One, Once, Queued
<1>6. Once(out, Completions(u))'
  <2>1. \A i, j \in Ended(u)' : i + d = j + d /\ i \in Nat /\ j \in Nat
    BY <1>2 DEF One, Once, Ended
  <2>2. \A i, j \in Ended(u)' : i = j BY <2>1
  <2>3. Ended(u)' = Places(out', Completions(u)) BY DEF Ended
  <2>4. Once(out, Completions(u))' <=> Once(out', Completions(u))
    BY DEF Once, Places, Completions, StatesOf
  <2> QED BY <2>2, <2>3, <2>4 DEF Once
<1>7. \A i \in Ended(u)' : out'[i].of = Owner'[u] /\ ~AtHand(u)' BY <1>2, <1>4 DEF One
<1>8. alive' /\ Owner'[u] # NoCall => AtHand(u)' \/ Ended(u)' # {}
  <2>1. \A j \in Ended(u) : (j - d) + d = j /\ j - d \in Nat \ {0} BY <1>2
  <2>2. Ended(u) # {} => Ended(u)' # {} BY <1>2, <2>1
  <2> QED BY <1>4, <2>2 DEF One
<1>9. \A i \in Quiet(u)' : ~AtHand(u)' /\ \A j \in Ended(u)' : j <= i
  <2>1. \A i \in Quiet(u)' : ~AtHand(u)' /\ \A j \in Ended(u)' : j + d <= i + d /\ i \in Nat /\ j \in Nat
    BY <1>2, <1>4 DEF One
  <2> QED BY <2>1
<1>10. \A i \in Arrived(u)' : (\A j \in Left(u)' : j > i) => Owner'[u] = NoCall
  <2> SUFFICES ASSUME NEW i \in Arrived(u)', \A j \in Left(u)' : j > i PROVE Owner[u] = NoCall
    OBVIOUS
  <2>1. i + d \in Arrived(u) /\ i \in Nat BY <1>2
  <2>2. ASSUME NEW j \in Left(u) PROVE j > i + d
    <3>1. j \in Nat /\ j - d \in Nat \ {0} /\ (j - d) + d = j BY <1>2
    <3>2. j - d \in Left(u)' BY <3>1, <1>2
    <3>3. j - d > i BY <3>2
    <3> QED BY <3>1, <3>3, <2>1
  <2> QED BY <2>1, <2>2 DEF One
<1>11. at'[u] = at[u] /\ Owner'[u] = Owner[u] OBVIOUS
<1>12. /\ \A i \in Queued(u)' : inputs'[u][i] = Owner'[u]
       /\ at'[u] \in Evals => at'[u] = Owner'[u] /\ Queued(u)' = {}
       /\ at'[u] = "away" => Queued(u)' = {}
  BY <1>3, <1>11 DEF One
<1> QED BY <1>5, <1>6, <1>7, <1>8, <1>9, <1>10, <1>12, Zenon DEF One

LEMMA MarkedKept ==
  ASSUME Typed, NEW u \in Threads, Marked(u), Others(u), UNCHANGED at[u], alive' => alive,
         u \in threads' => u \in threads
  PROVE  Marked(u)'
<1>1. PICK d \in {0, 1} : Renumbers(u, d) BY Renumbering
<1>2. /\ \A i : i \in Left(u)' <=> i \in Nat \ {0} /\ i + d \in Left(u)
      /\ \A i : i \in Halting(u)' <=> i \in Nat \ {0} /\ i + d \in Halting(u)
      /\ \A i : i \in Arrived(u)' <=> i \in Nat \ {0} /\ i + d \in Arrived(u)
      /\ \A j \in Left(u) \cup Halting(u) \cup Arrived(u) : j \in Nat /\ j - d \in Nat \ {0}
  BY <1>1, KindsRenumbered
<1>3. \A j \in Left(u) : j - d \in Left(u)' /\ j - d \in Nat /\ j \in Nat
  <2>1. \A j \in Left(u) : (j - d) + d = j /\ j - d \in Nat \ {0} /\ j \in Nat BY <1>2
  <2> QED BY <1>2, <2>1
<1>4. ASSUME alive', at'[u] = "away"
      PROVE  /\ Left(u)' = {} => u \notin threads'
             /\ \A i \in Halting(u)' : \E j \in Left(u)' : j > i
  <2>1. Left(u)' = {} => u \notin threads' BY <1>3, <1>4 DEF Marked
  <2>2. ASSUME NEW i \in Halting(u)' PROVE \E j \in Left(u)' : j > i
    <3>1. i \in Nat /\ i + d \in Halting(u) BY <1>2
    <3>2. PICK j \in Left(u) : j > i + d BY <1>4, <3>1 DEF Marked
    <3>3. j - d > i BY <1>3, <3>1, <3>2
    <3> QED BY <1>3, <3>3
  <2> QED BY <2>1, <2>2
<1>5. ASSUME NEW j \in Arrived(u)'
      PROVE  /\ \A i \in Halting(u)' : i < j => \E k \in Left(u)' : i < k /\ k < j
             /\ (\A i \in Left(u)' : i > j) => u \notin threads'
  <2>1. j \in Nat /\ j + d \in Arrived(u) BY <1>2
  <2>2. ASSUME NEW i \in Halting(u)', i < j PROVE \E k \in Left(u)' : i < k /\ k < j
    <3>1. i \in Nat /\ i + d \in Halting(u) /\ i + d < j + d BY <1>2, <2>1, <2>2
    <3>2. PICK k \in Left(u) : i + d < k /\ k < j + d BY <2>1, <3>1 DEF Marked
    <3>3. i < k - d /\ k - d < j BY <1>3, <2>1, <3>1, <3>2
    <3> QED BY <1>3, <3>3
  <2>3. ASSUME \A i \in Left(u)' : i > j PROVE u \notin threads'
    <3>1. ASSUME NEW i \in Left(u) PROVE i > j + d
      <4>1. i - d > j /\ i \in Nat /\ i - d \in Nat BY <1>3, <2>3
      <4> QED BY <2>1, <4>1
    <3> QED BY <2>1, <3>1 DEF Marked
  <2> QED BY <2>2, <2>3
<1> QED BY <1>4, <1>5, Zenon DEF Marked

\* A thread that works for nobody has nothing at hand.
LEMMA OneFree ==
  ASSUME NEW t \in Threads, Owner[t] = NoCall, ~AtHand(t), Ended(t) = {} PROVE One(t)
BY DEF One, AtHand, Once, Queued, Ended

LEMMA OneFreed ==
  ASSUME NEW t \in Threads, Owner'[t] = NoCall, ~AtHand(t)', Ended(t)' = {} PROVE One(t)'
<1>1. Once(inputs[t], Evals)'
  <2>1. Queued(t)' = {} BY DEF AtHand
  <2> QED BY <2>1 DEF Once, Queued
<1>2. Once(out, Completions(t))'
  <2>1. Once(out, Completions(t))' <=> \A i, j \in Ended(t)' : i = j
    BY DEF Once, Ended
  <2> QED BY <2>1
<1> QED BY <1>1, <1>2 DEF One, AtHand

LEMMA FreeIsClean ==
  ASSUME NEW t \in Threads, One(t), Typed, Owner[t] = NoCall
  PROVE  ~AtHand(t) /\ Ended(t) = {}
<1>1. NoCall \notin Evals BY CallsApart
<1>2. \A i \in Queued(t) : inputs[t][i] \in Evals BY DEF Queued, Places
<1>3. \A i \in Ended(t) : out[i].of \in Evals BY AboutGiven DEF Ended, Places
<1> QED BY <1>1, <1>2, <1>3 DEF One, AtHand

LEMMA OneAccepted ==
  ASSUME Typed, Gone, NEW c \in Evals, One(OnThread[c]), Marked(OnThread[c]), StartAccepted(c),
         Owner[OnThread[c]] = NoCall, Owner'[OnThread[c]] = c, out' = out, OnThread[c] \notin astray'
  PROVE  One(OnThread[c])'
<1> DEFINE t == OnThread[c]
<1>0. t \in Threads /\ c # NoCall /\ NoCall \notin Evals /\ "away" \notin Evals BY CallsApart
<1>1. ~AtHand(t) /\ Ended(t) = {} BY <1>0, FreeIsClean
<1>2. /\ t \in threads /\ UNCHANGED <<alive, at>>
      /\ inputs' = IF alive THEN [inputs EXCEPT ![t] = Append(inputs[t], c)] ELSE inputs
      /\ astray' = IF alive /\ c \in Evals /\ LeftStop(t) THEN astray \cup {t} ELSE astray
  BY Zenon DEF StartAccepted, Feed
<1>3. inputs \in [Threads -> Seq(Evals \cup Resumes)] BY DEF Typed, Prover
<1>4. Ended(t)' = Ended(t) /\ Left(t)' = Left(t) /\ Arrived(t)' = Arrived(t) /\ Quiet(t)' = Quiet(t)
  BY DEF Ended, Left, Arrived, Quiet
<1>5. \A i \in Arrived(t) : ~(\A j \in Left(t) : j > i) BY <1>2 DEF Marked
<1>6. Once(out, Completions(t))' BY <1>1, <1>4 DEF Once, Ended
<1>7. CASE alive
  <2>1. ~LeftStop(t) BY <1>2, <1>7
  <2>2. at[t] # "away" BY <2>1 DEF LeftStop
  <2>3. Left(t) = {}
    <3>1. DOMAIN out = 1 .. Len(out) BY DEF Typed, Queues
    <3>2. ASSUME NEW i \in Left(t) PROVE FALSE
      <4>1. i \in DOMAIN out /\ out[i] \in Offs(t) BY <3>1 DEF Left, Places
      <4>2. out[i].kind = "state" /\ out[i].thread = t /\ ~out[i].on
        <5>1. out[i] \in About(t) BY <4>1, KindsGiven
        <5>2. out[i].on = FALSE BY <1>0, <4>1, AboutGiven
        <5> QED BY <1>0, <5>1, <5>2, AboutGiven
      <4> QED BY <2>1, <4>1, <4>2 DEF LeftStop
    <3> QED BY <3>2
  <2>4. Arrived(t) = {} BY <1>5, <2>3
  <2>5. Quiet(t) = {}
    <3>1. \A m \in Ends(t) : m \in Offs(t) \/ m \in Arrivals(t)
      BY DEF Ends, Offs, Arrivals, StatesOf
    <3> QED BY <2>3, <2>4, <3>1 DEF Quiet, Left, Arrived, Places
  <2>6. inputs'[t] = Append(inputs[t], c) BY <1>0, <1>2, <1>3, <1>7
  <2>7. inputs[t] \in Seq(Evals \cup Resumes) /\ c \in Evals \cup Resumes BY <1>0, <1>3
  <2>8. Queued(t)' = Queued(t) \cup {Len(inputs[t]) + 1}
    <3>1. Places(Append(inputs[t], c), Evals) = Places(inputs[t], Evals) \cup {Len(inputs[t]) + 1}
      BY <2>7, PlacesAppended
    <3> QED BY <2>6, <3>1 DEF Queued
  <2>9. Queued(t)' = {Len(inputs[t]) + 1} BY <1>1, <2>8 DEF AtHand
  <2>10. inputs'[t][Len(inputs[t]) + 1] = c BY <2>6, <2>7, Appended
  <2>11. Once(inputs[t], Evals)' BY <2>9 DEF Once, Queued
  <2>12. at'[t] \notin Evals /\ at'[t] # "away" BY <1>1, <1>2, <2>2 DEF AtHand
  <2>13. AtHand(t)' BY <2>9 DEF AtHand
  <2> HIDE DEF t
  <2> QED BY <1>1, <1>4, <1>6, <2>4, <2>5, <2>9, <2>10, <2>11, <2>12, <2>13, Zenon DEF One, t
<1>8. CASE ~alive
  <2>1. inputs'[t] = <<>> /\ at'[t] = "away" /\ ~alive' BY <1>0, <1>2, <1>8 DEF Gone
  <2>2. Queued(t)' = {} BY <2>1 DEF Queued, Places
  <2>3. ~AtHand(t)' BY <1>0, <2>1, <2>2 DEF AtHand
  <2>4. Once(inputs[t], Evals)' BY <2>2 DEF Once, Queued
  <2> HIDE DEF t
  <2> QED BY <1>0, <1>1, <1>4, <1>5, <1>6, <2>1, <2>2, <2>3, <2>4 DEF One, t
<1> QED BY <1>7, <1>8

LEMMA OneTaken ==
  ASSUME Typed, NEW t \in Threads, One(t), out # <<>>, Head(out) \in Halts, Head(out).thread = t,
         out' = Tail(out), UNCHANGED prover, Owner'[t] = NoCall
  PROVE  One(t)'
<1>1. /\ out \in Seq(OutMessages) /\ Head(out) = out[1] /\ 1 \in 1 .. Len(out) /\ Len(out) \in Nat
      /\ \A i \in Places(Tail(out), Completions(t)) : i + 1 \in Places(out, Completions(t)) /\ i \in Nat \ {0}
  <2>1. out \in Seq(OutMessages) BY DEF Typed, Queues
  <2> HIDE DEF OutMessages
  <2>2. Head(out) = out[1] /\ 1 \in 1 .. Len(out) /\ Len(out) \in Nat BY <2>1, Shifted
  <2>3. \A i \in Places(Tail(out), Completions(t)) : i + 1 \in Places(out, Completions(t))
    BY <2>1, PlacesTail
  <2>4. \A i \in Places(Tail(out), Completions(t)) : i \in Nat \ {0} BY DEF Places
  <2> QED BY <2>1, <2>2, <2>3, <2>4
<1>2. Head(out) \in Completions(t) \/ Head(out) \in Ends(t)
  <2>1. Head(out) = Halted(t, Head(out).on, Head(out).of) /\ Head(out).of \in Evals \cup {NoCall}
        /\ Head(out).on \in BOOLEAN
    BY HaltGiven
  <2> DEFINE on == Head(out).on
             c == Head(out).of
  <2> HIDE DEF on, c
  <2>2. on \in BOOLEAN /\ c \in Evals \cup {NoCall} BY <2>1 DEF on, c
  <2>3. Halted(t, on, c) \in Completions(t) \/ Halted(t, on, c) \in Ends(t)
    BY <2>2, KindOf, EndsOf
  <2> QED BY <2>1, <2>3 DEF on, c
<1>3. Ended(t)' = Places(Tail(out), Completions(t)) BY DEF Ended
<1>4. 1 \in Ended(t) \/ 1 \in Quiet(t) BY <1>1, <1>2 DEF Ended, Quiet, Places
<1>5. ~AtHand(t) BY <1>4 DEF One
<1>6. Ended(t)' = {}
  <2> SUFFICES ASSUME NEW i \in Ended(t)' PROVE FALSE OBVIOUS
  <2>1. i + 1 \in Ended(t) /\ i \in Nat \ {0} BY <1>1, <1>3 DEF Ended
  <2>2. CASE 1 \in Ended(t)
    <3>1. i + 1 = 1 BY <2>1, <2>2 DEF One, Once, Ended
    <3> QED BY <2>1, <3>1
  <2>3. CASE 1 \in Quiet(t)
    <3>1. i + 1 <= 1 BY <2>1, <2>3 DEF One
    <3> QED BY <2>1, <3>1
  <2> QED BY <1>4, <2>2, <2>3
<1>7. ~AtHand(t)' BY <1>5 DEF AtHand, Queued, prover
<1> QED BY <1>6, <1>7, OneFreed

LEMMA OwnerSame == ASSUME NEW u \in Threads, UNCHANGED Rows(u) PROVE Owner'[u] = Owner[u]
<1>1. pending'[u] = pending[u] /\ debt'[u] = debt[u] /\ owed'[u] = owed[u] BY DEF Rows
<1> QED BY <1>1, OwnerIs, OwnerBecomes

LEMMA StateFrees ==
  ASSUME Typed, Tables, NEW t, NEW on, StateTaken(t, on)
  PROVE  Owner'[t] = NoCall /\ \A u \in Threads : u # t => UNCHANGED Rows(u)
<1>1. t \in Threads /\ pending' = [pending EXCEPT ![t] = NoCall] /\ pending'[t] = NoCall
  BY StateMoves
<1>2. /\ pending \in [Threads -> Evals \cup {NoCall}] /\ debt \in [Threads -> 0 .. 1]
      /\ owed \in [Threads -> Evals \cup {NoCall}]
  BY DEF Typed, Adapter, History
<1>3. CASE pending[t] # NoCall
  <2>1. UNCHANGED <<debt, owed>> BY <1>3, StateMoves
  <2>2. debt[t] = 0 BY <1>1, <1>3 DEF Tables, Pends
  <2>3. ~(debt'[t] > 0) BY <2>1, <2>2
  <2>4. \A u \in Threads : u # t => pending'[u] = pending[u] BY <1>1, <1>2
  <2> QED BY <1>1, <2>1, <2>3, <2>4, OwnerBecomes DEF Rows
<1>4. CASE pending[t] = NoCall
  <2>1. debt' = [debt EXCEPT ![t] = 0] /\ debt'[t] = 0 /\ owed' = [owed EXCEPT ![t] = NoCall]
    BY <1>4, CallsApart, StateMoves
  <2>2. \A u \in Threads : u # t => /\ pending'[u] = pending[u] /\ debt'[u] = debt[u]
                                    /\ owed'[u] = owed[u]
    BY <1>1, <1>2, <2>1
  <2>3. ~(debt'[t] > 0) BY <2>1
  <2> QED BY <1>1, <2>2, <2>3, OwnerBecomes DEF Rows
<1> QED BY <1>3, <1>4

\* What a message more does to the places of each kind.
LEMMA HaltedAppended ==
  ASSUME Typed, NEW t \in Threads, NEW on \in BOOLEAN, NEW c \in Evals \cup {NoCall},
         out' = Append(out, Halted(t, on, c))
  PROVE  /\ Ended(t)' = Ended(t) \cup (IF c \in Evals THEN {Len(out) + 1} ELSE {})
         /\ Left(t)' = Left(t) \cup (IF on THEN {} ELSE {Len(out) + 1})
         /\ Halting(t)' = Halting(t) \cup (IF on THEN {Len(out) + 1} ELSE {})
         /\ Arrived(t)' = Arrived(t) \cup (IF on /\ c = NoCall THEN {Len(out) + 1} ELSE {})
         /\ Quiet(t)' = Quiet(t) \cup (IF on /\ c # NoCall THEN {} ELSE {Len(out) + 1})
         /\ \A i \in 1 .. Len(out) : out'[i] = out[i]
         /\ out'[Len(out) + 1] = Halted(t, on, c) /\ Len(out) \in Nat /\ Len(out') = Len(out) + 1
<1>0. out \in Seq(OutMessages) BY DEF Typed, Queues
<1>1. Halted(t, on, c) \in OutMessages BY MessagesGiven
<1> DEFINE m == Halted(t, on, c)
<1>2. /\ m \in Completions(t) <=> c \in Evals
      /\ m \in Offs(t) <=> on = FALSE
      /\ m \in Ons(t) <=> on = TRUE
      /\ m \in Arrivals(t) <=> on = TRUE /\ c = NoCall
      /\ m \in Ends(t) <=> (on => c = NoCall)
  <2>1. Halted(t, on, c) \in Completions(t) <=> c \in Evals BY KindOf
  <2>2. Halted(t, on, c) \in Offs(t) <=> on = FALSE BY KindOf
  <2>3. Halted(t, on, c) \in Ons(t) <=> on = TRUE BY KindOf
  <2>4. Halted(t, on, c) \in Arrivals(t) <=> on = TRUE /\ c = NoCall BY KindOf
  <2>5. Halted(t, on, c) \in Ends(t) <=> (on => c = NoCall) BY EndsOf
  <2> QED BY <2>1, <2>2, <2>3, <2>4, <2>5
<1> HIDE DEF m, OutMessages
<1>3. m \in OutMessages /\ out' = Append(out, m) BY <1>1 DEF m
<1>4. \A S : Places(out', S) = Places(out, S) \cup (IF m \in S THEN {Len(out) + 1} ELSE {})
  <2> TAKE S
  <2> QED BY <1>0, <1>3, PlacesAppended
<1>5. /\ Len(out) \in Nat /\ Len(out') = Len(out) + 1 /\ out'[Len(out) + 1] = m
      /\ \A i \in 1 .. Len(out) : out'[i] = out[i]
  BY <1>0, <1>3, Appended
<1>6. Ended(t)' = Places(out', Completions(t)) /\ Left(t)' = Places(out', Offs(t))
      /\ Halting(t)' = Places(out', Ons(t)) /\ Arrived(t)' = Places(out', Arrivals(t))
      /\ Quiet(t)' = Places(out', Ends(t))
  BY DEF Ended, Left, Halting, Arrived, Quiet
<1>7. Ended(t)' = Ended(t) \cup (IF c \in Evals THEN {Len(out) + 1} ELSE {})
  BY <1>2, <1>4, <1>6 DEF Ended
<1>8. Left(t)' = Left(t) \cup (IF on THEN {} ELSE {Len(out) + 1}) BY <1>2, <1>4, <1>6 DEF Left
<1>9. Halting(t)' = Halting(t) \cup (IF on THEN {Len(out) + 1} ELSE {})
  BY <1>2, <1>4, <1>6 DEF Halting
<1>10. Arrived(t)' = Arrived(t) \cup (IF on /\ c = NoCall THEN {Len(out) + 1} ELSE {})
  BY <1>2, <1>4, <1>6 DEF Arrived
<1>11. Quiet(t)' = Quiet(t) \cup (IF on /\ c # NoCall THEN {} ELSE {Len(out) + 1})
  BY <1>2, <1>4, <1>6 DEF Quiet
<1> QED BY <1>5, <1>7, <1>8, <1>9, <1>10, <1>11 DEF m

\* An evaluation's output and completion behind all else.
LEMMA FinishAppended ==
  ASSUME Typed, NEW t \in Threads, NEW c \in Evals,
         out' = out \o <<Printed(t, c), Halted(t, TRUE, c)>>
  PROVE  /\ Ended(t)' = Ended(t) \cup {Len(out) + 2} /\ Halting(t)' = Halting(t) \cup {Len(out) + 2}
         /\ Left(t)' = Left(t) /\ Arrived(t)' = Arrived(t) /\ Quiet(t)' = Quiet(t)
         /\ \A i \in 1 .. Len(out) : out'[i] = out[i]
         /\ out'[Len(out) + 1] = Printed(t, c) /\ out'[Len(out) + 2] = Halted(t, TRUE, c)
         /\ Len(out) \in Nat /\ Len(out') = Len(out) + 2
<1>0. out \in Seq(OutMessages) BY DEF Typed, Queues
<1> DEFINE a == Printed(t, c)
           m == Halted(t, TRUE, c)
<1>1. a \in OutMessages /\ m \in OutMessages BY MessagesGiven
<1>2. /\ m \in Completions(t) /\ m \notin Offs(t) /\ m \in Ons(t)
      /\ m \notin Arrivals(t) /\ m \notin Ends(t)
  <2>1. c # NoCall /\ c \in Evals \cup {NoCall} /\ TRUE \in BOOLEAN BY CallsApart
  <2>2. Halted(t, TRUE, c) \in Completions(t) BY DEF Halted, Completions, StatesOf
  <2>3. Halted(t, TRUE, c) \in Ons(t) BY DEF Halted, Ons, StatesOf
  <2>4. Halted(t, TRUE, c) \notin Offs(t) BY DEF Halted, Offs, StatesOf
  <2>5. Halted(t, TRUE, c) \notin Arrivals(t) BY <2>1 DEF Halted, Arrivals, StatesOf
  <2>6. Halted(t, TRUE, c) \notin Ends(t) BY <2>1, <2>4 DEF Halted, Ends, StatesOf
  <2> QED BY <2>2, <2>3, <2>4, <2>5, <2>6
<1>3. /\ a \notin Completions(t) /\ a \notin Offs(t) /\ a \notin Ons(t)
      /\ a \notin Arrivals(t) /\ a \notin Ends(t)
  BY OutputsGiven, KindsGiven
<1>4. out' = out \o <<a, m>> OBVIOUS
<1> HIDE DEF a, m, OutMessages
<1>5. <<a, m>> \in Seq(OutMessages) /\ Len(<<a, m>>) = 2 /\ <<a, m>>[1] = a /\ <<a, m>>[2] = m
  BY <1>1
<1> DEFINE r == <<a, m>>
<1>5a. r \in Seq(OutMessages) /\ Len(r) = 2 /\ r[1] = a /\ r[2] = m /\ out' = out \o r
  BY <1>4, <1>5
<1> HIDE DEF r
<1>6. /\ Len(out) \in Nat /\ Len(out') = Len(out) + 2 /\ (\A i \in 1 .. Len(out) : out'[i] = out[i])
      /\ out'[Len(out) + 1] = a /\ out'[Len(out) + 2] = m
  <2>1. Len(out') = Len(out) + Len(r) /\ (\A i \in 1 .. Len(out) : out'[i] = out[i])
        /\ \A i \in 1 .. Len(r) : out'[Len(out) + i] = r[i]
    <3>1. Len(out \o r) = Len(out) + Len(r) /\ (\A i \in 1 .. Len(out) : (out \o r)[i] = out[i])
          /\ \A i \in 1 .. Len(r) : (out \o r)[Len(out) + i] = r[i]
      BY <1>0, <1>5a, Joined
    <3> QED BY <1>5a, <3>1
  <2>3. Len(out) \in Nat BY <1>0
  <2>2. 1 \in 1 .. 2 /\ 2 \in 1 .. 2 OBVIOUS
  <2> QED BY <1>5a, <2>1, <2>2, <2>3
<1>7. \A S : a \notin S =>
        Places(out', S) = Places(out, S) \cup (IF m \in S THEN {Len(out) + 2} ELSE {})
  <2> TAKE S
  <2> HAVE a \notin S
  <2>1. \A i \in 1 .. Len(out') : i \in 1 .. Len(out) \/ i = Len(out) + 1 \/ i = Len(out) + 2
    BY <1>6
  <2>2. \A i : i \in Places(out', S) <=> i \in Places(out, S) \/ (i = Len(out) + 2 /\ m \in S)
    <3> TAKE i
    <3>1. CASE i \in 1 .. Len(out) BY <3>1, <1>6 DEF Places
    <3>2. CASE i = Len(out) + 1 BY <3>2, <1>6 DEF Places
    <3>3. CASE i = Len(out) + 2
      <4>1. i \notin Places(out, S) BY <3>3, <1>6 DEF Places
      <4>2. i \in 1 .. Len(out')
        <5>1. Len(out') = Len(out) + 2 /\ Len(out) \in Nat BY <1>6
        <5> QED BY <3>3, <5>1
      <4>3. out'[i] = m
        <5>1. out'[Len(out) + 2] = m BY <1>6
        <5> QED BY <3>3, <5>1
      <4> QED BY <3>3, <4>1, <4>2, <4>3 DEF Places
    <3> QED BY <2>1, <3>1, <3>2, <3>3 DEF Places
  <2> QED BY <2>2
<1>8. Ended(t)' = Places(out', Completions(t)) /\ Left(t)' = Places(out', Offs(t))
      /\ Halting(t)' = Places(out', Ons(t)) /\ Arrived(t)' = Places(out', Arrivals(t))
      /\ Quiet(t)' = Places(out', Ends(t))
  BY DEF Ended, Left, Halting, Arrived, Quiet
<1>9. Ended(t)' = Ended(t) \cup {Len(out) + 2} BY <1>2, <1>3, <1>7, <1>8 DEF Ended
<1>10. Halting(t)' = Halting(t) \cup {Len(out) + 2} BY <1>2, <1>3, <1>7, <1>8 DEF Halting
<1>11. Left(t)' = Left(t) BY <1>2, <1>3, <1>7, <1>8 DEF Left
<1>12. Arrived(t)' = Arrived(t) BY <1>2, <1>3, <1>7, <1>8 DEF Arrived
<1>13. Quiet(t)' = Quiet(t) BY <1>2, <1>3, <1>7, <1>8 DEF Quiet
<1> QED BY <1>6, <1>9, <1>10, <1>11, <1>12, <1>13 DEF a, m

\* The places of a queue are between its ends.
LEMMA PlacesBounded ==
  ASSUME Typed, NEW t
  PROVE  /\ Len(out) \in Nat
         /\ \A i \in Ended(t) \cup Left(t) \cup Halting(t) \cup Arrived(t) \cup Quiet(t) :
              i \in 1 .. Len(out) /\ i \in Nat /\ i < Len(out) + 1
<1>1. Len(out) \in Nat BY DEF Typed, Queues
<1>2. \A i \in Ended(t) \cup Left(t) \cup Halting(t) \cup Arrived(t) \cup Quiet(t) : i \in 1 .. Len(out)
  BY DEF Ended, Left, Halting, Arrived, Quiet, Places
<1>3. \A i \in 1 .. Len(out) : i \in Nat /\ i < Len(out) + 1 BY <1>1
<1> QED BY <1>1, <1>2, <1>3

LEMMA InputsSame ==
  ASSUME NEW t, inputs'[t] = inputs[t]
  PROVE  /\ Queued(t)' = Queued(t) /\ (Once(inputs[t], Evals) => Once(inputs[t], Evals)')
BY DEF Queued, Once

LEMMA OnceEnded ==
  ASSUME NEW t
  PROVE  /\ Once(out, Completions(t)) <=> \A i, j \in Ended(t) : i = j
         /\ Once(out, Completions(t))' <=> \A i, j \in Ended(t)' : i = j
BY DEF Once, Ended

LEMMA OneStops ==
  ASSUME Typed, NEW t \in Threads, One(t), Marked(t), Stops(t), Owner'[t] = Owner[t]
  PROVE  One(t)'
<1>0. /\ at \in [Threads -> {"away", "stopped"} \cup Evals] /\ NoCall \notin Evals
      /\ "stopped" \notin Evals /\ "away" \notin Evals
  BY CallsApart DEF Typed, Prover
<1>1. /\ alive /\ at[t] = "away" /\ at' = [at EXCEPT ![t] = "stopped"] /\ UNCHANGED <<alive, inputs>>
      /\ out' = Append(out, Halted(t, TRUE, NoCall))
  BY Zenon DEF Stops
<1> DEFINE n == Len(out) + 1
<1>2. /\ Ended(t)' = Ended(t) /\ Left(t)' = Left(t)
      /\ Arrived(t)' = Arrived(t) \cup {n} /\ Quiet(t)' = Quiet(t) \cup {n}
      /\ \A i \in 1 .. Len(out) : out'[i] = out[i]
  <2>1. TRUE \in BOOLEAN /\ NoCall \in Evals \cup {NoCall} OBVIOUS
  <2>2. /\ Ended(t)' = Ended(t) \cup (IF NoCall \in Evals THEN {n} ELSE {})
        /\ Left(t)' = Left(t) \cup (IF TRUE THEN {} ELSE {n})
        /\ Arrived(t)' = Arrived(t) \cup (IF TRUE /\ NoCall = NoCall THEN {n} ELSE {})
        /\ Quiet(t)' = Quiet(t) \cup (IF TRUE /\ NoCall # NoCall THEN {} ELSE {n})
        /\ \A i \in 1 .. Len(out) : out'[i] = out[i]
    BY <2>1, <1>1, HaltedAppended, Zenon
  <2> QED BY <1>0, <2>2
<1>3. /\ n \in Nat /\ \A i \in Ended(t) \cup Left(t) : i \in 1 .. Len(out) /\ i \in Nat /\ i < n
  BY PlacesBounded
<1> HIDE DEF n
<1>4. Queued(t)' = Queued(t) /\ Once(inputs[t], Evals)' BY <1>1, InputsSame DEF One
<1>5. at'[t] = "stopped" BY <1>0, <1>1
<1>6. ~AtHand(t) /\ ~AtHand(t)' BY <1>0, <1>1, <1>4, <1>5 DEF One, AtHand
<1>7. \A i \in Ended(t) : out'[i].of = Owner[t] BY <1>2, <1>3 DEF One
<1>8. Once(out, Completions(t))' BY <1>2, OnceEnded DEF One
<1>9. \A i \in Quiet(t)' : ~AtHand(t)' /\ \A j \in Ended(t)' : j <= i
  BY <1>2, <1>3, <1>6 DEF One
<1>10. ASSUME Left(t) = {} PROVE Owner[t] = NoCall
  <2> SUFFICES ASSUME Owner[t] # NoCall PROVE FALSE OBVIOUS
  <2>1. PICK i : i \in Ended(t) BY <1>1, <1>6 DEF One
  <2>2. i \in Halting(t)
    <3>1. \A m \in Completions(t) : m \in Offs(t) \/ m \in Ons(t)
      BY DEF Completions, Offs, Ons, StatesOf
    <3> QED BY <1>10, <2>1, <3>1 DEF Ended, Left, Halting, Places
  <2> QED BY <1>1, <1>10, <2>2 DEF Marked
<1>11. \A i \in Arrived(t)' : (\A j \in Left(t)' : j > i) => Owner'[t] = NoCall
  <2> SUFFICES ASSUME NEW i \in Arrived(t)', \A j \in Left(t)' : j > i PROVE Owner[t] = NoCall
    OBVIOUS
  <2>1. CASE i \in Arrived(t) BY <1>2, <2>1 DEF One
  <2>2. CASE i = n
    <3>1. Left(t) = {} BY <1>2, <1>3, <2>2
    <3> QED BY <3>1, <1>10
  <2> QED BY <1>2, <2>1, <2>2
<1>12. alive' /\ Owner'[t] # NoCall => AtHand(t)' \/ Ended(t)' # {} BY <1>1, <1>2, <1>6 DEF One
<1>13. /\ \A i \in Queued(t)' : inputs'[t][i] = Owner'[t]
       /\ at'[t] \in Evals => at'[t] = Owner'[t] /\ Queued(t)' = {}
       /\ at'[t] = "away" => Queued(t)' = {}
       /\ \A i \in Ended(t)' : out'[i].of = Owner'[t] /\ ~AtHand(t)'
  BY <1>0, <1>2, <1>5, <1>6, <1>7 DEF AtHand
<1> QED BY <1>4, <1>8, <1>9, <1>11, <1>12, <1>13 DEF One

LEMMA OneTakesEval ==
  ASSUME Typed, NEW t \in Threads, One(t), TakesEval(t), Owner'[t] = Owner[t]
  PROVE  One(t)'
<1>0. /\ at \in [Threads -> {"away", "stopped"} \cup Evals] /\ NoCall \notin Evals
      /\ inputs \in [Threads -> Seq(Evals \cup Resumes)]
      /\ "stopped" \notin Evals /\ "away" \notin Evals
  BY CallsApart DEF Typed, Prover
<1>1. /\ at[t] = "stopped" /\ inputs[t] # <<>> /\ Head(inputs[t]) \in Evals
      /\ at' = [at EXCEPT ![t] = Head(inputs[t])] /\ inputs' = [inputs EXCEPT ![t] = Tail(inputs[t])]
      /\ UNCHANGED <<alive, out>>
  BY Zenon DEF TakesEval
<1>2. at'[t] = Head(inputs[t]) /\ inputs'[t] = Tail(inputs[t]) BY <1>0, <1>1
<1>3. inputs[t] \in Seq(Evals \cup Resumes) BY <1>0
<1>4. 1 \in Queued(t) /\ Queued(t)' = {} /\ Head(inputs[t]) = inputs[t][1]
  <2>1. 1 \in Places(inputs[t], Evals) /\ Head(inputs[t]) = inputs[t][1]
    BY <1>1, <1>3, PlacesTail, Shifted
  <2>2. Places(Tail(inputs[t]), Evals) = {} BY <1>1, <1>3, PlacesTaken DEF One
  <2> QED BY <1>2, <2>1, <2>2 DEF Queued
<1>5. at'[t] = Owner[t] /\ at'[t] \in Evals BY <1>1, <1>2, <1>4 DEF One
<1>6. AtHand(t) /\ AtHand(t)' BY <1>4, <1>5 DEF AtHand
<1>7. Ended(t) = {} /\ Quiet(t) = {} BY <1>6 DEF One
<1>8. Ended(t)' = Ended(t) /\ Quiet(t)' = Quiet(t) /\ Arrived(t)' = Arrived(t)
  BY <1>1 DEF Ended, Quiet, Arrived
<1>9. Arrived(t) = {}
  <2>1. Arrivals(t) \subseteq Ends(t) BY KindsGiven
  <2> QED BY <1>7, <2>1 DEF Arrived, Quiet, Places
<1>10. Once(inputs[t], Evals)' BY <1>4 DEF Once, Queued
<1>11. Once(out, Completions(t))' BY <1>7, <1>8, OnceEnded
<1>12. at'[t] # "away" BY <1>0, <1>5
<1> QED BY <1>4, <1>5, <1>6, <1>7, <1>8, <1>9, <1>10, <1>11, <1>12, Zenon DEF One

\* The thread leaves, with nothing unread, and a completion if it was at work.
LEMMA OneLeaves ==
  ASSUME Typed, NEW t \in Threads, One(t), at[t] # "away", Queued(t) = {}, Queued(t)' = {},
         at'[t] = "away", alive' => alive, Owner'[t] = Owner[t],
         NEW c \in Evals \cup {NoCall}, c = IF at[t] \in Evals THEN at[t] ELSE NoCall,
         out' = Append(out, Halted(t, FALSE, c))
  PROVE  One(t)'
<1>0. NoCall \notin Evals /\ "away" \notin Evals BY CallsApart
<1> DEFINE n == Len(out) + 1
<1>1. /\ Ended(t)' = Ended(t) \cup (IF c \in Evals THEN {n} ELSE {}) /\ Left(t)' = Left(t) \cup {n}
      /\ Arrived(t)' = Arrived(t) /\ Quiet(t)' = Quiet(t) \cup {n}
      /\ \A i \in 1 .. Len(out) : out'[i] = out[i]
      /\ out'[n] = Halted(t, FALSE, c)
  BY HaltedAppended
<1>2. /\ n \in Nat /\ \A i \in Ended(t) \cup Left(t) \cup Quiet(t) : i \in 1 .. Len(out) /\ i \in Nat /\ i < n
  BY PlacesBounded
<1>3. Halted(t, FALSE, c).of = c BY DEF Halted
<1> HIDE DEF n
<1>4. ~AtHand(t)' BY <1>0 DEF AtHand
<1>5. Once(inputs[t], Evals)' BY DEF Once, Queued
<1>6. CASE at[t] \in Evals
  <2>1. Ended(t) = {} /\ Quiet(t) = {} /\ at[t] = Owner[t] BY <1>6 DEF One, AtHand
  <2>2. Ended(t)' = {n} /\ Quiet(t)' = {n} BY <1>1, <1>6, <2>1
  <2>3. Once(out, Completions(t))' BY <2>2, OnceEnded
  <2>4. out'[n].of = Owner'[t] BY <1>1, <1>3, <1>6, <2>1
  <2>5. Arrived(t) = {}
    <3>1. Arrivals(t) \subseteq Ends(t) BY KindsGiven
    <3> QED BY <2>1, <3>1 DEF Arrived, Quiet, Places
  <2>6. n <= n BY <1>2
  <2> QED BY <1>0, <1>1, <1>4, <1>5, <2>2, <2>3, <2>4, <2>5, <2>6 DEF One
<1>7. CASE at[t] \notin Evals
  <2>1. Ended(t)' = Ended(t) BY <1>0, <1>1, <1>7
  <2>2. Once(out, Completions(t))' BY <2>1, OnceEnded DEF One
  <2>3. \A i \in Ended(t)' : out'[i].of = Owner'[t] /\ ~AtHand(t)' BY <1>1, <1>2, <1>4, <2>1 DEF One
  <2>4. \A i \in Quiet(t)' : ~AtHand(t)' /\ \A j \in Ended(t)' : j <= i
    BY <1>1, <1>2, <1>4, <2>1 DEF One
  <2>5. ~AtHand(t) BY <1>7 DEF AtHand
  <2>6. alive' /\ Owner'[t] # NoCall => AtHand(t)' \/ Ended(t)' # {} BY <2>1, <2>5 DEF One
  <2>7. \A i \in Arrived(t)' : (\A j \in Left(t)' : j > i) => Owner'[t] = NoCall BY <1>1 DEF One
  <2> QED BY <1>0, <1>5, <2>2, <2>3, <2>4, <2>6, <2>7 DEF One
<1> QED BY <1>6, <1>7

LEMMA OneFinishes ==
  ASSUME Typed, NEW t \in Threads, One(t), Finishes(t), Owner'[t] = Owner[t]
  PROVE  One(t)'
<1>0. /\ at \in [Threads -> {"away", "stopped"} \cup Evals] /\ NoCall \notin Evals
      /\ "stopped" \notin Evals /\ "away" \notin Evals
  BY CallsApart DEF Typed, Prover
<1>1. /\ at[t] \in Evals /\ at' = [at EXCEPT ![t] = "stopped"] /\ UNCHANGED <<alive, inputs>>
      /\ out' = out \o <<Printed(t, at[t]), Halted(t, TRUE, at[t])>>
  BY Zenon DEF Finishes
<1> DEFINE n == Len(out) + 2
           c == at[t]
<1>2. /\ Ended(t)' = Ended(t) \cup {n} /\ Arrived(t)' = Arrived(t) /\ Quiet(t)' = Quiet(t)
      /\ out'[n] = Halted(t, TRUE, c)
  BY <1>1, FinishAppended
<1>3. Halted(t, TRUE, c).of = c BY DEF Halted
<1> HIDE DEF n
<1>4. Queued(t)' = Queued(t) /\ Once(inputs[t], Evals)' BY <1>1, InputsSame DEF One
<1>5. at'[t] = "stopped" BY <1>0, <1>1
<1>6. Ended(t) = {} /\ Quiet(t) = {} /\ c = Owner[t] /\ Queued(t) = {} BY <1>1 DEF One, AtHand
<1>7. ~AtHand(t)' BY <1>0, <1>4, <1>5, <1>6 DEF AtHand
<1>8. Ended(t)' = {n} BY <1>2, <1>6
<1>9. Once(out, Completions(t))' BY <1>8, OnceEnded
<1>10. Arrived(t) = {}
  <2>1. Arrivals(t) \subseteq Ends(t) BY KindsGiven
  <2> QED BY <1>6, <2>1 DEF Arrived, Quiet, Places
<1>11. out'[n].of = Owner'[t] BY <1>2, <1>3, <1>6
<1> QED BY <1>0, <1>2, <1>4, <1>5, <1>6, <1>7, <1>8, <1>9, <1>10, <1>11 DEF One

LEMMA StraysStay == [Next]_vars => astray \subseteq astray'
<1>1. CASE CallerSteps \/ UNCHANGED vars BY <1>1, CallerFrame DEF history, vars
<1>2. CASE ProverSteps
  <2>1. ASSUME NEW t \in Threads,
               Stops(t) \/ TakesEval(t) \/ TakesResume(t) \/ Finishes(t) \/ Interrupted(t)
        PROVE  astray \subseteq astray'
    <3>1. CASE Stops(t) \/ TakesEval(t) \/ Finishes(t)
      BY <3>1, Zenon DEF Stops, TakesEval, Finishes, history
    <3>2. CASE TakesResume(t) \/ Interrupted(t)
      <4>1. astray' = astray \/ astray' = astray \cup {t}
        BY <3>2 DEF TakesResume, Interrupted, LeavesInput
      <4> QED BY <4>1
    <3> QED BY <2>1, <3>1, <3>2
  <2>2. CASE ProverExits BY <2>2, Zenon DEF ProverExits, history
  <2> QED BY <1>2, <2>1, <2>2 DEF ProverSteps
<1>3. CASE AdapterSteps
  <2>1. CASE MainReadsEval \/ MainReadsAbort \/ TakesOutput \/ TakesState \/ TakesExit
             \/ \E c \in Evals : TimerFires(c)
    BY <2>1, Zenon DEF MainReadsEval, MainReadsAbort, TakesOutput, TakesState, TakesExit, TimerFires, history
  <2>2. ASSUME NEW t, NEW i, Feed(t, i) PROVE astray \subseteq astray'
    <3>1. astray' = astray \/ astray' = astray \cup {t} BY <2>2 DEF Feed
    <3> QED BY <3>1
  <2>3. CASE MainReadsResume
    <3>1. Feed(OnThread[Head(up).call], Head(up).call) BY <2>3, Zenon DEF MainReadsResume
    <3> QED BY <2>2, <3>1
  <2>4. CASE RunsPosted
    <3>1. PICK c : StartRefused(c) \/ StartAccepted(c) \/ Backstop(c)
      BY <2>4, Zenon DEF RunsPosted, StartEval
    <3>2. StartRefused(c) \/ Backstop(c) => astray' = astray BY Zenon DEF StartRefused, Backstop
    <3>3. StartAccepted(c) => Feed(OnThread[c], c) BY Zenon DEF StartAccepted
    <3> QED BY <2>2, <3>1, <3>2, <3>3
  <2> QED BY <1>3, <2>1, <2>3, <2>4, Zenon DEF AdapterSteps
<1> QED BY <1>1, <1>2, <1>3 DEF Next

\* The queue of the prover's messages, at a step of the adapter.
LEMMA OutMoves ==
  ASSUME Typed, AdapterSteps
  PROVE  \/ out' = out
         \/ out # <<>> /\ out' = Tail(out)
BY Zenon DEF AdapterSteps, MainReadsEval, MainReadsResume, MainReadsAbort, RunsPosted, TimerFires,
  TakesState, TakesOutput, TakesExit

LEMMA DeadFed ==
  ASSUME NEW t, NEW i, Feed(t, i) PROVE UNCHANGED <<alive, at>> /\ (~alive => inputs' = inputs)
BY DEF Feed

LEMMA GoneStep == ASSUME Typed, Gone, [Next]_vars PROVE Gone'
<1>0. out \in Seq(OutMessages) /\ Len(out) \in Nat BY DEF Typed, Queues
<1>1. ASSUME UNCHANGED <<alive, at>>, ~alive => inputs' = inputs,
             out' = out \/ (out # <<>> /\ out' = Tail(out))
      PROVE  Gone'
  <2> HIDE DEF OutMessages
  <2>1. ASSUME ~alive', NEW t \in Threads PROVE at'[t] = "away" /\ inputs'[t] = <<>>
    BY <1>1, <2>1 DEF Gone
  <2>2. ASSUME NEW i \in 1 .. Len(out'), out'[i].kind = "exit" PROVE i = Len(out') /\ ~alive'
    <3>1. CASE out' = out BY <1>1, <2>2, <3>1 DEF Gone
    <3>2. CASE out # <<>> /\ out' = Tail(out)
      <4>1. Len(out') = Len(out) - 1 /\ out'[i] = out[i + 1] BY <1>0, <3>2, Shifted
      <4>2. i + 1 \in 1 .. Len(out) BY <1>0, <4>1
      <4> QED BY <1>0, <1>1, <2>2, <4>1, <4>2 DEF Gone
    <3> QED BY <1>1, <3>1, <3>2
  <2> QED BY <2>1, <2>2 DEF Gone
<1>2. CASE CallerSteps \/ UNCHANGED vars
  <2>1. UNCHANGED <<prover, out>> BY <1>2, CallerFrame DEF vars
  <2> QED BY <1>1, <2>1 DEF prover
<1>3. CASE AdapterSteps
  <2>1. UNCHANGED prover \/ \E t, i : Feed(t, i)
    BY <1>3, Zenon DEF AdapterSteps, MainReadsEval, MainReadsResume, MainReadsAbort, RunsPosted,
       StartEval, StartRefused, StartAccepted, Backstop, TimerFires, TakesState, TakesOutput, TakesExit
  <2>2. UNCHANGED <<alive, at>> /\ (~alive => inputs' = inputs) BY <2>1, DeadFed DEF prover
  <2> QED BY <1>1, <1>3, <2>2, OutMoves
<1>4. ASSUME NEW m \in OutMessages, NEW n \in OutMessages, alive, m.kind # "exit",
             n.kind # "exit" \/ ~alive',
             out' = Append(out, n) \/ (out' = out \o <<m, n>>)
      PROVE  \A i \in 1 .. Len(out') : out'[i].kind = "exit" => i = Len(out') /\ ~alive'
  <2> HIDE DEF OutMessages
  <2>1. \A i \in 1 .. Len(out) : out[i].kind # "exit" BY <1>4 DEF Gone
  <2>2. CASE out' = Append(out, n)
    <3>1. Len(out') = Len(out) + 1 /\ (\A i \in 1 .. Len(out) : out'[i] = out[i]) /\ out'[Len(out) + 1] = n
      BY <1>0, <2>2, Appended
    <3>2. \A i \in 1 .. Len(out') : i \in 1 .. Len(out) \/ i = Len(out) + 1 BY <1>0, <3>1
    <3> QED BY <1>4, <2>1, <3>1, <3>2
  <2>3. CASE out' = out \o <<m, n>>
    <3> DEFINE r == <<m, n>>
    <3>1. r \in Seq(OutMessages) /\ Len(r) = 2 /\ r[1] = m /\ r[2] = n BY <1>4
    <3>2. out' = out \o r BY <2>3
    <3> HIDE DEF r
    <3>3. /\ Len(out') = Len(out) + Len(r) /\ (\A i \in 1 .. Len(out) : out'[i] = out[i])
          /\ \A i \in 1 .. Len(r) : out'[Len(out) + i] = r[i]
      <4>1. /\ Len(out \o r) = Len(out) + Len(r) /\ (\A i \in 1 .. Len(out) : (out \o r)[i] = out[i])
            /\ \A i \in 1 .. Len(r) : (out \o r)[Len(out) + i] = r[i]
        BY <1>0, <3>1, Joined
      <4> QED BY <3>2, <4>1
    <3>4. 1 \in 1 .. Len(r) /\ 2 \in 1 .. Len(r) BY <3>1
    <3>5. out'[Len(out) + 1] = m /\ out'[Len(out) + 2] = n /\ Len(out') = Len(out) + 2
      BY <3>1, <3>3, <3>4
    <3>6. \A i \in 1 .. Len(out') : i \in 1 .. Len(out) \/ i = Len(out) + 1 \/ i = Len(out) + 2
      BY <1>0, <3>5
    <3> QED BY <1>4, <2>1, <3>3, <3>5, <3>6
  <2> QED BY <1>4, <2>2, <2>3
<1>5. CASE ProverSteps
  <2>0. alive BY <1>5, Zenon DEF ProverSteps, Stops, TakesEval, TakesResume, Finishes, Interrupted, ProverExits
  <2>1. ASSUME NEW t \in Threads, TakesEval(t) PROVE Gone'
    <3>1. UNCHANGED <<alive, out>> BY <2>1, Zenon DEF TakesEval
    <3> QED BY <2>0, <3>1 DEF Gone
  <2>2. ASSUME NEW t \in Threads, NEW on \in BOOLEAN, NEW c \in Evals \cup {NoCall},
               out' = Append(out, Halted(t, on, c)), alive' = alive
        PROVE  Gone'
    <3>1. Halted(t, on, c) \in OutMessages /\ Halted(t, on, c).kind # "exit"
      BY MessagesGiven DEF Halted
    <3> QED BY <1>4, <2>0, <2>2, <3>1 DEF Gone
  <2>3. ASSUME NEW t \in Threads, Stops(t) PROVE Gone'
    <3>1. out' = Append(out, Halted(t, TRUE, NoCall)) /\ alive' = alive BY <2>3, Zenon DEF Stops
    <3> QED BY <2>2, <3>1
  <2>4. ASSUME NEW t \in Threads, TakesResume(t) PROVE Gone'
    <3>1. out' = Append(out, Halted(t, FALSE, NoCall)) /\ alive' = alive BY <2>4, Zenon DEF TakesResume
    <3> QED BY <2>2, <3>1
  <2>5. ASSUME NEW t \in Threads, Interrupted(t) PROVE Gone'
    <3>1. PICK c \in Evals \cup {NoCall} : out' = Append(out, Halted(t, FALSE, c)) /\ alive' = alive
      BY <2>5 DEF Interrupted
    <3> QED BY <2>2, <3>1
  <2>6. ASSUME NEW t \in Threads, Finishes(t) PROVE Gone'
    <3>1. /\ at[t] \in Evals /\ alive' = alive
          /\ out' = out \o <<Printed(t, at[t]), Halted(t, TRUE, at[t])>>
      BY <2>6, Zenon DEF Finishes
    <3> DEFINE m == Printed(t, at[t])
               n == Halted(t, TRUE, at[t])
    <3>2. m \in OutMessages /\ n \in OutMessages BY <3>1, MessagesGiven
    <3>3. m.kind # "exit" /\ n.kind # "exit" BY DEF Printed, Halted
    <3> HIDE DEF m, n
    <3>4. out' = out \o <<m, n>> BY <3>1 DEF m, n
    <3> QED BY <1>4, <2>0, <3>1, <3>2, <3>3, <3>4 DEF Gone
  <2>7. CASE ProverExits
    <3>1. /\ alive' = FALSE /\ at' = [t \in Threads |-> "away"] /\ inputs' = [t \in Threads |-> <<>>]
          /\ out' = Append(out, ExitMark)
      BY <2>7, Zenon DEF ProverExits
    <3>2. \A i \in 1 .. Len(out') : out'[i].kind = "exit" => i = Len(out') /\ ~alive'
      <4>1. ExitMark \in OutMessages BY MessagesGiven
      <4> HIDE DEF OutMessages
      <4>2. \A i \in 1 .. Len(out) : out[i].kind # "exit" BY <2>0 DEF Gone
      <4>3. Len(out') = Len(out) + 1 /\ (\A i \in 1 .. Len(out) : out'[i] = out[i])
        BY <1>0, <3>1, <4>1, Appended
      <4>4. \A i \in 1 .. Len(out') : i \in 1 .. Len(out) \/ i = Len(out') BY <1>0, <4>3
      <4> QED BY <3>1, <4>2, <4>3, <4>4
    <3> QED BY <3>1, <3>2 DEF Gone
  <2> QED BY <1>5, <2>1, <2>3, <2>4, <2>5, <2>6, <2>7 DEF ProverSteps
<1> QED BY <1>2, <1>3, <1>5 DEF Next

-----------------------------------------------------------------------------
(* A step of the adapter.                                                  *)

LEMMA HeadOut ==
  ASSUME Typed, out # <<>>
  PROVE  /\ Head(out) = out[1] /\ 1 \in 1 .. Len(out) /\ Len(out) \in Nat \ {0}
         /\ Len(Tail(out)) = Len(out) - 1 /\ Head(out) \in OutMessages
         /\ \A i \in 1 .. Len(Tail(out)) : Tail(out)[i] = out[i + 1] /\ i + 1 \in 1 .. Len(out)
<1>1. out \in Seq(OutMessages) BY DEF Typed, Queues
<1> HIDE DEF OutMessages
<1>2. /\ Head(out) = out[1] /\ Len(out) \in Nat \ {0} /\ Len(Tail(out)) = Len(out) - 1
      /\ Head(out) \in OutMessages /\ \A i \in 1 .. Len(Tail(out)) : Tail(out)[i] = out[i + 1]
  BY <1>1, Shifted
<1> QED BY <1>2

LEMMA OthersTaken ==
  ASSUME Typed, NEW u \in Threads, out # <<>>, out' = Tail(out), Head(out) \notin About(u)
  PROVE  Others(u)
BY DEF Others

LEMMA OneStart ==
  ASSUME Typed, Tables, Gone, Marks, NEW u \in Threads, One(u), u \notin astray', NEW c \in Evals,
         StartEval(c), out' = out
  PROVE  One(u)'
<1>0. Others(u) BY DEF Others
<1>1. CASE StartRefused(c)
  <2>1. UNCHANGED <<adapter, prover, owed>> BY <1>1, Zenon DEF StartRefused
  <2>2. Owner'[u] = Owner[u] BY <2>1, OwnerSame DEF adapter, Rows
  <2>3. at'[u] = at[u] /\ inputs'[u] = inputs[u] /\ alive' = alive BY <2>1 DEF prover
  <2> QED BY <1>0, <2>2, <2>3, OneKept
<1>2. CASE StartAccepted(c)
  <2> DEFINE t == OnThread[c]
  <2>0. t \in Threads /\ c # NoCall /\ c \in Evals \cup Resumes BY CallsApart
  <2>1. /\ ~Busy(t) /\ pending' = [pending EXCEPT ![t] = c] /\ UNCHANGED <<debt, owed>> /\ Feed(t, c)
    BY <1>2, Zenon DEF StartAccepted
  <2>2. pending \in [Threads -> Evals \cup {NoCall}] /\ debt \in [Threads -> 0 .. 1]
        /\ inputs \in [Threads -> Seq(Evals \cup Resumes)]
    BY DEF Typed, Adapter, Prover
  <2>3. CASE u = t
    <3>1. pending'[t] = c BY <2>0, <2>1, <2>2
    <3>2. Owner'[t] = c BY <2>0, <3>1, OwnerBecomes
    <3>3. Owner[t] = NoCall BY <2>0, <2>1, OwnerIs DEF Busy
    <3>4. Marked(t) BY <2>0 DEF Marks
    <3> QED BY <1>2, <2>3, <3>2, <3>3, <3>4, OneAccepted
  <2>4. CASE u # t
    <3>1. pending'[u] = pending[u] BY <2>1, <2>2, <2>4
    <3>2. Owner'[u] = Owner[u] BY <2>1, <3>1, OwnerSame DEF Rows
    <3>3. UNCHANGED <<alive, at>> /\ inputs' = IF alive THEN [inputs EXCEPT ![t] = Append(inputs[t], c)] ELSE inputs
      BY <2>1, Zenon DEF Feed
    <3>4. inputs'[u] = inputs[u] BY <2>2, <2>4, <3>3
    <3> QED BY <1>0, <3>2, <3>3, <3>4, OneKept
  <2> QED BY <2>3, <2>4
<1> QED BY <1>1, <1>2 DEF StartEval

LEMMA OneAdapter ==
  ASSUME Typed, Stages, Tables, Ones, Marks, Gone, AdapterSteps, NEW u \in Threads, u \notin astray'
  PROVE  One(u)'
<1>0. One(u)
  <2>1. astray \subseteq astray' BY StraysStay DEF Next
  <2> QED BY <2>1 DEF Ones
<1>1. ASSUME Others(u), UNCHANGED <<prover, Rows(u)>> PROVE One(u)'
  <2>1. Owner'[u] = Owner[u] BY <1>1, OwnerSame
  <2>2. at'[u] = at[u] /\ inputs'[u] = inputs[u] /\ alive' = alive BY <1>1 DEF prover
  <2> QED BY <1>0, <1>1, <2>1, <2>2, OneKept
<1>2. CASE MainReadsEval \/ MainReadsAbort \/ \E c \in Evals : TimerFires(c)
  <2>1. UNCHANGED <<out, prover, pending, debt, owed>>
    BY <1>2, Zenon DEF MainReadsEval, MainReadsAbort, TimerFires, adapter, history
  <2> QED BY <1>1, <2>1 DEF Others, Rows
<1>3. CASE MainReadsResume
  <2> DEFINE r == Head(up).call
             t == OnThread[r]
  <2>1. UNCHANGED <<out, adapter, owed>> /\ up # <<>> /\ Head(up).kind = "resume" /\ Feed(t, r)
    BY <1>3, Zenon DEF MainReadsResume, MainReads
  <2>2. r \in Resumes BY <2>1, HeadsGiven
  <2>3. t \in Threads BY <2>2, CallsApart
  <2> HIDE DEF r, t
  <2>4. UNCHANGED <<alive, at>> /\ inputs' = IF alive THEN [inputs EXCEPT ![t] = Append(inputs[t], r)] ELSE inputs
    BY <2>1, Zenon DEF Feed
  <2>5. inputs \in [Threads -> Seq(Evals \cup Resumes)] BY DEF Typed, Prover
  <2>6. inputs'[u] = inputs[u] \/ inputs'[u] = Append(inputs[u], r) BY <2>3, <2>4, <2>5
  <2>7. Owner'[u] = Owner[u] BY <2>1, OwnerSame DEF Rows, adapter
  <2>8. Others(u) BY <2>1 DEF Others
  <2>9. inputs'[u] = inputs[u] \/ \E s \in Resumes : inputs'[u] = Append(inputs[u], s)
    BY <2>2, <2>6
  <2>10. at'[u] = at[u] /\ alive' = alive BY <2>4
  <2> QED BY <1>0, <2>7, <2>8, <2>9, <2>10, OneKept
<1>4. CASE RunsPosted
  <2>1. PICK c \in Evals : StartEval(c) \/ Backstop(c) BY <1>4, PostedSteps
  <2>2. out' = out BY <1>4, PostedSteps
  <2>3. CASE StartEval(c) BY <1>0, <2>2, <2>3, OneStart
  <2>4. CASE Backstop(c)
    <3>1. UNCHANGED Owner BY <2>4, BackstopPromised DEF Promise!Expire
    <3>2. UNCHANGED prover BY <2>4, BackstopMoves
    <3>3. at'[u] = at[u] /\ inputs'[u] = inputs[u] /\ alive' = alive BY <3>2 DEF prover
    <3>4. Owner'[u] = Owner[u] BY <3>1
    <3>5. Others(u) BY <2>2 DEF Others
    <3> QED BY <1>0, <3>3, <3>4, <3>5, OneKept
  <2> QED BY <2>1, <2>3, <2>4
<1>5. CASE TakesOutput
  <2>1. out # <<>> /\ Head(out).kind = "output" /\ out' = Tail(out) /\ UNCHANGED <<prover, pending, debt, owed>>
    BY <1>5, Zenon DEF TakesOutput, history
  <2>2. \A m \in About(u) : m.kind = "state" BY AboutGiven
  <2>3. Head(out) \notin About(u) BY <2>1, <2>2
  <2> QED BY <1>1, <2>1, <2>3, OthersTaken DEF Rows
<1>6. CASE TakesState
  <2>1. /\ out # <<>> /\ out' = Tail(out) /\ Head(out) \in Halts
        /\ StateTaken(Head(out).thread, Head(out).on)
    BY <1>6, StateSteps
  <2> DEFINE t == Head(out).thread
  <2>2. Owner'[t] = NoCall /\ \A v \in Threads : v # t => UNCHANGED Rows(v)
    BY <2>1, StateFrees
  <2>3. UNCHANGED prover BY <2>1, StateMoves
  <2>4. CASE u = t BY <1>0, <2>1, <2>2, <2>3, <2>4, OneTaken
  <2>5. CASE u # t
    <3>1. \A m \in About(u) : m.thread = u BY AboutGiven
    <3>2. Head(out) \notin About(u) BY <2>5, <3>1
    <3>3. UNCHANGED Rows(u) BY <2>2, <2>5
    <3> QED BY <1>1, <2>1, <2>3, <3>2, <3>3, OthersTaken
  <2> QED BY <2>4, <2>5
<1>7. CASE TakesExit
  <2>1. /\ out # <<>> /\ out' = Tail(out) /\ Head(out).kind = "exit" /\ UNCHANGED prover
        /\ pending' = [t \in Threads |-> NoCall] /\ debt' = [t \in Threads |-> 0]
    BY <1>7, ExitSteps
  <2>2. pending'[u] = NoCall /\ debt'[u] = 0 BY <2>1
  <2>3. Owner'[u] = NoCall BY <2>2, OwnerBecomes
  <2>4. Len(out) = 1 /\ ~alive BY <2>1, HeadOut DEF Gone
  <2>5. at'[u] = "away" /\ inputs'[u] = <<>> BY <2>1, <2>4 DEF Gone, prover
  <2>6. "away" \notin Evals BY CallsApart
  <2>7. ~AtHand(u)'
    <3>1. Queued(u)' = {} BY <2>5 DEF Queued, Places
    <3> QED BY <2>5, <2>6, <3>1 DEF AtHand
  <2>8. Ended(u)' = {}
    <3>1. Len(out') = 0 BY <2>1, <2>4, HeadOut
    <3> QED BY <3>1 DEF Ended, Places
  <2> QED BY <2>3, <2>7, <2>8, OneFreed
<1> QED BY <1>2, <1>3, <1>4, <1>5, <1>6, <1>7, Zenon DEF AdapterSteps

-----------------------------------------------------------------------------
(* A step of the prover.                                                   *)

\* A state of another thread's, or the output and the state of its evaluation.
LEMMA OthersHalt ==
  ASSUME NEW t \in Threads, NEW u \in Threads, u # t, NEW on \in BOOLEAN, NEW c \in Evals \cup {NoCall}
  PROVE  /\ out' = Append(out, Halted(t, on, c)) => Others(u)
         /\ c \in Evals /\ out' = out \o <<Printed(t, c), Halted(t, on, c)>> => Others(u)
<1>1. Halted(t, on, c) \notin About(u) /\ Halted(t, on, c) \in OutMessages BY KindOf, MessagesGiven
<1>2. c \in Evals => Printed(t, c) \notin About(u) /\ Printed(t, c) \in OutMessages
  BY OutputsGiven, MessagesGiven
<1> QED BY <1>1, <1>2, Zenon DEF Others

LEMMA MarkAppended ==
  ASSUME Typed, NEW u \in Threads, out' = Append(out, ExitMark)
  PROVE  /\ Ended(u)' = Ended(u) /\ Left(u)' = Left(u) /\ Arrived(u)' = Arrived(u) /\ Quiet(u)' = Quiet(u)
         /\ Halting(u)' = Halting(u) /\ \A i \in 1 .. Len(out) : out'[i] = out[i]
<1>0. out \in Seq(OutMessages) /\ ExitMark \in OutMessages BY MessagesGiven DEF Typed, Queues
<1>1. ExitMark \notin About(u) BY ExitGiven
<1>2. /\ ExitMark \notin Completions(u) /\ ExitMark \notin Offs(u) /\ ExitMark \notin Arrivals(u)
      /\ ExitMark \notin Ends(u) /\ ExitMark \notin Ons(u)
  BY <1>1, KindsGiven
<1> HIDE DEF OutMessages, ExitMark
<1>3. \A S : ExitMark \notin S => Places(out', S) = Places(out, S) BY <1>0, PlacesAppended
<1>4. \A i \in 1 .. Len(out) : out'[i] = out[i] BY <1>0, Appended
<1>5. Ended(u)' = Places(out', Completions(u)) /\ Left(u)' = Places(out', Offs(u))
      /\ Halting(u)' = Places(out', Ons(u)) /\ Arrived(u)' = Places(out', Arrivals(u))
      /\ Quiet(u)' = Places(out', Ends(u))
  BY DEF Ended, Left, Halting, Arrived, Quiet
<1>6. Ended(u)' = Ended(u) /\ Left(u)' = Left(u) BY <1>2, <1>3, <1>5 DEF Ended, Left
<1>7. Arrived(u)' = Arrived(u) /\ Quiet(u)' = Quiet(u) /\ Halting(u)' = Halting(u)
  BY <1>2, <1>3, <1>5 DEF Arrived, Quiet, Halting
<1> QED BY <1>4, <1>6, <1>7

LEMMA OneExits ==
  ASSUME Typed, NEW u \in Threads, One(u), ProverExits, Owner'[u] = Owner[u]
  PROVE  One(u)'
<1>1. /\ alive' = FALSE /\ at' = [t \in Threads |-> "away"] /\ inputs' = [t \in Threads |-> <<>>]
      /\ out' = Append(out, ExitMark)
  BY Zenon DEF ProverExits
<1>2. at'[u] = "away" /\ inputs'[u] = <<>> BY <1>1
<1>3. Queued(u)' = {} BY <1>2 DEF Queued, Places
<1>4. ~AtHand(u)' BY <1>2, <1>3, CallsApart DEF AtHand
<1>5. Once(inputs[u], Evals)' BY <1>3 DEF Once, Queued
<1>6. /\ Ended(u)' = Ended(u) /\ Left(u)' = Left(u) /\ Arrived(u)' = Arrived(u) /\ Quiet(u)' = Quiet(u)
      /\ \A i \in 1 .. Len(out) : out'[i] = out[i]
  BY <1>1, MarkAppended
<1>7. Once(out, Completions(u))' BY <1>6, OnceEnded DEF One
<1>8. \A i \in Ended(u) : i \in 1 .. Len(out) BY PlacesBounded
<1>9. \A i \in Ended(u)' : out'[i].of = Owner'[u] /\ ~AtHand(u)' BY <1>4, <1>6, <1>8 DEF One
<1>10. \A i \in Quiet(u)' : ~AtHand(u)' /\ \A j \in Ended(u)' : j <= i BY <1>4, <1>6 DEF One
<1>11. \A i \in Arrived(u)' : (\A j \in Left(u)' : j > i) => Owner'[u] = NoCall BY <1>6 DEF One
<1>12. "away" \notin Evals BY CallsApart
<1> QED BY <1>1, <1>2, <1>3, <1>5, <1>7, <1>9, <1>10, <1>11, <1>12, Zenon DEF One

\* A resumption, or an interrupt, that leaves nothing unread.
LEMMA OneResumed ==
  ASSUME Typed, NEW u \in Threads, One(u), TakesResume(u), u \notin astray', Owner'[u] = Owner[u]
  PROVE  One(u)'
<1>0. /\ at \in [Threads -> {"away", "stopped"} \cup Evals] /\ NoCall \notin Evals
      /\ inputs \in [Threads -> Seq(Evals \cup Resumes)] /\ Evals \cap Resumes = {}
      /\ "stopped" \notin Evals /\ "away" \notin Evals
  BY CallsApart DEF Typed, Prover
<1>1. /\ at[u] = "stopped" /\ inputs[u] # <<>> /\ Head(inputs[u]) \in Resumes /\ alive' = alive
      /\ at' = [at EXCEPT ![u] = "away"] /\ inputs' = [inputs EXCEPT ![u] = Tail(inputs[u])]
      /\ out' = Append(out, Halted(u, FALSE, NoCall)) /\ LeavesInput(u, Tail(inputs[u]))
  BY Zenon DEF TakesResume
<1>2. at'[u] = "away" /\ inputs'[u] = Tail(inputs[u]) BY <1>0, <1>1
<1>3. inputs[u] \in Seq(Evals \cup Resumes) BY <1>0
<1>4. Places(Tail(inputs[u]), Evals) = {}
  <2>1. ~\E i \in DOMAIN Tail(inputs[u]) : Tail(inputs[u])[i] \in Evals BY <1>1 DEF LeavesInput
  <2>2. Tail(inputs[u]) \in Seq(Evals \cup Resumes) BY <1>1, <1>3
  <2>3. DOMAIN Tail(inputs[u]) = 1 .. Len(Tail(inputs[u])) BY <2>2
  <2> QED BY <2>1, <2>3 DEF Places
<1>5. Queued(u)' = {} BY <1>2, <1>4 DEF Queued
<1>6. Queued(u) = {}
  <2>1. Head(inputs[u]) \notin Evals BY <1>0, <1>1
  <2>2. \A i \in Places(inputs[u], Evals) : i # 1 => i - 1 \in Places(Tail(inputs[u]), Evals)
    BY <1>1, <1>3, PlacesTail
  <2>3. 1 \notin Places(inputs[u], Evals) BY <1>1, <1>3, <2>1, PlacesTail
  <2> QED BY <1>4, <2>2, <2>3 DEF Queued
<1>7. at[u] # "away" /\ NoCall = IF at[u] \in Evals THEN at[u] ELSE NoCall BY <1>0, <1>1
<1>8. NoCall \in Evals \cup {NoCall} OBVIOUS
<1> QED BY <1>1, <1>2, <1>5, <1>6, <1>7, <1>8, OneLeaves

LEMMA OneInterrupted ==
  ASSUME Typed, NEW u \in Threads, One(u), Interrupted(u), u \notin astray', Owner'[u] = Owner[u]
  PROVE  One(u)'
<1> DEFINE c == IF at[u] \in Evals THEN at[u] ELSE NoCall
<1>1. /\ at[u] # "away" /\ at' = [at EXCEPT ![u] = "away"] /\ UNCHANGED <<alive, inputs>>
      /\ out' = Append(out, Halted(u, FALSE, c)) /\ LeavesInput(u, inputs[u])
  BY Zenon DEF Interrupted
<1>2. c \in Evals \cup {NoCall} OBVIOUS
<1>c. c = IF at[u] \in Evals THEN at[u] ELSE NoCall OBVIOUS
<1> HIDE DEF c
<1>3. at'[u] = "away" BY <1>1 DEF Typed, Prover
<1>4. Queued(u) = {}
  <2>1. ~\E i \in DOMAIN inputs[u] : inputs[u][i] \in Evals BY <1>1 DEF LeavesInput
  <2>2. DOMAIN inputs[u] = 1 .. Len(inputs[u]) BY DEF Typed, Prover
  <2> QED BY <2>1, <2>2 DEF Queued, Places
<1>5. Queued(u)' = {} BY <1>1, <1>4 DEF Queued
<1> QED BY <1>1, <1>2, <1>c, <1>3, <1>4, <1>5, OneLeaves

LEMMA OneProver ==
  ASSUME Typed, Ones, Marks, ProverSteps, NEW u \in Threads, u \notin astray' PROVE One(u)'
<1>0. One(u)
  <2>1. astray \subseteq astray' BY StraysStay DEF Next
  <2> QED BY <2>1 DEF Ones
<1>1. Owner'[u] = Owner[u] BY ProverFrame, OwnerSame DEF Rows, adapter
<1>2. Marked(u) BY DEF Marks
<1>y. /\ at \in [Threads -> {"away", "stopped"} \cup Evals]
      /\ inputs \in [Threads -> Seq(Evals \cup Resumes)] /\ NoCall \in Evals \cup {NoCall}
      /\ TRUE \in BOOLEAN /\ FALSE \in BOOLEAN
  BY DEF Typed, Prover
<1>3. CASE ProverExits BY <1>0, <1>1, <1>3, OneExits
<1>4. ASSUME NEW t \in Threads, t # u,
             Stops(t) \/ TakesEval(t) \/ TakesResume(t) \/ Finishes(t) \/ Interrupted(t)
      PROVE  One(u)'
  <2>1. at'[u] = at[u] /\ inputs'[u] = inputs[u] /\ alive' = alive
    <3>1. /\ alive' = alive /\ \E v : at' = [at EXCEPT ![t] = v]
          /\ inputs' = inputs \/ \E w : inputs' = [inputs EXCEPT ![t] = w]
      BY <1>4, Zenon DEF Stops, TakesEval, TakesResume, Finishes, Interrupted
    <3> QED BY <3>1, <1>4, <1>y
  <2>2. Others(u)
    <3>1. CASE Stops(t)
      <4>1. out' = Append(out, Halted(t, TRUE, NoCall)) BY <3>1, Zenon DEF Stops
      <4> QED BY <4>1, <1>4, <1>y, OthersHalt
    <3>2. CASE TakesEval(t) BY <3>2, Zenon DEF TakesEval, Others
    <3>3. CASE TakesResume(t)
      <4>1. out' = Append(out, Halted(t, FALSE, NoCall)) BY <3>3, Zenon DEF TakesResume
      <4> QED BY <4>1, <1>4, <1>y, OthersHalt
    <3>4. CASE Finishes(t)
      <4>1. at[t] \in Evals /\ out' = out \o <<Printed(t, at[t]), Halted(t, TRUE, at[t])>>
        BY <3>4, Zenon DEF Finishes
      <4>2. at[t] \in Evals \cup {NoCall} BY <4>1
      <4> QED BY <4>1, <4>2, <1>4, <1>y, OthersHalt
    <3>5. CASE Interrupted(t)
      <4>1. PICK c \in Evals \cup {NoCall} : out' = Append(out, Halted(t, FALSE, c))
        BY <3>5 DEF Interrupted
      <4> QED BY <4>1, <1>4, <1>y, OthersHalt
    <3> QED BY <1>4, <3>1, <3>2, <3>3, <3>4, <3>5
  <2> QED BY <1>0, <1>1, <2>1, <2>2, OneKept
<1>5. Stops(u) => One(u)' BY <1>0, <1>1, <1>2, OneStops
<1>6. TakesEval(u) => One(u)' BY <1>0, <1>1, OneTakesEval
<1>7. Finishes(u) => One(u)' BY <1>0, <1>1, OneFinishes
<1>8. TakesResume(u) => One(u)' BY <1>0, <1>1, OneResumed
<1>9. Interrupted(u) => One(u)' BY <1>0, <1>1, OneInterrupted
<1> QED BY <1>3, <1>4, <1>5, <1>6, <1>7, <1>8, <1>9, Zenon DEF ProverSteps

LEMMA OnesStep ==
  ASSUME Typed, Stages, Tables, Ones, Marks, Gone, [Next]_vars PROVE Ones'
<1> SUFFICES ASSUME NEW u \in Threads, u \notin astray' PROVE One(u)' BY DEF Ones
<1>1. CASE AdapterSteps BY <1>1, OneAdapter
<1>2. CASE ProverSteps BY <1>2, OneProver
<1>3. CASE CallerSteps \/ UNCHANGED vars
  <2>1. UNCHANGED <<adapter, prover, out, history>> BY <1>3, CallerFrame DEF vars
  <2>2. One(u) BY <2>1 DEF Ones, history
  <2>3. Owner'[u] = Owner[u] BY <2>1, OwnerSame DEF Rows, adapter, history
  <2>4. at'[u] = at[u] /\ inputs'[u] = inputs[u] /\ alive' = alive /\ Others(u)
    BY <2>1 DEF prover, Others
  <2> QED BY <2>2, <2>3, <2>4, OneKept
<1> QED BY <1>1, <1>2, <1>3 DEF Next

-----------------------------------------------------------------------------
(* The marks of arrivals and departures.                                   *)

LEMMA MarkedStops ==
  ASSUME Typed, NEW t \in Threads, Marked(t), Stops(t), UNCHANGED threads PROVE Marked(t)'
<1>1. /\ alive /\ at[t] = "away" /\ at' = [at EXCEPT ![t] = "stopped"] /\ UNCHANGED <<alive, inputs>>
      /\ out' = Append(out, Halted(t, TRUE, NoCall))
  BY Zenon DEF Stops
<1> DEFINE n == Len(out) + 1
<1>2. Left(t)' = Left(t) /\ Arrived(t)' = Arrived(t) \cup {n} /\ Halting(t)' = Halting(t) \cup {n}
  <2>1. TRUE \in BOOLEAN /\ NoCall \in Evals \cup {NoCall} OBVIOUS
  <2>2. /\ Left(t)' = Left(t) \cup (IF TRUE THEN {} ELSE {n})
        /\ Arrived(t)' = Arrived(t) \cup (IF TRUE /\ NoCall = NoCall THEN {n} ELSE {})
        /\ Halting(t)' = Halting(t) \cup (IF TRUE THEN {n} ELSE {})
    BY <2>1, <1>1, HaltedAppended, Zenon
  <2> QED BY <2>2
<1>3. /\ n \in Nat /\ \A i \in Arrived(t) \cup Left(t) \cup Halting(t) : i \in Nat /\ i < n
  BY PlacesBounded
<1> HIDE DEF n
<1>4. at'[t] # "away" BY <1>1 DEF Typed, Prover
<1>5. ASSUME NEW j \in Arrived(t)'
      PROVE  /\ \A i \in Halting(t)' : i < j => \E k \in Left(t)' : i < k /\ k < j
             /\ (\A i \in Left(t)' : i > j) => t \notin threads'
  <2>1. CASE j \in Arrived(t)
    <3>1. \A i \in Halting(t)' : i < j => i \in Halting(t) BY <1>2, <1>3, <2>1
    <3> QED BY <1>2, <2>1, <3>1 DEF Marked
  <2>2. CASE j = n
    <3>1. \A i \in Halting(t)' : i < j => i \in Halting(t) BY <1>2, <1>3, <2>2
    <3>2. \A i \in Halting(t) : \E k \in Left(t) : i < k /\ k < n BY <1>1, <1>3 DEF Marked
    <3>3. (\A i \in Left(t) : i > n) => Left(t) = {} BY <1>3
    <3>4. Left(t) = {} => t \notin threads BY <1>1 DEF Marked
    <3> QED BY <1>2, <2>2, <3>1, <3>2, <3>3, <3>4
  <2> QED BY <1>2, <2>1, <2>2
<1> QED BY <1>4, <1>5, Zenon DEF Marked

LEMMA MarkedLeaves ==
  ASSUME Typed, NEW t \in Threads, Marked(t), UNCHANGED threads, NEW c \in Evals \cup {NoCall},
         out' = Append(out, Halted(t, FALSE, c))
  PROVE  Marked(t)'
<1> DEFINE n == Len(out) + 1
<1>1. Left(t)' = Left(t) \cup {n} /\ Arrived(t)' = Arrived(t) /\ Halting(t)' = Halting(t)
  <2>1. FALSE \in BOOLEAN OBVIOUS
  <2>2. /\ Left(t)' = Left(t) \cup (IF FALSE THEN {} ELSE {n})
        /\ Arrived(t)' = Arrived(t) \cup (IF FALSE /\ c = NoCall THEN {n} ELSE {})
        /\ Halting(t)' = Halting(t) \cup (IF FALSE THEN {n} ELSE {})
    BY <2>1, HaltedAppended, Zenon
  <2> QED BY <2>2
<1>2. /\ n \in Nat /\ \A i \in Arrived(t) \cup Left(t) \cup Halting(t) : i \in Nat /\ i < n
  BY PlacesBounded
<1> HIDE DEF n
<1>3. Left(t)' # {} /\ \A i \in Halting(t)' : \E j \in Left(t)' : j > i BY <1>1, <1>2
<1>4. \A j \in Arrived(t)' :
        /\ \A i \in Halting(t)' : i < j => \E k \in Left(t)' : i < k /\ k < j
        /\ (\A i \in Left(t)' : i > j) => t \notin threads'
  BY <1>1 DEF Marked
<1> QED BY <1>3, <1>4, Zenon DEF Marked

LEMMA MarkedFinishes ==
  ASSUME Typed, NEW t \in Threads, Marked(t), Finishes(t), UNCHANGED threads PROVE Marked(t)'
<1>1. /\ at[t] \in Evals /\ at' = [at EXCEPT ![t] = "stopped"]
      /\ out' = out \o <<Printed(t, at[t]), Halted(t, TRUE, at[t])>>
  BY Zenon DEF Finishes
<1> DEFINE n == Len(out) + 2
<1>2. Left(t)' = Left(t) /\ Arrived(t)' = Arrived(t) /\ Halting(t)' = Halting(t) \cup {n}
  BY <1>1, FinishAppended
<1>3. /\ n \in Nat /\ \A i \in Arrived(t) : i \in Nat /\ i < n
  <2>1. Len(out) \in Nat /\ \A i \in Arrived(t) : i \in Nat /\ i < Len(out) + 1 BY PlacesBounded
  <2> QED BY <2>1
<1> HIDE DEF n
<1>4. at'[t] # "away" BY <1>1 DEF Typed, Prover
<1>5. \A j \in Arrived(t)' : \A i \in Halting(t)' : i < j => i \in Halting(t) BY <1>2, <1>3
<1>6. \A j \in Arrived(t)' :
        /\ \A i \in Halting(t)' : i < j => \E k \in Left(t)' : i < k /\ k < j
        /\ (\A i \in Left(t)' : i > j) => t \notin threads'
  BY <1>2, <1>5 DEF Marked
<1> QED BY <1>4, <1>6, Zenon DEF Marked

\* The adapter takes a state of the thread.
LEMMA MarkedTaken ==
  ASSUME Typed, NEW t \in Threads, Marked(t), out # <<>>, out' = Tail(out), UNCHANGED prover,
         NEW on \in BOOLEAN, NEW c \in Evals \cup {NoCall}, Head(out) = Halted(t, on, c),
         threads' = IF on THEN threads \cup {t} ELSE threads \ {t}
  PROVE  Marked(t)'
<1>0. out \in Seq(OutMessages) BY DEF Typed, Queues
<1>1. (on => Halted(t, on, c) \in Ons(t)) /\ (~on => t \notin threads') BY DEF Halted, Ons, StatesOf
<1>2. on => 1 \in Halting(t) BY <1>1, HeadOut DEF Halting, Places
<1> HIDE DEF OutMessages
<1>3. \A S : \A i : i \in Places(out', S) <=> i \in Nat \ {0} /\ i + 1 \in Places(out, S)
  <2>1. /\ Len(out') = Len(out) - 1 /\ Len(out) \in Nat \ {0} /\ \A i \in 1 .. Len(out') : out'[i] = out[i + 1]
    BY <1>0, Shifted
  <2> QED BY <2>1 DEF Places
<1>4. /\ Left(t)' = Places(out', Offs(t)) /\ Halting(t)' = Places(out', Ons(t))
      /\ Arrived(t)' = Places(out', Arrivals(t))
  BY DEF Left, Halting, Arrived
<1>5. /\ \A i : i \in Left(t)' <=> i \in Nat \ {0} /\ i + 1 \in Left(t)
      /\ \A i : i \in Halting(t)' <=> i \in Nat \ {0} /\ i + 1 \in Halting(t)
      /\ \A i : i \in Arrived(t)' <=> i \in Nat \ {0} /\ i + 1 \in Arrived(t)
  BY <1>3, <1>4 DEF Left, Halting, Arrived
<1>6. \A i \in Left(t) : i \in Nat /\ (i > 1 => i - 1 \in Left(t)')
  <2> TAKE i \in Left(t)
  <2>1. i \in Nat BY PlacesBounded
  <2>2. i > 1 => i - 1 \in Nat \ {0} /\ (i - 1) + 1 = i BY <2>1
  <2> QED BY <1>5, <2>1, <2>2
<1>7. ASSUME alive', at'[t] = "away"
      PROVE  /\ Left(t)' = {} => t \notin threads'
             /\ \A i \in Halting(t)' : \E j \in Left(t)' : j > i
  <2>0. alive /\ at[t] = "away" BY <1>7 DEF prover
  <2>1. ASSUME on PROVE Left(t)' # {}
    <3>1. PICK j \in Left(t) : j > 1 BY <1>2, <2>0, <2>1 DEF Marked
    <3> QED BY <1>6, <3>1
  <2>2. ASSUME NEW i \in Halting(t)' PROVE \E j \in Left(t)' : j > i
    <3>1. i \in Nat /\ i # 0 /\ i + 1 \in Halting(t) BY <1>5
    <3>2. PICK j \in Left(t) : j > i + 1 BY <2>0, <3>1 DEF Marked
    <3>3. j - 1 \in Left(t)' /\ j - 1 > i BY <1>6, <3>1, <3>2
    <3> QED BY <3>3
  <2> QED BY <1>1, <2>1, <2>2
<1>8. ASSUME NEW j \in Arrived(t)'
      PROVE  /\ \A i \in Halting(t)' : i < j => \E k \in Left(t)' : i < k /\ k < j
             /\ (\A i \in Left(t)' : i > j) => t \notin threads'
  <2>1. j \in Nat /\ j # 0 /\ j + 1 \in Arrived(t) BY <1>5
  <2>2. ASSUME NEW i \in Halting(t)', i < j PROVE \E k \in Left(t)' : i < k /\ k < j
    <3>1. i \in Nat /\ i # 0 /\ i + 1 \in Halting(t) /\ i + 1 < j + 1 BY <1>5, <2>1, <2>2
    <3>2. PICK k \in Left(t) : i + 1 < k /\ k < j + 1 BY <2>1, <3>1 DEF Marked
    <3>3. k - 1 \in Left(t)' /\ i < k - 1 /\ k - 1 < j BY <1>6, <2>1, <3>1, <3>2
    <3> QED BY <3>3
  <2>3. ASSUME on, \A i \in Left(t)' : i > j PROVE FALSE
    <3>1. 1 \in Halting(t) /\ 1 < j + 1 BY <1>2, <2>1, <2>3
    <3>2. PICK k \in Left(t) : 1 < k /\ k < j + 1 BY <2>1, <3>1 DEF Marked
    <3>3. k - 1 \in Left(t)' /\ ~(k - 1 > j) BY <1>6, <2>1, <3>2
    <3> QED BY <2>3, <3>3
  <2> QED BY <1>1, <2>2, <2>3
<1> QED BY <1>7, <1>8, Zenon DEF Marked

LEMMA MarkedProver ==
  ASSUME Typed, Marks, ProverSteps, NEW u \in Threads PROVE Marked(u)'
<1>0. Marked(u) BY DEF Marks
<1>1. UNCHANGED threads BY ProverFrame DEF adapter
<1>y. /\ at \in [Threads -> {"away", "stopped"} \cup Evals] /\ NoCall \in Evals \cup {NoCall}
      /\ TRUE \in BOOLEAN /\ FALSE \in BOOLEAN /\ "away" \notin Evals
  BY CallsApart DEF Typed, Prover
<1>2. CASE ProverExits
  <2>1. alive' = FALSE /\ out' = Append(out, ExitMark) BY <1>2, Zenon DEF ProverExits
  <2>2. Left(u)' = Left(u) /\ Arrived(u)' = Arrived(u) /\ Halting(u)' = Halting(u)
    BY <2>1, MarkAppended
  <2> QED BY <1>0, <1>1, <2>1, <2>2 DEF Marked
<1>3. ASSUME NEW t \in Threads, t # u,
             Stops(t) \/ TakesEval(t) \/ TakesResume(t) \/ Finishes(t) \/ Interrupted(t)
      PROVE  Marked(u)'
  <2>1. at'[u] = at[u] /\ alive' = alive
    <3>1. /\ alive' = alive /\ \E v : at' = [at EXCEPT ![t] = v]
      BY <1>3, Zenon DEF Stops, TakesEval, TakesResume, Finishes, Interrupted
    <3> QED BY <3>1, <1>3, <1>y
  <2>2. Others(u)
    <3>1. CASE Stops(t)
      <4>1. out' = Append(out, Halted(t, TRUE, NoCall)) BY <3>1, Zenon DEF Stops
      <4> QED BY <4>1, <1>3, <1>y, OthersHalt
    <3>2. CASE TakesEval(t) BY <3>2, Zenon DEF TakesEval, Others
    <3>3. CASE TakesResume(t)
      <4>1. out' = Append(out, Halted(t, FALSE, NoCall)) BY <3>3, Zenon DEF TakesResume
      <4> QED BY <4>1, <1>3, <1>y, OthersHalt
    <3>4. CASE Finishes(t)
      <4>1. at[t] \in Evals /\ out' = out \o <<Printed(t, at[t]), Halted(t, TRUE, at[t])>>
        BY <3>4, Zenon DEF Finishes
      <4>2. at[t] \in Evals \cup {NoCall} BY <4>1
      <4> QED BY <4>1, <4>2, <1>3, <1>y, OthersHalt
    <3>5. CASE Interrupted(t)
      <4>1. PICK c \in Evals \cup {NoCall} : out' = Append(out, Halted(t, FALSE, c))
        BY <3>5 DEF Interrupted
      <4> QED BY <4>1, <1>3, <1>y, OthersHalt
    <3> QED BY <1>3, <3>1, <3>2, <3>3, <3>4, <3>5
  <2> QED BY <1>0, <1>1, <2>1, <2>2, MarkedKept
<1>4. Stops(u) => Marked(u)' BY <1>0, <1>1, MarkedStops
<1>5. ASSUME TakesEval(u) PROVE Marked(u)'
  <2>1. out' = out /\ Head(inputs[u]) \in Evals /\ at' = [at EXCEPT ![u] = Head(inputs[u])]
    BY <1>5, Zenon DEF TakesEval
  <2>2. at'[u] # "away" BY <1>y, <2>1
  <2>3. Left(u)' = Left(u) /\ Arrived(u)' = Arrived(u) /\ Halting(u)' = Halting(u)
    BY <2>1 DEF Left, Arrived, Halting
  <2> QED BY <1>0, <1>1, <2>2, <2>3 DEF Marked
<1>6. Finishes(u) => Marked(u)' BY <1>0, <1>1, MarkedFinishes
<1>7. ASSUME TakesResume(u) PROVE Marked(u)'
  <2>1. out' = Append(out, Halted(u, FALSE, NoCall)) BY <1>7, Zenon DEF TakesResume
  <2> QED BY <1>0, <1>1, <1>y, <2>1, MarkedLeaves
<1>8. ASSUME Interrupted(u) PROVE Marked(u)'
  <2>1. PICK c \in Evals \cup {NoCall} : out' = Append(out, Halted(u, FALSE, c))
    BY <1>8 DEF Interrupted
  <2> QED BY <1>0, <1>1, <2>1, MarkedLeaves
<1> QED BY <1>2, <1>3, <1>4, <1>5, <1>6, <1>7, <1>8, Zenon DEF ProverSteps

LEMMA MarksStep == ASSUME Typed, Marks, [Next]_vars PROVE Marks'
<1> SUFFICES ASSUME NEW u \in Threads PROVE Marked(u)' BY DEF Marks
<1>0. Marked(u) BY DEF Marks
<1>1. CASE ProverSteps BY <1>1, MarkedProver
<1>2. CASE CallerSteps \/ UNCHANGED vars
  <2>1. UNCHANGED <<adapter, prover, out>> BY <1>2, CallerFrame DEF vars
  <2>2. at'[u] = at[u] /\ alive' = alive /\ threads' = threads /\ Others(u)
    BY <2>1 DEF prover, adapter, Others
  <2> QED BY <1>0, <2>2, MarkedKept
<1>3. ASSUME UNCHANGED <<at, alive>>, u \in threads' => u \in threads, Others(u) PROVE Marked(u)'
  BY <1>0, <1>3, MarkedKept
<1>4. CASE MainReadsEval \/ MainReadsResume \/ MainReadsAbort \/ RunsPosted \/ \E c \in Evals : TimerFires(c)
  <2>1. UNCHANGED <<threads, out>>
    BY <1>4, Zenon DEF MainReadsEval, MainReadsResume, MainReadsAbort, RunsPosted, StartEval, StartRefused,
       StartAccepted, Backstop, TimerFires, adapter
  <2>2. UNCHANGED prover \/ \E t, i : Feed(t, i)
    BY <1>4, Zenon DEF MainReadsEval, MainReadsResume, MainReadsAbort, RunsPosted, StartEval, StartRefused,
       StartAccepted, Backstop, TimerFires
  <2>3. UNCHANGED <<at, alive>> BY <2>2, DeadFed DEF prover
  <2> QED BY <1>3, <2>1, <2>3 DEF Others
<1>5. CASE TakesOutput
  <2>1. out # <<>> /\ Head(out).kind = "output" /\ out' = Tail(out) /\ UNCHANGED <<prover, threads>>
    BY <1>5, Zenon DEF TakesOutput
  <2>2. \A m \in About(u) : m.kind = "state" BY AboutGiven
  <2>3. Head(out) \notin About(u) BY <2>1, <2>2
  <2> QED BY <1>3, <2>1, <2>3, OthersTaken DEF prover
<1>6. CASE TakesState
  <2>1. /\ out # <<>> /\ out' = Tail(out) /\ Head(out) \in Halts
        /\ StateTaken(Head(out).thread, Head(out).on)
    BY <1>6, StateSteps
  <2> DEFINE t == Head(out).thread
             on == Head(out).on
             c == Head(out).of
  <2>2. /\ t \in Threads /\ on \in BOOLEAN /\ c \in Evals \cup {NoCall} /\ Head(out) = Halted(t, on, c)
    BY <2>1, HaltGiven
  <2>3. UNCHANGED prover BY <2>1, StateMoves
  <2>4. threads' = IF on THEN threads \cup {t} ELSE threads \ {t} BY <2>1, Zenon DEF StateTaken
  <2> HIDE DEF t, on, c
  <2>5. CASE u = t BY <1>0, <2>1, <2>2, <2>3, <2>4, <2>5, MarkedTaken
  <2>6. CASE u # t
    <3>1. Halted(t, on, c) \notin About(u) BY <2>2, <2>6, KindOf
    <3>2. u \in threads' => u \in threads BY <2>4, <2>6
    <3> QED BY <1>3, <2>1, <2>2, <2>3, <3>1, <3>2, OthersTaken DEF prover
  <2> QED BY <2>5, <2>6
<1>7. CASE TakesExit
  <2>1. out # <<>> /\ Head(out).kind = "exit" /\ out' = Tail(out) /\ UNCHANGED prover /\ threads' = {}
    BY <1>7, ExitSteps
  <2>2. \A m \in About(u) : m.kind = "state" BY AboutGiven
  <2>3. Head(out) \notin About(u) BY <2>1, <2>2
  <2> QED BY <1>3, <2>1, <2>3, OthersTaken DEF prover
<1> QED BY <1>1, <1>2, <1>4, <1>5, <1>6, <1>7, Zenon DEF Next, AdapterSteps

-----------------------------------------------------------------------------
(* What the adapter keeps for a pending request is what it printed.        *)

\* The output of an evaluation is right before its completion.
Paired == \A i \in 1 .. Len(out) : out[i].kind = "output" =>
            i + 1 \in 1 .. Len(out) /\ out[i + 1] = Halted(out[i].thread, TRUE, out[i].of)

\* It is kept by the time the completion is next.
Foretold(t, i) ==
  \/ i > 1 /\ out[i - 1] = Printed(t, out[i].of)
  \/ i = 1 /\ (pending[t] = out[i].of => gathered[t] = {pending[t]})
Foreseen(t) == \A i \in Ended(t) : out[i].on => Foretold(t, i)
Gathers(t)  == gathered[t] \subseteq {pending[t]} /\ Foreseen(t)

Prints == /\ Paired
          /\ \A t \in Threads : gathered[t] # {} => pending[t] # NoCall
          /\ \A t \in Threads \ astray : Gathers(t)

LEMMA PairedStep == ASSUME Typed, Paired, [Next]_vars PROVE Paired'
<1>0. out \in Seq(OutMessages) /\ Len(out) \in Nat BY DEF Typed, Queues
<1>1. CASE out' = out BY <1>1 DEF Paired
<1>2. CASE out # <<>> /\ out' = Tail(out)
  <2>1. /\ Len(out') = Len(out) - 1 /\ \A i \in 1 .. Len(out') : out'[i] = out[i + 1] /\ i + 1 \in 1 .. Len(out)
    BY <1>2, HeadOut
  <2> SUFFICES ASSUME NEW i \in 1 .. Len(out'), out'[i].kind = "output"
               PROVE  i + 1 \in 1 .. Len(out') /\ out'[i + 1] = Halted(out'[i].thread, TRUE, out'[i].of)
    BY DEF Paired
  <2>2. (i + 1) + 1 \in 1 .. Len(out) /\ out[(i + 1) + 1] = Halted(out'[i].thread, TRUE, out'[i].of)
    BY <2>1 DEF Paired
  <2>3. i + 1 \in 1 .. Len(out') BY <1>0, <2>1, <2>2
  <2> QED BY <2>1, <2>2, <2>3
<1>3. ASSUME NEW m \in OutMessages, m.kind # "output", out' = Append(out, m) PROVE Paired'
  <2> HIDE DEF OutMessages
  <2>1. /\ Len(out') = Len(out) + 1 /\ out'[Len(out) + 1] = m /\ \A i \in 1 .. Len(out) : out'[i] = out[i]
    BY <1>0, <1>3, Appended
  <2> SUFFICES ASSUME NEW i \in 1 .. Len(out'), out'[i].kind = "output"
               PROVE  i + 1 \in 1 .. Len(out') /\ out'[i + 1] = Halted(out'[i].thread, TRUE, out'[i].of)
    BY DEF Paired
  <2>2. i # Len(out) + 1 BY <1>3, <2>1
  <2>3. i \in 1 .. Len(out) /\ out'[i] = out[i] BY <1>0, <2>1, <2>2
  <2>4. i + 1 \in 1 .. Len(out) /\ out[i + 1] = Halted(out[i].thread, TRUE, out[i].of)
    BY <2>3 DEF Paired
  <2>5. i + 1 \in 1 .. Len(out') /\ out'[i + 1] = out[i + 1]
    <3> DEFINE k == i + 1
    <3>1. k \in 1 .. Len(out) BY <2>4
    <3> HIDE DEF k
    <3>2. out'[k] = out[k] BY <2>1, <3>1
    <3>3. k \in 1 .. Len(out') BY <1>0, <2>1, <3>1
    <3> QED BY <3>2, <3>3 DEF k
  <2> QED BY <2>3, <2>4, <2>5
<1>4. ASSUME NEW t \in Threads, Finishes(t) PROVE Paired'
  <2> DEFINE c == at[t]
  <2>1. c \in Evals /\ out' = out \o <<Printed(t, c), Halted(t, TRUE, c)>> BY <1>4, Zenon DEF Finishes
  <2>2. /\ \A i \in 1 .. Len(out) : out'[i] = out[i]
        /\ out'[Len(out) + 1] = Printed(t, c) /\ out'[Len(out) + 2] = Halted(t, TRUE, c)
        /\ Len(out') = Len(out) + 2
    BY <2>1, FinishAppended
  <2>3. /\ Printed(t, c).thread = t /\ Printed(t, c).of = c /\ Halted(t, TRUE, c).kind = "state"
    BY DEF Printed, Halted
  <2> HIDE DEF c
  <2> SUFFICES ASSUME NEW i \in 1 .. Len(out'), out'[i].kind = "output"
               PROVE  i + 1 \in 1 .. Len(out') /\ out'[i + 1] = Halted(out'[i].thread, TRUE, out'[i].of)
    BY DEF Paired
  <2>4. i # Len(out) + 2 BY <2>2, <2>3
  <2>5. CASE i = Len(out) + 1
    <3>1. i + 1 = Len(out) + 2 /\ i + 1 \in 1 .. Len(out') BY <1>0, <2>2, <2>5
    <3>2. out'[i] = Printed(t, c) /\ out'[i + 1] = Halted(t, TRUE, c) BY <2>2, <2>5, <3>1
    <3> QED BY <2>3, <3>1, <3>2
  <2>6. CASE i # Len(out) + 1
    <3>1. i \in 1 .. Len(out) /\ out'[i] = out[i] BY <1>0, <2>2, <2>4, <2>6
    <3>2. i + 1 \in 1 .. Len(out) /\ out[i + 1] = Halted(out[i].thread, TRUE, out[i].of)
      BY <3>1 DEF Paired
    <3>3. i + 1 \in 1 .. Len(out') /\ out'[i + 1] = out[i + 1]
      <4> DEFINE k == i + 1
      <4>1. k \in 1 .. Len(out) BY <3>2
      <4> HIDE DEF k
      <4>2. out'[k] = out[k] BY <2>2, <4>1
      <4>3. k \in 1 .. Len(out') BY <1>0, <2>2, <4>1
      <4> QED BY <4>2, <4>3 DEF k
    <3> QED BY <3>1, <3>2, <3>3
  <2> QED BY <2>5, <2>6
<1>5. CASE CallerSteps \/ UNCHANGED vars BY <1>1, <1>5, CallerFrame DEF vars
<1>6. CASE AdapterSteps BY <1>1, <1>2, <1>6, OutMoves
<1>7. CASE ProverSteps
  <2>1. ASSUME NEW t \in Threads, NEW on \in BOOLEAN, NEW c \in Evals \cup {NoCall},
               out' = Append(out, Halted(t, on, c))
        PROVE  Paired'
    <3>1. Halted(t, on, c) \in OutMessages /\ Halted(t, on, c).kind # "output"
      BY MessagesGiven DEF Halted
    <3> QED BY <1>3, <2>1, <3>1
  <2>2. ASSUME NEW t \in Threads, Stops(t) PROVE Paired'
    <3>1. out' = Append(out, Halted(t, TRUE, NoCall)) BY <2>2, Zenon DEF Stops
    <3> QED BY <2>1, <3>1
  <2>3. ASSUME NEW t \in Threads, TakesResume(t) PROVE Paired'
    <3>1. out' = Append(out, Halted(t, FALSE, NoCall)) BY <2>3, Zenon DEF TakesResume
    <3> QED BY <2>1, <3>1
  <2>4. ASSUME NEW t \in Threads, Interrupted(t) PROVE Paired'
    <3>1. PICK c \in Evals \cup {NoCall} : out' = Append(out, Halted(t, FALSE, c))
      BY <2>4 DEF Interrupted
    <3> QED BY <2>1, <3>1
  <2>5. ASSUME NEW t \in Threads, TakesEval(t) PROVE Paired'
    <3>1. out' = out BY <2>5, Zenon DEF TakesEval
    <3> QED BY <1>1, <3>1
  <2>6. CASE ProverExits
    <3>1. out' = Append(out, ExitMark) BY <2>6, Zenon DEF ProverExits
    <3>2. ExitMark.kind # "output" /\ ExitMark \in OutMessages BY MessagesGiven DEF ExitMark
    <3> QED BY <1>3, <3>1, <3>2
  <2> QED BY <1>4, <1>7, <2>2, <2>3, <2>4, <2>5, <2>6 DEF ProverSteps
<1> QED BY <1>5, <1>6, <1>7 DEF Next

-----------------------------------------------------------------------------
(* The completions of a thread stay foreseen.                              *)

LEMMA ForeseenOn ==
  ASSUME Typed, NEW u \in Threads, Foreseen(u),
         \A i \in 1 .. Len(out) : out'[i] = out[i],
         UNCHANGED <<pending[u], gathered[u]>>,
         \A i \in Ended(u)' : i \in Ended(u) \/ ~out'[i].on
                              \/ (i > 1 /\ out'[i - 1] = Printed(u, out'[i].of))
  PROVE  Foreseen(u)'
<1> SUFFICES ASSUME NEW i \in Ended(u)', out'[i].on PROVE Foretold(u, i)'
  BY DEF Foreseen
<1>1. CASE i \in Ended(u)
  <2>1. i \in 1 .. Len(out) /\ out'[i] = out[i] /\ Len(out) \in Nat BY <1>1, PlacesBounded
  <2>2. i > 1 => out'[i - 1] = out[i - 1] BY <2>1
  <2>3. Foretold(u, i) BY <1>1, <2>1 DEF Foreseen
  <2> QED BY <2>1, <2>2, <2>3 DEF Foretold
<1>2. CASE i > 1 /\ out'[i - 1] = Printed(u, out'[i].of) BY <1>2 DEF Foretold
<1> QED BY <1>1, <1>2

LEMMA ForeseenShift ==
  ASSUME Typed, NEW u \in Threads, Foreseen(u), out # <<>>, out' = Tail(out),
         \A c \in Evals : Head(out) = Printed(u, c) =>
           pending'[u] = NoCall \/ gathered'[u] = {pending'[u]}
  PROVE  Foreseen(u)'
<1>1. /\ Head(out) = out[1] /\ Len(out) \in Nat /\ Len(out') = Len(out) - 1
      /\ \A i \in 1 .. Len(out') : out'[i] = out[i + 1] /\ i + 1 \in 1 .. Len(out)
  BY HeadOut
<1> SUFFICES ASSUME NEW i \in Ended(u)', out'[i].on PROVE Foretold(u, i)'
  BY DEF Foreseen
<1>2. Ended(u)' = Places(out', Completions(u)) BY DEF Ended
<1>3. i \in 1 .. Len(out') /\ out'[i] = out[i + 1] /\ out'[i] \in Completions(u) BY <1>1, <1>2 DEF Places
<1>4. i + 1 \in Ended(u) BY <1>1, <1>3 DEF Ended, Places
<1>5. i \in Nat /\ i # 0 /\ (i + 1) - 1 = i BY <1>1, <1>3
<1>6. Foretold(u, i + 1) BY <1>3, <1>4 DEF Foreseen
<1>7. out[i] = Printed(u, out'[i].of) BY <1>3, <1>5, <1>6 DEF Foretold
<1>8. CASE i > 1
  <2>1. i - 1 \in 1 .. Len(out') /\ (i - 1) + 1 = i BY <1>1, <1>3, <1>5, <1>8
  <2>2. out'[i - 1] = out[i] BY <1>1, <2>1
  <2> QED BY <1>7, <1>8, <2>2 DEF Foretold
<1>9. CASE i = 1
  <2>1. out'[i].of \in Evals BY <1>3, AboutGiven
  <2>2. pending'[u] = NoCall \/ gathered'[u] = {pending'[u]} BY <1>1, <1>7, <1>9, <2>1
  <2>3. out'[i].of # NoCall BY <2>1, CallsApart
  <2> QED BY <1>9, <2>2, <2>3 DEF Foretold
<1> QED BY <1>5, <1>8, <1>9

\* What the adapter does to one thread's request and its output.
LEMMA KeepMoves ==
  ASSUME Typed, Tables, AdapterSteps, NEW u \in Threads
  PROVE  \/ /\ UNCHANGED <<pending[u], gathered[u]>>
            /\ \/ out' = out
               \/ /\ out # <<>> /\ out' = Tail(out)
                  /\ \A c \in Evals : Head(out) = Printed(u, c) => pending[u] = NoCall
         \/ /\ pending'[u] = NoCall /\ gathered'[u] = {}
            /\ out' = out \/ (out # <<>> /\ out' = Tail(out))
         \/ /\ pending[u] = NoCall /\ pending'[u] \in Evals /\ UNCHANGED gathered[u] /\ out' = out
            /\ Owner[u] = NoCall
         \/ /\ pending[u] # NoCall /\ UNCHANGED pending[u] /\ out # <<>> /\ out' = Tail(out)
            /\ \E c \in Evals : Head(out) = Printed(u, c) /\ gathered'[u] = gathered[u] \cup {c}
<1>y. pending \in [Threads -> Evals \cup {NoCall}] /\ gathered \in [Threads -> SUBSET Evals]
  BY DEF Typed, Adapter
<1>1. CASE MainReadsEval \/ MainReadsResume \/ MainReadsAbort \/ \E c \in Evals : TimerFires(c)
  <2>1. UNCHANGED <<pending, gathered, out>>
    BY <1>1, Zenon DEF MainReadsEval, MainReadsResume, MainReadsAbort, TimerFires, adapter
  <2> QED BY <2>1
<1>2. CASE RunsPosted
  <2>1. PICK c \in Evals : StartEval(c) \/ Backstop(c) BY <1>2, PostedSteps
  <2>2. out' = out BY <1>2, PostedSteps
  <2> DEFINE t == OnThread[c]
  <2>0. t \in Threads /\ c # NoCall BY CallsApart
  <2>3. CASE StartEval(c)
    <3>1. \/ UNCHANGED adapter
          \/ pending' = [pending EXCEPT ![t] = c] /\ ~Busy(t) /\ UNCHANGED gathered
      BY <2>3, StartMoves
    <3>2. CASE UNCHANGED adapter BY <2>2, <3>2 DEF adapter
    <3>3. CASE pending' = [pending EXCEPT ![t] = c] /\ ~Busy(t) /\ UNCHANGED gathered
      <4> HIDE DEF t
      <4>1. CASE u = t
        <5>1. pending'[u] = c /\ pending[u] = NoCall BY <1>y, <2>0, <3>3, <4>1 DEF Busy
        <5>2. Owner[u] = NoCall BY <3>3, <4>1, <5>1, OwnerIs DEF Busy
        <5> QED BY <2>2, <3>3, <5>1, <5>2
      <4>2. CASE u # t
        <5>1. pending'[u] = pending[u] BY <1>y, <3>3, <4>2
        <5> QED BY <2>2, <3>3, <5>1
      <4> QED BY <4>1, <4>2
    <3> QED BY <3>1, <3>2, <3>3
  <2>4. CASE Backstop(c)
    <3>1. \/ UNCHANGED <<pending, gathered>>
          \/ pending' = [pending EXCEPT ![t] = NoCall] /\ gathered' = [gathered EXCEPT ![t] = {}]
      BY <2>4, BackstopMoves
    <3> HIDE DEF t
    <3>2. UNCHANGED <<pending[u], gathered[u]>> \/ (pending'[u] = NoCall /\ gathered'[u] = {})
      BY <1>y, <3>1
    <3> QED BY <2>2, <3>2
  <2> QED BY <2>1, <2>3, <2>4
<1>3. CASE TakesOutput
  <2> DEFINE t == Head(out).thread
             c == Head(out).of
  <2>1. /\ out # <<>> /\ Head(out).kind = "output" /\ out' = Tail(out) /\ UNCHANGED pending
        /\ gathered' = IF pending[t] = NoCall THEN gathered ELSE [gathered EXCEPT ![t] = gathered[t] \cup {c}]
    BY <1>3, Zenon DEF TakesOutput
  <2>2. t \in Threads /\ c \in Evals /\ Head(out) = Printed(t, c)
    <3>1. Head(out) \in Outputs BY <2>1, HeadsGiven
    <3> QED BY <3>1 DEF Outputs, Printed
  <2> HIDE DEF t, c
  <2>3. \A d \in Evals : Head(out) = Printed(u, d) => u = t BY <2>2 DEF Printed
  <2>4. CASE u # t
    <3>1. gathered'[u] = gathered[u] BY <1>y, <2>1, <2>4
    <3> QED BY <2>1, <2>3, <2>4, <3>1
  <2>5. CASE u = t /\ pending[t] = NoCall BY <2>1, <2>5
  <2>6. CASE u = t /\ pending[t] # NoCall
    <3>1. gathered'[u] = gathered[u] \cup {c} BY <1>y, <2>1, <2>2, <2>6
    <3> QED BY <2>1, <2>2, <2>6, <3>1
  <2> QED BY <2>4, <2>5, <2>6
<1>4. CASE TakesState
  <2>1. /\ out # <<>> /\ out' = Tail(out) /\ Head(out) \in Halts
        /\ StateTaken(Head(out).thread, Head(out).on)
    BY <1>4, StateSteps
  <2> DEFINE t == Head(out).thread
  <2>2. pending' = [pending EXCEPT ![t] = NoCall] /\ gathered' = [gathered EXCEPT ![t] = {}]
    BY <2>1, StateMoves
  <2> HIDE DEF t
  <2>3. UNCHANGED <<pending[u], gathered[u]>> \/ (pending'[u] = NoCall /\ gathered'[u] = {})
    BY <1>y, <2>2
  <2>4. \A c \in Evals : Head(out) # Printed(u, c)
    <3>1. Head(out).kind = "state" BY <2>1, HaltGiven
    <3> QED BY <3>1 DEF Printed
  <2> QED BY <2>1, <2>3, <2>4
<1>5. CASE TakesExit
  <2>1. /\ out # <<>> /\ out' = Tail(out)
        /\ pending' = [t \in Threads |-> NoCall] /\ gathered' = [t \in Threads |-> {}]
    BY <1>5, ExitSteps
  <2> QED BY <2>1
<1> QED BY <1>1, <1>2, <1>3, <1>4, <1>5, Zenon DEF AdapterSteps

LEMMA GathersAdapter ==
  ASSUME Typed, Tables, Ones, Prints, AdapterSteps, NEW u \in Threads, u \notin astray'
  PROVE  Gathers(u)'
<1>0. One(u) /\ Gathers(u) /\ Paired /\ (gathered[u] # {} => pending[u] # NoCall)
  <2>1. astray \subseteq astray' BY StraysStay DEF Next
  <2> QED BY <2>1 DEF Ones, Prints
<1>1. Foreseen(u) /\ gathered[u] \subseteq {pending[u]} BY <1>0 DEF Gathers
<1>2. ASSUME out' = out, UNCHANGED <<pending[u], gathered[u]>> PROVE Gathers(u)'
  <2>1. Ended(u)' = Ended(u) BY <1>2 DEF Ended
  <2> QED BY <1>1, <1>2, <2>1 DEF Gathers, Foreseen, Foretold
<1>3. CASE /\ UNCHANGED <<pending[u], gathered[u]>> /\ out # <<>> /\ out' = Tail(out)
           /\ \A c \in Evals : Head(out) = Printed(u, c) => pending[u] = NoCall
  <2>1. Foreseen(u)' BY <1>1, <1>3, ForeseenShift
  <2> QED BY <1>1, <1>3, <2>1 DEF Gathers
<1>4. CASE pending'[u] = NoCall /\ gathered'[u] = {} /\ out # <<>> /\ out' = Tail(out)
  <2>1. Foreseen(u)' BY <1>1, <1>4, ForeseenShift
  <2> QED BY <1>4, <2>1 DEF Gathers
<1>5. CASE pending'[u] = NoCall /\ gathered'[u] = {} /\ out' = out
  <2>1. Ended(u)' = Ended(u) BY <1>5 DEF Ended
  <2>2. \A i \in Ended(u) : out[i].of # NoCall
    <3>1. \A i \in Ended(u) : out[i].of \in Evals BY AboutGiven DEF Ended, Places
    <3> QED BY <3>1, CallsApart
  <2>3. Foreseen(u)'
    <3> SUFFICES ASSUME NEW i \in Ended(u), out[i].on PROVE Foretold(u, i)'
      BY <1>5, <2>1 DEF Foreseen
    <3>1. Foretold(u, i) BY <1>1 DEF Foreseen
    <3> QED BY <1>5, <2>2, <3>1 DEF Foretold
  <2> QED BY <1>5, <2>3 DEF Gathers
<1>6. CASE /\ pending[u] = NoCall /\ pending'[u] \in Evals /\ UNCHANGED gathered[u] /\ out' = out
           /\ Owner[u] = NoCall
  <2>1. Ended(u)' = {}
    <3>1. Ended(u) = {} BY <1>0, <1>6, FreeIsClean
    <3> QED BY <1>6, <3>1 DEF Ended
  <2>2. gathered'[u] = {} BY <1>0, <1>6
  <2> QED BY <2>1, <2>2 DEF Gathers, Foreseen
<1>7. ASSUME pending[u] # NoCall, UNCHANGED pending[u], out # <<>>, out' = Tail(out),
             NEW c \in Evals, Head(out) = Printed(u, c), gathered'[u] = gathered[u] \cup {c}
      PROVE  Gathers(u)'
  <2>1. Head(out) = out[1] /\ 1 \in 1 .. Len(out) BY <1>7, HeadOut
  <2>2. out[1].kind = "output" /\ out[1].thread = u /\ out[1].of = c BY <1>7, <2>1 DEF Printed
  <2>3. 2 \in 1 .. Len(out) /\ out[2] = Halted(u, TRUE, c)
    <3>1. 1 + 1 \in 1 .. Len(out) /\ out[1 + 1] = Halted(out[1].thread, TRUE, out[1].of)
      BY <1>0, <2>1, <2>2 DEF Paired
    <3>2. 1 + 1 = 2 OBVIOUS
    <3> QED BY <2>2, <3>1, <3>2, Zenon
  <2>4. 2 \in Ended(u)
    <3>1. Halted(u, TRUE, c) \in Completions(u) BY DEF Halted, Completions, StatesOf
    <3> QED BY <2>3, <3>1 DEF Ended, Places
  <2>5. out[2].of = c BY <2>3 DEF Halted
  <2>6. c = Owner[u] BY <1>0, <2>4, <2>5 DEF One
  <2>7. c = pending[u] BY <1>7, <2>6, OwnerIs
  <2>8. gathered'[u] = {pending'[u]} BY <1>1, <1>7, <2>7
  <2>9. Foreseen(u)' BY <1>1, <1>7, <2>8, ForeseenShift
  <2> QED BY <2>8, <2>9 DEF Gathers
<1> QED BY <1>2, <1>3, <1>4, <1>5, <1>6, <1>7, KeepMoves

LEMMA GathersProver ==
  ASSUME Typed, Prints, ProverSteps, NEW u \in Threads, u \notin astray' PROVE Gathers(u)'
<1>0. Gathers(u)
  <2>1. astray \subseteq astray' BY StraysStay DEF Next
  <2> QED BY <2>1 DEF Prints
<1>1. Foreseen(u) /\ gathered[u] \subseteq {pending[u]} BY <1>0 DEF Gathers
<1>2. UNCHANGED <<pending, gathered>> BY ProverFrame DEF adapter
<1>y. NoCall \in Evals \cup {NoCall} /\ TRUE \in BOOLEAN /\ FALSE \in BOOLEAN OBVIOUS
<1>3. ASSUME Foreseen(u)' PROVE Gathers(u)' BY <1>1, <1>2, <1>3 DEF Gathers
<1>4. ASSUME \A i \in 1 .. Len(out) : out'[i] = out[i],
             \A i \in Ended(u)' : i \in Ended(u) \/ ~out'[i].on
                                  \/ (i > 1 /\ out'[i - 1] = Printed(u, out'[i].of))
      PROVE  Gathers(u)'
  BY <1>1, <1>2, <1>3, <1>4, ForeseenOn
<1>5. ASSUME NEW t \in Threads, NEW on \in BOOLEAN, NEW c \in Evals \cup {NoCall},
             out' = Append(out, Halted(t, on, c)), t = u => (on => c = NoCall)
      PROVE  Gathers(u)'
  <2>1. CASE t = u
    <3>1. /\ Ended(u)' = Ended(u) \cup (IF c \in Evals THEN {Len(out) + 1} ELSE {})
          /\ \A i \in 1 .. Len(out) : out'[i] = out[i]
          /\ out'[Len(out) + 1] = Halted(u, on, c)
      BY <1>5, <2>1, HaltedAppended
    <3>2. c \in Evals => ~Halted(u, on, c).on
      <4>1. c \in Evals => c # NoCall BY CallsApart
      <4> QED BY <1>5, <2>1, <4>1 DEF Halted
    <3> QED BY <1>4, <3>1, <3>2
  <2>2. CASE t # u
    <3>0. out \in Seq(OutMessages) BY DEF Typed, Queues
    <3> DEFINE m == Halted(t, on, c)
    <3>1. m \notin Completions(u) /\ m \in OutMessages
      <4>1. Halted(t, on, c) \notin About(u) BY <2>2, KindOf
      <4>2. Completions(u) \subseteq About(u) BY KindsGiven
      <4>3. Halted(t, on, c) \in OutMessages BY MessagesGiven
      <4> QED BY <4>1, <4>2, <4>3
    <3> HIDE DEF m, OutMessages
    <3>2. out' = Append(out, m) BY <1>5 DEF m
    <3>3. Places(out', Completions(u)) = Places(out, Completions(u)) BY <3>0, <3>1, <3>2, PlacesAppended
    <3>4. \A i \in 1 .. Len(out) : out'[i] = out[i] BY <3>0, <3>1, <3>2, Appended
    <3>5. Ended(u)' = Ended(u) BY <3>3 DEF Ended, Completions, StatesOf
    <3> QED BY <1>4, <3>4, <3>5
  <2> QED BY <2>1, <2>2
<1>6. ASSUME NEW t \in Threads, Stops(t) PROVE Gathers(u)'
  <2>1. out' = Append(out, Halted(t, TRUE, NoCall)) BY <1>6, Zenon DEF Stops
  <2> QED BY <1>5, <1>y, <2>1
<1>7. ASSUME NEW t \in Threads, TakesResume(t) PROVE Gathers(u)'
  <2>1. out' = Append(out, Halted(t, FALSE, NoCall)) BY <1>7, Zenon DEF TakesResume
  <2> QED BY <1>5, <1>y, <2>1
<1>8. ASSUME NEW t \in Threads, Interrupted(t) PROVE Gathers(u)'
  <2>1. PICK c \in Evals \cup {NoCall} : out' = Append(out, Halted(t, FALSE, c))
    BY <1>8 DEF Interrupted
  <2> QED BY <1>5, <1>y, <2>1
<1>9. ASSUME NEW t \in Threads, TakesEval(t) PROVE Gathers(u)'
  <2>1. out' = out BY <1>9, Zenon DEF TakesEval
  <2>2. Ended(u)' = Ended(u) BY <2>1 DEF Ended
  <2> QED BY <1>4, <2>1, <2>2
<1>10. CASE ProverExits
  <2>1. out' = Append(out, ExitMark) BY <1>10, Zenon DEF ProverExits
  <2>2. Ended(u)' = Ended(u) /\ \A i \in 1 .. Len(out) : out'[i] = out[i] BY <2>1, MarkAppended
  <2> QED BY <1>4, <2>2
<1>11. ASSUME NEW t \in Threads, Finishes(t) PROVE Gathers(u)'
  <2> DEFINE c == at[t]
             a == Printed(t, c)
             m == Halted(t, TRUE, c)
  <2>1. c \in Evals /\ out' = out \o <<Printed(t, c), Halted(t, TRUE, c)>> BY <1>11, Zenon DEF Finishes
  <2>2. CASE t = u
    <3>1. /\ Ended(u)' = Ended(u) \cup {Len(out) + 2} /\ (\A i \in 1 .. Len(out) : out'[i] = out[i])
          /\ out'[Len(out) + 1] = Printed(u, c) /\ out'[Len(out) + 2] = Halted(u, TRUE, c)
          /\ Len(out) \in Nat
      BY <2>1, <2>2, FinishAppended
    <3>2. Halted(u, TRUE, c).of = c BY DEF Halted
    <3>3. (Len(out) + 2) - 1 = Len(out) + 1 /\ Len(out) + 2 > 1 BY <3>1
    <3> QED BY <1>4, <3>1, <3>2, <3>3
  <2>3. CASE t # u
    <3>0. out \in Seq(OutMessages) BY DEF Typed, Queues
    <3>1. /\ m \notin About(u) /\ a \notin About(u) /\ m \in OutMessages /\ a \in OutMessages
      <4>1. c \in Evals \cup {NoCall} BY <2>1
      <4>2. Halted(t, TRUE, c) \notin About(u) /\ Halted(t, TRUE, c) \in OutMessages
        BY <1>y, <2>3, <4>1, KindOf, MessagesGiven
      <4>3. Printed(t, c) \notin About(u) /\ Printed(t, c) \in OutMessages
        BY <2>1, OutputsGiven, MessagesGiven
      <4> QED BY <4>2, <4>3
    <3>2. m \notin Completions(u) /\ a \notin Completions(u) BY <3>1, KindsGiven
    <3>3. out' = out \o <<a, m>> BY <2>1
    <3> HIDE DEF a, m, OutMessages
    <3> DEFINE r == <<a, m>>
    <3>4. r \in Seq(OutMessages) /\ Len(r) = 2 /\ r[1] = a /\ r[2] = m BY <3>1
    <3>5. out' = out \o r BY <3>3
    <3> HIDE DEF r
    <3>6. \A i \in 1 .. Len(r) : i = 1 \/ i = 2 BY <3>4
    <3>7. \A i \in 1 .. Len(r) : r[i] \notin Completions(u) BY <3>2, <3>4, <3>6
    <3>8. Places(out', Completions(u)) = Places(out, Completions(u)) BY <3>0, <3>4, <3>5, <3>7, PlacesJoined
    <3>9. \A i \in 1 .. Len(out) : out'[i] = out[i]
      <4>1. \A i \in 1 .. Len(out) : (out \o r)[i] = out[i] BY <3>0, <3>4, Joined
      <4> QED BY <3>5, <4>1
    <3>10. Ended(u)' = Ended(u) BY <3>8 DEF Ended, Completions, StatesOf
    <3> QED BY <1>4, <3>9, <3>10
  <2> QED BY <2>2, <2>3
<1> QED BY <1>6, <1>7, <1>8, <1>9, <1>10, <1>11, Zenon DEF ProverSteps

LEMMA PrintsStep == ASSUME Typed, Tables, Ones, Prints, [Next]_vars PROVE Prints'
<1>1. Paired' BY PairedStep DEF Prints
<1>2. ASSUME NEW t \in Threads PROVE gathered'[t] # {} => pending'[t] # NoCall
  <2>0. gathered[t] # {} => pending[t] # NoCall BY DEF Prints
  <2>1. CASE CallerSteps \/ ProverSteps \/ UNCHANGED vars
    <3>1. UNCHANGED adapter BY <2>1, CallerFrame, ProverFrame DEF vars
    <3> QED BY <2>0, <3>1 DEF adapter
  <2>2. CASE AdapterSteps
    <3>1. NoCall \notin Evals BY CallsApart
    <3> QED BY <2>0, <2>2, <3>1, KeepMoves
  <2> QED BY <2>1, <2>2 DEF Next
<1>3. ASSUME NEW t \in Threads, t \notin astray' PROVE Gathers(t)'
  <2>1. CASE CallerSteps \/ UNCHANGED vars
    <3>1. UNCHANGED <<adapter, out, astray>> BY <2>1, CallerFrame DEF vars, history
    <3>2. Ended(t)' = Ended(t) BY <3>1 DEF Ended
    <3>3. Gathers(t) BY <1>3, <3>1 DEF Prints
    <3> QED BY <3>1, <3>2, <3>3 DEF Gathers, Foreseen, Foretold, adapter
  <2>2. CASE AdapterSteps BY <1>3, <2>2, GathersAdapter
  <2>3. CASE ProverSteps BY <1>3, <2>3, GathersProver
  <2> QED BY <2>1, <2>2, <2>3 DEF Next
<1> QED BY <1>1, <1>2, <1>3 DEF Prints

-----------------------------------------------------------------------------
(* What the replies carry.                                                 *)

SaidOwn == \A c \in Evals : OnThread[c] \notin astray =>
             /\ said[c] \subseteq {c}
             /\ answer[c] = "ok" => said[c] = {c}

LEMMA SaidOne ==
  ASSUME Typed, SaidOwn, astray \subseteq astray', NEW d \in Evals, NEW s, NEW texts, NEW ms,
         Respond(d, s, texts, ms),
         OnThread[d] \notin astray' => texts \subseteq {d} /\ (s = "ok" => texts = {d})
  PROVE  SaidOwn'
<1>1. answer' = [answer EXCEPT ![d] = s] /\ said' = [said EXCEPT ![d] = texts] BY Zenon DEF Respond
<1>2. answer \in [Evals -> Statuses \cup {""}] /\ said \in [Evals -> SUBSET Evals]
  BY DEF Typed, History
<1>3. answer'[d] = s /\ said'[d] = texts BY <1>1, <1>2
<1>4. \A c \in Evals : c # d => answer'[c] = answer[c] /\ said'[c] = said[c] BY <1>1, <1>2
<1>5. ASSUME NEW c \in Evals, OnThread[c] \notin astray'
      PROVE  said'[c] \subseteq {c} /\ (answer'[c] = "ok" => said'[c] = {c})
  <2>1. CASE c = d BY <1>3, <1>5, <2>1
  <2>2. CASE c # d BY <1>4, <1>5, <2>2 DEF SaidOwn
  <2> QED BY <2>1, <2>2
<1> QED BY <1>5 DEF SaidOwn

LEMMA SaidState ==
  ASSUME Typed, Tables, Ones, Prints, SaidOwn, TakesState PROVE SaidOwn'
<1>1. /\ out # <<>> /\ out' = Tail(out) /\ Head(out) \in Halts
      /\ StateTaken(Head(out).thread, Head(out).on)
  BY StateSteps
<1> DEFINE t == Head(out).thread
           on == Head(out).on
           o == Head(out).of
           c == pending[t]
<1>2. /\ t \in Threads /\ on \in BOOLEAN /\ o \in Evals \cup {NoCall} /\ Head(out) = Halted(t, on, o)
  BY <1>1, HaltGiven
<1>3. astray' = astray BY <1>1, StateMoves
<1>4. \/ c \in Evals /\ Respond(c, IF on THEN "ok" ELSE "resumed", gathered[t], <<State(threads')>>)
      \/ UNCHANGED <<answer, said>>
  <2>1. StateTaken(t, on) BY <1>1
  <2> HIDE DEF t, on
  <2>2. \/ pending[t] \in Evals /\ Respond(pending[t], IF on THEN "ok" ELSE "resumed", gathered[t], <<State(threads')>>)
        \/ UNCHANGED <<timer, answer, said>>
    BY <2>1, Zenon DEF StateTaken
  <2> QED BY <2>2
<1>5. CASE UNCHANGED <<answer, said>> BY <1>3, <1>5 DEF SaidOwn
<1> HIDE DEF t, on, o
<1>6. CASE c \in Evals /\ Respond(c, IF on THEN "ok" ELSE "resumed", gathered[t], <<State(threads')>>)
  <2>0. c # NoCall BY <1>6, CallsApart
  <2>1. OnThread[c] = t BY <1>2, <2>0 DEF Tables, Pends
  <2>2. ASSUME t \notin astray PROVE gathered[t] \subseteq {c} /\ (on => gathered[t] = {c})
    <3>1. One(t) /\ Gathers(t) BY <1>2, <2>2 DEF Ones, Prints
    <3>2. ASSUME on PROVE gathered[t] = {c}
      <4>1. Owner[t] = c BY <1>2, <2>0, OwnerIs
      <4>2. Head(out) = out[1] /\ 1 \in 1 .. Len(out) BY <1>1, HeadOut
      <4>3. out[1] = Halted(t, TRUE, o) BY <1>2, <3>2, <4>2
      <4>4. o # NoCall
        <5> SUFFICES ASSUME o = NoCall PROVE FALSE OBVIOUS
        <5>1. Halted(t, TRUE, o) \in Arrivals(t) BY DEF Halted, Arrivals, StatesOf
        <5>2. 1 \in Arrived(t) BY <4>2, <4>3, <5>1 DEF Arrived, Places
        <5>3. \A j \in Left(t) : j > 1
          <6>1. 1 \notin Left(t)
            <7>1. Halted(t, TRUE, o) \notin Offs(t) BY DEF Halted, Offs, StatesOf
            <7> QED BY <4>3, <7>1 DEF Left, Places
          <6>2. \A j \in Left(t) : j \in 1 .. Len(out) /\ j \in Nat BY PlacesBounded
          <6> QED BY <6>1, <6>2
        <5>4. Owner[t] = NoCall BY <3>1, <5>2, <5>3 DEF One
        <5> QED BY <2>0, <4>1, <5>4
      <4>5. o \in Evals BY <1>2, <4>4
      <4>6. 1 \in Ended(t)
        <5>1. Halted(t, TRUE, o) \in Completions(t) BY <4>5 DEF Halted, Completions, StatesOf
        <5> QED BY <4>2, <4>3, <5>1 DEF Ended, Places
      <4>7. out[1].of = o /\ out[1].on BY <4>3 DEF Halted
      <4>8. o = c BY <3>1, <4>1, <4>6, <4>7 DEF One
      <4>9. Foretold(t, 1) BY <3>1, <4>6, <4>7 DEF Gathers, Foreseen
      <4> QED BY <4>7, <4>8, <4>9 DEF Foretold
    <3> QED BY <3>1, <3>2 DEF Gathers
  <2>3. OnThread[c] \notin astray' =>
          /\ gathered[t] \subseteq {c}
          /\ (IF on THEN "ok" ELSE "resumed") = "ok" => gathered[t] = {c}
    BY <1>2, <1>3, <2>1, <2>2
  <2>4. c \in Evals /\ astray \subseteq astray' BY <1>3, <1>6
  <2> HIDE DEF c
  <2> QED BY <1>6, <2>3, <2>4, SaidOne
<1> QED BY <1>4, <1>5, <1>6

LEMMA SaidStep ==
  ASSUME Typed, Tables, Ones, Prints, SaidOwn, [Next]_vars PROVE SaidOwn'
<1>0. astray \subseteq astray' BY StraysStay
<1>1. ASSUME UNCHANGED <<answer, said>> PROVE SaidOwn' BY <1>0, <1>1 DEF SaidOwn
<1>2. CASE CallerSteps \/ ProverSteps \/ UNCHANGED vars
  BY <1>1, <1>2, CallerFrame, ProverFrame DEF vars, history
<1>3. CASE MainReadsEval \/ MainReadsResume \/ MainReadsAbort \/ TakesOutput \/ \E c \in Evals : TimerFires(c)
  <2>1. UNCHANGED <<answer, said>>
    BY <1>3, Zenon DEF MainReadsEval, MainReadsResume, MainReadsAbort, TakesOutput, TimerFires, history
  <2> QED BY <1>1, <2>1
<1>4. CASE RunsPosted
  <2>1. PICK c \in Evals : StartEval(c) \/ Backstop(c) BY <1>4, PostedSteps
  <2>2. CASE StartAccepted(c)
    <3>1. UNCHANGED <<answer, said>> BY <2>2, Zenon DEF StartAccepted
    <3> QED BY <1>1, <3>1
  <2>3. CASE StartRefused(c)
    <3>1. Respond(c, IF Busy(OnThread[c]) THEN "busy" ELSE "not_stopped", {}, <<>>)
      BY <2>3, Zenon DEF StartRefused
    <3>2. (IF Busy(OnThread[c]) THEN "busy" ELSE "not_stopped") # "ok" OBVIOUS
    <3> QED BY <1>0, <3>1, <3>2, SaidOne
  <2>4. CASE Backstop(c)
    <3>1. \/ UNCHANGED <<answer, said>>
          \/ pending[OnThread[c]] = c /\ Respond(c, "timeout", gathered[OnThread[c]], <<>>)
      BY <2>4, BackstopMoves
    <3>2. CASE pending[OnThread[c]] = c /\ Respond(c, "timeout", gathered[OnThread[c]], <<>>)
      <4>1. OnThread[c] \in Threads BY CallsApart
      <4>2. OnThread[c] \notin astray' => gathered[OnThread[c]] \subseteq {c}
        BY <1>0, <3>2, <4>1 DEF Prints, Gathers
      <4> QED BY <1>0, <3>2, <4>2, SaidOne
    <3> QED BY <1>1, <3>1, <3>2
  <2> QED BY <2>1, <2>2, <2>3, <2>4 DEF StartEval
<1>5. CASE TakesState BY <1>5, SaidState
<1>6. CASE TakesExit
  <2>1. /\ UNCHANGED <<said, astray>>
        /\ answer' = [c \in Evals |-> IF c \in Orphans THEN "crashed" ELSE answer[c]]
    BY <1>6, ExitSteps
  <2>2. \A c \in Evals : answer'[c] = "ok" => answer[c] = "ok" BY <2>1
  <2> QED BY <2>1, <2>2 DEF SaidOwn
<1> QED BY <1>2, <1>3, <1>4, <1>5, <1>6, Zenon DEF Next, AdapterSteps

-----------------------------------------------------------------------------
(* The debts are the true ones.                                            *)

LEMMA AtMostOne ==
  ASSUME NEW S, \A i, j \in S : i = j
  PROVE  /\ S = {} => Cardinality(S) = 0
         /\ S # {} => Cardinality(S) = 1
<1>1. S = {} => Cardinality(S) = 0 BY FS_EmptySet
<1>2. ASSUME S # {} PROVE Cardinality(S) = 1
  <2>1. PICK x \in S : TRUE BY <1>2
  <2>2. S = {x} BY <2>1
  <2> QED BY <2>2, FS_Singleton
<1> QED BY <1>1, <1>2

LEMMA DebtTrue == ASSUME Typed, Tables, Ones PROVE DebtIsOwed
<1> SUFFICES ASSUME alive, NEW t \in Threads, t \notin astray
             PROVE  Unseen(t) = debt[t] + (IF pending[t] = NoCall THEN 0 ELSE 1)
  BY DEF DebtIsOwed
<1>1. One(t) BY DEF Ones
<1>2. {i \in DOMAIN inputs[t] : inputs[t][i] \in Evals} = Queued(t)
  <2>1. DOMAIN inputs[t] = 1 .. Len(inputs[t]) BY DEF Typed, Prover
  <2> QED BY <2>1 DEF Queued, Places
<1>3. {i \in DOMAIN out : out[i].kind = "state" /\ out[i].thread = t /\ out[i].of \in Evals} = Ended(t)
  <2>0. out \in Seq(OutMessages) BY DEF Typed, Queues
  <2>1. DOMAIN out = 1 .. Len(out) BY <2>0
  <2>2. \A m \in OutMessages :
          m.kind = "state" /\ m.thread = t /\ m.of \in Evals <=> m \in Completions(t)
    <3> TAKE m \in OutMessages
    <3>1. ASSUME m \in Completions(t) PROVE m.kind = "state" /\ m.thread = t /\ m.of \in Evals
      BY <3>1 DEF Completions, StatesOf
    <3>2. ASSUME m.kind = "state", m.thread = t, m.of \in Evals PROVE m \in Completions(t)
      <4>1. m \in Halts BY <3>2 DEF OutMessages, Outputs, ExitMark
      <4> QED BY <3>2, <4>1 DEF Halts, Completions, StatesOf
    <3> QED BY <3>1, <3>2
  <2>3. \A i \in 1 .. Len(out) : out[i] \in OutMessages BY <2>0
  <2> HIDE DEF OutMessages, Completions
  <2> QED BY <2>1, <2>2, <2>3 DEF Ended, Places
<1>4. Unseen(t) = Cardinality(Queued(t)) + (IF at[t] \in Evals THEN 1 ELSE 0) + Cardinality(Ended(t))
  BY <1>2, <1>3, Zenon DEF Unseen
<1>5. (\A i, j \in Queued(t) : i = j) /\ (\A i, j \in Ended(t) : i = j)
  BY <1>1 DEF One, Once, Queued, Ended
<1>6. /\ Queued(t) = {} => Cardinality(Queued(t)) = 0
      /\ Queued(t) # {} => Cardinality(Queued(t)) = 1
  BY <1>5, AtMostOne
<1>7. /\ Ended(t) = {} => Cardinality(Ended(t)) = 0
      /\ Ended(t) # {} => Cardinality(Ended(t)) = 1
  BY <1>5, AtMostOne
<1>8. debt[t] \in 0 .. 1 BY DEF Typed, Adapter
<1>9. (pending[t] # NoCall => debt[t] = 0) /\ (debt[t] > 0 => owed[t] \in Evals /\ owed[t] # NoCall)
  BY CallsApart DEF Tables, Pends, Owes
<1>10. CASE Owner[t] = NoCall
  <2>1. ~AtHand(t) /\ Ended(t) = {} BY <1>1, <1>10, FreeIsClean
  <2>2. pending[t] = NoCall BY <1>10, OwnerIs
  <2>3. ~(debt[t] > 0) BY <1>9, <1>10, <2>2, OwnerIs
  <2> QED BY <1>4, <1>6, <1>7, <1>8, <2>1, <2>2, <2>3 DEF AtHand
<1>11. CASE Owner[t] # NoCall
  <2>1. debt[t] + (IF pending[t] = NoCall THEN 0 ELSE 1) = 1
    <3>1. pending[t] = NoCall => debt[t] > 0 BY <1>11, OwnerIs
    <3> QED BY <1>8, <1>9, <3>1
  <2>2. AtHand(t) \/ Ended(t) # {} BY <1>1, <1>11 DEF One
  <2>3. Ended(t) # {} => ~AtHand(t) BY <1>1 DEF One
  <2>4. at[t] \in Evals => Queued(t) = {} BY <1>1 DEF One
  <2>5. Unseen(t) = 1 BY <1>4, <1>6, <1>7, <2>2, <2>3, <2>4 DEF AtHand
  <2> QED BY <2>1, <2>5
<1> QED BY <1>10, <1>11

-----------------------------------------------------------------------------
(* The theorems.                                                           *)

IInv == /\ Typed /\ Stages /\ Tables
        /\ Told /\ Waited
        /\ Gone /\ Ones /\ Marks /\ Prints /\ SaidOwn

LEMMA NoPlaces == ASSUME NEW S PROVE Places(<<>>, S) = {} /\ Once(<<>>, S)
BY DEF Places, Once

LEMMA InitInv == Init => IInv
<1> SUFFICES ASSUME Init PROVE IInv OBVIOUS
<1>1. Typed BY InitTyped
<1>2. /\ pc = [c \in Calls |-> "idle"] /\ up = <<>> /\ down = <<>> /\ posted = <<>> /\ out = <<>>
      /\ pending = [t \in Threads |-> NoCall] /\ gathered = [t \in Threads |-> {}]
      /\ debt = [t \in Threads |-> 0] /\ threads = {} /\ timer = [c \in Evals |-> "off"]
      /\ alive = TRUE /\ at = [t \in Threads |-> "away"] /\ inputs = [t \in Threads |-> <<>>]
      /\ answer = [c \in Evals |-> ""] /\ said = [c \in Evals |-> {}]
  BY Zenon DEF Init
<1>3. Stages
  <2> SUFFICES ASSUME NEW c \in Evals PROVE Stage(c) BY DEF Stages
  <2>1. Asked(c) = {} /\ Starting(c) = {} /\ GivenUp(c) = {} BY <1>2, NoPlaces DEF Asked, Starting, GivenUp
  <2>2. Once(up, {Request("eval", c)}) /\ Once(posted, {Request("start", c)}) BY <1>2, NoPlaces
  <2>3. c # NoCall BY CallsApart
  <2>4. Untried(c) BY <1>2, <2>3 DEF Untried
  <2>5. answer[c] = "" BY <1>2
  <2> QED BY <2>1, <2>2, <2>4, <2>5 DEF Stage
<1>4. Tables
  <2>1. \A t \in Threads : pending[t] = NoCall /\ debt[t] = 0 BY <1>2
  <2> QED BY <2>1 DEF Tables
<1>5. Told /\ Gone /\ Paired
  <2>1. Len(down) = 0 /\ Len(out) = 0 BY <1>2
  <2>2. 1 .. 0 = {} OBVIOUS
  <2> QED BY <1>2, <2>1, <2>2 DEF Told, Gone, Paired
<1>6. Waited
  <2>1. \A c \in Evals : pc[c] # "sent" BY <1>2, CallsApart
  <2> QED BY <2>1 DEF Waited, Waits
<1>7. ASSUME NEW t \in Threads
      PROVE  /\ Ended(t) = {} /\ Queued(t) = {} /\ Halting(t) = {} /\ Arrived(t) = {} /\ Left(t) = {}
             /\ ~AtHand(t) /\ Owner[t] = NoCall
  <2>1. Ended(t) = {} /\ Halting(t) = {} /\ Arrived(t) = {} /\ Left(t) = {}
    BY <1>2, NoPlaces DEF Ended, Halting, Arrived, Left
  <2>2. inputs[t] = <<>> /\ at[t] = "away" /\ pending[t] = NoCall /\ debt[t] = 0 BY <1>2
  <2>3. Queued(t) = {} BY <2>2, NoPlaces DEF Queued
  <2>4. ~AtHand(t) BY <2>2, <2>3, CallsApart DEF AtHand
  <2>5. ~(debt[t] > 0) BY <2>2
  <2> QED BY <2>1, <2>2, <2>3, <2>4, <2>5, OwnerIs
<1>8. Ones BY <1>7, OneFree DEF Ones
<1>9. Marks BY <1>2, <1>7 DEF Marks, Marked
<1>10. Prints BY <1>2, <1>5, <1>7 DEF Prints, Gathers, Foreseen
<1>11. SaidOwn BY <1>2 DEF SaidOwn
<1> QED BY <1>1, <1>3, <1>4, <1>5, <1>6, <1>8, <1>9, <1>10, <1>11 DEF IInv

LEMMA StepInv == IInv /\ [Next]_vars => IInv'
<1> SUFFICES ASSUME IInv, [Next]_vars PROVE IInv' OBVIOUS
<1>1. Typed /\ Stages /\ Tables /\ Told /\ Waited /\ Gone /\ Ones /\ Marks /\ Prints /\ SaidOwn
  BY DEF IInv
<1>2. Typed' BY <1>1, TablesSingle, TypedStep
<1>3. Stages' BY <1>1, <1>2, StagesStep
<1>4. Tables' BY <1>1, <1>2, TablesStep
<1>5. Told' BY <1>1, ToldStep
<1>6. Waited' BY <1>1, WaitedStep
<1>7. Gone' BY <1>1, GoneStep
<1>8. Ones' BY <1>1, OnesStep
<1>9. Marks' BY <1>1, MarksStep
<1>10. Prints' BY <1>1, PrintsStep
<1>11. SaidOwn' BY <1>1, SaidStep
<1> QED BY <1>2, <1>3, <1>4, <1>5, <1>6, <1>7, <1>8, <1>9, <1>10, <1>11 DEF IInv

\* In every behaviour of the adapter with its callers and the prover, the tables, the
\* queues and what the prover has at hand agree on whose work a thread does.
THEOREM Invariant == Spec => []IInv
BY InitInv, StepInv, PTL DEF Spec

\* Every variable keeps its type: no debt is more than one, whatever backstops fire.
THEOREM TypeCorrect == Spec => []TypeOK
<1>1. IInv => TypeOK BY TypedIsTypeOK DEF IInv
<1> QED BY <1>1, Invariant, PTL

\* Whoever waits for an evaluation will be told something without the prover's help.
THEOREM NobodyForgotten == Spec => []NoneForgotten
<1>1. IInv => NoneForgotten BY WaitedIsNoneForgotten DEF IInv
<1> QED BY <1>1, Invariant, PTL

\* A completion is read only after the state of the thread that it left.
THEOREM StateGoesFirst == Spec => []StateBeforeReply
<1>1. IInv => StateBeforeReply BY ToldIsStateBeforeReply DEF IInv
<1> QED BY <1>1, Invariant, PTL

\* The adapter's debts are the prover's, and a reply carries its own evaluation's output.
THEOREM RepliesAreOwn == Spec => []OwnReply
<1>1. IInv => OwnReply
  <2> SUFFICES ASSUME IInv PROVE OwnReply OBVIOUS
  <2>1. DebtIsOwed BY DebtTrue DEF IInv
  <2>2. \A c \in Evals : answer[c] = "timeout" => timer[c] = "fired" BY DEF IInv, Stages, Stage
  <2> QED BY <2>1, <2>2 DEF OwnReply, IInv, SaidOwn
<1> QED BY <1>1, Invariant, PTL

\* The adapter implements OneReply: one evaluation of a thread at a time, one reply each,
\* through backstops, interrupts, resumptions and the prover's exit.
THEOREM KeepsPromise == Spec => PromiseKept
<1>1. Init => Promise!Init
  <2> SUFFICES ASSUME Init PROVE Promise!Init OBVIOUS
  <2>1. /\ pending = [t \in Threads |-> NoCall] /\ debt = [t \in Threads |-> 0]
        /\ answer = [c \in Evals |-> ""]
    BY Zenon DEF Init
  <2>2. Owner = [t \in Threads |-> NoCall]
    <3>1. \A t \in Threads : pending[t] = NoCall BY <2>1
    <3>2. \A t \in Threads : debt[t] = 0 BY <2>1
    <3>3. \A t \in Threads : Owner[t] = NoCall BY <3>1, <3>2, OwnerIs
    <3>4. Owner = [t \in Threads |-> Owner[t]] BY DEF Owner
    <3> QED BY <3>3, <3>4, Zenon
  <2> QED BY <2>1, <2>2 DEF Promise!Init
<1>2. IInv /\ [Next]_vars => [Promise!Next]_(Promise!vars) BY Promised DEF IInv
<1> QED BY <1>1, <1>2, Invariant, PTL DEF Spec, PromiseKept, Promise!Spec

=============================================================================
