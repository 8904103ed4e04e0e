---------------------------- MODULE CancelRetire ----------------------------
(***************************************************************************)
(* The server half of a cancellation: one PIDE/cancel_evaluation request   *)
(* (language_server.scala) against the document of one theory, the monitor *)
(* of vscode_resources.scala that every writer of the document goes        *)
(* through, and the prover at the far end of two FIFO channels             *)
(* (ML/mcp_prelude.ML).                                                    *)
(*                                                                         *)
(* A document version is the sequence of its commands and whether its      *)
(* perspective asks for work.  The text itself is not modelled: a command  *)
(* stands at its index, an edit made in front of it moves it, and an edit  *)
(* computed on one version and applied to another may hit another command. *)
(* A command's id is the pair <<version that minted it, place there>>, an  *)
(* exec the pair <<command, version that created it>>.                     *)
(*                                                                         *)
(* Meanwhile the client edits, positional queries put their overlays in    *)
(* and take them out, flushes run, and the prover makes versions of its    *)
(* own (consolidation).  The caret does not move: caret updates are sent   *)
(* under the evaluation lock, which the client holds for the whole cancel. *)
(***************************************************************************)
EXTENDS Integers, Sequences, FiniteSets, SequencesExt

CONSTANTS
  Length0,      \* commands of the theory when the request arrives
  MaxEvents     \* didChanges, overlays of queries, versions the prover makes by
                \* itself, reports lost, probes failed, edits that missed, waits given up

ASSUME Bounds == Length0 \in Nat \ {0} /\ MaxEvents \in Nat

VARIABLES
  history,    \* the versions handed to the manager: [cmds, work]
  assigned,   \* the prover's assignment of each version it has processed
  told,       \* how many of them the manager has applied
  toML,       \* manager -> prover: "update", "cancel", "ping"
  fromML,     \* prover -> manager: "assigned", "report", "failed", "pong"
  doc,        \* the monitor: pending edits, queue, caret, overlays, serials
  request,    \* the cancel request
  left,       \* what is left of MaxEvents
  interrupted,\* (history) execs with live tasks when the prover stopped
  quietFrom   \* (history) the version step 0 left as the newest

vars == <<history, assigned, told, toML, fromML, doc, request, left,
          interrupted, quietFrom>>
prover == <<assigned, told, toML, fromML, interrupted>>

Tip == Len(history)
Newest == history[Tip]

\* The execs assigned on version n.
Execs(n) == {<<c, assigned[n][c]>> : c \in {d \in DOMAIN assigned[n] : assigned[n][d] > 0}}

\* A reading of the document state (session.get_state, outside the monitor).
Reading == [tip |-> Tip, told |-> told]
StableTip(st) == IF st.told = st.tip THEN st.tip ELSE 0

Event == left > 0 /\ left' = left - 1

Idle == [pc |-> "idle", st |-> [tip |-> 1, told |-> 1], probe |-> {},
         report |-> "none", pong |-> FALSE, targets |-> {}, strikes |-> {},
         batch |-> {}, before |-> 0, serial |-> 0, overlay |-> 0]

Init ==
  /\ history = <<[cmds |-> [i \in 1..Length0 |-> <<1, i>>], work |-> TRUE]>>
  /\ assigned = <<[c \in {1} \X (1..Length0) |-> 1]>> /\ told = 1
  /\ toML = <<>> /\ fromML = <<>>
  /\ doc = [edits |-> <<>>, queued |-> FALSE, caret |-> TRUE, overlays |-> {},
            last |-> TRUE, updates |-> 0, changes |-> 0, queries |-> {}]
  /\ request = Idle
  /\ left = MaxEvents
  /\ interrupted = {} /\ quietFrom = 0

At(label) == request.pc = label
Ended == request.pc \in {"replied", "aborted"}
Goto(label) == request' = [request EXCEPT !.pc = label]
Abort == Goto("aborted")
\* The request's locals of a round end with it.
Loop == [request EXCEPT !.pc = "loop", !.st = Idle.st, !.serial = 0, !.before = 0, !.batch = {}]

-----------------------------------------------------------------------------
(* The document and its monitor *)

\* session.update: the manager appends the version and sends it on.
Update(cmds, work) ==
  /\ history' = Append(history, [cmds |-> cmds, work |-> work])
  /\ toML' = Append(toML, "update")

\* Applying the client's edits: each inserts a command after the given index.
Edited(cmds, edits) ==
  LET text[i \in 0..Len(edits)] ==
        IF i = 0 THEN cmds
        ELSE InsertAt(text[i - 1], edits[i] + 1, <<Tip + 1, Len(text[i - 1]) + 1>>)
  IN text[Len(edits)]

\* A didChange arrives: the model keeps the edit, its file is queued.
Edit ==
  /\ ~Ended /\ Event
  /\ \E at \in {0, 1} : doc' = [doc EXCEPT !.edits = Append(@, at), !.queued = TRUE]
  /\ UNCHANGED <<history, prover, request, quietFrom>>

\* State.change_overlay: the serial counts real changes of the table, the file
\* is queued either way.
Overlaid(table, running) ==
  [doc EXCEPT !.overlays = table, !.queries = running, !.queued = TRUE,
              !.changes = IF table # doc.overlays THEN @ + 1 ELSE @]

InsertOverlay ==
  LET q == 1 + Max(doc.queries \cup {0})
  IN /\ ~Ended /\ Event
     /\ doc' = Overlaid(doc.overlays \cup {q}, doc.queries \cup {q})
     /\ UNCHANGED <<history, prover, request, quietFrom>>

\* A query that ends takes its overlay out, step 0 having done so or not.
RemoveOverlay ==
  /\ ~Ended
  /\ \E q \in doc.queries : doc' = Overlaid(doc.overlays \ {q}, doc.queries \ {q})
  /\ UNCHANGED <<history, prover, request, left, quietFrom>>

\* The perspective a model would compute now (one theory, nothing required).
Wanted(caret, overlays) == caret \/ overlays # {}

\* flush_input, as the delayed input or a flush request runs it: under the
\* monitor from the edits to the update, the serial counts non-empty ones.
FlushInput ==
  LET work == Wanted(doc.caret, doc.overlays)
      edits == doc.edits # <<>> \/ doc.last # work
  IN /\ ~Ended /\ doc.queued
     /\ IF edits THEN Update(Edited(Newest.cmds, doc.edits), work)
                 ELSE UNCHANGED <<history, toML>>
     /\ doc' = [doc EXCEPT !.edits = <<>>, !.queued = FALSE, !.last = work,
                           !.updates = IF edits THEN @ + 1 ELSE @]
     /\ UNCHANGED <<assigned, told, fromML, request, left, interrupted, quietFrom>>

\* The prover consolidates: a version of the same text nobody counted.
Consolidate ==
  /\ ~Ended /\ told = Tip /\ Event
  /\ Update(Newest.cmds, Newest.work)
  /\ UNCHANGED <<assigned, told, fromML, doc, request, interrupted, quietFrom>>

-----------------------------------------------------------------------------
(* The prover *)

\* How far the execs of the version before are still those of version n's text.
Common(n) ==
  LET old == history[n - 1].cmds
      new == history[n].cmds
      Kept(i) == \A j \in 1..i : j <= Len(old) /\ new[j] = old[j] /\ assigned[n - 1][old[j]] > 0
  IN {i \in 0..Len(new) : Kept(i)}

\* Document.update: a prefix of the execs is kept, the rest of a version that
\* wants work gets new ones.  Without a perspective an exec is kept when it has
\* finished or its tasks are still there, and may go otherwise.
MLUpdates ==
  LET n == Len(assigned) + 1
      cmds == history[n].cmds
      work == history[n].work
      all == CHOOSE i \in Common(n) : \A j \in Common(n) : j <= i
  IN /\ ~Ended /\ toML # <<>> /\ Head(toML) = "update"
     /\ toML' = Tail(toML) /\ fromML' = Append(fromML, "assigned")
     /\ \E k \in (IF work THEN {all} ELSE Common(n)) :
          assigned' = Append(assigned, [c \in Range(cmds) |->
            IF \E i \in 1..k : cmds[i] = c THEN assigned[n - 1][c]
            ELSE IF work THEN n ELSE 0])
     /\ UNCHANGED <<history, told, doc, request, left, interrupted, quietFrom>>

\* Isabelle_MCP.cancel_evaluation: nothing new starts, the probe finds the
\* execs with live tasks, all are cancelled, one report goes out.  A failed
\* step makes the report an error; a malformed one is lost on arrival.  An
\* exec only runs once the manager knew of it (docs/CANCELLATION.md section 8).
MLCancels ==
  /\ ~Ended /\ toML # <<>> /\ Head(toML) = "cancel" /\ toML' = Tail(toML)
  /\ interrupted' \in SUBSET request.probe
  /\ \/ fromML' = Append(fromML, "report") /\ UNCHANGED left
     \/ fromML' = Append(fromML, "failed") /\ Event
     \/ fromML' = fromML /\ Event
  /\ UNCHANGED <<history, assigned, told, doc, request, quietFrom>>

MLPongs ==
  /\ ~Ended /\ toML # <<>> /\ Head(toML) = "ping"
  /\ toML' = Tail(toML) /\ fromML' = Append(fromML, "pong")
  /\ UNCHANGED <<history, assigned, told, doc, request, left, interrupted, quietFrom>>

\* The manager applies what the prover sent, in order; the two handlers
\* fulfil the promises of the request.
Receive ==
  /\ ~Ended /\ fromML # <<>> /\ fromML' = Tail(fromML)
  /\ LET message == Head(fromML)
     IN /\ told' = IF message = "assigned" THEN told + 1 ELSE told
        /\ request' =
             [request EXCEPT !.report = IF message \in {"report", "failed"} THEN message ELSE @,
                             !.pong = @ \/ message = "pong"]
  /\ UNCHANGED <<history, assigned, toML, doc, left, interrupted, quietFrom>>

-----------------------------------------------------------------------------
(* The request: stanch and probe *)

\* st0, v0 and the eval execs of v0: off one reading.
ReadsState ==
  /\ At("idle")
  /\ request' = [request EXCEPT !.pc = "read", !.st = Reading, !.probe = Execs(told)]
  /\ UNCHANGED <<history, prover, doc, left, quietFrom>>

Sends ==
  /\ At("read") /\ Goto("polls")
  /\ toML' = toML \o <<"cancel", "ping">>
  /\ UNCHANGED <<history, assigned, told, fromML, doc, left, interrupted, quietFrom>>

\* One turn of the wait: the report first ...
ChecksReport ==
  /\ At("polls")
  /\ CASE request.report = "none"   -> Goto("looks")
       [] request.report = "failed" -> Abort
       [] request.report = "report" ->
            request' = [request EXCEPT !.pc = "retracts", !.targets = interrupted]
  /\ UNCHANGED <<history, prover, doc, left, quietFrom>>

\* ... then the pong, which without a report is taken for its loss.
ChecksPong ==
  /\ At("looks") /\ Goto(IF request.pong THEN "aborted" ELSE "polls")
  /\ UNCHANGED <<history, prover, doc, left, quietFrom>>

-----------------------------------------------------------------------------
(* The request: retract *)

\* A fault: every retracted file leaves the queue, unflushed edits or not.
UnqueuedAlways == FALSE

\* apply_retraction: a retracted file leaves the queue only without unflushed edits.
Unqueued == doc.queued /\ doc.edits # <<>>

\* Step 0: caret gone, overlay table emptied (its serial recorded, not bumped),
\* and the empty perspective for every model that had or would have another.
Retracts ==
  LET sent == doc.last
  IN /\ At("retracts")
     /\ doc' = [doc EXCEPT !.caret = FALSE, !.overlays = {}, !.last = FALSE,
                           !.queued = IF sent THEN Unqueued ELSE @,
                           !.updates = IF sent THEN @ + 1 ELSE @]
     /\ IF sent THEN Update(Newest.cmds, FALSE) ELSE UNCHANGED <<history, toML>>
     /\ quietFrom' = Len(history')
     /\ request' = [request EXCEPT !.pc = IF sent THEN "awaits" ELSE "loop",
                                   !.overlay = doc.changes,
                                   !.before = StableTip(request.st)]
     /\ UNCHANGED <<assigned, told, fromML, left, interrupted>>

\* assigned_after: the stable tip is a version, and not the one recorded.
Assigned == StableTip(Reading) \notin {0, request.before}

Awaited ==
  /\ At("awaits") /\ Assigned /\ request' = Loop
  /\ UNCHANGED <<history, prover, doc, left, quietFrom>>

-----------------------------------------------------------------------------
(* The request: the retire loop *)

\* The serial is read under the monitor, the document state outside it after.
ReadsSerial ==
  /\ At("loop") /\ request.targets # {}
  /\ request' = [request EXCEPT !.pc = "serial", !.serial = doc.updates]
  /\ UNCHANGED <<history, prover, doc, left, quietFrom>>

ReadsAgain ==
  /\ At("serial")
  /\ request' = [request EXCEPT !.pc = "round", !.st = Reading]
  /\ UNCHANGED <<history, prover, doc, left, quietFrom>>

\* A fault: the reading is not checked for its age.
CurrentUnchecked == TRUE

\* Step a: nothing was handed over under the monitor since the serial was read.
Current == request.serial = doc.updates

\* Steps a and c: the reading aged, or had no stable tip.
RoundRetaken ==
  /\ At("round") /\ request' = Loop
  /\ ~Current \/ (doc.edits = <<>> /\ StableTip(request.st) = 0)
  /\ UNCHANGED <<history, prover, doc, left, quietFrom>>

\* Step b: unflushed edits go out first and alone, with the perspective the
\* overlay table now gives.  Edits outside the queue are a failure.
RoundFlushes ==
  /\ At("round") /\ Current /\ doc.edits # <<>>
  /\ IF ~doc.queued THEN Abort /\ UNCHANGED <<history, toML, doc>>
     ELSE /\ Update(Edited(Newest.cmds, doc.edits), Wanted(FALSE, doc.overlays))
          /\ doc' = [doc EXCEPT !.edits = <<>>, !.queued = FALSE, !.updates = @ + 1,
                                !.last = Wanted(FALSE, doc.overlays)]
          /\ request' = [request EXCEPT !.pc = "awaits", !.before = StableTip(request.st)]
  /\ UNCHANGED <<assigned, told, fromML, left, interrupted, quietFrom>>

\* Step d: the targets still on V.  The others, gone or given another exec,
\* are dropped.
Located(v) == {t \in request.targets : t \in Execs(v)}

\* The retire edits are placed at V's offsets and applied to the newest
\* version: each re-mints the command that stands there.
Reminted(v, hit) ==
  LET cmds == Newest.cmds
      Struck(i) == i <= Len(history[v].cmds) /\ \E t \in hit : history[v].cmds[i] = t[1]
  IN [i \in 1..Len(cmds) |-> IF Struck(i) THEN <<Tip + 1, i>> ELSE cmds[i]]

\* Steps d to f: one batch, the empty perspective first where one is held or
\* would be computed, then the edits.  An edit may miss its command.
RoundRetires ==
  LET v == StableTip(request.st)
      located == Located(v)
      retract == doc.last \/ Wanted(FALSE, doc.overlays)
  IN /\ At("round") /\ Current /\ doc.edits = <<>> /\ v # 0
     /\ IF located = {} /\ ~retract
        THEN /\ request' = [Loop EXCEPT !.targets = {}]
             /\ UNCHANGED <<history, toML, doc, left>>
        ELSE /\ \/ UNCHANGED left /\ Update(Reminted(v, located), FALSE)
                \/ \E hit \in SUBSET located \ {located} :
                     Event /\ Update(Reminted(v, hit), FALSE)
             /\ doc' = [doc EXCEPT !.updates = @ + 1, !.last = FALSE,
                                   !.queued = IF retract THEN FALSE ELSE @]
             /\ request' = [request EXCEPT !.pc = "lands", !.targets = located,
                                           !.batch = located, !.before = v]
     /\ UNCHANGED <<assigned, told, fromML, interrupted, quietFrom>>

\* A fault: a target is done once its batch is assigned.
RemainingNone == {}

\* Steps g and h: on the version assigned since, a target whose command is gone
\* is done; one that kept it goes into the next round, once.
Remaining == {t \in request.batch : t[1] \in Range(Newest.cmds)}

Lands ==
  /\ At("lands") /\ Assigned
  /\ IF Remaining \cap request.strikes # {} THEN Abort
     ELSE request' = [Loop EXCEPT !.targets = (@ \ request.batch) \cup Remaining,
                                   !.strikes = (@ \ request.batch) \cup Remaining]
  /\ UNCHANGED <<history, prover, doc, left, quietFrom>>

\* A fault: the overlay table is looked at, its serial is not.
QuietTable == /\ ~doc.caret
              /\ doc.edits # <<>> => doc.queued
              /\ ~doc.last /\ ~Wanted(FALSE, doc.overlays)

\* The post-retraction invariant: no caret, nobody touched the overlays, every
\* unflushed edit queued, no perspective held or to be computed.
Quiet == /\ ~doc.caret
         /\ doc.changes = request.overlay
         /\ doc.edits # <<>> => doc.queued
         /\ ~doc.last /\ ~Wanted(FALSE, doc.overlays)

AssertsRetracted ==
  /\ At("loop") /\ request.targets = {}
  /\ Goto(IF Quiet THEN "replied" ELSE "aborted")
  /\ UNCHANGED <<history, prover, doc, left, quietFrom>>

\* The deadline passes, the monitor or an update is not to be had in time, or
\* the prover is gone: every wait ends in the one failure.
GivesUp ==
  /\ ~Ended /\ ~At("polls") /\ (At("looks") => ~request.pong)
  /\ Abort /\ Event
  /\ UNCHANGED <<history, prover, doc, quietFrom>>

-----------------------------------------------------------------------------
Client == Edit \/ InsertOverlay \/ RemoveOverlay \/ FlushInput
ML == MLUpdates \/ MLCancels \/ MLPongs \/ Consolidate
Request == ReadsState \/ Sends \/ ChecksReport \/ ChecksPong \/ Retracts \/ Awaited
           \/ ReadsSerial \/ ReadsAgain \/ RoundRetaken \/ RoundFlushes \/ RoundRetires
           \/ Lands \/ AssertsRetracted \/ GivesUp

\* The reply ends the request; after a failure the client kills the prover.
Next == Client \/ ML \/ Receive \/ Request
Spec == Init /\ [][Next]_vars

-----------------------------------------------------------------------------
(* Properties *)

Commands == (Nat \ {0}) \X (Nat \ {0})
ExecIds == Commands \X (Nat \ {0})
Labels == {"idle", "read", "polls", "looks", "retracts", "awaits", "loop", "serial",
           "round", "lands", "replied", "aborted"}

\* Every variable keeps its type, the manager is never ahead of the prover nor
\* the prover of the manager, and unflushed edits sit in a queued file
\* (vscode_resources.scala treats anything else as a failure).
TypeOK ==
  /\ \A n \in 1..Tip : history[n].cmds \in Seq(Commands) /\ history[n].work \in BOOLEAN
  /\ told \in 1..Len(assigned) /\ Len(assigned) <= Tip
  /\ \A n \in 1..Len(assigned) : Execs(n) \subseteq ExecIds
  /\ toML \in Seq({"update", "cancel", "ping"})
  /\ fromML \in Seq({"assigned", "report", "failed", "pong"})
  /\ doc \in [edits : Seq({0, 1}), queued : BOOLEAN, caret : BOOLEAN, overlays : SUBSET Nat,
              last : BOOLEAN, updates : Nat, changes : Nat, queries : SUBSET Nat]
  /\ doc.edits # <<>> => doc.queued
  /\ request.pc \in Labels
  /\ request.report \in {"none", "report", "failed"} /\ request.pong \in BOOLEAN
  /\ request.targets \cup request.strikes \cup request.batch \subseteq request.probe
  /\ request.probe \subseteq ExecIds /\ interrupted \subseteq ExecIds
  /\ {request.before, request.serial, request.overlay, quietFrom} \subseteq Nat

\* A retire batch re-mints the commands of the execs it retires and no other,
\* although its offsets were taken from a version read outside the monitor.
EditsHitTheirTargets ==
  [][request'.pc = "lands" /\ request.pc = "round" =>
       \A c \in Range(Newest.cmds) \ Range(history'[Tip + 1].cmds) :
         \E t \in request'.batch : t[1] = c]_vars

\* A cancel that answers success leaves no exec it found alive assigned to a
\* command: nothing interrupted can pass for evaluated.
RetiredAreGone == At("replied") => interrupted \cap Execs(Len(assigned)) = {}

\* A cancel that answers success gave the prover no work back: every version
\* from the retraction on has an empty perspective, whatever was flushed.
NoWorkGivenBack == At("replied") => \A n \in quietFrom..Tip : ~history[n].work

=============================================================================
