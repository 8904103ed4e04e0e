----------------------------- MODULE Freshness -----------------------------
(***************************************************************************)
(* The decoration cache and its trust rule: the client half is             *)
(* processing.py, the send, flush and push handlers of lsp_client.py and   *)
(* wait_until_fresh of evaluation.py; the server half is flush_input,      *)
(* flush_output, close_model (vscode_resources.scala), publish             *)
(* (vscode_model.scala) and flush (language_server.scala).                 *)
(*                                                                         *)
(* The two processes talk over two FIFO pipes.  The client is one asyncio  *)
(* process; the server's threads meet in the monitor of its resources, and *)
(* an action of the server is what it does in one stay in the monitor, or  *)
(* one read outside it.                                                    *)
(*                                                                         *)
(* Texts of a file are numbered in the order the client writes them.       *)
(* Document versions are positions in the server's history; the real ids   *)
(* tick downward, which AtLeastAsNew and NewerOf hide, as in the code.     *)
(***************************************************************************)
EXTENDS Naturals, Sequences, FiniteSets

CONSTANTS
  Files,       \* the theory files
  Waiters,     \* calls of wait_until_fresh
  Types,       \* the tracked decoration types
  Pictures,    \* what a text can look like: one look for each type
  Blank,       \* the look of a type never received
  MaxText,     \* bound: texts one file gets on disk
  MaxSends,    \* bound: didOpen and didChange messages
  MaxVersion,  \* bound: versions made without new text stop here
  MaxPushes,   \* bound: a busy prover signals output while fewer replies wait
  GivesUp,     \* whether a wait may run out of budget or be cancelled
  Stalls       \* whether a didClose's send may time out: after its bytes (TRUE), before (FALSE)

ASSUME FilesGiven == IsFiniteSet(Files)
ASSUME PicturesGiven == \A p \in Pictures : /\ p = [t \in Types |-> p[t]]
                                            /\ \A t \in Types : p[t] # Blank
ASSUME BoundsGiven == {MaxText, MaxSends, MaxVersion, MaxPushes} \subseteq Nat /\ GivesUp \in BOOLEAN /\ Stalls \subseteq BOOLEAN

VARIABLES
  disk,                       \* the text of each file on disk
  open, text,                 \* open_documents, and the text written for each file
  sends, flushed, newest,     \* FreshnessState
  tracker,                    \* the ProcessingTracker of each file
  pc, snapshot,               \* each wait_until_fresh: where it is, its snapshot
  up, down,                   \* the pipes to and from the server
  model, shown, pending,      \* the server's models: text, visibility, pending edits
  base,                       \* the published baseline of each model
  history, stable,            \* the versions (their texts), the last one assigned
  serial,                     \* update_serial
  armed, output,              \* delay_output, and a flush_output under way
  flushes                     \* the flush threads

client == <<open, text, sends, flushed, newest, tracker>>
waits  == <<pc, snapshot>>
models == <<model, shown, pending, base>>
prover == <<history, stable, serial>>
vars   == <<disk, client, waits, up, down, models, prover, armed, output, flushes>>

Looks == UNION {{p[t] : t \in Types} : p \in Pictures}
NoPicture == [t \in Types |-> Blank]
\* full: a full push was folded.  whole and text are ghosts: the picture the
\* last folded push stood for, and the text it was rendered on (0: a mixture).
NoTracker == [full |-> FALSE, stamp |-> 0, cache |-> NoPicture, whole |-> NoPicture, text |-> 0]
NoBase    == [picture |-> NoPicture, version |-> 0]
NoOutput  == [phase |-> "none", serial |-> 0, tip |-> 0, stable |-> 0]

Tip == Len(history)

Tracker == [full : BOOLEAN, stamp : Nat, cache : [Types -> Looks \cup {Blank}],
            whole : [Types -> Looks \cup {Blank}], text : Nat]

TypeOK ==
  /\ open \subseteq Files /\ shown \subseteq Files /\ pending \subseteq Files
  /\ disk \in [Files -> Nat] /\ text \in [Files -> Nat] /\ model \in [Files -> Nat]
  /\ sends \in Nat /\ flushed \in Nat /\ newest \in Nat \ {0}
  /\ tracker \in [Files -> Tracker]
  /\ pc \in [Waiters -> {"idle", "asked", "parked", "done", "failed"}]
  /\ snapshot \in [Waiters -> Nat]
  /\ base \in [Files -> [picture : [Types -> Looks \cup {Blank}], version : Nat]]
  /\ history \in Seq([Files -> Nat]) /\ stable \in 1 .. Tip
  /\ serial \in Nat /\ armed \in BOOLEAN
  /\ output \in [phase : {"none", "serial", "state"}, serial : Nat, tip : Nat, stable : Nat]
  /\ flushes \in [Waiters -> [phase : {"none", "absorb", "await", "reply"}, version : Nat]]

Init ==
  /\ disk = [f \in Files |-> 1] /\ open = {} /\ text = [f \in Files |-> 0]
  /\ sends = 0 /\ flushed = 0 /\ newest = 1
  /\ tracker = [f \in Files |-> NoTracker]
  /\ pc = [w \in Waiters |-> "idle"] /\ snapshot = [w \in Waiters |-> 0]
  /\ up = <<>> /\ down = <<>>
  /\ model = [f \in Files |-> 0] /\ shown = {} /\ pending = {}
  /\ base = [f \in Files |-> NoBase]
  /\ history = << [f \in Files |-> 0] >> /\ stable = 1 /\ serial = 0
  /\ armed = FALSE /\ output = NoOutput
  /\ flushes = [w \in Waiters |-> [phase |-> "none", version |-> 0]]

-----------------------------------------------------------------------------
(* The trust rule.                                                         *)

AtLeastAsNew(stamp, version) == stamp >= version
NewerOf(a, b) == IF AtLeastAsNew(a, b) THEN a ELSE b

StampAtLeastAsNew(f) == tracker[f].full /\ AtLeastAsNew(tracker[f].stamp, newest)
UnflushedContent == sends # flushed

\* ProcessingTracker.fresh: readers believe the picture of f.
Fresh(f) == f \in open /\ StampAtLeastAsNew(f) /\ ~UnflushedContent

-----------------------------------------------------------------------------
(* The client writes.                                                      *)

MaxOf(a, b) == IF a >= b THEN a ELSE b

\* Counted in the write section, with the bytes.
Write(m) == sends < MaxSends /\ up' = Append(up, m) /\ sends' = sends + 1

\* An agent edits the file.
DiskEdited(f) ==
  /\ disk[f] < MaxText
  /\ disk' = [disk EXCEPT ![f] = @ + 1]
  /\ UNCHANGED <<client, waits, up, down, models, prover, armed, output, flushes>>

\* The file was read off the event loop: the disk may have moved on since.
SendText(f, t) ==
  /\ text' = [text EXCEPT ![f] = t]
  /\ Write([kind |-> "text", file |-> f, text |-> t])
  /\ UNCHANGED <<disk, flushed, newest, tracker, waits, down, models, prover, armed, output,
                 flushes>>

\* didOpen.
Open(f) ==
  /\ f \notin open
  /\ open' = open \cup {f}
  /\ \E t \in MaxOf(1, text[f]) .. disk[f] : SendText(f, t)

\* didChange, from a tool's entry or the file watcher's sink.
Change(f) ==
  /\ f \in open
  /\ \E t \in text[f] + 1 .. disk[f] : SendText(f, t)
  /\ UNCHANGED open

\* Bounded like the sends: a file closed for good shows nothing more.
MayClose(f) == f \in open /\ sends < MaxSends

Close(f) ==
  /\ MayClose(f)
  /\ open' = open \ {f}
  /\ up' = Append(up, [kind |-> "close", file |-> f])
  /\ tracker' = [tracker EXCEPT ![f] = NoTracker]
  /\ UNCHANGED <<disk, text, sends, flushed, newest, waits, down, models, prover, armed, output,
                 flushes>>

\* The send of the didClose timed out, before or after its bytes: the sweep
\* swallows that, and the tracker stays.
CloseStalls(f) ==
  /\ MayClose(f)
  /\ open' = open \ {f}
  /\ \E written \in Stalls :
       up' = IF written THEN Append(up, [kind |-> "close", file |-> f]) ELSE up
  /\ UNCHANGED <<disk, text, sends, flushed, newest, tracker, waits, down, models, prover, armed,
                 output, flushes>>

-----------------------------------------------------------------------------
(* wait_until_fresh and the flush it owns.                                 *)

\* The snapshot of the counter is taken in the request's write section.
Ask(w) ==
  /\ pc' = [pc EXCEPT ![w] = "asked"]
  /\ snapshot' = [snapshot EXCEPT ![w] = sends]
  /\ up' = Append(up, [kind |-> "flush", waiter |-> w])

WaitStarts(w) ==
  /\ pc[w] = "idle" /\ open # {}
  /\ Ask(w)
  /\ UNCHANGED <<disk, client, down, models, prover, armed, output, flushes>>

PicturesFresh == \A f \in open : StampAtLeastAsNew(f)

\* Content landed past the snapshot: the round starts again.
WaitRearms(w) ==
  /\ pc[w] = "parked" /\ sends # snapshot[w]
  /\ Ask(w)
  /\ UNCHANGED <<disk, client, down, models, prover, armed, output, flushes>>

\* Broken: the last test of the counter is forgotten.
WaitReturnsUntested(w) ==
  /\ pc[w] = "parked" /\ PicturesFresh
  /\ pc' = [pc EXCEPT ![w] = "done"]
  /\ UNCHANGED <<disk, client, snapshot, up, down, models, prover, armed, output, flushes>>

WaitReturns(w) ==
  /\ pc[w] = "parked" /\ PicturesFresh /\ sends = snapshot[w]
  /\ pc' = [pc EXCEPT ![w] = "done"]
  /\ UNCHANGED <<disk, client, snapshot, up, down, models, prover, armed, output, flushes>>

\* The budget ran out, the request timed out, or the call was cancelled.
WaitFails(w) ==
  /\ GivesUp /\ pc[w] \in {"asked", "parked"}
  /\ pc' = [pc EXCEPT ![w] = "failed"]
  /\ UNCHANGED <<disk, client, snapshot, up, down, models, prover, armed, output, flushes>>

-----------------------------------------------------------------------------
(* The client reads.                                                       *)

\* Broken: the entries of a push replace the whole cache.
FoldedAlone(k, m) ==
  [full |-> k.full \/ DOMAIN m.entries = Types, stamp |-> m.version,
   cache |-> m.entries, whole |-> m.whole, text |-> m.text]

\* Broken: any push makes the tracker a picture.
FoldedSlice(k, m) == [full |-> TRUE, stamp |-> m.version, whole |-> m.whole, text |-> m.text,
   cache |-> [t \in Types |-> IF t \in DOMAIN m.entries THEN m.entries[t] ELSE k.cache[t]]]

\* The entries of a push replace the types they name; a push that names them
\* all makes the tracker a picture of the whole document.
Folded(k, m) ==
  [full  |-> k.full \/ DOMAIN m.entries = Types,
   stamp |-> m.version,
   cache |-> [t \in Types |-> IF t \in DOMAIN m.entries THEN m.entries[t] ELSE k.cache[t]],
   whole |-> m.whole,
   text  |-> m.text]

\* _handle_decoration: every stamp counts, even that of a file no longer open.
ReadPush(m) ==
  /\ newest' = NewerOf(newest, m.version)
  /\ tracker' = IF m.file \in open THEN [tracker EXCEPT ![m.file] = Folded(@, m)] ELSE tracker
  /\ UNCHANGED <<flushed, pc>>

\* The content a flush reply covers: what was counted when it was written.
Covered(w) == MaxOf(flushed, snapshot[w])

\* The reply of a flush nobody waits for any more is dropped.
ReadFlushed(m) ==
  /\ UNCHANGED tracker
  /\ IF pc[m.waiter] = "asked"
     THEN /\ newest' = NewerOf(newest, m.version)
          /\ flushed' = Covered(m.waiter)
          /\ pc' = [pc EXCEPT ![m.waiter] = "parked"]
     ELSE UNCHANGED <<newest, flushed, pc>>

ClientReads ==
  /\ down # <<>> /\ down' = Tail(down)
  /\ LET m == Head(down)
     IN CASE m.kind = "push" -> ReadPush(m)
          [] m.kind = "flushed" -> ReadFlushed(m)
  /\ UNCHANGED <<disk, open, text, sends, snapshot, up, models, prover, armed, output, flushes>>

-----------------------------------------------------------------------------
(* The server reads.                                                       *)

\* change_text: an edit where the text differs.
Absorb(f, t) ==
  /\ model' = [model EXCEPT ![f] = t]
  /\ pending' = IF model[f] = t THEN pending ELSE pending \cup {f}
  /\ armed' = TRUE

ReadText(m) ==
  /\ Absorb(m.file, m.text)
  /\ shown' = shown \cup {m.file}
  /\ UNCHANGED <<base, flushes>>

\* close_document: the model becomes external and is re-read from disk.
ReadClose(m) ==
  /\ Absorb(m.file, disk[m.file])
  /\ shown' = shown \ {m.file}
  /\ base' = [base EXCEPT ![m.file] = NoBase]
  /\ UNCHANGED flushes

ReadFlush(m) ==
  /\ flushes' = [flushes EXCEPT ![m.waiter] = [phase |-> "absorb", version |-> 0]]
  /\ UNCHANGED <<models, armed>>

ServerReads ==
  /\ up # <<>> /\ up' = Tail(up)
  /\ LET m == Head(up)
     IN CASE m.kind = "text" -> ReadText(m)
          [] m.kind = "close" -> ReadClose(m)
          [] m.kind = "flush" -> ReadFlush(m)
  /\ UNCHANGED <<disk, client, waits, down, prover, output>>

\* The file watcher, or a flush asked to: a file no editor holds is (re-)read.
ExternalRead(f) ==
  /\ f \notin shown /\ model[f] # disk[f]
  /\ Absorb(f, disk[f])
  /\ UNCHANGED <<disk, client, waits, up, down, shown, base, prover, output, flushes>>

-----------------------------------------------------------------------------
(* Input: pending edits become a version.                                  *)

\* flush_input; moved: some perspective changed, which is an edit too.
FlushInput(moved) ==
  IF pending # {} \/ moved
  THEN /\ history' = Append(history, [f \in Files |->
                       IF f \in pending THEN model[f] ELSE history[Tip][f]])
       /\ serial' = serial + 1
       /\ pending' = {}
  ELSE UNCHANGED <<history, serial, pending>>

Moves == IF Tip < MaxVersion THEN BOOLEAN ELSE {FALSE}

\* The editor's own delayed flush.
InputFlushed ==
  /\ \E moved \in Moves : (pending # {} \/ moved) /\ FlushInput(moved)
  /\ UNCHANGED <<disk, client, waits, up, down, model, shown, base, stable, armed, output, flushes>>

\* A version the prover makes on its own (consolidation) names no file.
Consolidates ==
  /\ Tip < MaxVersion /\ stable = Tip
  /\ history' = Append(history, history[Tip])
  /\ UNCHANGED <<disk, client, waits, up, down, models, stable, serial, armed, output, flushes>>

\* Commands_Changed of a busy prover.
OutputSignalled ==
  /\ ~armed /\ Len(down) < MaxPushes
  /\ armed' = TRUE
  /\ UNCHANGED <<disk, client, waits, up, down, models, prover, output, flushes>>

\* The prover assigned the next version; Commands_Changed arms the output.
Assigned ==
  /\ stable < Tip
  /\ stable' = stable + 1
  /\ armed' = TRUE
  /\ UNCHANGED <<disk, client, waits, up, down, models, history, serial, output, flushes>>

Phase(w, p, v) == flushes' = [flushes EXCEPT ![w] = [phase |-> p, version |-> v]]

\* flush_body, up to and with its flush_input.
FlushAbsorbs(w) ==
  /\ flushes[w].phase = "absorb"
  /\ \E moved \in Moves : FlushInput(moved)
  /\ Phase(w, "await", 0)
  /\ UNCHANGED <<disk, client, waits, up, down, model, shown, base, stable, armed, output>>

\* Broken: the reply names the newest assigned version, tip or not.
FlushAwaitsAny(w) ==
  /\ flushes[w].phase = "await"
  /\ Phase(w, "reply", stable)
  /\ UNCHANGED <<disk, client, waits, up, down, models, prover, armed, output>>

\* await_state: the tip is assigned.
FlushAwaits(w) ==
  /\ flushes[w].phase = "await" /\ stable = Tip
  /\ Phase(w, "reply", stable)
  /\ UNCHANGED <<disk, client, waits, up, down, models, prover, armed, output>>

FlushReplies(w) ==
  /\ flushes[w].phase = "reply"
  /\ down' = Append(down, [kind |-> "flushed", waiter |-> w, version |-> flushes[w].version])
  /\ Phase(w, "none", 0)
  /\ UNCHANGED <<disk, client, waits, up, models, prover, armed, output>>

-----------------------------------------------------------------------------
(* Output: one rendering of every visible model.                           *)

\* delay_output fires; flush_output reads the serial, then the state.
OutputStarts ==
  /\ armed /\ output.phase = "none"
  /\ armed' = FALSE
  /\ output' = [NoOutput EXCEPT !.phase = "serial", !.serial = serial]
  /\ UNCHANGED <<disk, client, waits, up, down, models, prover, flushes>>

OutputReads ==
  /\ output.phase = "serial"
  /\ output' = [output EXCEPT !.phase = "state", !.tip = Tip, !.stable = stable]
  /\ UNCHANGED <<disk, client, waits, up, down, models, prover, armed, flushes>>

\* Snapshot.is_outdated: edits of f the rendered version lacks.
Outdated(f) == f \in pending \/ history[output.tip][f] # history[output.stable][f]

\* The text a rendering of f stands on: ranges of the version, converted
\* against the model's text.
RenderedText(f) == IF model[f] = history[output.stable][f] THEN model[f] ELSE 0

\* Broken: nothing is sent when nothing changed.
EntriesOnChange(f, picture) ==
  CASE base[f].picture = picture -> {}
    [] base[f] = NoBase -> {picture}
    [] OTHER -> {[t \in {u \in Types : picture[u] # base[f].picture[u]} |-> picture[t]]}

\* publish: the full list on an empty baseline, else what changed, else an
\* acknowledgement, unless this version was already pushed.
Entries(f, picture) ==
  CASE base[f].picture = picture /\ base[f].version = output.stable -> {}
    [] base[f] = NoBase -> {picture}
    [] OTHER -> {[t \in {u \in Types : picture[u] # base[f].picture[u]} |-> picture[t]]}

Push(f, picture, entries) ==
  [kind |-> "push", file |-> f, version |-> output.stable, entries |-> entries,
   whole |-> picture, text |-> RenderedText(f)]

\* The state read outside the monitor is still current.
MayPublish == serial = output.serial

Orders(S) == {o \in [1 .. Cardinality(S) -> S] : \A x \in S : \E i \in DOMAIN o : o[i] = x}

\* Inside the monitor again; look[f] is what f looks like by now.
OutputFlushed ==
  /\ output.phase = "state"
  /\ output' = NoOutput
  /\ IF ~MayPublish
     THEN armed' = TRUE /\ UNCHANGED <<down, base>>
     ELSE \E look \in [{f \in shown : ~Outdated(f)} -> Pictures] :
            /\ \E pushes \in Orders(UNION {{Push(f, look[f], e) : e \in Entries(f, look[f])} :
                                           f \in DOMAIN look}) : down' = down \o pushes
            /\ base' = [f \in Files |->
                 IF f \in DOMAIN look THEN [picture |-> look[f], version |-> output.stable]
                 ELSE base[f]]
            /\ armed' = (armed \/ DOMAIN look # shown)
  /\ UNCHANGED <<disk, client, waits, up, model, shown, pending, prover, flushes>>

-----------------------------------------------------------------------------
ServerStep ==
  \/ ServerReads \/ InputFlushed \/ Assigned
  \/ OutputStarts \/ OutputReads \/ OutputFlushed
  \/ \E w \in Waiters : FlushAbsorbs(w) \/ FlushAwaits(w) \/ FlushReplies(w)

WaitStep(w) == WaitStarts(w) \/ WaitRearms(w) \/ WaitReturns(w)

Next ==
  \/ ServerStep \/ Consolidates \/ OutputSignalled
  \/ ClientReads
  \/ \E f \in Files : DiskEdited(f) \/ Open(f) \/ Change(f) \/ Close(f) \/ CloseStalls(f)
                      \/ ExternalRead(f)
  \/ \E w \in Waiters : WaitStep(w) \/ WaitFails(w)

Spec == Init /\ [][Next]_vars

\* Both pipes are drained, delays fire, the prover assigns what it was given and
\* a coroutine whose condition holds runs.  Nothing obliges an edit, an opening,
\* a closing or a failure.
FairSpec ==
  /\ Spec
  /\ WF_vars(ServerReads) /\ WF_vars(pending # {} /\ InputFlushed) /\ WF_vars(Assigned)
  /\ WF_vars(OutputStarts) /\ WF_vars(OutputReads) /\ WF_vars(OutputFlushed)
  /\ WF_vars(ClientReads)
  /\ \A w \in Waiters :
       /\ WF_vars(FlushAbsorbs(w)) /\ WF_vars(FlushAwaits(w)) /\ WF_vars(FlushReplies(w))
       /\ WF_vars(WaitRearms(w)) /\ WF_vars(WaitReturns(w))

-----------------------------------------------------------------------------
(* Properties.                                                             *)

\* The two counters (FreshnessState): when no content is unflushed, the newest
\* version the client knows of contains the text of every open file.
CoverIsHonest ==
  ~UnflushedContent => \A f \in open : newest <= Tip /\ history[newest][f] = text[f]

\* The trust rule (processing.py, fresh): a believed picture is the picture
\* the server rendered, whole, and of the very text the client wrote.  It
\* fails if a slice passes for a picture, if a baseline outlives the picture
\* it was sent for, or if a rendering mixes a version with a later text.
BelievedIsWhole == \A f \in Files : Fresh(f) => tracker[f].cache = tracker[f].whole
TrustIsSound ==
  BelievedIsWhole /\ CoverIsHonest /\ \A f \in Files : Fresh(f) => tracker[f].text = text[f]

\* wait_until_fresh: what is returned is fresh in the full sense, for every
\* open file, though the counter moved while the wait was parked.
WaitReturnsFresh ==
  [][\A w \in Waiters : pc[w] # "done" /\ pc'[w] = "done" => \A f \in open' : Fresh(f)']_vars

\* What a reader of the cache believes of a file, as the abstract trust sees it.
Abstract == INSTANCE PictureTrust WITH
  seen <- [f \in Files |-> IF Fresh(f) THEN tracker[f].text ELSE Blank], Unknown <- Blank

\* The cache implements its promise, step by step.
TrustImplemented == Abstract!TrustSpec

\* Every freshness wait ends: its flush is answered, every visible model is
\* acknowledged at the newest version however often edits postponed the output
\* or re-armed the wait, unless the wait gave up.
WaitEnds == \A w \in Waiters : pc[w] = "asked" ~> pc[w] \in {"done", "failed"}
=============================================================================
