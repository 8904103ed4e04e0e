---------------------------- MODULE DocumentSync ----------------------------
(***************************************************************************)
(* How the text of an open theory file follows the disk: open_document,    *)
(* close_document, sync_dirty_files and its two callers (the watcher's     *)
(* sink and the tool entry's stat backstop) in lsp_client.py and           *)
(* evaluation.py, sanitize_read of unicode_guard.py, and the server's      *)
(* change_model, close_model and sync_models.                              *)
(*                                                                         *)
(* Whoever holds _evaluation_state_lock syncs, closes, or ends the session *)
(* (so a document never closes under a sync); opening holds no lock.       *)
(* Files are read and stat'ed on other threads: the disk moves between a   *)
(* read and what follows it.                                               *)
(*                                                                         *)
(* A write to a file makes its next signature, which also names the text   *)
(* it wrote.  0 stands for no text and for the signature None.             *)
(***************************************************************************)
EXTENDS Naturals, Sequences, FiniteSets, SequencesExt

CONSTANTS
  Files,            \* theory files of one directory
  Heap,             \* those compiled into the session's heap (heap_sources)
  Openers,          \* calls of open_document
  Garbled,          \* the text left by a diff applied to another text than its base
  MaxWrites,        \* bound: signatures one file gets from its editors
  MaxOpens,         \* bound: DocumentState objects made
  MaxStarts,        \* bound: launches of a session
  MaxPipe,          \* bound: messages the server has not read
  Glyphs,           \* whether an edit may contain glyphs the guard converts
  CutsBeforeBytes,  \* whether a send may be cut off before its bytes are written
  Kept              \* whether another document keeps the directory watched

ASSUME FilesGiven == Files # {} /\ Heap \subseteq Files /\ Garbled \notin Nat
ASSUME OpenersGiven == "holder" \notin Openers
ASSUME BoundsGiven == {MaxWrites, MaxOpens, MaxStarts, MaxPipe} \subseteq Nat
ASSUME SwitchesGiven == Glyphs \subseteq BOOLEAN /\ {CutsBeforeBytes, Kept} \subseteq BOOLEAN

VARIABLES
  disk,      \* text, signature and glyphs of each file
  watch,     \* the directory is watched
  events,    \* files of which a sink is scheduled
  open, doc, \* open_documents, and the DocumentState of each of its files
  sync,      \* the holder of _evaluation_state_lock
  opener,    \* the calls of open_document
  queue,     \* sends waiting for _write_lock, which the first one has
  up,        \* the pipe to the server
  model,     \* the server's models
  rejected,  \* rejections the client has not read yet
  alive, starts, opens,
  lost,      \* not in the code: the last text queued for the file was never written
  slipped    \* not in the code: the text of a didOpen was out of date by its stat

editing == <<disk, watch, events>>
client == <<open, doc, sync, opener, queue>>
wire == <<up, model, rejected>>
session == <<alive, starts, opens>>
history == <<lost, slipped>>
vars == <<editing, client, wire, session, history>>

-----------------------------------------------------------------------------

None == 0
Text == 0 .. MaxWrites + 1
Message == [kind : {"open", "full"}, file : Files, text : Text]
           \cup [kind : {"change"}, file : Files, base : Text, text : Text]
           \cup [kind : {"close"}, file : Files]

\* The types; and the document under a sync is registered: the lock keeps
\* closings and teardowns out of a sync.
TypeOK ==
  /\ disk \in [Files -> [text : Text, sig : Text, glyphs : BOOLEAN]]
  /\ watch \in BOOLEAN /\ events \subseteq Files
  /\ open \subseteq Files
  /\ doc \in [Files -> [content : Text, sig : Text, full : BOOLEAN, target : BOOLEAN]]
  /\ sync \in [phase : {"idle", "listed", "choosing", "reading", "read", "sending", "closing"},
               entry : BOOLEAN, todo : SUBSET Files, file : Files, text : Text]
  /\ opener \in [Openers -> [phase : {"idle", "reading", "read", "sending"}, file : Files,
                             text : Text, target : BOOLEAN]]
  /\ queue \in Seq([by : Openers \cup {"holder"}, message : Message, written : BOOLEAN])
  /\ up \in Seq(Message)
  /\ model \in [Files -> [owner : {"none", "client", "disk"}, text : Text \cup {Garbled}]]
  /\ rejected \in Nat /\ alive \in BOOLEAN /\ {starts, opens} \subseteq Nat
  /\ lost \in [Files -> BOOLEAN] /\ slipped \in [Files -> BOOLEAN]
  /\ sync.phase \in {"reading", "read", "sending"} => sync.file \in open

AnyFile == CHOOSE f \in Files : TRUE
Idle == [phase |-> "idle", entry |-> FALSE, todo |-> {}, file |-> AnyFile, text |-> None]
Resting == [phase |-> "idle", file |-> AnyFile, text |-> None, target |-> FALSE]
NoDoc == [content |-> None, sig |-> None, full |-> FALSE, target |-> FALSE]
NoModel == [owner |-> "none", text |-> None]

Init ==
  /\ disk = [f \in Files |-> [text |-> 1, sig |-> 1, glyphs |-> FALSE]]
  /\ watch = Kept /\ events = {}
  /\ open = {} /\ doc = [f \in Files |-> NoDoc]
  /\ sync = Idle /\ opener = [o \in Openers |-> Resting] /\ queue = <<>>
  /\ up = <<>> /\ model = [f \in Files |-> NoModel] /\ rejected = 0
  /\ alive = TRUE /\ starts = 1 /\ opens = 0
  /\ lost = [f \in Files |-> FALSE] /\ slipped = [f \in Files |-> FALSE]

-----------------------------------------------------------------------------
(* The disk.                                                               *)

\* _stat_sig
Stat(f) == IF disk[f].text = None THEN None ELSE disk[f].sig

\* Broken: the file an editor renames into place goes unseen.
WrittenUnseen(f, text, glyphs) ==
  /\ disk' = [disk EXCEPT ![f] = [text |-> text, sig |-> @.sig + 1, glyphs |-> glyphs]]
  /\ UNCHANGED <<events, watch>>

\* The watcher's thread schedules a sink for every event of a watched directory.
Written(f, text, glyphs) ==
  /\ disk' = [disk EXCEPT ![f] = [text |-> text, sig |-> @.sig + 1, glyphs |-> glyphs]]
  /\ events' = IF watch THEN events \cup {f} ELSE events
  /\ UNCHANGED watch

\* An editor writes a new text, touches the file, or deletes it.
DiskWritten(f) ==
  /\ disk[f].sig < MaxWrites
  /\ \/ \E glyphs \in Glyphs : Written(f, disk[f].sig + 1, glyphs)
     \/ Written(f, disk[f].text, disk[f].glyphs)
     \/ Written(f, None, FALSE)
  /\ UNCHANGED <<client, wire, session, history>>

\* _read_text
PlainRead(f, text) == text = disk[f].text /\ text # None /\ UNCHANGED editing

\* sanitize_read: glyphs are rewritten on disk, and what was written is
\* returned; or the text stays as it is (it has an unconvertible glyph, the
\* write failed, or the file kept changing).
SanitizedRead(f, text) ==
  \/ PlainRead(f, text)
  \/ disk[f].glyphs /\ text = disk[f].sig + 1 /\ Written(f, text, FALSE)

-----------------------------------------------------------------------------
(* Sending.                                                                *)

Whole(m) == m.kind \in {"open", "full"}

Enqueued(by, m) ==
  /\ queue' = Append(queue, [by |-> by, message |-> m, written |-> FALSE])
  /\ lost' = IF Whole(m) THEN [lost EXCEPT ![m.file] = FALSE] ELSE lost

\* The write section of _send.
Write ==
  /\ queue # <<>> /\ ~Head(queue).written /\ Len(up) < MaxPipe
  /\ up' = Append(up, Head(queue).message)
  /\ queue' = [queue EXCEPT ![1].written = TRUE]
  /\ UNCHANGED <<editing, open, doc, sync, opener, model, rejected, session, history>>

Drained(by) ==
  /\ queue # <<>> /\ Head(queue).by = by /\ Head(queue).written
  /\ queue' = Tail(queue)

\* SEND_TIMEOUT, the bound on a close, or a cancelled tool call.
Cut(by) ==
  \E i \in DOMAIN queue :
    /\ queue[i].by = by
    /\ queue[i].written \/ CutsBeforeBytes
    /\ queue' = RemoveAt(queue, i)
    /\ lost' = IF queue[i].written \/ queue[i].message.kind = "close"
                 THEN lost
                 ELSE [lost EXCEPT ![queue[i].message.file] = TRUE]

-----------------------------------------------------------------------------
(* open_document, by a tool or an automatic opening.                       *)

Marked(f) == doc' = [doc EXCEPT ![f].target = TRUE]

\* The file is open: only the evaluation-target mark may rise.
OpenAgain(f) ==
  /\ alive /\ f \in open
  /\ Marked(f)
  /\ UNCHANGED <<editing, open, sync, opener, queue, wire, session, history>>

OpenStarts(o, f, target) ==
  /\ alive /\ opener[o].phase = "idle" /\ f \notin open /\ opens < MaxOpens
  /\ opener' = [opener EXCEPT ![o] = [phase |-> "reading", file |-> f, text |-> None,
                                      target |-> target]]
  /\ opens' = opens + 1
  /\ UNCHANGED <<editing, open, doc, sync, queue, wire, alive, starts, history>>

OpenReads(o) ==
  /\ opener[o].phase = "reading"
  /\ \E text \in Text :
       /\ SanitizedRead(opener[o].file, text)
       /\ opener' = [opener EXCEPT ![o].phase = "read", ![o].text = text]
  /\ UNCHANGED <<open, doc, sync, queue, wire, session, history>>

OpenFailsToRead(o) ==
  /\ opener[o].phase = "reading" /\ disk[opener[o].file].text = None
  /\ opener' = [opener EXCEPT ![o] = Resting]
  /\ UNCHANGED <<editing, open, doc, sync, queue, wire, session, history>>

\* Broken: the second look into open_documents is forgotten.
NotOpenedMeanwhile(o) == FALSE

OpenedMeanwhile(o) == opener[o].file \in open

OpenResumes(o) ==
  /\ opener[o].phase = "read" /\ OpenedMeanwhile(o)
  /\ IF opener[o].target THEN Marked(opener[o].file) ELSE UNCHANGED doc
  /\ opener' = [opener EXCEPT ![o] = Resting]
  /\ UNCHANGED <<editing, open, sync, queue, wire, session, history>>

\* The document is registered before its didOpen; without a process the send
\* raises, and the document stays registered.
OpenRegisters(o) ==
  /\ opener[o].phase = "read" /\ ~OpenedMeanwhile(o)
  /\ LET f == opener[o].file
         text == opener[o].text
     IN /\ open' = open \cup {f}
        /\ doc' = [doc EXCEPT ![f] = [content |-> text, sig |-> Stat(f), full |-> FALSE,
                                      target |-> opener[o].target]]
        /\ slipped' = [slipped EXCEPT ![f] = text # disk[f].text]
        /\ IF alive
             THEN /\ Enqueued(o, [kind |-> "open", file |-> f, text |-> text])
                  /\ opener' = [opener EXCEPT ![o].phase = "sending"]
             ELSE /\ opener' = [opener EXCEPT ![o] = Resting]
                  /\ lost' = [lost EXCEPT ![f] = TRUE]
                  /\ UNCHANGED queue
  /\ UNCHANGED <<editing, sync, wire, session>>

OpenSent(o) ==
  /\ opener[o].phase = "sending" /\ Drained(o)
  /\ opener' = [opener EXCEPT ![o] = Resting]
  /\ watch' = TRUE
  /\ UNCHANGED <<disk, events, open, doc, sync, wire, session, history>>

OpenCut(o) ==
  /\ opener[o].phase = "sending" /\ Cut(o)
  /\ opener' = [opener EXCEPT ![o] = Resting]
  /\ UNCHANGED <<editing, open, doc, sync, wire, session, slipped>>

-----------------------------------------------------------------------------
(* sync_dirty_files, under the lock.                                       *)

\* resync_changed_open_documents of a tool call's entry.
EntryStarts ==
  /\ alive /\ sync.phase = "idle" /\ open # {}
  /\ sync' = [Idle EXCEPT !.phase = "listed", !.entry = TRUE, !.todo = open]
  /\ UNCHANGED <<editing, open, doc, opener, queue, wire, session, history>>

\* The stat of the listed files, compared at once: a signature that moves, or
\* is dropped, in between is seen as it would be by the next entry.
EntryStats ==
  /\ sync.phase = "listed"
  /\ sync' = [sync EXCEPT !.phase = "choosing",
                          !.todo = {f \in @ \cap open : doc[f].sig # Stat(f)}]
  /\ UNCHANGED <<editing, open, doc, opener, queue, wire, session, history>>

\* sync_file_locked, when the lock is free.
SinkStarts(f) ==
  /\ sync.phase = "idle" /\ f \in events
  /\ events' = events \ {f}
  /\ sync' = [Idle EXCEPT !.phase = "choosing", !.todo = {f}]
  /\ UNCHANGED <<disk, watch, open, doc, opener, queue, wire, session, history>>

\* The sink's own look, before it asks for the lock.
SinkFindsNoProcess(f) ==
  /\ ~alive /\ f \in events
  /\ events' = events \ {f}
  /\ UNCHANGED <<disk, watch, client, wire, session, history>>

SyncChooses(f) ==
  /\ sync.phase = "choosing" /\ f \in sync.todo
  /\ sync' = IF f \in open
               THEN [sync EXCEPT !.phase = "reading", !.todo = @ \ {f}, !.file = f]
               ELSE [sync EXCEPT !.todo = @ \ {f}]
  /\ UNCHANGED <<editing, open, doc, opener, queue, wire, session, history>>

SyncEnds ==
  /\ sync.phase = "choosing" /\ sync.todo = {}
  /\ sync' = Idle
  /\ UNCHANGED <<editing, open, doc, opener, queue, wire, session, history>>

Onward == [sync EXCEPT !.phase = "choosing", !.file = AnyFile, !.text = None]

SyncReads ==
  /\ sync.phase = "reading"
  /\ \E text \in Text :
       /\ IF sync.file \in Heap THEN PlainRead(sync.file, text) ELSE SanitizedRead(sync.file, text)
       /\ sync' = [sync EXCEPT !.phase = "read", !.text = text]
  /\ UNCHANGED <<open, doc, opener, queue, wire, session, history>>

\* The signature is dropped: a file made again is read again.
SyncFailsToRead ==
  /\ sync.phase = "reading" /\ disk[sync.file].text = None
  /\ doc' = [doc EXCEPT ![sync.file].sig = None]
  /\ sync' = Onward
  /\ UNCHANGED <<editing, open, opener, queue, wire, session, history>>

Refused == sync.file \in Heap /\ sync.text # doc[sync.file].content

\* A precompiled file was modified: the call fails, the files after it wait.
SyncRefuses ==
  /\ sync.phase = "read" /\ Refused
  /\ sync' = Idle
  /\ UNCHANGED <<editing, open, doc, opener, queue, wire, session, history>>

NothingToPush == sync.text = doc[sync.file].content /\ ~doc[sync.file].full

SyncSettles ==
  /\ sync.phase = "read" /\ ~Refused /\ NothingToPush
  /\ doc' = [doc EXCEPT ![sync.file].sig = Stat(sync.file)]
  /\ slipped' = [slipped EXCEPT ![sync.file] = FALSE]
  /\ sync' = Onward
  /\ UNCHANGED <<editing, open, opener, queue, wire, session, lost>>

\* Broken: the diff is taken against the text on disk.
PushOfDisk(f) ==
  IF doc[f].full
    THEN [kind |-> "full", file |-> f, text |-> sync.text]
    ELSE [kind |-> "change", file |-> f, base |-> disk[f].text, text |-> sync.text]

\* The didChange: a diff of the content last committed, or the whole text.
Push(f) ==
  IF doc[f].full
    THEN [kind |-> "full", file |-> f, text |-> sync.text]
    ELSE [kind |-> "change", file |-> f, base |-> doc[f].content, text |-> sync.text]

\* The content is committed before the send, which raises without a process:
\* a sink that waited for the lock while the session was torn down.
SyncCommits ==
  /\ sync.phase = "read" /\ ~Refused /\ ~NothingToPush
  /\ doc' = [doc EXCEPT ![sync.file].content = sync.text]
  /\ slipped' = [slipped EXCEPT ![sync.file] = FALSE]
  /\ IF alive
       THEN /\ Enqueued("holder", Push(sync.file))
            /\ sync' = [sync EXCEPT !.phase = "sending"]
       ELSE /\ sync' = Idle
            /\ lost' = [lost EXCEPT ![sync.file] = TRUE]
            /\ UNCHANGED queue
  /\ UNCHANGED <<editing, open, opener, wire, session>>

\* Broken: events of a file just pushed are dropped as its own echo.
SyncSentDropsEvents ==
  /\ sync.phase = "sending" /\ Drained("holder")
  /\ doc' = [doc EXCEPT ![sync.file].full = FALSE, ![sync.file].sig = Stat(sync.file)]
  /\ events' = events \ {sync.file}
  /\ sync' = Onward
  /\ UNCHANGED <<disk, watch, open, opener, wire, session, history>>

\* The signature taken is the file's after the send, not the one of the text read.
SyncSent ==
  /\ sync.phase = "sending" /\ Drained("holder")
  /\ doc' = [doc EXCEPT ![sync.file].full = FALSE, ![sync.file].sig = Stat(sync.file)]
  /\ sync' = Onward
  /\ UNCHANGED <<editing, open, opener, wire, session, history>>

SyncCut ==
  /\ sync.phase = "sending" /\ Cut("holder")
  /\ sync' = Idle
  /\ UNCHANGED <<editing, open, doc, opener, wire, session, slipped>>

\* A tool call is cancelled while it waits for a thread.
EntryCancelled ==
  /\ sync.entry /\ sync.phase \in {"listed", "reading", "read"}
  /\ sync' = Idle
  /\ UNCHANGED <<editing, open, doc, opener, queue, wire, session, history>>

-----------------------------------------------------------------------------
(* close_document, by the unified close alone.                             *)

CloseStarts(f) ==
  /\ alive /\ sync.phase = "idle"
  /\ f \in open /\ ~doc[f].target
  /\ open' = open \ {f} /\ doc' = [doc EXCEPT ![f] = NoDoc]
  /\ Enqueued("holder", [kind |-> "close", file |-> f])
  /\ sync' = [Idle EXCEPT !.phase = "closing"]
  /\ UNCHANGED <<editing, opener, wire, session, slipped>>

CloseSent ==
  /\ sync.phase = "closing" /\ Drained("holder")
  /\ sync' = Idle
  /\ watch' = (watch /\ (Kept \/ open # {}))
  /\ UNCHANGED <<disk, events, open, doc, opener, wire, session, history>>

CloseCut ==
  /\ sync.phase = "closing" /\ Cut("holder")
  /\ sync' = Idle
  /\ UNCHANGED <<editing, open, doc, opener, wire, session, slipped>>

-----------------------------------------------------------------------------
(* The session, ended and started under the same lock.                     *)

\* Broken: the session is torn down without the lock.
TerminateUnlocked ==
  /\ alive /\ starts < MaxStarts
  /\ alive' = FALSE
  /\ open' = {} /\ doc' = [f \in Files |-> NoDoc]
  /\ queue' = <<>>
  /\ opener' = [o \in Openers |-> IF opener[o].phase = "sending" THEN Resting ELSE opener[o]]
  /\ up' = <<>> /\ model' = [f \in Files |-> NoModel] /\ rejected' = 0
  /\ watch' = FALSE
  /\ UNCHANGED <<disk, events, sync, starts, opens, history>>

\* teardown: the sends under way fail with the pipe.
Terminate ==
  /\ alive /\ sync.phase = "idle" /\ starts < MaxStarts
  /\ alive' = FALSE
  /\ open' = {} /\ doc' = [f \in Files |-> NoDoc]
  /\ queue' = <<>>
  /\ opener' = [o \in Openers |-> IF opener[o].phase = "sending" THEN Resting ELSE opener[o]]
  /\ up' = <<>> /\ model' = [f \in Files |-> NoModel] /\ rejected' = 0
  /\ watch' = FALSE
  /\ UNCHANGED <<disk, events, sync, starts, opens, history>>

\* isabelle_launch after a teardown clears nothing.
Launch ==
  /\ ~alive /\ sync.phase = "idle"
  /\ alive' = TRUE /\ starts' = starts + 1
  /\ UNCHANGED <<editing, client, wire, opens, history>>

-----------------------------------------------------------------------------
(* The server.                                                             *)

\* change_model and close_model.  A diff against another text than its base
\* garbles the text, or is rejected, before or after some of its parts applied.
Read(m, owner, text) ==
  LET f == m.file IN
  IF Whole(m) THEN owner = "client" /\ text = m.text /\ UNCHANGED rejected
  ELSE IF m.kind = "close"
    THEN /\ owner = (IF model[f].owner = "none" THEN "none" ELSE "disk")
         /\ text = (IF owner = "none" \/ disk[f].text = None THEN model[f].text ELSE disk[f].text)
         /\ UNCHANGED rejected
  ELSE IF m.base = model[f].text
    THEN owner = "client" /\ text = m.text /\ UNCHANGED rejected
  ELSE \/ owner = "client" /\ text = Garbled /\ rejected' \in {rejected, rejected + 1}
       \/ owner = model[f].owner /\ text = model[f].text /\ rejected' = rejected + 1

ServerReads ==
  /\ up # <<>>
  /\ \E owner \in {"none", "client", "disk"}, text \in Text \cup {Garbled} :
       /\ Read(Head(up), owner, text)
       /\ model' = [model EXCEPT ![Head(up).file] = [owner |-> owner, text |-> text]]
  /\ up' = Tail(up)
  /\ UNCHANGED <<editing, client, session, history>>

\* sync_models and resync_external_models: a closed file follows the disk.
ServerFollows(f) ==
  /\ model[f].owner = "disk" /\ disk[f].text \notin {None, model[f].text}
  /\ model' = [model EXCEPT ![f].text = disk[f].text]
  /\ UNCHANGED <<editing, client, up, rejected, session, history>>

\* _surface_server_message: every open document is read again and pushed whole.
RejectionRead ==
  /\ rejected > 0
  /\ rejected' = rejected - 1
  /\ doc' = [f \in Files |-> IF f \in open THEN [doc[f] EXCEPT !.sig = None, !.full = TRUE] ELSE doc[f]]
  /\ UNCHANGED <<editing, open, sync, opener, queue, up, model, session, history>>

-----------------------------------------------------------------------------

OpenProgress(o) == OpenReads(o) \/ OpenFailsToRead(o) \/ OpenResumes(o) \/ OpenRegisters(o)
                   \/ OpenSent(o)

Holding ==
  \/ EntryStats \/ SyncEnds \/ SyncReads \/ SyncFailsToRead \/ SyncRefuses \/ SyncSettles
  \/ SyncCommits \/ SyncSent \/ CloseSent
  \/ \E f \in Files : SyncChooses(f)

Next ==
  \/ \E f \in Files : DiskWritten(f) \/ OpenAgain(f) \/ CloseStarts(f) \/ ServerFollows(f)
  \/ \E o \in Openers, f \in Files, target \in BOOLEAN : OpenStarts(o, f, target)
  \/ \E o \in Openers : OpenProgress(o) \/ OpenCut(o)
  \/ EntryStarts \/ EntryCancelled \/ SyncCut \/ CloseCut \/ Holding
  \/ \E f \in Files : SinkStarts(f) \/ SinkFindsNoProcess(f)
  \/ Write \/ ServerReads \/ RejectionRead
  \/ Terminate \/ Launch

Spec == Init /\ [][Next]_vars

\* Threads return, the lock is handed on, the pipe is drained, sinks run.
Fairness ==
  /\ WF_vars(Holding) /\ WF_vars(Write) /\ WF_vars(ServerReads)
  /\ \A o \in Openers : WF_vars(OpenProgress(o))
  /\ \A f \in Files : SF_vars(SinkStarts(f))

FairSpec == Spec /\ Fairness

-----------------------------------------------------------------------------
(* Properties.                                                             *)

\* What is on its way to the server: written, or waiting to be.
Unwritten == IF queue # <<>> /\ Head(queue).written THEN Tail(queue) ELSE queue
Pipe == up \o [i \in DOMAIN Unwritten |-> Unwritten[i].message]

About(pipe, f) == {k \in DOMAIN pipe : pipe[k].file = f}

\* The message at k of the pipe meets this text of f, whose model has the text
\* WAS now: the last message about f before k leaves it there.
Meets(pipe, was, f, k, text) ==
  LET before == {j \in About(pipe, f) : j < k} IN
  IF before = {} THEN text = was
  ELSE \E j \in before : /\ \A i \in before : i <= j
                         /\ pipe[j].kind # "close" /\ pipe[j].text = text

\* Nothing after the last whole text is a diff of another text.
EveryDiffHasItsBase(pipe, was, f) ==
  \A k \in About(pipe, f) :
    pipe[k].kind = "change" =>
      \/ \E j \in About(pipe, f) : j > k /\ Whole(pipe[j])
      \/ Meets(pipe, was, f, k, pipe[k].base)

\* Unless a text was cut off before its bytes and nothing whole was queued
\* since, what an open document holds is what the server will have, and each
\* ranged didChange meets the text it is a diff of (sync_dirty_files).
PushedTextArrives ==
  \A f \in open :
    lost[f] \/ /\ EveryDiffHasItsBase(Pipe, model[f].text, f)
               /\ Meets(Pipe, model[f].text, f, Len(Pipe) + 1, doc[f].content)

\* In a watched directory (Kept, one session) a signature hides an edit only
\* until a sink already scheduled, or running, has read the file; except that
\* nobody looks again after an opening that was overtaken by an edit.
HiddenEditsAreSeen ==
  \A f \in open \ Heap :
    \/ doc[f].sig # Stat(f) \/ disk[f].text \in {None, doc[f].content}
    \/ slipped[f] \/ f \in events \cup sync.todo
    \/ sync.file = f /\ sync.phase \in {"reading", "read"}

\* While the session lives an open document that is an evaluation target stays
\* open and stays one, whoever opens it at the same time (open_document: the
\* mark only ever rises; the unified close spares it).
TargetsStay ==
  [][\A f \in open : doc[f].target /\ alive' =>
       f \in open' /\ doc'[f].target]_vars

\* In a watched directory an edit of an open file reaches the prover, unless
\* its opening was overtaken.
EditsArrive ==
  \A f \in Files \ Heap :
    <>[](f \in open /\ disk[f].text # None /\ ~slipped[f] => model[f].text = disk[f].text)
=============================================================================
