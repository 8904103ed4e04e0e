------------------------- MODULE DocumentSyncProofs -------------------------
(***************************************************************************)
(* Theorems of DocumentSync, for any files, openings, edits, sessions and  *)
(* any bounds.  What makes the pushed texts arrive is an invariant about   *)
(* the pipe as a whole: of an open file nothing was lost of, the messages  *)
(* on their way lead from the text the server's model has to the content   *)
(* the client committed, each diff from the text it is a diff of.  The     *)
(* operators of the pipe come first, for any sequence of messages.         *)
(***************************************************************************)
EXTENDS DocumentSync, DataLemmas, SequenceTheorems

-----------------------------------------------------------------------------
(* The invariants.                                                         *)

Owners == {"none", "client", "disk"}
Models == [owner : Owners, text : Text \cup {Garbled}]

\* The signatures of editors leave room for the guard's rewrite.
DiskOK == \A f \in Files : disk[f].sig # None /\ (disk[f].glyphs => disk[f].sig <= MaxWrites)

\* Only the send that holds the write lock can have written.
HeadWrites == \A i \in DOMAIN queue : queue[i].written => i = 1

\* The pipe leads from the model M to TEXT: after the last whole text about F
\* there are but diffs, each of the text it meets, and without a whole text the
\* model is the client's.
Leads(pipe, m, f, text) ==
  /\ \A k \in About(pipe, f) :
       \/ Whole(pipe[k])
       \/ \E j \in About(pipe, f) : j > k /\ Whole(pipe[j])
       \/ pipe[k].kind = "change" /\ Meets(pipe, m.text, f, k, pipe[k].base)
  /\ Meets(pipe, m.text, f, Len(pipe) + 1, text)
  /\ (\A k \in About(pipe, f) : ~Whole(pipe[k])) => m.owner = "client"

Arriving == \A f \in open : lost[f] \/ Leads(Pipe, model[f], f, doc[f].content)

\* In one session the directory stays watched.
OneSession == alive /\ watch /\ starts \in Nat \ {0}

\* What a sync has read is what the disk has, unless its event is there.
ReadIsCurrent ==
  /\ sync.phase \in {"read", "sending"} =>
       disk[sync.file].text \in {None, sync.text} \/ sync.file \in events
  /\ sync.phase = "sending" => doc[sync.file].content = sync.text

\* The file of a sink, until its text is sent.
Sinking ==
  IF sync.entry THEN {}
  ELSE sync.todo \cup (IF sync.phase \in {"reading", "read", "sending"} THEN {sync.file} ELSE {})
OneSink ==
  /\ \A f, g \in Sinking : f = g
  /\ sync.phase = "listed" => sync.entry
  /\ sync.phase \in {"idle", "closing"} => sync.todo = {}

\* An edit that a signature hides has an event or a sink; a tool call's own
\* look at the files, which may be cancelled, is not counted on.
Hidden(f) == doc[f].sig = Stat(f) /\ disk[f].text \notin {None, doc[f].content} /\ ~slipped[f]
Seen == \A f \in open \ Heap : Hidden(f) => f \in events \cup Sinking
-----------------------------------------------------------------------------
(* Who changes what.                                                       *)

LEMMA EditingWriters ==
  ASSUME [Next]_vars
  PROVE  \/ UNCHANGED editing
         \/ \E f \in Files : DiskWritten(f) \/ SinkStarts(f) \/ SinkFindsNoProcess(f)
         \/ \E o \in Openers : OpenReads(o) \/ OpenSent(o)
         \/ SyncReads \/ CloseSent \/ Terminate
BY DEF Next, OpenProgress, Holding, vars, editing, client, wire, session, history, OpenAgain, CloseStarts,
   ServerFollows, OpenStarts, OpenFailsToRead, OpenResumes, OpenRegisters, OpenCut, EntryStarts,
   EntryCancelled, SyncCut, CloseCut, EntryStats, SyncEnds, SyncFailsToRead, SyncRefuses, SyncSettles,
   SyncCommits, SyncSent, SyncChooses, Write, ServerReads, RejectionRead, Launch

LEMMA DocWriters ==
  ASSUME [Next]_vars
  PROVE  \/ UNCHANGED <<open, doc>>
         \/ \E f \in Files : OpenAgain(f) \/ CloseStarts(f)
         \/ \E o \in Openers : OpenResumes(o) \/ OpenRegisters(o)
         \/ SyncFailsToRead \/ SyncSettles \/ SyncCommits \/ SyncSent \/ RejectionRead \/ Terminate
BY DEF Next, OpenProgress, Holding, vars, editing, client, wire, session, history, DiskWritten,
   ServerFollows, OpenStarts, OpenReads, OpenFailsToRead, OpenSent, OpenCut, EntryStarts, SinkStarts,
   SinkFindsNoProcess, EntryCancelled, SyncCut, CloseCut, CloseSent, EntryStats, SyncEnds, SyncReads, SyncRefuses,
   SyncChooses, Write, ServerReads, Launch

LEMMA SyncWriters ==
  ASSUME [Next]_vars
  PROVE  \/ UNCHANGED sync
         \/ \E f \in Files : CloseStarts(f) \/ SinkStarts(f) \/ SyncChooses(f)
         \/ EntryStarts \/ EntryCancelled \/ SyncCut \/ CloseCut \/ Holding
BY DEF Next, OpenProgress, vars, editing, client, wire, session, history, DiskWritten, OpenAgain,
   ServerFollows, OpenStarts, OpenReads, OpenFailsToRead, OpenResumes, OpenRegisters, OpenSent, OpenCut,
   SinkFindsNoProcess, Write, ServerReads, RejectionRead, Terminate, Launch

LEMMA OpenerWriters ==
  ASSUME [Next]_vars
  PROVE  \/ UNCHANGED opener
         \/ \E o \in Openers, f \in Files, target \in BOOLEAN : OpenStarts(o, f, target)
         \/ \E o \in Openers : OpenProgress(o) \/ OpenCut(o)
         \/ Terminate
BY DEF Next, Holding, vars, editing, client, wire, session, history, DiskWritten, OpenAgain, CloseStarts,
   ServerFollows, EntryStarts, SinkStarts, SinkFindsNoProcess, EntryCancelled, SyncCut, CloseCut, CloseSent,
   EntryStats, SyncEnds, SyncReads, SyncFailsToRead, SyncRefuses, SyncSettles, SyncCommits, SyncSent,
   SyncChooses, Write, ServerReads, RejectionRead, Launch

LEMMA QueueWriters ==
  ASSUME [Next]_vars
  PROVE  \/ UNCHANGED <<queue, up, lost>>
         \/ \E f \in Files : CloseStarts(f)
         \/ \E o \in Openers : OpenRegisters(o) \/ OpenSent(o) \/ OpenCut(o)
         \/ SyncCommits \/ SyncSent \/ SyncCut \/ CloseSent \/ CloseCut \/ Write \/ ServerReads \/ Terminate
BY DEF Next, OpenProgress, Holding, vars, editing, client, wire, session, history, DiskWritten, OpenAgain,
   ServerFollows, OpenStarts, OpenReads, OpenFailsToRead, OpenResumes, EntryStarts, SinkStarts,
   SinkFindsNoProcess, EntryCancelled, EntryStats, SyncEnds, SyncReads, SyncFailsToRead, SyncRefuses,
   SyncSettles, SyncChooses, RejectionRead, Launch

LEMMA ModelWriters ==
  ASSUME [Next]_vars
  PROVE  \/ UNCHANGED <<model, rejected>>
         \/ \E f \in Files : ServerFollows(f)
         \/ ServerReads \/ RejectionRead \/ Terminate
BY DEF Next, OpenProgress, Holding, vars, editing, client, wire, session, history, DiskWritten, OpenAgain,
   CloseStarts, OpenStarts, OpenReads, OpenFailsToRead, OpenResumes, OpenRegisters, OpenSent, OpenCut,
   EntryStarts, SinkStarts, SinkFindsNoProcess, EntryCancelled, SyncCut, CloseCut, CloseSent, EntryStats,
   SyncEnds, SyncReads, SyncFailsToRead, SyncRefuses, SyncSettles, SyncCommits, SyncSent, SyncChooses,
   Write, Launch

LEMMA SessionWriters ==
  ASSUME [Next]_vars
  PROVE  \/ UNCHANGED session
         \/ \E o \in Openers, f \in Files, target \in BOOLEAN : OpenStarts(o, f, target)
         \/ Terminate \/ Launch
BY DEF Next, OpenProgress, Holding, vars, editing, client, wire, session, history, DiskWritten, OpenAgain,
   CloseStarts, ServerFollows, OpenReads, OpenFailsToRead, OpenResumes, OpenRegisters, OpenSent, OpenCut,
   EntryStarts, SinkStarts, SinkFindsNoProcess, EntryCancelled, SyncCut, CloseCut, CloseSent, EntryStats,
   SyncEnds, SyncReads, SyncFailsToRead, SyncRefuses, SyncSettles, SyncCommits, SyncSent, SyncChooses,
   Write, ServerReads, RejectionRead

LEMMA SlippedWriters ==
  ASSUME [Next]_vars
  PROVE  \/ UNCHANGED slipped
         \/ \E o \in Openers : OpenRegisters(o)
         \/ SyncSettles \/ SyncCommits
BY DEF Next, OpenProgress, Holding, vars, editing, client, wire, session, history, DiskWritten, OpenAgain,
   CloseStarts, ServerFollows, OpenStarts, OpenReads, OpenFailsToRead, OpenResumes, OpenSent, OpenCut,
   EntryStarts, SinkStarts, SinkFindsNoProcess, EntryCancelled, SyncCut, CloseCut, CloseSent, EntryStats,
   SyncEnds, SyncReads, SyncFailsToRead, SyncRefuses, SyncSent, SyncChooses,
   Write, ServerReads, RejectionRead, Terminate, Launch

-----------------------------------------------------------------------------
(* Types, one group of variables at a time.                                *)

Docs == [content : Text, sig : Text, full : BOOLEAN, target : BOOLEAN]
SyncPhases == {"idle", "listed", "choosing", "reading", "read", "sending", "closing"}
Syncs == [phase : SyncPhases, entry : BOOLEAN, todo : SUBSET Files, file : Files, text : Text]
Opening == [phase : {"idle", "reading", "read", "sending"}, file : Files, text : Text,
            target : BOOLEAN]
Sends == [by : Openers \cup {"holder"}, message : Message, written : BOOLEAN]

DiskTyped ==
  /\ disk \in [Files -> [text : Text, sig : Text, glyphs : BOOLEAN]]
  /\ watch \in BOOLEAN /\ events \subseteq Files
  /\ DiskOK
DocTyped == open \subseteq Files /\ doc \in [Files -> Docs]
SyncTyped == sync \in Syncs /\ (sync.phase \in {"reading", "read", "sending"} => sync.file \in open)
OpenerTyped == opener \in [Openers -> Opening]
QueueTyped == queue \in Seq(Sends) /\ up \in Seq(Message) /\ lost \in [Files -> BOOLEAN]
ModelTyped == model \in [Files -> Models] /\ rejected \in Nat
RestTyped == alive \in BOOLEAN /\ {starts, opens} \subseteq Nat /\ slipped \in [Files -> BOOLEAN]

Typed == /\ DiskTyped /\ DocTyped /\ SyncTyped /\ OpenerTyped /\ QueueTyped /\ ModelTyped /\ RestTyped

LEMMA TypesSplit == TypeOK /\ DiskOK <=> Typed
BY DEF TypeOK, Typed, DiskTyped, DocTyped, SyncTyped, OpenerTyped, QueueTyped, ModelTyped, RestTyped,
   Docs, SyncPhases, Syncs, Opening, Sends, Models, Owners

LEMMA Bounds ==
  /\ MaxWrites \in Nat /\ MaxOpens \in Nat /\ MaxStarts \in Nat /\ MaxPipe \in Nat
  /\ Glyphs \subseteq BOOLEAN /\ Heap \subseteq Files /\ "holder" \notin Openers
  /\ AnyFile \in Files /\ Kept \in BOOLEAN /\ CutsBeforeBytes \in BOOLEAN
BY FilesGiven, OpenersGiven, BoundsGiven, SwitchesGiven
   DEF FilesGiven, OpenersGiven, BoundsGiven, SwitchesGiven, AnyFile

LEMMA TextIs == None \in Text /\ 1 \in Text /\ Text \subseteq Nat /\ \A n \in Nat : n <= MaxWrites => n + 1 \in Text
BY Bounds DEF None, Text

LEMMA StatIs == ASSUME Typed, NEW f \in Files PROVE Stat(f) \in Text
BY TextIs DEF Typed, DiskTyped, Stat

LEMMA InitTyped == Init => Typed
<1> SUFFICES ASSUME Init PROVE Typed OBVIOUS
<1> USE Bounds, TextIs
<1>1. RestTyped BY DEF Init, RestTyped
<1>6. DiskTyped
  <2>1. watch \in BOOLEAN /\ events = {} /\ disk = [f \in Files |-> [text |-> 1, sig |-> 1, glyphs |-> FALSE]]
    BY DEF Init
  <2>2. DiskOK BY <2>1 DEF DiskOK, None
  <2> QED BY <2>1, <2>2 DEF DiskTyped
<1>2. DocTyped BY DEF Init, DocTyped, Docs, NoDoc
<1>3. SyncTyped BY DEF Init, SyncTyped, Syncs, SyncPhases, Idle
<1>4. OpenerTyped BY DEF Init, OpenerTyped, Opening, Resting
<1>5. QueueTyped /\ ModelTyped BY DEF Init, QueueTyped, ModelTyped, Models, Owners, NoModel
<1> QED BY <1>1, <1>2, <1>3, <1>4, <1>5, <1>6 DEF Typed

\* A write makes the file's next signature.
LEMMA WrittenTyped ==
  ASSUME Typed, NEW f \in Files, NEW text \in Text, NEW glyphs \in BOOLEAN, Written(f, text, glyphs),
         disk[f].sig <= MaxWrites, glyphs => disk[f].sig + 1 <= MaxWrites
  PROVE  DiskTyped'
<1> DEFINE new == [text |-> text, sig |-> disk[f].sig + 1, glyphs |-> glyphs]
<1>1. disk' = [disk EXCEPT ![f] = new] /\ events' \subseteq Files /\ watch' \in BOOLEAN
  BY DEF Typed, DiskTyped, Written
<1>2. new.sig \in Text /\ new.sig # None
  <2>1. disk[f].sig \in Nat BY TextIs DEF Typed, DiskTyped
  <2> QED BY <2>1, TextIs DEF None
<1> QED BY <1>1, <1>2 DEF Typed, DiskTyped, DiskOK

LEMMA ReadTyped ==
  ASSUME Typed, NEW f \in Files, NEW text \in Text, SanitizedRead(f, text)
  PROVE  DiskTyped'
<1>1. CASE PlainRead(f, text) BY <1>1 DEF PlainRead, Typed, DiskTyped, DiskOK, editing
<1>2. CASE disk[f].glyphs /\ text = disk[f].sig + 1 /\ Written(f, text, FALSE)
  <2>1. disk[f].sig <= MaxWrites BY <1>2 DEF Typed, DiskTyped, DiskOK
  <2> QED BY <1>2, <2>1, WrittenTyped
<1> QED BY <1>1, <1>2 DEF SanitizedRead

LEMMA DiskKept == ASSUME Typed, [Next]_vars PROVE DiskTyped'
<1>1. CASE UNCHANGED editing BY <1>1 DEF editing, Typed, DiskTyped, DiskOK
<1>2. ASSUME NEW f \in Files, DiskWritten(f) PROVE DiskTyped'
  <2>1. /\ disk[f] \in [text : Text, sig : Text, glyphs : BOOLEAN] /\ disk[f].sig < MaxWrites
        /\ disk[f].sig \in Nat
    BY <1>2, TextIs DEF DiskWritten, Typed, DiskTyped
  <2>2. disk[f].sig <= MaxWrites /\ disk[f].sig + 1 <= MaxWrites /\ disk[f].sig + 1 \in Text
    BY <2>1, Bounds, TextIs
  <2>3. PICK text \in Text, glyphs \in BOOLEAN : Written(f, text, glyphs)
    BY <1>2, <2>1, <2>2, TextIs, Bounds DEF DiskWritten
  <2> QED BY <2>2, <2>3, WrittenTyped
<1>3. ASSUME NEW f \in Files, SinkStarts(f) \/ SinkFindsNoProcess(f) PROVE DiskTyped'
  BY <1>3 DEF SinkStarts, SinkFindsNoProcess, Typed, DiskTyped, DiskOK
<1>4. ASSUME NEW o \in Openers, OpenReads(o) PROVE DiskTyped'
  <2>1. opener[o].file \in Files BY DEF Typed, OpenerTyped, Opening
  <2> QED BY <1>4, <2>1, ReadTyped DEF OpenReads
<1>5. ASSUME NEW o \in Openers, OpenSent(o) PROVE DiskTyped'
  BY <1>5 DEF OpenSent, Typed, DiskTyped, DiskOK
<1>6. CASE SyncReads
  <2>1. sync.file \in Files BY DEF Typed, SyncTyped, Syncs
  <2> QED BY <1>6, <2>1, ReadTyped DEF SyncReads, SanitizedRead
<1>7. CASE CloseSent BY <1>7, SwitchesGiven DEF CloseSent, Typed, DiskTyped, DiskOK, SwitchesGiven
<1>8. CASE Terminate BY <1>8 DEF Terminate, Typed, DiskTyped, DiskOK
<1> QED BY <1>1, <1>2, <1>3, <1>4, <1>5, <1>6, <1>7, <1>8, EditingWriters

LEMMA RestKept == ASSUME Typed, [Next]_vars PROVE RestTyped'
<1>0. starts \in Nat /\ opens \in Nat /\ alive \in BOOLEAN BY DEF Typed, RestTyped
<1>1. starts' \in Nat /\ opens' \in Nat /\ alive' \in BOOLEAN
  <2>1. CASE UNCHANGED session BY <1>0, <2>1 DEF session
  <2>2. ASSUME NEW o \in Openers, NEW f \in Files, NEW target \in BOOLEAN, OpenStarts(o, f, target)
        PROVE  starts' \in Nat /\ opens' \in Nat /\ alive' \in BOOLEAN
    BY <1>0, <2>2 DEF OpenStarts
  <2>3. CASE Terminate BY <1>0, <2>3 DEF Terminate
  <2>4. CASE Launch BY <1>0, <2>4 DEF Launch
  <2> QED BY <2>1, <2>2, <2>3, <2>4, SessionWriters
<1>2. slipped' \in [Files -> BOOLEAN]
  <2>1. ASSUME NEW o \in Openers, OpenRegisters(o) PROVE slipped' \in [Files -> BOOLEAN]
    BY <2>1 DEF OpenRegisters, Typed, RestTyped
  <2>2. CASE SyncSettles \/ SyncCommits BY <2>2 DEF SyncSettles, SyncCommits, Typed, RestTyped
  <2> QED BY <2>1, <2>2, SlippedWriters DEF Typed, RestTyped
<1> QED BY <1>1, <1>2 DEF RestTyped

LEMMA ModelKept == ASSUME Typed, [Next]_vars PROVE ModelTyped'
<1> model \in [Files -> Models] /\ rejected \in Nat BY DEF Typed, ModelTyped
<1>1. ASSUME NEW f \in Files, ServerFollows(f) PROVE ModelTyped'
  <2>1. disk[f].text \in Text BY DEF Typed, DiskTyped
  <2> QED BY <1>1, <2>1 DEF ServerFollows, ModelTyped, Models
<1>2. CASE ServerReads
  <2>1. up # <<>> /\ up \in Seq(Message) /\ Head(up) \in Message BY <1>2, Shifted DEF ServerReads, Typed, QueueTyped
  <2>2. Head(up).file \in Files BY <2>1 DEF Message
  <2>3. PICK owner \in Owners, text \in Text \cup {Garbled} :
          /\ Read(Head(up), owner, text)
          /\ model' = [model EXCEPT ![Head(up).file] = [owner |-> owner, text |-> text]]
    BY <1>2 DEF ServerReads, Owners
  <2>4. rejected' \in Nat BY <2>3 DEF Read
  <2> QED BY <2>2, <2>3, <2>4 DEF ModelTyped, Models
<1>3. CASE RejectionRead
  <2>1. rejected > 0 /\ rejected' = rejected - 1 /\ model' = model BY <1>3 DEF RejectionRead
  <2>2. rejected' \in Nat BY <2>1
  <2> QED BY <2>1, <2>2 DEF ModelTyped
<1>4. CASE Terminate
  <2>1. NoModel \in Models BY TextIs DEF NoModel, Models, Owners
  <2> QED BY <1>4, <2>1 DEF Terminate, ModelTyped
<1> QED BY <1>1, <1>2, <1>3, <1>4, ModelWriters DEF ModelTyped

LEMMA OpenerKept == ASSUME Typed, [Next]_vars PROVE OpenerTyped'
<1> opener \in [Openers -> Opening] BY DEF Typed, OpenerTyped
<1>0. Resting \in Opening BY Bounds, TextIs DEF Resting, Opening
<1>1. ASSUME NEW o \in Openers, NEW f \in Files, NEW target \in BOOLEAN, OpenStarts(o, f, target)
      PROVE  OpenerTyped'
  BY <1>1, TextIs DEF OpenStarts, OpenerTyped, Opening
<1>2. ASSUME NEW o \in Openers, OpenReads(o) PROVE OpenerTyped'
  <2>1. PICK text \in Text : opener' = [opener EXCEPT ![o].phase = "read", ![o].text = text]
    BY <1>2 DEF OpenReads
  <2>2. opener' = [opener EXCEPT ![o] = [opener[o] EXCEPT !.phase = "read", !.text = text]] BY <2>1
  <2>3. [opener[o] EXCEPT !.phase = "read", !.text = text] \in Opening BY DEF Opening
  <2> QED BY <2>2, <2>3 DEF OpenerTyped
<1>3. ASSUME NEW o \in Openers, OpenRegisters(o) PROVE OpenerTyped'
  <2>1. [opener[o] EXCEPT !.phase = "sending"] \in Opening BY DEF Opening
  <2>2. \/ opener' = [opener EXCEPT ![o] = Resting]
        \/ opener' = [opener EXCEPT ![o] = [opener[o] EXCEPT !.phase = "sending"]]
    BY <1>3 DEF OpenRegisters
  <2> QED BY <1>0, <2>1, <2>2 DEF OpenerTyped
<1>4. ASSUME NEW o \in Openers, OpenFailsToRead(o) \/ OpenResumes(o) \/ OpenSent(o) \/ OpenCut(o)
      PROVE  OpenerTyped'
  <2>1. opener' = [opener EXCEPT ![o] = Resting] BY <1>4 DEF OpenFailsToRead, OpenResumes, OpenSent, OpenCut
  <2> QED BY <1>0, <2>1 DEF OpenerTyped
<1>5. CASE Terminate BY <1>0, <1>5 DEF Terminate, OpenerTyped
<1> QED BY <1>1, <1>2, <1>3, <1>4, <1>5, OpenerWriters DEF OpenProgress, OpenerTyped

LEMMA DocKept == ASSUME Typed, [Next]_vars PROVE DocTyped'
<1> open \subseteq Files /\ doc \in [Files -> Docs] BY DEF Typed, DocTyped
<1>0. NoDoc \in Docs /\ sync.file \in Files /\ sync.text \in Text
  BY TextIs DEF NoDoc, Docs, Typed, SyncTyped, Syncs
<1>1. ASSUME NEW f \in Files, Marked(f), open' = open PROVE DocTyped'
  <2>1. doc' = [doc EXCEPT ![f] = [doc[f] EXCEPT !.target = TRUE]] BY <1>1 DEF Marked
  <2>2. [doc[f] EXCEPT !.target = TRUE] \in Docs BY DEF Docs
  <2> QED BY <1>1, <2>1, <2>2 DEF DocTyped
<1>2. ASSUME NEW f \in Files, OpenAgain(f) \/ CloseStarts(f) PROVE DocTyped'
  BY <1>0, <1>1, <1>2 DEF OpenAgain, CloseStarts, DocTyped
<1>3. ASSUME NEW o \in Openers, OpenResumes(o) PROVE DocTyped'
  <2>1. opener[o].file \in Files BY DEF Typed, OpenerTyped, Opening
  <2> QED BY <1>1, <1>3, <2>1 DEF OpenResumes, DocTyped
<1>4. ASSUME NEW o \in Openers, OpenRegisters(o) PROVE DocTyped'
  <2>1. opener[o].file \in Files /\ opener[o].text \in Text /\ opener[o].target \in BOOLEAN
    BY DEF Typed, OpenerTyped, Opening
  <2>2. [content |-> opener[o].text, sig |-> Stat(opener[o].file), full |-> FALSE,
         target |-> opener[o].target] \in Docs
    BY <2>1, StatIs DEF Docs
  <2> QED BY <1>4, <2>1, <2>2 DEF OpenRegisters, DocTyped
<1>5. CASE SyncFailsToRead \/ SyncSettles \/ SyncCommits \/ SyncSent
  <2> DEFINE d == doc[sync.file]
  <2>1. Stat(sync.file) \in Text BY <1>0, StatIs
  <2>2. PICK new \in {[d EXCEPT !.sig = None], [d EXCEPT !.sig = Stat(sync.file)],
                      [d EXCEPT !.content = sync.text],
                      [d EXCEPT !.full = FALSE, !.sig = Stat(sync.file)]} :
          open' = open /\ doc' = [doc EXCEPT ![sync.file] = new]
    BY <1>5 DEF SyncFailsToRead, SyncSettles, SyncCommits, SyncSent
  <2>3. d \in Docs BY <1>0
  <2>4. new \in Docs BY <1>0, <2>1, <2>3, TextIs DEF Docs
  <2> QED BY <1>0, <2>2, <2>4 DEF DocTyped
<1>6. CASE RejectionRead
  <2>1. \A f \in Files : [doc[f] EXCEPT !.sig = None, !.full = TRUE] \in Docs BY TextIs DEF Docs
  <2> QED BY <1>6, <2>1 DEF RejectionRead, DocTyped
<1>7. CASE Terminate BY <1>0, <1>7 DEF Terminate, DocTyped
<1> QED BY <1>2, <1>3, <1>4, <1>5, <1>6, <1>7, DocWriters DEF DocTyped

LEMMA SyncKept == ASSUME Typed, [Next]_vars PROVE SyncTyped'
<1> DEFINE Out == SyncPhases \ {"reading", "read", "sending"}
<1>0. /\ sync \in Syncs /\ (sync.phase \in {"reading", "read", "sending"} => sync.file \in open)
      /\ open \subseteq Files /\ events \subseteq Files
  BY DEF Typed, SyncTyped, DocTyped, DiskTyped
<1>1. \* Outside the three phases the file does not matter.
      ASSUME NEW s \in Syncs, s.phase \in Out, sync' = s PROVE SyncTyped'
  BY <1>1 DEF SyncTyped, SyncPhases
<1>2. Idle \in Syncs /\ Idle.phase \in Out
      /\ \A todo \in SUBSET Files, p \in Out, e \in BOOLEAN :
           LET s == [Idle EXCEPT !.phase = p, !.entry = e, !.todo = todo] IN s \in Syncs /\ s.phase \in Out
  BY Bounds, TextIs DEF Idle, Syncs, SyncPhases
<1>3. Onward \in Syncs /\ Onward.phase \in Out BY <1>0, Bounds, TextIs DEF Onward, Syncs, SyncPhases
<1>4. ASSUME UNCHANGED sync PROVE SyncTyped'
  <2>1. CASE UNCHANGED <<open, doc>> BY <1>4, <2>1 DEF Typed, SyncTyped
  <2>2. ASSUME NEW f \in Files, OpenAgain(f) \/ CloseStarts(f) PROVE SyncTyped'
    <3>1. CASE OpenAgain(f) BY <1>4, <3>1 DEF OpenAgain, Typed, SyncTyped
    <3>2. CASE CloseStarts(f) BY <1>0, <1>4, <3>2 DEF CloseStarts, SyncTyped
    <3> QED BY <2>2, <3>1, <3>2
  <2>3. ASSUME NEW o \in Openers, OpenResumes(o) \/ OpenRegisters(o) PROVE SyncTyped'
    <3>1. open \subseteq open' BY <2>3 DEF OpenResumes, OpenRegisters, Marked
    <3> QED BY <1>0, <1>4, <3>1 DEF SyncTyped
  <2>4. CASE SyncFailsToRead \/ SyncSettles \/ SyncCommits \/ SyncSent \/ RejectionRead
    <3>1. open' = open
      BY <2>4 DEF SyncFailsToRead, SyncSettles, SyncCommits, SyncSent, RejectionRead
    <3> QED BY <1>0, <1>4, <3>1 DEF SyncTyped
  <2>5. CASE Terminate BY <1>0, <1>4, <2>5 DEF Terminate, SyncTyped
  <2> QED BY <2>1, <2>2, <2>3, <2>4, <2>5, DocWriters
<1>5. ASSUME NEW f \in Files, CloseStarts(f) \/ SinkStarts(f) PROVE SyncTyped'
  <2>1. \E todo \in SUBSET Files, p \in Out :
          sync' = [Idle EXCEPT !.phase = p, !.todo = todo]
    <3>1. CASE CloseStarts(f)
      <4>1. Idle.todo = {} BY DEF Idle
      <4>2. sync' = [Idle EXCEPT !.phase = "closing", !.todo = {}] BY <3>1, <4>1 DEF CloseStarts, Idle
      <4> QED BY <4>2 DEF SyncPhases
    <3>2. CASE SinkStarts(f) BY <3>2 DEF SinkStarts, SyncPhases
    <3> QED BY <1>5, <3>1, <3>2
  <2>2. PICK todo \in SUBSET Files, p \in Out : sync' = [Idle EXCEPT !.phase = p, !.todo = todo] BY <2>1
  <2>3. [Idle EXCEPT !.phase = p, !.todo = todo] \in Syncs BY Bounds, TextIs DEF Idle, Syncs, SyncPhases
  <2>4. [Idle EXCEPT !.phase = p, !.todo = todo].phase = p BY DEF Idle
  <2> QED BY <1>1, <2>2, <2>3, <2>4
<1>6. ASSUME NEW f \in Files, SyncChooses(f) PROVE SyncTyped'
  <2>1. CASE f \in open
    <3> DEFINE s == [sync EXCEPT !.phase = "reading", !.todo = sync.todo \ {f}, !.file = f]
    <3>1. sync' = s /\ open' = open BY <1>6, <2>1 DEF SyncChooses
    <3>2. s \in Syncs /\ s.file = f BY <1>0 DEF Syncs, SyncPhases
    <3> QED BY <2>1, <3>1, <3>2 DEF SyncTyped
  <2>2. CASE f \notin open
    <3> DEFINE s == [sync EXCEPT !.todo = sync.todo \ {f}]
    <3>1. sync' = s /\ sync.phase = "choosing" BY <1>6, <2>2 DEF SyncChooses
    <3>2. s \in Syncs /\ s.phase = "choosing" BY <1>0, <3>1 DEF Syncs
    <3> QED BY <1>1, <3>1, <3>2 DEF SyncPhases
  <2> QED BY <2>1, <2>2
<1>7. CASE EntryStarts
  <2>1. sync' = [Idle EXCEPT !.phase = "listed", !.entry = TRUE, !.todo = open] BY <1>7 DEF EntryStarts
  <2> QED BY <1>0, <1>1, <1>2, <2>1 DEF SyncPhases
<1>8. CASE EntryCancelled \/ SyncCut \/ CloseCut \/ SyncEnds \/ SyncRefuses \/ CloseSent
  <2>1. sync' = Idle BY <1>8 DEF EntryCancelled, SyncCut, CloseCut, SyncEnds, SyncRefuses, CloseSent
  <2> QED BY <1>1, <1>2, <2>1
<1>9. CASE SyncFailsToRead \/ SyncSettles \/ SyncSent
  <2>1. sync' = Onward BY <1>9 DEF SyncFailsToRead, SyncSettles, SyncSent
  <2> QED BY <1>1, <1>3, <2>1
<1>10. CASE EntryStats
  <2> DEFINE T == {f \in sync.todo \cap open : doc[f].sig # Stat(f)}
             s == [sync EXCEPT !.phase = "choosing", !.todo = T]
  <2>1. sync' = s BY <1>10 DEF EntryStats
  <2>2. T \subseteq Files BY <1>0
  <2> HIDE DEF T
  <2>3. s \in Syncs /\ s.phase \in Out BY <1>0, <2>2 DEF Syncs, SyncPhases
  <2> QED BY <1>1, <2>1, <2>3
<1>11. CASE SyncReads
  <2>1. PICK text \in Text : sync' = [sync EXCEPT !.phase = "read", !.text = text] BY <1>11 DEF SyncReads
  <2>2. open' = open /\ sync.phase = "reading" BY <1>11 DEF SyncReads
  <2>3. sync' \in Syncs /\ sync'.file = sync.file BY <1>0, <2>1 DEF Syncs, SyncPhases
  <2> QED BY <1>0, <2>2, <2>3 DEF SyncTyped
<1>12. CASE SyncCommits
  <2>1. open' = open /\ sync.phase = "read"
        /\ (sync' = Idle \/ sync' = [sync EXCEPT !.phase = "sending"])
    BY <1>12 DEF SyncCommits
  <2>2. CASE sync' = Idle BY <1>1, <1>2, <2>2
  <2>3. CASE sync' = [sync EXCEPT !.phase = "sending"]
    <3>1. sync' \in Syncs /\ sync'.file = sync.file BY <1>0, <2>3 DEF Syncs, SyncPhases
    <3> QED BY <1>0, <2>1, <3>1 DEF SyncTyped
  <2> QED BY <2>1, <2>2, <2>3
<1> QED BY <1>4, <1>5, <1>6, <1>7, <1>8, <1>9, <1>10, <1>11, <1>12, SyncWriters DEF Holding

\* A message and its place in the queue.
LEMMA EnqueuedTyped ==
  ASSUME Typed, NEW by \in Openers \cup {"holder"}, NEW m \in Message, Enqueued(by, m)
  PROVE  queue' \in Seq(Sends) /\ lost' \in [Files -> BOOLEAN]
<1> DEFINE e == [by |-> by, message |-> m, written |-> FALSE]
<1>1. e \in Sends BY DEF Sends
<1>2. m.file \in Files BY DEF Message
<1>3. queue' = Append(queue, e) BY DEF Enqueued
<1> QED BY <1>1, <1>2, <1>3 DEF Enqueued, Typed, QueueTyped

LEMMA RemovedIs ==
  ASSUME NEW S, NEW q \in Seq(S), NEW i \in 1 .. Len(q)
  PROVE  /\ RemoveAt(q, i) \in Seq(S) /\ Len(RemoveAt(q, i)) = Len(q) - 1
         /\ \A k \in 1 .. Len(q) - 1 : RemoveAt(q, i)[k] = IF k < i THEN q[k] ELSE q[k + 1]
<1> DEFINE a == SubSeq(q, 1, i - 1)
           b == SubSeq(q, i + 1, Len(q))
<1>1. Len(q) \in Nat /\ i - 1 \in 0 .. Len(q) /\ i + 1 \in 2 .. Len(q) + 1 OBVIOUS
<1>2. a \in Seq(S) /\ Len(a) = i - 1 /\ \A k \in 1 .. i - 1 : a[k] = q[k] BY <1>1
<1>3. b \in Seq(S) /\ Len(b) = Len(q) - i /\ \A k \in 1 .. Len(q) - i : b[k] = q[k + i] BY <1>1
<1> HIDE DEF a, b
<1>4. /\ a \o b \in Seq(S) /\ Len(a \o b) = Len(a) + Len(b)
      /\ \A k \in 1 .. Len(a) : (a \o b)[k] = a[k]
      /\ \A k \in Len(a) + 1 .. Len(a) + Len(b) : (a \o b)[k] = b[k - Len(a)]
  <2>1. a \in Seq(S) /\ b \in Seq(S) BY <1>2, <1>3
  <2> HIDE DEF a, b
  <2> QED BY <2>1, Joined, Zenon
<1>5. ASSUME NEW k \in 1 .. Len(q) - 1 PROVE (a \o b)[k] = IF k < i THEN q[k] ELSE q[k + 1]
  <2>1. CASE k < i BY <1>1, <1>2, <1>4, <2>1
  <2>2. CASE ~(k < i)
    <3>1. k - (i - 1) \in 1 .. Len(q) - i /\ k \in i .. (i - 1) + (Len(q) - i) BY <1>1, <2>2
    <3>2. (a \o b)[k] = b[k - (i - 1)] BY <1>2, <1>3, <1>4, <3>1
    <3>3. (k - (i - 1)) + i = k + 1 BY <1>1
    <3> QED BY <1>3, <2>2, <3>1, <3>2, <3>3
  <2> QED BY <2>1, <2>2
<1>6. RemoveAt(q, i) = a \o b BY DEF RemoveAt, a, b
<1>7. Len(a \o b) = Len(q) - 1 BY <1>1, <1>2, <1>3, <1>4
<1> HIDE DEF a, b
<1> QED BY <1>4, <1>5, <1>6, <1>7

LEMMA PushTyped ==
  ASSUME Typed, NEW f \in Files PROVE Push(f) \in Message /\ Push(f).file = f
<1>1. sync.text \in Text /\ doc[f].content \in Text BY DEF Typed, SyncTyped, Syncs, DocTyped, Docs
<1> QED BY <1>1 DEF Push, Message

LEMMA QueueKept == ASSUME Typed, [Next]_vars PROVE QueueTyped'
<1>0. queue \in Seq(Sends) /\ up \in Seq(Message) /\ lost \in [Files -> BOOLEAN]
  BY DEF Typed, QueueTyped
<1>1. ASSUME NEW f \in Files, CloseStarts(f) PROVE QueueTyped'
  <2>1. [kind |-> "close", file |-> f] \in Message BY DEF Message
  <2> QED BY <1>0, <1>1, <2>1, EnqueuedTyped DEF CloseStarts, QueueTyped, wire
<1>2. ASSUME NEW o \in Openers, OpenRegisters(o) PROVE QueueTyped'
  <2>1. opener[o].file \in Files /\ opener[o].text \in Text BY DEF Typed, OpenerTyped, Opening
  <2>2. [kind |-> "open", file |-> opener[o].file, text |-> opener[o].text] \in Message
    BY <2>1 DEF Message
  <2> QED BY <1>0, <1>2, <2>1, <2>2, EnqueuedTyped DEF OpenRegisters, QueueTyped, wire
<1>3. ASSUME NEW by, Drained(by), UNCHANGED <<wire, lost>> PROVE QueueTyped'
  BY <1>0, <1>3, Shifted DEF Drained, QueueTyped, wire
<1>4. ASSUME NEW by, Cut(by), UNCHANGED wire PROVE QueueTyped'
  <2>1. PICK i \in DOMAIN queue :
          /\ queue' = RemoveAt(queue, i)
          /\ lost' = lost \/ lost' = [lost EXCEPT ![queue[i].message.file] = TRUE]
    BY <1>4 DEF Cut
  <2>2. i \in 1 .. Len(queue) BY <1>0
  <2>3. queue' \in Seq(Sends) BY <1>0, <2>1, <2>2, RemovedIs
  <2> QED BY <1>0, <1>4, <2>1, <2>3 DEF QueueTyped, wire
<1>5. CASE SyncCommits
  <2>1. sync.file \in Files BY DEF Typed, SyncTyped, Syncs
  <2> QED BY <1>0, <1>5, <2>1, PushTyped, EnqueuedTyped DEF SyncCommits, QueueTyped, wire
<1>6. CASE Write
  <2>1. queue # <<>> /\ Head(queue) \in Sends /\ Head(queue) = queue[1] /\ 1 \in DOMAIN queue
    BY <1>0, <1>6, Shifted DEF Write
  <2>2. Head(queue).message \in Message BY <2>1 DEF Sends
  <2>3. up' \in Seq(Message) /\ lost' = lost BY <1>0, <1>6, <2>2, Appended DEF Write, history
  <2>4. queue' = [queue EXCEPT ![1] = [queue[1] EXCEPT !.written = TRUE]] BY <1>6 DEF Write
  <2>5. [queue[1] EXCEPT !.written = TRUE] \in Sends BY <2>1 DEF Sends
  <2>6. queue' \in Seq(Sends) BY <1>0, <2>1, <2>4, <2>5
  <2> QED BY <1>0, <2>3, <2>6 DEF QueueTyped
<1>7. CASE ServerReads BY <1>0, <1>7, Shifted DEF ServerReads, QueueTyped, client, history
<1>8. CASE Terminate BY <1>0, <1>8 DEF Terminate, QueueTyped, history
<1>9. CASE UNCHANGED <<queue, up, lost>> BY <1>0, <1>9 DEF QueueTyped
<1> QED BY <1>1, <1>2, <1>3, <1>4, <1>5, <1>6, <1>7, <1>8, <1>9, QueueWriters
    DEF OpenSent, OpenCut, SyncSent, SyncCut, CloseSent, CloseCut, history

LEMMA StepTyped == Typed /\ [Next]_vars => Typed'
BY DiskKept, RestKept, ModelKept, OpenerKept, DocKept, SyncKept, QueueKept DEF Typed

\* Every variable keeps its type, and the document under a sync is registered.
THEOREM TypeCorrect == Spec => []TypeOK
<1>1. Init => Typed BY InitTyped
<1>2. Typed /\ [Next]_vars => Typed' BY StepTyped
<1>3. Typed => TypeOK BY TypesSplit
<1> QED BY <1>1, <1>2, <1>3, PTL DEF Spec

\* Whoever opens, syncs or closes meanwhile, a target stays open and a target.
THEOREM TargetsAreKept == Spec => TargetsStay
<1>1. ASSUME Typed, [Next]_vars, NEW f \in open, doc[f].target, alive'
      PROVE  f \in open' /\ doc'[f].target
  <2>0. open \subseteq Files /\ doc \in [Files -> Docs] /\ f \in Files BY <1>1 DEF Typed, DocTyped
  <2>1. CASE UNCHANGED <<open, doc>> BY <1>1, <2>1
  <2>2. ASSUME NEW g \in Files, OpenAgain(g) PROVE f \in open' /\ doc'[f].target
    BY <1>1, <2>0, <2>2 DEF OpenAgain, Marked
  <2>3. ASSUME NEW g \in Files, CloseStarts(g) PROVE f \in open' /\ doc'[f].target
    BY <1>1, <2>0, <2>3 DEF CloseStarts
  <2>4. ASSUME NEW o \in Openers, OpenResumes(o) PROVE f \in open' /\ doc'[f].target
    <3>1. open' = open /\ opener[o].file \in Files BY <1>1, <2>4 DEF OpenResumes, Typed, OpenerTyped, Opening
    <3>2. CASE doc' = doc BY <1>1, <3>1, <3>2
    <3>3. CASE Marked(opener[o].file) BY <1>1, <2>0, <3>1, <3>3 DEF Marked
    <3> QED BY <2>4, <3>2, <3>3 DEF OpenResumes
  <2>5. ASSUME NEW o \in Openers, OpenRegisters(o) PROVE f \in open' /\ doc'[f].target
    <3>1. f # opener[o].file BY <2>5 DEF OpenRegisters, OpenedMeanwhile
    <3> QED BY <1>1, <2>0, <2>5, <3>1 DEF OpenRegisters
  <2>6. CASE SyncFailsToRead \/ SyncSettles \/ SyncCommits \/ SyncSent
    <3>1. open' = open BY <2>6 DEF SyncFailsToRead, SyncSettles, SyncCommits, SyncSent
    <3>2. doc'[f].target = doc[f].target
      BY <2>0, <2>6 DEF SyncFailsToRead, SyncSettles, SyncCommits, SyncSent, Docs
    <3> QED BY <1>1, <3>1, <3>2
  <2>7. CASE RejectionRead
    <3>1. open' = open /\ doc'[f] = [doc[f] EXCEPT !.sig = None, !.full = TRUE]
      BY <2>0, <2>7 DEF RejectionRead
    <3>2. doc[f] \in Docs BY <2>0
    <3> QED BY <1>1, <3>1, <3>2 DEF Docs
  <2>8. CASE Terminate BY <1>1, <2>8 DEF Terminate
  <2> QED BY <1>1, <2>1, <2>2, <2>3, <2>4, <2>5, <2>6, <2>7, <2>8, DocWriters
<1>2. Typed /\ [Next]_vars =>
        [\A f \in open : doc[f].target /\ alive' => f \in open' /\ doc'[f].target]_vars
  BY <1>1
<1>3. Init => Typed BY InitTyped
<1>4. Typed /\ [Next]_vars => Typed' BY StepTyped
<1> QED BY <1>2, <1>3, <1>4, PTL DEF Spec, TargetsStay

-----------------------------------------------------------------------------
(* The pipe, as any sequence of messages.                                  *)

Before(p, f, k) == {j \in About(p, f) : j < k}

\* What is met at L of R is what is met at K of P, if H takes the messages
\* about F before L to those before K, all but some that are not the last.
LEMMA MeetsKept ==
  ASSUME NEW p \in Seq(Message), NEW r \in Seq(Message), NEW f, NEW was, NEW is, NEW text,
         NEW k \in Nat, NEW l \in Nat, NEW h,
         \A a \in Before(r, f, l) : h[a] \in Before(p, f, k) /\ r[a] = p[h[a]],
         \A a, b \in Before(r, f, l) : h[a] <= h[b] => a <= b,
         \A j \in Before(p, f, k) : \E a \in Before(r, f, l) : j <= h[a],
         is = was \/ Before(p, f, k) # {},
         Meets(p, was, f, k, text)
  PROVE  Meets(r, is, f, l, text)
<1>0. About(p, f) \subseteq Nat /\ About(r, f) \subseteq Nat BY DEF About
<1>1. CASE Before(p, f, k) = {} BY <1>1 DEF Meets, Before
<1>2. CASE Before(p, f, k) # {}
  <2>1. PICK j \in Before(p, f, k) :
          (\A i \in Before(p, f, k) : i <= j) /\ p[j].kind # "close" /\ p[j].text = text
    BY <1>2 DEF Meets, Before
  <2>2. PICK a \in Before(r, f, l) : j <= h[a] BY <2>1
  <2>3. h[a] \in Before(p, f, k) /\ h[a] <= j BY <2>1, <2>2
  <2>4. h[a] = j BY <1>0, <2>1, <2>2, <2>3 DEF Before
  <2>5. \A b \in Before(r, f, l) : b <= a
    <3> TAKE b \in Before(r, f, l)
    <3>1. h[b] <= j BY <2>1
    <3> QED BY <2>4, <3>1
  <2>6. r[a].kind # "close" /\ r[a].text = text BY <2>1, <2>2, <2>4
  <2> QED BY <2>2, <2>5, <2>6 DEF Meets, Before
<1> QED BY <1>1, <1>2

\* The messages about F before L are the same in both.
LEMMA MeetsSame ==
  ASSUME NEW p \in Seq(Message), NEW r \in Seq(Message), NEW f, NEW was, NEW text,
         NEW k \in Nat, NEW l \in Nat,
         Before(r, f, l) = Before(p, f, k), \A a \in Before(p, f, k) : r[a] = p[a]
  PROVE  Meets(r, was, f, l, text) <=> Meets(p, was, f, k, text)
<1> DEFINE B == Before(p, f, k)
           h == [a \in B |-> a]
<1>1. \A a \in B : h[a] = a /\ h[a] \in B /\ r[a] = p[h[a]] OBVIOUS
<1>2. \A a \in B : a \in Nat BY DEF Before, About
<1>3. \A a, b \in B : h[a] <= h[b] => a <= b BY <1>1
<1>4. \A j \in B : \E a \in B : j <= h[a] BY <1>1, <1>2
<1>5. Before(r, f, l) = B /\ B = Before(p, f, k) OBVIOUS
<1> HIDE DEF h, B
<1>6. Meets(p, was, f, k, text) => Meets(r, was, f, l, text)
  <2> SUFFICES ASSUME Meets(p, was, f, k, text) PROVE Meets(r, was, f, l, text) OBVIOUS
  <2>1. \A a \in Before(r, f, l) : h[a] \in Before(p, f, k) /\ r[a] = p[h[a]] BY <1>1, <1>5
  <2>2. \A a, b \in Before(r, f, l) : h[a] <= h[b] => a <= b BY <1>3, <1>5
  <2>3. \A j \in Before(p, f, k) : \E a \in Before(r, f, l) : j <= h[a] BY <1>4, <1>5
  <2> QED BY <2>1, <2>2, <2>3, MeetsKept
<1>7. Meets(r, was, f, l, text) => Meets(p, was, f, k, text)
  <2> SUFFICES ASSUME Meets(r, was, f, l, text) PROVE Meets(p, was, f, k, text) OBVIOUS
  <2>1. \A a \in Before(p, f, k) : h[a] \in Before(r, f, l) /\ p[a] = r[h[a]] BY <1>1, <1>5
  <2>2. \A a, b \in Before(p, f, k) : h[a] <= h[b] => a <= b BY <1>3, <1>5
  <2>3. \A j \in Before(r, f, l) : \E a \in Before(p, f, k) : j <= h[a] BY <1>4, <1>5
  <2> QED BY <2>1, <2>2, <2>3, MeetsKept
<1> QED BY <1>6, <1>7

\* A message more: the ones before it, and what they meet, stay.
LEMMA Appends ==
  ASSUME NEW p \in Seq(Message), NEW x \in Message, NEW f, NEW r, r = Append(p, x)
  PROVE  /\ r \in Seq(Message) /\ Len(r) = Len(p) + 1 /\ Len(p) \in Nat
         /\ About(p, f) \subseteq 1 .. Len(p) /\ \A k \in 1 .. Len(p) : r[k] = p[k]
         /\ r[Len(p) + 1] = x
<1>1. /\ r \in Seq(Message) /\ Len(r) = Len(p) + 1 /\ Len(p) \in Nat
      /\ \A k \in 1 .. Len(p) : r[k] = p[k]
      /\ r[Len(p) + 1] = x
  BY Appended
<1>2. DOMAIN p = 1 .. Len(p) BY <1>1
<1>3. About(p, f) \subseteq 1 .. Len(p) BY <1>2 DEF About
<1> QED BY <1>1, <1>3

LEMMA AboutSelf ==
  ASSUME NEW p \in Seq(Message), NEW x \in Message, NEW f, NEW r, r = Append(p, x), x.file = f
  PROVE  About(r, f) = About(p, f) \cup {Len(p) + 1}
<1>1. /\ Len(r) = Len(p) + 1 /\ Len(p) \in Nat /\ r \in Seq(Message)
      /\ \A k \in 1 .. Len(p) : r[k] = p[k]
      /\ r[Len(p) + 1] = x
  BY Appends
<1>2. DOMAIN p = 1 .. Len(p) /\ DOMAIN r = 1 .. Len(p) + 1 BY <1>1
<1>3. \A k : k \in 1 .. Len(p) + 1 <=> k \in 1 .. Len(p) \/ k = Len(p) + 1 BY <1>1
<1>4. \A k : k \in About(r, f) <=> k \in About(p, f) \/ k = Len(p) + 1
  BY <1>1, <1>2, <1>3 DEF About
<1> QED BY <1>4

LEMMA AboutOther ==
  ASSUME NEW p \in Seq(Message), NEW x \in Message, NEW f, NEW r, r = Append(p, x), x.file # f
  PROVE  About(r, f) = About(p, f)
<1>1. /\ Len(r) = Len(p) + 1 /\ Len(p) \in Nat /\ r \in Seq(Message)
      /\ \A k \in 1 .. Len(p) : r[k] = p[k]
      /\ r[Len(p) + 1] = x
  BY Appends
<1>2. DOMAIN p = 1 .. Len(p) /\ DOMAIN r = 1 .. Len(p) + 1 BY <1>1
<1>3. \A k : k \in 1 .. Len(p) + 1 <=> k \in 1 .. Len(p) \/ k = Len(p) + 1 BY <1>1
<1>4. \A k : k \in About(r, f) <=> k \in About(p, f)
  BY <1>1, <1>2, <1>3 DEF About
<1> QED BY <1>4

LEMMA MeetsAppended ==
  ASSUME NEW p \in Seq(Message), NEW x \in Message, NEW f, NEW r, r = Append(p, x)
  PROVE  \A k \in 1 .. Len(p) + 1 : \A was, t : Meets(r, was, f, k, t) <=> Meets(p, was, f, k, t)
<1>1. /\ r \in Seq(Message) /\ Len(p) \in Nat
      /\ About(p, f) \subseteq 1 .. Len(p) /\ \A k \in 1 .. Len(p) : r[k] = p[k]
  BY Appends
<1>2. x.file = f => About(r, f) = About(p, f) \cup {Len(p) + 1} BY AboutSelf, Zenon
<1>3. x.file # f => About(r, f) = About(p, f) BY AboutOther, Zenon
<1>4. ASSUME NEW k \in 1 .. Len(p) + 1, NEW was, NEW t
      PROVE  Meets(r, was, f, k, t) <=> Meets(p, was, f, k, t)
  <2>1. Before(r, f, k) = Before(p, f, k) BY <1>1, <1>2, <1>3 DEF Before
  <2>2. \A a \in Before(p, f, k) : r[a] = p[a] BY <1>1 DEF Before
  <2>3. k \in Nat BY <1>1
  <2> QED BY <1>1, <2>1, <2>2, <2>3, MeetsSame
<1> QED BY <1>4

\* A message about another file joins the pipe.
LEMMA LeadsOther ==
  ASSUME NEW p \in Seq(Message), NEW x \in Message, NEW m, NEW f, NEW text,
         x.file # f, Leads(p, m, f, text)
  PROVE  Leads(Append(p, x), m, f, text)
<1> DEFINE r == Append(p, x)
<1>0. r = Append(p, x) OBVIOUS
<1> HIDE DEF r
<1>1. /\ r \in Seq(Message) /\ Len(r) = Len(p) + 1 /\ Len(p) \in Nat
      /\ About(p, f) \subseteq 1 .. Len(p) /\ \A k \in 1 .. Len(p) : r[k] = p[k]
  BY <1>0, Appends
<1>6. About(r, f) = About(p, f) BY <1>0, AboutOther, Zenon
<1>5. \A k \in 1 .. Len(p) + 1 : \A was, t : Meets(r, was, f, k, t) <=> Meets(p, was, f, k, t)
  BY <1>0, MeetsAppended
<1>2. Meets(r, m.text, f, Len(r) + 1, text)
  <2>1. Meets(p, m.text, f, Len(p) + 1, text) BY DEF Leads
  <2>2. Before(r, f, Len(r) + 1) = Before(p, f, Len(p) + 1) BY <1>1, <1>6 DEF Before
  <2>3. \A a \in Before(p, f, Len(p) + 1) : r[a] = p[a] BY <1>1, <1>6 DEF Before
  <2>4. Len(p) + 1 \in Nat /\ Len(r) + 1 \in Nat BY <1>1, <1>6
  <2> QED BY <1>1, <1>6, <2>1, <2>2, <2>3, <2>4, MeetsSame
<1>3. ASSUME NEW k \in About(r, f)
      PROVE  \/ Whole(r[k])
             \/ \E j \in About(r, f) : j > k /\ Whole(r[j])
             \/ r[k].kind = "change" /\ Meets(r, m.text, f, k, r[k].base)
  <2>1. k \in About(p, f) /\ k \in 1 .. Len(p) + 1 /\ r[k] = p[k] BY <1>1, <1>6
  <2>2. \A j \in About(p, f) : r[j] = p[j] BY <1>1, <1>6
  <2> QED BY <1>1, <1>6, <1>5, <2>1, <2>2 DEF Leads
<1>4. (\A k \in About(r, f) : ~Whole(r[k])) => m.owner = "client" BY <1>1, <1>6 DEF Leads
<1> QED BY <1>2, <1>3, <1>4 DEF Leads, r

\* The last message about F is the one that was added.
LEMMA MeetsLast ==
  ASSUME NEW p \in Seq(Message), NEW x \in Message, x.kind # "close", NEW was
  PROVE  Meets(Append(p, x), was, x.file, Len(Append(p, x)) + 1, x.text)
<1> DEFINE r == Append(p, x)
           f == x.file
<1>0. r = Append(p, x) /\ f = x.file OBVIOUS
<1> HIDE DEF r, f
<1>1. /\ Len(r) = Len(p) + 1 /\ Len(p) \in Nat
      /\ About(p, f) \subseteq 1 .. Len(p)
      /\ r[Len(p) + 1] = x
  BY <1>0, Appends
<1>7. About(r, f) = About(p, f) \cup {Len(p) + 1} BY <1>0, AboutSelf, Zenon
<1>2. Len(p) + 1 \in Before(r, f, Len(r) + 1)
      /\ \A i \in Before(r, f, Len(r) + 1) : i <= Len(p) + 1
  BY <1>1, <1>7 DEF Before
<1>3. \E j \in Before(r, f, Len(r) + 1) :
        (\A i \in Before(r, f, Len(r) + 1) : i <= j) /\ r[j].kind # "close" /\ r[j].text = x.text
  BY <1>1, <1>7, <1>2
<1> QED BY <1>2, <1>3 DEF Meets, Before, r, f

\* A whole text leads to itself, whatever was on its way.
LEMMA LeadsWhole ==
  ASSUME NEW p \in Seq(Message), NEW x \in Message, NEW m, Whole(x)
  PROVE  Leads(Append(p, x), m, x.file, x.text)
<1> DEFINE r == Append(p, x)
           f == x.file
<1>0. r = Append(p, x) /\ f = x.file OBVIOUS
<1>9. \A was : x.kind # "close" => Meets(r, was, f, Len(r) + 1, x.text) BY MeetsLast, Zenon
<1> HIDE DEF r, f
<1>1. /\ Len(r) = Len(p) + 1 /\ Len(p) \in Nat
      /\ About(p, f) \subseteq 1 .. Len(p)
      /\ r[Len(p) + 1] = x
  BY <1>0, Appends
<1>7. About(r, f) = About(p, f) \cup {Len(p) + 1} BY <1>0, AboutSelf, Zenon
<1>2. Meets(r, m.text, f, Len(r) + 1, x.text) BY <1>9 DEF Whole
<1>3. \A k \in About(r, f) : Whole(r[k]) \/ \E j \in About(r, f) : j > k /\ Whole(r[j])
  BY <1>1, <1>7
<1>4. Len(p) + 1 \in About(r, f) /\ Whole(r[Len(p) + 1]) BY <1>1, <1>7
<1> QED BY <1>2, <1>3, <1>4 DEF Leads, r, f

\* So does a diff of the text the pipe led to.
LEMMA LeadsChange ==
  ASSUME NEW p \in Seq(Message), NEW x \in Message, NEW m, x.kind = "change",
         Leads(p, m, x.file, x.base)
  PROVE  Leads(Append(p, x), m, x.file, x.text)
<1> DEFINE r == Append(p, x)
           f == x.file
<1>0. r = Append(p, x) /\ f = x.file OBVIOUS
<1>9. \A was : x.kind # "close" => Meets(r, was, f, Len(r) + 1, x.text) BY MeetsLast, Zenon
<1> HIDE DEF r, f
<1>1. /\ Len(r) = Len(p) + 1 /\ Len(p) \in Nat
      /\ About(p, f) \subseteq 1 .. Len(p) /\ \A k \in 1 .. Len(p) : r[k] = p[k]
      /\ r[Len(p) + 1] = x
  BY <1>0, Appends
<1>7. About(r, f) = About(p, f) \cup {Len(p) + 1} BY <1>0, AboutSelf, Zenon
<1>8. \A k \in 1 .. Len(p) + 1 : \A was, t : Meets(r, was, f, k, t) <=> Meets(p, was, f, k, t)
  BY <1>0, MeetsAppended
<1>2. Meets(r, m.text, f, Len(r) + 1, x.text) BY <1>9
<1>3. Len(p) + 1 \in 1 .. Len(p) + 1 /\ Meets(r, m.text, f, Len(p) + 1, x.base)
  <2>1. Meets(p, m.text, f, Len(p) + 1, x.base) BY <1>0 DEF Leads
  <2>2. Len(p) + 1 \in 1 .. Len(p) + 1 BY <1>1, <1>7
  <2> QED BY <1>8, <2>1, <2>2, Zenon
<1>4. ASSUME NEW k \in About(r, f)
      PROVE  \/ Whole(r[k])
             \/ \E j \in About(r, f) : j > k /\ Whole(r[j])
             \/ r[k].kind = "change" /\ Meets(r, m.text, f, k, r[k].base)
  <2>1. CASE k = Len(p) + 1 BY <1>1, <1>7, <1>3, <2>1
  <2>2. CASE k \in About(p, f)
    <3>1. k \in 1 .. Len(p) + 1 /\ r[k] = p[k] BY <1>1, <1>7, <2>2
    <3>2. \A j \in About(p, f) : r[j] = p[j] BY <1>1, <1>7
    <3>3. Leads(p, m, f, x.base) BY <1>0, Zenon
    <3> QED BY <1>1, <1>7, <1>8, <2>2, <3>1, <3>2, <3>3 DEF Leads
  <2> QED BY <1>1, <1>7, <2>1, <2>2
<1>5. (\A k \in About(r, f) : ~Whole(r[k])) => m.owner = "client"
  <2>1. \A j \in About(p, f) : r[j] = p[j] /\ j \in About(r, f) BY <1>1, <1>7
  <2>2. Leads(p, m, f, x.base) BY <1>0, Zenon
  <2> QED BY <2>1, <2>2 DEF Leads
<1> QED BY <1>2, <1>4, <1>5 DEF Leads, r, f

\* R is P without its message at I.
Dropped(p, r, i) ==
  /\ Len(p) \in Nat /\ Len(r) = Len(p) - 1 /\ i \in 1 .. Len(p)
  /\ \A k \in 1 .. Len(r) : r[k] = IF k < i THEN p[k] ELSE p[k + 1]

LEMMA AboutDropped ==
  ASSUME NEW p \in Seq(Message), NEW r \in Seq(Message), NEW i, Dropped(p, r, i), NEW f
  PROVE  /\ \A a \in About(r, f) : a \in 1 .. Len(r)
         /\ \A a \in About(r, f) : /\ (IF a < i THEN a ELSE a + 1) \in About(p, f)
                                   /\ r[a] = p[IF a < i THEN a ELSE a + 1]
         /\ \A j \in About(p, f) : j \in 1 .. Len(p)
         /\ \A j \in About(p, f) \ {i} : /\ (IF j < i THEN j ELSE j - 1) \in About(r, f)
                                         /\ r[IF j < i THEN j ELSE j - 1] = p[j]
<1>0. DOMAIN p = 1 .. Len(p) /\ DOMAIN r = 1 .. Len(r) /\ Len(p) \in Nat /\ Len(r) = Len(p) - 1 /\ i \in 1 .. Len(p)
  BY DEF Dropped
<1>1. ASSUME NEW a \in About(r, f)
      PROVE  /\ a \in 1 .. Len(r) /\ (IF a < i THEN a ELSE a + 1) \in About(p, f)
             /\ r[a] = p[IF a < i THEN a ELSE a + 1]
  <2>1. a \in 1 .. Len(r) /\ r[a].file = f BY <1>0 DEF About
  <2>2. r[a] = p[IF a < i THEN a ELSE a + 1] BY <2>1 DEF Dropped
  <2>3. (IF a < i THEN a ELSE a + 1) \in 1 .. Len(p) BY <1>0, <2>1
  <2> QED BY <1>0, <2>1, <2>2, <2>3 DEF About
<1>2. ASSUME NEW j \in About(p, f)
      PROVE  /\ j \in 1 .. Len(p)
             /\ j # i => /\ (IF j < i THEN j ELSE j - 1) \in About(r, f)
                         /\ r[IF j < i THEN j ELSE j - 1] = p[j]
  <2>1. j \in 1 .. Len(p) /\ p[j].file = f BY <1>0 DEF About
  <2>2. ASSUME j # i
        PROVE  /\ (IF j < i THEN j ELSE j - 1) \in About(r, f)
               /\ r[IF j < i THEN j ELSE j - 1] = p[j]
    <3>1. CASE j < i
      <4>1. j \in 1 .. Len(r) BY <1>0, <2>1, <3>1
      <4>2. r[j] = p[j] BY <3>1, <4>1 DEF Dropped
      <4> QED BY <1>0, <2>1, <3>1, <4>1, <4>2 DEF About
    <3>2. CASE ~(j < i)
      <4>1. j - 1 \in 1 .. Len(r) /\ ~(j - 1 < i) /\ (j - 1) + 1 = j BY <1>0, <2>1, <2>2, <3>2
      <4>2. r[j - 1] = p[j] BY <4>1 DEF Dropped
      <4> QED BY <1>0, <2>1, <3>2, <4>1, <4>2 DEF About
    <3> QED BY <3>1, <3>2
  <2> QED BY <2>1, <2>2
<1> QED BY <1>1, <1>2

\* A message is dropped that is not about F, or is its closing: that leads
\* nowhere but to a whole text.
LEMMA LeadsDropped ==
  ASSUME NEW p \in Seq(Message), NEW r \in Seq(Message), NEW i, Dropped(p, r, i),
         NEW m, NEW f, NEW text,
         p[i].file # f \/ p[i].kind = "close",
         Leads(p, m, f, text)
  PROVE  Leads(r, m, f, text)
<1> DEFINE old(a) == IF a < i THEN a ELSE a + 1
           down(j) == IF j < i THEN j ELSE j - 1
<1>1. /\ Len(p) \in Nat /\ Len(r) = Len(p) - 1 /\ i \in 1 .. Len(p) /\ i \in Nat
      /\ \A a \in About(r, f) : a \in 1 .. Len(r) /\ old(a) \in About(p, f) /\ r[a] = p[old(a)]
      /\ \A j \in About(p, f) : j \in 1 .. Len(p)
      /\ \A j \in About(p, f) \ {i} : down(j) \in About(r, f) /\ r[down(j)] = p[j]
  BY AboutDropped DEF Dropped
<1>2. i \in About(p, f) => ~Whole(p[i]) /\ p[i].kind # "change"
  BY DEF About, Whole
<1>3. \* A later whole text is still there.
      ASSUME NEW k \in Nat, NEW j \in About(p, f), j > old(k), Whole(p[j])
      PROVE  \E a \in About(r, f) : a > k /\ Whole(r[a])
  <2>1. j # i /\ j \in 1 .. Len(p) BY <1>1, <1>2, <1>3
  <2>2. down(j) \in About(r, f) /\ Whole(r[down(j)]) BY <1>1, <1>3, <2>1
  <2>3. down(j) > k BY <1>1, <1>3, <2>1
  <2> QED BY <2>2, <2>3
<1>4. \* What was met is met, if nothing whole is to follow.
      ASSUME NEW k \in 1 .. Len(r) + 1, NEW t, Meets(p, m.text, f, old(k), t),
             \A j \in About(p, f) : Whole(p[j]) => j < old(k)
      PROVE  Meets(r, m.text, f, k, t)
  <2> DEFINE h == [a \in Before(r, f, k) |-> old(a)]
  <2>1. ASSUME NEW a \in Before(r, f, k) PROVE h[a] \in Before(p, f, old(k)) /\ r[a] = p[h[a]]
    <3>1. a \in About(r, f) /\ a < k /\ a \in 1 .. Len(r) BY <1>1 DEF Before
    <3>2. old(a) < old(k) BY <1>1, <3>1
    <3> QED BY <1>1, <3>1, <3>2 DEF Before
  <2>2. ASSUME NEW a \in Before(r, f, k), NEW b \in Before(r, f, k), h[a] <= h[b] PROVE a <= b
    <3>1. a \in 1 .. Len(r) /\ b \in 1 .. Len(r) BY <1>1 DEF Before
    <3> QED BY <1>1, <2>2, <3>1
  <2>3. ASSUME NEW j \in Before(p, f, old(k)), j # i PROVE \E a \in Before(r, f, k) : j <= h[a]
    <3>1. j \in About(p, f) /\ j < old(k) /\ j \in 1 .. Len(p) BY <1>1 DEF Before
    <3>2. down(j) \in About(r, f) /\ down(j) < k /\ old(down(j)) = j BY <1>1, <2>3, <3>1
    <3>3. down(j) \in Before(r, f, k) BY <3>2 DEF Before
    <3>4. j <= h[down(j)] BY <3>1, <3>2, <3>3
    <3> HIDE DEF h, down, old
    <3> QED BY <3>3, <3>4
  <2>4. ASSUME i \in Before(p, f, old(k)) PROVE \E a \in Before(r, f, k) : i <= h[a]
    <3>1. i \in About(p, f) BY <2>4 DEF Before
    <3>2. PICK j \in About(p, f) : j > i /\ Whole(p[j]) BY <1>2, <3>1 DEF Leads
    <3>3. j < old(k) BY <1>4, <3>2
    <3>4. j \in Before(p, f, old(k)) /\ j # i BY <1>1, <3>2, <3>3 DEF Before
    <3>5. PICK a \in Before(r, f, k) : j <= h[a] BY <2>3, <3>4
    <3>6. a \in 1 .. Len(r) /\ j \in 1 .. Len(p) BY <1>1, <3>2 DEF Before
    <3>7. h[a] \in Int BY <1>1, <3>6
    <3> HIDE DEF h
    <3>8. i <= h[a] BY <1>1, <3>2, <3>5, <3>6, <3>7
    <3> QED BY <3>8
  <2>5. k \in Nat /\ old(k) \in Nat BY <1>1
  <2> HIDE DEF h, old, down
  <2>9. PICK u \in Nat : u = old(k) BY <2>5
  <2>10. PICK was : was = m.text OBVIOUS
  <2>6. \A a \in Before(r, f, k) : h[a] \in Before(p, f, u) /\ r[a] = p[h[a]] BY <2>1, <2>9
  <2>7. \A a, b \in Before(r, f, k) : h[a] <= h[b] => a <= b BY <2>2
  <2>8. \A j \in Before(p, f, u) : \E a \in Before(r, f, k) : j <= h[a] BY <2>3, <2>4, <2>9
  <2>11. Meets(p, was, f, u, t) BY <1>4, <2>9, <2>10, Zenon
  <2>12. Meets(r, was, f, k, t) BY <2>5, <2>6, <2>7, <2>8, <2>11, MeetsKept
  <2> QED BY <2>10, <2>12, Zenon
<1>5. ASSUME NEW a \in About(r, f)
      PROVE  \/ Whole(r[a])
             \/ \E j \in About(r, f) : j > a /\ Whole(r[j])
             \/ r[a].kind = "change" /\ Meets(r, m.text, f, a, r[a].base)
  <2>1. a \in 1 .. Len(r) /\ a \in 1 .. Len(r) + 1 /\ a \in Nat /\ old(a) \in About(p, f) /\ r[a] = p[old(a)] /\ old(a) \in Nat
    BY <1>1
  <2>2. CASE Whole(p[old(a)]) BY <2>1, <2>2
  <2>3. CASE \E j \in About(p, f) : j > old(a) /\ Whole(p[j]) BY <1>3, <2>1, <2>3
  <2>4. CASE ~Whole(p[old(a)]) /\ ~\E j \in About(p, f) : j > old(a) /\ Whole(p[j])
    <3>1. p[old(a)].kind = "change" /\ Meets(p, m.text, f, old(a), p[old(a)].base) BY <2>1, <2>4 DEF Leads
    <3>2. \A j \in About(p, f) : j \in Nat BY <1>1
    <3> HIDE DEF old, down
    <3>3. \A j \in About(p, f) : Whole(p[j]) => j < old(a) BY <2>1, <2>4, <3>2
    <3>4. Meets(r, m.text, f, a, p[old(a)].base) BY <1>4, <2>1, <3>1, <3>3
    <3> QED BY <2>1, <3>1, <3>4
  <2> QED BY <2>2, <2>3, <2>4
<1>6. Meets(r, m.text, f, Len(r) + 1, text)
  <2>1. old(Len(r) + 1) = Len(p) + 1 /\ Len(r) + 1 \in 1 .. Len(r) + 1 BY <1>1
  <2>2. \A j \in About(p, f) : j < Len(p) + 1 BY <1>1
  <2>3. Meets(p, m.text, f, Len(p) + 1, text) BY DEF Leads
  <2> HIDE DEF old, down
  <2> QED BY <1>4, <2>1, <2>2, <2>3
<1>7. (\A a \in About(r, f) : ~Whole(r[a])) => m.owner = "client"
  <2>1. ASSUME NEW j \in About(p, f), Whole(p[j]) PROVE \E a \in About(r, f) : Whole(r[a])
    BY <1>1, <1>2, <2>1
  <2> QED BY <2>1 DEF Leads
<1> QED BY <1>5, <1>6, <1>7 DEF Leads

\* The server reads the first message, and it is about F.
LEMMA LeadsRead ==
  ASSUME NEW p \in Seq(Message), p # <<>>, NEW m \in Models, NEW n \in Models, NEW text,
         Leads(p, m, Head(p).file, text),
         Whole(Head(p)) \/ (Head(p).kind = "change" /\ Head(p).base = m.text)
           => n.owner = "client" /\ n.text = Head(p).text
  PROVE  Leads(Tail(p), n, Head(p).file, text)
<1> DEFINE r == Tail(p)
           f == Head(p).file
<1>1. /\ r \in Seq(Message) /\ Len(r) = Len(p) - 1 /\ Len(p) \in Nat \ {0} /\ Head(p) = p[1]
      /\ \A k \in 1 .. Len(r) : r[k] = p[k + 1]
  BY Shifted
<1> HIDE DEF r
<1>2. Dropped(p, r, 1) BY <1>1 DEF Dropped
<1>3. /\ \A a \in About(r, f) : a \in 1 .. Len(r) /\ a + 1 \in About(p, f) /\ r[a] = p[a + 1]
      /\ \A j \in About(p, f) : j \in 1 .. Len(p)
      /\ \A j \in About(p, f) \ {1} : j - 1 \in About(r, f) /\ r[j - 1] = p[j]
  BY <1>1, <1>2, AboutDropped
<1>4. 1 \in About(p, f) BY <1>1 DEF About
<1>5. \* The first message, when no whole text is to follow.
      ASSUME \A j \in About(p, f) : Whole(p[j]) => j = 1
      PROVE  n.owner = "client" /\ n.text = p[1].text
  <2>1. ~\E j \in About(p, f) : j > 1 /\ Whole(p[j]) BY <1>3, <1>5
  <2>2. Whole(p[1]) \/ (p[1].kind = "change" /\ Meets(p, m.text, f, 1, p[1].base))
    BY <1>4, <2>1 DEF Leads
  <2>3. Before(p, f, 1) = {} BY <1>3 DEF Before
  <2>4. Meets(p, m.text, f, 1, p[1].base) => p[1].base = m.text BY <2>3 DEF Meets, Before
  <2> QED BY <1>1, <2>2, <2>4
<1>6. ASSUME NEW k \in 1 .. Len(r) + 1, NEW t, Meets(p, m.text, f, k + 1, t),
             \A j \in About(p, f) : Whole(p[j]) => j < k + 1
      PROVE  Meets(r, n.text, f, k, t)
  <2> DEFINE h == [a \in Before(r, f, k) |-> a + 1]
  <2>0. \A a \in Before(r, f, k) : a \in About(r, f) /\ a < k /\ a \in 1 .. Len(r) BY <1>3 DEF Before
  <2>1. ASSUME NEW a \in Before(r, f, k) PROVE h[a] \in Before(p, f, k + 1) /\ r[a] = p[h[a]]
    BY <1>1, <1>3, <2>0 DEF Before
  <2>2. ASSUME NEW a \in Before(r, f, k), NEW b \in Before(r, f, k), h[a] <= h[b] PROVE a <= b
    BY <1>1, <2>0, <2>2
  <2>3. ASSUME NEW j \in Before(p, f, k + 1), j # 1 PROVE j - 1 \in Before(r, f, k) /\ h[j - 1] = j
    <3>1. j \in About(p, f) /\ j < k + 1 /\ j \in 1 .. Len(p) BY <1>3 DEF Before
    <3>2. j - 1 \in Before(r, f, k) BY <1>1, <1>3, <2>3, <3>1 DEF Before
    <3> QED BY <1>1, <3>1, <3>2
  <2>4. CASE Before(r, f, k) # {}
    <3>1. PICK b \in Before(r, f, k) : TRUE BY <2>4
    <3>2. h[b] = b + 1 /\ b \in 1 .. Len(r) BY <2>0
    <3>3. \A j \in Before(p, f, k + 1) : j \in 1 .. Len(p) BY <1>3 DEF Before
    <3>4. \A j \in Before(p, f, k + 1) : \E a \in Before(r, f, k) : j <= h[a]
      <4> TAKE j \in Before(p, f, k + 1)
      <4>1. CASE j = 1 BY <1>1, <3>1, <3>2, <4>1
      <4>2. CASE j # 1
        <5>1. j - 1 \in Before(r, f, k) /\ h[j - 1] = j BY <2>3, <4>2
        <5>2. j <= h[j - 1] BY <1>1, <3>3, <5>1
        <5> HIDE DEF h
        <5> QED BY <5>1, <5>2
      <4> QED BY <4>1, <4>2
    <3>5. Before(p, f, k + 1) # {} BY <2>1, <3>1
    <3>6. k \in Nat /\ k + 1 \in Nat BY <1>1
    <3> HIDE DEF h
    <3>9. PICK u \in Nat : u = k + 1 BY <3>6
    <3>10. PICK was, is : was = m.text /\ is = n.text OBVIOUS
    <3>7. \A a \in Before(r, f, k) : h[a] \in Before(p, f, u) /\ r[a] = p[h[a]] BY <2>1, <3>9
    <3>8. \A a, c \in Before(r, f, k) : h[a] <= h[c] => a <= c BY <2>2
    <3>11. Meets(p, was, f, u, t) BY <1>6, <3>9, <3>10, Zenon
    <3>12. Before(p, f, u) # {} /\ \A j \in Before(p, f, u) : \E a \in Before(r, f, k) : j <= h[a]
      BY <3>4, <3>5, <3>9
    <3>13. Meets(r, is, f, k, t) BY <1>1, <3>6, <3>7, <3>8, <3>11, <3>12, MeetsKept
    <3> QED BY <3>10, <3>13, Zenon
  <2>5. CASE Before(r, f, k) = {}
    <3>1. \A j \in Before(p, f, k + 1) : j = 1 BY <2>3, <2>5
    <3>2. 1 \in Before(p, f, k + 1) BY <1>1, <1>4 DEF Before
    <3>3. t = p[1].text
      <4>1. \E j \in Before(p, f, k + 1) : p[j].text = t BY <1>6, <3>2 DEF Meets, Before
      <4> QED BY <3>1, <4>1
    <3>4. \A j \in About(p, f) : Whole(p[j]) => j = 1 BY <1>6, <3>1 DEF Before
    <3>5. n.text = t BY <1>5, <3>3, <3>4
    <3> QED BY <2>5, <3>5 DEF Meets, Before
  <2> QED BY <2>4, <2>5
<1>7. ASSUME NEW a \in About(r, f)
      PROVE  \/ Whole(r[a])
             \/ \E j \in About(r, f) : j > a /\ Whole(r[j])
             \/ r[a].kind = "change" /\ Meets(r, n.text, f, a, r[a].base)
  <2>1. a \in 1 .. Len(r) /\ a \in 1 .. Len(r) + 1 /\ a + 1 \in About(p, f) /\ r[a] = p[a + 1] BY <1>1, <1>3
  <2>2. CASE Whole(p[a + 1]) BY <2>1, <2>2
  <2>3. CASE \E j \in About(p, f) : j > a + 1 /\ Whole(p[j])
    <3>1. PICK j \in About(p, f) : j > a + 1 /\ Whole(p[j]) BY <2>3
    <3>2. j \in 1 .. Len(p) /\ j # 1 /\ j - 1 > a BY <1>1, <1>3, <2>1, <3>1
    <3> QED BY <1>3, <3>1, <3>2
  <2>4. CASE ~Whole(p[a + 1]) /\ ~\E j \in About(p, f) : j > a + 1 /\ Whole(p[j])
    <3>1. p[a + 1].kind = "change" /\ Meets(p, m.text, f, a + 1, p[a + 1].base) BY <2>1, <2>4 DEF Leads
    <3>2. \A j \in About(p, f) : Whole(p[j]) => j < a + 1 BY <1>1, <1>3, <2>1, <2>4
    <3>3. Meets(r, n.text, f, a, p[a + 1].base) BY <1>6, <2>1, <3>1, <3>2
    <3> QED BY <2>1, <3>1, <3>3
  <2> QED BY <2>2, <2>3, <2>4
<1>8. Meets(r, n.text, f, Len(r) + 1, text)
  <2>1. Len(r) + 1 \in 1 .. Len(r) + 1 /\ (Len(r) + 1) + 1 = Len(p) + 1 BY <1>1
  <2>2. \A j \in About(p, f) : j < (Len(r) + 1) + 1 BY <1>1, <1>3
  <2>3. Meets(p, m.text, f, Len(p) + 1, text) BY DEF Leads
  <2> QED BY <1>6, <2>1, <2>2, <2>3
<1>9. (\A a \in About(r, f) : ~Whole(r[a])) => n.owner = "client" BY <1>3, <1>5
<1> QED BY <1>7, <1>8, <1>9 DEF Leads, r


-----------------------------------------------------------------------------
(* The pipe and the queue before it: what each change of the queue makes   *)
(* of the messages on their way.                                           *)

Waiting(q) == IF q # <<>> /\ Head(q).written THEN Tail(q) ELSE q
Flow(u, q) == u \o [i \in DOMAIN Waiting(q) |-> Waiting(q)[i].message]

LEMMA PipeIsFlow == Pipe = Flow(up, queue)
BY DEF Pipe, Unwritten, Flow, Waiting

\* How many of the queue are in the pipe.
Done(q) == IF q # <<>> /\ q[1].written THEN 1 ELSE 0

LEMMA WaitingIs ==
  ASSUME NEW q \in Seq(Sends)
  PROVE  /\ Waiting(q) \in Seq(Sends) /\ Len(q) \in Nat /\ Done(q) \in 0 .. Len(q) /\ Done(q) \in {0, 1}
         /\ Len(Waiting(q)) = Len(q) - Done(q)
         /\ \A k \in 1 .. Len(q) - Done(q) : Waiting(q)[k] = q[k + Done(q)]
<1>1. CASE q # <<>> /\ q[1].written
  <2>1. /\ Tail(q) \in Seq(Sends) /\ Len(Tail(q)) = Len(q) - 1 /\ Len(q) \in Nat \ {0}
        /\ Head(q) = q[1] /\ \A i \in 1 .. Len(Tail(q)) : Tail(q)[i] = q[i + 1]
    BY <1>1, Shifted
  <2>2. Waiting(q) = Tail(q) /\ Done(q) = 1 BY <1>1, <2>1 DEF Waiting, Done
  <2> QED BY <2>1, <2>2
<1>2. CASE ~(q # <<>> /\ q[1].written)
  <2>1. q # <<>> => Head(q) = q[1] BY Shifted
  <2>2. Waiting(q) = q /\ Done(q) = 0 BY <1>2, <2>1 DEF Waiting, Done
  <2>3. Len(q) \in Nat OBVIOUS
  <2> QED BY <2>2, <2>3
<1> QED BY <1>1, <1>2

LEMMA FlowIs ==
  ASSUME NEW u \in Seq(Message), NEW q \in Seq(Sends)
  PROVE  /\ Flow(u, q) \in Seq(Message) /\ Len(u) \in Nat
         /\ Len(Flow(u, q)) = Len(u) + (Len(q) - Done(q))
         /\ \A k \in 1 .. Len(u) : Flow(u, q)[k] = u[k]
         /\ \A k \in 1 .. Len(q) - Done(q) : Flow(u, q)[Len(u) + k] = q[k + Done(q)].message
<1> DEFINE w == Waiting(q)
           c == [i \in DOMAIN w |-> w[i].message]
           d == Done(q)
<1>1. /\ w \in Seq(Sends) /\ Len(q) \in Nat /\ d \in 0 .. Len(q) /\ Len(w) = Len(q) - d
      /\ \A k \in 1 .. Len(q) - d : w[k] = q[k + d]
  BY WaitingIs
<1>2. Flow(u, q) = u \o c BY DEF Flow
<1> HIDE DEF w, d
<1>3. DOMAIN w = 1 .. Len(w) /\ Len(w) \in Nat /\ Len(u) \in Nat BY <1>1
<1>4. \A i \in 1 .. Len(w) : w[i].message \in Message
  <2>1. \A i \in 1 .. Len(w) : w[i] \in Sends BY <1>1
  <2> QED BY <2>1 DEF Sends
<1>5. c \in Seq(Message) /\ Len(c) = Len(w) /\ \A i \in 1 .. Len(w) : c[i] = w[i].message
  <2>1. c \in [1 .. Len(w) -> Message] BY <1>3, <1>4
  <2> HIDE DEF c
  <2>2. c \in Seq(Message) /\ Len(c) = Len(w) BY <1>3, <2>1
  <2> USE DEF c
  <2> QED BY <1>3, <2>2
<1> HIDE DEF c
<1>6. /\ u \o c \in Seq(Message) /\ Len(u \o c) = Len(u) + Len(c)
      /\ \A i \in 1 .. Len(u) : (u \o c)[i] = u[i]
      /\ \A i \in 1 .. Len(c) : (u \o c)[Len(u) + i] = c[i]
  <2>1. c \in Seq(Message) BY <1>5
  <2> QED BY <2>1, Joined
<1> QED BY <1>1, <1>2, <1>3, <1>5, <1>6 DEF d

\* A sequence of messages that has the flow's, is the flow.
LEMMA FlowSame ==
  ASSUME NEW u \in Seq(Message), NEW q \in Seq(Sends), NEW p \in Seq(Message),
         Len(p) = Len(u) + (Len(q) - Done(q)),
         \A k \in 1 .. Len(u) : p[k] = u[k],
         \A k \in 1 .. Len(q) - Done(q) : p[Len(u) + k] = q[k + Done(q)].message
  PROVE  p = Flow(u, q)
<1> DEFINE r == Flow(u, q)
           d == Done(q)
<1>1. /\ r \in Seq(Message) /\ Len(u) \in Nat /\ Len(r) = Len(u) + (Len(q) - d)
      /\ \A k \in 1 .. Len(u) : r[k] = u[k]
      /\ \A k \in 1 .. Len(q) - d : r[Len(u) + k] = q[k + d].message
  BY FlowIs
<1>2. d \in 0 .. Len(q) /\ Len(q) \in Nat BY WaitingIs
<1>3. Len(p) = Len(u) + (Len(q) - d) /\ \A k \in 1 .. Len(q) - d : p[Len(u) + k] = q[k + d].message OBVIOUS
<1> HIDE DEF r, d
<1>4. ASSUME NEW k \in 1 .. Len(p) PROVE p[k] = r[k]
  <2>1. CASE k \in 1 .. Len(u) BY <1>1, <2>1
  <2>2. CASE k \notin 1 .. Len(u)
    <3>1. PICK n \in 1 .. Len(q) - d : k = Len(u) + n
      <4>1. k - Len(u) \in 1 .. Len(q) - d BY <1>1, <1>2, <1>3, <2>2
      <4>2. k = Len(u) + (k - Len(u)) BY <1>1
      <4> QED BY <4>1, <4>2
    <3> QED BY <1>1, <1>3, <3>1
  <2> QED BY <2>1, <2>2
<1>5. Len(p) = Len(r) BY <1>1, <1>3
<1>6. p = r BY <1>1, <1>4, <1>5
<1> QED BY <1>6 DEF r

OnlyHead(q) == \A i \in DOMAIN q : q[i].written => i = 1

\* A send joins the queue: its message is the last on the way.
LEMMA FlowQueued ==
  ASSUME NEW u \in Seq(Message), NEW q \in Seq(Sends), NEW s \in Sends, ~s.written,
         NEW r, r = Append(q, s)
  PROVE  Flow(u, r) = Append(Flow(u, q), s.message)
<1>1. /\ r \in Seq(Sends) /\ Len(r) = Len(q) + 1 /\ Len(q) \in Nat
      /\ \A i \in 1 .. Len(q) : r[i] = q[i]
      /\ r[Len(q) + 1] = s
  BY Appended
<1>2. Done(r) = Done(q)
  <2>1. CASE q = <<>> BY <1>1, <2>1 DEF Done
  <2>2. CASE q # <<>>
    <3>1. 1 \in 1 .. Len(q) /\ r # <<>> BY <1>1, <2>2
    <3> QED BY <1>1, <2>2, <3>1 DEF Done
  <2> QED BY <2>1, <2>2
<1> DEFINE b == Flow(u, q)
           d == Done(q)
           m == s.message
           p == Append(b, m)
<1>3. /\ b \in Seq(Message) /\ Len(u) \in Nat /\ Len(b) = Len(u) + (Len(q) - d)
      /\ \A k \in 1 .. Len(u) : b[k] = u[k]
      /\ \A k \in 1 .. Len(q) - d : b[Len(u) + k] = q[k + d].message
  BY FlowIs
<1>4. d \in 0 .. Len(q) BY WaitingIs
<1>5. m \in Message BY DEF Sends
<1>10. d = Done(q) /\ b = Flow(u, q) /\ m = s.message OBVIOUS
<1> HIDE DEF b, d, m
<1>6. /\ p \in Seq(Message) /\ Len(p) = Len(b) + 1
      /\ \A i \in 1 .. Len(b) : p[i] = b[i]
      /\ p[Len(b) + 1] = m
  BY <1>3, <1>5, Appended
<1> HIDE DEF p
<1>7. Len(p) = Len(u) + (Len(r) - d) BY <1>1, <1>3, <1>4, <1>6
<1>8. \A k \in 1 .. Len(u) : p[k] = u[k] BY <1>1, <1>3, <1>4, <1>6
<1>9. ASSUME NEW k \in 1 .. Len(r) - d PROVE p[Len(u) + k] = r[k + d].message
  <2>1. CASE k \in 1 .. Len(q) - d
    <3>1. k + d \in 1 .. Len(q) /\ Len(u) + k \in 1 .. Len(b) BY <1>1, <1>3, <1>4, <2>1
    <3> QED BY <1>1, <1>3, <1>6, <2>1, <3>1
  <2>2. CASE k \notin 1 .. Len(q) - d
    <3>0. Len(q) \in Nat /\ d \in Nat /\ Len(u) \in Nat /\ d <= Len(q) BY <1>1, <1>3, <1>4
    <3>2. k \in 1 .. (Len(q) + 1) - d BY <1>1
    <3>3. k = (Len(q) - d) + 1 BY <2>2, <3>0, <3>2
    <3>1. k + d = Len(q) + 1 /\ Len(u) + k = Len(b) + 1 BY <1>3, <3>0, <3>3
    <3> QED BY <1>1, <1>6, <1>10, <3>1
  <2> QED BY <2>1, <2>2
<1>11. p = Flow(u, r)
  <2>1. /\ Len(p) = Len(u) + (Len(r) - Done(r))
        /\ \A k \in 1 .. Len(r) - Done(r) : p[Len(u) + k] = r[k + Done(r)].message
    BY <1>2, <1>7, <1>9, <1>10
  <2> QED BY <1>1, <1>6, <1>8, <2>1, FlowSame
<1> QED BY <1>10, <1>11 DEF p

LEMMA HeadQueued ==
  ASSUME NEW q \in Seq(Sends), NEW s \in Sends, ~s.written, NEW r, r = Append(q, s), OnlyHead(q)
  PROVE  OnlyHead(r)
<1>1. /\ r \in Seq(Sends) /\ Len(r) = Len(q) + 1 /\ Len(q) \in Nat
      /\ \A i \in 1 .. Len(q) : r[i] = q[i]
      /\ r[Len(q) + 1] = s
  BY Appended
<1>2. DOMAIN q = 1 .. Len(q) /\ DOMAIN r = 1 .. Len(q) + 1 BY <1>1
<1> QED BY <1>1, <1>2 DEF OnlyHead

\* The send at the head is written.
LEMMA FlowWritten ==
  ASSUME NEW u \in Seq(Message), NEW q \in Seq(Sends), NEW r \in Seq(Sends), NEW v,
         q # <<>>, ~q[1].written, v = Append(u, q[1].message),
         r = [q EXCEPT ![1] = [q[1] EXCEPT !.written = TRUE]]
  PROVE  /\ Flow(v, r) = Flow(u, q)
         /\ OnlyHead(q) => OnlyHead(r)
<1>1. Len(q) \in Nat \ {0} /\ DOMAIN q = 1 .. Len(q) /\ q[1] \in Sends BY Shifted
<1>2. /\ Len(r) = Len(q) /\ DOMAIN r = 1 .. Len(q) /\ r[1] = [q[1] EXCEPT !.written = TRUE]
      /\ \A k \in 2 .. Len(q) : r[k] = q[k]
  BY <1>1
<1>3. r[1].written /\ r[1].message = q[1].message /\ q[1].message \in Message BY <1>1, <1>2 DEF Sends
<1>4. Done(q) = 0 /\ Done(r) = 1 BY <1>1, <1>2, <1>3 DEF Done
<1>5. /\ v \in Seq(Message) /\ Len(v) = Len(u) + 1 /\ Len(u) \in Nat
      /\ \A k \in 1 .. Len(u) : v[k] = u[k]
      /\ v[Len(u) + 1] = q[1].message
  BY <1>3, Appended
<1> DEFINE p == Flow(u, q)
<1>6. /\ p \in Seq(Message) /\ Len(p) = Len(u) + Len(q)
      /\ \A k \in 1 .. Len(u) : p[k] = u[k]
      /\ \A k \in 1 .. Len(q) : p[Len(u) + k] = q[k].message
  <2>3. /\ p \in Seq(Message) /\ Len(p) = Len(u) + (Len(q) - Done(q))
        /\ \A k \in 1 .. Len(u) : p[k] = u[k]
        /\ \A k \in 1 .. Len(q) - Done(q) : p[Len(u) + k] = q[k + Done(q)].message
    BY FlowIs
  <2> HIDE DEF p
  <2>1. /\ p \in Seq(Message) /\ Len(p) = Len(u) + (Len(q) - 0)
        /\ \A k \in 1 .. Len(u) : p[k] = u[k]
        /\ \A k \in 1 .. Len(q) - 0 : p[Len(u) + k] = q[k + 0].message
    BY <1>4, <2>3
  <2>2. \A k \in 1 .. Len(q) : k \in 1 .. Len(q) - 0 /\ k + 0 = k BY <1>1
  <2> QED BY <1>1, <1>5, <2>1, <2>2
<1> HIDE DEF p
<1>7. Len(p) = Len(v) + (Len(r) - 1) BY <1>1, <1>2, <1>5, <1>6
<1>8. \A k \in 1 .. Len(v) : p[k] = v[k] BY <1>1, <1>5, <1>6
<1>9. ASSUME NEW k \in 1 .. Len(r) - 1 PROVE p[Len(v) + k] = r[k + 1].message
  <2>2. k \in 1 .. Len(q) - 1 BY <1>2
  <2>3. Len(q) \in Nat /\ Len(u) \in Nat /\ Len(v) = Len(u) + 1 BY <1>1, <1>5
  <2>4. Len(v) + k = Len(u) + (k + 1) BY <2>2, <2>3
  <2>1. k + 1 \in 2 .. Len(q) /\ k + 1 \in 1 .. Len(q) /\ Len(v) + k = Len(u) + (k + 1) BY <2>2, <2>3, <2>4
  <2> QED BY <1>2, <1>6, <2>1
<1>10. p = Flow(v, r)
  <2>1. /\ Len(p) = Len(v) + (Len(r) - Done(r))
        /\ \A k \in 1 .. Len(r) - Done(r) : p[Len(v) + k] = r[k + Done(r)].message
    BY <1>4, <1>7, <1>9
  <2> QED BY <1>5, <1>6, <1>8, <2>1, FlowSame
<1>11. OnlyHead(q) => OnlyHead(r) BY <1>1, <1>2 DEF OnlyHead
<1> QED BY <1>10, <1>11 DEF p

\* A written send leaves the queue.
LEMMA FlowDrained ==
  ASSUME NEW u \in Seq(Message), NEW q \in Seq(Sends), NEW r \in Seq(Sends),
         q # <<>>, q[1].written, OnlyHead(q), Len(r) = Len(q) - 1,
         \A k \in 1 .. Len(r) : r[k] = q[k + 1]
  PROVE  Flow(u, r) = Flow(u, q) /\ OnlyHead(r)
<1>1. Len(q) \in Nat \ {0} /\ DOMAIN q = 1 .. Len(q) /\ DOMAIN r = 1 .. Len(r) OBVIOUS
<1>2. OnlyHead(r)
  <2>1. \A k \in 1 .. Len(r) : k + 1 \in DOMAIN q /\ k + 1 # 1 BY <1>1
  <2> QED BY <1>1, <2>1 DEF OnlyHead
<1>3. Done(q) = 1 BY DEF Done
<1>4. Done(r) = 0
  <2>1. r # <<>> => 1 \in 1 .. Len(r) /\ 1 + 1 \in DOMAIN q /\ 1 + 1 # 1 BY <1>1
  <2>2. r # <<>> => ~q[1 + 1].written BY <2>1 DEF OnlyHead
  <2> QED BY <2>1, <2>2 DEF Done
<1> DEFINE p == Flow(u, q)
<1>5. /\ p \in Seq(Message) /\ Len(u) \in Nat /\ Len(p) = Len(u) + (Len(q) - 1)
      /\ \A k \in 1 .. Len(u) : p[k] = u[k]
      /\ \A k \in 1 .. Len(q) - 1 : p[Len(u) + k] = q[k + 1].message
  <2>1. /\ p \in Seq(Message) /\ Len(u) \in Nat /\ Len(p) = Len(u) + (Len(q) - Done(q))
        /\ \A k \in 1 .. Len(u) : p[k] = u[k]
        /\ \A k \in 1 .. Len(q) - Done(q) : p[Len(u) + k] = q[k + Done(q)].message
    BY FlowIs
  <2> HIDE DEF p
  <2> QED BY <1>3, <2>1
<1> HIDE DEF p
<1>6. Len(p) = Len(u) + (Len(r) - 0) BY <1>1, <1>5
<1>7. \A k \in 1 .. Len(r) - 0 : p[Len(u) + k] = r[k + 0].message
  <2>1. \A k \in 1 .. Len(r) - 0 : k \in 1 .. Len(r) /\ k + 0 = k /\ k \in 1 .. Len(q) - 1 BY <1>1
  <2> QED BY <1>5, <2>1
<1>8. p = Flow(u, r)
  <2>1. /\ Len(p) = Len(u) + (Len(r) - Done(r))
        /\ \A k \in 1 .. Len(r) - Done(r) : p[Len(u) + k] = r[k + Done(r)].message
    BY <1>4, <1>6, <1>7
  <2> QED BY <1>5, <2>1, FlowSame
<1> QED BY <1>2, <1>8 DEF p

\* A send whose bytes are not written leaves it.
LEMMA FlowCut ==
  ASSUME NEW u \in Seq(Message), NEW q \in Seq(Sends), NEW r \in Seq(Sends), OnlyHead(q),
         NEW i \in 1 .. Len(q), ~q[i].written, Len(r) = Len(q) - 1,
         \A k \in 1 .. Len(q) - 1 : r[k] = IF k < i THEN q[k] ELSE q[k + 1]
  PROVE  /\ OnlyHead(r)
         /\ \E n : Dropped(Flow(u, q), Flow(u, r), n) /\ Flow(u, q)[n] = q[i].message
<1>1. Len(q) \in Nat \ {0} /\ DOMAIN q = 1 .. Len(q) /\ DOMAIN r = 1 .. Len(q) - 1 /\ q # <<>> OBVIOUS
<1>2. ASSUME NEW k \in 1 .. Len(q) - 1, r[k].written PROVE k = 1 /\ k < i
  <2>1. CASE k < i
    <3>1. k \in DOMAIN q /\ q[k].written BY <1>1, <1>2, <2>1
    <3> QED BY <2>1, <3>1 DEF OnlyHead
  <2>2. CASE ~(k < i)
    <3>1. k + 1 \in DOMAIN q /\ q[k + 1].written /\ k + 1 # 1 BY <1>1, <1>2, <2>2
    <3> QED BY <3>1 DEF OnlyHead
  <2> QED BY <2>1, <2>2
<1>3. OnlyHead(r) BY <1>1, <1>2 DEF OnlyHead
<1> DEFINE d == Done(q)
<1>4. d \in {0, 1} /\ (d = 1 => i > 1) BY <1>1 DEF Done
<1>5. Done(r) = d
  <2>1. CASE q[1].written
    <3>1. i > 1 /\ 1 \in 1 .. Len(q) - 1 BY <1>1, <2>1
    <3>2. r[1] = q[1] /\ r # <<>> BY <1>1, <3>1
    <3> QED BY <1>1, <2>1, <3>2 DEF Done
  <2>2. CASE ~q[1].written
    <3>1. r # <<>> => 1 \in 1 .. Len(q) - 1 BY <1>1
    <3>2. ASSUME r # <<>>, r[1].written PROVE FALSE
      <4>1. 1 < i BY <1>2, <3>1, <3>2
      <4>2. r[1] = q[1] BY <3>1, <3>2, <4>1
      <4> QED BY <2>2, <3>2, <4>2
    <3> QED BY <2>2, <3>2 DEF Done
  <2> QED BY <2>1, <2>2
<1> DEFINE p == Flow(u, q)
           s == Flow(u, r)
           l == Len(u)
           n == l + (i - d)
<1>6. /\ l \in Nat /\ Len(p) = l + (Len(q) - d)
      /\ \A k \in 1 .. l : p[k] = u[k]
      /\ \A k \in 1 .. Len(q) - d : p[l + k] = q[k + d].message
  BY FlowIs
<1>7. /\ Len(s) = l + ((Len(q) - 1) - d)
      /\ \A k \in 1 .. l : s[k] = u[k]
      /\ \A k \in 1 .. (Len(q) - 1) - d : s[l + k] = r[k + d].message
  <2>1. /\ Len(s) = Len(u) + (Len(r) - Done(r))
        /\ \A k \in 1 .. Len(u) : s[k] = u[k]
        /\ \A k \in 1 .. Len(r) - Done(r) : s[Len(u) + k] = r[k + Done(r)].message
    BY FlowIs
  <2> HIDE DEF s, d
  <2> QED BY <1>5, <2>1
<1> HIDE DEF p, s, d, l
<1>8. Len(p) \in Nat /\ Len(s) = Len(p) - 1 /\ n \in 1 .. Len(p) BY <1>1, <1>4, <1>6, <1>7
<1>9. ASSUME NEW k \in 1 .. Len(s) PROVE s[k] = IF k < n THEN p[k] ELSE p[k + 1]
  <2>1. CASE k \in 1 .. l
    <3>1. k < n BY <1>1, <1>4, <1>6, <2>1
    <3> QED BY <1>6, <1>7, <2>1, <3>1
  <2>2. CASE k \notin 1 .. l
    <3>1. PICK c \in 1 .. (Len(q) - 1) - d : k = l + c
      <4>1. k - l \in 1 .. (Len(q) - 1) - d /\ k = l + (k - l) BY <1>1, <1>4, <1>6, <1>7, <2>2
      <4> QED BY <4>1
    <3>2. s[k] = r[c + d].message /\ c + d \in 1 .. Len(q) - 1 BY <1>1, <1>4, <1>7, <3>1
    <3>3. CASE c + d < i
      <4>1. k < n /\ c \in 1 .. Len(q) - d BY <1>1, <1>4, <1>6, <3>1, <3>3
      <4>2. r[c + d] = q[c + d] BY <3>2, <3>3
      <4>3. p[k] = q[c + d].message BY <1>6, <3>1, <4>1
      <4> QED BY <3>2, <4>1, <4>2, <4>3
    <3>4. CASE ~(c + d < i)
      <4>1. ~(k < n) /\ c + 1 \in 1 .. Len(q) - d /\ k + 1 = l + (c + 1) /\ (c + 1) + d = (c + d) + 1
        BY <1>1, <1>4, <1>6, <3>1, <3>4
      <4>2. r[c + d] = q[(c + d) + 1] BY <3>2, <3>4
      <4>3. p[k + 1] = q[(c + d) + 1].message BY <1>6, <4>1
      <4> QED BY <3>2, <4>1, <4>2, <4>3
    <3> QED BY <3>3, <3>4
  <2> QED BY <2>1, <2>2
<1>10. p[n] = q[i].message
  <2>1. i - d \in 1 .. Len(q) - d /\ (i - d) + d = i BY <1>1, <1>4
  <2> QED BY <1>6, <2>1
<1> HIDE DEF n
<1>11. Dropped(p, s, n) BY <1>8, <1>9 DEF Dropped
<1> QED BY <1>3, <1>10, <1>11 DEF p, s

\* The server takes the first.
LEMMA FlowRead ==
  ASSUME NEW u \in Seq(Message), NEW q \in Seq(Sends), u # <<>>
  PROVE  /\ Flow(u, q) # <<>> /\ Head(Flow(u, q)) = Head(u)
         /\ Flow(Tail(u), q) = Tail(Flow(u, q))
<1> DEFINE b == Flow(u, q)
           d == Done(q)
           v == Tail(u)
           p == Tail(b)
<1>1. /\ b \in Seq(Message) /\ Len(b) = Len(u) + (Len(q) - d)
      /\ \A k \in 1 .. Len(u) : b[k] = u[k]
      /\ \A k \in 1 .. Len(q) - d : b[Len(u) + k] = q[k + d].message
  BY FlowIs
<1>2. d \in 0 .. Len(q) /\ Len(q) \in Nat BY WaitingIs
<1>3. /\ v \in Seq(Message) /\ Len(v) = Len(u) - 1 /\ Len(u) \in Nat \ {0} /\ Head(u) = u[1]
      /\ \A i \in 1 .. Len(v) : v[i] = u[i + 1]
  BY Shifted
<1>9. d = Done(q) OBVIOUS
<1> HIDE DEF b, d, v
<1>4. b # <<>> /\ 1 \in 1 .. Len(u) BY <1>1, <1>2, <1>3
<1>5. /\ p \in Seq(Message) /\ Len(p) = Len(b) - 1 /\ Head(b) = b[1]
      /\ \A i \in 1 .. Len(p) : p[i] = b[i + 1]
  BY <1>1, <1>4, Shifted
<1> HIDE DEF p
<1>6. Len(p) = Len(v) + (Len(q) - d) BY <1>1, <1>2, <1>3, <1>5
<1>7. ASSUME NEW k \in 1 .. Len(v) PROVE p[k] = v[k]
  <2>1. k + 1 \in 1 .. Len(u) /\ k \in 1 .. Len(p) BY <1>1, <1>2, <1>3, <1>6
  <2> QED BY <1>1, <1>3, <1>5, <2>1
<1>8. ASSUME NEW k \in 1 .. Len(q) - d PROVE p[Len(v) + k] = q[k + d].message
  <2>1. Len(v) + k \in 1 .. Len(p) /\ (Len(v) + k) + 1 = Len(u) + k BY <1>1, <1>2, <1>3, <1>6
  <2> QED BY <1>1, <1>5, <2>1
<1>10. p = Flow(v, q)
  <2>1. /\ Len(p) = Len(v) + (Len(q) - Done(q))
        /\ \A k \in 1 .. Len(q) - Done(q) : p[Len(v) + k] = q[k + Done(q)].message
    BY <1>6, <1>8, <1>9
  <2> QED BY <1>3, <1>5, <1>7, <2>1, FlowSame
<1> QED BY <1>1, <1>3, <1>4, <1>5, <1>10 DEF b, p, v

-----------------------------------------------------------------------------
(* The steps that move the queue.                                          *)

F == Flow(up, queue)

LEMMA FlowTyped == Typed => F \in Seq(Message)
BY FlowIs DEF F, Typed, QueueTyped

LEMMA EnqueuedMoves ==
  ASSUME Typed, HeadWrites, NEW by \in Openers \cup {"holder"}, NEW m \in Message, Enqueued(by, m), up' = up
  PROVE  F' = Append(F, m) /\ HeadWrites'
<1> DEFINE s == [by |-> by, message |-> m, written |-> FALSE]
<1>1. queue \in Seq(Sends) /\ up \in Seq(Message) BY DEF Typed, QueueTyped
<1>2. s \in Sends /\ ~s.written /\ s.message = m BY DEF Sends
<1>3. queue' = Append(queue, s) BY DEF Enqueued
<1> HIDE DEF s
<1>4. OnlyHead(queue) BY DEF HeadWrites, OnlyHead
<1>5. Flow(up, queue') = Append(Flow(up, queue), m) /\ OnlyHead(queue')
  <2>1. m = s.message BY <1>2
  <2>4. Flow(up, queue') = Append(Flow(up, queue), s.message) BY <1>1, <1>2, <1>3, FlowQueued, Zenon
  <2>2. Flow(up, queue') = Append(Flow(up, queue), m) BY <2>1, <2>4
  <2>3. OnlyHead(queue') BY <1>1, <1>2, <1>3, <1>4, HeadQueued, Zenon
  <2> QED BY <2>2, <2>3
<1> QED BY <1>5 DEF F, HeadWrites, OnlyHead

LEMMA DrainedMoves ==
  ASSUME Typed, HeadWrites, NEW by, Drained(by), up' = up
  PROVE  F' = F /\ HeadWrites'
<1>1. queue \in Seq(Sends) /\ up \in Seq(Message) BY DEF Typed, QueueTyped
<1>2. queue # <<>> /\ Head(queue).written /\ queue' = Tail(queue) BY DEF Drained
<1>3. /\ queue' \in Seq(Sends) /\ Len(queue') = Len(queue) - 1 /\ queue[1].written
      /\ \A k \in 1 .. Len(queue') : queue'[k] = queue[k + 1]
  BY <1>1, <1>2, Shifted
<1>4. OnlyHead(queue) BY DEF HeadWrites, OnlyHead
<1>5. Flow(up, queue') = Flow(up, queue) /\ OnlyHead(queue') BY <1>1, <1>2, <1>3, <1>4, FlowDrained
<1> QED BY <1>5 DEF F, HeadWrites, OnlyHead

LEMMA WriteMoves ==
  ASSUME Typed, HeadWrites, Write
  PROVE  F' = F /\ HeadWrites'
<1>1. queue \in Seq(Sends) /\ up \in Seq(Message) BY DEF Typed, QueueTyped
<1>2. /\ queue # <<>> /\ ~Head(queue).written /\ up' = Append(up, Head(queue).message)
      /\ queue' = [queue EXCEPT ![1].written = TRUE]
  BY DEF Write
<1>3. queue' \in Seq(Sends) BY QueueKept DEF Next, QueueTyped
<1>4. /\ ~queue[1].written /\ up' = Append(up, queue[1].message)
      /\ queue' = [queue EXCEPT ![1] = [queue[1] EXCEPT !.written = TRUE]]
  BY <1>1, <1>2, Shifted
<1>5. OnlyHead(queue) BY DEF HeadWrites, OnlyHead
<1>6. Flow(up', queue') = Flow(up, queue) /\ OnlyHead(queue')
  BY <1>1, <1>2, <1>3, <1>4, <1>5, FlowWritten
<1> QED BY <1>6 DEF F, HeadWrites, OnlyHead

\* A send cut off takes its message with it, unless its bytes are written.
LEMMA CutMoves ==
  ASSUME Typed, HeadWrites, NEW by, Cut(by), up' = up
  PROVE  /\ HeadWrites'
         /\ \/ F' = F /\ lost' = lost
            \/ \E n, x : /\ Dropped(F, F', n) /\ F[n] = x
                         /\ \/ x.kind = "close" /\ lost' = lost
                            \/ lost' = [lost EXCEPT ![x.file] = TRUE]
<1>1. queue \in Seq(Sends) /\ up \in Seq(Message) BY DEF Typed, QueueTyped
<1>2. PICK i \in DOMAIN queue :
        /\ queue' = RemoveAt(queue, i)
        /\ lost' = IF queue[i].written \/ queue[i].message.kind = "close"
                     THEN lost
                     ELSE [lost EXCEPT ![queue[i].message.file] = TRUE]
  BY DEF Cut
<1>3. /\ i \in 1 .. Len(queue) /\ Len(queue) \in Nat /\ queue' \in Seq(Sends)
      /\ Len(queue') = Len(queue) - 1
      /\ \A k \in 1 .. Len(queue) - 1 : queue'[k] = IF k < i THEN queue[k] ELSE queue[k + 1]
  <2>1. i \in 1 .. Len(queue) /\ Len(queue) \in Nat BY <1>1, <1>2
  <2> QED BY <1>1, <1>2, <2>1, RemovedIs
<1>4. OnlyHead(queue) BY DEF HeadWrites, OnlyHead
<1>5. CASE queue[i].written
  <2>1. i = 1 /\ queue # <<>> BY <1>1, <1>2, <1>4, <1>5 DEF OnlyHead
  <2>2. \A k \in 1 .. Len(queue') : queue'[k] = queue[k + 1] BY <1>3, <2>1
  <2>3. Flow(up, queue') = Flow(up, queue) /\ OnlyHead(queue')
    BY <1>1, <1>3, <1>4, <1>5, <2>1, <2>2, FlowDrained
  <2>4. lost' = lost BY <1>2, <1>5
  <2> QED BY <2>3, <2>4 DEF F, HeadWrites, OnlyHead
<1>6. CASE ~queue[i].written
  <2>1. /\ OnlyHead(queue')
        /\ \E n : Dropped(Flow(up, queue), Flow(up, queue'), n) /\ Flow(up, queue)[n] = queue[i].message
    BY <1>1, <1>3, <1>4, <1>6, FlowCut
  <2>2. PICK n : Dropped(F, F', n) /\ F[n] = queue[i].message BY <2>1 DEF F
  <2>3. HeadWrites' BY <2>1 DEF HeadWrites, OnlyHead
  <2>4. PICK x : x = queue[i].message OBVIOUS
  <2>5. (x.kind = "close" /\ lost' = lost) \/ lost' = [lost EXCEPT ![x.file] = TRUE]
    BY <1>2, <1>6, <2>4
  <2> QED BY <2>2, <2>3, <2>4, <2>5, Zenon
<1> QED BY <1>5, <1>6

\* The server's model may be another, if a whole text is on its way.
LEMMA LeadsFollows ==
  ASSUME NEW p \in Seq(Message), NEW m, NEW n, NEW f, NEW text,
         Leads(p, m, f, text), m.owner # "client"
  PROVE  Leads(p, n, f, text)
<1>1. PICK j \in About(p, f) : Whole(p[j]) BY DEF Leads
<1>2. About(p, f) \subseteq 1 .. Len(p) /\ Len(p) \in Nat BY DEF About
<1>3. ASSUME NEW k \in Nat, j < k, NEW t, Meets(p, m.text, f, k, t)
      PROVE  Meets(p, n.text, f, k, t)
  BY <1>1, <1>3 DEF Meets
<1>4. Meets(p, n.text, f, Len(p) + 1, text)
  <2>1. Len(p) + 1 \in Nat /\ j < Len(p) + 1 BY <1>1, <1>2
  <2>2. Meets(p, m.text, f, Len(p) + 1, text) BY DEF Leads
  <2> QED BY <1>3, <2>1, <2>2
<1>5. ASSUME NEW k \in About(p, f)
      PROVE  \/ Whole(p[k])
             \/ \E l \in About(p, f) : l > k /\ Whole(p[l])
             \/ p[k].kind = "change" /\ Meets(p, n.text, f, k, p[k].base)
  <2>1. CASE Whole(p[k]) \/ \E l \in About(p, f) : l > k /\ Whole(p[l]) BY <2>1
  <2>2. CASE ~(Whole(p[k]) \/ \E l \in About(p, f) : l > k /\ Whole(p[l]))
    <3>1. p[k].kind = "change" /\ Meets(p, m.text, f, k, p[k].base) BY <2>2 DEF Leads
    <3>2. k \in Nat /\ j < k BY <1>1, <1>2, <2>2
    <3>3. Meets(p, n.text, f, k, p[k].base) BY <1>3, <3>1, <3>2
    <3> QED BY <3>1, <3>3
  <2> QED BY <2>1, <2>2
<1> QED BY <1>1, <1>4, <1>5 DEF Leads

-----------------------------------------------------------------------------
(* The texts arrive.                                                       *)

PushInv == Typed /\ HeadWrites /\ Arriving

\* What is on its way of F leads to TEXT.
Led(f, text) == lost[f] \/ Leads(F, model[f], f, text)

LedNext(f, text) == lost'[f] \/ Leads(F', model'[f], f, text)

LEMMA ArrivingIs == Arriving <=> \A f \in open : Led(f, doc[f].content)
BY PipeIsFlow DEF Arriving, Led, F

LEMMA ArrivingNext == Arriving' <=> \A f \in open' : LedNext(f, doc'[f].content)
<1>1. Pipe' = F' BY DEF Pipe, Unwritten, F, Flow, Waiting
<1> QED BY <1>1 DEF Arriving, LedNext

\* Only two actions commit a text.
LEMMA ContentKept ==
  ASSUME Typed, [Next]_vars
  PROVE  \/ open' \subseteq open /\ \A f \in open' : doc'[f].content = doc[f].content
         \/ \E o \in Openers : OpenRegisters(o)
         \/ SyncCommits
<1> DEFINE Same == open' \subseteq open /\ \A f \in open' : doc'[f].content = doc[f].content
<1>0. open \subseteq Files /\ doc \in [Files -> Docs] /\ sync.file \in Files
  BY DEF Typed, DocTyped, SyncTyped, Syncs
<1>1. CASE UNCHANGED <<open, doc>> BY <1>1
<1>2. ASSUME NEW f \in Files, Marked(f), open' = open PROVE Same BY <1>0, <1>2 DEF Marked, Docs
<1>3. ASSUME NEW f \in Files, OpenAgain(f) \/ CloseStarts(f) PROVE Same
  <2>1. CASE OpenAgain(f) BY <1>2, <2>1 DEF OpenAgain
  <2>2. CASE CloseStarts(f) BY <1>0, <2>2 DEF CloseStarts
  <2> QED BY <1>3, <2>1, <2>2
<1>4. ASSUME NEW o \in Openers, OpenResumes(o) PROVE Same
  <2>1. opener[o].file \in Files BY DEF Typed, OpenerTyped, Opening
  <2>2. open' = open /\ (Marked(opener[o].file) \/ doc' = doc) BY <1>4 DEF OpenResumes
  <2> QED BY <1>2, <2>1, <2>2
<1>5. CASE SyncFailsToRead \/ SyncSettles \/ SyncSent
  <2>1. open' = open BY <1>5 DEF SyncFailsToRead, SyncSettles, SyncSent
  <2>2. \A f \in open : doc'[f].content = doc[f].content
    BY <1>0, <1>5 DEF SyncFailsToRead, SyncSettles, SyncSent, Docs
  <2> QED BY <2>1, <2>2
<1>6. CASE RejectionRead
  <2>1. open' = open /\ \A f \in open : doc'[f] = [doc[f] EXCEPT !.sig = None, !.full = TRUE]
    BY <1>0, <1>6 DEF RejectionRead
  <2>2. \A f \in open : doc[f] \in Docs BY <1>0
  <2> QED BY <2>1, <2>2 DEF Docs
<1>7. CASE Terminate BY <1>7 DEF Terminate
<1> QED BY <1>1, <1>3, <1>4, <1>5, <1>6, <1>7, DocWriters

\* A file none of the steps of which move, and whose model stays.
LEMMA LedOther ==
  ASSUME Typed, NEW f \in Files, NEW text, Led(f, text), NEW m \in Message, m.file # f,
         F' = Append(F, m), model'[f] = model[f], lost'[f] = lost[f]
  PROVE  LedNext(f, text)
<1>1. F \in Seq(Message) BY FlowTyped
<1>2. Leads(F, model[f], f, text) => Leads(Append(F, m), model[f], f, text) BY <1>1, LeadsOther
<1> QED BY <1>2 DEF Led, LedNext

\* A document is registered: its whole text is the last on the way.
LEMMA RegistersArrives ==
  ASSUME PushInv, NEW o \in Openers, OpenRegisters(o)
  PROVE  HeadWrites' /\ Arriving'
<1> DEFINE f == opener[o].file
           text == opener[o].text
           m == [kind |-> "open", file |-> f, text |-> text]
<1>0. Typed /\ HeadWrites /\ \A g \in open : Led(g, doc[g].content) BY ArrivingIs DEF PushInv
<1>1. /\ f \in Files /\ text \in Text /\ open' = open \cup {f} /\ up' = up /\ model' = model
      /\ open \subseteq Files /\ doc \in [Files -> Docs] /\ f \notin open /\ lost \in [Files -> BOOLEAN]
  BY <1>0 DEF Typed, OpenerTyped, Opening, DocTyped, QueueTyped, OpenRegisters, OpenedMeanwhile, wire
<1>2. doc'[f].content = text /\ \A g \in open : doc'[g] = doc[g] BY <1>1 DEF OpenRegisters
<1>3. CASE alive
  <2>1. m \in Message /\ Whole(m) /\ m.file = f /\ m.text = text BY <1>1 DEF Message, Whole
  <2>2. Enqueued(o, m) BY <1>3 DEF OpenRegisters
  <2>3. F' = Append(F, m) /\ HeadWrites' BY <1>0, <1>1, <2>1, <2>2, EnqueuedMoves
  <2>4. lost' = [lost EXCEPT ![f] = FALSE] BY <2>1, <2>2 DEF Enqueued
  <2> HIDE DEF m, f, text
  <2>5. LedNext(f, text)
    <3>1. F \in Seq(Message) BY <1>0, FlowTyped
    <3>2. Leads(Append(F, m), model'[f], m.file, m.text) BY <2>1, <3>1, LeadsWhole
    <3> QED BY <2>1, <2>3, <3>2 DEF Led, LedNext
  <2>6. ASSUME NEW g \in open PROVE LedNext(g, doc[g].content)
    <3>1. g \in Files /\ m.file # g /\ model'[g] = model[g] /\ lost'[g] = lost[g] BY <1>1, <2>1, <2>4
    <3>2. PICK t : t = doc[g].content OBVIOUS
    <3>3. LedNext(g, t) BY <1>0, <2>1, <2>3, <3>1, <3>2, LedOther
    <3> QED BY <3>2, <3>3
  <2>7. \A g \in open' : LedNext(g, doc'[g].content) BY <1>1, <1>2, <2>5, <2>6
  <2> QED BY <2>3, <2>7, ArrivingNext
<1>4. CASE ~alive
  <2>1. queue' = queue /\ lost' = [lost EXCEPT ![f] = TRUE] BY <1>4 DEF OpenRegisters
  <2>2. F' = F /\ HeadWrites' BY <1>0, <1>1, <2>1 DEF F, HeadWrites
  <2> HIDE DEF f, text
  <2>3. \A g \in open' : LedNext(g, doc'[g].content)
    <3>1. lost'[f] BY <1>1, <2>1
    <3>2. \A g \in open : lost'[g] = lost[g] BY <1>1, <2>1
    <3> QED BY <1>0, <1>1, <1>2, <2>2, <3>1, <3>2 DEF Led, LedNext
  <2> QED BY <2>2, <2>3, ArrivingNext
<1> QED BY <1>3, <1>4

\* A sync commits a text: the whole, or a diff of the one committed before.
LEMMA CommitArrives ==
  ASSUME PushInv, SyncCommits
  PROVE  HeadWrites' /\ Arriving'
<1> DEFINE f == sync.file
           text == sync.text
           m == Push(f)
<1>0. Typed /\ HeadWrites /\ \A g \in open : Led(g, doc[g].content) BY ArrivingIs DEF PushInv
<1>1. /\ f \in open /\ open' = open /\ up' = up /\ model' = model
      /\ open \subseteq Files /\ doc \in [Files -> Docs] /\ lost \in [Files -> BOOLEAN]
  BY <1>0 DEF Typed, SyncTyped, DocTyped, QueueTyped, SyncCommits, wire
<1>2. doc'[f].content = text /\ \A g \in open \ {f} : doc'[g] = doc[g]
  BY <1>1 DEF SyncCommits, Docs
<1>3. CASE alive
  <2>1. /\ m \in Message /\ m.file = f /\ m.text = text
        /\ Whole(m) \/ (m.kind = "change" /\ m.base = doc[f].content)
    BY <1>0, <1>1, PushTyped DEF Push, Whole
  <2>2. Enqueued("holder", m) BY <1>3 DEF SyncCommits
  <2>3. F' = Append(F, m) /\ HeadWrites' BY <1>0, <1>1, <2>1, <2>2, EnqueuedMoves
  <2>4. (Whole(m) /\ lost' = [lost EXCEPT ![f] = FALSE]) \/ (~Whole(m) /\ lost' = lost) BY <2>1, <2>2 DEF Enqueued
  <2> HIDE DEF m, f, text
  <2>5. LedNext(f, text)
    <3>1. F \in Seq(Message) BY <1>0, FlowTyped
    <3>2. CASE Whole(m)
      <4>1. Leads(Append(F, m), model'[f], m.file, m.text) BY <2>1, <3>1, <3>2, LeadsWhole
      <4> QED BY <2>1, <2>3, <4>1 DEF LedNext
    <3>3. CASE ~Whole(m)
      <4>1. lost' = lost /\ m.kind = "change" BY <2>1, <2>4, <3>3
      <4>2. CASE lost[f] BY <4>1, <4>2 DEF LedNext
      <4>3. CASE Leads(F, model[f], f, doc[f].content)
        <5>1. Leads(F, model[f], m.file, m.base) BY <2>1, <3>3, <4>3
        <5>2. Leads(Append(F, m), model[f], m.file, m.text) BY <2>1, <3>1, <4>1, <5>1, LeadsChange
        <5> QED BY <1>1, <2>1, <2>3, <5>2 DEF LedNext
      <4> QED BY <1>0, <1>1, <4>2, <4>3 DEF Led
    <3> QED BY <3>2, <3>3
  <2>6. ASSUME NEW g \in open \ {f} PROVE LedNext(g, doc[g].content)
    <3>1. g \in Files /\ m.file # g /\ model'[g] = model[g] /\ lost'[g] = lost[g] BY <1>1, <2>1, <2>4
    <3>2. PICK t : t = doc[g].content OBVIOUS
    <3>3. LedNext(g, t) BY <1>0, <2>1, <2>3, <3>1, <3>2, LedOther
    <3> QED BY <3>2, <3>3
  <2>7. \A g \in open' : LedNext(g, doc'[g].content) BY <1>1, <1>2, <2>5, <2>6
  <2> QED BY <2>3, <2>7, ArrivingNext
<1>4. CASE ~alive
  <2>1. queue' = queue /\ lost' = [lost EXCEPT ![f] = TRUE] BY <1>4 DEF SyncCommits
  <2>2. F' = F /\ HeadWrites' BY <1>0, <1>1, <2>1 DEF F, HeadWrites
  <2> HIDE DEF f, text
  <2>3. \A g \in open' : LedNext(g, doc'[g].content)
    <3>1. lost'[f] BY <1>1, <2>1
    <3>2. \A g \in open \ {f} : lost'[g] = lost[g] BY <1>1, <2>1
    <3> QED BY <1>0, <1>1, <1>2, <2>2, <3>1, <3>2 DEF Led, LedNext
  <2> QED BY <2>2, <2>3, ArrivingNext
<1> QED BY <1>3, <1>4

\* Nothing is committed: what each file is led to stays.
LEMMA SameArrives ==
  ASSUME PushInv, open' \subseteq open, \A f \in open' : doc'[f].content = doc[f].content,
         \A f \in open' : \A t : Led(f, t) => LedNext(f, t)
  PROVE  Arriving'
<1>1. \A f \in open : Led(f, doc[f].content) BY ArrivingIs DEF PushInv
<1>2. ASSUME NEW f \in open' PROVE LedNext(f, doc'[f].content)
  <2>1. PICK t : t = doc[f].content OBVIOUS
  <2>2. LedNext(f, t) BY <1>1, <2>1
  <2> QED BY <2>1, <2>2
<1> QED BY <1>2, ArrivingNext

\* A close takes its place behind the messages of other files.
LEMMA CloseLed ==
  ASSUME Typed, HeadWrites, NEW f \in Files, CloseStarts(f)
  PROVE  HeadWrites' /\ \A g \in open' : \A t : Led(g, t) => LedNext(g, t)
<1> DEFINE m == [kind |-> "close", file |-> f]
<1>1. m \in Message /\ ~Whole(m) /\ m.file = f BY DEF Message, Whole
<1>2. Enqueued("holder", m) /\ up' = up /\ model' = model /\ open' = open \ {f} /\ open \subseteq Files
  BY DEF CloseStarts, wire, Typed, DocTyped
<1>3. F' = Append(F, m) /\ HeadWrites' BY <1>1, <1>2, EnqueuedMoves
<1>4. lost' = lost BY <1>1, <1>2 DEF Enqueued
<1> HIDE DEF m
<1>5. ASSUME NEW g \in open', NEW t, Led(g, t) PROVE LedNext(g, t)
  <2>1. g \in Files /\ m.file # g BY <1>1, <1>2
  <2> QED BY <1>1, <1>2, <1>3, <1>4, <1>5, <2>1, LedOther
<1> QED BY <1>3, <1>5

LEMMA CutLed ==
  ASSUME Typed, HeadWrites, NEW by, Cut(by), UNCHANGED wire
  PROVE  HeadWrites' /\ \A g \in Files : \A t : Led(g, t) => LedNext(g, t)
<1>0. up' = up /\ model' = model /\ lost \in [Files -> BOOLEAN] BY DEF wire, Typed, QueueTyped
<1>1. /\ HeadWrites'
      /\ \/ F' = F /\ lost' = lost
         \/ \E n, x : /\ Dropped(F, F', n) /\ F[n] = x
                      /\ \/ x.kind = "close" /\ lost' = lost
                         \/ lost' = [lost EXCEPT ![x.file] = TRUE]
  BY <1>0, CutMoves
<1>2. CASE F' = F /\ lost' = lost BY <1>0, <1>1, <1>2 DEF Led, LedNext
<1>3. ASSUME NEW n, NEW x, Dropped(F, F', n), F[n] = x,
             (x.kind = "close" /\ lost' = lost) \/ lost' = [lost EXCEPT ![x.file] = TRUE]
      PROVE  \A g \in Files : \A t : Led(g, t) => LedNext(g, t)
  <2>1. F \in Seq(Message) BY FlowTyped
  <2>2. F' \in Seq(Message)
    <3>1. queue' \in Seq(Sends) /\ up' \in Seq(Message)
      <4>1. queue \in Seq(Sends) /\ up \in Seq(Message) BY DEF Typed, QueueTyped
      <4>2. PICK i \in DOMAIN queue : queue' = RemoveAt(queue, i) BY DEF Cut
      <4>3. i \in 1 .. Len(queue) BY <4>1, <4>2
      <4> QED BY <1>0, <4>1, <4>2, <4>3, RemovedIs
    <3> QED BY <3>1, FlowIs DEF F
  <2>3. ASSUME NEW g \in Files, NEW t, Led(g, t) PROVE LedNext(g, t)
    <3>1. CASE lost'[g] BY <3>1 DEF LedNext
    <3>2. CASE ~lost'[g]
      <4>1. ~lost[g] /\ (x.kind = "close" \/ x.file # g) BY <1>0, <1>3, <3>2
      <4>2. Leads(F, model[g], g, t) BY <2>3, <4>1 DEF Led
      <4>3. Leads(F', model[g], g, t) BY <1>3, <2>1, <2>2, <4>1, <4>2, LeadsDropped
      <4> QED BY <1>0, <4>3 DEF LedNext
    <3> QED BY <3>1, <3>2
  <2> QED BY <2>3
<1> QED BY <1>1, <1>2, <1>3

\* The server reads the first message: a whole text, or a diff of its model's
\* text, makes the model the client's.
LEMMA ReadLed ==
  ASSUME Typed, HeadWrites, ServerReads
  PROVE  HeadWrites' /\ \A g \in Files : \A t : Led(g, t) => LedNext(g, t)
<1> DEFINE h == Head(up)
           f == h.file
<1>1. /\ queue \in Seq(Sends) /\ up \in Seq(Message) /\ up # <<>> /\ model \in [Files -> Models]
      /\ queue' = queue /\ lost' = lost /\ up' = Tail(up)
  BY DEF Typed, QueueTyped, ModelTyped, ServerReads, client, history
<1>2. h \in Message /\ f \in Files
  <2>1. h \in Message BY <1>1, Shifted
  <2> QED BY <2>1 DEF Message
<1>3. /\ F # <<>> /\ Head(F) = h /\ F' = Tail(F) /\ F \in Seq(Message)
  <2>1. Flow(up, queue) # <<>> /\ Head(Flow(up, queue)) = Head(up) /\ Flow(Tail(up), queue) = Tail(Flow(up, queue))
    BY <1>1, FlowRead
  <2> QED BY <1>1, <2>1, FlowTyped DEF F
<1>4. HeadWrites' BY <1>1 DEF HeadWrites
<1>5. PICK owner \in Owners, text \in Text \cup {Garbled} :
        /\ Read(h, owner, text)
        /\ model' = [model EXCEPT ![f] = [owner |-> owner, text |-> text]]
  BY DEF ServerReads, Owners
<1>6. model'[f] = [owner |-> owner, text |-> text] /\ \A g \in Files \ {f} : model'[g] = model[g]
  BY <1>1, <1>2, <1>5
<1>7. Whole(h) \/ (h.kind = "change" /\ h.base = model[f].text)
        => model'[f].owner = "client" /\ model'[f].text = h.text
  BY <1>5, <1>6 DEF Read
<1>8. model'[f] \in Models /\ model[f] \in Models BY <1>1, <1>2, <1>6 DEF Models
<1> HIDE DEF h, f
<1>9. f = h.file BY DEF f
<1>10. ASSUME NEW t, Leads(F, model[f], f, t) PROVE Leads(F', model'[f], f, t)
  <2>1. Leads(F, model[f], Head(F).file, t) BY <1>3, <1>9, <1>10
  <2>2. Whole(Head(F)) \/ (Head(F).kind = "change" /\ Head(F).base = model[f].text)
          => model'[f].owner = "client" /\ model'[f].text = Head(F).text
    BY <1>3, <1>7
  <2>3. PICK m \in Models, n \in Models : m = model[f] /\ n = model'[f] BY <1>8
  <2>4. Leads(Tail(F), n, Head(F).file, t) BY <1>3, <2>1, <2>2, <2>3, LeadsRead
  <2> QED BY <1>3, <1>9, <2>3, <2>4
<1>11. ASSUME NEW g \in Files \ {f}, NEW t, Leads(F, model[g], g, t) PROVE Leads(F', model'[g], g, t)
  <2>1. /\ F' \in Seq(Message) /\ Len(F') = Len(F) - 1 /\ Len(F) \in Nat \ {0} /\ F[1] = h
        /\ \A k \in 1 .. Len(F') : F'[k] = F[k + 1]
    BY <1>3, Shifted
  <2>2. Dropped(F, F', 1) BY <2>1 DEF Dropped
  <2>3. F[1].file # g BY <1>9, <2>1
  <2>4. Leads(F', model[g], g, t) BY <1>3, <1>11, <2>1, <2>2, <2>3, LeadsDropped
  <2> QED BY <1>6, <2>4
<1>12. ASSUME NEW g \in Files, NEW t, Led(g, t) PROVE LedNext(g, t)
  <2>1. CASE lost[g] BY <1>1, <2>1 DEF LedNext
  <2>2. CASE Leads(F, model[g], g, t)
    <3>1. Leads(F', model'[g], g, t) BY <1>10, <1>11, <2>2
    <3> QED BY <3>1 DEF LedNext
  <2> QED BY <1>12, <2>1, <2>2 DEF Led
<1> QED BY <1>4, <1>12

\* A model that follows the disk is not the client's.
LEMMA FollowLed ==
  ASSUME Typed, NEW f \in Files, ServerFollows(f)
  PROVE  \A g \in Files : \A t : Led(g, t) => LedNext(g, t)
<1>1. F' = F /\ lost' = lost BY DEF ServerFollows, client, history, F
<1>2. F \in Seq(Message) BY FlowTyped
<1>3. model[f].owner # "client" /\ \A g \in Files \ {f} : model'[g] = model[g]
  BY DEF ServerFollows, Typed, ModelTyped
<1>4. ASSUME NEW g \in Files, NEW t, Led(g, t) PROVE LedNext(g, t)
  <2>1. CASE lost[g] BY <1>1, <2>1 DEF LedNext
  <2>2. CASE Leads(F, model[g], g, t) /\ g # f
    BY <1>1, <1>3, <2>2 DEF LedNext
  <2>3. CASE Leads(F, model[f], f, t) /\ g = f
    <3>1. Leads(F, model'[f], f, t) BY <1>2, <1>3, <2>3, LeadsFollows
    <3> QED BY <1>1, <2>3, <3>1 DEF LedNext
  <2> QED BY <1>4, <2>1, <2>2, <2>3 DEF Led
<1> QED BY <1>4

LEMMA PushKept == ASSUME PushInv, [Next]_vars PROVE HeadWrites' /\ Arriving'
<1>0. Typed /\ HeadWrites /\ open \subseteq Files BY DEF PushInv, Typed, DocTyped
<1>1. ASSUME NEW o \in Openers, OpenRegisters(o) PROVE HeadWrites' /\ Arriving'
  BY <1>1, RegistersArrives
<1>2. CASE SyncCommits BY <1>2, CommitArrives
<1>3. CASE open' \subseteq open /\ \A f \in open' : doc'[f].content = doc[f].content
  <2>0. open' \subseteq Files BY <1>0, <1>3
  <2>1. (HeadWrites' /\ \A f \in open' : \A t : Led(f, t) => LedNext(f, t)) => HeadWrites' /\ Arriving'
    BY <1>3, SameArrives
  <2>2. ASSUME NEW f \in Files, CloseStarts(f)
        PROVE  HeadWrites' /\ \A g \in open' : \A t : Led(g, t) => LedNext(g, t)
    BY <1>0, <2>2, CloseLed
  <2>3. ASSUME NEW by, Drained(by), UNCHANGED <<wire, lost>>
        PROVE  HeadWrites' /\ \A g \in open' : \A t : Led(g, t) => LedNext(g, t)
    <3>1. up' = up /\ model' = model /\ lost' = lost BY <2>3 DEF wire
    <3>2. F' = F /\ HeadWrites' BY <1>0, <2>3, <3>1, DrainedMoves
    <3> QED BY <3>1, <3>2 DEF Led, LedNext
  <2>4. ASSUME NEW by, Cut(by), UNCHANGED wire
        PROVE  HeadWrites' /\ \A g \in open' : \A t : Led(g, t) => LedNext(g, t)
    BY <1>0, <2>0, <2>4, CutLed
  <2>5. ASSUME Write PROVE HeadWrites' /\ \A g \in open' : \A t : Led(g, t) => LedNext(g, t)
    <3>1. model' = model /\ lost' = lost BY <2>5 DEF Write, history
    <3>2. F' = F /\ HeadWrites' BY <1>0, <2>5, WriteMoves
    <3> QED BY <3>1, <3>2 DEF Led, LedNext
  <2>6. ASSUME ServerReads PROVE HeadWrites' /\ \A g \in open' : \A t : Led(g, t) => LedNext(g, t)
    BY <1>0, <2>0, <2>6, ReadLed
  <2>7. ASSUME Terminate PROVE HeadWrites' /\ \A g \in open' : \A t : Led(g, t) => LedNext(g, t)
    BY <2>7 DEF Terminate, HeadWrites
  <2>8. ASSUME UNCHANGED <<queue, up, lost>>
        PROVE  HeadWrites' /\ \A g \in open' : \A t : Led(g, t) => LedNext(g, t)
    <3>1. F' = F /\ lost' = lost /\ HeadWrites' BY <1>0, <2>8 DEF F, HeadWrites
    <3>2. CASE model' = model BY <3>1, <3>2 DEF Led, LedNext
    <3>3. ASSUME NEW f \in Files, ServerFollows(f)
          PROVE  \A g \in open' : \A t : Led(g, t) => LedNext(g, t)
      BY <1>0, <2>0, <3>3, FollowLed
    <3>4. RejectionRead => model' = model BY DEF RejectionRead
    <3> QED BY <2>6, <2>7, <3>1, <3>2, <3>3, <3>4, ModelWriters
  <2>9. \/ HeadWrites' /\ \A f \in open' : \A t : Led(f, t) => LedNext(f, t)
        \/ SyncCommits \/ \E o \in Openers : OpenRegisters(o)
    BY <2>2, <2>3, <2>4, <2>5, <2>6, <2>7, <2>8, QueueWriters
      DEF OpenSent, OpenCut, SyncSent, SyncCut, CloseSent, CloseCut, history
  <2> QED BY <1>1, <1>2, <2>1, <2>9
<1> QED BY <1>0, <1>1, <1>2, <1>3, ContentKept

LEMMA InitPush == Init => PushInv
<1> SUFFICES ASSUME Init PROVE PushInv OBVIOUS
<1>1. Typed BY InitTyped
<1>2. HeadWrites /\ Arriving BY DEF Init, HeadWrites, Arriving
<1> QED BY <1>1, <1>2 DEF PushInv

LEMMA StepPush == PushInv /\ [Next]_vars => PushInv'
BY PushKept, StepTyped DEF PushInv

\* What leads to the committed content, is what the property asks.
LEMMA PushImplies == PushInv => PushedTextArrives
<1> SUFFICES ASSUME PushInv, NEW f \in open, ~lost[f]
             PROVE  /\ EveryDiffHasItsBase(Pipe, model[f].text, f)
                    /\ Meets(Pipe, model[f].text, f, Len(Pipe) + 1, doc[f].content)
  BY DEF PushedTextArrives
<1>1. Leads(Pipe, model[f], f, doc[f].content) BY DEF PushInv, Arriving
<1>2. EveryDiffHasItsBase(Pipe, model[f].text, f)
  BY <1>1 DEF EveryDiffHasItsBase, Leads, Whole
<1> QED BY <1>1, <1>2 DEF Leads

\* Unless a text was cut off before its bytes were written, what an open
\* document holds is what the server will have, and each diff meets the text
\* it is a diff of (sync_dirty_files, open_document, _send).
THEOREM PushedTexts == Spec => []PushedTextArrives
<1>1. Init => PushInv BY InitPush
<1>2. PushInv /\ [Next]_vars => PushInv' BY StepPush
<1>3. PushInv => PushedTextArrives BY PushImplies
<1> QED BY <1>1, <1>2, <1>3, PTL DEF Spec

\* Once nothing is on its way, the server has the text the client believes it
\* has, and as the client's own (sync_dirty_files, open_document, change_model).
InStep ==
  up = <<>> /\ queue = <<>> =>
    \A f \in open : lost[f] \/ model[f] = [owner |-> "client", text |-> doc[f].content]

LEMMA PushInStep == ASSUME PushInv PROVE InStep
<1> SUFFICES ASSUME up = <<>>, queue = <<>>, NEW f \in open, ~lost[f]
             PROVE  model[f] = [owner |-> "client", text |-> doc[f].content]
  BY DEF InStep
<1>1. Leads(Pipe, model[f], f, doc[f].content) BY DEF PushInv, Arriving
<1>2. About(Pipe, f) = {}
  <2>1. Pipe = <<>> BY DEF Pipe, Unwritten
  <2> QED BY <2>1 DEF About
<1>3. model[f].text = doc[f].content /\ model[f].owner = "client" BY <1>1, <1>2 DEF Leads, Meets
<1>4. model[f] \in Models BY DEF PushInv, Typed, ModelTyped, DocTyped
<1> QED BY <1>3, <1>4 DEF Models

\* The same at rest, which is what a user sees: equal texts.
THEOREM DrainedIsEqual == Spec => []InStep
<1>1. Init => PushInv BY InitPush
<1>2. PushInv /\ [Next]_vars => PushInv' BY StepPush
<1>3. PushInv => InStep BY PushInStep
<1> QED BY <1>1, <1>2, <1>3, PTL DEF Spec

-----------------------------------------------------------------------------
(* One session in a watched directory.                                     *)

WatchInv == Typed /\ OneSession /\ ReadIsCurrent /\ OneSink /\ Seen

LEMMA OneSessionKept ==
  ASSUME Typed, OneSession, watch', [Next]_vars
  PROVE  OneSession' /\ ~Terminate
<1>1. ~Terminate /\ ~Launch BY DEF Terminate, Launch, OneSession
<1>2. alive' /\ starts' \in Nat \ {0} BY <1>1, SessionWriters DEF session, OneSession, OpenStarts
<1> QED BY <1>1, <1>2 DEF OneSession

\* Where another document keeps the directory watched, one session keeps it.
LEMMA StaysWatched ==
  ASSUME Kept, MaxStarts = 1, OneSession, [Next]_vars
  PROVE  watch'
<1>1. ~Terminate BY DEF Terminate, OneSession
<1>2. CASE UNCHANGED editing BY <1>2 DEF editing, OneSession
<1>3. ASSUME NEW f \in Files, DiskWritten(f) \/ SinkStarts(f) \/ SinkFindsNoProcess(f) PROVE watch'
  BY <1>3 DEF DiskWritten, SinkStarts, SinkFindsNoProcess, Written, OneSession
<1>4. ASSUME NEW o \in Openers, OpenReads(o) \/ OpenSent(o) PROVE watch'
  BY <1>4 DEF OpenReads, OpenSent, SanitizedRead, PlainRead, Written, editing, OneSession
<1>5. CASE SyncReads BY <1>5 DEF SyncReads, SanitizedRead, PlainRead, Written, editing, OneSession
<1>6. CASE CloseSent BY <1>6 DEF CloseSent, OneSession
<1> QED BY <1>1, <1>2, <1>3, <1>4, <1>5, <1>6, EditingWriters

\* What is written to a file has its event; only a sink takes one away.
LEMMA DiskMoves ==
  ASSUME Typed, OneSession, [Next]_vars, ~Terminate
  PROVE  /\ \A f \in Files : disk'[f] = disk[f] \/ f \in events'
         /\ \A f \in events : f \in events' \/ SinkStarts(f)
<1> DEFINE Moves == /\ \A f \in Files : disk'[f] = disk[f] \/ f \in events'
                    /\ \A f \in events : f \in events' \/ SinkStarts(f)
<1>0. disk \in [Files -> [text : Text, sig : Text, glyphs : BOOLEAN]] BY DEF Typed, DiskTyped
<1>1. ASSUME NEW f \in Files, NEW text, NEW glyphs, Written(f, text, glyphs) PROVE Moves
  <2>1. events' = events \cup {f} BY <1>1 DEF Written, OneSession
  <2>2. \A g \in Files \ {f} : disk'[g] = disk[g] BY <1>0, <1>1 DEF Written
  <2> QED BY <2>1, <2>2
<1>2. ASSUME disk' = disk /\ events' = events PROVE Moves BY <1>2
<1>3. ASSUME NEW f \in Files, DiskWritten(f) PROVE Moves BY <1>1, <1>3 DEF DiskWritten
<1>4. ASSUME NEW f \in Files, SinkStarts(f) \/ SinkFindsNoProcess(f) PROVE Moves
  BY <1>4 DEF SinkStarts, SinkFindsNoProcess, OneSession
<1>5. ASSUME NEW f \in Files, NEW text, SanitizedRead(f, text) PROVE Moves
  BY <1>1, <1>2, <1>5 DEF SanitizedRead, PlainRead, editing
<1>6. ASSUME NEW o \in Openers, OpenReads(o) PROVE Moves
  <2>1. opener[o].file \in Files BY DEF Typed, OpenerTyped, Opening
  <2> QED BY <1>5, <1>6, <2>1 DEF OpenReads
<1>7. ASSUME SyncReads PROVE Moves
  <2>1. sync.file \in Files BY DEF Typed, SyncTyped, Syncs
  <2> QED BY <1>5, <1>7, <2>1 DEF SyncReads, SanitizedRead
<1>8. ASSUME NEW o \in Openers, OpenSent(o) PROVE Moves BY <1>2, <1>8 DEF OpenSent
<1>9. ASSUME CloseSent PROVE Moves BY <1>2, <1>9 DEF CloseSent
<1> HIDE DEF Moves
<1>10. Moves
  BY <1>2, <1>3, <1>4, <1>6, <1>7, <1>8, <1>9, EditingWriters DEF editing
<1> QED BY <1>10 DEF Moves

\* Who changes what a signature may hide.
LEMMA DocMoves ==
  ASSUME Typed, [Next]_vars, ~Terminate, NEW f \in open'
  PROVE  \/ /\ f \in open /\ doc'[f].sig = doc[f].sig /\ doc'[f].content = doc[f].content
            /\ slipped'[f] = slipped[f]
         \/ \E o \in Openers : OpenRegisters(o) /\ f = opener[o].file
         \/ RejectionRead
         \/ f = sync.file /\ (SyncFailsToRead \/ SyncSettles \/ SyncCommits \/ SyncSent)
<1> DEFINE Same == /\ f \in open /\ doc'[f].sig = doc[f].sig /\ doc'[f].content = doc[f].content
                   /\ slipped'[f] = slipped[f]
           Sync == f = sync.file /\ (SyncFailsToRead \/ SyncSettles \/ SyncCommits \/ SyncSent)
<1>0. /\ open \subseteq Files /\ doc \in [Files -> Docs] /\ sync.file \in Files
      /\ slipped \in [Files -> BOOLEAN]
  BY DEF Typed, DocTyped, SyncTyped, Syncs, RestTyped
<1>1. ASSUME UNCHANGED <<open, doc>>, ~\E o \in Openers : OpenRegisters(o), ~SyncSettles, ~SyncCommits PROVE Same
  <2>1. slipped' = slipped BY <1>1, SlippedWriters
  <2> QED BY <1>1, <2>1
<1>2. ASSUME NEW g \in Files, Marked(g), open' = open, slipped' = slipped PROVE Same
  BY <1>0, <1>2 DEF Marked, Docs
<1>3. ASSUME NEW g \in Files, OpenAgain(g) \/ CloseStarts(g) PROVE Same
  <2>1. CASE OpenAgain(g) BY <1>2, <2>1 DEF OpenAgain, history
  <2>2. CASE CloseStarts(g) BY <1>0, <2>2 DEF CloseStarts
  <2> QED BY <1>3, <2>1, <2>2
<1>4. ASSUME NEW o \in Openers, OpenResumes(o) PROVE Same
  <2>1. opener[o].file \in Files BY DEF Typed, OpenerTyped, Opening
  <2>2. open' = open /\ slipped' = slipped /\ (Marked(opener[o].file) \/ doc' = doc)
    BY <1>4 DEF OpenResumes, history
  <2> QED BY <1>2, <2>1, <2>2
<1>5. ASSUME NEW o \in Openers, OpenRegisters(o), f # opener[o].file PROVE Same
  <2>1. opener[o].file \in Files BY DEF Typed, OpenerTyped, Opening
  <2> QED BY <1>0, <1>5, <2>1 DEF OpenRegisters
<1>6. ASSUME SyncFailsToRead \/ SyncSettles \/ SyncCommits \/ SyncSent, f # sync.file PROVE Same
  <2>1. open' = open /\ doc'[f] = doc[f] /\ slipped'[f] = slipped[f]
    <3>1. CASE SyncFailsToRead BY <1>0, <1>6, <3>1 DEF SyncFailsToRead, history
    <3>2. CASE SyncSettles BY <1>0, <1>6, <3>2 DEF SyncSettles
    <3>3. CASE SyncCommits BY <1>0, <1>6, <3>3 DEF SyncCommits
    <3>4. CASE SyncSent BY <1>0, <1>6, <3>4 DEF SyncSent, history
    <3> QED BY <1>6, <3>1, <3>2, <3>3, <3>4
  <2> QED BY <2>1
<1> HIDE DEF Same
<1>7. Same \/ (\E o \in Openers : OpenRegisters(o) /\ f = opener[o].file) \/ RejectionRead \/ Sync
  BY <1>1, <1>3, <1>4, <1>5, <1>6, DocWriters
<1> QED BY <1>7 DEF Same

\* How a sink ends.
LEMMA SinkMoves ==
  ASSUME Typed, OneSession, OneSink, [Next]_vars
  PROVE  /\ OneSink'
         /\ \A f \in Sinking :
              \/ f \in Sinking' \/ f \notin open
              \/ f = sync.file /\ (SyncFailsToRead \/ SyncRefuses \/ SyncSettles \/ SyncSent \/ SyncCut)
         /\ \A f \in Files : SinkStarts(f) => f \in Sinking'
<1> DEFINE Ends(f) == f = sync.file /\ (SyncFailsToRead \/ SyncRefuses \/ SyncSettles \/ SyncSent \/ SyncCut)
           P == /\ OneSink'
                /\ \A f \in Sinking : f \in Sinking' \/ f \notin open \/ Ends(f)
<1>0. sync \in Syncs BY DEF Typed, SyncTyped
<1>1. ASSUME UNCHANGED sync PROVE P BY <1>1 DEF OneSink, Sinking
<1>2. Idle.entry = FALSE /\ Idle.todo = {} /\ Idle.phase = "idle" BY DEF Idle
<1>3. \* A state of rest.
      ASSUME sync' = Idle, \A f \in Sinking : f \notin open \/ Ends(f) PROVE P
  BY <1>2, <1>3 DEF OneSink, Sinking
<1>4. ASSUME NEW f \in Files, CloseStarts(f) PROVE P
  <2>1. Sinking = {} BY <1>4 DEF CloseStarts, OneSink, Sinking
  <2>2. sync'.entry = FALSE /\ sync'.todo = {} /\ sync'.phase = "closing" BY <1>2, <1>4 DEF CloseStarts, Idle
  <2> QED BY <2>1, <2>2 DEF OneSink, Sinking
<1>5. ASSUME NEW f \in Files, SinkStarts(f) PROVE P /\ Sinking' = {f}
  <2>1. Sinking = {} BY <1>5 DEF SinkStarts, OneSink, Sinking
  <2>2. sync'.entry = FALSE /\ sync'.todo = {f} /\ sync'.phase = "choosing" BY <1>5 DEF SinkStarts, Idle
  <2>3. Sinking' = {f} BY <2>2 DEF Sinking
  <2> QED BY <2>1, <2>2, <2>3 DEF OneSink
<1>6. ASSUME NEW f \in Files, SyncChooses(f) PROVE P
  <2>1. sync.phase = "choosing" /\ f \in sync.todo BY <1>6 DEF SyncChooses
  <2>2. CASE f \in open
    <3>1. sync'.entry = sync.entry /\ sync'.todo = sync.todo \ {f} /\ sync'.file = f /\ sync'.phase = "reading"
      BY <1>0, <1>6, <2>2 DEF SyncChooses, Syncs
    <3>2. Sinking' = Sinking BY <2>1, <3>1 DEF Sinking
    <3> QED BY <3>1, <3>2 DEF OneSink
  <2>3. CASE f \notin open
    <3>1. sync'.entry = sync.entry /\ sync'.todo = sync.todo \ {f} /\ sync'.phase = "choosing"
      BY <1>0, <1>6, <2>1, <2>3 DEF SyncChooses, Syncs
    <3>2. Sinking' = Sinking \ {f} BY <2>1, <3>1 DEF Sinking
    <3> QED BY <2>3, <3>1, <3>2 DEF OneSink
  <2> QED BY <2>2, <2>3
<1>7. ASSUME EntryStarts PROVE P
  <2>1. Sinking = {} BY <1>7 DEF EntryStarts, OneSink, Sinking
  <2>2. sync'.entry /\ sync'.phase = "listed" BY <1>7 DEF EntryStarts, Idle
  <2> QED BY <2>1, <2>2 DEF OneSink, Sinking
<1>8. ASSUME EntryCancelled PROVE P
  <2>1. sync' = Idle /\ Sinking = {} BY <1>8 DEF EntryCancelled, Sinking
  <2> QED BY <1>3, <2>1
<1>9. ASSUME CloseCut \/ CloseSent PROVE P
  <2>1. sync' = Idle /\ Sinking = {} BY <1>9 DEF CloseCut, CloseSent, OneSink, Sinking
  <2> QED BY <1>3, <2>1
<1>10. ASSUME SyncEnds PROVE P
  <2>1. sync' = Idle /\ Sinking = {} BY <1>10 DEF SyncEnds, Sinking
  <2> QED BY <1>3, <2>1
<1>11. ASSUME SyncCut \/ SyncRefuses PROVE P
  <2>1. sync' = Idle /\ sync.phase \in {"read", "sending"} BY <1>11 DEF SyncCut, SyncRefuses
  <2>2. \A f \in Sinking : f = sync.file BY <2>1 DEF OneSink, Sinking
  <2>3. \A f \in Sinking : Ends(f) BY <1>11, <2>2
  <2> QED BY <1>3, <2>1, <2>3
<1>12. ASSUME EntryStats PROVE P
  <2>1. sync.entry BY <1>12 DEF EntryStats, OneSink
  <2>2. sync'.entry /\ sync'.phase = "choosing" BY <1>0, <1>12, <2>1 DEF EntryStats, Syncs
  <2> QED BY <2>1, <2>2 DEF OneSink, Sinking
<1>13. ASSUME SyncFailsToRead \/ SyncSettles \/ SyncSent PROVE P
  <2>1. sync' = Onward /\ sync.phase \in {"reading", "read", "sending"}
    BY <1>13 DEF SyncFailsToRead, SyncSettles, SyncSent
  <2>2. sync'.entry = sync.entry /\ sync'.todo = sync.todo /\ sync'.phase = "choosing"
    BY <1>0, <2>1 DEF Onward, Syncs
  <2>3. Sinking' \subseteq Sinking /\ \A f \in Sinking : f \in Sinking' \/ f = sync.file
    BY <2>1, <2>2 DEF Sinking
  <2> QED BY <1>13, <2>2, <2>3 DEF OneSink
<1>14. ASSUME SyncReads \/ SyncCommits PROVE P
  <2>1. \/ \E text \in Text : sync' = [sync EXCEPT !.phase = "read", !.text = text]
        \/ sync' = [sync EXCEPT !.phase = "sending"]
    BY <1>14 DEF SyncReads, SyncCommits, OneSession
  <2>2. sync.phase \in {"reading", "read"} BY <1>14 DEF SyncReads, SyncCommits
  <2>3. /\ sync'.entry = sync.entry /\ sync'.todo = sync.todo /\ sync'.file = sync.file
        /\ sync'.phase \in {"read", "sending"}
    BY <1>0, <2>1 DEF Syncs
  <2>4. Sinking' = Sinking BY <2>2, <2>3 DEF Sinking
  <2> QED BY <2>3, <2>4 DEF OneSink
<1> HIDE DEF P
<1>15. P
  BY <1>1, <1>4, <1>5, <1>6, <1>7, <1>8, <1>9, <1>10, <1>11, <1>12, <1>13, <1>14, SyncWriters DEF Holding, P
<1> QED BY <1>5, <1>15 DEF P

\* The text a sync has read stays the disk's, or its event comes.
LEMMA CurrentKept ==
  ASSUME Typed, OneSession, ReadIsCurrent, [Next]_vars, ~Terminate
  PROVE  ReadIsCurrent'
<1> DEFINE f == sync.file
           P == ReadIsCurrent'
<1>0. /\ sync \in Syncs /\ f \in Files /\ (sync.phase \in {"reading", "read", "sending"} => f \in open)
      /\ open \subseteq Files /\ doc \in [Files -> Docs]
      /\ disk \in [Files -> [text : Text, sig : Text, glyphs : BOOLEAN]]
  BY DEF Typed, SyncTyped, Syncs, DocTyped, DiskTyped
<1>1. /\ \A g \in Files : disk'[g] = disk[g] \/ g \in events'
      /\ \A g \in events : g \in events' \/ SinkStarts(g)
  BY DiskMoves
<1>2. ASSUME sync'.phase \notin {"read", "sending"} PROVE P BY <1>2 DEF ReadIsCurrent
<1>3. ASSUME UNCHANGED sync PROVE P
  <2>1. CASE sync.phase \notin {"read", "sending"} BY <1>2, <1>3, <2>1
  <2>2. CASE sync.phase \in {"read", "sending"}
    <3>1. ~\E g \in Files : SinkStarts(g) BY <2>2 DEF SinkStarts
    <3>2. disk'[f].text \in {None, sync.text} \/ f \in events'
      BY <1>0, <1>1, <2>2, <3>1 DEF ReadIsCurrent, Typed, DiskTyped
    <3>3. sync.phase = "sending" => doc'[f].content = sync.text
      <4>1. SUFFICES ASSUME sync.phase = "sending" PROVE doc'[f].content = doc[f].content
        BY DEF ReadIsCurrent
      <4>2. f \in open' BY <1>0, <1>3, <2>2, StepTyped DEF Typed, SyncTyped
      <4>3. ASSUME NEW o \in Openers, OpenRegisters(o) PROVE doc'[f].content = doc[f].content
        <5>1. opener[o].file \notin open BY <4>3 DEF OpenRegisters, OpenedMeanwhile
        <5> QED BY <1>0, <2>2, <4>3, <5>1 DEF OpenRegisters
      <4>4. ~SyncCommits BY <4>1 DEF SyncCommits
      <4> QED BY <4>2, <4>3, <4>4, ContentKept
    <3> QED BY <1>3, <3>2, <3>3 DEF ReadIsCurrent
  <2> QED BY <2>1, <2>2
<1>4. ASSUME NEW g \in Files, CloseStarts(g) \/ SinkStarts(g) PROVE P
  BY <1>2, <1>4 DEF CloseStarts, SinkStarts, Idle
<1>5. ASSUME NEW g \in Files, SyncChooses(g) PROVE P
  <2>1. sync'.phase \in {"choosing", "reading"} BY <1>0, <1>5 DEF SyncChooses, Syncs
  <2> QED BY <1>2, <2>1
<1>6. ASSUME EntryStarts PROVE P BY <1>2, <1>6 DEF EntryStarts, Idle
<1>7. ASSUME EntryCancelled \/ SyncCut \/ CloseCut \/ SyncEnds \/ SyncRefuses \/ CloseSent PROVE P
  <2>1. sync' = Idle BY <1>7 DEF EntryCancelled, SyncCut, CloseCut, SyncEnds, SyncRefuses, CloseSent
  <2> QED BY <1>2, <2>1 DEF Idle
<1>8. ASSUME EntryStats PROVE P
  <2>1. sync'.phase = "choosing" BY <1>0, <1>8 DEF EntryStats, Syncs
  <2> QED BY <1>2, <2>1
<1>9. ASSUME SyncFailsToRead \/ SyncSettles \/ SyncSent PROVE P
  <2>1. sync' = Onward BY <1>9 DEF SyncFailsToRead, SyncSettles, SyncSent
  <2>2. sync'.phase = "choosing" BY <1>0, <2>1 DEF Onward, Syncs
  <2> QED BY <1>2, <2>2
<1>10. ASSUME SyncReads PROVE P
  <2>1. PICK text \in Text : /\ SanitizedRead(f, text)
                             /\ sync' = [sync EXCEPT !.phase = "read", !.text = text]
    BY <1>10 DEF SyncReads, SanitizedRead
  <2>2. sync'.phase = "read" /\ sync'.file = f /\ sync'.text = text BY <1>0, <2>1 DEF Syncs
  <2>3. disk'[f].text = text BY <1>0, <2>1 DEF SanitizedRead, PlainRead, Written, editing
  <2> QED BY <2>2, <2>3 DEF ReadIsCurrent
<1>11. ASSUME SyncCommits PROVE P
  <2>1. /\ sync' = [sync EXCEPT !.phase = "sending"] /\ disk' = disk /\ events' = events
        /\ doc' = [doc EXCEPT ![f].content = sync.text] /\ sync.phase = "read"
    BY <1>11 DEF SyncCommits, editing, OneSession
  <2>2. sync'.phase = "sending" /\ sync'.file = f /\ sync'.text = sync.text BY <1>0, <2>1 DEF Syncs
  <2>3. doc'[f].content = sync.text BY <1>0, <2>1 DEF Docs
  <2> QED BY <2>1, <2>2, <2>3 DEF ReadIsCurrent
<1> HIDE DEF P
<1>12. P
  BY <1>3, <1>4, <1>5, <1>6, <1>7, <1>8, <1>9, <1>10, <1>11, SyncWriters DEF Holding
<1> QED BY <1>12 DEF P

\* What the sync of a file leaves hidden has its event.
LEMMA SyncedSeen ==
  ASSUME Typed, OneSession, ReadIsCurrent, NEW f, f = sync.file,
         SyncFailsToRead \/ SyncSettles \/ SyncCommits \/ SyncSent,
         disk'[f].text \notin {None, doc'[f].content}
  PROVE  f \in events'
<1>0. f \in Files /\ doc \in [Files -> Docs] BY DEF Typed, SyncTyped, Syncs, DocTyped
<1>1. disk' = disk /\ events' = events
  BY DEF SyncFailsToRead, SyncSettles, SyncCommits, SyncSent, editing
<1>2. ~SyncFailsToRead BY <1>1 DEF SyncFailsToRead
<1>3. doc'[f].content = sync.text /\ sync.phase \in {"read", "sending"}
  <2>1. CASE SyncSettles BY <1>0, <2>1 DEF SyncSettles, NothingToPush, Docs
  <2>2. CASE SyncCommits BY <1>0, <2>2 DEF SyncCommits, Docs
  <2>3. CASE SyncSent BY <1>0, <2>3 DEF SyncSent, ReadIsCurrent, Docs
  <2> QED BY <1>2, <2>1, <2>2, <2>3
<1> QED BY <1>1, <1>3 DEF ReadIsCurrent

LEMMA SeenKept ==
  ASSUME WatchInv, [Next]_vars, ~Terminate
  PROVE  Seen'
<1>0. /\ Typed /\ OneSession /\ ReadIsCurrent /\ OneSink /\ Seen
      /\ open \subseteq Files /\ open' \subseteq Files /\ disk \in [Files -> [text : Text, sig : Text, glyphs : BOOLEAN]]
  BY StepTyped DEF WatchInv, Typed, DocTyped, DiskTyped
<1> SUFFICES ASSUME NEW f \in open' \ Heap,
                    doc'[f].sig = (IF disk'[f].text = None THEN None ELSE disk'[f].sig),
                    disk'[f].text \notin {None, doc'[f].content}, ~slipped'[f],
                    f \notin events'
             PROVE  f \in Sinking'
  BY DEF Seen, Hidden, Stat
<1>1. disk'[f] = disk[f] /\ (f \in events => SinkStarts(f)) BY <1>0, DiskMoves
<1>2. ASSUME f \in open, doc'[f].sig = doc[f].sig, doc'[f].content = doc[f].content, slipped'[f] = slipped[f]
      PROVE  f \in Sinking'
  <2>1. Hidden(f) BY <1>1, <1>2 DEF Hidden, Stat
  <2>2. f \in events \cup Sinking BY <1>0, <1>2, <2>1 DEF Seen
  <2>3. CASE f \in events
    <3>1. SinkStarts(f) /\ f \in Files BY <1>0, <1>1, <2>3
    <3> QED BY <1>0, <3>1, SinkMoves
  <2>4. CASE f \in Sinking /\ f \notin Sinking' /\ f \notin events
    <3>1. f = sync.file /\ (SyncFailsToRead \/ SyncRefuses \/ SyncSettles \/ SyncSent \/ SyncCut)
      BY <1>0, <1>2, <2>4, SinkMoves
    <3>2. ~SyncRefuses BY <3>1 DEF SyncRefuses, Refused
    <3>3. ~SyncCut BY <1>1, <1>2, <2>4, <3>1, <1>0 DEF SyncCut, ReadIsCurrent
    <3>4. f \in events' BY <1>0, <3>1, <3>2, <3>3, SyncedSeen
    <3> QED BY <3>4
  <2> QED BY <2>2, <2>3, <2>4
<1>3. ASSUME NEW o \in Openers, OpenRegisters(o), f = opener[o].file PROVE FALSE
  <2>1. slipped' = [slipped EXCEPT ![f] = opener[o].text # disk[f].text] /\ f \in Files
        /\ slipped \in [Files -> BOOLEAN] /\ doc \in [Files -> Docs]
    BY <1>0, <1>3 DEF OpenRegisters, Typed, RestTyped, DocTyped
  <2>2. doc'[f].content = opener[o].text BY <1>3, <2>1 DEF OpenRegisters
  <2>3. slipped'[f] = (opener[o].text # disk[f].text) BY <2>1
  <2> QED BY <1>1, <2>2, <2>3
<1>4. ~RejectionRead
  <2> SUFFICES ASSUME RejectionRead PROVE FALSE OBVIOUS
  <2>1. f \in open /\ doc'[f] = [doc[f] EXCEPT !.sig = None, !.full = TRUE] /\ doc[f] \in Docs
    BY <1>0 DEF RejectionRead, Typed, DocTyped
  <2>2. doc'[f].sig = None BY <2>1 DEF Docs
  <2>3. disk[f].sig # None BY <1>0 DEF Typed, DiskTyped, DiskOK
  <2> QED BY <1>1, <2>2, <2>3
<1>5. ASSUME f = sync.file, SyncFailsToRead \/ SyncSettles \/ SyncCommits \/ SyncSent PROVE FALSE
  BY <1>0, <1>5, SyncedSeen
<1> QED BY <1>0, <1>2, <1>3, <1>4, <1>5, DocMoves

LEMMA WatchKept == ASSUME WatchInv, watch', [Next]_vars PROVE WatchInv'
<1>1. OneSession' /\ ~Terminate BY OneSessionKept DEF WatchInv
<1>2. Typed' /\ ReadIsCurrent' /\ OneSink' BY <1>1, StepTyped, CurrentKept, SinkMoves DEF WatchInv
<1> QED BY <1>1, <1>2, SeenKept DEF WatchInv

LEMMA InitWatch == ASSUME Init, watch PROVE WatchInv
<1>1. Typed BY InitTyped
<1>2. OneSession BY DEF Init, OneSession
<1>3. sync.phase = "idle" /\ sync.todo = {} /\ open = {} BY DEF Init, Idle
<1> QED BY <1>1, <1>2, <1>3 DEF WatchInv, ReadIsCurrent, OneSink, Sinking, Seen

LEMMA WatchImplies == ASSUME WatchInv PROVE HiddenEditsAreSeen
<1> SUFFICES ASSUME NEW f \in open \ Heap, Hidden(f), f \notin events \cup sync.todo,
                    ~(sync.file = f /\ sync.phase \in {"reading", "read"})
             PROVE  FALSE
  BY DEF HiddenEditsAreSeen, Hidden
<1>1. f \in Sinking BY DEF WatchInv, Seen
<1>2. sync.phase = "sending" /\ f = sync.file BY <1>1 DEF Sinking
<1> QED BY <1>2 DEF WatchInv, ReadIsCurrent, Hidden

\* As long as the directory stays watched, an edit that an open document's
\* signature hides is waited for by a sink (the watcher's sink,
\* sync_dirty_files, _stat_sig), unless the opening itself was overtaken by it.
THEOREM WatchedEdits == Spec /\ []watch => []HiddenEditsAreSeen
<1>1. Init /\ watch => WatchInv BY InitWatch
<1>2. WatchInv /\ watch' /\ [Next]_vars => WatchInv' BY WatchKept
<1>3. WatchInv => HiddenEditsAreSeen BY WatchImplies
<1> QED BY <1>1, <1>2, <1>3, PTL DEF Spec

\* It does in one session, while another document of the directory is open.
THEOREM HiddenEdits == ASSUME Kept, MaxStarts = 1 PROVE Spec => []HiddenEditsAreSeen
<1>1. Init => WatchInv BY InitWatch DEF Init
<1>2. WatchInv /\ [Next]_vars => WatchInv' BY WatchKept, StaysWatched DEF WatchInv
<1>3. WatchInv => HiddenEditsAreSeen BY WatchImplies
<1> QED BY <1>1, <1>2, <1>3, PTL DEF Spec

\* The two together, from the disk to the prover: at rest, a file whose recorded
\* signature is the disk's (so that no tool call would look at it again) has the
\* disk's text in the server.
AtRest == up = <<>> /\ queue = <<>> /\ events = {} /\ sync = Idle
SyncedIsEqual ==
  AtRest => \A f \in open \ Heap :
    \/ lost[f] \/ slipped[f] \/ doc[f].sig # Stat(f)
    \/ disk[f].text \in {None, model[f].text}

LEMMA EndToEnd == InStep /\ HiddenEditsAreSeen => SyncedIsEqual
<1> SUFFICES ASSUME InStep, HiddenEditsAreSeen, AtRest, NEW f \in open \ Heap,
                    ~lost[f], ~slipped[f], doc[f].sig = Stat(f)
             PROVE  disk[f].text \in {None, model[f].text}
  BY DEF SyncedIsEqual
<1>1. model[f] = [owner |-> "client", text |-> doc[f].content] BY DEF InStep, AtRest
<1>2. model[f].text = doc[f].content BY <1>1
<1>3. events = {} /\ sync.todo = {} /\ sync.phase = "idle" BY DEF AtRest, Idle
<1> QED BY <1>2, <1>3 DEF HiddenEditsAreSeen

\* In a directory that stays watched, a file at rest that the stat backstop
\* (resync_changed_open_documents) would skip needs no look.
THEOREM SyncedFilesAreEqual == Spec /\ []watch => []SyncedIsEqual
BY DrainedIsEqual, WatchedEdits, EndToEnd, PTL
=============================================================================
