------------------------- MODULE CancelRetireProofs -------------------------
(***************************************************************************)
(* Proofs about CancelRetire, for a theory of any length and any number of *)
(* events.  One inductive invariant, IInv, carries all the properties: the *)
(* types; the two channels, which number the versions under way (QueuesOK);*)
(* the probe, asked and answered once (Asked); the ages of the probed execs*)
(* (Ages) and that an exec dropped by a version is on no later one         *)
(* (NeverBack), so that whatever left the targets is gone for good (Gone); *)
(* the text under a standing serial (SameText); and the silence after the  *)
(* retraction while the overlay table's serial stands (Stillness).         *)
(***************************************************************************)
EXTENDS CancelRetire, DataLemmas

\* One edit: a command of the next version between two parts of the text.
Texts == Seq(Commands) \ {<<>>}
Insert(text, at) == InsertAt(text, at + 1, <<Tip + 1, Len(text) + 1>>)

LEMMA InsertTyped ==
  ASSUME Tip \in Nat, NEW text \in Texts, NEW at \in {0, 1} PROVE Insert(text, at) \in Texts
<1> DEFINE c == <<Tip + 1, Len(text) + 1>>
<1>1. Len(text) \in Nat \ {0} BY DEF Texts
<1>2. c \in Commands BY <1>1 DEF Commands
<1> HIDE DEF c
<1>3. SubSeq(text, 1, at) \in Seq(Commands) BY <1>1 DEF Texts
<1>4. SubSeq(text, at + 1, Len(text)) \in Seq(Commands) BY <1>1 DEF Texts
<1>5. <<c>> \in Seq(Commands) /\ Len(<<c>>) = 1 BY <1>2
<1>6. Insert(text, at) = SubSeq(text, 1, at) \o <<c>> \o SubSeq(text, at + 1, Len(text))
  <2>1. (at + 1) - 1 = at OBVIOUS
  <2>2. Insert(text, at) = SubSeq(text, 1, (at + 1) - 1) \o <<c>> \o SubSeq(text, at + 1, Len(text))
    BY Zenon DEF Insert, InsertAt, c
  <2> QED BY <2>1, <2>2, Zenon
<1> DEFINE l == SubSeq(text, 1, at)
           r == SubSeq(text, at + 1, Len(text))
<1> HIDE DEF l, r
<1>7. l \in Seq(Commands) /\ r \in Seq(Commands) BY <1>3, <1>4 DEF l, r
<1> DEFINE lc == l \o <<c>>
<1>8. lc \in Seq(Commands) /\ Len(lc) > 0 BY <1>7, <1>5
<1> HIDE DEF lc
<1>9. lc \o r \in Seq(Commands) /\ Len(lc \o r) > 0 BY <1>7, <1>8
<1> QED BY <1>6, <1>9 DEF l, r, lc, Texts

LEMMA EditedTyped ==
  ASSUME Tip \in Nat, NEW cmds \in Texts, NEW edits \in Seq({0, 1})
  PROVE  Edited(cmds, edits) \in Texts
<1> DEFINE Step(g, n) == [i \in 0..n |-> IF i = 0 THEN cmds
                                         ELSE Insert(g[i - 1], edits[i])]
           text == CHOOSE g : g = Step(g, Len(edits))
           Bad == {n \in 0..Len(edits) : ~ \E g : g = Step(g, n)}
           Ill == {n \in 0..Len(edits) : text[n] \notin Texts}
<1>1. Len(edits) \in Nat OBVIOUS
<1>2. Edited(cmds, edits) = text[Len(edits)] BY DEF Edited, Insert
<1>3. ASSUME Bad # {} PROVE FALSE
  <2>0. Bad \in SUBSET Nat OBVIOUS
  <2>1. PICK n \in Bad : \A m \in Bad : n <= m
    <3> HIDE DEF Bad
    <3> QED BY <1>3, <2>0, Least
  <2>2. n \in 0..Len(edits) /\ n # 0
    <3>1. [i \in 0..0 |-> cmds] = Step([i \in 0..0 |-> cmds], 0) OBVIOUS
    <3> QED BY <3>1
  <2>3. PICK g : g = Step(g, n - 1)
    <3>1. n - 1 \in 0..Len(edits) /\ ~(n <= n - 1) BY <2>2, <1>1
    <3>2. n - 1 \notin Bad BY <3>1, <2>1
    <3> QED BY <3>1, <3>2
  <2> DEFINE h == [i \in 0..n |-> IF i = n THEN Insert(g[n - 1], edits[n]) ELSE g[i]]
  <2>4. h = Step(h, n)
    <3>1. \A i \in 0..n : h[i] = IF i = 0 THEN cmds ELSE Insert(h[i - 1], edits[i])
      <4> TAKE i \in 0..n
      <4>1. CASE i = n BY <4>1, <2>2
      <4>2. CASE i # n
        <5>1. i \in 0..(n - 1) /\ h[i] = g[i] /\ (i # 0 => h[i - 1] = g[i - 1])
          BY <4>2, <2>2
        <5>2. g[i] = Step(g, n - 1)[i] BY <2>3
        <5> QED BY <5>1, <5>2
      <4> QED BY <4>1, <4>2
    <3> QED BY <3>1
  <2>5. n \notin Bad BY <2>4
  <2> QED BY <2>5
<1>4. text = Step(text, Len(edits))
  <2>1. \E g : g = Step(g, Len(edits)) BY <1>3, <1>1
  <2> QED BY <2>1
<1> HIDE DEF text
<1>5. text[0] = cmds BY <1>4, <1>1
<1>6. \A i \in 1..Len(edits) : text[i] = Insert(text[i - 1], edits[i]) BY <1>4, <1>1
<1>7. ASSUME Ill # {} PROVE FALSE
  <2>0. Ill \in SUBSET Nat OBVIOUS
  <2>1. PICK n \in Ill : \A m \in Ill : n <= m
    <3> HIDE DEF Ill
    <3> QED BY <1>7, <2>0, Least
  <2>2. n \in 1..Len(edits) BY <2>1, <1>5
  <2>3. text[n - 1] \in Texts BY <2>1, <2>2
  <2>4. text[n] \in Texts BY <2>2, <2>3, <1>6, InsertTyped
  <2> QED BY <2>1, <2>4
<1> QED BY <1>1, <1>2, <1>7

Versions == [cmds : Texts, work : BOOLEAN]
Assignments == UNION {[D -> Nat] : D \in SUBSET Commands}
Documents ==
  [edits : Seq({0, 1}), queued : BOOLEAN, caret : BOOLEAN, overlays : SUBSET Nat,
   last : BOOLEAN, updates : Nat, changes : Nat, queries : SUBSET Nat]
Requests ==
  [pc : Labels, st : [tip : Nat, told : Nat], probe : SUBSET ExecIds,
   report : {"none", "report", "failed"}, pong : BOOLEAN, targets : SUBSET ExecIds,
   strikes : SUBSET ExecIds, batch : SUBSET ExecIds, before : Nat, serial : Nat,
   overlay : Nat]
ToML == {"update", "cancel", "ping"}
FromML == {"assigned", "report", "failed", "pong"}

HistoryOK == history \in Seq(Versions) /\ Tip >= 1

AssignedOK ==
  /\ assigned \in Seq(Assignments) /\ Len(assigned) <= Tip
  /\ \A n \in 1..Len(assigned) : /\ DOMAIN assigned[n] = Range(history[n].cmds)
                                 /\ \A c \in DOMAIN assigned[n] : assigned[n][c] \in 0..n

\* The versions on their way to the prover, the assignments on their way back.
QueuesOK ==
  /\ toML \in Seq(ToML) /\ fromML \in Seq(FromML)
  /\ told \in Nat \ {0} /\ told <= Len(assigned)
  /\ Numbered(toML, "update", Len(assigned), Tip)
  /\ Numbered(fromML, "assigned", told, Len(assigned))

DocumentOK ==
  /\ doc \in Documents
  /\ doc.edits # <<>> => doc.queued
  /\ \E k \in Nat : doc.queries \subseteq 1..k

RequestOK ==
  /\ request \in Requests
  /\ request.targets \cup request.strikes \cup request.batch \subseteq request.probe
  /\ interrupted \subseteq request.probe
  /\ quietFrom \in Nat

\* The perspective the monitor believes the prover holds is the newest version's.
Perspective == doc.last = Newest.work

Holds(queue, m) == \E i \in 1..Len(queue) : queue[i] = m

\* The probe is asked once and answered at most once.
Asked ==
  /\ request.pc \in {"idle", "read"} => ~Holds(toML, "cancel") /\ interrupted = {}
  /\ request.pc \in {"idle", "read"} \/ Holds(toML, "cancel") =>
       request.report = "none" /\ ~Holds(fromML, "report") /\ ~Holds(fromML, "failed")
  /\ \A i, j \in 1..Len(toML) : toML[i] = "cancel" /\ toML[j] = "cancel" => i = j

Late == {"retracts", "awaits", "loop", "serial", "round", "lands", "replied"}

\* The execs probed are no younger than the version a round works on.
Ages ==
  /\ \A t \in request.probe : t[2] <= told
  /\ request.pc = "round" => /\ request.st.told <= told /\ request.st.tip \in 1..Tip
                             /\ \A t \in request.probe : t[2] <= request.st.told

\* An exec that left a version is on no later one.
NeverBack ==
  \A n \in 1..Len(assigned) : \A m \in 1..n : \A t \in Execs(n) : t[2] <= m => t \in Execs(m)

\* An interrupted exec is a target until it is assigned no more.
Gone ==
  /\ request.pc \in Late =>
       /\ request.report # "none"
       /\ \A t \in interrupted : t \in request.targets \/ t \notin Execs(Len(assigned))
  /\ request.pc = "lands" => request.batch = request.targets

\* While the serial stands, only the prover's own versions follow the reading.
SameText ==
  /\ request.serial <= doc.updates
  /\ request.pc = "round" /\ request.serial = doc.updates =>
       \A n \in request.st.tip..Tip : history[n].cmds = history[request.st.tip].cmds

\* Since step 0, while the overlay table was not touched, no version wants work.
Stillness ==
  request.pc \in Late \ {"retracts"} =>
    /\ quietFrom \in 1..Tip /\ ~doc.caret /\ request.overlay <= doc.changes
    /\ request.overlay = doc.changes =>
         /\ doc.overlays = {}
         /\ \A n \in quietFrom..Tip : ~history[n].work

\* The request holds nothing before it has read the state.
Fresh ==
  request.pc = "idle" => request.targets = {} /\ request.strikes = {} /\ request.batch = {}

\* A reply finds no target left, the overlay table untouched and the file quiet.
Replied ==
  request.pc = "replied" => request.targets = {} /\ doc.changes = request.overlay

IInv == /\ HistoryOK /\ AssignedOK /\ QueuesOK /\ DocumentOK /\ RequestOK
        /\ Perspective /\ Asked /\ Ages /\ NeverBack /\ Gone /\ SameText /\ Stillness /\ Fresh /\ Replied

-----------------------------------------------------------------------------
LEMMA UpdateAppends ==
  ASSUME HistoryOK, QueuesOK, NEW cmds \in Texts, NEW work \in BOOLEAN, Update(cmds, work)
  PROVE  /\ HistoryOK' /\ Tip' = Tip + 1
         /\ \A n \in 1..Tip : history'[n] = history[n]
         /\ Newest' = [cmds |-> cmds, work |-> work]
         /\ toML' \in Seq(ToML) /\ Numbered(toML', "update", Len(assigned), Tip')
         /\ toML' = Append(toML, "update")
<1> DEFINE v == [cmds |-> cmds, work |-> work]
<1>1. history \in Seq(Versions) /\ v \in Versions /\ history' = Append(history, v)
  BY DEF HistoryOK, Versions, Update
<1> HIDE DEF v
<1>2. history' \in Seq(Versions) /\ Tip' = Tip + 1 /\ Tip \in Nat BY <1>1 DEF Tip
<1>3. \A n \in 1..Tip : history'[n] = history[n] BY <1>1 DEF Tip
<1>4. history'[Tip + 1] = v BY <1>1 DEF Tip
<1>5. toML' = Append(toML, "update") /\ "update" \in ToML BY DEF Update, ToML
<1>6. toML' \in Seq(ToML) BY <1>5 DEF QueuesOK
<1>7. Numbered(Append(toML, "update"), "update", Len(assigned), Tip + 1)
  <2>1. toML \in Seq(ToML) /\ Numbered(toML, "update", Len(assigned), Tip) BY DEF QueuesOK
  <2> QED BY <2>1, <1>5, NumberedAppend
<1>8. HistoryOK' BY <1>2 DEF HistoryOK
<1>9. Newest' = v BY <1>2, <1>4 DEF Newest
<1> QED BY <1>2, <1>3, <1>5, <1>6, <1>7, <1>8, <1>9 DEF v

LEMMA NewestTyped ==
  ASSUME HistoryOK PROVE Tip \in Nat \ {0} /\ Newest.cmds \in Texts /\ Newest.work \in BOOLEAN
<1>1. Tip \in Nat \ {0} BY DEF HistoryOK, Tip
<1>2. history[Tip] \in Versions BY <1>1 DEF HistoryOK, Tip
<1> QED BY <1>1, <1>2 DEF Newest, Versions

LEMMA TextBasics ==
  ASSUME NEW text \in Texts
  PROVE  /\ text \in Seq(Commands) /\ Len(text) \in Nat \ {0} /\ DOMAIN text = 1..Len(text)
         /\ Range(text) \subseteq Commands
         /\ \A i \in 1..Len(text) : text[i] \in Commands
BY DEF Texts, Range

LEMMA RemintedTyped ==
  ASSUME HistoryOK, NEW v, NEW hit PROVE Reminted(v, hit) \in Texts
<1> DEFINE c == Newest.cmds
<1>1. c \in Texts /\ Tip \in Nat BY NewestTyped
<1>2. Len(c) \in Nat \ {0} /\ \A i \in 1..Len(c) : c[i] \in Commands BY <1>1, TextBasics
<1>3. \A i \in 1..Len(c) : <<Tip + 1, i>> \in Commands BY <1>1 DEF Commands
<1>4. Reminted(v, hit) \in [1..Len(c) -> Commands] BY <1>2, <1>3 DEF Reminted
<1>5. Reminted(v, hit) \in Seq(Commands) /\ Len(Reminted(v, hit)) = Len(c) BY <1>2, <1>4
<1> QED BY <1>2, <1>5 DEF Texts

\* What a step does to the history and to what the monitor keeps of it.
Hands ==
  /\ doc'.updates >= doc.updates
  /\ \/ /\ history' = history /\ doc'.last = doc.last
        /\ toML' = toML \/ Sends \/ MLUpdates \/ MLCancels \/ MLPongs
     \/ /\ doc'.last \in BOOLEAN
        /\ \E cmds \in Texts :
             /\ Update(cmds, doc'.last)
             /\ cmds = Newest.cmds \/ doc'.updates = doc.updates + 1

LEMMA StepHands ==
  ASSUME IInv, [Next]_vars PROVE Hands
<1> USE DEF IInv
<1>1. doc \in Documents /\ Newest.cmds \in Texts /\ Newest.work \in BOOLEAN
      /\ Tip \in Nat /\ Newest.work = doc.last
  BY NewestTyped DEF DocumentOK, Perspective
<1>2. Edited(Newest.cmds, doc.edits) \in Texts
  BY <1>1, EditedTyped DEF Documents
<1>3. \A w : Wanted(FALSE, w) \in BOOLEAN /\ Wanted(doc.caret, w) \in BOOLEAN
  BY <1>1 DEF Wanted, Documents
<1>4. CASE FlushInput
  <2> DEFINE w == Wanted(doc.caret, doc.overlays)
  <2>1. CASE doc.edits # <<>> \/ doc.last # w
    <3>1. doc'.updates = doc.updates + 1 /\ doc'.last = w /\ doc.updates \in Nat
      BY <2>1, <1>4, <1>1 DEF FlushInput, Documents
    <3>2. Update(Edited(Newest.cmds, doc.edits), w) BY <2>1, <1>4 DEF FlushInput
    <3>3. w \in BOOLEAN BY <1>3
    <3> HIDE DEF w
    <3> QED BY <3>1, <3>2, <3>3, <1>2 DEF Hands
  <2>2. CASE ~(doc.edits # <<>> \/ doc.last # Wanted(doc.caret, doc.overlays))
    BY <2>2, <1>1, <1>4 DEF FlushInput, Hands, Documents
  <2> QED BY <2>1, <2>2
<1>5. CASE Consolidate BY <1>1, <1>5 DEF Consolidate, Hands, Documents
<1>6. CASE Retracts
  <2>1. doc'.last = FALSE BY <1>6, <1>1 DEF Retracts, Documents
  <2>2. doc.last \in BOOLEAN /\ doc.updates \in Nat BY <1>1 DEF Documents
  <2>3. CASE doc.last
    <3>1. doc'.updates = doc.updates + 1 BY <2>3, <1>6, <1>1 DEF Retracts, Documents
    <3>2. Update(Newest.cmds, FALSE) BY <2>3, <1>6 DEF Retracts
    <3>3. Update(Newest.cmds, doc'.last) /\ doc'.last \in BOOLEAN BY <3>2, <2>1
    <3> QED BY <3>1, <3>3, <2>2, <1>1 DEF Hands
  <2>4. CASE ~doc.last
    <3>1. doc'.updates = doc.updates BY <2>4, <1>6, <1>1 DEF Retracts, Documents
    <3>2. history' = history /\ toML' = toML BY <2>4, <1>6 DEF Retracts
    <3>3. doc'.last = doc.last BY <2>1, <2>2, <2>4
    <3> QED BY <3>1, <3>2, <3>3, <2>2 DEF Hands
  <2> QED BY <2>3, <2>4
<1>7. CASE RoundFlushes
  <2>1. CASE doc.queued
    <3> DEFINE w == Wanted(FALSE, doc.overlays)
    <3>1. doc'.updates = doc.updates + 1 /\ doc'.last = w /\ doc.updates \in Nat
      BY <2>1, <1>7, <1>1 DEF RoundFlushes, Documents
    <3>2. Update(Edited(Newest.cmds, doc.edits), w) BY <2>1, <1>7 DEF RoundFlushes
    <3>3. w \in BOOLEAN BY <1>3
    <3> HIDE DEF w
    <3> QED BY <3>1, <3>2, <3>3, <1>2 DEF Hands
  <2>2. CASE ~doc.queued BY <2>2, <1>1, <1>7 DEF RoundFlushes, Hands, Documents
  <2> QED BY <2>1, <2>2
<1>8. CASE RoundRetires
  <2> DEFINE v == StableTip(request.st)
             retract == doc.last \/ Wanted(FALSE, doc.overlays)
  <2>1. \A hit : Reminted(v, hit) \in Texts BY RemintedTyped
  <2>2. CASE Located(v) = {} /\ ~retract
    BY <2>2, <1>1, <1>8 DEF RoundRetires, Hands, Documents
  <2>3. CASE ~(Located(v) = {} /\ ~retract)
    <3>1. \E hit : Update(Reminted(v, hit), FALSE) BY <2>3, <1>8 DEF RoundRetires
    <3>2. doc'.updates = doc.updates + 1 /\ doc'.last = FALSE
      BY <2>3, <1>8, <1>1 DEF RoundRetires, Documents
    <3>3. doc.updates \in Nat BY <1>1 DEF Documents
    <3>4. PICK hit : Update(Reminted(v, hit), FALSE) BY <3>1
    <3>5. Update(Reminted(v, hit), doc'.last) /\ doc'.last \in BOOLEAN BY <3>2, <3>4
    <3> QED BY <3>2, <3>3, <3>5, <2>1 DEF Hands
  <2> QED BY <2>2, <2>3
<1>9. CASE Edit BY <1>9, <1>1 DEF Edit, prover, Hands, Documents
<1>10. CASE InsertOverlay BY <1>10, <1>1 DEF InsertOverlay, Overlaid, prover, Hands, Documents
<1>11. CASE RemoveOverlay BY <1>11, <1>1 DEF RemoveOverlay, Overlaid, prover, Hands, Documents
<1>12. ASSUME UNCHANGED <<history, doc>>, toML' = toML \/ Sends \/ MLUpdates \/ MLCancels \/ MLPongs
       PROVE  Hands
  BY <1>12, <1>1 DEF Hands, Documents
<1>13. CASE MLUpdates \/ MLCancels \/ MLPongs \/ Receive
  BY <1>13, <1>12 DEF MLUpdates, MLCancels, MLPongs, Receive
<1>s. CASE Sends
  <2>1. UNCHANGED <<history, doc>> BY <1>s DEF Sends
  <2> QED BY <2>1, <1>s, <1>12
<1>14. CASE ReadsState \/ ChecksReport \/ ChecksPong \/ Awaited \/ ReadsSerial
            \/ ReadsAgain \/ RoundRetaken \/ Lands \/ AssertsRetracted \/ GivesUp
  BY <1>14, <1>12 DEF prover, ReadsState, ChecksReport, ChecksPong, Awaited, ReadsSerial,
                      ReadsAgain, RoundRetaken, Lands, AssertsRetracted, GivesUp
<1>15. CASE UNCHANGED vars BY <1>15, <1>12 DEF vars
<1> QED BY <1>4, <1>5, <1>6, <1>7, <1>8, <1>9, <1>10, <1>11, <1>13, <1>14, <1>15, <1>s
        DEF Next, Client, ML, Request

\* Versions are appended; uncounted ones repeat the newest text.
LEMMA HistoryKept ==
  ASSUME IInv, [Next]_vars
  PROVE  /\ HistoryOK' /\ Perspective' /\ Tip' \in Nat /\ Tip \in Nat /\ Tip <= Tip' /\ Tip' <= Tip + 1
         /\ \A n \in 1..Tip : history'[n] = history[n]
         /\ doc.updates <= doc'.updates
         /\ doc'.updates = doc.updates => \A n \in (Tip + 1)..Tip' : history'[n].cmds = Newest.cmds
<1> USE DEF IInv
<1>1. Hands BY StepHands
<1>2. doc \in Documents /\ Tip \in Nat \ {0} BY NewestTyped DEF DocumentOK
<1>3. CASE history' = history /\ doc'.last = doc.last
  <2>1. Tip' = Tip /\ Newest' = Newest BY <1>3 DEF Tip, Newest
  <2> QED BY <2>1, <1>1, <1>2, <1>3 DEF Hands, HistoryOK, Perspective
<1>4. CASE ~(history' = history /\ doc'.last = doc.last)
  <2>1. PICK cmds \in Texts :
              /\ Update(cmds, doc'.last)
              /\ cmds = Newest.cmds \/ doc'.updates = doc.updates + 1
    BY <1>1, <1>4, Zenon DEF Hands
  <2>2. doc'.last \in BOOLEAN BY <1>1, <1>4 DEF Hands
  <2>3. /\ HistoryOK' /\ Tip' = Tip + 1
        /\ \A n \in 1..Tip : history'[n] = history[n]
        /\ Newest' = [cmds |-> cmds, work |-> doc'.last]
    BY <2>1, <2>2, UpdateAppends
  <2>4. Perspective' BY <2>3 DEF Perspective
  <2>5. history'[Tip + 1].cmds = cmds BY <2>3 DEF Newest
  <2>6. doc.updates \in Nat /\ doc.updates <= doc'.updates
    BY <1>1, <1>2 DEF Hands, Documents
  <2>7. doc'.updates = doc.updates =>
          \A n \in (Tip + 1)..Tip' : history'[n].cmds = Newest.cmds
    BY <2>1, <2>3, <2>5, <2>6, <1>2
  <2> QED BY <1>2, <2>3, <2>4, <2>6, <2>7
<1> QED BY <1>3, <1>4

-----------------------------------------------------------------------------
LEMMA ExecsOf ==
  ASSUME NEW n, NEW t
  PROVE  t \in Execs(n) <=> \E c \in DOMAIN assigned[n] :
                              assigned[n][c] > 0 /\ t = <<c, assigned[n][c]>>
BY DEF Execs

LEMMA ExecsTyped ==
  ASSUME HistoryOK, AssignedOK, NEW n \in 1..Len(assigned)
  PROVE  /\ Execs(n) \subseteq ExecIds
         /\ \A t \in Execs(n) : t[2] \in 1..n /\ t[1] \in Range(history[n].cmds)
<1>1. Tip \in Nat /\ n \in 1..Tip BY DEF AssignedOK, HistoryOK, Tip
<1>a. history[n] \in Versions BY <1>1 DEF HistoryOK, Tip
<1>2. history[n].cmds \in Texts BY <1>a DEF Versions
<1>3. Range(history[n].cmds) \subseteq Commands BY <1>2, TextBasics
<1>4. SUFFICES ASSUME NEW t \in Execs(n)
               PROVE t \in ExecIds /\ t[2] \in 1..n /\ t[1] \in Range(history[n].cmds)
  OBVIOUS
<1>5. PICK c \in DOMAIN assigned[n] : assigned[n][c] > 0 /\ t = <<c, assigned[n][c]>>
  BY <1>4, ExecsOf
<1>6. c \in Range(history[n].cmds) /\ assigned[n][c] \in 0..n BY DEF AssignedOK
<1> QED BY <1>3, <1>5, <1>6 DEF ExecIds

LEMMA CommonPrefix ==
  ASSUME NEW n, NEW k \in Common(n)
  PROVE  /\ k \in 0..Len(history[n].cmds)
         /\ \A i \in 1..k : /\ i <= Len(history[n - 1].cmds)
                            /\ history[n].cmds[i] = history[n - 1].cmds[i]
BY DEF Common

LEMMA LongestCommon ==
  ASSUME NEW n, Len(history[n].cmds) \in Nat
  PROVE  (CHOOSE i \in Common(n) : \A j \in Common(n) : j <= i) \in Common(n)
<1>1. Common(n) \in SUBSET (0..Len(history[n].cmds)) BY DEF Common
<1>2. 0 \in Common(n) BY DEF Common
<1>3. \E i \in Common(n) : \A j \in Common(n) : j <= i BY <1>1, <1>2, Greatest
<1> QED BY <1>3

\* What the prover makes of an update: an exec is new or the one it had.
LEMMA Assigns ==
  ASSUME IInv, MLUpdates
  PROVE  LET n == Len(assigned) + 1
         IN /\ n \in 2..Tip /\ Tip \in Nat /\ Len(assigned) \in Nat
            /\ assigned' \in Seq(Assignments) /\ Len(assigned') = n
            /\ \A m \in 1..Len(assigned) : assigned'[m] = assigned[m]
            /\ DOMAIN assigned'[n] = Range(history[n].cmds)
            /\ \A c \in DOMAIN assigned'[n] :
                 \/ assigned'[n][c] \in {0, n}
                 \/ c \in DOMAIN assigned[n - 1] /\ assigned'[n][c] = assigned[n - 1][c]
<1> DEFINE n == Len(assigned) + 1
           cmds == history[n].cmds
           work == history[n].work
           all == CHOOSE i \in Common(n) : \A j \in Common(n) : j <= i
           F(k) == [c \in Range(cmds) |-> IF \E i \in 1..k : cmds[i] = c THEN assigned[n - 1][c]
                                          ELSE IF work THEN n ELSE 0]
<1> USE DEF IInv
<1>1. n \in 2..Tip /\ Tip \in Nat /\ Len(assigned) \in Nat
  <2>1. toML \in Seq(ToML) /\ toML # <<>> /\ Head(toML) = "update" BY DEF QueuesOK, MLUpdates
  <2>2. Numbered(toML, "update", Len(assigned), Tip) BY DEF QueuesOK
  <2>3. Len(assigned) + 1 <= Tip /\ Len(assigned) \in Nat BY <2>1, <2>2, NumberedTail
  <2>4. Len(assigned) >= 1 /\ Tip \in Nat BY <2>3, NewestTyped DEF QueuesOK
  <2> QED BY <2>3, <2>4
<1>2. history[n] \in Versions /\ history[n - 1] \in Versions
  BY <1>1 DEF HistoryOK, Tip
<1>3. cmds \in Texts /\ history[n - 1].cmds \in Texts BY <1>2 DEF Versions
<1>4. all \in Common(n) BY <1>3, TextBasics, LongestCommon
<1>5. PICK k \in Common(n) : assigned' = Append(assigned, F(k))
  BY <1>4 DEF MLUpdates
<1>6. \A i \in 1..k : cmds[i] \in DOMAIN assigned[n - 1]
  <2>1. SUFFICES ASSUME NEW i \in 1..k PROVE cmds[i] \in DOMAIN assigned[n - 1] OBVIOUS
  <2>2. i <= Len(history[n - 1].cmds) /\ cmds[i] = history[n - 1].cmds[i] /\ k \in Nat /\ i \in Nat
    <3>1. k \in 0..Len(cmds) /\ Len(cmds) \in Nat BY CommonPrefix, <1>3, TextBasics
    <3> QED BY <3>1, CommonPrefix
  <2>3. i \in DOMAIN history[n - 1].cmds BY <2>2, <1>3, TextBasics
  <2>4. cmds[i] \in Range(history[n - 1].cmds) BY <2>2, <2>3 DEF Range
  <2>5. n - 1 \in 1..Len(assigned) BY <1>1
  <2> QED BY <2>4, <2>5 DEF AssignedOK
<1> HIDE DEF all
<1>7. \A c \in Range(cmds) : F(k)[c] \in Nat
  <2>1. \A c \in DOMAIN assigned[n - 1] : assigned[n - 1][c] \in Nat BY <1>1 DEF AssignedOK
  <2> QED BY <2>1, <1>6, <1>1
<1>8. F(k) \in Assignments
  <2>1. Range(cmds) \in SUBSET Commands BY <1>3, TextBasics
  <2>2. F(k) \in [Range(cmds) -> Nat] BY <1>7
  <2> QED BY <2>1, <2>2 DEF Assignments
<1>9. assigned \in Seq(Assignments) BY DEF AssignedOK
<1> DEFINE f == F(k)
<1>10. DOMAIN f = Range(cmds) OBVIOUS
<1>11. \A c \in DOMAIN f : f[c] \in {0, n} \/ (c \in DOMAIN assigned[n - 1] /\ f[c] = assigned[n - 1][c])
  <2>1. SUFFICES ASSUME NEW c \in Range(cmds)
                 PROVE f[c] \in {0, n} \/ (c \in DOMAIN assigned[n - 1] /\ f[c] = assigned[n - 1][c])
    BY <1>10
  <2>2. CASE \E i \in 1..k : cmds[i] = c
    <3>1. c \in DOMAIN assigned[n - 1] BY <2>2, <1>6
    <3>2. f[c] = assigned[n - 1][c] BY <2>2
    <3> QED BY <3>1, <3>2
  <2>3. CASE ~ \E i \in 1..k : cmds[i] = c
    <3>1. f[c] = IF work THEN n ELSE 0 BY <2>3
    <3> HIDE DEF f
    <3> QED BY <3>1
  <2> QED BY <2>2, <2>3
<1>12. f \in Assignments /\ assigned' = Append(assigned, f) BY <1>8, <1>5
<1> HIDE DEF f, F
<1>13. /\ assigned' \in Seq(Assignments) /\ Len(assigned') = n
       /\ \A m \in 1..Len(assigned) : assigned'[m] = assigned[m]
       /\ assigned'[n] = f
  BY <1>12, <1>9
<1> QED BY <1>1, <1>10, <1>11, <1>13

\* The other steps leave the prover's assignment alone.
LEMMA AssignedKept ==
  ASSUME [Next]_vars, ~MLUpdates PROVE assigned' = assigned
BY DEF Next, Client, ML, Request, vars, prover, Edit, InsertOverlay, RemoveOverlay, FlushInput,
       MLCancels, MLPongs, Consolidate, Receive, ReadsState, Sends, ChecksReport,
       ChecksPong, Retracts, Awaited, ReadsSerial, ReadsAgain, RoundRetaken, RoundFlushes,
       RoundRetires, Lands, AssertsRetracted, GivesUp

LEMMA StepAssignedOK ==
  ASSUME IInv, [Next]_vars PROVE AssignedOK'
<1> USE DEF IInv
<1>1. Tip' \in Nat /\ Tip \in Nat /\ Tip <= Tip' /\ \A n \in 1..Tip : history'[n] = history[n]
  BY HistoryKept
<1>2. CASE MLUpdates
  <2> DEFINE n == Len(assigned) + 1
  <2>1. /\ n \in 2..Tip /\ Len(assigned) \in Nat
        /\ assigned' \in Seq(Assignments) /\ Len(assigned') = n
        /\ \A m \in 1..Len(assigned) : assigned'[m] = assigned[m]
        /\ DOMAIN assigned'[n] = Range(history[n].cmds)
        /\ \A c \in DOMAIN assigned'[n] :
             \/ assigned'[n][c] \in {0, n}
             \/ c \in DOMAIN assigned[n - 1] /\ assigned'[n][c] = assigned[n - 1][c]
    BY <1>2, Assigns
  <2>2. ASSUME NEW m \in 1..n
        PROVE  /\ DOMAIN assigned'[m] = Range(history'[m].cmds)
               /\ \A c \in DOMAIN assigned'[m] : assigned'[m][c] \in 0..m
    <3>1. history'[m] = history[m] BY <1>1, <2>1
    <3>2. CASE m = n
      <4>1. n - 1 \in 1..Len(assigned) BY <2>1
      <4>2. \A c \in DOMAIN assigned[n - 1] : assigned[n - 1][c] \in 0..(n - 1) BY <4>1 DEF AssignedOK
      <4> QED BY <2>1, <3>1, <3>2, <4>2
    <3>3. CASE m # n
      <4>1. m \in 1..Len(assigned) BY <3>3, <2>1
      <4> QED BY <4>1, <3>1, <2>1 DEF AssignedOK
    <3> QED BY <3>2, <3>3
  <2> QED BY <2>1, <2>2, <1>1 DEF AssignedOK
<1>3. CASE ~MLUpdates
  <2>1. assigned' = assigned BY <1>3, AssignedKept
  <2>2. \A n \in 1..Len(assigned) : n \in 1..Tip BY <1>1 DEF AssignedOK
  <2> QED BY <2>1, <2>2, <1>1 DEF AssignedOK
<1> QED BY <1>2, <1>3

LEMMA StepNeverBack ==
  ASSUME IInv, [Next]_vars PROVE NeverBack'
<1> USE DEF IInv
<1>1. CASE MLUpdates
  <2>0. PICK n : n = Len(assigned) + 1 OBVIOUS
  <2>1. /\ n = Len(assigned) + 1 /\ n \in 2..Tip /\ Len(assigned) \in Nat /\ Tip \in Nat
        /\ Len(assigned') = n
        /\ \A m \in 1..Len(assigned) : assigned'[m] = assigned[m]
        /\ \A c \in DOMAIN assigned'[n] :
             \/ assigned'[n][c] \in {0, n}
             \/ c \in DOMAIN assigned[n - 1] /\ assigned'[n][c] = assigned[n - 1][c]
    BY <1>1, <2>0, Assigns
  <2>2. \A m \in 1..Len(assigned) : Execs(m)' = Execs(m) BY <2>1 DEF Execs
  <2>3. ASSUME NEW t, t \in Execs(n)' PROVE t[2] = n \/ t \in Execs(n - 1)
    <3>1. PICK c \in DOMAIN assigned'[n] : assigned'[n][c] > 0 /\ t = <<c, assigned'[n][c]>>
      BY <2>3, Zenon DEF Execs
    <3>2. assigned'[n][c] # 0 /\ t[2] = assigned'[n][c]
      <4>1. assigned'[n][c] \in {0, n} \/ assigned'[n][c] \in 0..(n - 1)
        <5>1. n - 1 \in 1..Len(assigned) BY <2>1
        <5>2. \A d \in DOMAIN assigned[n - 1] : assigned[n - 1][d] \in 0..(n - 1) BY <5>1 DEF AssignedOK
        <5> QED BY <5>2, <2>1
      <4> QED BY <4>1, <3>1, <2>1
    <3>3. CASE assigned'[n][c] = n BY <3>2, <3>3
    <3>4. CASE c \in DOMAIN assigned[n - 1] /\ assigned'[n][c] = assigned[n - 1][c]
      BY <3>1, <3>4, ExecsOf
    <3> QED BY <3>2, <3>3, <3>4, <2>1
  <2>4. SUFFICES ASSUME NEW k \in 1..n, NEW m \in 1..k, NEW t \in Execs(k)', t[2] <= m
                 PROVE  t \in Execs(m)'
    BY <2>0, <2>1 DEF NeverBack
  <2>5. CASE k # n
    <3>1. k \in 1..Len(assigned) /\ m \in 1..Len(assigned) BY <2>5, <2>1
    <3>2. t \in Execs(k) /\ t \in Execs(m) BY <3>1, <2>2, <2>4 DEF NeverBack
    <3> QED BY <3>1, <3>2, <2>2
  <2>6. CASE k = n /\ m # n
    <3>1. m \in 1..Len(assigned) /\ n - 1 \in 1..Len(assigned) /\ m \in 1..(n - 1) BY <2>6, <2>1
    <3>2. ~(n <= m) BY <3>1, <2>1
    <3>3. t \in Execs(n - 1)
      <4>1. t \in Execs(n)' BY <2>4, <2>6, Zenon
      <4>2. t[2] # n BY <2>4, <3>2
      <4> QED BY <2>3, <4>1, <4>2
    <3>4. t \in Execs(m) BY <3>1, <3>3, <2>4 DEF NeverBack
    <3> QED BY <3>1, <3>4, <2>2
  <2>7. CASE k = n /\ m = n BY <2>7, <2>4
  <2> QED BY <2>5, <2>6, <2>7
<1>2. CASE ~MLUpdates
  <2>1. assigned' = assigned BY <1>2, AssignedKept
  <2>2. \A m : Execs(m)' = Execs(m) BY <2>1 DEF Execs
  <2> QED BY <2>1, <2>2 DEF NeverBack
<1> QED BY <1>1, <1>2

LEMMA ProverKept ==
  ASSUME [Next]_vars, ~(MLUpdates \/ MLCancels \/ MLPongs \/ Receive)
  PROVE  UNCHANGED <<assigned, told, fromML, interrupted>>
BY DEF Next, Client, ML, Request, vars, prover, Edit, InsertOverlay, RemoveOverlay, FlushInput,
       Consolidate, ReadsState, Sends, ChecksReport,
       ChecksPong, Retracts, Awaited, ReadsSerial, ReadsAgain, RoundRetaken, RoundFlushes,
       RoundRetires, Lands, AssertsRetracted, GivesUp

LEMMA StepQueues ==
  ASSUME IInv, [Next]_vars PROVE QueuesOK'
<1> USE DEF IInv
<1>1. /\ toML \in Seq(ToML) /\ fromML \in Seq(FromML) /\ told \in Nat /\ told >= 1
      /\ told <= Len(assigned) /\ Len(assigned) \in Nat /\ Tip \in Nat
      /\ Numbered(toML, "update", Len(assigned), Tip)
      /\ Numbered(fromML, "assigned", told, Len(assigned))
  BY NewestTyped DEF QueuesOK, AssignedOK
<1>2. CASE MLUpdates
  <2>1. /\ toML # <<>> /\ Head(toML) = "update" /\ toML' = Tail(toML)
        /\ fromML' = Append(fromML, "assigned") /\ told' = told /\ history' = history
    BY <1>2 DEF MLUpdates
  <2>2. Len(assigned') = Len(assigned) + 1 BY <1>2, Assigns
  <2>3. Numbered(Tail(toML), "update", Len(assigned) + 1, Tip) BY <1>1, <2>1, NumberedTail
  <2>4. "assigned" \in FromML BY DEF FromML
  <2>5. Numbered(Append(fromML, "assigned"), "assigned", told, Len(assigned) + 1)
    BY <1>1, <2>4, NumberedAppend
  <2>6. Tip' = Tip BY <2>1 DEF Tip
  <2>7. Tail(toML) \in Seq(ToML) /\ Append(fromML, "assigned") \in Seq(FromML) BY <1>1, <2>1, <2>4
  <2> QED BY <1>1, <2>1, <2>2, <2>3, <2>5, <2>6, <2>7 DEF QueuesOK
<1>3. ASSUME toML # <<>>, Head(toML) # "update", toML' = Tail(toML),
             NEW m \in FromML, m # "assigned", fromML' \in {fromML, Append(fromML, m)},
             UNCHANGED <<told, history, assigned>>
      PROVE  QueuesOK'
  <2>1. Numbered(Tail(toML), "update", Len(assigned), Tip) BY <1>1, <1>3, NumberedTail
  <2>2. Numbered(Append(fromML, m), "assigned", told, Len(assigned))
    BY <1>1, <1>3, NumberedAppend
  <2>3. Tip' = Tip BY <1>3 DEF Tip
  <2>4. Tail(toML) \in Seq(ToML) /\ Append(fromML, m) \in Seq(FromML) BY <1>1, <1>3
  <2> QED BY <1>1, <1>3, <2>1, <2>2, <2>3, <2>4 DEF QueuesOK
<1>4. CASE MLCancels
  <2>1. "report" \in FromML /\ "failed" \in FromML BY DEF FromML
  <2> QED BY <1>3, <1>4, <2>1 DEF MLCancels
<1>5. CASE MLPongs
  <2>1. "pong" \in FromML BY DEF FromML
  <2> QED BY <1>3, <1>5, <2>1 DEF MLPongs
<1>6. CASE Receive
  <2>1. /\ fromML # <<>> /\ fromML' = Tail(fromML) /\ UNCHANGED <<history, assigned, toML>>
        /\ told' = IF Head(fromML) = "assigned" THEN told + 1 ELSE told
    BY <1>6 DEF Receive
  <2>2. /\ Numbered(Tail(fromML), "assigned", told', Len(assigned)) /\ told' <= Len(assigned)
        /\ told' \in Nat \ {0}
    BY <1>1, <2>1, NumberedTail
  <2>3. Tip' = Tip BY <2>1 DEF Tip
  <2>4. Tail(fromML) \in Seq(FromML) BY <1>1, <2>1
  <2> QED BY <1>1, <2>1, <2>2, <2>3, <2>4 DEF QueuesOK
<1>7. CASE Sends
  <2> DEFINE q == Append(toML, "cancel")
  <2>1. "cancel" \in ToML /\ "ping" \in ToML BY DEF ToML
  <2>2. toML' = Append(q, "ping") /\ UNCHANGED <<history, assigned, told, fromML>>
    BY <1>7, <1>1, <2>1 DEF Sends
  <2>3. q \in Seq(ToML) /\ Numbered(q, "update", Len(assigned), Tip) BY <1>1, <2>1, NumberedAppend
  <2> HIDE DEF q
  <2>4. Append(q, "ping") \in Seq(ToML) /\ Numbered(Append(q, "ping"), "update", Len(assigned), Tip)
    BY <1>1, <2>1, <2>3, NumberedAppend
  <2>5. Tip' = Tip BY <2>2 DEF Tip
  <2> QED BY <1>1, <2>2, <2>4, <2>5 DEF QueuesOK
<1>8. CASE ~(MLUpdates \/ MLCancels \/ MLPongs \/ Receive \/ Sends)
  <2>1. UNCHANGED <<assigned, told, fromML>> BY <1>8, ProverKept
  <2>2. Hands BY StepHands
  <2>3. CASE history' = history /\ toML' = toML
    <3>1. Tip' = Tip BY <2>3 DEF Tip
    <3> QED BY <1>1, <2>1, <2>3, <3>1 DEF QueuesOK
  <2>4. CASE ~(history' = history /\ toML' = toML)
    <3>1. doc'.last \in BOOLEAN /\ \E cmds \in Texts : Update(cmds, doc'.last)
      BY <1>8, <2>2, <2>4, Zenon DEF Hands
    <3>2. toML' \in Seq(ToML) /\ Numbered(toML', "update", Len(assigned), Tip')
      BY <3>1, UpdateAppends
    <3> QED BY <1>1, <2>1, <3>2 DEF QueuesOK
  <2> QED BY <2>3, <2>4
<1> QED BY <1>2, <1>4, <1>5, <1>6, <1>7, <1>8

-----------------------------------------------------------------------------
LEMMA StepDocument ==
  ASSUME IInv, [Next]_vars PROVE DocumentOK'
<1> USE DEF IInv
<1>1. doc \in Documents /\ (doc.edits # <<>> => doc.queued) BY DEF DocumentOK
<1>2. PICK k \in Nat : doc.queries \subseteq 1..k BY DEF DocumentOK
<1>w. \A w : Wanted(FALSE, w) \in BOOLEAN /\ Wanted(doc.caret, w) \in BOOLEAN
  BY <1>1 DEF Wanted, Documents
<1>3. ASSUME doc' \in Documents, doc'.edits # <<>> => doc'.queued, doc'.queries \subseteq doc.queries
      PROVE  DocumentOK'
  BY <1>2, <1>3 DEF DocumentOK
<1>o. ASSUME NEW table \in SUBSET Nat, NEW running \in SUBSET Nat, doc' = Overlaid(table, running)
      PROVE  doc' \in Documents /\ doc'.queued /\ doc'.queries = running
  <2> DEFINE changes == IF table # doc.overlays THEN doc.changes + 1 ELSE doc.changes
  <2>1. changes \in Nat BY <1>1 DEF Documents
  <2>2. doc' = [doc EXCEPT !.overlays = table, !.queries = running, !.queued = TRUE,
                           !.changes = changes]
    BY <1>o DEF Overlaid
  <2> HIDE DEF changes
  <2> QED BY <1>1, <2>1, <2>2 DEF Documents
<1>u. doc.updates + 1 \in Nat /\ <<>> \in Seq({0, 1}) BY <1>1 DEF Documents
<1>4. CASE Edit
  <2>1. PICK at \in {0, 1} : doc' = [doc EXCEPT !.edits = Append(@, at), !.queued = TRUE]
    BY <1>4 DEF Edit
  <2>2. Append(doc.edits, at) \in Seq({0, 1}) BY <1>1 DEF Documents
  <2>3. doc' \in Documents BY <1>1, <2>1, <2>2 DEF Documents
  <2>4. doc'.queued /\ doc'.queries = doc.queries BY <1>1, <2>1 DEF Documents
  <2> QED BY <1>3, <2>3, <2>4
<1>5. CASE InsertOverlay
  <2> DEFINE q == 1 + Max(doc.queries \cup {0})
  <2>1. doc.queries \cup {0} \in SUBSET (0..k) /\ doc.queries \cup {0} # {} BY <1>2
  <2>2. q \in 1..(k + 1)
    <3>1. Max(doc.queries \cup {0}) \in 0..k BY <2>1, MaxIsGreatest
    <3> QED BY <3>1, <1>2
  <2>3. doc' = Overlaid(doc.overlays \cup {q}, doc.queries \cup {q}) BY <1>5 DEF InsertOverlay
  <2> HIDE DEF q
  <2>4. doc' \in Documents /\ doc'.queued /\ doc'.queries = doc.queries \cup {q}
    <3>1. q \in Nat BY <2>2, <1>2
    <3>2. doc.overlays \cup {q} \in SUBSET Nat /\ doc.queries \cup {q} \in SUBSET Nat
      BY <3>1, <1>1 DEF Documents
    <3> QED BY <2>3, <3>2, <1>o
  <2>5. doc'.queries \subseteq 1..(k + 1) BY <2>2, <2>4, <1>2
  <2>6. k + 1 \in Nat OBVIOUS
  <2> QED BY <2>4, <2>5, <2>6 DEF DocumentOK
<1>6. CASE RemoveOverlay
  <2>1. PICK q \in doc.queries : doc' = Overlaid(doc.overlays \ {q}, doc.queries \ {q})
    BY <1>6 DEF RemoveOverlay
  <2>2. doc' \in Documents /\ doc'.queued /\ doc'.queries = doc.queries \ {q}
    <3>2. doc.overlays \ {q} \in SUBSET Nat /\ doc.queries \ {q} \in SUBSET Nat
      BY <1>1 DEF Documents
    <3> QED BY <2>1, <3>2, <1>o
  <2> QED BY <1>3, <2>2
<1>7. CASE FlushInput
  <2>1. doc' \in Documents /\ doc'.edits = <<>> /\ doc'.queries = doc.queries
    <3> DEFINE work == Wanted(doc.caret, doc.overlays)
               u == IF doc.edits # <<>> \/ doc.last # work THEN doc.updates + 1 ELSE doc.updates
    <3>1. work \in BOOLEAN BY <1>w
    <3>3. u \in Nat
      <4> HIDE DEF work
      <4> QED BY <1>1, <1>u DEF Documents
    <3>2. doc' = [doc EXCEPT !.edits = <<>>, !.queued = FALSE, !.last = work, !.updates = u]
      BY <1>7 DEF FlushInput
    <3> HIDE DEF work, u
    <3> QED BY <3>1, <3>2, <3>3, <1>1, <1>u DEF Documents
  <2> QED BY <1>3, <2>1
<1>8. CASE Retracts
  <2>1. /\ doc' \in Documents /\ doc'.edits = doc.edits /\ doc'.queries = doc.queries
        /\ doc'.queued = IF doc.last THEN Unqueued ELSE doc.queued
    <3>1. Unqueued \in BOOLEAN BY <1>1 DEF Unqueued, Documents
    <3> DEFINE qd == IF doc.last THEN Unqueued ELSE doc.queued
               u == IF doc.last THEN doc.updates + 1 ELSE doc.updates
    <3>2. qd \in BOOLEAN /\ u \in Nat /\ {} \in SUBSET Nat BY <3>1, <1>1 DEF Documents
    <3>3. doc' = [doc EXCEPT !.caret = FALSE, !.overlays = {}, !.last = FALSE,
                             !.queued = qd, !.updates = u]
      BY <1>8 DEF Retracts
    <3>4. doc' \in Documents /\ doc'.edits = doc.edits /\ doc'.queries = doc.queries
          /\ doc'.queued = qd
      <4> HIDE DEF qd, u
      <4> QED BY <3>2, <3>3, <1>1 DEF Documents
    <3> QED BY <3>4
  <2> QED BY <1>1, <1>3, <2>1 DEF Unqueued
<1>9. CASE RoundFlushes
  <2>1. CASE doc.queued
    <3>1. doc' \in Documents /\ doc'.edits = <<>> /\ doc'.queries = doc.queries
      <4> DEFINE work == Wanted(FALSE, doc.overlays)
      <4>1. work \in BOOLEAN BY <1>w
      <4>2. doc' = [doc EXCEPT !.edits = <<>>, !.queued = FALSE, !.updates = doc.updates + 1,
                               !.last = work]
        BY <2>1, <1>9 DEF RoundFlushes
      <4> HIDE DEF work
      <4> QED BY <4>1, <4>2, <1>1, <1>u DEF Documents
    <3> QED BY <1>3, <3>1
  <2>2. CASE ~doc.queued
    <3>1. doc' = doc BY <2>2, <1>9 DEF RoundFlushes
    <3> QED BY <3>1, <1>1, <1>3
  <2> QED BY <2>1, <2>2
<1>10. CASE RoundRetires
  <2> DEFINE retract == doc.last \/ Wanted(FALSE, doc.overlays)
  <2>1. CASE doc' = doc BY <2>1, <1>1, <1>3
  <2>2. CASE doc' = [doc EXCEPT !.updates = @ + 1, !.last = FALSE,
                                !.queued = IF retract THEN FALSE ELSE @]
    <3>1. doc' \in Documents /\ doc'.edits = doc.edits /\ doc'.queries = doc.queries
      <4> DEFINE qd == IF retract THEN FALSE ELSE doc.queued
      <4>1. qd \in BOOLEAN BY <1>1 DEF Documents
      <4>2. doc' = [doc EXCEPT !.updates = doc.updates + 1, !.last = FALSE, !.queued = qd]
        BY <2>2
      <4> HIDE DEF qd, retract
      <4> QED BY <4>1, <4>2, <1>1, <1>u DEF Documents
    <3>2. doc.edits = <<>> BY <1>10 DEF RoundRetires
    <3> QED BY <1>3, <3>1, <3>2
  <2> QED BY <2>1, <2>2, <1>10 DEF RoundRetires
<1>11. CASE doc' = doc BY <1>11, <1>1, <1>3
<1> QED BY <1>4, <1>5, <1>6, <1>7, <1>8, <1>9, <1>10, <1>11
   DEF Next, Client, ML, Request, vars, MLUpdates, MLCancels, MLPongs, Receive,
       Consolidate, ReadsState, Sends, ChecksReport, ChecksPong, Awaited, ReadsSerial,
       ReadsAgain, RoundRetaken, Lands, AssertsRetracted, GivesUp

LEMMA StepRequest ==
  ASSUME IInv, [Next]_vars PROVE RequestOK'
<1> USE DEF IInv
<1>1. /\ request \in Requests /\ interrupted \subseteq request.probe /\ quietFrom \in Nat
      /\ request.targets \subseteq request.probe /\ request.strikes \subseteq request.probe
      /\ request.batch \subseteq request.probe
  BY DEF RequestOK
<1>2. /\ Tip \in Nat \ {0} /\ told \in 1..Len(assigned) /\ Len(assigned) \in Nat
      /\ doc.updates \in Nat /\ doc.changes \in Nat
  BY NewestTyped DEF QueuesOK, AssignedOK, DocumentOK, Documents
<1>3. \A st \in [tip : Nat, told : Nat] : StableTip(st) \in Nat BY DEF StableTip
<1>4. /\ Reading \in [tip : Nat, told : Nat] /\ Idle.st \in [tip : Nat, told : Nat]
      /\ request.st \in [tip : Nat, told : Nat]
  BY <1>1, <1>2 DEF Reading, Idle, Requests
<1>5. ASSUME request' \in Requests, request'.probe = request.probe, UNCHANGED quietFrom,
             interrupted' \subseteq request.probe,
             request'.targets \cup request'.strikes \cup request'.batch \subseteq request.probe
      PROVE  RequestOK'
  BY <1>1, <1>5 DEF RequestOK
<1>6. Loop \in Requests /\ Loop.probe = request.probe /\ Loop.batch = {}
      /\ Loop.targets = request.targets /\ Loop.strikes = request.strikes
  BY <1>1, <1>4 DEF Loop, Requests, Labels
<1>7. ASSUME NEW label \in Labels, Goto(label), UNCHANGED <<quietFrom, interrupted>> PROVE RequestOK'
  <2>1. /\ request' \in Requests /\ request'.probe = request.probe /\ request'.batch = request.batch
        /\ request'.targets = request.targets /\ request'.strikes = request.strikes
    BY <1>1, <1>7 DEF Goto, Requests
  <2> QED BY <1>1, <1>5, <1>7, <2>1
<1>8. ASSUME Abort, UNCHANGED <<quietFrom, interrupted>> PROVE RequestOK'
  <2>1. "aborted" \in Labels BY DEF Labels
  <2> QED BY <1>7, <1>8, <2>1 DEF Abort
<1>9. ASSUME request' = request, UNCHANGED quietFrom, interrupted' \subseteq request.probe
      PROVE  RequestOK'
  BY <1>1, <1>5, <1>9
<1>10. ASSUME request' = Loop, UNCHANGED <<quietFrom, interrupted>> PROVE RequestOK'
  BY <1>1, <1>5, <1>6, <1>10
<1>11. CASE Client \/ MLUpdates \/ MLPongs \/ Consolidate \/ UNCHANGED vars
  <2>1. UNCHANGED <<request, quietFrom, interrupted>>
    BY <1>11 DEF Client, Edit, InsertOverlay, RemoveOverlay, FlushInput, MLUpdates, MLPongs,
                 Consolidate, vars, prover
  <2> QED BY <1>9, <1>1, <2>1
<1>12. CASE MLCancels BY <1>9, <1>12 DEF MLCancels
<1>13. CASE Receive
  <2>1. PICK rep \in {"none", "report", "failed"}, png \in BOOLEAN :
              request' = [request EXCEPT !.report = rep, !.pong = png]
    <3> DEFINE message == Head(fromML)
               rep == IF message \in {"report", "failed"} THEN message ELSE request.report
               png == request.pong \/ message = "pong"
    <3>1. rep \in {"none", "report", "failed"} /\ png \in BOOLEAN BY <1>1 DEF Requests
    <3>2. request' = [request EXCEPT !.report = rep, !.pong = png] BY <1>13 DEF Receive
    <3> QED BY <3>1, <3>2
  <2>2. /\ request' \in Requests /\ request'.probe = request.probe /\ request'.batch = request.batch
        /\ request'.targets = request.targets /\ request'.strikes = request.strikes
    BY <1>1, <2>1 DEF Requests
  <2> QED BY <1>13, <1>1, <1>5, <2>2 DEF Receive
<1>14. CASE ReadsState
  <2>1. request' = [request EXCEPT !.pc = "read", !.st = Reading, !.probe = Execs(told)]
        /\ UNCHANGED <<quietFrom, interrupted>> /\ request.pc = "idle"
    BY <1>14 DEF ReadsState, prover, At
  <2>2. Execs(told) \in SUBSET ExecIds BY <1>2, ExecsTyped
  <2>3. interrupted = {} BY <2>1 DEF Asked
  <2>4. /\ request' \in Requests /\ request'.probe = Execs(told) /\ request'.batch = request.batch
        /\ request'.targets = request.targets /\ request'.strikes = request.strikes
    BY <1>1, <1>4, <2>1, <2>2 DEF Requests, Labels
  <2>5. request.targets = {} /\ request.strikes = {} /\ request.batch = {}
    BY <2>1 DEF Fresh
  <2> QED BY <2>1, <2>3, <2>4, <2>5, <1>1 DEF RequestOK
<1>15. CASE Sends \/ ChecksPong
  <2>1. "polls" \in Labels /\ "aborted" \in Labels BY DEF Labels
  <2> QED BY <1>15, <1>7, <2>1 DEF Sends, ChecksPong, prover
<1>16. CASE ChecksReport
  <2>1. "looks" \in Labels BY DEF Labels
  <2>2. CASE request.report = "report"
    <3>1. request' = [request EXCEPT !.pc = "retracts", !.targets = interrupted]
          /\ UNCHANGED <<quietFrom, interrupted>>
      BY <1>16, <2>2 DEF ChecksReport, prover
    <3>2. interrupted \in SUBSET ExecIds BY <1>1 DEF Requests
    <3>3. /\ request' \in Requests /\ request'.probe = request.probe
          /\ request'.batch = request.batch
          /\ request'.targets = interrupted /\ request'.strikes = request.strikes
      BY <1>1, <3>1, <3>2 DEF Requests, Labels
    <3> QED BY <1>1, <1>5, <3>1, <3>3
  <2>3. CASE request.report = "none"
    BY <1>16, <2>3, <1>7, <2>1 DEF ChecksReport, prover
  <2>4. CASE request.report = "failed"
    BY <1>16, <2>4, <1>8 DEF ChecksReport, prover
  <2> QED BY <2>2, <2>3, <2>4, <1>1 DEF Requests
<1>17. CASE Retracts
  <2> DEFINE label == IF doc.last THEN "awaits" ELSE "loop"
             b == StableTip(request.st)
  <2>1. request' = [request EXCEPT !.pc = label, !.overlay = doc.changes, !.before = b]
        /\ quietFrom' = Tip' /\ interrupted' = interrupted
    BY <1>17 DEF Retracts, Tip
  <2>2. label \in Labels /\ b \in Nat /\ Tip' \in Nat BY <1>3, <1>4, HistoryKept DEF Labels
  <2> HIDE DEF label, b
  <2>3. /\ request' \in Requests /\ request'.probe = request.probe
        /\ request'.batch = request.batch
        /\ request'.targets = request.targets /\ request'.strikes = request.strikes
    BY <1>1, <1>2, <2>1, <2>2 DEF Requests
  <2> QED BY <1>1, <2>1, <2>2, <2>3 DEF RequestOK
<1>18. CASE Awaited \/ RoundRetaken
  BY <1>18, <1>10 DEF Awaited, RoundRetaken, prover
<1>19. CASE ReadsSerial
  <2>1. request' = [request EXCEPT !.pc = "serial", !.serial = doc.updates]
        /\ UNCHANGED <<quietFrom, interrupted>>
    BY <1>19 DEF ReadsSerial, prover
  <2>2. /\ request' \in Requests /\ request'.probe = request.probe
        /\ request'.batch = request.batch
        /\ request'.targets = request.targets /\ request'.strikes = request.strikes
    BY <1>1, <1>2, <2>1 DEF Requests, Labels
  <2> QED BY <1>1, <1>5, <2>1, <2>2
<1>20. CASE ReadsAgain
  <2>1. request' = [request EXCEPT !.pc = "round", !.st = Reading]
        /\ UNCHANGED <<quietFrom, interrupted>>
    BY <1>20 DEF ReadsAgain, prover
  <2>2. /\ request' \in Requests /\ request'.probe = request.probe
        /\ request'.batch = request.batch
        /\ request'.targets = request.targets /\ request'.strikes = request.strikes
    BY <1>1, <1>4, <2>1 DEF Requests, Labels
  <2> QED BY <1>1, <1>5, <2>1, <2>2
<1>21. CASE RoundFlushes
  <2>1. CASE ~doc.queued BY <1>21, <2>1, <1>8 DEF RoundFlushes
  <2>2. CASE doc.queued
    <3>1. request' = [request EXCEPT !.pc = "awaits", !.before = StableTip(request.st)]
          /\ UNCHANGED <<quietFrom, interrupted>>
      BY <1>21, <2>2 DEF RoundFlushes
    <3>2. StableTip(request.st) \in Nat BY <1>3, <1>4
    <3>3. /\ request' \in Requests /\ request'.probe = request.probe
          /\ request'.batch = request.batch
          /\ request'.targets = request.targets /\ request'.strikes = request.strikes
      BY <1>1, <3>1, <3>2 DEF Requests, Labels
    <3> QED BY <1>1, <1>5, <3>1, <3>3
  <2> QED BY <2>1, <2>2
<1>22. CASE RoundRetires
  <2> DEFINE v == StableTip(request.st)
             located == Located(v)
  <2>1. v \in Nat /\ located \in SUBSET ExecIds /\ located \subseteq request.targets
    BY <1>1, <1>3, <1>4 DEF Located, Requests
  <2>2. UNCHANGED <<quietFrom, interrupted>> BY <1>22 DEF RoundRetires
  <2>3. CASE request' = [Loop EXCEPT !.targets = {}]
    <3>1. /\ request' \in Requests /\ request'.probe = request.probe /\ request'.batch = {}
          /\ request'.targets = {} /\ request'.strikes = request.strikes
      BY <1>6, <2>3 DEF Requests
    <3> QED BY <1>1, <1>5, <2>2, <3>1
  <2>4. CASE request' = [request EXCEPT !.pc = "lands", !.targets = located,
                                        !.batch = located, !.before = v]
    <3> HIDE DEF v, located
    <3>1. /\ request' \in Requests /\ request'.probe = request.probe /\ request'.batch = located
          /\ request'.targets = located /\ request'.strikes = request.strikes
      BY <1>1, <2>1, <2>4 DEF Requests, Labels
    <3> QED BY <1>1, <1>5, <2>1, <2>2, <3>1
  <2> QED BY <2>3, <2>4, <1>22 DEF RoundRetires
<1>23. CASE Lands
  <2> DEFINE T == (Loop.targets \ request.batch) \cup Remaining
             S == (Loop.strikes \ request.batch) \cup Remaining
  <2>1. UNCHANGED <<quietFrom, interrupted>> BY <1>23 DEF Lands, prover
  <2>2. CASE Abort BY <2>1, <2>2, <1>8
  <2>3. CASE request' = [Loop EXCEPT !.targets = T, !.strikes = S]
    <3>1. Remaining \subseteq request.batch BY DEF Remaining
    <3>2. T \in SUBSET ExecIds /\ S \in SUBSET ExecIds
          /\ T \subseteq request.probe /\ S \subseteq request.probe
      BY <3>1, <1>1, <1>6 DEF Requests
    <3> HIDE DEF T, S
    <3>3. /\ request' \in Requests /\ request'.probe = request.probe /\ request'.batch = {}
          /\ request'.targets = T /\ request'.strikes = S
      BY <1>6, <2>3, <3>2 DEF Requests
    <3> QED BY <1>1, <1>5, <2>1, <3>2, <3>3
  <2> QED BY <2>2, <2>3, <1>23 DEF Lands
<1>24. CASE AssertsRetracted
  <2>1. "replied" \in Labels /\ "aborted" \in Labels BY DEF Labels
  <2> QED BY <1>24, <1>7, <2>1 DEF AssertsRetracted, prover
<1>25. CASE GivesUp BY <1>25, <1>8 DEF GivesUp, prover
<1> QED BY <1>11, <1>12, <1>13, <1>14, <1>15, <1>16, <1>17, <1>18, <1>19, <1>20, <1>21, <1>22,
           <1>23, <1>24, <1>25 DEF Next, ML, Request

\* Outside the request's own steps only an answer of the prover reaches it.
Outside ==
  /\ request' = [request EXCEPT !.report = request'.report, !.pong = request'.pong]
  /\ \/ request'.report = request.report
     \/ Receive /\ request'.report = Head(fromML) /\ request'.report \in {"report", "failed"}

LEMMA StepOutside ==
  ASSUME IInv, [Next]_vars, ~Request PROVE Outside
<1>1. request \in Requests BY DEF IInv, RequestOK
<1>2. CASE request' = request
  <2>1. request = [request EXCEPT !.report = request.report, !.pong = request.pong]
    BY <1>1 DEF Requests
  <2> QED BY <1>2, <2>1 DEF Outside
<1>3. CASE Receive
  <2> DEFINE message == Head(fromML)
             rep == IF message \in {"report", "failed"} THEN message ELSE request.report
             png == request.pong \/ message = "pong"
  <2>1. request' = [request EXCEPT !.report = rep, !.pong = png] BY <1>3 DEF Receive
  <2>2. request'.report = rep /\ request'.pong = png
    <3> HIDE DEF rep, png
    <3> QED BY <1>1, <2>1 DEF Requests
  <2>3. request' = [request EXCEPT !.report = request'.report, !.pong = request'.pong]
    BY <2>1, <2>2, Zenon
  <2> QED BY <1>3, <2>2, <2>3 DEF Outside
<1> QED BY <1>2, <1>3 DEF Next, Client, ML, vars, prover, Edit, InsertOverlay, RemoveOverlay,
           FlushInput, MLUpdates, MLCancels, MLPongs, Consolidate

LEMMA OutsideFields ==
  ASSUME IInv, Outside
  PROVE  /\ request'.pc = request.pc /\ request'.st = request.st
         /\ request'.probe = request.probe /\ request'.targets = request.targets
         /\ request'.strikes = request.strikes /\ request'.batch = request.batch
         /\ request'.serial = request.serial /\ request'.overlay = request.overlay
         /\ request'.report = request.report \/ request'.report \in {"report", "failed"}
BY DEF IInv, RequestOK, Outside, Requests

LEMMA LoopFields ==
  ASSUME IInv
  PROVE  /\ Loop.pc = "loop" /\ Loop.probe = request.probe /\ Loop.targets = request.targets
         /\ Loop.serial = 0 /\ Loop.overlay = request.overlay /\ Loop.report = request.report
         /\ DOMAIN Loop = DOMAIN request /\ Loop.batch = {}
BY DEF IInv, RequestOK, Loop, Requests

\* What a step of the request does to its locals.
Goes(froms, to) == request.pc \in froms /\ request'.pc = to
Moves ==
  /\ request'.report = request.report /\ request'.probe \in {request.probe, Execs(told)}
  /\ request'.probe # request.probe => request.pc = "idle"
  /\ \/ Goes({"idle"}, "read")
     \/ Goes({"read"}, "polls")
     \/ Goes({"polls", "looks"}, request'.pc) /\ request'.pc \in {"looks", "polls", "aborted"}
     \/ Goes({"polls"}, "retracts") /\ request'.targets = interrupted /\ request.report = "report"
     \/ Retracts /\ Goes({"retracts"}, request'.pc) /\ request'.pc \in {"awaits", "loop"}
     \/ Goes({"awaits", "round"}, "loop") /\ request'.targets = request.targets
     \/ Goes({"loop"}, "serial") /\ request'.serial = doc.updates
     \/ Goes({"serial"}, "round") /\ request'.st = Reading /\ history' = history
     \/ Goes({"round"}, "awaits")
     \/ RoundRetires /\ request'.targets = {} /\ Goes({"round"}, "loop")
     \/ RoundRetires /\ request'.pc = "lands" /\ Goes({"round"}, "lands")
     \/ Lands /\ Goes({"lands"}, "loop")
     \/ AssertsRetracted /\ Goes({"loop"}, "replied")
     \/ request'.pc = "aborted"
  /\ request'.pc \in {"awaits", "loop", "serial", "round", "lands", "replied"} /\ ~Retracts =>
       request'.overlay = request.overlay
  /\ request'.pc \notin {"serial", "loop"} => request'.serial = request.serial
  /\ request'.pc = "loop" => request'.serial \in {0, request.serial}
  /\ request'.pc \in {"awaits", "serial", "round", "replied"} => request'.targets = request.targets
  /\ request'.pc = "loop" /\ ~RoundRetires /\ ~Lands => request'.targets = request.targets

LEMMA StepMoves ==
  ASSUME IInv, Request PROVE Moves
<1>1. request \in Requests BY DEF IInv, RequestOK
<1>2. CASE ReadsState BY <1>1, <1>2 DEF ReadsState, At, Moves, Goes, Requests
<1>3. CASE Sends BY <1>1, <1>3 DEF Sends, At, Goto, Moves, Goes, Requests
<1>4. CASE ChecksReport BY <1>1, <1>4 DEF ChecksReport, At, Goto, Abort, Moves, Goes, Requests
<1>5. CASE ChecksPong BY <1>1, <1>5 DEF ChecksPong, At, Goto, Moves, Goes, Requests
<1>6. CASE Retracts
  <2> DEFINE label == IF doc.last THEN "awaits" ELSE "loop"
             b == StableTip(request.st)
  <2>1. request' = [request EXCEPT !.pc = label, !.overlay = doc.changes, !.before = b]
        /\ request.pc = "retracts"
    BY <1>6 DEF Retracts, At
  <2>2. label \in {"awaits", "loop"} OBVIOUS
  <2> HIDE DEF label, b
  <2> QED BY <1>1, <1>6, <2>1, <2>2 DEF Moves, Goes, Requests
<1>7. CASE Awaited BY <1>1, <1>7, LoopFields DEF Awaited, At, Moves, Goes
<1>8. CASE ReadsSerial BY <1>1, <1>8 DEF ReadsSerial, At, Moves, Goes, Requests
<1>9. CASE ReadsAgain BY <1>1, <1>9 DEF ReadsAgain, At, prover, Moves, Goes, Requests
<1>10. CASE RoundRetaken BY <1>1, <1>10, LoopFields DEF RoundRetaken, At, Moves, Goes
<1>11. CASE RoundFlushes
  BY <1>1, <1>11 DEF RoundFlushes, At, Abort, Goto, Moves, Goes, Requests
<1>12. CASE RoundRetires
  <2> DEFINE v == StableTip(request.st)
             located == Located(v)
  <2>1. request.pc = "round" BY <1>12 DEF RoundRetires, At
  <2>2. CASE request' = [Loop EXCEPT !.targets = {}]
    <3>1. /\ request'.pc = "loop" /\ request'.targets = {} /\ request'.serial = 0
          /\ request'.overlay = request.overlay /\ request'.report = request.report
          /\ request'.probe = request.probe
      BY <1>1, <2>2 DEF Loop, Requests
    <3> QED BY <1>12, <2>1, <3>1 DEF Moves, Goes
  <2>3. CASE request' = [request EXCEPT !.pc = "lands", !.targets = located,
                                        !.batch = located, !.before = v]
    <3> HIDE DEF v, located
    <3> QED BY <1>1, <1>12, <2>1, <2>3 DEF Moves, Goes, Requests
  <2> QED BY <2>2, <2>3, <1>12 DEF RoundRetires
<1>13. CASE Lands
  <2> DEFINE T == (Loop.targets \ request.batch) \cup Remaining
             S == (Loop.strikes \ request.batch) \cup Remaining
  <2>1. request.pc = "lands" BY <1>13 DEF Lands, At
  <2>2. CASE Abort BY <1>1, <2>2 DEF Abort, Goto, Moves, Goes, Requests
  <2>3. CASE request' = [Loop EXCEPT !.targets = T, !.strikes = S]
    <3> HIDE DEF T, S
    <3>1. /\ request'.pc = "loop" /\ request'.serial = 0
          /\ request'.overlay = request.overlay /\ request'.report = request.report
          /\ request'.probe = request.probe
      BY <1>1, <2>3 DEF Loop, Requests
    <3> QED BY <1>13, <2>1, <3>1 DEF Moves, Goes
  <2> QED BY <2>2, <2>3, <1>13 DEF Lands
<1>14. CASE AssertsRetracted
  BY <1>1, <1>14 DEF AssertsRetracted, At, Goto, Moves, Goes, Requests
<1>15. CASE GivesUp BY <1>1, <1>15 DEF GivesUp, Abort, Goto, Moves, Goes, Requests
<1> QED BY <1>2, <1>3, <1>4, <1>5, <1>6, <1>7, <1>8, <1>9, <1>10, <1>11, <1>12, <1>13, <1>14,
           <1>15 DEF Request

LEMMA HoldsAppend ==
  ASSUME NEW S, NEW q \in Seq(S), NEW x, NEW m, x \in S, Holds(Append(q, x), m), x # m
  PROVE  Holds(q, m)
BY DEF Holds

LEMMA HoldsTail ==
  ASSUME NEW S, NEW q \in Seq(S), q # <<>>, NEW m
  PROVE  /\ Holds(Tail(q), m) => Holds(q, m)
         /\ Holds(q, Head(q))
<1>1. Len(q) \in Nat \ {0} /\ Len(Tail(q)) = Len(q) - 1 /\ Head(q) = q[1]
      /\ \A i \in 1..Len(Tail(q)) : Tail(q)[i] = q[i + 1]
  OBVIOUS
<1>2. Holds(q, Head(q)) BY <1>1 DEF Holds
<1>3. ASSUME Holds(Tail(q), m) PROVE Holds(q, m)
  <2>1. PICK i \in 1..Len(Tail(q)) : Tail(q)[i] = m BY <1>3 DEF Holds
  <2>2. i + 1 \in 1..Len(q) /\ q[i + 1] = m BY <2>1, <1>1
  <2> QED BY <2>2 DEF Holds
<1> QED BY <1>2, <1>3

OneCancel == \A i, j \in 1..Len(toML) : toML[i] = "cancel" /\ toML[j] = "cancel" => i = j

\* What a step does to the queue of the prover.
LEMMA StepToML ==
  ASSUME IInv, [Next]_vars
  PROVE  \/ toML' = toML
         \/ toML' = Append(toML, "update")
         \/ toML # <<>> /\ toML' = Tail(toML)
         \/ Sends /\ toML' = Append(Append(toML, "cancel"), "ping")
<1>1. Hands BY StepHands
<1>2. toML \in Seq(ToML) BY DEF IInv, QueuesOK
<1>3. CASE Sends BY <1>2, <1>3 DEF Sends, ToML
<1>4. CASE MLUpdates \/ MLCancels \/ MLPongs BY <1>4 DEF MLUpdates, MLCancels, MLPongs
<1> QED BY <1>1, <1>3, <1>4 DEF Hands, Update

LEMMA StepAsked ==
  ASSUME IInv, [Next]_vars PROVE Asked' /\ Fresh'
<1> USE DEF IInv
<1>1. toML \in Seq(ToML) /\ fromML \in Seq(FromML) /\ request \in Requests
  BY DEF QueuesOK, RequestOK
<1>2. ~Request => Outside BY StepOutside
<1>3. Request => Moves BY StepMoves
<1>4. request'.pc \in {"idle", "read"} => request.pc \in {"idle", "read"}
  BY <1>2, <1>3, OutsideFields DEF Moves, Goes
<1>5. Sends => request.pc = "read" /\ request'.pc = "polls"
  BY <1>1 DEF Sends, At, Goto, Requests
<1>6. ~Sends /\ Holds(toML', "cancel") => Holds(toML, "cancel")
  <2>1. CASE toML' = Append(toML, "update")
    <3>1. "update" \in ToML /\ "update" # "cancel" BY DEF ToML
    <3> QED BY <2>1, <3>1, <1>1, HoldsAppend
  <2>2. CASE toML # <<>> /\ toML' = Tail(toML) BY <2>2, <1>1, HoldsTail
  <2> QED BY <2>1, <2>2, StepToML
<1>7. MLCancels => Holds(toML, "cancel") /\ ~Holds(toML', "cancel")
  <2>1. SUFFICES ASSUME MLCancels PROVE Holds(toML, "cancel") /\ ~Holds(toML', "cancel")
    OBVIOUS
  <2>2. toML # <<>> /\ Head(toML) = "cancel" /\ toML' = Tail(toML) BY <2>1 DEF MLCancels
  <2>3. Holds(toML, "cancel") BY <2>2, <1>1, HoldsTail
  <2>4. OneCancel BY DEF Asked, OneCancel
  <2>5. Len(toML) \in Nat \ {0} /\ Len(Tail(toML)) = Len(toML) - 1 /\ toML[1] = "cancel"
        /\ \A i \in 1..Len(Tail(toML)) : Tail(toML)[i] = toML[i + 1]
    BY <1>1, <2>2
  <2>6. ASSUME NEW i \in 1..Len(Tail(toML)), Tail(toML)[i] = "cancel" PROVE FALSE
    <3>1. i + 1 \in 1..Len(toML) /\ 1 \in 1..Len(toML) /\ toML[i + 1] = "cancel" /\ i + 1 # 1
      BY <2>5, <2>6
    <3> QED BY <3>1, <2>4, <2>5 DEF OneCancel
  <2> QED BY <2>2, <2>3, <2>6 DEF Holds
<1>8. OneCancel'
  <2>1. OneCancel BY DEF Asked, OneCancel
  <2>2. CASE toML' = toML BY <2>1, <2>2 DEF OneCancel
  <2>3. CASE toML' = Append(toML, "update")
    <3>1. Len(toML') = Len(toML) + 1 /\ Len(toML) \in Nat /\ toML'[Len(toML) + 1] = "update"
          /\ \A i \in 1..Len(toML) : toML'[i] = toML[i]
      BY <2>3, <1>1 DEF ToML
    <3> QED BY <3>1, <2>1 DEF OneCancel
  <2>4. CASE toML # <<>> /\ toML' = Tail(toML)
    <3>1. Len(toML) \in Nat \ {0} /\ Len(toML') = Len(toML) - 1
          /\ \A i \in 1..Len(toML') : toML'[i] = toML[i + 1]
      BY <2>4, <1>1
    <3>2. ASSUME NEW i \in 1..Len(toML'), NEW j \in 1..Len(toML'), toML'[i] = "cancel", toML'[j] = "cancel"
          PROVE  i = j
      <4>1. i + 1 \in 1..Len(toML) /\ j + 1 \in 1..Len(toML)
            /\ toML[i + 1] = "cancel" /\ toML[j + 1] = "cancel"
        BY <3>1, <3>2
      <4>2. i + 1 = j + 1 BY <4>1, <2>1 DEF OneCancel
      <4> QED BY <4>2
    <3> QED BY <3>2 DEF OneCancel
  <2>5. CASE Sends /\ toML' = Append(Append(toML, "cancel"), "ping")
    <3>1. ~Holds(toML, "cancel") BY <2>5, <1>5 DEF Asked
    <3>2. Len(toML') = Len(toML) + 2 /\ Len(toML) \in Nat /\ toML'[Len(toML) + 2] = "ping"
          /\ \A i \in 1..Len(toML) : toML'[i] = toML[i]
      BY <2>5, <1>1 DEF ToML
    <3>3. \A i \in 1..Len(toML) : toML'[i] # "cancel" BY <3>1, <3>2 DEF Holds
    <3>4. \A i \in 1..Len(toML') : i \in 1..Len(toML) \/ i = Len(toML) + 1 \/ i = Len(toML) + 2
      BY <3>2
    <3>5. \A i \in 1..Len(toML') : toML'[i] = "cancel" => i = Len(toML) + 1
      BY <3>2, <3>3, <3>4
    <3> QED BY <3>5 DEF OneCancel
  <2> QED BY <2>2, <2>3, <2>4, <2>5, StepToML
<1>9. ASSUME request'.pc \in {"idle", "read"} PROVE ~Holds(toML', "cancel") /\ interrupted' = {}
  <2>1. ~Holds(toML, "cancel") /\ interrupted = {} /\ ~Sends BY <1>4, <1>5, <1>9 DEF Asked
  <2>2. ~MLCancels BY <2>1, <1>7
  <2>3. interrupted' = interrupted
    BY <2>2, ProverKept DEF MLUpdates, MLPongs, Receive
  <2> QED BY <2>1, <2>3, <1>6
<1>10. ASSUME request'.pc \in {"idle", "read"} \/ Holds(toML', "cancel")
       PROVE  request'.report = "none" /\ ~Holds(fromML', "report") /\ ~Holds(fromML', "failed")
  <2>1. request.pc \in {"idle", "read"} \/ Holds(toML, "cancel")
    BY <1>4, <1>5, <1>6, <1>10
  <2>2. request.report = "none" /\ ~Holds(fromML, "report") /\ ~Holds(fromML, "failed")
    BY <2>1 DEF Asked
  <2>3. ~MLCancels
    <3>1. ASSUME MLCancels PROVE FALSE
      <4>1. ~Holds(toML', "cancel") /\ Holds(toML, "cancel") BY <3>1, <1>7
      <4> QED BY <4>1, <1>4, <1>10 DEF Asked
    <3> QED BY <3>1
  <2>4. ~Holds(fromML', "report") /\ ~Holds(fromML', "failed")
    <3>1. CASE MLUpdates \/ MLPongs
      <4>1. "assigned" \in FromML /\ "pong" \in FromML BY DEF FromML
      <4>2. fromML' = Append(fromML, "assigned") \/ fromML' = Append(fromML, "pong")
        BY <3>1 DEF MLUpdates, MLPongs
      <4>3. ASSUME NEW x \in FromML, fromML' = Append(fromML, x), x \notin {"report", "failed"}
            PROVE  ~Holds(fromML', "report") /\ ~Holds(fromML', "failed")
        BY <4>3, <2>2, <1>1, HoldsAppend
      <4> QED BY <4>1, <4>2, <4>3
    <3>2. CASE Receive
      <4>1. fromML # <<>> /\ fromML' = Tail(fromML) BY <3>2 DEF Receive
      <4> QED BY <4>1, <2>2, <1>1, HoldsTail
    <3>3. CASE ~(MLUpdates \/ MLPongs \/ Receive) BY <3>3, <2>2, <2>3, ProverKept
    <3> QED BY <3>1, <3>2, <3>3
  <2>5. request'.report = "none"
    <3>1. CASE Request BY <3>1, <1>3, <2>2 DEF Moves
    <3>2. ASSUME Receive, Head(fromML) \in {"report", "failed"} PROVE FALSE
      <4>1. fromML # <<>> BY <3>2 DEF Receive
      <4>2. Holds(fromML, Head(fromML)) BY <4>1, <1>1, HoldsTail
      <4> QED BY <4>2, <3>2, <2>2
    <3>3. CASE ~Request BY <3>3, <3>2, <1>2, <2>2 DEF Outside
    <3> QED BY <3>1, <3>3
  <2> QED BY <2>4, <2>5
<1>11. RequestOK' BY StepRequest
<1>12. request'.pc = "idle" => request.pc = "idle" /\ ~Request
  BY <1>2, <1>3, OutsideFields DEF Moves, Goes
<1>13. Fresh'
  BY <1>2, <1>12, OutsideFields DEF Fresh
<1>14. interrupted' \subseteq request'.probe BY <1>11 DEF RequestOK
<1> QED BY <1>8, <1>9, <1>10, <1>13, <1>14 DEF Asked, OneCancel

-----------------------------------------------------------------------------
LEMMA ToldGrows ==
  ASSUME IInv, [Next]_vars PROVE told \in Nat /\ told <= told'
<1>1. told \in Nat BY DEF IInv, QueuesOK
<1>2. CASE MLUpdates \/ MLCancels \/ MLPongs
  BY <1>1, <1>2 DEF MLUpdates, MLCancels, MLPongs
<1>3. CASE Receive BY <1>1, <1>3 DEF Receive
<1> QED BY <1>1, <1>2, <1>3, ProverKept

LEMMA StepAges ==
  ASSUME IInv, [Next]_vars PROVE Ages'
<1> USE DEF IInv
<1>1. request \in Requests /\ told \in 1..Len(assigned) /\ Len(assigned) \in Nat
      /\ request.st \in [tip : Nat, told : Nat]
  BY DEF RequestOK, QueuesOK, AssignedOK, Requests
<1>2. ~Request => Outside BY StepOutside
<1>3. Request => Moves BY StepMoves
<1>4. told \in Nat /\ told <= told' /\ told' \in Nat BY ToldGrows, StepQueues DEF QueuesOK
<1>5. /\ Execs(told) \subseteq ExecIds /\ \A t \in Execs(told) : t[2] <= told
      /\ \A t \in ExecIds : t[2] \in Nat
  BY <1>1, ExecsTyped DEF ExecIds
<1>6. \A t \in request.probe : t[2] <= told /\ t[2] \in Nat
  BY <1>1, <1>5 DEF Ages, Requests
<1>7. \A t \in request'.probe : t[2] <= told'
  <2>1. request'.probe \in {request.probe, Execs(told)}
    BY <1>2, <1>3, OutsideFields DEF Moves
  <2> QED BY <2>1, <1>4, <1>5, <1>6
<1>8. ASSUME request'.pc = "round"
      PROVE  /\ request'.st.told <= told' /\ request'.st.tip \in 1..Tip'
             /\ \A t \in request'.probe : t[2] <= request'.st.told
  <2>1. Tip \in Nat \ {0} /\ Tip' \in Nat /\ Tip <= Tip' BY HistoryKept, NewestTyped
  <2>2. CASE Request
    <3>1. request'.st = Reading /\ request'.probe = request.probe
      BY <2>2, <1>3, <1>8 DEF Moves, Goes
    <3> QED BY <3>1, <2>1, <1>4, <1>6 DEF Reading
  <2>3. CASE ~Request
    <3>1. request.pc = "round" /\ request'.st = request.st /\ request'.probe = request.probe
      BY <2>3, <1>2, <1>8, OutsideFields
    <3> QED BY <3>1, <2>1, <1>1, <1>4 DEF Ages
  <2> QED BY <2>2, <2>3
<1> QED BY <1>7, <1>8 DEF Ages

LEMMA StepSameText ==
  ASSUME IInv, [Next]_vars PROVE SameText'
<1> USE DEF IInv
<1>1. request \in Requests /\ doc \in Documents BY DEF RequestOK, DocumentOK
<1>2. ~Request => Outside BY StepOutside
<1>3. Request => Moves BY StepMoves
<1>4. /\ Tip' \in Nat /\ Tip \in Nat \ {0} /\ Tip <= Tip' /\ \A n \in 1..Tip : history'[n] = history[n]
      /\ doc.updates <= doc'.updates /\ doc.updates \in Nat /\ request.serial \in Nat
      /\ doc'.updates = doc.updates => \A n \in (Tip + 1)..Tip' : history'[n].cmds = Newest.cmds
  BY <1>1, HistoryKept, NewestTyped DEF Documents, Requests
<1>5. doc'.updates \in Nat BY StepDocument DEF DocumentOK, Documents
<1>6. request'.serial <= doc'.updates
  <2>1. request'.serial \in {0, request.serial, doc.updates}
    BY <1>2, <1>3, OutsideFields DEF Moves, Goes
  <2> QED BY <2>1, <1>4, <1>5 DEF SameText
<1>7. ASSUME request'.pc = "round", request'.serial = doc'.updates,
             NEW n \in request'.st.tip..Tip'
      PROVE  history'[n].cmds = history'[request'.st.tip].cmds
  <2>1. CASE Request
    <3>1. request'.st = Reading /\ history' = history
      BY <2>1, <1>3, <1>7 DEF Moves, Goes
    <3>2. request'.st.tip = Tip /\ Tip' = Tip BY <3>1 DEF Reading, Tip
    <3>3. n = Tip BY <3>2, <1>4, <1>7
    <3> QED BY <3>2, <3>3
  <2>2. CASE ~Request
    <3>1. request.pc = "round" /\ request'.st = request.st /\ request'.serial = request.serial
      BY <2>2, <1>2, <1>7, OutsideFields
    <3>2. request.serial = doc.updates /\ doc'.updates = doc.updates
      BY <3>1, <1>4, <1>5, <1>7 DEF SameText
    <3>3. request.st.tip \in 1..Tip BY <3>1 DEF Ages
    <3>4. \A m \in request.st.tip..Tip : history[m].cmds = history[request.st.tip].cmds
      BY <3>1, <3>2 DEF SameText
    <3>5. Newest.cmds = history[request.st.tip].cmds BY <3>3, <3>4, <1>4 DEF Newest
    <3>6. history'[request.st.tip] = history[request.st.tip] BY <3>3, <1>4
    <3>7. CASE n <= Tip
      <4>1. n \in request.st.tip..Tip /\ n \in 1..Tip BY <3>1, <3>3, <3>7, <1>7, <1>4
      <4> QED BY <4>1, <3>1, <3>4, <3>6, <1>4
    <3>8. CASE ~(n <= Tip)
      <4>1. n \in (Tip + 1)..Tip' BY <3>1, <3>3, <3>8, <1>7, <1>4
      <4> QED BY <4>1, <3>1, <3>2, <3>5, <3>6, <1>4
    <3> QED BY <3>7, <3>8
  <2> QED BY <2>1, <2>2
<1> QED BY <1>6, <1>7 DEF SameText

\* An exec that is gone from the newest assignment comes back with no update.
LEMMA GoneStays ==
  ASSUME IInv, [Next]_vars, NEW t \in request.probe, t \notin Execs(Len(assigned))
  PROVE  t \notin Execs(Len(assigned))'
<1> USE DEF IInv
<1>1. CASE MLUpdates
  <2>0. PICK n : n = Len(assigned) + 1 OBVIOUS
  <2>1. /\ n = Len(assigned) + 1 /\ Len(assigned) \in Nat /\ Len(assigned') = n
        /\ \A m \in 1..Len(assigned) : assigned'[m] = assigned[m]
    BY <1>1, <2>0, Assigns
  <2>2. \A m \in 1..Len(assigned) : Execs(m)' = Execs(m) BY <2>1 DEF Execs
  <2>3. t[2] <= told /\ told \in 1..Len(assigned) /\ request.probe \subseteq ExecIds
    BY <2>1 DEF Ages, QueuesOK, RequestOK, Requests
  <2>4. t[2] <= Len(assigned) /\ n - 1 \in 1..n /\ n \in 1..n /\ n - 1 \in 1..Len(assigned)
        /\ n - 1 = Len(assigned)
    BY <2>1, <2>3 DEF ExecIds
  <2>5. ASSUME t \in Execs(n)' PROVE FALSE
    <3>1. t \in Execs(n - 1)' BY <2>1, <2>4, <2>5, StepNeverBack DEF NeverBack
    <3>2. t \in Execs(n - 1) BY <3>1, <2>2, <2>4
    <3> QED BY <3>2, <2>4
  <2>6. Execs(Len(assigned))' = Execs(n)' BY <2>1 DEF Execs
  <2> QED BY <2>5, <2>6
<1>2. CASE ~MLUpdates
  <2>1. assigned' = assigned BY <1>2, AssignedKept
  <2> QED BY <2>1 DEF Execs
<1> QED BY <1>1, <1>2

LEMMA StepGone ==
  ASSUME IInv, [Next]_vars PROVE Gone'
<1> USE DEF IInv
<1>1. /\ request \in Requests /\ interrupted \subseteq request.probe
      /\ Len(assigned) \in Nat /\ told \in 1..Len(assigned) /\ Tip \in Nat
      /\ Len(assigned) <= Tip
  BY NewestTyped DEF RequestOK, QueuesOK, AssignedOK
<1>2. ~Request => Outside BY StepOutside
<1>3. Request => Moves BY StepMoves
<1>4. ASSUME request.pc \in Late PROVE ~MLCancels /\ interrupted' = interrupted
  <2>1. request.report # "none" BY <1>4 DEF Gone
  <2>2. ~Holds(toML, "cancel") BY <2>1 DEF Asked
  <2>3. ASSUME MLCancels PROVE FALSE
    <3>1. toML # <<>> /\ Head(toML) = "cancel" /\ toML \in Seq(ToML)
      BY <2>3 DEF MLCancels, QueuesOK
    <3> QED BY <3>1, <2>2, HoldsTail
  <2> QED BY <2>3, ProverKept DEF MLUpdates, MLPongs, Receive
<1>5. ASSUME Request PROVE interrupted' = interrupted /\ assigned' = assigned
  BY <1>5 DEF Request, prover, ReadsState, Sends, ChecksReport, ChecksPong, Retracts, Awaited,
     ReadsSerial, ReadsAgain, RoundRetaken, RoundFlushes, RoundRetires, Lands,
     AssertsRetracted, GivesUp
<1>6. ASSUME ~Request PROVE Gone'
  <2>1. /\ request'.pc = request.pc /\ request'.targets = request.targets
        /\ request'.batch = request.batch
        /\ request'.report = request.report \/ request'.report \in {"report", "failed"}
    BY <1>2, <1>6, OutsideFields
  <2>2. CASE request.pc \in Late
    <3>1. interrupted' = interrupted BY <2>2, <1>4
    <3>2. \A t \in interrupted : t \notin Execs(Len(assigned)) => t \notin Execs(Len(assigned))'
      BY <1>1, GoneStays
    <3> QED BY <2>1, <2>2, <3>1, <3>2 DEF Gone
  <2>3. CASE request.pc \notin Late BY <2>1, <2>3 DEF Gone, Late
  <2> QED BY <2>2, <2>3
<1>7. ASSUME Request, request'.pc \in Late PROVE Gone'
  <2>1. interrupted' = interrupted /\ assigned' = assigned /\ Moves BY <1>3, <1>5, <1>7
  <2>2. request'.report = request.report BY <2>1 DEF Moves
  <2>3. CASE request.pc = "polls"
    <3>1. request'.targets = interrupted /\ request.report = "report" /\ request'.pc = "retracts"
      BY <1>7, <2>1, <2>3 DEF Moves, Goes, Late
    <3> QED BY <2>1, <2>2, <3>1 DEF Gone
  <2>4. CASE request.pc \in Late
    <3>1. request.report # "none"
          /\ \A t \in interrupted : t \in request.targets \/ t \notin Execs(Len(assigned))
      BY <2>4 DEF Gone
    <3>2. CASE RoundRetires
      <4> DEFINE v == StableTip(request.st)
      <4>1. v # 0 /\ request.pc = "round"
            /\ \/ Located(v) = {} /\ request' = [Loop EXCEPT !.targets = {}]
               \/ request' = [request EXCEPT !.pc = "lands", !.targets = Located(v),
                                             !.batch = Located(v), !.before = v]
        BY <3>2 DEF RoundRetires, At
      <4>2. v = request.st.told /\ request.st.told \in Nat /\ request.st.told \in 1..told
        BY <4>1, <1>1 DEF StableTip, Ages, Requests
      <4>3. v \in 1..Len(assigned) /\ Len(assigned) \in 1..Len(assigned) BY <4>2, <1>1
      <4> HIDE DEF v
      <4>4. request'.targets = Located(v) /\ (request'.pc = "lands" => request'.batch = Located(v))
        BY <4>1, <1>1, LoopFields DEF Requests
      <4>5. ASSUME NEW t \in interrupted, t \notin Located(v), t \in Execs(Len(assigned))
            PROVE  FALSE
        <5>1. t \in request.targets BY <3>1, <4>5
        <5>2. t[2] <= v BY <4>1, <4>2, <1>1 DEF Ages
        <5>3. t \in Execs(v) BY <4>3, <4>5, <5>2 DEF NeverBack
        <5> QED BY <5>1, <5>3, <4>5 DEF Located
      <4>6. Execs(Len(assigned))' = Execs(Len(assigned)) BY <2>1 DEF Execs
      <4> QED BY <2>1, <2>2, <3>1, <4>4, <4>5, <4>6 DEF Gone
    <3>3. CASE Lands
      <4>1. Assigned /\ request.pc = "lands" BY <3>3 DEF Lands, At
      <4>2. told = Tip
        <5>1. StableTip(Reading) # 0 BY <4>1 DEF Assigned
        <5>2. Reading.told = told /\ Reading.tip = Tip BY DEF Reading
        <5> QED BY <5>1, <5>2 DEF StableTip
      <4>3. Len(assigned) = Tip /\ Tip \in 1..Len(assigned) BY <4>2, <1>1
      <4>4. request' = [Loop EXCEPT !.targets = (Loop.targets \ request.batch) \cup Remaining,
                                    !.strikes = (Loop.strikes \ request.batch) \cup Remaining]
        BY <3>3, <1>7, <1>1 DEF Lands, Abort, Goto, Late, Requests
      <4>5. request'.pc = "loop" /\ request'.targets = (request.targets \ request.batch) \cup Remaining
        <5> DEFINE T == (Loop.targets \ request.batch) \cup Remaining
                   S == (Loop.strikes \ request.batch) \cup Remaining
        <5>1. request' = [Loop EXCEPT !.targets = T, !.strikes = S] BY <4>4
        <5> HIDE DEF T, S
        <5>2. request'.pc = "loop" /\ request'.targets = T BY <5>1, <1>1 DEF Loop, Requests
        <5> QED BY <5>2, LoopFields DEF T
      <4>6. request.batch = request.targets BY <4>1 DEF Gone
      <4>7. ASSUME NEW t \in interrupted, t \in Execs(Len(assigned)) PROVE t \in Remaining
        <5>1. t \in request.batch BY <3>1, <4>6, <4>7
        <5>2. t[1] \in Range(history[Tip].cmds) BY <4>3, <4>7, ExecsTyped
        <5> QED BY <5>1, <5>2 DEF Remaining, Newest
      <4>8. Execs(Len(assigned))' = Execs(Len(assigned)) BY <2>1 DEF Execs
      <4> QED BY <2>1, <2>2, <3>1, <4>5, <4>7, <4>8 DEF Gone
    <3>4. CASE ~RoundRetires /\ ~Lands
      <4>1. request'.targets = request.targets /\ request'.pc # "lands"
        BY <1>7, <2>1, <2>4, <3>4 DEF Moves, Goes, Late
      <4>2. Execs(Len(assigned))' = Execs(Len(assigned)) BY <2>1 DEF Execs
      <4> QED BY <2>1, <2>2, <3>1, <4>1, <4>2 DEF Gone
    <3> QED BY <3>2, <3>3, <3>4
  <2> QED BY <1>7, <2>1, <2>3, <2>4 DEF Moves, Goes, Late
<1> QED BY <1>6, <1>7 DEF Gone, Late

LEMMA StepReplied ==
  ASSUME IInv, [Next]_vars PROVE Replied'
<1> USE DEF IInv
<1>1. request \in Requests BY DEF RequestOK
<1>2. SUFFICES ASSUME request'.pc = "replied"
               PROVE  request'.targets = {} /\ doc'.changes = request'.overlay
  BY DEF Replied
<1>3. CASE Request
  <2>1. AssertsRetracted BY <1>2, <1>3, StepMoves DEF Moves, Goes
  <2>2. request.targets = {} /\ Quiet /\ doc' = doc /\ request' = [request EXCEPT !.pc = "replied"]
    BY <1>1, <1>2, <2>1 DEF AssertsRetracted, Goto, Requests
  <2> QED BY <1>1, <2>2 DEF Quiet, Requests
<1>4. CASE ~Request
  <2>1. /\ request.pc = "replied" /\ request'.targets = request.targets
        /\ request'.overlay = request.overlay
    BY <1>2, <1>4, StepOutside, OutsideFields
  <2>2. doc' = doc
    BY <1>4, <2>1 DEF Next, Client, ML, vars, Ended, Edit, InsertOverlay, RemoveOverlay, FlushInput,
       MLUpdates, MLCancels, MLPongs, Consolidate, Receive
  <2> QED BY <2>1, <2>2 DEF Replied
<1> QED BY <1>3, <1>4

-----------------------------------------------------------------------------
Retracted == Late \ {"retracts"}

\* While no query touched its overlay, what is handed over stays quiet.
LEMMA KeepsQuiet ==
  ASSUME IInv, [Next]_vars, ~Retracts, ~doc.caret, doc.overlays = {}, ~doc.last
  PROVE  /\ ~doc'.caret /\ ~doc'.last /\ doc'.changes >= doc.changes
         /\ doc'.changes = doc.changes => doc'.overlays = {}
<1> USE DEF IInv
<1>1. doc \in Documents BY DEF DocumentOK
<1>2. CASE InsertOverlay
  <2>1. PICK q : doc' = Overlaid(doc.overlays \cup {q}, doc.queries \cup {q})
    BY <1>2 DEF InsertOverlay
  <2> QED BY <1>1, <2>1 DEF Overlaid, Documents
<1>3. CASE RemoveOverlay
  <2>1. PICK q : doc' = Overlaid(doc.overlays \ {q}, doc.queries \ {q})
    BY <1>3 DEF RemoveOverlay
  <2>2. doc.overlays \ {q} = doc.overlays OBVIOUS
  <2> QED BY <1>1, <2>1, <2>2 DEF Overlaid, Documents
<1>4. ~Wanted(FALSE, doc.overlays) /\ ~Wanted(doc.caret, doc.overlays) BY DEF Wanted
<1>5. CASE FlushInput
  <2> DEFINE work == Wanted(doc.caret, doc.overlays)
             u == IF doc.edits # <<>> \/ doc.last # work THEN doc.updates + 1 ELSE doc.updates
  <2>1. doc' = [doc EXCEPT !.edits = <<>>, !.queued = FALSE, !.last = work, !.updates = u]
    BY <1>5 DEF FlushInput
  <2>2. ~work BY <1>4
  <2> HIDE DEF work, u
  <2> QED BY <1>1, <2>1, <2>2 DEF Documents
<1>6. CASE RoundFlushes
  <2> DEFINE work == Wanted(FALSE, doc.overlays)
  <2>1. doc' = doc \/ doc' = [doc EXCEPT !.edits = <<>>, !.queued = FALSE,
                                         !.updates = doc.updates + 1, !.last = work]
    BY <1>6 DEF RoundFlushes
  <2>2. ~work BY <1>4
  <2> HIDE DEF work
  <2>3. CASE doc' = doc BY <1>1, <2>3 DEF Documents
  <2>4. CASE doc' = [doc EXCEPT !.edits = <<>>, !.queued = FALSE,
                           !.updates = doc.updates + 1, !.last = work]
    BY <1>1, <2>2, <2>4 DEF Documents
  <2> QED BY <2>1, <2>3, <2>4
<1>7. CASE RoundRetires
  <2> DEFINE qd == IF doc.last \/ Wanted(FALSE, doc.overlays) THEN FALSE ELSE doc.queued
  <2>1. doc' = doc \/ doc' = [doc EXCEPT !.updates = doc.updates + 1, !.last = FALSE, !.queued = qd]
    BY <1>7 DEF RoundRetires
  <2> HIDE DEF qd
  <2>3. CASE doc' = doc BY <1>1, <2>3 DEF Documents
  <2>4. CASE doc' = [doc EXCEPT !.updates = doc.updates + 1, !.last = FALSE, !.queued = qd]
    BY <1>1, <2>4 DEF Documents
  <2> QED BY <2>1, <2>3, <2>4
<1>8. CASE Edit BY <1>1, <1>8 DEF Edit, Documents
<1>9. CASE doc' = doc BY <1>1, <1>9 DEF Documents
<1> QED BY <1>2, <1>3, <1>5, <1>6, <1>7, <1>8, <1>9
   DEF Next, Client, ML, Request, vars, MLUpdates, MLCancels, MLPongs, Receive,
       Consolidate, ReadsState, Sends, ChecksReport, ChecksPong, Awaited, ReadsSerial,
       ReadsAgain, RoundRetaken, Lands, AssertsRetracted, GivesUp

\* The caret never returns, and the serial of the overlay table never falls.
LEMMA CaretGone ==
  ASSUME IInv, [Next]_vars, ~Retracts
  PROVE  doc'.caret = doc.caret /\ doc'.changes >= doc.changes
<1>1. doc \in Documents BY DEF IInv, DocumentOK
<1>2. ASSUME NEW table, NEW running, doc' = Overlaid(table, running)
      PROVE  doc'.caret = doc.caret /\ doc'.changes >= doc.changes
  BY <1>1, <1>2 DEF Overlaid, Documents
<1>3. CASE InsertOverlay \/ RemoveOverlay BY <1>2, <1>3 DEF InsertOverlay, RemoveOverlay
<1>4. CASE FlushInput BY <1>1, <1>4 DEF FlushInput, Documents
<1>5. CASE RoundFlushes
  <2> DEFINE work == Wanted(FALSE, doc.overlays)
  <2>1. doc' = doc \/ doc' = [doc EXCEPT !.edits = <<>>, !.queued = FALSE,
                                         !.updates = doc.updates + 1, !.last = work]
    BY <1>5 DEF RoundFlushes
  <2> HIDE DEF work
  <2>3. CASE doc' = doc BY <1>1, <2>3 DEF Documents
  <2>4. CASE doc' = [doc EXCEPT !.edits = <<>>, !.queued = FALSE,
                           !.updates = doc.updates + 1, !.last = work]
    BY <1>1, <2>4 DEF Documents
  <2> QED BY <2>1, <2>3, <2>4
<1>6. CASE RoundRetires
  <2> DEFINE qd == IF doc.last \/ Wanted(FALSE, doc.overlays) THEN FALSE ELSE doc.queued
  <2>1. doc' = doc \/ doc' = [doc EXCEPT !.updates = doc.updates + 1, !.last = FALSE, !.queued = qd]
    BY <1>6 DEF RoundRetires
  <2> HIDE DEF qd
  <2>3. CASE doc' = doc BY <1>1, <2>3 DEF Documents
  <2>4. CASE doc' = [doc EXCEPT !.updates = doc.updates + 1, !.last = FALSE, !.queued = qd]
    BY <1>1, <2>4 DEF Documents
  <2> QED BY <2>1, <2>3, <2>4
<1>7. CASE Edit BY <1>1, <1>7 DEF Edit, Documents
<1>8. CASE doc' = doc BY <1>1, <1>8 DEF Documents
<1> QED BY <1>3, <1>4, <1>5, <1>6, <1>7, <1>8
   DEF Next, Client, ML, Request, vars, MLUpdates, MLCancels, MLPongs, Receive,
       Consolidate, ReadsState, Sends, ChecksReport, ChecksPong, Awaited, ReadsSerial,
       ReadsAgain, RoundRetaken, Lands, AssertsRetracted, GivesUp

LEMMA StepStillness ==
  ASSUME IInv, [Next]_vars PROVE Stillness'
<1> USE DEF IInv
<1>1. /\ request \in Requests /\ doc \in Documents /\ Tip \in Nat \ {0} /\ Tip' \in Nat
      /\ Tip <= Tip' /\ Tip' <= Tip + 1
      /\ \A n \in 1..Tip : history'[n] = history[n]
      /\ doc'.last = history'[Tip'].work /\ doc.last = history[Tip].work
      /\ doc'.changes \in Nat /\ doc.changes \in Nat /\ request.overlay \in Nat
  BY NewestTyped, HistoryKept, StepDocument DEF RequestOK, DocumentOK, Perspective, Newest,
     Documents, Requests
<1>2. ~Request => Outside BY StepOutside
<1>3. Request => Moves BY StepMoves
<1>4. SUFFICES ASSUME request'.pc \in Retracted
               PROVE  /\ quietFrom' \in 1..Tip' /\ ~doc'.caret /\ request'.overlay <= doc'.changes
                      /\ request'.overlay = doc'.changes =>
                           /\ doc'.overlays = {}
                           /\ \A n \in quietFrom'..Tip' : ~history'[n].work
  BY DEF Stillness, Retracted
<1>5. CASE Retracts
  <2> DEFINE label == IF doc.last THEN "awaits" ELSE "loop"
             b == StableTip(request.st)
             qd == IF doc.last THEN Unqueued ELSE doc.queued
             u == IF doc.last THEN doc.updates + 1 ELSE doc.updates
  <2>1. /\ doc' = [doc EXCEPT !.caret = FALSE, !.overlays = {}, !.last = FALSE,
                              !.queued = qd, !.updates = u]
        /\ request' = [request EXCEPT !.pc = label, !.overlay = doc.changes, !.before = b]
        /\ quietFrom' = Tip'
    BY <1>5 DEF Retracts, Tip
  <2> HIDE DEF label, b, qd, u
  <2>2. ~doc'.caret /\ doc'.overlays = {} /\ doc'.last = FALSE /\ doc'.changes = doc.changes
        /\ request'.overlay = doc.changes
    BY <1>1, <2>1 DEF Documents, Requests
  <2> QED BY <1>1, <2>1, <2>2
<1>6. CASE ~Retracts
  <2>1. request.pc \in Retracted /\ request'.overlay = request.overlay
    <3>1. CASE Request BY <3>1, <1>3, <1>4, <1>6 DEF Moves, Goes, Retracted, Late
    <3>2. CASE ~Request BY <3>2, <1>2, <1>4, OutsideFields
    <3> QED BY <3>1, <3>2
  <2>2. quietFrom' = quietFrom
    BY <1>6 DEF Next, Client, ML, Request, vars, prover, Edit, InsertOverlay, RemoveOverlay,
       FlushInput, MLUpdates, MLCancels, MLPongs, Receive, Consolidate, ReadsState, Sends,
       ChecksReport, ChecksPong, Awaited, ReadsSerial, ReadsAgain, RoundRetaken, RoundFlushes,
       RoundRetires, Lands, AssertsRetracted, GivesUp
  <2>3. /\ quietFrom \in 1..Tip /\ ~doc.caret /\ request.overlay <= doc.changes
        /\ request.overlay = doc.changes =>
             /\ doc.overlays = {}
             /\ \A n \in quietFrom..Tip : ~history[n].work
    BY <2>1 DEF Stillness, Retracted
  <2>4. doc'.caret = doc.caret /\ doc'.changes >= doc.changes BY <1>6, CaretGone
  <2>5. ASSUME request'.overlay = doc'.changes
        PROVE  doc'.overlays = {} /\ \A n \in quietFrom'..Tip' : ~history'[n].work
    <3>1. request.overlay = doc.changes /\ doc'.changes = doc.changes
      BY <1>1, <2>1, <2>3, <2>4, <2>5
    <3>2. doc.overlays = {} /\ \A n \in quietFrom..Tip : ~history[n].work BY <2>3, <3>1
    <3>3. ~doc.last BY <3>2, <2>3, <1>1
    <3>4. ~doc'.last /\ doc'.overlays = {} BY <1>6, <2>3, <3>1, <3>2, <3>3, KeepsQuiet
    <3>5. ASSUME NEW n \in quietFrom..Tip' PROVE ~history'[n].work
      <4>1. CASE n <= Tip
        <5>1. n \in quietFrom..Tip /\ n \in 1..Tip BY <4>1, <1>1, <2>3
        <5> QED BY <5>1, <3>2, <1>1
      <4>2. CASE ~(n <= Tip)
        <5>1. n = Tip' BY <4>2, <1>1, <2>3
        <5> QED BY <5>1, <3>4, <1>1
      <4> QED BY <4>1, <4>2
    <3> QED BY <2>2, <3>4, <3>5
  <2> QED BY <1>1, <2>1, <2>2, <2>3, <2>4, <2>5
<1> QED BY <1>5, <1>6

LEMMA InitInv == Init => IInv
<1> SUFFICES ASSUME Init PROVE IInv OBVIOUS
<1> DEFINE text == [i \in 1..Length0 |-> <<1, i>>]
           v == [cmds |-> text, work |-> TRUE]
           f == [c \in {1} \X (1..Length0) |-> 1]
<1>1. Length0 \in Nat \ {0} BY Bounds
<1>2. text \in Texts /\ Range(text) = {1} \X (1..Length0)
  <2>1. text \in [1..Length0 -> Commands] BY <1>1 DEF Commands
  <2>2. text \in Seq(Commands) /\ Len(text) = Length0 BY <1>1, <2>1
  <2>3. Range(text) = {1} \X (1..Length0) BY <1>1 DEF Range
  <2> QED BY <1>1, <2>2, <2>3 DEF Texts
<1>3. /\ history = <<v>> /\ assigned = <<f>> /\ told = 1 /\ toML = <<>> /\ fromML = <<>>
      /\ request = Idle /\ interrupted = {} /\ quietFrom = 0
      /\ doc = [edits |-> <<>>, queued |-> FALSE, caret |-> TRUE, overlays |-> {},
                last |-> TRUE, updates |-> 0, changes |-> 0, queries |-> {}]
  BY DEF Init
<1> HIDE DEF text
<1>4. v \in Versions BY <1>2 DEF Versions
<1>5. HistoryOK /\ Tip = 1 /\ history[1] = v /\ Newest = v
  <2> HIDE DEF v
  <2>1. history \in Seq(Versions) /\ Len(history) = 1 /\ history[1] = v BY <1>3, <1>4
  <2> QED BY <2>1 DEF HistoryOK, Tip, Newest
<1>6. f \in Assignments /\ DOMAIN f = Range(text) /\ \A c \in DOMAIN f : f[c] = 1
  <2>1. DOMAIN f = Range(text) /\ \A c \in DOMAIN f : f[c] = 1 BY <1>2
  <2>2. Range(text) \in SUBSET Commands BY <1>2, TextBasics
  <2>3. f \in [Range(text) -> Nat] BY <1>2
  <2> HIDE DEF f
  <2> QED BY <2>1, <2>2, <2>3 DEF Assignments
<1> HIDE DEF f
<1>7. assigned \in Seq(Assignments) /\ Len(assigned) = 1 /\ assigned[1] = f BY <1>3, <1>6
<1>8. AssignedOK
  <2>1. \A n \in 1..Len(assigned) : n = 1 BY <1>7
  <2>2. DOMAIN assigned[1] = Range(history[1].cmds) BY <1>5, <1>6, <1>7
  <2>3. \A c \in DOMAIN assigned[1] : assigned[1][c] \in 0..1 BY <1>6, <1>7
  <2> QED BY <1>5, <1>7, <2>1, <2>2, <2>3 DEF AssignedOK
<1>9. QueuesOK
  <2>1. Numbered(<<>>, "update", 1, 1) /\ Numbered(<<>>, "assigned", 1, 1) BY NumberedEmpty
  <2>2. toML \in Seq(ToML) /\ fromML \in Seq(FromML) BY <1>3
  <2> QED BY <1>3, <1>5, <1>7, <2>1, <2>2 DEF QueuesOK
<1>10. DocumentOK
  <2>1. doc \in Documents BY <1>3 DEF Documents
  <2>2. doc.queries \subseteq 1..0 /\ doc.edits = <<>> BY <1>3
  <2> QED BY <2>1, <2>2 DEF DocumentOK
<1>11. RequestOK
  <2>1. request \in Requests BY <1>3 DEF Requests, Idle, Labels
  <2>2. request.targets = {} /\ request.strikes = {} /\ request.batch = {} BY <1>3 DEF Idle
  <2> QED BY <1>3, <2>1, <2>2 DEF RequestOK
<1>12. /\ request.pc = "idle" /\ request.report = "none" /\ request.probe = {}
       /\ request.targets = {} /\ request.strikes = {} /\ request.batch = {} /\ request.serial = 0
  BY <1>3 DEF Idle
<1>13. Perspective BY <1>3, <1>5 DEF Perspective
<1>14. Asked BY <1>3, <1>12 DEF Asked, Holds
<1>15. Ages BY <1>12 DEF Ages
<1>16. NeverBack
  <2>1. \A n \in 1..Len(assigned) : \A m \in 1..n : m = n BY <1>7
  <2> QED BY <2>1 DEF NeverBack
<1>17. Gone /\ SameText /\ Stillness /\ Fresh /\ Replied
  BY <1>3, <1>12 DEF Gone, SameText, Stillness, Fresh, Replied, Late
<1> QED BY <1>5, <1>8, <1>9, <1>10, <1>11, <1>13, <1>14, <1>15, <1>16, <1>17 DEF IInv

LEMMA StepInv == IInv /\ [Next]_vars => IInv'
<1> SUFFICES ASSUME IInv, [Next]_vars PROVE IInv' OBVIOUS
<1>1. HistoryOK' /\ Perspective' BY HistoryKept
<1>2. AssignedOK' /\ NeverBack' BY StepAssignedOK, StepNeverBack
<1>3. QueuesOK' /\ DocumentOK' /\ RequestOK' BY StepQueues, StepDocument, StepRequest
<1>4. Asked' /\ Fresh' /\ Ages' BY StepAsked, StepAges
<1>5. Gone' /\ SameText' /\ Stillness' /\ Replied'
  BY StepGone, StepSameText, StepStillness, StepReplied
<1> QED BY <1>1, <1>2, <1>3, <1>4, <1>5 DEF IInv

\* Every part of the invariant holds of every reachable state.
THEOREM Invariant == Spec => []IInv
BY InitInv, StepInv, PTL DEF Spec

\* The types, the bounds between manager and prover, and unflushed edits in the queue.
THEOREM TypeCorrect == Spec => []TypeOK
<1>1. ASSUME IInv PROVE TypeOK
  <2> USE DEF IInv
  <2>1. \A n \in 1..Tip : history[n].cmds \in Seq(Commands) /\ history[n].work \in BOOLEAN
    <3>1. \A n \in 1..Tip : history[n] \in Versions BY <1>1 DEF HistoryOK, Tip
    <3> QED BY <3>1 DEF Versions, Texts
  <2>2. told \in 1..Len(assigned) /\ Len(assigned) <= Tip
    BY <1>1 DEF QueuesOK, AssignedOK
  <2>3. \A n \in 1..Len(assigned) : Execs(n) \subseteq ExecIds BY <1>1, ExecsTyped
  <2>4. toML \in Seq({"update", "cancel", "ping"})
        /\ fromML \in Seq({"assigned", "report", "failed", "pong"})
    BY <1>1 DEF QueuesOK, ToML, FromML
  <2>5. /\ doc \in [edits : Seq({0, 1}), queued : BOOLEAN, caret : BOOLEAN,
                    overlays : SUBSET Nat, last : BOOLEAN, updates : Nat, changes : Nat,
                    queries : SUBSET Nat]
        /\ doc.edits # <<>> => doc.queued
    BY <1>1 DEF DocumentOK, Documents
  <2>6. request \in Requests /\ interrupted \subseteq request.probe /\ quietFrom \in Nat
        /\ request.targets \cup request.strikes \cup request.batch \subseteq request.probe
    BY <1>1 DEF RequestOK
  <2>7. /\ request.pc \in Labels
        /\ request.report \in {"none", "report", "failed"} /\ request.pong \in BOOLEAN
        /\ request.probe \subseteq ExecIds
        /\ {request.before, request.serial, request.overlay, quietFrom} \subseteq Nat
    BY <2>6 DEF Requests
  <2> QED BY <2>1, <2>2, <2>3, <2>4, <2>5, <2>6, <2>7 DEF TypeOK
<1> QED BY <1>1, Invariant, PTL

\* What a successful cancel interrupted is assigned to no command any more.
THEOREM NothingInterruptedIsAssigned == Spec => []RetiredAreGone
<1>1. ASSUME IInv PROVE RetiredAreGone
  <2>1. SUFFICES ASSUME request.pc = "replied", NEW t \in interrupted
                 PROVE  t \notin Execs(Len(assigned))
    BY DEF RetiredAreGone, At
  <2>2. t \in request.targets \/ t \notin Execs(Len(assigned))
    BY <1>1, <2>1 DEF IInv, Gone, Late
  <2>3. request.targets = {} BY <1>1, <2>1 DEF IInv, Replied
  <2> QED BY <2>2, <2>3
<1> QED BY <1>1, Invariant, PTL

\* A successful cancel gave the prover no version that wants work.
THEOREM CancelStaysQuiet == Spec => []NoWorkGivenBack
<1>1. ASSUME IInv PROVE NoWorkGivenBack
  BY <1>1 DEF IInv, Replied, NoWorkGivenBack, Stillness, Late, At
<1> QED BY <1>1, Invariant, PTL

\* A retire batch re-mints the commands of its targets and no other.
THEOREM RetireHitsOnlyTargets == Spec => EditsHitTheirTargets
<1> DEFINE A == request'.pc = "lands" /\ request.pc = "round" =>
                  \A c \in Range(Newest.cmds) \ Range(history'[Tip + 1].cmds) :
                    \E t \in request'.batch : t[1] = c
<1>1. ASSUME IInv, [Next]_vars PROVE A
  <2>1. SUFFICES ASSUME request'.pc = "lands", request.pc = "round",
                        NEW c \in Range(Newest.cmds), c \notin Range(history'[Tip + 1].cmds)
                 PROVE  \E t \in request'.batch : t[1] = c
    OBVIOUS
  <2>2. request \in Requests /\ HistoryOK /\ QueuesOK BY <1>1 DEF IInv, RequestOK
  <2>3. RoundRetires
    <3>1. CASE Request BY <1>1, <2>1, <3>1, StepMoves DEF Moves, Goes
    <3>2. CASE ~Request BY <1>1, <2>1, <3>2, StepOutside, OutsideFields
    <3> QED BY <3>1, <3>2
  <2> DEFINE v == StableTip(request.st)
  <2>4. v # 0 /\ Current BY <2>3 DEF RoundRetires
  <2>5. v = request.st.tip /\ v \in 1..Tip BY <1>1, <2>1, <2>4 DEF IInv, Ages, StableTip
  <2>6. \A n \in v..Tip : history[n].cmds = history[v].cmds
    BY <1>1, <2>1, <2>4, <2>5 DEF IInv, SameText, Current
  <2>7. history[v].cmds = Newest.cmds BY <2>2, <2>5, <2>6, NewestTyped DEF Newest
  <2>8. request' # [Loop EXCEPT !.targets = {}]
    BY <1>1, <2>1, <2>2, LoopFields DEF Requests
  <2>9. PICK hit \in SUBSET Located(v) : Update(Reminted(v, hit), FALSE)
    BY <2>3, <2>8 DEF RoundRetires
  <2>10. request'.batch = Located(v)
    BY <2>3, <2>8, <2>2 DEF RoundRetires, Requests
  <2> HIDE DEF v
  <2>11. history'[Tip + 1].cmds = Reminted(v, hit)
    <3>1. Reminted(v, hit) \in Texts BY <2>2, RemintedTyped
    <3>2. Newest' = [cmds |-> Reminted(v, hit), work |-> FALSE] /\ Tip' = Tip + 1
      BY <2>2, <2>9, <3>1, UpdateAppends
    <3> QED BY <3>2 DEF Newest
  <2>12. Newest.cmds \in Texts BY <2>2, NewestTyped
  <2> DEFINE cmds == Newest.cmds
  <2>13. PICK i \in 1..Len(cmds) : c = cmds[i] BY <2>1, <2>12, TextBasics DEF Range
  <2>14. \E t \in hit : history[v].cmds[i] = t[1]
    <3>1. DOMAIN Reminted(v, hit) = 1..Len(cmds) BY DEF Reminted
    <3>2. Reminted(v, hit)[i] # c BY <2>1, <2>11, <3>1 DEF Range
    <3>3. Reminted(v, hit)[i] = cmds[i] \/ \E t \in hit : history[v].cmds[i] = t[1]
      BY DEF Reminted
    <3> QED BY <2>13, <3>2, <3>3
  <2> QED BY <2>7, <2>10, <2>13, <2>14
<1> HIDE DEF A
<1>2. IInv /\ [Next]_vars => [A]_vars BY <1>1
<1>3. Spec => [][A]_vars BY <1>2, Invariant, PTL DEF Spec
<1> QED BY <1>3 DEF EditsHitTheirTargets, A

=============================================================================
