-------------------------- MODULE FreshnessProofs --------------------------
(***************************************************************************)
(* Proofs about Freshness, for any files, pictures, waiters and bounds.    *)
(* IInv carries what is about texts and holds whatever stalls: an open     *)
(* file's last text is at the server or is the last message on its way     *)
(* that names it (Tracked), a model without pending edits is in the newest *)
(* version (Synced), a waiter has one flush out (OneFlush), and a flush    *)
(* asked behind the last text covers all texts at every stage of its way   *)
(* (Covers).  Pictured carries the pictures, from a tracker along the      *)
(* pushes on their way to the server's baseline, and needs that no         *)
(* didClose stalls.                                                        *)
(***************************************************************************)
EXTENDS Freshness, DataLemmas, FiniteSetTheorems

\* The messages of the two pipes.
Slices == UNION {[D -> Looks] : D \in SUBSET Types}
UpMessages == [kind : {"text"}, file : Files, text : Nat]
              \cup [kind : {"close"}, file : Files] \cup [kind : {"flush"}, waiter : Waiters]
Pushes == [kind : {"push"}, file : Files, version : Nat, entries : Slices,
           whole : Pictures, text : Nat]
DownMessages == Pushes \cup [kind : {"flushed"}, waiter : Waiters, version : Nat]

Queues == up \in Seq(UpMessages) /\ down \in Seq(DownMessages)

\* Whatever names a version names one the server has.
Versions ==
  /\ newest <= Tip
  /\ \A i \in 1 .. Len(down) : down[i].version \in 1 .. Tip
  /\ \A w \in Waiters : flushes[w].phase = "reply" => flushes[w].version \in 1 .. Tip
  /\ output.phase = "state" => output.tip \in 1 .. Tip /\ output.stable \in 1 .. Tip

Typed == TypeOK /\ Queues /\ Versions

-----------------------------------------------------------------------------
(* What a rendering publishes.                                             *)

LEMMA Looking ==
  ASSUME NEW p \in Pictures
  PROVE  /\ p \in [Types -> Looks] /\ p \in [Types -> Looks \cup {Blank}]
         /\ \A t \in Types : p[t] # Blank
<1>1. p = [t \in Types |-> p[t]] /\ \A t \in Types : p[t] # Blank BY PicturesGiven
<1>2. \A t \in Types : p[t] \in Looks BY DEF Looks
<1> DEFINE q == [t \in Types |-> p[t]]
<1>3. q \in [Types -> Looks] /\ q \in [Types -> Looks \cup {Blank}] BY <1>2
<1> HIDE DEF q
<1>4. p = q BY <1>1 DEF q
<1> QED BY <1>1, <1>3, <1>4

\* A push names every type, or those whose look is not the baseline's.
LEMMA EntriesGiven ==
  ASSUME NEW f \in Files, NEW p \in Pictures
  PROVE  /\ Entries(f, p) = {} \/ \E e : Entries(f, p) = {e}
         /\ Entries(f, p) = {} => (base[f].picture = p /\ base[f] # NoBase) \/ output.stable = 0
         /\ \A e \in Entries(f, p) :
              /\ e \in Slices
              /\ \A t \in DOMAIN e : e[t] = p[t]
              /\ DOMAIN e \in SUBSET Types
              /\ base[f] # NoBase => \A t \in Types \ DOMAIN e : p[t] = base[f].picture[t]
              /\ base[f] = NoBase => DOMAIN e = Types
<1> DEFINE s == [t \in {u \in Types : p[u] # base[f].picture[u]} |-> p[t]]
<1>1. p \in [Types -> Looks] BY Looking
<1>2. CASE base[f].picture = p /\ base[f].version = output.stable
  <2>1. base[f] = NoBase => output.stable = 0 BY <1>2 DEF NoBase
  <2>2. CASE base[f] = NoBase /\ Types = {}
    <3>1. Entries(f, p) \in {{}, {p}} BY <1>2, <2>2 DEF Entries
    <3>2. p \in Slices BY <1>1 DEF Slices
    <3> QED BY <3>1, <3>2, <2>1, <2>2, <1>1
  <2>3. CASE base[f] = NoBase /\ Types # {}
    <3>1. PICK t \in Types : TRUE BY <2>3
    <3>2. base[f].picture[t] = Blank BY <2>3 DEF NoBase, NoPicture
    <3> QED BY <3>2, <1>2, Looking
  <2>4. CASE base[f] # NoBase
    <3>1. Entries(f, p) = {} BY <1>2, <2>4 DEF Entries
    <3> QED BY <3>1, <1>2, <2>4
  <2> QED BY <2>2, <2>3, <2>4
<1>3. CASE ~(base[f].picture = p /\ base[f].version = output.stable) /\ base[f] = NoBase
  <2>1. Entries(f, p) = {p} BY <1>3 DEF Entries
  <2>2. p \in Slices BY <1>1 DEF Slices
  <2> QED BY <2>1, <2>2, <1>1, <1>3
<1>4. CASE ~(base[f].picture = p /\ base[f].version = output.stable) /\ base[f] # NoBase
  <2>1. Entries(f, p) = {s} BY <1>4 DEF Entries
  <2>2. s \in Slices
    <3> DEFINE D == {u \in Types : p[u] # base[f].picture[u]}
    <3>1. D \in SUBSET Types OBVIOUS
    <3>2. s \in [D -> Looks] BY <1>1
    <3> HIDE DEF D, s
    <3> QED BY <3>1, <3>2 DEF Slices
  <2>3. DOMAIN s \in SUBSET Types /\ \A t \in Types \ DOMAIN s : p[t] = base[f].picture[t]
    OBVIOUS
  <2>4. \A t \in DOMAIN s : s[t] = p[t] OBVIOUS
  <2> HIDE DEF s
  <2> QED BY <2>1, <2>2, <2>3, <2>4, <1>4
<1> QED BY <1>2, <1>3, <1>4

\* What the pushes of one rendering are, in whatever order.
Published(look, pushes) ==
  /\ look \in [{f \in shown : ~Outdated(f)} -> Pictures]
  /\ pushes \in Seq(Pushes)
  /\ \A i \in 1 .. Len(pushes) :
       \E f \in DOMAIN look : \E e \in Entries(f, look[f]) : pushes[i] = Push(f, look[f], e)
  /\ \A f \in DOMAIN look : \A e \in Entries(f, look[f]) :
       \E i \in 1 .. Len(pushes) : pushes[i] = Push(f, look[f], e)
  /\ down' = down \o pushes
  /\ base' = [f \in Files |->
       IF f \in DOMAIN look THEN [picture |-> look[f], version |-> output.stable]
       ELSE base[f]]

LEMMA OutputPublishes ==
  ASSUME Typed, OutputFlushed, MayPublish
  PROVE  \E look, pushes : Published(look, pushes) /\ armed' \in BOOLEAN
<1> DEFINE Visible == {f \in shown : ~Outdated(f)}
           All(look) == UNION {{Push(f, look[f], e) : e \in Entries(f, look[f])} :
                               f \in DOMAIN look}
           Base(look) == [f \in Files |->
                 IF f \in DOMAIN look THEN [picture |-> look[f], version |-> output.stable]
                 ELSE base[f]]
<1>1. PICK look \in [Visible -> Pictures] :
        /\ \E pushes \in Orders(All(look)) : down' = down \o pushes
        /\ base' = Base(look)
        /\ armed' = (armed \/ DOMAIN look # shown)
  BY Zenon DEF OutputFlushed
<1>2. PICK pushes \in Orders(All(look)) : down' = down \o pushes BY <1>1
<1>3. Visible \in SUBSET Files /\ DOMAIN look = Visible /\ \A f \in Visible : look[f] \in Pictures
  <2>1. shown \in SUBSET Files BY DEF Typed, TypeOK
  <2> QED BY <1>1, <2>1
<1> HIDE DEF Visible
<1>4. IsFiniteSet(All(look))
  <2> DEFINE E == {f \in Visible : Entries(f, look[f]) # {}}
             Only(f) == CHOOSE e : e \in Entries(f, look[f])
             g == [f \in E |-> Push(f, look[f], Only(f))]
  <2>1. IsFiniteSet(E)
    <3>1. E \in SUBSET Files BY <1>3
    <3> HIDE DEF E
    <3> QED BY <3>1, FilesGiven, FS_Subset
  <2>2. \A f \in E : Entries(f, look[f]) = {Only(f)}
    <3> TAKE f \in E
    <3>1. f \in Files /\ look[f] \in Pictures /\ Entries(f, look[f]) # {} BY <1>3
    <3>2. \E e : Entries(f, look[f]) = {e} BY <3>1, EntriesGiven
    <3> QED BY <3>2
  <2>3. \A m \in All(look) : \E f \in E : m = g[f]
    <3> TAKE m \in All(look)
    <3>0. PICK f \in Visible : \E e \in Entries(f, look[f]) : m = Push(f, look[f], e) BY <1>3
    <3>1. PICK e \in Entries(f, look[f]) : m = Push(f, look[f], e) BY <3>0
    <3>2. f \in E BY <3>1
    <3>3. e = Only(f) BY <3>1, <3>2, <2>2
    <3> QED BY <3>0, <3>1, <3>2, <3>3
  <2>4. \A f \in E : g[f] \in All(look)
    <3> TAKE f \in E
    <3>1. f \in Visible /\ Only(f) \in Entries(f, look[f]) BY <2>2
    <3>2. g[f] = Push(f, look[f], Only(f)) OBVIOUS
    <3> QED BY <3>1, <3>2, <1>3
  <2>5. g \in [E -> All(look)]
    <3> HIDE DEF All
    <3>1. DOMAIN g = E /\ g = [f \in E |-> g[f]] OBVIOUS
    <3> HIDE DEF g, E
    <3> QED BY <3>1, <2>4
  <2> HIDE DEF g, E, All, Only
  <2>6. g \in Surjection(E, All(look)) BY <2>5, <2>3 DEF Surjection
  <2> QED BY <2>1, <2>6, FS_Surjection
<1>5. Cardinality(All(look)) \in Nat BY <1>4, FS_CardinalityType
<1>6. All(look) \in SUBSET Pushes
  <2>1. SUFFICES ASSUME NEW f \in Visible, NEW e \in Entries(f, look[f])
        PROVE Push(f, look[f], e) \in Pushes
    BY <1>3
  <2>2. f \in Files /\ look[f] \in Pictures BY <1>3
  <2>3. e \in Slices BY <2>2, EntriesGiven
  <2>4. RenderedText(f) \in Nat /\ output.stable \in Nat
    <3>1. model[f] \in Nat /\ output.stable \in Nat BY <2>2 DEF Typed, TypeOK
    <3> QED BY <3>1 DEF RenderedText
  <2> QED BY <2>2, <2>3, <2>4 DEF Push, Pushes
<1>7. /\ pushes \in Seq(All(look)) /\ Len(pushes) = Cardinality(All(look))
      /\ \A x \in All(look) : \E i \in 1 .. Len(pushes) : pushes[i] = x
  <2> HIDE DEF All
  <2>1. pushes \in [1 .. Cardinality(All(look)) -> All(look)]
    BY <1>2 DEF Orders
  <2>2. \A x \in All(look) : \E i \in DOMAIN pushes : pushes[i] = x BY <1>2, Zenon DEF Orders
  <2> QED BY <2>1, <2>2, <1>5
<1>8. \A i \in 1 .. Len(pushes) :
       \E f \in DOMAIN look : \E e \in Entries(f, look[f]) : pushes[i] = Push(f, look[f], e)
  <2> TAKE i \in 1 .. Len(pushes)
  <2>1. pushes[i] \in All(look)
    <3> HIDE DEF All
    <3> QED BY <1>7
  <2> QED BY <2>1
<1>9. \A f \in DOMAIN look : \A e \in Entries(f, look[f]) :
        \E i \in 1 .. Len(pushes) : pushes[i] = Push(f, look[f], e)
  <2> TAKE f \in DOMAIN look
  <2> TAKE e \in Entries(f, look[f])
  <2>1. Push(f, look[f], e) \in All(look) OBVIOUS
  <2> HIDE DEF All
  <2> QED BY <2>1, <1>7
<1>10. pushes \in Seq(Pushes)
  <2> HIDE DEF All
  <2> QED BY <1>6, <1>7
<1>11. base' = Base(look) BY <1>1
<1>12. armed' \in BOOLEAN
  <2>1. armed \in BOOLEAN BY DEF Typed, TypeOK
  <2> QED BY <2>1, <1>1
<1> HIDE DEF All
<1>13. Published(look, pushes)
  BY <1>1, <1>2, <1>8, <1>9, <1>10, <1>11 DEF Published, Visible
<1> QED BY <1>12, <1>13

-----------------------------------------------------------------------------
(* The history only grows.                                                 *)

Grown ==
  /\ history' \in Seq([Files -> Nat]) /\ Tip <= Tip'
  /\ \A i \in 1 .. Tip : history'[i] = history[i]

\* flush_input leaves nothing pending, and a version with every pending edit.
LEMMA InputGiven ==
  ASSUME Typed, NEW moved \in BOOLEAN, FlushInput(moved)
  PROVE  /\ Grown /\ pending' = {} /\ serial' \in Nat /\ serial <= serial'
         /\ \/ UNCHANGED <<history, serial>> /\ pending = {}
            \/ /\ Tip' = Tip + 1 /\ serial' = serial + 1
               /\ history'[Tip'] = [f \in Files |->
                       IF f \in pending THEN model[f] ELSE history[Tip][f]]
<1> DEFINE v == [f \in Files |-> IF f \in pending THEN model[f] ELSE history[Tip][f]]
<1>0. history \in Seq([Files -> Nat]) /\ Tip \in Nat \ {0} /\ serial \in Nat /\ Tip = Len(history)
  BY DEF Typed, TypeOK, Tip
<1>1. CASE pending # {} \/ moved
  <2>1. history' = Append(history, v) /\ serial' = serial + 1 /\ pending' = {}
    BY <1>1, Zenon DEF FlushInput
  <2>2. v \in [Files -> Nat]
    <3>1. history[Tip] \in [Files -> Nat] BY <1>0
    <3>2. model \in [Files -> Nat] BY DEF Typed, TypeOK
    <3> QED BY <3>1, <3>2
  <2> HIDE DEF v
  <2>3. /\ history' \in Seq([Files -> Nat]) /\ Len(history') = Tip + 1
        /\ \A i \in 1 .. Tip : history'[i] = history[i]
        /\ history'[Tip + 1] = v
    BY <2>1, <2>2, <1>0, Appended DEF Tip
  <2>4. Tip' = Tip + 1 BY <2>3 DEF Tip
  <2> QED BY <2>1, <2>3, <2>4, <1>0 DEF Grown, v
<1>2. CASE ~(pending # {} \/ moved)
  <2>1. UNCHANGED <<history, serial, pending>> /\ pending = {} BY <1>2, Zenon DEF FlushInput
  <2> QED BY <2>1, <1>0 DEF Grown, Tip
<1> QED BY <1>1, <1>2

LEMMA SameHistory == ASSUME Typed, UNCHANGED history PROVE Grown /\ Tip' = Tip
BY DEF Typed, TypeOK, Grown, Tip

\* What only concerns the versions stays true as they grow.
LEMMA VersionsGrow ==
  ASSUME Typed, Grown, UNCHANGED <<newest, down, output>>,
         \A w \in Waiters : flushes'[w].phase = "reply" =>
           flushes'[w] = flushes[w] \/ flushes'[w].version \in 1 .. Tip'
  PROVE  Versions' /\ stable \in 1 .. Tip'
<1>1. Tip \in Nat /\ Tip' \in Nat /\ Tip <= Tip' BY DEF Typed, TypeOK, Grown, Tip
<1>2. \A v \in 1 .. Tip : v \in 1 .. Tip' BY <1>1
<1>3. newest' <= Tip' BY <1>1 DEF Typed, TypeOK, Versions
<1>4. \A i \in 1 .. Len(down') : down'[i].version \in 1 .. Tip' BY <1>2 DEF Typed, Versions
<1>5. \A w \in Waiters : flushes'[w].phase = "reply" => flushes'[w].version \in 1 .. Tip'
  BY <1>2 DEF Typed, Versions
<1>6. output'.phase = "state" => output'.tip \in 1 .. Tip' /\ output'.stable \in 1 .. Tip'
  BY <1>2 DEF Typed, Versions
<1> QED BY <1>2, <1>3, <1>4, <1>5, <1>6 DEF Versions, Typed, TypeOK

-----------------------------------------------------------------------------
(* The types are kept.                                                     *)

LEMMA InitTyped == ASSUME Init PROVE Typed
<1>1. history \in Seq([Files -> Nat]) /\ Len(history) = 1
  <2>1. [f \in Files |-> 0] \in [Files -> Nat] OBVIOUS
  <2> QED BY <2>1 DEF Init
<1>2. NoPicture \in [Types -> Looks \cup {Blank}] BY DEF NoPicture
<1>3. tracker \in [Files -> Tracker] BY <1>2 DEF Init, Tracker, NoTracker
<1>4. base \in [Files -> [picture : [Types -> Looks \cup {Blank}], version : Nat]]
  BY <1>2 DEF Init, NoBase
<1>5. TypeOK
  <2>1. output \in [phase : {"none", "serial", "state"}, serial : Nat, tip : Nat, stable : Nat]
    BY DEF Init, NoOutput
  <2>2. flushes \in [Waiters -> [phase : {"none", "absorb", "await", "reply"}, version : Nat]]
    BY DEF Init
  <2>3. stable \in 1 .. Tip BY <1>1 DEF Init, Tip
  <2>4. /\ open \subseteq Files /\ shown \subseteq Files /\ pending \subseteq Files
        /\ disk \in [Files -> Nat] /\ text \in [Files -> Nat] /\ model \in [Files -> Nat]
        /\ sends \in Nat /\ flushed \in Nat /\ newest \in Nat \ {0}
        /\ snapshot \in [Waiters -> Nat]
        /\ pc \in [Waiters -> {"idle", "asked", "parked", "done", "failed"}]
        /\ serial \in Nat /\ armed \in BOOLEAN
    <3>1. /\ disk = [f \in Files |-> 1] /\ open = {} /\ text = [f \in Files |-> 0]
          /\ sends = 0 /\ flushed = 0 /\ newest = 1
          /\ pc = [w \in Waiters |-> "idle"] /\ snapshot = [w \in Waiters |-> 0]
          /\ model = [f \in Files |-> 0] /\ shown = {} /\ pending = {}
          /\ serial = 0 /\ armed = FALSE
      BY Zenon DEF Init
    <3>2. disk \in [Files -> Nat] /\ text \in [Files -> Nat] /\ model \in [Files -> Nat] BY <3>1
    <3>3. snapshot \in [Waiters -> Nat] BY <3>1
    <3>4. pc \in [Waiters -> {"idle", "asked", "parked", "done", "failed"}] BY <3>1
    <3>5. open \subseteq Files /\ shown \subseteq Files /\ pending \subseteq Files BY <3>1
    <3>6. sends \in Nat /\ flushed \in Nat /\ newest \in Nat \ {0} /\ serial \in Nat BY <3>1
    <3>7. armed \in BOOLEAN BY <3>1
    <3> QED BY <3>2, <3>3, <3>4, <3>5, <3>6, <3>7, Zenon
  <2> QED BY <1>1, <1>3, <1>4, <2>1, <2>2, <2>3, <2>4, Zenon DEF TypeOK
<1>6. Queues /\ Versions BY <1>1 DEF Init, Queues, Versions, Tip, NoOutput
<1> QED BY <1>5, <1>6 DEF Typed

LEMMA WriteTyped ==
  ASSUME Typed, NEW f \in Files, NEW t \in Nat, SendText(f, t), open' \subseteq Files
  PROVE  Typed'
<1> DEFINE m == [kind |-> "text", file |-> f, text |-> t]
<1>1. m \in UpMessages BY DEF UpMessages
<1>2. up' = Append(up, m) /\ sends' = sends + 1 BY DEF SendText, Write
<1> HIDE DEF m
<1>3. Queues'
  <2>1. up' \in Seq(UpMessages) BY <1>1, <1>2, Appended DEF Typed, Queues
  <2> QED BY <2>1 DEF Queues, Typed, SendText
<1>4. Grown /\ Tip' = Tip BY SameHistory DEF SendText, prover
<1>5. Versions' BY <1>4, VersionsGrow DEF SendText
<1>6. text' \in [Files -> Nat] /\ sends' \in Nat
  BY <1>2 DEF SendText, Typed, TypeOK
<1>7. TypeOK' BY <1>4, <1>6 DEF SendText, Typed, TypeOK, waits, models, prover, Tracker
<1> QED BY <1>3, <1>5, <1>7 DEF Typed

LEMMA TextsTyped ==
  ASSUME Typed, NEW f \in Files, Open(f) \/ Change(f)
  PROVE  /\ open' \subseteq Files /\ sends' = sends + 1
         /\ f \in open'
         /\ \E t \in Nat : SendText(f, t)
<1>1. disk[f] \in Nat /\ text[f] \in Nat /\ open \subseteq Files BY DEF Typed, TypeOK
<1>2. MaxOf(1, text[f]) \in Nat BY <1>1 DEF MaxOf
<1>3. CASE Open(f)
  <2>1. PICK t \in MaxOf(1, text[f]) .. disk[f] : SendText(f, t) BY <1>3, Zenon DEF Open
  <2>2. t \in Nat BY <1>1, <1>2
  <2>3. open' = open \cup {f} BY <1>3 DEF Open
  <2> QED BY <2>1, <2>2, <2>3, <1>1 DEF SendText, Write
<1>4. CASE Change(f)
  <2>1. PICK t \in text[f] + 1 .. disk[f] : SendText(f, t) BY <1>4, Zenon DEF Change
  <2>2. t \in Nat BY <1>1
  <2>3. open' = open /\ f \in open BY <1>4 DEF Change
  <2> QED BY <2>1, <2>2, <2>3, <1>1 DEF SendText, Write
<1> QED BY <1>3, <1>4

LEMMA CloseTyped ==
  ASSUME Typed, NEW f \in Files, Close(f) \/ CloseStalls(f)
  PROVE  /\ Typed'
         /\ \/ up' = up
            \/ up' = Append(up, [kind |-> "close", file |-> f])
<1> DEFINE m == [kind |-> "close", file |-> f]
<1>1. m \in UpMessages BY DEF UpMessages
<1>2. up' = up \/ up' = Append(up, m)
  <2>1. CASE Close(f) BY <2>1 DEF Close
  <2>2. CASE CloseStalls(f)
    <3>1. PICK written \in Stalls : up' = IF written THEN Append(up, m) ELSE up
      BY <2>2, Zenon DEF CloseStalls
    <3> QED BY <3>1
  <2> QED BY <2>1, <2>2
<1>u. /\ UNCHANGED <<disk, text, sends, flushed, newest, waits, down, models, prover, armed, output,
                 flushes>>
      /\ open' = open \ {f}
      /\ tracker' = [tracker EXCEPT ![f] = NoTracker] \/ tracker' = tracker
  <2>1. CASE Close(f) BY <2>1, Zenon DEF Close
  <2>2. CASE CloseStalls(f) BY <2>2, Zenon DEF CloseStalls
  <2> QED BY <2>1, <2>2
<1>3. Queues'
  <2> HIDE DEF m
  <2>1. up' \in Seq(UpMessages) BY <1>1, <1>2, Appended DEF Typed, Queues
  <2> QED BY <2>1, <1>u DEF Queues, Typed
<1>4. Grown /\ Tip' = Tip BY SameHistory, <1>u DEF prover
<1>5. Versions' BY <1>4, <1>u, VersionsGrow
<1>6. tracker' \in [Files -> Tracker]
  <2>1. NoTracker \in Tracker BY DEF NoTracker, Tracker, NoPicture
  <2> HIDE DEF Tracker
  <2>2. tracker \in [Files -> Tracker] BY Zenon DEF Typed, TypeOK
  <2> QED BY <1>u, <2>1, <2>2
<1>7. TypeOK'
  <2>1. open' \subseteq Files BY <1>u DEF Typed, TypeOK
  <2> QED BY <1>4, <1>u, <1>6, <2>1 DEF Typed, TypeOK, waits, models, prover
<1> QED BY <1>2, <1>3, <1>5, <1>7 DEF Typed

\* The waiters.
LEMMA AskTyped ==
  ASSUME Typed, NEW w \in Waiters, Ask(w),
         UNCHANGED <<disk, client, down, models, prover, armed, output, flushes>>
  PROVE  Typed'
<1> DEFINE m == [kind |-> "flush", waiter |-> w]
<1>1. m \in UpMessages BY DEF UpMessages
<1>2. up' = Append(up, m) BY DEF Ask
<1> HIDE DEF m
<1>3. Queues'
  <2>1. up' \in Seq(UpMessages) BY <1>1, <1>2, Appended DEF Typed, Queues
  <2> QED BY <2>1 DEF Queues, Typed
<1>4. Grown /\ Tip' = Tip BY SameHistory DEF prover
<1>5. Versions' BY <1>4, VersionsGrow DEF client
<1>6. TypeOK' BY <1>4 DEF Ask, Typed, TypeOK, client, models, prover
<1> QED BY <1>3, <1>5, <1>6 DEF Typed

LEMMA WaitTyped ==
  ASSUME Typed, NEW w \in Waiters, WaitStep(w) \/ WaitFails(w)
  PROVE  Typed'
<1>1. CASE WaitStarts(w) \/ WaitRearms(w)
  BY <1>1, AskTyped, Zenon DEF WaitStarts, WaitRearms
<1>2. CASE WaitReturns(w) \/ WaitFails(w)
  <2>u. UNCHANGED <<disk, client, snapshot, up, down, models, prover, armed, output, flushes>>
    BY <1>2, Zenon DEF WaitReturns, WaitFails
  <2>1. pc' \in [Waiters -> {"idle", "asked", "parked", "done", "failed"}]
    BY <1>2 DEF WaitReturns, WaitFails, Typed, TypeOK
  <2>2. Grown /\ Tip' = Tip BY SameHistory, <2>u DEF prover
  <2>3. Versions' BY <2>2, <2>u, VersionsGrow DEF client
  <2>4. TypeOK' BY <2>1, <2>2, <2>u DEF Typed, TypeOK, client, models, prover
  <2> QED BY <2>3, <2>4, <2>u DEF Typed, Queues
<1> QED BY <1>1, <1>2 DEF WaitStep

\* The client reads.
LEMMA ClientReadsWhich ==
  ASSUME Typed, ClientReads
  PROVE  /\ down # <<>> /\ down' = Tail(down)
         /\ \/ Head(down).kind = "push" /\ ReadPush(Head(down)) /\ Head(down) \in Pushes
            \/ /\ Head(down).kind = "flushed" /\ ReadFlushed(Head(down))
               /\ Head(down) \in [kind : {"flushed"}, waiter : Waiters, version : Nat]
<1> DEFINE m == Head(down)
<1>1. down # <<>> /\ down' = Tail(down) BY Zenon DEF ClientReads
<1>2. m \in DownMessages BY <1>1, Shifted DEF Typed, Queues
<1>3. \/ m.kind = "push" /\ m \in Pushes
      \/ m.kind = "flushed" /\ m \in [kind : {"flushed"}, waiter : Waiters, version : Nat]
  BY <1>2 DEF DownMessages, Pushes
<1>4. CASE m.kind = "push" BY <1>1, <1>3, <1>4, Zenon DEF ClientReads
<1>5. CASE m.kind = "flushed"
  <2>1. ~(m.kind = "push") BY <1>5
  <2> QED BY <1>1, <1>3, <1>5, <2>1, Zenon DEF ClientReads
<1> QED BY <1>3, <1>4, <1>5

LEMMA ReadTyped == ASSUME Typed, ClientReads PROVE Typed'
<1> DEFINE m == Head(down)
<1>1. down # <<>> /\ down' = Tail(down)
  BY Zenon DEF ClientReads
<1>2. /\ down' \in Seq(DownMessages) /\ m \in DownMessages /\ m = down[1]
      /\ \A i \in 1 .. Len(down') : down'[i] = down[i + 1]
      /\ Len(down') = Len(down) - 1 /\ Len(down) \in Nat \ {0}
  BY <1>1, Shifted DEF Typed, Queues
<1>3. m.version \in 1 .. Tip /\ \A i \in 1 .. Len(down') : down'[i].version \in 1 .. Tip
  BY <1>2 DEF Typed, Versions
<1>u. UNCHANGED <<disk, open, text, sends, snapshot, up, models, prover, armed, output, flushes>>
  BY Zenon DEF ClientReads
<1>4. Tip' = Tip /\ Tip \in Nat BY <1>u DEF Tip, prover, Typed, TypeOK
<1>r. \/ m.kind = "push" /\ ReadPush(m) /\ m \in Pushes
      \/ m.kind = "flushed" /\ ReadFlushed(m) /\ m.waiter \in Waiters
  BY ClientReadsWhich
<1> HIDE DEF m
<1>5. newest \in 1 .. Tip /\ sends \in Nat /\ flushed \in Nat BY DEF Typed, TypeOK, Versions, Tip
<1>6. /\ newest' \in 1 .. Tip /\ tracker' \in [Files -> Tracker] /\ flushed' \in Nat
      /\ pc' \in [Waiters -> {"idle", "asked", "parked", "done", "failed"}]
  <2>0. /\ tracker \in [Files -> Tracker] /\ flushed \in Nat
        /\ pc \in [Waiters -> {"idle", "asked", "parked", "done", "failed"}]
        /\ snapshot \in [Waiters -> Nat] /\ open \subseteq Files
    BY DEF Typed, TypeOK
  <2>1. CASE m.kind = "push" /\ ReadPush(m) /\ m \in Pushes
    <3>1. m \in Pushes BY <2>1
    <3>2. newest' \in 1 .. Tip BY <1>3, <1>5, <2>1 DEF ReadPush, NewerOf
    <3>3. ASSUME NEW k \in Tracker PROVE Folded(k, m) \in Tracker
      <4> DEFINE c == [t \in Types |-> IF t \in DOMAIN m.entries THEN m.entries[t] ELSE k.cache[t]]
                 u == k.full \/ DOMAIN m.entries = Types
      <4>1. m.entries \in Slices /\ m.whole \in Pictures /\ m.text \in Nat /\ m.version \in Nat
        BY <3>1 DEF Pushes
      <4>2. PICK D \in SUBSET Types : m.entries \in [D -> Looks] BY <4>1 DEF Slices
      <4>3. c \in [Types -> Looks \cup {Blank}] BY <4>2 DEF Tracker
      <4>4. u \in BOOLEAN BY DEF Tracker
      <4>5. m.whole \in [Types -> Looks \cup {Blank}] BY <4>1, Looking
      <4>6. Folded(k, m) = [full |-> u, stamp |-> m.version, cache |-> c, whole |-> m.whole,
                            text |-> m.text]
        BY DEF Folded
      <4> HIDE DEF c, u
      <4> QED BY <4>1, <4>3, <4>4, <4>5, <4>6 DEF Tracker
    <3>4. tracker' = IF m.file \in open THEN [tracker EXCEPT ![m.file] = Folded(tracker[m.file], m)]
                     ELSE tracker
      BY <2>1 DEF ReadPush
    <3>5. tracker' \in [Files -> Tracker]
      <4> HIDE DEF Tracker
      <4>1. m.file \in Files BY <3>1 DEF Pushes
      <4>2. Folded(tracker[m.file], m) \in Tracker BY <4>1, <2>0, <3>3
      <4> QED BY <3>4, <4>1, <4>2, <2>0
    <3> QED BY <3>2, <3>5, <2>1, <2>0 DEF ReadPush
  <2>2. CASE m.kind = "flushed" /\ ReadFlushed(m) /\ m.waiter \in Waiters
    <3>1. m.waiter \in Waiters BY <2>2
    <3>2. CASE pc[m.waiter] = "asked"
      <4>1. /\ newest' = NewerOf(newest, m.version) /\ flushed' = Covered(m.waiter)
            /\ pc' = [pc EXCEPT ![m.waiter] = "parked"] /\ tracker' = tracker
        BY <2>2, <3>2 DEF ReadFlushed
      <4>2. newest' \in 1 .. Tip BY <4>1, <1>3, <1>5 DEF NewerOf
      <4>3. flushed' \in Nat BY <4>1, <3>1, <2>0 DEF Covered, MaxOf
      <4> QED BY <4>1, <4>2, <4>3, <2>0, <3>1
    <3>3. CASE pc[m.waiter] # "asked"
      <4>1. UNCHANGED <<tracker, newest, flushed, pc>> BY <2>2, <3>3 DEF ReadFlushed
      <4> QED BY <4>1, <2>0, <1>5
    <3> QED BY <3>2, <3>3
  <2> QED BY <1>r, <2>1, <2>2
<1>7. Queues' BY <1>2, <1>u DEF Queues, Typed
<1>8. Versions'
  <2>1. newest' <= Tip' BY <1>6, <1>4
  <2>2. \A i \in 1 .. Len(down') : down'[i].version \in 1 .. Tip' BY <1>3, <1>4
  <2> QED BY <2>1, <2>2, <1>4, <1>u DEF Typed, Versions
<1>9. TypeOK'
  <2>1. newest' \in Nat \ {0} BY <1>6, <1>4
  <2> HIDE DEF Tracker
  <2> QED BY <1>4, <1>6, <2>1, <1>u DEF TypeOK, Typed, models, prover
<1> QED BY <1>7, <1>8, <1>9 DEF Typed

\* The server reads.
LEMMA ServerReadsWhich ==
  ASSUME Typed, ServerReads
  PROVE  /\ up # <<>> /\ up' = Tail(up) /\ Head(up) \in UpMessages
         /\ \/ Head(up).kind = "text" /\ ReadText(Head(up)) /\ Head(up).file \in Files
            \/ Head(up).kind = "close" /\ ReadClose(Head(up)) /\ Head(up).file \in Files
            \/ Head(up).kind = "flush" /\ ReadFlush(Head(up)) /\ Head(up).waiter \in Waiters
<1> DEFINE m == Head(up)
<1>1. up # <<>> /\ up' = Tail(up) BY Zenon DEF ServerReads
<1>2. m \in UpMessages BY <1>1, Shifted DEF Typed, Queues
<1>3. \/ m.kind = "text" /\ m.file \in Files
      \/ m.kind = "close" /\ m.file \in Files
      \/ m.kind = "flush" /\ m.waiter \in Waiters
  BY <1>2 DEF UpMessages
<1>4. CASE m.kind = "text" BY <1>4, <1>1, <1>2, <1>3, Zenon DEF ServerReads
<1>5. CASE m.kind = "close"
  <2>1. ~(m.kind = "text") BY <1>5
  <2>2. ReadClose(m) BY <1>5, <2>1, Zenon DEF ServerReads
  <2> QED BY <2>2, <1>5, <1>1, <1>2, <1>3
<1>6. CASE m.kind = "flush"
  <2>1. ~(m.kind = "text") /\ ~(m.kind = "close") BY <1>6
  <2>2. ReadFlush(m) BY <1>6, <2>1, Zenon DEF ServerReads
  <2> QED BY <2>2, <1>6, <1>1, <1>2, <1>3
<1> QED BY <1>3, <1>4, <1>5, <1>6

LEMMA AbsorbTyped ==
  ASSUME Typed, NEW f \in Files, NEW t \in Nat, Absorb(f, t)
  PROVE  /\ model' \in [Files -> Nat] /\ pending' \subseteq Files /\ armed' = TRUE
         /\ model'[f] = t /\ \A g \in Files \ {f} : model'[g] = model[g]
         /\ pending \subseteq pending' /\ pending' \subseteq pending \cup {f}
         /\ f \notin pending' => model[f] = t
BY DEF Absorb, Typed, TypeOK

LEMMA ServerReadTyped == ASSUME Typed, ServerReads PROVE Typed'
<1> DEFINE m == Head(up)
<1>0. up # <<>> /\ up' = Tail(up)
      /\ (\/ m.kind = "text" /\ ReadText(m) /\ m.file \in Files
          \/ m.kind = "close" /\ ReadClose(m) /\ m.file \in Files
          \/ m.kind = "flush" /\ ReadFlush(m) /\ m.waiter \in Waiters)
  BY ServerReadsWhich
<1>m. m \in UpMessages BY ServerReadsWhich
<1>u. UNCHANGED <<disk, client, waits, down, prover, output>> BY Zenon DEF ServerReads
<1> HIDE DEF m
<1>1. Queues'
  <2>1. up' \in Seq(UpMessages) BY <1>0, Shifted DEF Typed, Queues
  <2> QED BY <2>1, <1>u DEF Queues, Typed
<1>2. Grown /\ Tip' = Tip BY SameHistory, <1>u DEF prover
<1>3. /\ model' \in [Files -> Nat] /\ pending' \subseteq Files /\ shown' \subseteq Files
      /\ base' \in [Files -> [picture : [Types -> Looks \cup {Blank}], version : Nat]]
      /\ armed' \in BOOLEAN
      /\ flushes' \in [Waiters -> [phase : {"none", "absorb", "await", "reply"}, version : Nat]]
      /\ \A w \in Waiters : flushes'[w].phase = "reply" => flushes'[w] = flushes[w]
  <2>0. /\ model \in [Files -> Nat] /\ pending \subseteq Files /\ shown \subseteq Files
        /\ base \in [Files -> [picture : [Types -> Looks \cup {Blank}], version : Nat]]
        /\ armed \in BOOLEAN /\ disk \in [Files -> Nat]
        /\ flushes \in [Waiters -> [phase : {"none", "absorb", "await", "reply"}, version : Nat]]
    BY DEF Typed, TypeOK
  <2>1. CASE m.kind = "text" /\ ReadText(m) /\ m.file \in Files
    <3>1. m.text \in Nat BY <1>m, <2>1 DEF UpMessages
    <3>2. Absorb(m.file, m.text) /\ shown' = shown \cup {m.file} /\ UNCHANGED <<base, flushes>>
      BY <2>1 DEF ReadText
    <3>3. model' \in [Files -> Nat] /\ pending' \subseteq Files /\ armed' = TRUE
      BY <3>1, <3>2, <2>1, AbsorbTyped
    <3> QED BY <3>2, <3>3, <2>0, <2>1
  <2>2. CASE m.kind = "close" /\ ReadClose(m) /\ m.file \in Files
    <3>1. disk[m.file] \in Nat BY <2>0, <2>2
    <3>2. /\ Absorb(m.file, disk[m.file]) /\ shown' = shown \ {m.file}
          /\ base' = [base EXCEPT ![m.file] = NoBase] /\ UNCHANGED flushes
      BY <2>2 DEF ReadClose
    <3>3. model' \in [Files -> Nat] /\ pending' \subseteq Files /\ armed' = TRUE
      BY <3>1, <3>2, <2>2, AbsorbTyped
    <3>4. NoBase \in [picture : [Types -> Looks \cup {Blank}], version : Nat]
      BY DEF NoBase, NoPicture
    <3> QED BY <3>2, <3>3, <3>4, <2>0, <2>2
  <2>3. CASE m.kind = "flush" /\ ReadFlush(m) /\ m.waiter \in Waiters
    <3>1. /\ flushes' = [flushes EXCEPT ![m.waiter] = [phase |-> "absorb", version |-> 0]]
          /\ UNCHANGED <<models, armed>>
      BY <2>3 DEF ReadFlush
    <3> QED BY <3>1, <2>0, <2>3 DEF models
  <2> QED BY <1>0, <2>1, <2>2, <2>3
<1>4. Versions' BY <1>2, <1>3, <1>u, VersionsGrow DEF client
<1>5. TypeOK' BY <1>2, <1>3, <1>u DEF TypeOK, Typed, client, waits, prover
<1> QED BY <1>1, <1>4, <1>5 DEF Typed

LEMMA ExternalTyped == ASSUME Typed, NEW f \in Files, ExternalRead(f) PROVE Typed'
<1>1. disk[f] \in Nat BY DEF Typed, TypeOK
<1>2. model' \in [Files -> Nat] /\ pending' \subseteq Files /\ armed' = TRUE
  BY <1>1, AbsorbTyped DEF ExternalRead
<1>u. UNCHANGED <<disk, client, waits, up, down, shown, base, prover, output, flushes>>
  BY Zenon DEF ExternalRead
<1>3. Grown /\ Tip' = Tip BY SameHistory, <1>u DEF prover
<1>4. Versions' BY <1>3, <1>u, VersionsGrow DEF client
<1>5. TypeOK' BY <1>2, <1>3, <1>u DEF TypeOK, Typed, client, waits, prover
<1> QED BY <1>4, <1>5, <1>u DEF Typed, Queues

\* Input, and the threads of the flushes.
LEMMA InputTyped ==
  ASSUME Typed, InputFlushed \/ Assigned \/ Consolidates \/ OutputSignalled
  PROVE  Typed' /\ Grown
<1>0. Tip \in Nat /\ history \in Seq([Files -> Nat]) /\ stable \in 1 .. Tip /\ Tip = Len(history)
  BY DEF Typed, TypeOK, Tip
<1>1. CASE InputFlushed
  <2>1. PICK moved \in Moves : FlushInput(moved) BY <1>1, Zenon DEF InputFlushed
  <2>2. moved \in BOOLEAN BY <2>1 DEF Moves
  <2>3. Grown /\ pending' = {} /\ serial' \in Nat BY <2>1, <2>2, InputGiven
  <2>u. UNCHANGED <<disk, client, waits, up, down, model, shown, base, stable, armed, output, flushes>>
    BY <1>1, Zenon DEF InputFlushed
  <2>4. Versions' /\ stable \in 1 .. Tip' BY <2>3, <2>u, VersionsGrow DEF client
  <2>5. TypeOK' BY <2>3, <2>4, <2>u DEF TypeOK, Typed, client, waits, Grown
  <2> QED BY <2>3, <2>4, <2>5, <2>u DEF Typed, Queues
<1>2. CASE Assigned
  <2>u. UNCHANGED <<disk, client, waits, up, down, models, history, serial, output, flushes>>
        /\ stable' \in 1 .. Tip /\ armed' \in BOOLEAN
    BY <1>2, <1>0 DEF Assigned
  <2>1. Grown /\ Tip' = Tip BY SameHistory, <2>u
  <2>2. Versions' BY <2>1, <2>u, VersionsGrow DEF client
  <2>3. TypeOK' BY <2>1, <2>u DEF TypeOK, Typed, client, waits, models
  <2> QED BY <2>1, <2>2, <2>3, <2>u DEF Typed, Queues
<1>3. CASE Consolidates
  <2>u. UNCHANGED <<disk, client, waits, up, down, models, stable, serial, armed, output, flushes>>
        /\ history' = Append(history, history[Tip])
    BY <1>3, Zenon DEF Consolidates
  <2>1. history[Tip] \in [Files -> Nat] BY <1>0
  <2>2. Grown BY <2>1, <2>u, <1>0, Appended DEF Grown, Tip
  <2>3. Versions' /\ stable \in 1 .. Tip' BY <2>2, <2>u, VersionsGrow DEF client
  <2>4. TypeOK' BY <2>2, <2>3, <2>u DEF TypeOK, Typed, client, waits, models, Grown
  <2> QED BY <2>2, <2>3, <2>4, <2>u DEF Typed, Queues
<1>4. CASE OutputSignalled
  <2>u. UNCHANGED <<disk, client, waits, up, down, models, prover, output, flushes>>
        /\ armed' = TRUE
    BY <1>4, Zenon DEF OutputSignalled
  <2>1. Grown /\ Tip' = Tip BY SameHistory, <2>u DEF prover
  <2>2. Versions' BY <2>1, <2>u, VersionsGrow DEF client
  <2>3. TypeOK' BY <2>1, <2>u DEF TypeOK, Typed, client, waits, models, prover
  <2> QED BY <2>1, <2>2, <2>3, <2>u DEF Typed, Queues
<1> QED BY <1>1, <1>2, <1>3, <1>4

LEMMA FlushTyped ==
  ASSUME Typed, NEW w \in Waiters, FlushAbsorbs(w) \/ FlushAwaits(w) \/ FlushReplies(w)
  PROVE  Typed' /\ Grown
<1>0. /\ Tip \in Nat /\ stable \in 1 .. Tip
      /\ flushes \in [Waiters -> [phase : {"none", "absorb", "await", "reply"}, version : Nat]]
  BY DEF Typed, TypeOK, Tip
<1>1. CASE FlushAbsorbs(w)
  <2>1. PICK moved \in Moves : FlushInput(moved) BY <1>1, Zenon DEF FlushAbsorbs
  <2>2. moved \in BOOLEAN BY <2>1 DEF Moves
  <2>3. Grown /\ pending' = {} /\ serial' \in Nat BY <2>1, <2>2, InputGiven
  <2>u. UNCHANGED <<disk, client, waits, up, down, model, shown, base, stable, armed, output>>
        /\ flushes' = [flushes EXCEPT ![w] = [phase |-> "await", version |-> 0]]
    BY <1>1, Zenon DEF FlushAbsorbs, Phase
  <2>4. flushes' \in [Waiters -> [phase : {"none", "absorb", "await", "reply"}, version : Nat]]
        /\ \A v \in Waiters : flushes'[v].phase = "reply" => flushes'[v] = flushes[v]
    BY <1>0, <2>u
  <2>5. Versions' /\ stable \in 1 .. Tip' BY <2>3, <2>4, <2>u, VersionsGrow DEF client
  <2>6. TypeOK' BY <2>3, <2>4, <2>5, <2>u DEF TypeOK, Typed, client, waits, Grown
  <2> QED BY <2>3, <2>5, <2>6, <2>u DEF Typed, Queues
<1>2. CASE FlushAwaits(w)
  <2>u. UNCHANGED <<disk, client, waits, up, down, models, prover, armed, output>>
        /\ flushes' = [flushes EXCEPT ![w] = [phase |-> "reply", version |-> stable]]
    BY <1>2, Zenon DEF FlushAwaits, Phase
  <2>1. Grown /\ Tip' = Tip BY SameHistory, <2>u DEF prover
  <2>2. flushes' \in [Waiters -> [phase : {"none", "absorb", "await", "reply"}, version : Nat]]
        /\ \A v \in Waiters : flushes'[v].phase = "reply" =>
             flushes'[v] = flushes[v] \/ flushes'[v].version \in 1 .. Tip'
    BY <1>0, <2>1, <2>u
  <2>3. Versions' BY <2>1, <2>2, <2>u, VersionsGrow DEF client
  <2>4. TypeOK' BY <2>1, <2>2, <2>u DEF TypeOK, Typed, client, waits, models, prover
  <2> QED BY <2>1, <2>3, <2>4, <2>u DEF Typed, Queues
<1>3. CASE FlushReplies(w)
  <2> DEFINE m == [kind |-> "flushed", waiter |-> w, version |-> flushes[w].version]
  <2>u. UNCHANGED <<disk, client, waits, up, models, prover, armed, output>>
        /\ flushes' = [flushes EXCEPT ![w] = [phase |-> "none", version |-> 0]]
        /\ down' = Append(down, m) /\ flushes[w].phase = "reply"
    BY <1>3, Zenon DEF FlushReplies, Phase
  <2>1. Grown /\ Tip' = Tip BY SameHistory, <2>u DEF prover
  <2>2. flushes' \in [Waiters -> [phase : {"none", "absorb", "await", "reply"}, version : Nat]]
        /\ \A v \in Waiters : flushes'[v].phase = "reply" => flushes'[v] = flushes[v]
    BY <1>0, <2>1, <2>u
  <2>3. m \in DownMessages /\ m.version \in 1 .. Tip
    BY <1>0, <2>u DEF DownMessages, Typed, Versions
  <2> HIDE DEF m
  <2>4. down' \in Seq(DownMessages) /\ \A i \in 1 .. Len(down') : down'[i].version \in 1 .. Tip
    <3>1. down \in Seq(DownMessages) /\ \A i \in 1 .. Len(down) : down[i].version \in 1 .. Tip
      BY DEF Typed, Queues, Versions
    <3>2. /\ down' \in Seq(DownMessages) /\ Len(down') = Len(down) + 1
          /\ \A i \in 1 .. Len(down) : down'[i] = down[i]
          /\ down'[Len(down) + 1] = m
      BY <3>1, <2>3, <2>u, Appended
    <3> QED BY <3>1, <3>2, <2>3
  <2>5. Versions'
    <3>1. newest' <= Tip' BY <2>1, <2>u DEF Typed, Versions, client
    <3>2. \A i \in 1 .. Len(down') : down'[i].version \in 1 .. Tip' BY <2>4, <2>1
    <3>3. \A v \in Waiters : flushes'[v].phase = "reply" => flushes'[v].version \in 1 .. Tip'
      BY <2>1, <2>2 DEF Typed, Versions
    <3>4. output'.phase = "state" => output'.tip \in 1 .. Tip' /\ output'.stable \in 1 .. Tip'
      BY <2>1, <2>u DEF Typed, Versions
    <3> QED BY <3>1, <3>2, <3>3, <3>4 DEF Versions
  <2>6. TypeOK' BY <2>1, <2>2, <2>u DEF TypeOK, Typed, client, waits, models, prover
  <2> QED BY <2>1, <2>4, <2>5, <2>6, <2>u DEF Typed, Queues
<1> QED BY <1>1, <1>2, <1>3

\* Output.
LEMMA OutputTyped ==
  ASSUME Typed, OutputStarts \/ OutputReads \/ OutputFlushed PROVE Typed'
<1>0. /\ Tip \in Nat /\ stable \in 1 .. Tip /\ serial \in Nat
      /\ output \in [phase : {"none", "serial", "state"}, serial : Nat, tip : Nat, stable : Nat]
  BY DEF Typed, TypeOK, Tip
<1>1. CASE OutputStarts \/ OutputReads
  <2>u. UNCHANGED <<disk, client, waits, up, down, models, prover, flushes>> /\ armed' \in BOOLEAN
    <3>1. CASE OutputStarts BY <3>1 DEF OutputStarts
    <3>2. CASE OutputReads BY <3>2 DEF OutputReads, Typed, TypeOK
    <3> QED BY <1>1, <3>1, <3>2
  <2>1. Grown /\ Tip' = Tip BY SameHistory, <2>u DEF prover
  <2>2. /\ output' \in [phase : {"none", "serial", "state"}, serial : Nat, tip : Nat, stable : Nat]
        /\ output'.phase = "state" => output'.tip \in 1 .. Tip /\ output'.stable \in 1 .. Tip
    <3>1. CASE OutputStarts BY <3>1, <1>0 DEF OutputStarts, NoOutput
    <3>2. CASE OutputReads
      <4>1. output' = [output EXCEPT !.phase = "state", !.tip = Tip, !.stable = stable]
        BY <3>2, Zenon DEF OutputReads
      <4>2. output' = [phase |-> "state", serial |-> output.serial, tip |-> Tip, stable |-> stable]
        BY <4>1, <1>0
      <4>3. Tip \in 1 .. Tip BY <1>0
      <4> QED BY <4>2, <4>3, <1>0
    <3> QED BY <1>1, <3>1, <3>2
  <2>3. Versions' BY <2>1, <2>2, <2>u DEF Typed, Versions, client
  <2>4. TypeOK' BY <2>1, <2>2, <2>u DEF TypeOK, Typed, client, waits, models, prover
  <2> QED BY <2>3, <2>4, <2>u DEF Typed, Queues
<1>2. CASE OutputFlushed
  <2>u. UNCHANGED <<disk, client, waits, up, model, shown, pending, prover, flushes>>
        /\ output' = NoOutput /\ output.phase = "state"
    BY <1>2, Zenon DEF OutputFlushed
  <2>1. Grown /\ Tip' = Tip BY SameHistory, <2>u DEF prover
  <2>2. output' \in [phase : {"none", "serial", "state"}, serial : Nat, tip : Nat, stable : Nat]
        /\ output'.phase = "none"
    BY <2>u DEF NoOutput
  <2>3. /\ down' \in Seq(DownMessages) /\ \A i \in 1 .. Len(down') : down'[i].version \in 1 .. Tip
        /\ base' \in [Files -> [picture : [Types -> Looks \cup {Blank}], version : Nat]]
        /\ armed' \in BOOLEAN
    <3>0. /\ down \in Seq(DownMessages) /\ \A i \in 1 .. Len(down) : down[i].version \in 1 .. Tip
          /\ base \in [Files -> [picture : [Types -> Looks \cup {Blank}], version : Nat]]
          /\ output.stable \in 1 .. Tip
      BY <2>u DEF Typed, TypeOK, Queues, Versions
    <3>1. CASE ~MayPublish
      <4>1. UNCHANGED <<down, base>> /\ armed' = TRUE BY <1>2, <3>1, Zenon DEF OutputFlushed
      <4> QED BY <4>1, <3>0
    <3>2. CASE MayPublish
      <4>1. PICK look, pushes : Published(look, pushes) /\ armed' \in BOOLEAN
        BY <1>2, <3>2, OutputPublishes
      <4>2. pushes \in Seq(Pushes) /\ down' = down \o pushes BY <4>1 DEF Published
      <4>3. pushes \in Seq(DownMessages) BY <4>2 DEF DownMessages
      <4>4. \A i \in 1 .. Len(pushes) : pushes[i].version = output.stable
        <5> TAKE i \in 1 .. Len(pushes)
        <5>1. PICK f \in DOMAIN look : \E e \in Entries(f, look[f]) : pushes[i] = Push(f, look[f], e)
          BY <4>1, Zenon DEF Published
        <5>2. PICK e \in Entries(f, look[f]) : pushes[i] = Push(f, look[f], e) BY <5>1
        <5> QED BY <5>2 DEF Push
      <4>5. /\ down' \in Seq(DownMessages) /\ Len(down') = Len(down) + Len(pushes)
            /\ \A i \in 1 .. Len(down) : down'[i] = down[i]
            /\ \A i \in Len(down) + 1 .. Len(down) + Len(pushes) : down'[i] = pushes[i - Len(down)]
        BY <4>2, <4>3, <3>0, Joined
      <4>6. \A i \in 1 .. Len(down') : down'[i].version \in 1 .. Tip
        <5> TAKE i \in 1 .. Len(down')
        <5>0. Len(down) \in Nat /\ Len(pushes) \in Nat BY <3>0, <4>3
        <5>1. CASE i <= Len(down) BY <5>1, <5>0, <4>5, <3>0
        <5>2. CASE i > Len(down)
          <6>1. i - Len(down) \in 1 .. Len(pushes) BY <5>2, <5>0, <4>5
          <6>2. down'[i] = pushes[i - Len(down)] BY <5>2, <5>0, <4>5
          <6> QED BY <6>1, <6>2, <4>4, <3>0
        <5> QED BY <5>1, <5>2, <5>0
      <4>7. base' \in [Files -> [picture : [Types -> Looks \cup {Blank}], version : Nat]]
        <5>1. \A f \in DOMAIN look : look[f] \in Pictures BY <4>1 DEF Published
        <5>2. \A f \in DOMAIN look : look[f] \in [Types -> Looks \cup {Blank}] BY <5>1, Looking
        <5>3. output.stable \in Nat BY <3>0
        <5>4. base' = [f \in Files |->
                 IF f \in DOMAIN look THEN [picture |-> look[f], version |-> output.stable]
                 ELSE base[f]]
          BY <4>1 DEF Published
        <5> QED BY <5>2, <5>3, <5>4, <3>0
      <4> QED BY <4>1, <4>5, <4>6, <4>7
    <3> QED BY <3>1, <3>2
  <2>4. Versions'
    <3>1. newest' <= Tip' BY <2>1, <2>u DEF Typed, Versions, client
    <3>2. \A i \in 1 .. Len(down') : down'[i].version \in 1 .. Tip' BY <2>3, <2>1
    <3> QED BY <3>1, <3>2, <2>1, <2>2, <2>u DEF Typed, Versions
  <2>5. TypeOK' BY <2>1, <2>2, <2>3, <2>u DEF TypeOK, Typed, client, waits, prover
  <2> QED BY <2>3, <2>4, <2>5, <2>u DEF Typed, Queues
<1> QED BY <1>1, <1>2

LEMMA DiskTyped == ASSUME Typed, NEW f \in Files, DiskEdited(f) PROVE Typed'
<1>u. UNCHANGED <<client, waits, up, down, models, prover, armed, output, flushes>>
      /\ disk' \in [Files -> Nat]
  BY DEF DiskEdited, Typed, TypeOK
<1>1. Grown /\ Tip' = Tip BY SameHistory, <1>u DEF prover
<1>2. Versions' BY <1>1, <1>u, VersionsGrow DEF client
<1>3. TypeOK' BY <1>1, <1>u DEF TypeOK, Typed, client, waits, models, prover
<1> QED BY <1>2, <1>3, <1>u DEF Typed, Queues

LEMMA TypedStep == ASSUME Typed, [Next]_vars PROVE Typed'
<1>1. CASE ServerStep
  BY <1>1, ServerReadTyped, InputTyped, OutputTyped, FlushTyped DEF ServerStep
<1>2. CASE Consolidates \/ OutputSignalled \/ ClientReads BY <1>2, InputTyped, ReadTyped
<1>3. ASSUME NEW f \in Files, DiskEdited(f) \/ Open(f) \/ Change(f) \/ Close(f) \/ CloseStalls(f)
                              \/ ExternalRead(f)
      PROVE Typed'
  <2>1. CASE Open(f) \/ Change(f)
    <3>1. PICK t \in Nat : SendText(f, t) BY <2>1, TextsTyped
    <3> QED BY <2>1, <3>1, TextsTyped, WriteTyped
  <2> QED BY <1>3, <2>1, DiskTyped, CloseTyped, ExternalTyped
<1>4. ASSUME NEW w \in Waiters, WaitStep(w) \/ WaitFails(w) PROVE Typed' BY <1>4, WaitTyped
<1>5. CASE UNCHANGED vars
  <2>1. Tip' = Tip BY <1>5 DEF vars, prover, Tip
  <2>2. TypeOK' BY <1>5, <2>1 DEF TypeOK, Typed, vars, client, waits, models, prover
  <2>3. Queues' BY <1>5 DEF Queues, Typed, vars, client, waits, models, prover
  <2>4. Versions' BY <1>5, <2>1 DEF Versions, Typed, vars, client, waits, models, prover
  <2> QED BY <2>2, <2>3, <2>4 DEF Typed
<1> QED BY <1>1, <1>2, <1>3, <1>4, <1>5, Zenon DEF Next

-----------------------------------------------------------------------------
(* The parts of the invariant about the texts on their way.                *)

Words      == [kind : {"text"}, file : Files, text : Nat]
Word(f, t) == [kind |-> "text", file |-> f, text |-> t]
Naming(f)  == [kind : {"text"}, file : {f}, text : Nat] \cup [kind : {"close"}, file : {f}]
Asking(w)  == {[kind |-> "flush", waiter |-> w]}
Answers(w) == [kind : {"flushed"}, waiter : {w}, version : Nat]

NoText == Places(up, Words) = {}

\* A file without pending edits is in the newest version as its model has it.
Synced == \A f \in Files : f \notin pending => history[Tip][f] = model[f]

Counters ==
  /\ flushed <= sends
  /\ \A w \in Waiters : /\ snapshot[w] <= sends
                        /\ pc[w] = "parked" => snapshot[w] <= flushed

\* The server holds what the client wrote for an open file, or will: of the
\* messages on their way the last that names it is its text.
Settled(f) == f \in shown /\ model[f] = text[f] /\ Places(up, Naming(f)) = {}
Sent(f) == \E i \in Places(up, {Word(f, text[f])}) : \A j \in Places(up, Naming(f)) : j <= i
Tracked == \A f \in open : Settled(f) \/ Sent(f)

\* A waiter has at most one flush out: asked, worked on or answered.
Quiet(w) == /\ Places(up, Asking(w)) = {} /\ Places(down, Answers(w)) = {}
            /\ flushes[w].phase = "none"

OneFlush ==
  \A w \in Waiters :
    /\ \A i, j \in Places(up, Asking(w)) : i = j
    /\ \A i, j \in Places(down, Answers(w)) : i = j
    /\ Places(up, Asking(w)) # {} => Places(down, Answers(w)) = {} /\ flushes[w].phase = "none"
    /\ Places(down, Answers(w)) # {} => flushes[w].phase = "none"
    /\ pc[w] \in {"idle", "parked", "done"} => Quiet(w)

-----------------------------------------------------------------------------
(* What a step can do to the models, and to the texts on their way.        *)

LEMMA ModelSteps ==
  ASSUME Typed, [Next]_vars
  PROVE  \/ UNCHANGED <<history, serial, model, pending, shown>>
         \/ ServerReads
         \/ \E f \in Files : ExternalRead(f)
         \/ /\ \E moved \in BOOLEAN : FlushInput(moved)
            /\ UNCHANGED <<model, shown, up, open, text, sends>>
         \/ Consolidates
<1>1. CASE ServerStep
  <2>1. CASE InputFlushed BY <2>1 DEF InputFlushed, Moves, client
  <2>2. CASE \E w \in Waiters : FlushAbsorbs(w) BY <2>2 DEF FlushAbsorbs, Moves, client
  <2>3. CASE \E w \in Waiters : FlushAwaits(w) \/ FlushReplies(w)
    BY <2>3 DEF FlushAwaits, FlushReplies, models, prover
  <2>4. CASE Assigned \/ OutputStarts \/ OutputReads
    BY <2>4 DEF Assigned, OutputStarts, OutputReads, models, prover
  <2>5. CASE OutputFlushed
    <3>1. UNCHANGED <<model, shown, pending, prover>> BY <2>5, Zenon DEF OutputFlushed
    <3> QED BY <3>1 DEF prover
  <2> QED BY <1>1, <2>1, <2>2, <2>3, <2>4, <2>5, Zenon DEF ServerStep
<1>2. CASE OutputSignalled BY <1>2 DEF OutputSignalled, models, prover
<1>3. CASE ClientReads
  <2>1. UNCHANGED <<models, prover>> BY <1>3, Zenon DEF ClientReads
  <2> QED BY <2>1 DEF models, prover
<1>4. ASSUME NEW f \in Files, DiskEdited(f) \/ Open(f) \/ Change(f) \/ Close(f) \/ CloseStalls(f)
      PROVE UNCHANGED <<history, serial, model, pending, shown>>
  <2>1. UNCHANGED <<models, prover>>
    BY <1>4, Zenon DEF DiskEdited, Open, Change, SendText, Close, CloseStalls
  <2> QED BY <2>1 DEF models, prover
<1>5. ASSUME NEW w \in Waiters, WaitStep(w) \/ WaitFails(w)
      PROVE UNCHANGED <<history, serial, model, pending, shown>>
  <2>1. UNCHANGED <<models, prover>>
    BY <1>5, Zenon DEF WaitStep, WaitStarts, WaitRearms, WaitReturns, WaitFails
  <2> QED BY <2>1 DEF models, prover
<1>6. CASE UNCHANGED vars BY <1>6 DEF vars, models, prover
<1> QED BY <1>1, <1>2, <1>3, <1>4, <1>5, <1>6, Zenon DEF Next

LEMMA UpSteps ==
  ASSUME Typed, [Next]_vars
  PROVE  \/ UNCHANGED <<up, open, text, sends>>
         \/ ServerReads
         \/ \E f \in Files : Open(f) \/ Change(f) \/ Close(f) \/ CloseStalls(f)
         \/ \E w \in Waiters : /\ WaitStep(w) /\ Ask(w)
                                /\ UNCHANGED <<client, down, models, prover, flushes>>
<1>1. CASE ServerStep
  <2>1. CASE InputFlushed \/ Assigned \/ OutputStarts \/ OutputReads \/ OutputFlushed
    <3>1. UNCHANGED <<client, up>>
      BY <2>1, Zenon DEF InputFlushed, Assigned, OutputStarts, OutputReads, OutputFlushed
    <3> QED BY <3>1 DEF client
  <2>2. CASE \E w \in Waiters : FlushAbsorbs(w) \/ FlushAwaits(w) \/ FlushReplies(w)
    <3>1. UNCHANGED <<client, up>> BY <2>2, Zenon DEF FlushAbsorbs, FlushAwaits, FlushReplies
    <3> QED BY <3>1 DEF client
  <2> QED BY <1>1, <2>1, <2>2, Zenon DEF ServerStep
<1>2. CASE OutputSignalled \/ Consolidates
  BY <1>2 DEF OutputSignalled, Consolidates, client
<1>3. CASE ClientReads
  <2>1. UNCHANGED <<up, open, text, sends>> BY <1>3, Zenon DEF ClientReads
  <2> QED BY <2>1
<1>4. ASSUME NEW f \in Files, DiskEdited(f) \/ ExternalRead(f)
      PROVE UNCHANGED <<up, open, text, sends>>
  <2>1. UNCHANGED <<client, up>> BY <1>4, Zenon DEF DiskEdited, ExternalRead
  <2> QED BY <2>1 DEF client
<1>5. ASSUME NEW w \in Waiters, WaitStep(w) \/ WaitFails(w)
      PROVE UNCHANGED <<up, open, text, sends>>
            \/ (WaitStep(w) /\ Ask(w) /\ UNCHANGED <<client, down, models, prover, flushes>>)
  <2>1. CASE WaitStarts(w) \/ WaitRearms(w) BY <2>1, Zenon DEF WaitStep, WaitStarts, WaitRearms
  <2>2. CASE WaitReturns(w) \/ WaitFails(w)
    <3>1. UNCHANGED <<client, up>> BY <2>2, Zenon DEF WaitReturns, WaitFails
    <3> QED BY <3>1 DEF client
  <2> QED BY <1>5, <2>1, <2>2, Zenon DEF WaitStep
<1>6. CASE UNCHANGED vars BY <1>6 DEF vars, client
<1> QED BY <1>1, <1>2, <1>3, <1>4, <1>5, <1>6, Zenon DEF Next

-----------------------------------------------------------------------------
(* The models and the newest version.                                      *)

LEMMA SyncedStep == ASSUME Typed, Typed', Synced, [Next]_vars PROVE Synced'
<1>0. /\ Tip \in Nat \ {0} /\ history \in Seq([Files -> Nat]) /\ Tip = Len(history)
      /\ Tip' = Len(history')
  BY DEF Typed, TypeOK, Tip
<1>1. CASE UNCHANGED <<history, serial, model, pending, shown>> BY <1>1 DEF Synced, Tip
<1>2. ASSUME NEW f \in Files, NEW t \in Nat, Absorb(f, t), UNCHANGED history PROVE Synced'
  <2>1. /\ model'[f] = t /\ \A g \in Files \ {f} : model'[g] = model[g]
        /\ pending \subseteq pending' /\ (f \notin pending' => model[f] = t)
    BY <1>2, AbsorbTyped
  <2> QED BY <2>1, <1>2 DEF Synced, Tip
<1>3. CASE ServerReads
  <2> DEFINE m == Head(up)
  <2>0. /\ m \in UpMessages
        /\ (\/ m.kind = "text" /\ ReadText(m) /\ m.file \in Files
            \/ m.kind = "close" /\ ReadClose(m) /\ m.file \in Files
            \/ m.kind = "flush" /\ ReadFlush(m) /\ m.waiter \in Waiters)
    BY <1>3, ServerReadsWhich
  <2>u. UNCHANGED prover BY <1>3, Zenon DEF ServerReads
  <2> HIDE DEF m
  <2>1. CASE m.kind = "text" /\ ReadText(m) /\ m.file \in Files
    BY <2>0, <2>1, <2>u, <1>2 DEF ReadText, UpMessages, prover
  <2>2. CASE m.kind = "close" /\ ReadClose(m) /\ m.file \in Files
    <3>1. disk[m.file] \in Nat BY <2>2 DEF Typed, TypeOK
    <3> QED BY <3>1, <2>2, <2>u, <1>2 DEF ReadClose, prover
  <2>3. CASE m.kind = "flush" /\ ReadFlush(m) /\ m.waiter \in Waiters
    BY <2>3, <2>u, <1>1 DEF ReadFlush, prover, models
  <2> QED BY <2>0, <2>1, <2>2, <2>3
<1>4. ASSUME NEW f \in Files, ExternalRead(f) PROVE Synced'
  <2>1. disk[f] \in Nat BY DEF Typed, TypeOK
  <2> QED BY <1>4, <2>1, <1>2 DEF ExternalRead, prover
<1>5. ASSUME NEW moved \in BOOLEAN, FlushInput(moved), UNCHANGED model PROVE Synced'
  <2>1. CASE UNCHANGED <<history, serial>> /\ pending = {} BY <2>1, <1>5 DEF Synced, Tip
  <2>2. CASE history'[Tip'] = [f \in Files |-> IF f \in pending THEN model[f] ELSE history[Tip][f]]
    BY <2>2, <1>5 DEF Synced
  <2> QED BY <1>5, <2>1, <2>2, InputGiven
<1>6. CASE Consolidates
  <2>1. /\ UNCHANGED models /\ history' = Append(history, history[Tip])
    BY <1>6, Zenon DEF Consolidates
  <2>2. history'[Tip'] = history[Tip] BY <2>1, <1>0
  <2> QED BY <2>1, <2>2 DEF Synced, models
<1> QED BY <1>1, <1>3, <1>4, <1>5, <1>6, ModelSteps, Zenon

-----------------------------------------------------------------------------
(* The texts on their way.                                                 *)

LEMMA TrackedAppends ==
  ASSUME Typed, Tracked, NEW m \in UpMessages, up' = Append(up, m), NEW g \in open,
         UNCHANGED <<model, shown>>, text'[g] = text[g], m \notin Naming(g), g \in Files
  PROVE  Settled(g)' \/ Sent(g)'
<1>1. Places(up', Naming(g)) = Places(up, Naming(g))
  BY PlacesAppended DEF Typed, Queues
<1>2. CASE Settled(g) BY <1>1, <1>2 DEF Settled
<1>3. ASSUME NEW i \in Places(up, {Word(g, text[g])}), \A j \in Places(up, Naming(g)) : j <= i
      PROVE Sent(g)'
  <2>1. Word(g, text[g]) \in Naming(g) BY DEF Word, Naming, Typed, TypeOK
  <2>2. m \notin {Word(g, text[g])} BY <2>1
  <2>3. Places(up', {Word(g, text'[g])}) = Places(up, {Word(g, text[g])})
    BY <2>2, PlacesAppended DEF Typed, Queues
  <2> QED BY <1>1, <1>3, <2>3 DEF Sent
<1> QED BY <1>2, <1>3 DEF Tracked, Sent

LEMMA TrackedStep == ASSUME Typed, Typed', Tracked, [Next]_vars PROVE Tracked'
<1>0. open \subseteq Files /\ up \in Seq(UpMessages) /\ text \in [Files -> Nat]
  BY DEF Typed, TypeOK, Queues
<1>1. CASE UNCHANGED <<up, open, text, sends>>
  <2>1. ASSUME UNCHANGED <<model, shown>> PROVE Tracked'
    BY <2>1, <1>1 DEF Tracked, Settled, Sent
  <2>2. ASSUME NEW f \in Files, ExternalRead(f) PROVE Tracked'
    <3>1. /\ f \notin shown /\ shown' = shown /\ disk[f] \in Nat /\ Absorb(f, disk[f])
      BY <2>2 DEF ExternalRead, Typed, TypeOK
    <3>2. \A g \in Files \ {f} : model'[g] = model[g] BY <3>1, AbsorbTyped
    <3>3. \A g \in open : Settled(g) => Settled(g)' BY <3>1, <3>2, <1>0, <1>1 DEF Settled
    <3>4. \A g \in open : Sent(g) => Sent(g)' BY <1>1 DEF Sent
    <3> QED BY <3>3, <3>4, <1>1 DEF Tracked
  <2>3. CASE ServerReads
    <3>1. up # <<>> /\ up' = Tail(up) BY <2>3, ServerReadsWhich
    <3>2. Len(Tail(up)) = Len(up) - 1 /\ Len(up) \in Nat BY <1>0, <3>1, Shifted
    <3> QED BY <3>1, <3>2, <1>1
  <2>4. CASE Consolidates BY <2>4, <2>1 DEF Consolidates, models
  <2> QED BY <2>1, <2>2, <2>3, <2>4, ModelSteps
<1>2. CASE ServerReads
  <2> DEFINE m == Head(up)
  <2>0. /\ m \in UpMessages /\ up # <<>> /\ up' = Tail(up)
        /\ (\/ m.kind = "text" /\ ReadText(m) /\ m.file \in Files
            \/ m.kind = "close" /\ ReadClose(m) /\ m.file \in Files
            \/ m.kind = "flush" /\ ReadFlush(m) /\ m.waiter \in Waiters)
    BY <1>2, ServerReadsWhich
  <2>u. UNCHANGED <<open, text>>
    <3>1. UNCHANGED client BY <1>2, Zenon DEF ServerReads
    <3> QED BY <3>1 DEF client
  <2>m. m.kind = "text" => m.text \in Nat BY <2>0 DEF UpMessages
  <2> HIDE DEF m
  <2>1. \A g \in Files : m \notin Naming(g) =>
          /\ model'[g] = model[g]
          /\ g \in shown => g \in shown'
    <3>1. CASE m.kind = "text" /\ ReadText(m) /\ m.file \in Files
      <4>1. \A g \in Files \ {m.file} : model'[g] = model[g]
        BY <3>1, <2>m, AbsorbTyped DEF ReadText
      <4>2. m \in Naming(m.file)
        <5>1. m \in [kind : {"text"}, file : Files, text : Nat] BY <2>0, <3>1 DEF UpMessages
        <5> QED BY <5>1 DEF Naming
      <4> QED BY <4>1, <4>2, <3>1 DEF ReadText
    <3>2. CASE m.kind = "close" /\ ReadClose(m) /\ m.file \in Files
      <4>0. disk[m.file] \in Nat BY <3>2 DEF Typed, TypeOK
      <4>1. \A g \in Files \ {m.file} : model'[g] = model[g]
        BY <3>2, <4>0, AbsorbTyped DEF ReadClose
      <4>2. m \in Naming(m.file)
        <5>1. m \in [kind : {"close"}, file : Files] BY <2>0, <3>2 DEF UpMessages
        <5> QED BY <5>1 DEF Naming
      <4> QED BY <4>1, <4>2, <3>2 DEF ReadClose
    <3>3. CASE m.kind = "flush" /\ ReadFlush(m) /\ m.waiter \in Waiters
      BY <3>3 DEF ReadFlush, models
    <3> QED BY <2>0, <3>1, <3>2, <3>3
  <2>2. ASSUME NEW g \in open, Settled(g) PROVE Settled(g)'
    <3>1. m \notin Naming(g) BY <2>0, <2>2, <1>0, PlacesTail DEF Settled, m
    <3>2. Places(up', Naming(g)) = {} BY <2>0, <2>2, <1>0, PlacesTail DEF Settled
    <3> QED BY <3>1, <3>2, <2>1, <2>2, <2>u, <1>0 DEF Settled
  <2>3. ASSUME NEW g \in open, NEW i \in Places(up, {Word(g, text[g])}),
               \A j \in Places(up, Naming(g)) : j <= i
        PROVE Settled(g)' \/ Sent(g)'
    <3>1. Places(up, Naming(g)) \subseteq 1 .. Len(up) /\ i \in 1 .. Len(up) /\ Len(up) \in Nat
          /\ \A j \in Places(Tail(up), Naming(g)) : j + 1 \in Places(up, Naming(g)) /\ j \in Nat
      BY <2>0, <1>0, PlacesTail DEF Places
    <3>2. CASE i = 1
      <4>1. m = Word(g, text[g]) BY <3>2, <2>3, <2>0, <1>0, PlacesTail DEF m
      <4>2. m.kind = "text" /\ m.file = g /\ m.text = text[g] BY <4>1 DEF Word
      <4>3. ReadText(m) BY <4>2, <2>0
      <4>4. model'[g] = text[g] /\ g \in shown'
        BY <4>2, <4>3, <2>m, <2>0, AbsorbTyped DEF ReadText
      <4>5. Places(up', Naming(g)) = {}
        <5>1. \A j \in Places(Tail(up), Naming(g)) : j + 1 <= 1 /\ j \in 1 .. Len(Tail(up))
          BY <3>1, <3>2, <2>3 DEF Places
        <5> QED BY <5>1, <2>0
      <4> QED BY <4>4, <4>5, <2>u DEF Settled
    <3>3. CASE i # 1
      <4>1. i - 1 \in Places(up', {Word(g, text[g])}) BY <3>3, <2>3, <2>0, <1>0, PlacesTail
      <4>2. \A j \in Places(up', Naming(g)) : j <= i - 1 BY <3>1, <2>0, <2>3
      <4> QED BY <4>1, <4>2, <2>u DEF Sent
    <3> QED BY <3>2, <3>3
  <2> QED BY <2>2, <2>3, <2>u DEF Tracked, Sent
<1>3. ASSUME NEW f \in Files, Open(f) \/ Change(f) PROVE Tracked'
  <2>1. PICK t \in Nat : SendText(f, t) BY <1>3, TextsTyped
  <2>2. /\ up' = Append(up, Word(f, t)) /\ UNCHANGED <<model, shown>>
        /\ text' = [text EXCEPT ![f] = t]
    BY <2>1 DEF SendText, Write, Word, models
  <2>3. open' \subseteq open \cup {f} BY <1>3 DEF Open, Change
  <2>4. Word(f, t) \in UpMessages BY DEF Word, UpMessages
  <2>5. \A g \in open : g # f => Settled(g)' \/ Sent(g)'
    <3> TAKE g \in open
    <3> HAVE g # f
    <3>1. Word(f, t) \notin Naming(g) BY DEF Word, Naming
    <3>2. text'[g] = text[g] BY <2>2, <1>0
    <3> HIDE DEF Word
    <3> QED BY <2>2, <2>4, <3>1, <3>2, <1>0, TrackedAppends
  <2>6. Sent(f)'
    <3>1. text'[f] = t BY <2>2, <1>0
    <3>2. Len(up) + 1 \in Places(up', {Word(f, text'[f])})
      BY <2>2, <2>4, <3>1, <1>0, PlacesAppended
    <3>3. \A j \in Places(up', Naming(f)) : j <= Len(up) + 1
      BY <2>2, <2>4, <1>0, Appended DEF Places
    <3> QED BY <3>2, <3>3 DEF Sent
  <2> QED BY <2>3, <2>5, <2>6 DEF Tracked
<1>4. ASSUME NEW f \in Files, Close(f) \/ CloseStalls(f) PROVE Tracked'
  <2> DEFINE m == [kind |-> "close", file |-> f]
  <2>1. up' = up \/ up' = Append(up, m) BY <1>4, CloseTyped
  <2>2. UNCHANGED <<text, models>> /\ open' = open \ {f} BY <1>4, Zenon DEF Close, CloseStalls
  <2>3. m \in UpMessages /\ \A g \in open' : m \notin Naming(g) BY <2>2 DEF UpMessages, Naming
  <2> HIDE DEF m
  <2>4. CASE up' = up BY <2>2, <2>4 DEF Tracked, Settled, Sent, models
  <2>5. CASE up' = Append(up, m)
    <3>1. \A g \in open' : Settled(g)' \/ Sent(g)'
      BY <2>2, <2>3, <2>5, <1>0, TrackedAppends DEF models
    <3> QED BY <3>1 DEF Tracked
  <2> QED BY <2>1, <2>4, <2>5
<1>5. ASSUME NEW w \in Waiters, Ask(w), UNCHANGED <<client, down, models, prover, flushes>>
      PROVE Tracked'
  <2> DEFINE m == [kind |-> "flush", waiter |-> w]
  <2>1. up' = Append(up, m) BY <1>5 DEF Ask
  <2>2. m \in UpMessages /\ \A g \in open : m \notin Naming(g) BY DEF UpMessages, Naming
  <2> HIDE DEF m
  <2>3. \A g \in open' : Settled(g)' \/ Sent(g)'
    BY <2>1, <2>2, <1>5, <1>0, TrackedAppends DEF models, client
  <2> QED BY <2>3 DEF Tracked
<1> QED BY <1>1, <1>2, <1>3, <1>4, <1>5, UpSteps, Zenon

-----------------------------------------------------------------------------
(* The counters.                                                           *)

LEMMA ClientSteps ==
  ASSUME Typed, [Next]_vars
  PROVE  \/ UNCHANGED <<client, waits>>
         \/ ClientReads
         \/ \E f \in Files : Open(f) \/ Change(f) \/ Close(f) \/ CloseStalls(f)
         \/ \E w \in Waiters : WaitStep(w) \/ WaitFails(w)
<1>1. CASE ServerStep
  <2>1. CASE \E w \in Waiters : FlushAbsorbs(w) \/ FlushAwaits(w) \/ FlushReplies(w)
    BY <2>1, Zenon DEF FlushAbsorbs, FlushAwaits, FlushReplies
  <2>2. CASE InputFlushed \/ Assigned \/ OutputStarts \/ OutputReads \/ OutputFlushed \/ ServerReads
    BY <2>2, Zenon DEF InputFlushed, Assigned, OutputStarts, OutputReads, OutputFlushed, ServerReads
  <2> QED BY <1>1, <2>1, <2>2, Zenon DEF ServerStep
<1>2. CASE OutputSignalled \/ Consolidates
  BY <1>2, Zenon DEF OutputSignalled, Consolidates
<1>3. CASE \E f \in Files : DiskEdited(f) \/ ExternalRead(f)
  BY <1>3, Zenon DEF DiskEdited, ExternalRead
<1>4. CASE UNCHANGED vars BY <1>4, Zenon DEF vars
<1> QED BY <1>1, <1>2, <1>3, <1>4, Zenon DEF Next

LEMMA CountersStep == ASSUME Typed, Counters, [Next]_vars PROVE Counters'
<1>0. /\ sends \in Nat /\ flushed \in Nat /\ snapshot \in [Waiters -> Nat]
      /\ pc \in [Waiters -> {"idle", "asked", "parked", "done", "failed"}]
  BY DEF Typed, TypeOK
<1>1. CASE UNCHANGED <<client, waits>> BY <1>1 DEF Counters, client, waits
<1>2. CASE ClientReads
  <2>u. UNCHANGED <<sends, snapshot>> BY <1>2, Zenon DEF ClientReads
  <2> DEFINE m == Head(down)
  <2>1. \/ ReadPush(m)
        \/ ReadFlushed(m) /\ m.waiter \in Waiters BY <1>2, ClientReadsWhich
  <2> HIDE DEF m
  <2>2. CASE UNCHANGED <<flushed, pc>> BY <2>2, <2>u DEF Counters
  <2>3. CASE ReadFlushed(m) /\ m.waiter \in Waiters /\ pc[m.waiter] = "asked"
    <3>1. flushed' = Covered(m.waiter) /\ pc' = [pc EXCEPT ![m.waiter] = "parked"]
      BY <2>3 DEF ReadFlushed
    <3>2. flushed' \in Nat /\ snapshot[m.waiter] <= flushed' /\ flushed <= flushed'
          /\ flushed' <= sends
      BY <2>3, <3>1, <1>0 DEF Covered, MaxOf, Counters
    <3>3. \A w \in Waiters : pc'[w] = "parked" => snapshot[w] <= flushed'
      <4> TAKE w \in Waiters
      <4>1. CASE w = m.waiter BY <4>1, <3>2
      <4>2. CASE w # m.waiter
        <5>1. pc'[w] = "parked" => snapshot[w] <= flushed BY <4>2, <3>1, <1>0 DEF Counters
        <5> QED BY <5>1, <3>2, <1>0
      <4> QED BY <4>1, <4>2
    <3> QED BY <3>2, <3>3, <2>u DEF Counters
  <2>4. CASE ReadFlushed(m) /\ pc[m.waiter] # "asked"
    BY <2>4, <2>2 DEF ReadFlushed
  <2> QED BY <2>1, <2>2, <2>3, <2>4 DEF ReadPush
<1>3. ASSUME NEW f \in Files, Open(f) \/ Change(f) \/ Close(f) \/ CloseStalls(f) PROVE Counters'
  <2>1. UNCHANGED <<flushed, waits>> /\ sends <= sends'
    <3>1. CASE Open(f) \/ Change(f)
      <4>1. PICK t \in Nat : SendText(f, t) BY <3>1, TextsTyped
      <4> QED BY <4>1, <1>0 DEF SendText, Write
    <3>2. CASE Close(f) \/ CloseStalls(f)
      <4>1. UNCHANGED <<flushed, waits, sends>> BY <3>2, Zenon DEF Close, CloseStalls
      <4> QED BY <4>1, <1>0
    <3> QED BY <1>3, <3>1, <3>2
  <2>2. sends' \in Nat
    <3>1. CASE Open(f) \/ Change(f) BY <3>1, TextsTyped, <1>0
    <3>2. CASE Close(f) \/ CloseStalls(f) BY <3>2, <1>0 DEF Close, CloseStalls
    <3> QED BY <1>3, <3>1, <3>2
  <2> QED BY <2>1, <2>2, <1>0 DEF Counters, waits
<1>4. ASSUME NEW w \in Waiters, WaitStep(w) \/ WaitFails(w) PROVE Counters'
  <2>1. CASE WaitStarts(w) \/ WaitRearms(w)
    <3>1. UNCHANGED <<sends, flushed>> /\ Ask(w) BY <2>1 DEF WaitStarts, WaitRearms, client
    <3>2. pc' = [pc EXCEPT ![w] = "asked"] /\ snapshot' = [snapshot EXCEPT ![w] = sends]
      BY <3>1 DEF Ask
    <3> QED BY <3>1, <3>2, <1>0 DEF Counters
  <2>2. CASE WaitReturns(w) \/ WaitFails(w)
    <3>1. UNCHANGED <<sends, flushed, snapshot>> BY <2>2 DEF WaitReturns, WaitFails, client
    <3>2. pc' = [pc EXCEPT ![w] = "done"] \/ pc' = [pc EXCEPT ![w] = "failed"]
      BY <2>2 DEF WaitReturns, WaitFails
    <3> QED BY <3>1, <3>2, <1>0 DEF Counters
  <2> QED BY <1>4, <2>1, <2>2 DEF WaitStep
<1> QED BY <1>1, <1>2, <1>3, <1>4, ClientSteps, Zenon

-----------------------------------------------------------------------------
(* A waiter has one flush out.                                             *)

LEMMA UpKeeps ==
  ASSUME Typed, NEW S,
         \/ up' = up
         \/ \E m \in UpMessages : m \notin S /\ up' = Append(up, m)
         \/ up # <<>> /\ up' = Tail(up)
  PROVE  /\ Places(up, S) = {} => Places(up', S) = {}
         /\ Once(up, S) => Once(up', S)
<1>0. up \in Seq(UpMessages) BY DEF Typed, Queues
<1>1. CASE up' = up BY <1>1
<1>2. ASSUME NEW m \in UpMessages, m \notin S, up' = Append(up, m)
      PROVE Places(up', S) = Places(up, S)
  BY <1>0, <1>2, PlacesAppended
<1>3. CASE up # <<>> /\ up' = Tail(up)
  <2>1. \A i \in Places(up', S) : i + 1 \in Places(up, S) /\ i \in Nat BY <1>0, <1>3, PlacesTail DEF Places
  <2> QED BY <2>1 DEF Once
<1> QED BY <1>1, <1>2, <1>3 DEF Once

LEMMA DownKeeps ==
  ASSUME Typed, NEW S,
         \/ down' = down
         \/ \E r \in Seq(DownMessages) : (\A i \in 1 .. Len(r) : r[i] \notin S) /\ down' = down \o r
         \/ down # <<>> /\ down' = Tail(down)
  PROVE  /\ Places(down, S) = {} => Places(down', S) = {}
         /\ Once(down, S) => Once(down', S)
         /\ \A i \in Places(down', S) : \E k \in Places(down, S) : down'[i] = down[k]
<1>0. down \in Seq(DownMessages) BY DEF Typed, Queues
<1>1. CASE down' = down BY <1>1
<1>2. ASSUME NEW r \in Seq(DownMessages), \A i \in 1 .. Len(r) : r[i] \notin S, down' = down \o r
      PROVE Places(down', S) = Places(down, S) /\ \A i \in Places(down, S) : down'[i] = down[i]
  <2>1. Places(down', S) = Places(down, S) BY <1>0, <1>2, PlacesJoined
  <2>2. \A i \in 1 .. Len(down) : down'[i] = down[i] BY <1>0, <1>2, Joined
  <2> QED BY <2>1, <2>2 DEF Places
<1>3. CASE down # <<>> /\ down' = Tail(down)
  <2>1. \A i \in Places(down', S) : i + 1 \in Places(down, S) /\ i \in Nat BY <1>0, <1>3, PlacesTail DEF Places
  <2>2. \A i \in Places(down', S) : down'[i] = down[i + 1] BY <1>0, <1>3, Shifted DEF Places
  <2> QED BY <2>1, <2>2 DEF Once
<1>4. CASE \E r \in Seq(DownMessages) : (\A i \in 1 .. Len(r) : r[i] \notin S) /\ down' = down \o r
  BY <1>2, <1>4 DEF Once
<1> QED BY <1>1, <1>3, <1>4

\* Who writes to the client: a rendering pushes, a flush replies.
LEMMA DownSteps ==
  ASSUME Typed, [Next]_vars
  PROVE  \/ down' = down
         \/ /\ ClientReads /\ UNCHANGED <<flushes, up>>
         \/ /\ \E r \in Seq(Pushes) : down' = down \o r
            /\ UNCHANGED <<flushes, up, client, waits>>
         \/ \E w \in Waiters : FlushReplies(w)
<1>1. CASE ServerStep
  <2>1. CASE InputFlushed \/ Assigned \/ OutputStarts \/ OutputReads \/ ServerReads
    BY <2>1, Zenon DEF InputFlushed, Assigned, OutputStarts, OutputReads, ServerReads
  <2>2. CASE \E w \in Waiters : FlushAbsorbs(w) \/ FlushAwaits(w)
    BY <2>2, Zenon DEF FlushAbsorbs, FlushAwaits
  <2>3. CASE OutputFlushed
    <3>1. UNCHANGED <<flushes, up, client, waits>> BY <2>3, Zenon DEF OutputFlushed
    <3>2. CASE MayPublish
      <4>1. PICK look, pushes : Published(look, pushes) BY <2>3, <3>2, OutputPublishes
      <4> QED BY <3>1, <4>1 DEF Published
    <3>3. CASE ~MayPublish BY <2>3, <3>3, Zenon DEF OutputFlushed
    <3> QED BY <3>2, <3>3
  <2> QED BY <1>1, <2>1, <2>2, <2>3, Zenon DEF ServerStep
<1>2. CASE OutputSignalled \/ Consolidates
  BY <1>2, Zenon DEF OutputSignalled, Consolidates
<1>3. CASE ClientReads
  <2>1. UNCHANGED <<flushes, up>> BY <1>3, Zenon DEF ClientReads
  <2> QED BY <1>3, <2>1
<1>4. CASE \E f \in Files : DiskEdited(f) \/ ExternalRead(f) \/ Open(f) \/ Change(f)
                            \/ Close(f) \/ CloseStalls(f)
  BY <1>4, Zenon DEF DiskEdited, ExternalRead, Open, Change, SendText, Close, CloseStalls
<1>5. CASE \E w \in Waiters : WaitStep(w) \/ WaitFails(w)
  BY <1>5, Zenon DEF WaitStep, WaitStarts, WaitRearms, WaitReturns, WaitFails
<1>6. CASE UNCHANGED vars BY <1>6, Zenon DEF vars
<1> QED BY <1>1, <1>2, <1>3, <1>4, <1>5, <1>6, Zenon DEF Next

\* Who works for a flush.
LEMMA FlushSteps ==
  ASSUME Typed, [Next]_vars
  PROVE  \/ UNCHANGED flushes
         \/ ServerReads /\ ReadFlush(Head(up))
         \/ \E w \in Waiters : FlushAbsorbs(w) \/ FlushAwaits(w) \/ FlushReplies(w)
<1>1. CASE ServerStep
  <2>1. CASE ServerReads
    <3>1. CASE ReadText(Head(up)) BY <3>1 DEF ReadText
    <3>2. CASE ReadClose(Head(up)) BY <3>2 DEF ReadClose
    <3> QED BY <2>1, <3>1, <3>2, ServerReadsWhich
  <2>2. CASE InputFlushed \/ Assigned \/ OutputStarts \/ OutputReads \/ OutputFlushed
    BY <2>2, Zenon DEF InputFlushed, Assigned, OutputStarts, OutputReads, OutputFlushed
  <2> QED BY <1>1, <2>1, <2>2, Zenon DEF ServerStep
<1>2. CASE OutputSignalled \/ Consolidates \/ ClientReads
  BY <1>2, Zenon DEF OutputSignalled, Consolidates, ClientReads
<1>4. CASE \E f \in Files : DiskEdited(f) \/ ExternalRead(f) \/ Open(f) \/ Change(f)
                            \/ Close(f) \/ CloseStalls(f)
  BY <1>4, Zenon DEF DiskEdited, ExternalRead, Open, Change, SendText, Close, CloseStalls
<1>5. CASE \E w \in Waiters : WaitStep(w) \/ WaitFails(w)
  BY <1>5, Zenon DEF WaitStep, WaitStarts, WaitRearms, WaitReturns, WaitFails
<1>6. CASE UNCHANGED vars BY <1>6, Zenon DEF vars
<1> QED BY <1>1, <1>2, <1>4, <1>5, <1>6, Zenon DEF Next

\* Outside the life of its own flush, nothing about a waiter's flush changes.
LEMMA OneFlushElse ==
  ASSUME Typed, OneFlush, NEW w \in Waiters, flushes'[w].phase = "none" <=> flushes[w].phase = "none",
         \/ pc'[w] = pc[w]
         \/ pc'[w] = "failed"
         \/ pc[w] = "parked" /\ pc'[w] = "done",
         Places(up, Asking(w)) = {} => Places(up', Asking(w)) = {},
         Once(up, Asking(w)) => Once(up', Asking(w)),
         Places(down, Answers(w)) = {} => Places(down', Answers(w)) = {},
         Once(down, Answers(w)) => Once(down', Answers(w))
  PROVE  /\ \A i, j \in Places(up', Asking(w)) : i = j
         /\ \A i, j \in Places(down', Answers(w)) : i = j
         /\ Places(up', Asking(w)) # {} => Places(down', Answers(w)) = {} /\ flushes'[w].phase = "none"
         /\ Places(down', Answers(w)) # {} => flushes'[w].phase = "none"
         /\ pc'[w] \in {"idle", "parked", "done"} => Quiet(w)'
BY DEF OneFlush, Once, Quiet

LEMMA OneFlushStep == ASSUME Typed, Typed', OneFlush, [Next]_vars PROVE OneFlush'
<1> DEFINE P(w) ==
    /\ \A i, j \in Places(up', Asking(w)) : i = j
    /\ \A i, j \in Places(down', Answers(w)) : i = j
    /\ Places(up', Asking(w)) # {} => Places(down', Answers(w)) = {} /\ flushes'[w].phase = "none"
    /\ Places(down', Answers(w)) # {} => flushes'[w].phase = "none"
    /\ pc'[w] \in {"idle", "parked", "done"} => Quiet(w)'
<1>0. /\ up \in Seq(UpMessages) /\ down \in Seq(DownMessages)
      /\ flushes \in [Waiters -> [phase : {"none", "absorb", "await", "reply"}, version : Nat]]
      /\ pc \in [Waiters -> {"idle", "asked", "parked", "done", "failed"}]
  BY DEF Typed, TypeOK, Queues
<1>p. SUFFICES ASSUME NEW w \in Waiters PROVE P(w) BY DEF OneFlush
<1>1. ASSUME UNCHANGED <<flushes, down, pc>>,
             up' = up \/ \E m \in UpMessages : m \notin Asking(w) /\ up' = Append(up, m)
      PROVE P(w)
  <2>1. /\ Places(up, Asking(w)) = {} => Places(up', Asking(w)) = {}
        /\ Once(up, Asking(w)) => Once(up', Asking(w))
    BY <1>1, UpKeeps
  <2> QED BY <2>1, <1>1, OneFlushElse
<1>2. CASE ServerReads
  <2> DEFINE m == Head(up)
  <2>0. /\ up # <<>> /\ up' = Tail(up) /\ m \in UpMessages
        /\ (\/ m.kind = "text" /\ ReadText(m) /\ m.file \in Files
            \/ m.kind = "close" /\ ReadClose(m) /\ m.file \in Files
            \/ m.kind = "flush" /\ ReadFlush(m) /\ m.waiter \in Waiters)
    BY <1>2, ServerReadsWhich
  <2>u. UNCHANGED <<down, pc>>
    <3>1. UNCHANGED <<down, waits>> BY <1>2, Zenon DEF ServerReads
    <3> QED BY <3>1 DEF waits
  <2>1. /\ Places(up, Asking(w)) = {} => Places(up', Asking(w)) = {}
        /\ Once(up, Asking(w)) => Once(up', Asking(w))
    BY <2>0, UpKeeps
  <2> HIDE DEF m
  <2>2. CASE m.kind = "flush" /\ ReadFlush(m) /\ m.waiter = w
    <3>1. m = [kind |-> "flush", waiter |-> w] BY <2>0, <2>2 DEF UpMessages
    <3>2. 1 \in Places(up, Asking(w)) BY <3>1, <2>0, <1>0, PlacesTail DEF Asking, m
    <3>3. \A i \in Places(up', Asking(w)) : i + 1 \in Places(up, Asking(w)) /\ i \in Nat \ {0}
      BY <2>0, <1>0, PlacesTail DEF Places
    <3>4. Once(up, Asking(w)) BY DEF OneFlush, Once
    <3>5. Places(up', Asking(w)) = {}
      <4>1. \A i \in Places(up', Asking(w)) : i + 1 = 1 /\ i \in Nat \ {0} BY <3>2, <3>3, <3>4 DEF Once
      <4> QED BY <4>1
    <3>6. Places(down', Answers(w)) = {} /\ pc'[w] \notin {"idle", "parked", "done"}
      BY <3>2, <2>u DEF OneFlush, Quiet
    <3> QED BY <3>5, <3>6
  <2>3. CASE m.kind # "flush" \/ (ReadFlush(m) /\ m.waiter # w)
    <3>1. flushes'[w] = flushes[w]
      <4>1. CASE m.kind # "flush" BY <4>1, <2>0 DEF ReadText, ReadClose
      <4>2. CASE ReadFlush(m) /\ m.waiter # w BY <4>2, <1>0 DEF ReadFlush
      <4> QED BY <2>3, <4>1, <4>2
    <3> QED BY <3>1, <2>1, <2>u, OneFlushElse
  <2> QED BY <2>0, <2>2, <2>3
<1>3. ASSUME NEW v \in Waiters, FlushAbsorbs(v) \/ FlushAwaits(v) PROVE P(w)
  <2>1. UNCHANGED <<up, down, waits>> BY <1>3, Zenon DEF FlushAbsorbs, FlushAwaits
  <2>2. flushes'[w].phase = "none" <=> flushes[w].phase = "none"
    BY <1>3, <1>0 DEF FlushAbsorbs, FlushAwaits, Phase
  <2>3. UNCHANGED <<up, down, pc>> BY <2>1 DEF waits
  <2> QED BY <2>3, <2>2, OneFlushElse
<1>4. ASSUME NEW v \in Waiters, FlushReplies(v) PROVE P(w)
  <2> DEFINE m == [kind |-> "flushed", waiter |-> v, version |-> flushes[v].version]
  <2>1. /\ UNCHANGED <<up, waits>> /\ down' = Append(down, m) /\ flushes[v].phase = "reply"
        /\ flushes' = [flushes EXCEPT ![v] = [phase |-> "none", version |-> 0]]
    BY <1>4, Zenon DEF FlushReplies, Phase
  <2>2. m \in DownMessages BY <1>0 DEF DownMessages
  <2>3. pc' = pc BY <2>1 DEF waits
  <2>m. m \in Answers(v) /\ (w # v => m \notin Answers(w)) BY <1>0 DEF Answers
  <2> HIDE DEF m
  <2>4. CASE w = v
    <3>1. /\ Places(up, Asking(w)) = {} /\ Places(down, Answers(w)) = {}
          /\ pc[w] \notin {"idle", "parked", "done"}
      BY <2>1, <2>4 DEF OneFlush, Quiet
    <3>2. Places(down', Answers(w)) = {Len(down) + 1} BY <2>1, <2>2, <2>m, <2>4, <3>1, <1>0, PlacesAppended
    <3>3. flushes'[w].phase = "none" BY <2>1, <2>4, <1>0
    <3> QED BY <3>1, <3>2, <3>3, <2>1, <2>3
  <2>5. CASE w # v
    <3>1. Places(down', Answers(w)) = Places(down, Answers(w)) BY <2>1, <2>2, <2>m, <2>5, <1>0, PlacesAppended
    <3>2. flushes'[w] = flushes[w] BY <2>1, <2>5, <1>0
    <3> QED BY <3>1, <3>2, <2>1, <2>3, OneFlushElse DEF Once
  <2> QED BY <2>4, <2>5
<1>5. CASE ClientReads
  <2> DEFINE m == Head(down)
  <2>0. /\ down # <<>> /\ down' = Tail(down)
        /\ \/ ReadPush(m) /\ m \in Pushes
           \/ ReadFlushed(m) /\ m \in [kind : {"flushed"}, waiter : Waiters, version : Nat]
    BY <1>5, ClientReadsWhich
  <2>u. UNCHANGED <<up, flushes>> BY <1>5, Zenon DEF ClientReads
  <2>1. /\ Places(down, Answers(w)) = {} => Places(down', Answers(w)) = {}
        /\ Once(down, Answers(w)) => Once(down', Answers(w))
    BY <2>0, DownKeeps
  <2> HIDE DEF m
  <2>2. CASE ReadFlushed(m) /\ m \in [kind : {"flushed"}, waiter : Waiters, version : Nat]
             /\ m.waiter = w /\ pc[w] = "asked"
    <3>1. m \in Answers(w) BY <2>2 DEF Answers
    <3>2. 1 \in Places(down, Answers(w)) BY <3>1, <2>0, <1>0, PlacesTail DEF m
    <3>3. \A i \in Places(down', Answers(w)) : i + 1 \in Places(down, Answers(w)) /\ i \in Nat \ {0}
      BY <2>0, <1>0, PlacesTail DEF Places
    <3>4. Once(down, Answers(w)) BY DEF OneFlush, Once
    <3>5. Places(down', Answers(w)) = {}
      <4>1. \A i \in Places(down', Answers(w)) : i + 1 = 1 /\ i \in Nat \ {0} BY <3>2, <3>3, <3>4 DEF Once
      <4> QED BY <4>1
    <3>6. flushes'[w].phase = "none" /\ Places(up', Asking(w)) = {} BY <3>2, <2>u DEF OneFlush
    <3> QED BY <3>5, <3>6 DEF Quiet
  <2>3. CASE ReadPush(m) \/ (ReadFlushed(m) /\ ~(m.waiter = w /\ pc[w] = "asked"))
    <3>1. pc'[w] = pc[w] BY <2>3, <1>0 DEF ReadPush, ReadFlushed
    <3> QED BY <3>1, <2>1, <2>u, OneFlushElse
  <2> QED BY <2>0, <2>2, <2>3
<1>6. ASSUME NEW r \in Seq(Pushes), down' = down \o r, UNCHANGED <<flushes, up, client, waits>>
      PROVE P(w)
  <2>1. r \in Seq(DownMessages) /\ \A i \in 1 .. Len(r) : r[i] \in Pushes
    BY <1>6 DEF DownMessages
  <2>2. \A i \in 1 .. Len(r) : r[i] \notin Answers(w) BY <2>1 DEF Pushes, Answers
  <2>3. /\ Places(down, Answers(w)) = {} => Places(down', Answers(w)) = {}
        /\ Once(down, Answers(w)) => Once(down', Answers(w))
    BY <2>1, <2>2, <1>6, DownKeeps
  <2> QED BY <2>3, <1>6, OneFlushElse DEF waits
<1>7. ASSUME NEW v \in Waiters, WaitStep(v) \/ WaitFails(v) PROVE P(w)
  <2>1. CASE WaitStarts(v) \/ WaitRearms(v)
    <3> DEFINE m == [kind |-> "flush", waiter |-> v]
    <3>0. pc[v] \in {"idle", "parked"} BY <2>1 DEF WaitStarts, WaitRearms
    <3>1. /\ up' = Append(up, m) /\ pc' = [pc EXCEPT ![v] = "asked"]
          /\ UNCHANGED <<down, flushes>>
      BY <2>1, Zenon DEF WaitStarts, WaitRearms, Ask
    <3>2. m \in UpMessages BY DEF UpMessages
    <3>3. m \in Asking(v) /\ (w # v => m \notin Asking(w)) BY DEF Asking
    <3> HIDE DEF m
    <3>4. CASE w = v
      <4>1. Quiet(w) BY <3>0, <3>4 DEF OneFlush
      <4>2. Places(up', Asking(w)) = {Len(up) + 1}
        BY <4>1, <3>1, <3>2, <3>3, <3>4, <1>0, PlacesAppended DEF Quiet
      <4>3. pc'[w] = "asked" BY <3>1, <3>4, <1>0
      <4> QED BY <4>1, <4>2, <4>3, <3>1 DEF Quiet
    <3>5. CASE w # v
      <4>1. pc'[w] = pc[w] BY <3>1, <3>5, <1>0
      <4>2. /\ Places(up, Asking(w)) = {} => Places(up', Asking(w)) = {}
            /\ Once(up, Asking(w)) => Once(up', Asking(w))
        BY <3>1, <3>2, <3>3, <3>5, UpKeeps
      <4> QED BY <4>1, <4>2, <3>1, OneFlushElse
    <3> QED BY <3>4, <3>5
  <2>2. CASE WaitReturns(v) \/ WaitFails(v)
    <3>1. UNCHANGED <<up, down, flushes>> BY <2>2, Zenon DEF WaitReturns, WaitFails
    <3>2. \/ pc'[w] = pc[w]
          \/ pc'[w] = "failed"
          \/ pc[w] = "parked" /\ pc'[w] = "done"
      BY <2>2, <1>0 DEF WaitReturns, WaitFails
    <3> QED BY <3>1, <3>2, OneFlushElse
  <2> QED BY <1>7, <2>1, <2>2 DEF WaitStep
<1>8. ASSUME NEW f \in Files, Open(f) \/ Change(f) \/ Close(f) \/ CloseStalls(f) PROVE P(w)
  <2>1. CASE Open(f) \/ Change(f)
    <3>1. PICK t \in Nat : SendText(f, t) BY <2>1, TextsTyped
    <3>2. up' = Append(up, Word(f, t)) /\ UNCHANGED <<flushes, down, waits>>
      BY <3>1 DEF SendText, Write, Word
    <3>3. Word(f, t) \in UpMessages /\ Word(f, t) \notin Asking(w)
      BY DEF Word, UpMessages, Asking
    <3> QED BY <3>2, <3>3, <1>1 DEF waits
  <2>2. CASE Close(f) \/ CloseStalls(f)
    <3> DEFINE m == [kind |-> "close", file |-> f]
    <3>1. up' = up \/ up' = Append(up, m) BY <2>2, CloseTyped
    <3>2. UNCHANGED <<flushes, down, waits>> BY <2>2, Zenon DEF Close, CloseStalls
    <3>3. m \in UpMessages /\ m \notin Asking(w) BY DEF UpMessages, Asking
    <3> HIDE DEF m
    <3> QED BY <3>1, <3>2, <3>3, <1>1 DEF waits
  <2> QED BY <1>8, <2>1, <2>2
<1> HIDE DEF P
<1>9. CASE UNCHANGED <<flushes, down, up, pc>> BY <1>1, <1>9
<1>a. CASE UNCHANGED <<client, waits>> /\ UNCHANGED down /\ UNCHANGED flushes /\ UNCHANGED up
  BY <1>a, <1>9 DEF waits
<1> QED
  <2>1. CASE down' = down /\ UNCHANGED flushes /\ UNCHANGED <<client, waits>>
    <3>1. CASE UNCHANGED <<up, open, text, sends>> BY <2>1, <3>1, <1>a
    <3> QED BY <2>1, <3>1, <1>2, <1>7, <1>8, UpSteps
  <2> QED BY <1>2, <1>3, <1>4, <1>5, <1>6, <1>7, <1>8, <2>1, ClientSteps, DownSteps, FlushSteps

-----------------------------------------------------------------------------
(* What a flush covers.                                                    *)

\* Every version since v has the text of each open file, and so will the next.
Since(v) == /\ NoText
            /\ \A f \in open : /\ f \notin pending
                               /\ \A n \in v .. Tip : history[n][f] = text[f]

\* A flush asked behind the last text covers all of them, at every stage.
Covering(w) ==
  /\ \A i \in Places(up, Asking(w)), j \in Places(up, Words) : j <= i
  /\ flushes[w].phase # "none" => NoText
  /\ flushes[w].phase = "await" => Since(Tip)
  /\ flushes[w].phase = "reply" => Since(flushes[w].version)
  /\ \A i \in Places(down, Answers(w)) : Since(down[i].version)

Covers ==
  /\ \A w \in Waiters : pc[w] = "asked" /\ snapshot[w] = sends => Covering(w)
  /\ sends = flushed => Since(newest)

\* With no text on its way, every open file is settled.
LEMMA AllSettled ==
  ASSUME Typed, Tracked, NoText, NEW f \in open PROVE f \in Files /\ Settled(f)
<1>1. f \in Files /\ text[f] \in Nat BY DEF Typed, TypeOK
<1>2. Word(f, text[f]) \in Words BY <1>1 DEF Words, Word
<1>3. ~Sent(f) BY <1>2 DEF Sent, NoText, Places
<1> QED BY <1>1, <1>3 DEF Tracked

\* A step that sends no text leaves no text on its way, and drops no file's text.
LEMMA NoTextSent ==
  ASSUME Typed, [Next]_vars, sends' = sends
  PROVE  /\ open' \subseteq open /\ \A f \in open' : text'[f] = text[f]
         /\ \/ up' = up
            \/ ServerReads
            \/ \E m \in UpMessages : /\ up' = Append(up, m) /\ m \notin Words
                                     /\ \A w \in Waiters : m \notin Asking(w)
            \/ \E w \in Waiters : WaitStep(w) /\ Ask(w)
<1>1. CASE UNCHANGED <<up, open, text, sends>> BY <1>1
<1>2. CASE ServerReads
  <2>1. UNCHANGED client BY <1>2, Zenon DEF ServerReads
  <2> QED BY <2>1, <1>2 DEF client
<1>3. ASSUME NEW f \in Files, Open(f) \/ Change(f) PROVE FALSE
  <2>1. sends' = sends + 1 /\ sends \in Nat BY <1>3, TextsTyped DEF Typed, TypeOK
  <2> QED BY <2>1
<1>4. ASSUME NEW f \in Files, Close(f) \/ CloseStalls(f)
      PROVE /\ open' \subseteq open /\ \A g \in open' : text'[g] = text[g]
            /\ \/ up' = up
               \/ \E m \in UpMessages : /\ up' = Append(up, m) /\ m \notin Words
                                        /\ \A w \in Waiters : m \notin Asking(w)
  <2> DEFINE m == [kind |-> "close", file |-> f]
  <2>1. up' = up \/ up' = Append(up, m) BY <1>4, CloseTyped
  <2>2. UNCHANGED text /\ open' = open \ {f} BY <1>4, Zenon DEF Close, CloseStalls
  <2>3. m \in UpMessages /\ m \notin Words /\ \A w \in Waiters : m \notin Asking(w)
    BY DEF UpMessages, Words, Asking
  <2> HIDE DEF m
  <2> QED BY <2>1, <2>2, <2>3
<1>5. ASSUME NEW w \in Waiters, WaitStep(w), Ask(w), UNCHANGED <<client, down, models, prover, flushes>>
      PROVE open' \subseteq open /\ \A f \in open' : text'[f] = text[f]
  BY <1>5 DEF client
<1> QED BY <1>1, <1>2, <1>3, <1>4, <1>5, UpSteps

LEMMA NoTextKept ==
  ASSUME Typed, [Next]_vars, sends' = sends, NoText PROVE NoText'
<1>0. up \in Seq(UpMessages) BY DEF Typed, Queues
<1>1. CASE ServerReads
  <2>1. up # <<>> /\ up' = Tail(up) BY <1>1, ServerReadsWhich
  <2> QED BY <2>1, UpKeeps DEF NoText
<1>2. ASSUME NEW w \in Waiters, Ask(w) PROVE NoText'
  <2> DEFINE m == [kind |-> "flush", waiter |-> w]
  <2>1. up' = Append(up, m) BY <1>2 DEF Ask
  <2>2. m \in UpMessages /\ m \notin Words BY DEF UpMessages, Words
  <2> HIDE DEF m
  <2> QED BY <2>1, <2>2, UpKeeps DEF NoText
<1>3. ASSUME NEW m \in UpMessages, up' = Append(up, m), m \notin Words PROVE NoText'
  BY <1>3, UpKeeps DEF NoText
<1> QED BY <1>1, <1>2, <1>3, NoTextSent DEF NoText

LEMMA HistoryGrows == ASSUME Typed, [Next]_vars PROVE Grown
<1>1. CASE UNCHANGED history BY <1>1, SameHistory
<1>2. CASE ServerReads
  <2>1. UNCHANGED prover BY <1>2, Zenon DEF ServerReads
  <2> QED BY <2>1, <1>1 DEF prover
<1>3. CASE \E f \in Files : ExternalRead(f) BY <1>3, <1>1 DEF ExternalRead, prover
<1> QED BY <1>1, <1>2, <1>3, ModelSteps, InputGiven, InputTyped

\* While no text is sent, what a version covers stays covered.
LEMMA SinceKept ==
  ASSUME Typed, Typed', Tracked, [Next]_vars, sends' = sends, NEW v \in 1 .. Tip, Since(v)
  PROVE  Since(v)'
<1>0. /\ Tip \in Nat \ {0} /\ history \in Seq([Files -> Nat]) /\ Tip = Len(history)
      /\ Tip' = Len(history') /\ up \in Seq(UpMessages)
  BY DEF Typed, TypeOK, Tip, Queues
<1>1. NoText /\ NoText' BY NoTextKept DEF Since
<1>2. open' \subseteq open /\ \A f \in open' : text'[f] = text[f] BY NoTextSent
<1>3. \A f \in open : f \in Files /\ Settled(f) BY <1>1, AllSettled
<1>4. \A f \in open : f \notin pending /\ \A n \in v .. Tip : history[n][f] = text[f]
  BY DEF Since
<1>5. \A f \in open : f \notin pending' /\ \A n \in v .. Tip' : history'[n][f] = text[f]
  <2>1. CASE UNCHANGED <<history, serial, model, pending, shown>> BY <2>1, <1>4 DEF Tip
  <2>2. ASSUME NEW f \in Files, NEW t \in Nat, Absorb(f, t), UNCHANGED history, f \notin open
        PROVE \A g \in open : g \notin pending' /\ \A n \in v .. Tip' : history'[n][g] = text[g]
    <3>1. pending' \subseteq pending \cup {f} BY <2>2, AbsorbTyped
    <3> QED BY <3>1, <2>2, <1>4 DEF Tip
  <2>3. CASE ServerReads
    <3> DEFINE m == Head(up)
    <3>0. /\ m \in UpMessages /\ up # <<>> /\ up' = Tail(up)
          /\ (\/ m.kind = "text" /\ ReadText(m) /\ m.file \in Files
              \/ m.kind = "close" /\ ReadClose(m) /\ m.file \in Files
              \/ m.kind = "flush" /\ ReadFlush(m) /\ m.waiter \in Waiters)
      BY <2>3, ServerReadsWhich
    <3>u. UNCHANGED <<history>>
      <4>1. UNCHANGED prover BY <2>3, Zenon DEF ServerReads
      <4> QED BY <4>1 DEF prover
    <3>1. \A f \in open : m \notin Naming(f) BY <1>3, <3>0, <1>0, PlacesTail DEF Settled
    <3> HIDE DEF m
    <3>2. CASE m.kind = "text" /\ ReadText(m) /\ m.file \in Files
      <4>1. m \in [kind : {"text"}, file : Files, text : Nat] BY <3>0, <3>2 DEF UpMessages
      <4>2. m.file \notin open BY <4>1, <3>1 DEF Naming
      <4> QED BY <4>1, <4>2, <3>2, <3>u, <2>2 DEF ReadText
    <3>3. CASE m.kind = "close" /\ ReadClose(m) /\ m.file \in Files
      <4>1. m \in [kind : {"close"}, file : Files] BY <3>0, <3>3 DEF UpMessages
      <4>2. m.file \notin open BY <4>1, <3>1 DEF Naming
      <4>3. disk[m.file] \in Nat BY <3>3 DEF Typed, TypeOK
      <4> QED BY <4>2, <4>3, <3>3, <3>u, <2>2 DEF ReadClose
    <3>4. CASE m.kind = "flush" /\ ReadFlush(m) /\ m.waiter \in Waiters
      BY <3>4, <3>u, <1>4 DEF ReadFlush, models, Tip
    <3> QED BY <3>0, <3>2, <3>3, <3>4
  <2>4. ASSUME NEW f \in Files, ExternalRead(f)
        PROVE \A g \in open : g \notin pending' /\ \A n \in v .. Tip' : history'[n][g] = text[g]
    <3>1. f \notin shown /\ disk[f] \in Nat /\ Absorb(f, disk[f]) /\ UNCHANGED history
      BY <2>4 DEF ExternalRead, prover, Typed, TypeOK
    <3>2. f \notin open BY <3>1, <1>3 DEF Settled
    <3> QED BY <3>1, <3>2, <2>2
  <2>5. ASSUME NEW moved \in BOOLEAN, FlushInput(moved)
        PROVE \A g \in open : g \notin pending' /\ \A n \in v .. Tip' : history'[n][g] = text[g]
    <3>1. Grown /\ pending' = {} BY <2>5, InputGiven
    <3>2. CASE UNCHANGED <<history, serial>> BY <3>1, <3>2, <1>4 DEF Tip
    <3>3. CASE /\ Tip' = Tip + 1
               /\ history'[Tip'] = [f \in Files |-> IF f \in pending THEN model[f] ELSE history[Tip][f]]
      <4>1. \A g \in open : history'[Tip'][g] = text[g]
        <5> TAKE g \in open
        <5>1. history'[Tip'][g] = history[Tip][g] BY <3>3, <1>3, <1>4
        <5>2. Tip \in v .. Tip BY <1>0
        <5> QED BY <5>1, <5>2, <1>4
      <4>2. \A n \in v .. Tip : history'[n] = history[n] BY <3>1, <1>0 DEF Grown
      <4>3. \A n \in v .. Tip' : n \in v .. Tip \/ n = Tip' BY <3>3, <1>0
      <4> QED BY <4>1, <4>2, <4>3, <3>1, <1>4
    <3> QED BY <2>5, <3>2, <3>3, InputGiven
  <2>6. CASE Consolidates
    <3>1. /\ UNCHANGED models /\ history' = Append(history, history[Tip])
      BY <2>6, Zenon DEF Consolidates
    <3>2. /\ history'[Tip'] = history[Tip] /\ Tip' = Tip + 1
          /\ \A n \in 1 .. Tip : history'[n] = history[n]
      BY <3>1, <1>0
    <3>3. Tip \in v .. Tip /\ \A n \in v .. Tip' : n \in v .. Tip \/ n = Tip' BY <3>2, <1>0
    <3>4. \A n \in v .. Tip : n \in 1 .. Tip BY <1>0
    <3>5. pending' = pending BY <3>1 DEF models
    <3>6. \A g \in open : \A n \in v .. Tip' : history'[n][g] = text[g]
      <4> TAKE g \in open
      <4> TAKE n \in v .. Tip'
      <4>1. CASE n \in v .. Tip BY <4>1, <3>2, <3>4, <1>4
      <4>2. CASE n = Tip' BY <4>2, <3>2, <3>3, <1>4
      <4> QED BY <4>1, <4>2, <3>3
    <3> QED BY <3>5, <3>6, <1>4
  <2> QED BY <2>1, <2>3, <2>4, <2>5, <2>6, ModelSteps
<1> QED BY <1>1, <1>2, <1>5 DEF Since

\* Every pending edit is in the version a flush makes, so the tip covers all.
LEMMA InputCovers ==
  ASSUME Typed, Typed', Synced, Tracked, NoText, NEW moved \in BOOLEAN, FlushInput(moved),
         UNCHANGED <<up, open, text, model>>
  PROVE  Since(Tip)'
<1>0. Tip' \in Nat BY DEF Typed, TypeOK, Tip
<1>1. \A f \in open : f \in Files /\ model[f] = text[f] BY AllSettled DEF Settled
<1>2. pending' = {} BY InputGiven
<1>3. \A f \in open : history'[Tip'][f] = text[f]
  <2>1. CASE UNCHANGED <<history, serial>> /\ pending = {}
    BY <2>1, <1>1 DEF Synced, Tip
  <2>2. CASE history'[Tip'] = [f \in Files |-> IF f \in pending THEN model[f] ELSE history[Tip][f]]
    BY <2>2, <1>1 DEF Synced
  <2> QED BY <2>1, <2>2, InputGiven
<1>4. \A n \in Tip' .. Tip' : n = Tip' BY <1>0
<1> QED BY <1>2, <1>3, <1>4 DEF Since, NoText

\* The messages a waiter may find as its flush's reply, after a step.
LEMMA AnswersAre ==
  ASSUME Typed, Typed', [Next]_vars, NEW w \in Waiters, NEW i \in Places(down', Answers(w))
  PROVE  \/ \E k \in Places(down, Answers(w)) : down'[i] = down[k]
         \/ flushes[w].phase = "reply" /\ down'[i].version = flushes[w].version
<1>0. down \in Seq(DownMessages) BY DEF Typed, Queues
<1>1. CASE down' = down BY <1>1
<1>2. CASE ClientReads
  <2>1. down # <<>> /\ down' = Tail(down) BY <1>2, Zenon DEF ClientReads
  <2> QED BY <2>1, DownKeeps
<1>3. ASSUME NEW r \in Seq(Pushes), down' = down \o r
      PROVE \E k \in Places(down, Answers(w)) : down'[i] = down[k]
  <2>1. r \in Seq(DownMessages) /\ \A j \in 1 .. Len(r) : r[j] \in Pushes
    BY <1>3 DEF DownMessages
  <2>2. \A j \in 1 .. Len(r) : r[j] \notin Answers(w) BY <2>1 DEF Pushes, Answers
  <2> QED BY <2>1, <2>2, <1>3, DownKeeps
<1>4. ASSUME NEW v \in Waiters, FlushReplies(v)
      PROVE  \/ \E k \in Places(down, Answers(w)) : down'[i] = down[k]
             \/ flushes[w].phase = "reply" /\ down'[i].version = flushes[w].version
  <2> DEFINE m == [kind |-> "flushed", waiter |-> v, version |-> flushes[v].version]
  <2>1. down' = Append(down, m) /\ flushes[v].phase = "reply"
    BY <1>4, Zenon DEF FlushReplies
  <2>2. m \in DownMessages BY DEF Typed, TypeOK, DownMessages
  <2>3. w # v => m \notin Answers(w) BY DEF Answers
  <2>m. m.version = flushes[v].version OBVIOUS
  <2> HIDE DEF m
  <2>4. /\ Len(down') = Len(down) + 1 /\ down'[Len(down) + 1] = m
        /\ \A j \in 1 .. Len(down) : down'[j] = down[j]
    BY <2>1, <2>2, <1>0, Appended
  <2>5. i \in 1 .. Len(down') /\ down'[i] \in Answers(w) BY DEF Places
  <2>6. CASE i = Len(down) + 1 BY <2>6, <2>5, <2>4, <2>3, <2>1, <2>m
  <2>7. CASE i # Len(down) + 1
    <3>1. i \in 1 .. Len(down) BY <2>7, <2>5, <2>4, <1>0
    <3>2. i \in Places(down, Answers(w)) /\ down'[i] = down[i] BY <3>1, <2>4, <2>5 DEF Places
    <3> QED BY <3>2
  <2> QED BY <2>6, <2>7
<1> QED BY <1>1, <1>2, <1>3, <1>4, DownSteps

LEMMA CoveringKept ==
  ASSUME Typed, Typed', Synced, Tracked, OneFlush, [Next]_vars, sends' = sends, NEW w \in Waiters,
         Covering(w), ~ (Ask(w) /\ WaitStep(w))
  PROVE  Covering(w)'
<1>0. /\ up \in Seq(UpMessages) /\ Tip \in Nat \ {0} /\ Tip' \in Nat \ {0}
      /\ flushes \in [Waiters -> [phase : {"none", "absorb", "await", "reply"}, version : Nat]]
      /\ stable \in 1 .. Tip
  <2>1. history \in Seq([Files -> Nat]) /\ history' \in Seq([Files -> Nat]) BY DEF Typed, TypeOK
  <2>2. stable \in 1 .. Tip /\ stable' \in 1 .. Tip' BY DEF Typed, TypeOK
  <2>3. Tip \in Nat \ {0} /\ Tip' \in Nat \ {0} BY <2>1, <2>2 DEF Tip
  <2>4. up \in Seq(UpMessages) BY DEF Typed, Queues
  <2>5. flushes \in [Waiters -> [phase : {"none", "absorb", "await", "reply"}, version : Nat]]
    BY DEF Typed, TypeOK
  <2> QED BY <2>2, <2>3, <2>4, <2>5
<1>1. \A i \in Places(up', Asking(w)), j \in Places(up', Words) : j <= i
  <2>1. CASE up' = up BY <2>1 DEF Covering
  <2>2. ASSUME NEW m \in UpMessages, up' = Append(up, m), m \notin Words, m \notin Asking(w)
        PROVE \A i \in Places(up', Asking(w)), j \in Places(up', Words) : j <= i
    BY <2>2, <1>0, PlacesAppended DEF Covering
  <2>3. CASE ServerReads
    <3>1. up # <<>> /\ up' = Tail(up) BY <2>3, ServerReadsWhich
    <3>2. \A i \in Places(up', Asking(w)) : i + 1 \in Places(up, Asking(w)) /\ i \in Nat
      BY <3>1, <1>0, PlacesTail DEF Places
    <3>3. \A i \in Places(up', Words) : i + 1 \in Places(up, Words) /\ i \in Nat
      BY <3>1, <1>0, PlacesTail DEF Places
    <3>4. \A i \in Places(up', Asking(w)), j \in Places(up', Words) : j + 1 <= i + 1
      BY <3>2, <3>3 DEF Covering
    <3> QED BY <3>2, <3>3, <3>4
  <2>4. ASSUME NEW v \in Waiters, WaitStep(v), Ask(v)
        PROVE \A i \in Places(up', Asking(w)), j \in Places(up', Words) : j <= i
    <3> DEFINE m == [kind |-> "flush", waiter |-> v]
    <3>1. v # w /\ up' = Append(up, m) BY <2>4 DEF Ask
    <3>2. m \in UpMessages /\ m \notin Words /\ m \notin Asking(w)
      BY <3>1 DEF UpMessages, Words, Asking
    <3> HIDE DEF m
    <3> QED BY <3>1, <3>2, <2>2
  <2> QED BY <2>1, <2>2, <2>3, <2>4, NoTextSent
<1>2. flushes'[w].phase # "none" => NoText'
  <2>1. CASE flushes[w].phase # "none" BY <2>1, NoTextKept DEF Covering
  <2>2. CASE flushes[w].phase = "none" /\ flushes'[w].phase # "none"
    <3>1. ServerReads /\ ReadFlush(Head(up))
      <4>1. ASSUME NEW v \in Waiters, FlushAbsorbs(v) \/ FlushAwaits(v) \/ FlushReplies(v)
            PROVE FALSE
        <5>1. v # w => flushes'[w] = flushes[w]
          BY <4>1, <1>0 DEF FlushAbsorbs, FlushAwaits, FlushReplies, Phase
        <5>2. v = w => flushes'[w].phase = "none" \/ flushes[w].phase # "none"
          BY <4>1 DEF FlushAbsorbs, FlushAwaits, FlushReplies
        <5> QED BY <5>1, <5>2, <2>2
      <4> QED BY <4>1, <2>2, FlushSteps
    <3> DEFINE m == Head(up)
    <3>2. flushes' = [flushes EXCEPT ![m.waiter] = [phase |-> "absorb", version |-> 0]]
      BY <3>1 DEF ReadFlush
    <3> HIDE DEF m
    <3>3. m.waiter = w BY <3>2, <2>2, <1>0
    <3>4. /\ up # <<>> /\ up' = Tail(up) /\ m \in UpMessages
          /\ (\/ m.kind = "text" /\ ReadText(m) /\ m.file \in Files
              \/ m.kind = "close" /\ ReadClose(m) /\ m.file \in Files
              \/ m.kind = "flush" /\ ReadFlush(m) /\ m.waiter \in Waiters)
      BY <3>1, ServerReadsWhich DEF m
    <3>5. m.kind = "flush" BY <3>4, <2>2 DEF ReadText, ReadClose
    <3>6. m = [kind |-> "flush", waiter |-> w] BY <3>3, <3>4, <3>5 DEF UpMessages
    <3>7. 1 \in Places(up, Asking(w)) BY <3>6, <3>4, <1>0, PlacesTail DEF Asking, m
    <3>8. \A j \in Places(up', Words) : j + 1 \in Places(up, Words) /\ j \in Nat \ {0}
      BY <3>4, <1>0, PlacesTail DEF Places
    <3>9. \A j \in Places(up', Words) : j + 1 <= 1 /\ j \in Nat \ {0} BY <3>7, <3>8 DEF Covering
    <3> QED BY <3>9 DEF NoText
  <2> QED BY <2>1, <2>2
<1>3. ASSUME flushes'[w].phase = "await" PROVE Since(Tip)'
  <2>1. CASE flushes[w].phase = "await"
    <3>1. PICK v \in 1 .. Tip : v = Tip BY <1>0
    <3>2. Since(v)' BY <2>1, <3>1, SinceKept DEF Covering
    <3>3. Tip' >= Tip
      <4>1. Grown BY HistoryGrows
      <4> QED BY <4>1, <1>0 DEF Grown
    <3>4. \A n \in Tip' .. Tip' : n \in v .. Tip' BY <3>1, <3>3, <1>0
    <3> QED BY <3>2, <3>4 DEF Since, NoText
  <2>2. CASE flushes[w].phase # "await"
    <3>1. FlushAbsorbs(w)
      <4>1. CASE ReadFlush(Head(up)) /\ ServerReads
        <5>1. Head(up).waiter \in Waiters \/ UNCHANGED flushes
          BY <4>1, ServerReadsWhich DEF ReadText, ReadClose
        <5> QED BY <5>1, <4>1, <1>3, <2>2, <1>0 DEF ReadFlush
      <4>2. ASSUME NEW v \in Waiters, FlushAwaits(v) \/ FlushReplies(v) PROVE FALSE
        <5>1. v # w => flushes'[w] = flushes[w]
          BY <4>2, <1>0 DEF FlushAwaits, FlushReplies, Phase
        <5>2. v = w => flushes'[w].phase \in {"reply", "none"}
          <6>1. CASE FlushAwaits(v) BY <6>1, <1>0 DEF FlushAwaits, Phase
          <6>2. CASE FlushReplies(v) BY <6>2, <1>0 DEF FlushReplies, Phase
          <6> QED BY <4>2, <6>1, <6>2
        <5> QED BY <5>1, <5>2, <1>3, <2>2
      <4>3. ASSUME NEW v \in Waiters, FlushAbsorbs(v) PROVE v = w
        BY <4>3, <1>3, <2>2, <1>0 DEF FlushAbsorbs, Phase
      <4> QED BY <4>1, <4>2, <4>3, <1>3, <2>2, FlushSteps
    <3>2. PICK moved \in Moves : FlushInput(moved) BY <3>1, Zenon DEF FlushAbsorbs
    <3>3. moved \in BOOLEAN /\ UNCHANGED <<up, open, text, model>>
      BY <3>1, <3>2 DEF Moves, FlushAbsorbs, client
    <3>4. NoText BY <3>1 DEF FlushAbsorbs, Covering
    <3> QED BY <3>2, <3>3, <3>4, InputCovers
  <2> QED BY <2>1, <2>2
<1>4. ASSUME flushes'[w].phase = "reply" PROVE Since(flushes[w].version)'
  <2>1. CASE flushes[w].phase = "reply"
    <3>1. PICK v \in 1 .. Tip : v = flushes[w].version BY <2>1 DEF Typed, Versions
    <3>2. Since(v)' BY <2>1, <3>1, SinceKept DEF Covering
    <3>3. flushes'[w] = flushes[w]
      <4>1. CASE ReadFlush(Head(up)) /\ ServerReads
        <5>1. Head(up).waiter \in Waiters \/ UNCHANGED flushes
          BY <4>1, ServerReadsWhich DEF ReadText, ReadClose
        <5> QED BY <5>1, <4>1, <1>4, <1>0 DEF ReadFlush
      <4>2. ASSUME NEW u \in Waiters, FlushAbsorbs(u) \/ FlushAwaits(u) \/ FlushReplies(u)
            PROVE flushes'[w] = flushes[w]
        BY <4>2, <1>4, <2>1, <1>0 DEF FlushAbsorbs, FlushAwaits, FlushReplies, Phase
      <4> QED BY <4>1, <4>2, FlushSteps
    <3> QED BY <3>1, <3>2, <3>3
  <2>2. CASE flushes[w].phase # "reply"
    <3>1. FlushAwaits(w)
      <4>1. CASE ReadFlush(Head(up)) /\ ServerReads
        <5>1. Head(up).waiter \in Waiters \/ UNCHANGED flushes
          BY <4>1, ServerReadsWhich DEF ReadText, ReadClose
        <5> QED BY <5>1, <4>1, <1>4, <2>2, <1>0 DEF ReadFlush
      <4>2. ASSUME NEW v \in Waiters, FlushAbsorbs(v) \/ FlushReplies(v) PROVE FALSE
        BY <4>2, <1>4, <2>2, <1>0 DEF FlushAbsorbs, FlushReplies, Phase
      <4>3. ASSUME NEW v \in Waiters, FlushAwaits(v) PROVE v = w
        BY <4>3, <1>4, <2>2, <1>0 DEF FlushAwaits, Phase
      <4> QED BY <4>1, <4>2, <4>3, <1>4, <2>2, FlushSteps
    <3>2. flushes[w].phase = "await" /\ stable = Tip /\ flushes'[w].version = stable
      BY <3>1, <1>0 DEF FlushAwaits, Phase
    <3>3. PICK v \in 1 .. Tip : v = Tip BY <1>0
    <3>4. Since(v)' BY <3>2, <3>3, SinceKept DEF Covering
    <3> QED BY <3>2, <3>3, <3>4
  <2> QED BY <2>1, <2>2
<1>5. ASSUME NEW i \in Places(down', Answers(w)) PROVE Since(down[i].version)'
  <2>1. CASE \E k \in Places(down, Answers(w)) : down'[i] = down[k]
    <3>1. PICK k \in Places(down, Answers(w)) : down'[i] = down[k] BY <2>1
    <3>2. PICK v \in 1 .. Tip : v = down[k].version BY DEF Typed, Versions, Places
    <3>3. Since(v)' BY <3>2, SinceKept DEF Covering
    <3> QED BY <3>1, <3>2, <3>3
  <2>2. CASE flushes[w].phase = "reply" /\ down'[i].version = flushes[w].version
    <3>1. PICK v \in 1 .. Tip : v = flushes[w].version BY <2>2 DEF Typed, Versions
    <3>2. Since(v)' BY <2>2, <3>1, SinceKept DEF Covering
    <3> QED BY <2>2, <3>1, <3>2
  <2> QED BY <2>1, <2>2, AnswersAre
<1> QED BY <1>1, <1>2, <1>3, <1>4, <1>5 DEF Covering

LEMMA CoversStep ==
  ASSUME Typed, Typed', Synced, Counters, Tracked, OneFlush, Covers, [Next]_vars
  PROVE  Covers'
<1>0. /\ sends \in Nat /\ flushed \in Nat /\ snapshot \in [Waiters -> Nat]
      /\ pc \in [Waiters -> {"idle", "asked", "parked", "done", "failed"}]
      /\ newest \in 1 .. Tip /\ Tip \in Nat /\ newest' \in Nat
  BY DEF Typed, TypeOK, Tip, Versions
<1>1. ASSUME NEW f \in Files, Open(f) \/ Change(f) PROVE Covers'
  <2>1. PICK t \in Nat : SendText(f, t) BY <1>1, TextsTyped
  <2>2. sends' = sends + 1 /\ UNCHANGED <<flushed, snapshot>> BY <2>1 DEF SendText, Write, waits
  <2>3. sends' # flushed' /\ \A w \in Waiters : snapshot'[w] # sends'
    BY <2>2, <1>0 DEF Counters
  <2> QED BY <2>3 DEF Covers
<1>2. ASSUME NEW w \in Waiters, WaitStep(w), Ask(w) PROVE Covering(w)'
  <2> DEFINE m == [kind |-> "flush", waiter |-> w]
  <2>1. /\ up' = Append(up, m) /\ UNCHANGED <<down, flushes>> /\ pc[w] \in {"idle", "parked"}
    <3>1. pc'[w] = "asked" BY <1>2, <1>0 DEF Ask
    <3>2. ~WaitReturns(w) BY <3>1, <1>0 DEF WaitReturns
    <3>3. WaitStarts(w) \/ WaitRearms(w) BY <1>2, <3>2 DEF WaitStep
    <3> QED BY <1>2, <3>3, Zenon DEF WaitStarts, WaitRearms, Ask
  <2>2. m \in UpMessages /\ m \notin Words /\ m \in Asking(w) BY DEF UpMessages, Words, Asking
  <2> HIDE DEF m
  <2>3. Quiet(w) BY <2>1 DEF OneFlush
  <2>4. up \in Seq(UpMessages) BY DEF Typed, Queues
  <2>5. Places(up', Asking(w)) = {Len(up) + 1} /\ Places(up', Words) = Places(up, Words)
    BY <2>1, <2>2, <2>3, <2>4, PlacesAppended DEF Quiet
  <2>6. \A j \in Places(up, Words) : j <= Len(up) + 1 BY <2>4 DEF Places
  <2> QED BY <2>1, <2>3, <2>5, <2>6 DEF Covering, Quiet
<1>3. ASSUME sends' = sends, NEW w \in Waiters, pc'[w] = "asked", snapshot'[w] = sends',
             ~ (Ask(w) /\ WaitStep(w))
      PROVE Covering(w)'
  <2>1. pc[w] = "asked" /\ snapshot'[w] = snapshot[w]
    <3>1. CASE UNCHANGED <<client, waits>> BY <3>1, <1>3 DEF waits
    <3>2. CASE ClientReads
      <4>1. UNCHANGED snapshot BY <3>2, Zenon DEF ClientReads
      <4>2. ReadPush(Head(down)) \/ ReadFlushed(Head(down)) BY <3>2, ClientReadsWhich
      <4>3. pc[w] = "asked" BY <4>2, <1>3, <1>0 DEF ReadPush, ReadFlushed
      <4> QED BY <4>1, <4>3
    <3>3. CASE \E f \in Files : Close(f) \/ CloseStalls(f)
      BY <3>3, <1>3 DEF Close, CloseStalls, waits
    <3>4. ASSUME NEW v \in Waiters, WaitStep(v) \/ WaitFails(v)
          PROVE pc[w] = "asked" /\ snapshot'[w] = snapshot[w]
      <4>1. CASE WaitStarts(v) \/ WaitRearms(v)
        <5>1. Ask(v) /\ WaitStep(v) BY <4>1 DEF WaitStarts, WaitRearms, WaitStep
        <5>2. v # w BY <5>1, <1>3
        <5> QED BY <5>1, <5>2, <1>3, <1>0 DEF Ask
      <4>2. CASE WaitReturns(v) \/ WaitFails(v)
        BY <4>2, <1>3, <1>0 DEF WaitReturns, WaitFails
      <4> QED BY <3>4, <4>1, <4>2 DEF WaitStep
    <3>5. ASSUME NEW f \in Files, Open(f) \/ Change(f) PROVE FALSE
      <4>1. sends' = sends + 1 BY <3>5, TextsTyped
      <4> QED BY <4>1, <1>3, <1>0
    <3> QED BY <3>1, <3>2, <3>3, <3>4, <3>5, ClientSteps
  <2>2. Covering(w) BY <2>1, <1>3 DEF Covers
  <2> QED BY <2>2, <1>3, CoveringKept
<1>4. ASSUME sends' = sends, sends' = flushed' PROVE Since(newest)'
  <2>1. PICK v \in 1 .. Tip : v = newest BY <1>0
  <2>2. CASE flushed = sends
    <3>1. Since(v)' BY <2>1, <2>2, <1>4, SinceKept DEF Covers
    <3>2. newest <= newest'
      <4>1. CASE UNCHANGED <<client, waits>> BY <4>1, <1>0 DEF client
      <4>2. CASE ClientReads
        <5>1. ReadPush(Head(down)) \/ ReadFlushed(Head(down)) BY <4>2, ClientReadsWhich
        <5>2. newest' = newest \/ newest' = NewerOf(newest, Head(down).version)
          BY <5>1 DEF ReadPush, ReadFlushed
        <5>3. Head(down).version \in Nat
          BY <4>2, ClientReadsWhich DEF Pushes
        <5> QED BY <5>2, <5>3, <1>0 DEF NewerOf, AtLeastAsNew
      <4>3. CASE \E f \in Files : Open(f) \/ Change(f) \/ Close(f) \/ CloseStalls(f)
        <5>1. UNCHANGED newest BY <4>3, Zenon DEF Open, Change, SendText, Close, CloseStalls
        <5> QED BY <5>1, <1>0
      <4>4. CASE \E w \in Waiters : WaitStep(w) \/ WaitFails(w)
        BY <4>4, <1>0 DEF WaitStep, WaitStarts, WaitRearms, WaitReturns, WaitFails, client
      <4> QED BY <4>1, <4>2, <4>3, <4>4, ClientSteps
    <3>3. \A n \in newest' .. Tip' : n \in v .. Tip'
      <4>1. Tip' \in Nat BY DEF Typed, TypeOK, Tip
      <4> QED BY <4>1, <3>2, <2>1, <1>0
    <3> QED BY <3>1, <3>3 DEF Since, NoText
  <2>3. CASE flushed # sends
    <3>1. ClientReads
      <4>1. ~UNCHANGED flushed BY <2>3, <1>4
      <4>2. ~UNCHANGED <<client, waits>> BY <4>1 DEF client
      <4>3. ~ \E f \in Files : Open(f) \/ Change(f) \/ Close(f) \/ CloseStalls(f)
        BY <4>1 DEF Open, Change, SendText, Close, CloseStalls
      <4>4. ~ \E w \in Waiters : WaitStep(w) \/ WaitFails(w)
        BY <4>1 DEF WaitStep, WaitStarts, WaitRearms, WaitReturns, WaitFails, client
      <4> QED BY <4>2, <4>3, <4>4, ClientSteps
    <3> DEFINE m == Head(down)
    <3>2. /\ down # <<>> /\ ReadFlushed(m)
          /\ m \in [kind : {"flushed"}, waiter : Waiters, version : Nat]
      BY <3>1, <2>3, <1>4, ClientReadsWhich DEF ReadPush
    <3> HIDE DEF m
    <3>3. /\ pc[m.waiter] = "asked" /\ newest' = NewerOf(newest, m.version)
          /\ flushed' = Covered(m.waiter)
      BY <3>2, <2>3, <1>4 DEF ReadFlushed
    <3>4. snapshot[m.waiter] = sends
      BY <3>3, <3>2, <2>3, <1>4, <1>0 DEF Covered, MaxOf
    <3>5. Covering(m.waiter) BY <3>2, <3>3, <3>4 DEF Covers
    <3>6. 1 \in Places(down, Answers(m.waiter)) /\ down[1] = m
      <4>1. down \in Seq(DownMessages) BY DEF Typed, Queues
      <4>2. m \in Answers(m.waiter) BY <3>2 DEF Answers
      <4> QED BY <4>1, <4>2, <3>2, PlacesTail, Shifted DEF m
    <3>7. Since(m.version) BY <3>5, <3>6 DEF Covering
    <3>8. PICK u \in 1 .. Tip : u = m.version BY <3>6 DEF Typed, Versions, Places
    <3>9. Since(u)' BY <3>7, <3>8, <1>4, SinceKept
    <3>10. \A n \in newest' .. Tip' : n \in u .. Tip'
      <4>1. Tip' \in Nat BY DEF Typed, TypeOK, Tip
      <4>2. newest' >= m.version BY <3>3, <3>2, <1>0 DEF NewerOf, AtLeastAsNew
      <4> QED BY <4>1, <4>2, <3>8, <1>0
    <3> QED BY <3>9, <3>10 DEF Since, NoText
  <2> QED BY <2>2, <2>3
<1>5. CASE sends' = sends
  <2>1. ASSUME NEW w \in Waiters, pc'[w] = "asked", snapshot'[w] = sends' PROVE Covering(w)'
    BY <1>2, <1>3, <1>5, <2>1
  <2> QED BY <2>1, <1>4, <1>5 DEF Covers
<1>6. CASE sends' # sends
  <2>1. ~UNCHANGED <<client, waits>> BY <1>6 DEF client
  <2>2. ~ClientReads BY <1>6 DEF ClientReads
  <2>3. ~ \E f \in Files : Close(f) \/ CloseStalls(f) BY <1>6 DEF Close, CloseStalls
  <2>4. ~ \E w \in Waiters : WaitStep(w) \/ WaitFails(w)
    BY <1>6 DEF WaitStep, WaitStarts, WaitRearms, WaitReturns, WaitFails, client
  <2> QED BY <2>1, <2>2, <2>3, <2>4, <1>1, ClientSteps
<1> QED BY <1>5, <1>6

-----------------------------------------------------------------------------
(* What is pushed is what the version named says.                          *)

\* A push, and the tracker it was folded into, name the text of their version.
PushesTrue == \A i \in 1 .. Len(down) :
  down[i] \in Pushes => down[i].text = history[down[i].version][down[i].file]

TrackersTrue == \A f \in Files :
  \/ tracker[f].stamp = 0 /\ ~tracker[f].full
  \/ /\ tracker[f].stamp \in 1 .. newest
     /\ tracker[f].text = history[tracker[f].stamp][f]

\* While the serial stands, the versions since the one a rendering read are the same.
SerialStands ==
  /\ output.serial <= serial
  /\ output.phase = "state" /\ output.serial = serial =>
       \A n \in output.tip .. Tip : history[n] = history[output.tip]

LEMMA OutputSteps ==
  ASSUME Typed, [Next]_vars
  PROVE UNCHANGED output \/ OutputStarts \/ OutputReads \/ OutputFlushed
<1>1. CASE ServerStep
  <2>1. CASE InputFlushed \/ Assigned \/ ServerReads
    BY <2>1, Zenon DEF InputFlushed, Assigned, ServerReads
  <2>2. CASE \E w \in Waiters : FlushAbsorbs(w) \/ FlushAwaits(w) \/ FlushReplies(w)
    BY <2>2, Zenon DEF FlushAbsorbs, FlushAwaits, FlushReplies
  <2> QED BY <1>1, <2>1, <2>2, Zenon DEF ServerStep
<1>2. CASE OutputSignalled \/ Consolidates \/ ClientReads
  BY <1>2, Zenon DEF OutputSignalled, Consolidates, ClientReads
<1>4. CASE \E f \in Files : DiskEdited(f) \/ ExternalRead(f) \/ Open(f) \/ Change(f)
                            \/ Close(f) \/ CloseStalls(f)
  BY <1>4, Zenon DEF DiskEdited, ExternalRead, Open, Change, SendText, Close, CloseStalls
<1>5. CASE \E w \in Waiters : WaitStep(w) \/ WaitFails(w)
  BY <1>5, Zenon DEF WaitStep, WaitStarts, WaitRearms, WaitReturns, WaitFails
<1>6. CASE UNCHANGED vars BY <1>6, Zenon DEF vars
<1> QED BY <1>1, <1>2, <1>4, <1>5, <1>6, Zenon DEF Next

LEMMA SerialStep ==
  ASSUME Typed, Typed', SerialStands, [Next]_vars PROVE SerialStands'
<1>0. /\ serial \in Nat /\ Tip \in Nat \ {0} /\ history \in Seq([Files -> Nat]) /\ Tip = Len(history)
      /\ output \in [phase : {"none", "serial", "state"}, serial : Nat, tip : Nat, stable : Nat]
      /\ output.phase = "state" => output.tip \in 1 .. Tip
  BY DEF Typed, TypeOK, Tip, Versions
<1>1. ASSUME UNCHANGED <<output, history, serial>> PROVE SerialStands'
  BY <1>1 DEF SerialStands, Tip
<1>2. CASE UNCHANGED output
  <2>1. CASE UNCHANGED <<history, serial, model, pending, shown>> BY <2>1, <1>1, <1>2
  <2>2. CASE ServerReads
    <3>1. UNCHANGED prover BY <2>2, Zenon DEF ServerReads
    <3> QED BY <3>1, <1>1, <1>2 DEF prover
  <2>3. CASE \E f \in Files : ExternalRead(f) BY <2>3, <1>1, <1>2 DEF ExternalRead, prover
  <2>4. ASSUME NEW moved \in BOOLEAN, FlushInput(moved) PROVE SerialStands'
    <3>1. CASE UNCHANGED <<history, serial>> BY <3>1, <1>1, <1>2
    <3>2. CASE serial' = serial + 1 BY <3>2, <1>2, <1>0 DEF SerialStands
    <3> QED BY <2>4, <3>1, <3>2, InputGiven
  <2>5. CASE Consolidates
    <3>1. UNCHANGED serial /\ history' = Append(history, history[Tip])
      BY <2>5, Zenon DEF Consolidates
    <3>2. /\ history'[Tip'] = history[Tip] /\ Tip' = Tip + 1
          /\ \A n \in 1 .. Tip : history'[n] = history[n]
      <4>1. history[Tip] \in [Files -> Nat] BY <1>0
      <4> QED BY <3>1, <4>1, <1>0, Appended DEF Tip
    <3>3. ASSUME output.phase = "state", output.serial = serial, NEW n \in output.tip .. Tip'
          PROVE  history'[n] = history'[output.tip]
      <4>1. output.tip \in 1 .. Tip /\ \A k \in output.tip .. Tip : history[k] = history[output.tip]
        BY <3>3, <1>0 DEF SerialStands
      <4>2. Tip \in output.tip .. Tip /\ Tip \in 1 .. Tip BY <4>1, <1>0
      <4>3. CASE n = Tip' BY <4>3, <4>1, <4>2, <3>2
      <4>4. CASE n # Tip'
        <5>1. n \in output.tip .. Tip /\ n \in 1 .. Tip BY <4>4, <4>1, <3>2, <1>0
        <5> QED BY <5>1, <4>1, <3>2
      <4> QED BY <4>3, <4>4
    <3> QED BY <3>1, <3>3, <1>2 DEF SerialStands
  <2> QED BY <2>1, <2>2, <2>3, <2>4, <2>5, ModelSteps
<1>3. CASE OutputStarts
  BY <1>3, <1>0 DEF OutputStarts, NoOutput, SerialStands, prover
<1>4. CASE OutputReads
  <2>1. /\ output' = [output EXCEPT !.phase = "state", !.tip = Tip, !.stable = stable]
        /\ UNCHANGED prover
    BY <1>4, Zenon DEF OutputReads
  <2>2. output'.serial = output.serial /\ output'.tip = Tip BY <2>1, <1>0
  <2>3. serial' = serial /\ Tip' = Tip /\ history' = history BY <2>1 DEF prover, Tip
  <2>4. \A n \in Tip .. Tip : n = Tip BY <1>0
  <2> QED BY <2>2, <2>3, <2>4 DEF SerialStands
<1>5. CASE OutputFlushed
  <2>1. output' = NoOutput /\ UNCHANGED prover BY <1>5, Zenon DEF OutputFlushed
  <2> QED BY <2>1, <1>0 DEF NoOutput, SerialStands, prover
<1> QED BY <1>2, <1>3, <1>4, <1>5, OutputSteps

\* A rendering that may be published stands on the texts of the version it names.
LEMMA PublishedTrue ==
  ASSUME Typed, Synced, SerialStands, MayPublish, output.phase = "state",
         NEW look, NEW pushes, Published(look, pushes), NEW i \in 1 .. Len(pushes)
  PROVE  pushes[i].text = history[pushes[i].version][pushes[i].file]
<1>1. PICK f \in DOMAIN look : \E e \in Entries(f, look[f]) : pushes[i] = Push(f, look[f], e)
  BY Zenon DEF Published
<1>2. PICK e \in Entries(f, look[f]) : pushes[i] = Push(f, look[f], e) BY <1>1
<1>3. f \in shown /\ ~Outdated(f) /\ f \in Files BY DEF Published, Typed, TypeOK
<1>4. Tip \in output.tip .. Tip BY DEF Typed, TypeOK, Versions, Tip
<1>5. history[Tip] = history[output.tip] BY <1>4 DEF SerialStands, MayPublish
<1>6. f \notin pending /\ history[output.tip][f] = history[output.stable][f] BY <1>3 DEF Outdated
<1>7. model[f] = history[output.stable][f] BY <1>3, <1>5, <1>6 DEF Synced
<1> QED BY <1>2, <1>7 DEF Push, RenderedText

\* What may write to the pipe that the client reads.
LEMMA DownWriters ==
  ASSUME Typed, [Next]_vars
  PROVE  \/ down' = down
         \/ ClientReads
         \/ OutputFlushed /\ MayPublish
         \/ \E w \in Waiters : FlushReplies(w)
<1>1. CASE ServerStep
  <2>1. CASE InputFlushed \/ Assigned \/ OutputStarts \/ OutputReads \/ ServerReads
    BY <2>1, Zenon DEF InputFlushed, Assigned, OutputStarts, OutputReads, ServerReads
  <2>2. CASE \E w \in Waiters : FlushAbsorbs(w) \/ FlushAwaits(w)
    BY <2>2, Zenon DEF FlushAbsorbs, FlushAwaits
  <2>3. CASE OutputFlushed /\ ~MayPublish BY <2>3, Zenon DEF OutputFlushed
  <2> QED BY <1>1, <2>1, <2>2, <2>3, Zenon DEF ServerStep
<1>2. CASE OutputSignalled \/ Consolidates
  BY <1>2, Zenon DEF OutputSignalled, Consolidates
<1>3. CASE \E f \in Files : DiskEdited(f) \/ ExternalRead(f) \/ Open(f) \/ Change(f)
                            \/ Close(f) \/ CloseStalls(f)
  BY <1>3, Zenon DEF DiskEdited, ExternalRead, Open, Change, SendText, Close, CloseStalls
<1>4. CASE \E w \in Waiters : WaitStep(w) \/ WaitFails(w)
  BY <1>4, Zenon DEF WaitStep, WaitStarts, WaitRearms, WaitReturns, WaitFails
<1>5. CASE UNCHANGED vars BY <1>5, Zenon DEF vars
<1> QED BY <1>1, <1>2, <1>3, <1>4, <1>5, Zenon DEF Next

\* A message of that pipe was there, or is no push, or is of a rendering.
LEMMA NewMessages ==
  ASSUME Typed, [Next]_vars, NEW i \in 1 .. Len(down')
  PROVE  \/ \E k \in 1 .. Len(down) : down'[i] = down[k]
         \/ down'[i] \notin Pushes
         \/ /\ OutputFlushed /\ MayPublish
            /\ \E look, pushes : /\ Published(look, pushes)
                                 /\ \E k \in 1 .. Len(pushes) : down'[i] = pushes[k]
<1>0. down \in Seq(DownMessages) BY DEF Typed, Queues
<1>1. CASE down' = down BY <1>1
<1>2. CASE ClientReads
  <2>1. down # <<>> /\ down' = Tail(down) BY <1>2, Zenon DEF ClientReads
  <2> QED BY <2>1, <1>0, Shifted
<1>3. ASSUME NEW w \in Waiters, FlushReplies(w)
      PROVE  (\E k \in 1 .. Len(down) : down'[i] = down[k]) \/ down'[i] \notin Pushes
  <2> DEFINE m == [kind |-> "flushed", waiter |-> w, version |-> flushes[w].version]
  <2>1. down' = Append(down, m) BY <1>3, Zenon DEF FlushReplies
  <2>2. m \in DownMessages /\ m \notin Pushes BY DEF Typed, TypeOK, DownMessages, Pushes
  <2> HIDE DEF m
  <2>3. (i \in 1 .. Len(down) /\ down'[i] = down[i]) \/ down'[i] = m
    BY <2>1, <2>2, <1>0, Appended
  <2> QED BY <2>2, <2>3
<1>4. CASE OutputFlushed /\ MayPublish
  <2>1. PICK look, pushes : Published(look, pushes) BY <1>4, OutputPublishes
  <2>2. pushes \in Seq(DownMessages) /\ down' = down \o pushes BY <2>1 DEF Published, DownMessages
  <2>3. /\ Len(down') = Len(down) + Len(pushes) /\ Len(down) \in Nat /\ Len(pushes) \in Nat
        /\ \A k \in 1 .. Len(down) : down'[k] = down[k]
        /\ \A k \in Len(down) + 1 .. Len(down) + Len(pushes) : down'[k] = pushes[k - Len(down)]
    BY <2>2, <1>0, Joined
  <2>4. CASE i <= Len(down) BY <2>3, <2>4
  <2>5. CASE i > Len(down)
    <3>1. i - Len(down) \in 1 .. Len(pushes) /\ down'[i] = pushes[i - Len(down)] BY <2>3, <2>5
    <3> QED BY <3>1, <2>1, <1>4
  <2> QED BY <2>3, <2>4, <2>5
<1> QED BY <1>1, <1>2, <1>3, <1>4, DownWriters

LEMMA PushesStep ==
  ASSUME Typed, Typed', Synced, SerialStands, PushesTrue, [Next]_vars PROVE PushesTrue'
<1>0. /\ \A n \in 1 .. Tip : history'[n] = history[n]
      /\ \A i \in 1 .. Len(down) : down[i].version \in 1 .. Tip
  BY HistoryGrows DEF Grown, Typed, Versions
<1> SUFFICES ASSUME NEW i \in 1 .. Len(down'), down'[i] \in Pushes
             PROVE  down'[i].text = history'[down'[i].version][down'[i].file]
  BY DEF PushesTrue
<1>1. CASE \E k \in 1 .. Len(down) : down'[i] = down[k] BY <1>0, <1>1 DEF PushesTrue
<1>2. CASE OutputFlushed /\ MayPublish /\ \E look, pushes :
             Published(look, pushes) /\ \E k \in 1 .. Len(pushes) : down'[i] = pushes[k]
  <2>1. PICK look, pushes :
          Published(look, pushes) /\ \E k \in 1 .. Len(pushes) : down'[i] = pushes[k]
    BY <1>2
  <2>2. PICK k \in 1 .. Len(pushes) : down'[i] = pushes[k] BY <2>1
  <2>3. output.phase = "state" BY <1>2 DEF OutputFlushed
  <2>4. down'[i].text = history[down'[i].version][down'[i].file]
    BY <2>1, <2>2, <2>3, <1>2, PublishedTrue
  <2>5. PICK f \in DOMAIN look : \E e \in Entries(f, look[f]) : pushes[k] = Push(f, look[f], e)
    BY <2>1, Zenon DEF Published
  <2>6. down'[i].version = output.stable BY <2>2, <2>5 DEF Push
  <2>7. output.stable \in 1 .. Tip BY <2>3 DEF Typed, Versions
  <2> QED BY <2>4, <2>6, <2>7, <1>0
<1> QED BY <1>1, <1>2, NewMessages

\* How a step changes a tracker: a push is folded into that of an open file, or
\* a close forgets it.
LEMMA TrackerSteps ==
  ASSUME Typed, [Next]_vars, NEW f \in Files
  PROVE  /\ newest \in Nat /\ newest' \in Nat /\ newest <= newest'
         /\ \/ tracker'[f] = tracker[f]
            \/ tracker'[f] = NoTracker /\ Close(f)
            \/ /\ ClientReads /\ f \in open /\ Head(down) \in Pushes /\ Head(down).file = f
               /\ tracker'[f] = Folded(tracker[f], Head(down))
               /\ Head(down).version <= newest'
<1>0. newest \in Nat /\ tracker \in [Files -> Tracker]
  <2> HIDE DEF Tracker
  <2> QED BY DEF Typed, TypeOK
<1>1. CASE UNCHANGED <<client, waits>> BY <1>0, <1>1 DEF client
<1>2. CASE ClientReads
  <2> DEFINE m == Head(down)
  <2>1. \/ ReadPush(m) /\ m \in Pushes
        \/ ReadFlushed(m) /\ m \in [kind : {"flushed"}, waiter : Waiters, version : Nat]
    BY <1>2, ClientReadsWhich
  <2> HIDE DEF m
  <2>2. CASE ReadPush(m) /\ m \in Pushes
    <3>1. m.version \in Nat /\ m.file \in Files BY <2>2 DEF Pushes
    <3>2. /\ newest' = NewerOf(newest, m.version)
          /\ tracker' = IF m.file \in open
                        THEN [tracker EXCEPT ![m.file] = Folded(tracker[m.file], m)] ELSE tracker
      BY <2>2 DEF ReadPush
    <3>3. newest <= newest' /\ m.version <= newest' /\ newest' \in Nat
      BY <3>1, <3>2, <1>0 DEF NewerOf, AtLeastAsNew
    <3>4. tracker'[f] = tracker[f]
          \/ (m.file = f /\ f \in open /\ tracker'[f] = Folded(tracker[f], m))
      BY <3>1, <3>2, <1>0
    <3> QED BY <3>3, <3>4, <2>2, <1>2, <1>0 DEF m
  <2>3. CASE ReadFlushed(m) /\ m \in [kind : {"flushed"}, waiter : Waiters, version : Nat]
    <3>1. tracker' = tracker BY <2>3 DEF ReadFlushed
    <3>2. newest' = newest \/ newest' = NewerOf(newest, m.version) BY <2>3 DEF ReadFlushed
    <3>3. newest <= newest' /\ newest' \in Nat BY <2>3, <3>2, <1>0 DEF NewerOf, AtLeastAsNew
    <3> QED BY <3>1, <3>3, <1>0
  <2> QED BY <2>1, <2>2, <2>3
<1>3. ASSUME NEW g \in Files, Open(g) \/ Change(g) \/ Close(g) \/ CloseStalls(g)
      PROVE  newest' = newest /\ (tracker'[f] = tracker[f] \/ (tracker'[f] = NoTracker /\ Close(f)))
  <2>1. CASE Open(g) \/ Change(g) \/ CloseStalls(g)
    <3>1. UNCHANGED <<newest, tracker>> BY <2>1, Zenon DEF Open, Change, SendText, CloseStalls
    <3> QED BY <3>1
  <2>2. CASE Close(g)
    <3>1. tracker' = [tracker EXCEPT ![g] = NoTracker] /\ newest' = newest
      BY <2>2, Zenon DEF Close
    <3> QED BY <3>1, <2>2, <1>0
  <2> QED BY <1>3, <2>1, <2>2
<1>4. CASE \E w \in Waiters : WaitStep(w) \/ WaitFails(w)
  <2>1. UNCHANGED client
    BY <1>4, Zenon DEF WaitStep, WaitStarts, WaitRearms, WaitReturns, WaitFails
  <2> QED BY <2>1, <1>0 DEF client
<1> QED BY <1>0, <1>1, <1>2, <1>3, <1>4, ClientSteps

LEMMA TrackersStep ==
  ASSUME Typed, Typed', PushesTrue, TrackersTrue, [Next]_vars PROVE TrackersTrue'
<1> SUFFICES ASSUME NEW f \in Files
             PROVE  \/ tracker'[f].stamp = 0 /\ ~tracker'[f].full
                    \/ /\ tracker'[f].stamp \in 1 .. newest'
                       /\ tracker'[f].text = history'[tracker'[f].stamp][f]
  BY DEF TrackersTrue
<1>1. \A n \in 1 .. Tip : history'[n] = history[n] BY HistoryGrows DEF Grown
<1>2. newest \in Nat /\ newest' \in Nat /\ newest <= newest' BY TrackerSteps
<1>3. newest <= Tip /\ Tip \in Nat BY DEF Typed, TypeOK, Versions, Tip
<1>4. CASE tracker'[f] = tracker[f]
  BY <1>1, <1>2, <1>3, <1>4 DEF TrackersTrue
<1>5. CASE tracker'[f] = NoTracker BY <1>5 DEF NoTracker
<1>6. CASE /\ ClientReads /\ Head(down) \in Pushes /\ Head(down).file = f
           /\ tracker'[f] = Folded(tracker[f], Head(down))
           /\ Head(down).version <= newest'
  <2>1. down # <<>> /\ down \in Seq(DownMessages)
    BY <1>6 DEF ClientReads, Typed, Queues
  <2>2. Head(down) = down[1] /\ 1 \in 1 .. Len(down) BY <2>1, Shifted
  <2>3. down[1].version \in 1 .. Tip BY <2>2 DEF Typed, Versions
  <2>4. down[1].text = history[down[1].version][f] BY <1>6, <2>2 DEF PushesTrue
  <2>5. tracker'[f].stamp = down[1].version /\ tracker'[f].text = down[1].text
    BY <1>6, <2>2 DEF Folded
  <2> QED BY <2>2, <2>3, <2>4, <2>5, <1>1, <1>2, <1>6
<1> QED BY <1>4, <1>5, <1>6, TrackerSteps

-----------------------------------------------------------------------------
(* The picture of a file, from the tracker along the pushes to the base.   *)

Picture == [Types -> Looks \cup {Blank}]
PushOf(f, m) == m \in Pushes /\ m.file = f

\* pic[i] is the picture after the first i messages: a push states it, and names
\* every type in which it differs from the one before.
Painting(f, pic) ==
  /\ pic \in [0 .. Len(down) -> Picture]
  /\ tracker[f].full => pic[0] = tracker[f].whole
  /\ base[f] # NoBase => pic[Len(down)] = base[f].picture
  /\ \A i \in 1 .. Len(down) :
       IF PushOf(f, down[i])
       THEN /\ pic[i] = down[i].whole
            /\ \A t \in Types \ DOMAIN down[i].entries : down[i].whole[t] = pic[i - 1][t]
       ELSE pic[i] = pic[i - 1]

Painted == \A f \in Files : \E pic : Painting(f, pic)

EntriesTrue == \A i \in 1 .. Len(down) :
  down[i] \in Pushes => \A t \in DOMAIN down[i].entries : down[i].entries[t] = down[i].whole[t]

CachesWhole == \A f \in Files :
  tracker[f].full => f \in open /\ tracker[f].cache = tracker[f].whole

\* Messages behind the others: those that push f state the picture p.
LEMMA PaintedOn ==
  ASSUME Typed, NEW f \in Files, NEW pic, Painting(f, pic), NEW r \in Seq(DownMessages),
         down' = down \o r, tracker'[f] = tracker[f], NEW p \in Picture,
         \A k \in 1 .. Len(r) : PushOf(f, r[k]) =>
           /\ r[k].whole = p
           /\ \A t \in Types \ DOMAIN r[k].entries : p[t] = pic[Len(down)][t],
         base'[f] # NoBase =>
           base'[f].picture = IF \E k \in 1 .. Len(r) : PushOf(f, r[k]) THEN p ELSE pic[Len(down)]
  PROVE  \E new : Painting(f, new)'
<1> DEFINE n == Len(down)
           By(i) == \E k \in 1 .. i - n : PushOf(f, r[k])
           new == [i \in 0 .. Len(down') |-> IF i <= n THEN pic[i] ELSE IF By(i) THEN p ELSE pic[n]]
<1>0. /\ n \in Nat /\ Len(r) \in Nat /\ Len(down') = n + Len(r)
      /\ \A i \in 1 .. n : down'[i] = down[i]
      /\ \A i \in n + 1 .. n + Len(r) : down'[i] = r[i - n]
  <2>1. down \in Seq(DownMessages) BY DEF Typed, Queues
  <2> QED BY <2>1, Joined
<1>1. pic \in [0 .. n -> Picture] BY DEF Painting
<1>2. new \in [0 .. Len(down') -> Picture]
  <2> HIDE DEF n, By, Picture
  <2>1. n \in 0 .. n /\ \A i \in 0 .. Len(down') : i <= n => i \in 0 .. n BY <1>0
  <2> QED BY <1>1, <2>1
<1>3. new[0] = pic[0] /\ \A i \in 0 .. n : i \in 0 .. Len(down') /\ new[i] = pic[i] BY <1>0
<1>4. base'[f] # NoBase => new[Len(down')] = base'[f].picture
  <2>1. CASE Len(r) = 0
    <3>1. new[Len(down')] = pic[n] BY <2>1, <1>0
    <3>2. ~ \E k \in 1 .. Len(r) : PushOf(f, r[k]) BY <2>1
    <3> QED BY <3>1, <3>2
  <2>2. CASE Len(r) # 0
    <3>1. ~(Len(down') <= n) /\ Len(down') - n = Len(r) /\ Len(down') \in 0 .. Len(down')
      BY <2>2, <1>0
    <3>2. new[Len(down')] = IF By(Len(down')) THEN p ELSE pic[n] BY <3>1
    <3>3. By(Len(down')) <=> \E k \in 1 .. Len(r) : PushOf(f, r[k]) BY <3>1
    <3> QED BY <3>2, <3>3
  <2> QED BY <2>1, <2>2
<1>5. ASSUME NEW i \in 1 .. Len(down')
      PROVE  IF PushOf(f, down'[i])
             THEN /\ new[i] = down'[i].whole
                  /\ \A t \in Types \ DOMAIN down'[i].entries : down'[i].whole[t] = new[i - 1][t]
             ELSE new[i] = new[i - 1]
  <2>1. CASE i <= n
    <3>1. i \in 1 .. n /\ i \in 0 .. n /\ i - 1 \in 0 .. n BY <2>1, <1>0
    <3>2. new[i] = pic[i] /\ new[i - 1] = pic[i - 1] /\ down'[i] = down[i] BY <3>1, <1>0, <1>3
    <3> HIDE DEF new
    <3> QED BY <3>1, <3>2 DEF Painting
  <2>2. CASE i > n
    <3> DEFINE k == i - n
    <3>1. k \in 1 .. Len(r) /\ down'[i] = r[k] /\ i \in 0 .. Len(down') BY <2>2, <1>0
    <3>2. new[i] = IF By(i) THEN p ELSE pic[n] BY <2>2, <3>1, <1>0
    <3>3. new[i - 1] = IF k = 1 THEN pic[n] ELSE IF By(i - 1) THEN p ELSE pic[n]
      <4>1. CASE k = 1
        <5>1. i - 1 = n /\ n \in 0 .. n BY <4>1, <1>0, <2>2
        <5> HIDE DEF new, n, k
        <5> QED BY <4>1, <5>1, <1>3
      <4>2. CASE k # 1
        <5>1. ~(i - 1 <= n) /\ i - 1 \in 0 .. Len(down') BY <4>2, <3>1, <1>0, <2>2
        <5> QED BY <4>2, <5>1
      <4> QED BY <4>1, <4>2
    <3>4. CASE PushOf(f, r[k])
      <4>1. By(i) BY <3>1, <3>4
      <4>2. new[i] = p /\ new[i - 1] \in {p, pic[n]} BY <3>2, <3>3, <4>1
      <4> HIDE DEF new, By, k, n
      <4>3. r[k].whole = p /\ \A t \in Types \ DOMAIN r[k].entries : p[t] = pic[n][t]
        BY <3>1, <3>4 DEF n
      <4> QED BY <4>2, <4>3, <3>1, <3>4
    <3>5. CASE ~PushOf(f, r[k])
      <4>1. By(i) <=> k # 1 /\ By(i - 1)
        <5>1. \A j \in 1 .. i - n : j # i - n => j \in 1 .. (i - 1) - n BY <1>0, <2>2
        <5>2. \A j \in 1 .. (i - 1) - n : j \in 1 .. i - n BY <1>0, <2>2
        <5>3. ASSUME By(i) PROVE k # 1 /\ By(i - 1)
          <6>1. PICK j \in 1 .. i - n : PushOf(f, r[j]) BY <5>3
          <6>2. j # k BY <6>1, <3>5
          <6>3. j \in 1 .. (i - 1) - n /\ k # 1 BY <6>1, <6>2, <5>1, <1>0
          <6> QED BY <6>1, <6>3
        <5> QED BY <5>2, <5>3
      <4>2. new[i] = new[i - 1] BY <3>2, <3>3, <4>1
      <4> QED BY <4>2, <3>1, <3>5
    <3> QED BY <3>4, <3>5
  <2>3. i <= n \/ i > n BY <1>0
  <2> HIDE DEF new, n
  <2> QED BY <2>1, <2>2, <2>3
<1>6. tracker'[f].full => new[0] = tracker'[f].whole BY <1>3 DEF Painting
<1> HIDE DEF new
<1> QED BY <1>2, <1>4, <1>5, <1>6 DEF Painting

LEMMA BaseSteps ==
  ASSUME Typed, [Next]_vars, NEW f \in Files
  PROVE  base'[f] = base[f] \/ base'[f] = NoBase \/ (OutputFlushed /\ MayPublish)
<1>0. DOMAIN base = Files BY DEF Typed, TypeOK
<1>1. CASE ServerStep
  <2>1. CASE InputFlushed \/ Assigned \/ OutputStarts \/ OutputReads
    <3>1. UNCHANGED models \/ UNCHANGED base
      BY <2>1, Zenon DEF InputFlushed, Assigned, OutputStarts, OutputReads
    <3> QED BY <3>1 DEF models
  <2>2. CASE \E w \in Waiters : FlushAbsorbs(w) \/ FlushAwaits(w) \/ FlushReplies(w)
    <3>1. UNCHANGED models \/ UNCHANGED base
      BY <2>2, Zenon DEF FlushAbsorbs, FlushAwaits, FlushReplies
    <3> QED BY <3>1 DEF models
  <2>3. CASE ServerReads
    <3>1. \/ ReadText(Head(up))
          \/ ReadClose(Head(up)) /\ Head(up).file \in Files
          \/ ReadFlush(Head(up))
      BY <2>3, ServerReadsWhich
    <3>2. CASE ReadText(Head(up)) \/ ReadFlush(Head(up)) BY <3>2 DEF ReadText, ReadFlush, models
    <3>3. CASE ReadClose(Head(up)) /\ Head(up).file \in Files BY <3>3, <1>0 DEF ReadClose
    <3> QED BY <3>1, <3>2, <3>3
  <2>4. CASE OutputFlushed /\ ~MayPublish BY <2>4, Zenon DEF OutputFlushed
  <2> QED BY <1>1, <2>1, <2>2, <2>3, <2>4, Zenon DEF ServerStep
<1>2. CASE OutputSignalled \/ Consolidates \/ ClientReads
  <2>1. UNCHANGED models BY <1>2, Zenon DEF OutputSignalled, Consolidates, ClientReads
  <2> QED BY <2>1 DEF models
<1>3. CASE \E g \in Files : DiskEdited(g) \/ ExternalRead(g) \/ Open(g) \/ Change(g)
                            \/ Close(g) \/ CloseStalls(g)
  <2>1. UNCHANGED models \/ UNCHANGED base
    BY <1>3, Zenon DEF DiskEdited, ExternalRead, Open, Change, SendText, Close, CloseStalls
  <2> QED BY <2>1 DEF models
<1>4. CASE \E w \in Waiters : WaitStep(w) \/ WaitFails(w)
  <2>1. UNCHANGED models
    BY <1>4, Zenon DEF WaitStep, WaitStarts, WaitRearms, WaitReturns, WaitFails
  <2> QED BY <2>1 DEF models
<1>5. CASE UNCHANGED vars BY <1>5 DEF vars, models
<1> QED BY <1>1, <1>2, <1>3, <1>4, <1>5, Zenon DEF Next

\* A rendering pushes one picture of a file, the one its baseline is set to.
LEMMA PaintedOutput ==
  ASSUME Typed, OutputFlushed, MayPublish, NEW f \in Files, NEW pic, Painting(f, pic)
  PROVE  \E new : Painting(f, new)'
<1>1. PICK look, pushes : Published(look, pushes) BY OutputPublishes
<1>2. /\ pushes \in Seq(DownMessages) /\ down' = down \o pushes
      /\ look \in [{g \in shown : ~Outdated(g)} -> Pictures]
  BY <1>1 DEF Published, DownMessages
<1>3. tracker'[f] = tracker[f] BY DEF OutputFlushed, client
<1>4. \A k \in 1 .. Len(pushes) : \E g \in DOMAIN look : \E e \in Entries(g, look[g]) :
        pushes[k] = Push(g, look[g], e)
  BY <1>1, Zenon DEF Published
<1>5. DOMAIN look \subseteq Files /\ \A g \in DOMAIN look : look[g] \in Pictures
  BY <1>2 DEF Typed, TypeOK
<1>n. Len(down) \in 0 .. Len(down) BY DEF Typed, Queues
<1>6. CASE f \notin DOMAIN look
  <2>1. \A k \in 1 .. Len(pushes) : ~PushOf(f, pushes[k])
    <3> TAKE k \in 1 .. Len(pushes)
    <3>1. PICK g \in DOMAIN look : \E e \in Entries(g, look[g]) : pushes[k] = Push(g, look[g], e)
      BY <1>4
    <3> QED BY <3>1, <1>6 DEF Push, PushOf
  <2>2. base'[f] = base[f] BY <1>1, <1>6 DEF Published
  <2>3. pic[Len(down)] \in Picture BY <1>n DEF Painting
  <2>4. base'[f] # NoBase => base'[f].picture = pic[Len(down)] BY <2>2 DEF Painting
  <2> QED BY <2>1, <2>3, <2>4, <1>2, <1>3, PaintedOn
<1>7. CASE f \in DOMAIN look
  <2> DEFINE p == look[f]
  <2>1. p \in Pictures /\ p \in Picture BY <1>5, <1>7, Looking DEF Picture
  <2>2. base'[f].picture = p BY <1>1, <1>7 DEF Published
  <2> HIDE DEF p
  <2>3. \A k \in 1 .. Len(pushes) : PushOf(f, pushes[k]) =>
          /\ pushes[k].whole = p
          /\ \A t \in Types \ DOMAIN pushes[k].entries : p[t] = pic[Len(down)][t]
    <3> TAKE k \in 1 .. Len(pushes)
    <3> HAVE PushOf(f, pushes[k])
    <3>1. PICK g \in DOMAIN look : \E e \in Entries(g, look[g]) : pushes[k] = Push(g, look[g], e)
      BY <1>4
    <3>2. PICK e \in Entries(g, look[g]) : pushes[k] = Push(g, look[g], e) BY <3>1
    <3>3. g = f /\ pushes[k].whole = p /\ pushes[k].entries = e BY <3>2 DEF Push, PushOf, p
    <3>4. e \in Entries(f, p) BY <3>2, <3>3 DEF p
    <3>5. CASE base[f] = NoBase
      <4>1. DOMAIN e = Types BY <3>4, <3>5, <2>1, EntriesGiven
      <4> QED BY <4>1, <3>3
    <3>6. CASE base[f] # NoBase
      <4>1. \A t \in Types \ DOMAIN e : p[t] = base[f].picture[t]
        BY <3>4, <3>6, <2>1, EntriesGiven
      <4>2. pic[Len(down)] = base[f].picture BY <3>6 DEF Painting
      <4> QED BY <4>1, <4>2, <3>3
    <3> QED BY <3>5, <3>6
  <2>4. p = IF \E k \in 1 .. Len(pushes) : PushOf(f, pushes[k]) THEN p ELSE pic[Len(down)]
    <3>1. CASE Entries(f, p) = {}
      <4>1. output.stable # 0 BY DEF OutputFlushed, Typed, TypeOK, Versions
      <4>2. base[f].picture = p /\ base[f] # NoBase BY <3>1, <4>1, <2>1, EntriesGiven
      <4> QED BY <4>2 DEF Painting
    <3>2. CASE Entries(f, p) # {}
      <4>1. PICK e \in Entries(f, p) : TRUE BY <3>2
      <4>2. PICK k \in 1 .. Len(pushes) : pushes[k] = Push(f, look[f], e)
        BY <1>1, <1>7, <4>1 DEF Published, p
      <4>3. pushes[k] \in Pushes /\ pushes[k].file = f BY <4>2, <1>1 DEF Published, Push
      <4> QED BY <4>3 DEF PushOf
    <3> QED BY <3>1, <3>2
  <2>5. base'[f].picture = IF \E k \in 1 .. Len(pushes) : PushOf(f, pushes[k]) THEN p
                            ELSE pic[Len(down)]
    BY <2>2, <2>4, Zenon
  <2> QED BY <2>1, <2>3, <2>5, <1>2, <1>3, PaintedOn
<1> QED BY <1>6, <1>7

\* A message read off the front.
LEMMA PaintedRead ==
  ASSUME Typed, CachesWhole, ClientReads, NEW f \in Files, NEW pic, Painting(f, pic)
  PROVE  \E new : Painting(f, new)'
<1> DEFINE m == Head(down)
           n == Len(down)
           new == [i \in 0 .. n - 1 |-> pic[i + 1]]
<1>1. down # <<>> /\ down' = Tail(down) /\ base' = base
  <2>1. UNCHANGED models BY Zenon DEF ClientReads
  <2>2. down # <<>> /\ down' = Tail(down) BY Zenon DEF ClientReads
  <2> QED BY <2>1, <2>2 DEF models
<1>2. /\ n \in Nat \ {0} /\ Len(down') = n - 1 /\ m = down[1] /\ m \in DownMessages
      /\ \A i \in 1 .. n - 1 : down'[i] = down[i + 1]
  BY <1>1, Shifted DEF Typed, Queues
<1>3. pic \in [0 .. n -> Picture] BY DEF Painting
<1> HIDE DEF n, m
<1>4. new \in [0 .. Len(down') -> Picture]
  <2> HIDE DEF Picture
  <2>1. \A i \in 0 .. n - 1 : i + 1 \in 0 .. n BY <1>2
  <2> QED BY <1>2, <1>3, <2>1
<1>5. \A i \in 0 .. n - 1 : new[i] = pic[i + 1] OBVIOUS
<1>6. base'[f] # NoBase => new[Len(down')] = base'[f].picture
  <2>1. new[n - 1] = pic[n] BY <1>2, <1>5
  <2> QED BY <2>1, <1>1, <1>2 DEF Painting, n
<1>7. \A i \in 1 .. Len(down') :
        IF PushOf(f, down'[i])
        THEN /\ new[i] = down'[i].whole
             /\ \A t \in Types \ DOMAIN down'[i].entries : down'[i].whole[t] = new[i - 1][t]
        ELSE new[i] = new[i - 1]
  <2> TAKE i \in 1 .. Len(down')
  <2>1. i \in 0 .. n - 1 /\ i - 1 \in 0 .. n - 1 /\ i + 1 \in 1 .. n /\ (i - 1) + 1 = i
        /\ (i + 1) - 1 = i
    BY <1>2
  <2>2. new[i] = pic[i + 1] /\ new[i - 1] = pic[i] /\ down'[i] = down[i + 1]
    BY <2>1, <1>2, <1>5
  <2> HIDE DEF new
  <2> QED BY <2>1, <2>2 DEF Painting, n
<1>8. tracker'[f].full => new[0] = tracker'[f].whole
  <2>0. 0 \in 0 .. n - 1 /\ 1 \in 1 .. n /\ 1 - 1 = 0 BY <1>2
  <2>1. new[0] = pic[1] BY <2>0, <1>5
  <2>2. IF PushOf(f, m) THEN pic[1] = m.whole ELSE pic[1] = pic[0]
    BY <2>0, <1>2 DEF Painting, n
  <2>3. \/ ReadPush(m) /\ m \in Pushes
        \/ ReadFlushed(m) /\ m \in [kind : {"flushed"}, waiter : Waiters, version : Nat]
    BY ClientReadsWhich DEF m
  <2>4. DOMAIN tracker = Files BY DEF Typed, TypeOK
  <2>5. CASE ReadPush(m) /\ PushOf(f, m) /\ f \in open
    <3>1. tracker'[f] = Folded(tracker[f], m) BY <2>5, <2>4 DEF ReadPush, PushOf
    <3> QED BY <3>1, <2>1, <2>2, <2>5 DEF Folded
  <2>6. CASE ReadPush(m) /\ PushOf(f, m) /\ f \notin open
    <3>1. tracker'[f] = tracker[f] BY <2>6, <2>4 DEF ReadPush, PushOf
    <3> QED BY <3>1, <2>6 DEF CachesWhole
  <2>7. CASE ~PushOf(f, m)
    <3>1. tracker'[f] = tracker[f] BY <2>7, <2>3, <2>4 DEF ReadPush, ReadFlushed, PushOf, Pushes
    <3> QED BY <3>1, <2>1, <2>2, <2>7 DEF Painting
  <2>8. PushOf(f, m) => ReadPush(m) BY <2>3 DEF PushOf, Pushes
  <2> QED BY <2>5, <2>6, <2>7, <2>8
<1> HIDE DEF new
<1> QED BY <1>4, <1>6, <1>7, <1>8 DEF Painting

\* A file whose messages stay, and whose baseline may be dropped.
LEMMA PaintedStill ==
  ASSUME NEW f \in Files, NEW pic, Painting(f, pic), down' = down,
         tracker'[f] = tracker[f] \/ ~tracker'[f].full,
         base'[f] = base[f] \/ base'[f] = NoBase
  PROVE  \E new : Painting(f, new)'
BY DEF Painting

LEMMA PaintedStep ==
  ASSUME Typed, CachesWhole, Painted, [Next]_vars PROVE Painted'
<1> SUFFICES ASSUME NEW f \in Files PROVE \E new : Painting(f, new)' BY DEF Painted
<1>1. PICK pic : Painting(f, pic) BY DEF Painted
<1>2. CASE ClientReads BY <1>1, <1>2, PaintedRead
<1>3. CASE OutputFlushed /\ MayPublish BY <1>1, <1>3, PaintedOutput
<1>4. ASSUME NEW w \in Waiters, FlushReplies(w) PROVE \E new : Painting(f, new)'
  <2> DEFINE m == [kind |-> "flushed", waiter |-> w, version |-> flushes[w].version]
  <2>1. down' = Append(down, m) /\ UNCHANGED <<client, models>> BY <1>4, Zenon DEF FlushReplies
  <2>2. m \in DownMessages /\ m \notin Pushes BY DEF Typed, TypeOK, DownMessages, Pushes
  <2> HIDE DEF m
  <2>3. /\ <<m>> \in Seq(DownMessages) /\ \A k \in 1 .. Len(<<m>>) : ~PushOf(f, <<m>>[k])
        /\ down' = down \o <<m>>
    <3>1. down \in Seq(DownMessages) BY DEF Typed, Queues
    <3> QED BY <2>1, <2>2, <3>1 DEF PushOf
  <2>4. tracker' = tracker /\ base' = base BY <2>1 DEF client, models
  <2>5. pic[Len(down)] \in Picture
    <3>1. Len(down) \in 0 .. Len(down) BY DEF Typed, Queues
    <3> QED BY <3>1, <1>1 DEF Painting
  <2>6. base'[f] # NoBase => base'[f].picture = pic[Len(down)] BY <2>4, <1>1 DEF Painting
  <2> QED BY <2>3, <2>4, <2>5, <2>6, <1>1, PaintedOn
<1>5. CASE down' = down /\ ~ClientReads /\ ~(OutputFlushed /\ MayPublish)
  <2>1. tracker'[f] = tracker[f] \/ ~tracker'[f].full BY <1>5, TrackerSteps DEF NoTracker
  <2>2. base'[f] = base[f] \/ base'[f] = NoBase BY <1>5, BaseSteps
  <2> QED BY <2>1, <2>2, <1>1, <1>5, PaintedStill
<1> QED BY <1>2, <1>3, <1>4, <1>5, DownWriters

-----------------------------------------------------------------------------
(* Entries.                                                                *)

LEMMA EntriesStep == ASSUME Typed, EntriesTrue, [Next]_vars PROVE EntriesTrue'
<1> SUFFICES ASSUME NEW i \in 1 .. Len(down'), down'[i] \in Pushes
             PROVE  \A t \in DOMAIN down'[i].entries : down'[i].entries[t] = down'[i].whole[t]
  BY DEF EntriesTrue
<1>1. CASE \E k \in 1 .. Len(down) : down'[i] = down[k] BY <1>1 DEF EntriesTrue
<1>2. CASE \E look, pushes :
             Published(look, pushes) /\ \E k \in 1 .. Len(pushes) : down'[i] = pushes[k]
  <2>1. PICK look, pushes :
          Published(look, pushes) /\ \E k \in 1 .. Len(pushes) : down'[i] = pushes[k]
    BY <1>2
  <2>2. PICK k \in 1 .. Len(pushes) : down'[i] = pushes[k] BY <2>1
  <2>3. PICK f \in DOMAIN look : \E e \in Entries(f, look[f]) : pushes[k] = Push(f, look[f], e)
    BY <2>1, Zenon DEF Published
  <2>4. PICK e \in Entries(f, look[f]) : pushes[k] = Push(f, look[f], e) BY <2>3
  <2>5. f \in Files /\ look[f] \in Pictures BY <2>1 DEF Published, Typed, TypeOK
  <2>6. \A t \in DOMAIN e : e[t] = look[f][t] BY <2>4, <2>5, EntriesGiven
  <2> QED BY <2>2, <2>4, <2>6 DEF Push
<1> QED BY <1>1, <1>2, NewMessages

-----------------------------------------------------------------------------
(* Caches.  A didClose whose send stalls leaves the tracker of its file:   *)
(* the pushes after a reopening then slice another baseline.               *)

LEMMA OpenKept ==
  ASSUME Typed, [Next]_vars, Stalls = {}, NEW f \in open PROVE f \in open' \/ Close(f)
<1>1. CASE UNCHANGED <<client, waits>> BY <1>1 DEF client
<1>2. CASE ClientReads BY <1>2, Zenon DEF ClientReads
<1>3. ASSUME NEW g \in Files, Open(g) \/ Change(g) \/ Close(g) \/ CloseStalls(g)
      PROVE  f \in open' \/ Close(f)
  <2>1. CASE Open(g) \/ Change(g)
    <3>1. open' = open \cup {g} \/ open' = open BY <2>1, Zenon DEF Open, Change
    <3> QED BY <3>1
  <2>2. CASE Close(g)
    <3>1. open' = open \ {g} BY <2>2, Zenon DEF Close
    <3> QED BY <3>1, <2>2
  <2>3. CASE CloseStalls(g)
    <3>1. \E written \in Stalls : TRUE BY <2>3, Zenon DEF CloseStalls
    <3> QED BY <3>1
  <2> QED BY <1>3, <2>1, <2>2, <2>3
<1>4. CASE \E w \in Waiters : WaitStep(w) \/ WaitFails(w)
  <2>1. UNCHANGED client
    BY <1>4, Zenon DEF WaitStep, WaitStarts, WaitRearms, WaitReturns, WaitFails
  <2> QED BY <2>1 DEF client
<1> QED BY <1>1, <1>2, <1>3, <1>4, ClientSteps

LEMMA CachesStep ==
  ASSUME Stalls = {}, Typed, EntriesTrue, Painted, CachesWhole, [Next]_vars PROVE CachesWhole'
<1> SUFFICES ASSUME NEW f \in Files, tracker'[f].full
             PROVE  f \in open' /\ tracker'[f].cache = tracker'[f].whole
  BY DEF CachesWhole
<1>0. tracker \in [Files -> Tracker]
  <2> HIDE DEF Tracker
  <2> QED BY DEF Typed, TypeOK
<1>1. CASE tracker'[f] = NoTracker BY <1>1 DEF NoTracker
<1>2. CASE tracker'[f] = tracker[f]
  <2>1. f \in open /\ tracker[f].cache = tracker[f].whole BY <1>2 DEF CachesWhole
  <2>2. CASE Close(f)
    <3>1. tracker' = [tracker EXCEPT ![f] = NoTracker] BY <2>2, Zenon DEF Close
    <3> QED BY <3>1, <1>0, <1>1
  <2>3. CASE ~Close(f) BY <2>1, <2>3, <1>2, OpenKept
  <2> QED BY <2>2, <2>3
<1>3. CASE /\ ClientReads /\ f \in open /\ PushOf(f, Head(down))
           /\ tracker'[f] = Folded(tracker[f], Head(down))
  <2> DEFINE m == Head(down)
             k == tracker[f]
             cache == [t \in Types |-> IF t \in DOMAIN m.entries THEN m.entries[t] ELSE k.cache[t]]
  <2>1. down # <<>> /\ down \in Seq(DownMessages)
    <3>1. down # <<>> BY <1>3, Zenon DEF ClientReads
    <3> QED BY <3>1 DEF Typed, Queues
  <2>2. m = down[1] /\ 1 \in 1 .. Len(down) BY <2>1, Shifted
  <2>3. m.whole \in Pictures /\ m \in Pushes BY <1>3 DEF PushOf, Pushes
  <2>4. \A t \in DOMAIN m.entries : m.entries[t] = m.whole[t] BY <2>2, <2>3 DEF EntriesTrue
  <2>5. \A t \in Types \ DOMAIN m.entries : k.full => m.whole[t] = k.cache[t]
    <3>1. PICK pic : Painting(f, pic) BY DEF Painted
    <3>2. \A t \in Types \ DOMAIN m.entries : m.whole[t] = pic[1 - 1][t]
      BY <3>1, <2>2, <1>3 DEF Painting
    <3>3. k.full => pic[0] = k.whole /\ k.cache = k.whole BY <3>1 DEF Painting, CachesWhole
    <3> QED BY <3>2, <3>3
  <2>6. k.full \/ DOMAIN m.entries = Types
    <3> DEFINE b == k.full \/ DOMAIN m.entries = Types
    <3>1. tracker'[f] = [full |-> b, stamp |-> m.version, cache |-> cache, whole |-> m.whole,
                         text |-> m.text]
      BY <1>3, Zenon DEF Folded
    <3> HIDE DEF b
    <3>2. tracker'[f].full = b BY <3>1
    <3>3. b BY <3>2, Zenon
    <3> QED BY <3>3, Zenon DEF b
  <2>7. tracker'[f].cache = cache /\ tracker'[f].whole = m.whole BY <1>3 DEF Folded
  <2>8. \A t \in Types : cache[t] = m.whole[t] BY <2>4, <2>5, <2>6
  <2>9. cache = [t \in Types |-> m.whole[t]] BY <2>8
  <2>10. m.whole = [t \in Types |-> m.whole[t]] BY <2>3, PicturesGiven
  <2>11. open' = open BY <1>3, Zenon DEF ClientReads
  <2> HIDE DEF m, k, cache
  <2> QED BY <2>7, <2>9, <2>10, <2>11, <1>3
<1> QED BY <1>1, <1>2, <1>3, TrackerSteps DEF PushOf

-----------------------------------------------------------------------------
(* The invariant.                                                          *)

\* Of the texts: it holds whatever stalls.
IInv == /\ Typed /\ Synced /\ Counters /\ Tracked /\ OneFlush /\ Covers
        /\ SerialStands /\ PushesTrue /\ TrackersTrue

\* Of the pictures: while no didClose stalls.
Pictured == EntriesTrue /\ CachesWhole /\ Painted

LEMMA InitInvariant == Init => IInv /\ Pictured
<1> SUFFICES ASSUME Init PROVE IInv /\ Pictured OBVIOUS
<1>1. /\ open = {} /\ sends = 0 /\ flushed = 0 /\ newest = 1 /\ up = <<>> /\ down = <<>>
      /\ tracker = [f \in Files |-> NoTracker] /\ base = [f \in Files |-> NoBase]
      /\ pc = [w \in Waiters |-> "idle"] /\ snapshot = [w \in Waiters |-> 0]
      /\ model = [f \in Files |-> 0] /\ pending = {} /\ serial = 0 /\ output = NoOutput
      /\ history = << [f \in Files |-> 0] >>
      /\ flushes = [w \in Waiters |-> [phase |-> "none", version |-> 0]]
  BY Zenon DEF Init
<1>2. Typed BY InitTyped
<1>3. Len(up) = 0 /\ Len(down) = 0 /\ Tip = 1 /\ history[1] = [f \in Files |-> 0]
  BY <1>1 DEF Tip
<1>4. \A S : Places(up, S) = {} /\ Places(down, S) = {} BY <1>3 DEF Places
<1>5. Synced BY <1>1, <1>3 DEF Synced
<1>6. Counters BY <1>1 DEF Counters
<1>7. Tracked BY <1>1 DEF Tracked
<1>8. OneFlush BY <1>1, <1>4 DEF OneFlush, Quiet
<1>9. Covers BY <1>1, <1>4 DEF Covers, Since, NoText
<1>10. SerialStands BY <1>1 DEF SerialStands, NoOutput
<1>11. PushesTrue /\ EntriesTrue BY <1>3 DEF PushesTrue, EntriesTrue
<1>12. TrackersTrue BY <1>1 DEF TrackersTrue, NoTracker
<1>13. CachesWhole BY <1>1 DEF CachesWhole, NoTracker
<1>14. Painted
  <2> SUFFICES ASSUME NEW f \in Files PROVE \E pic : Painting(f, pic) BY DEF Painted
  <2> DEFINE pic == [i \in 0 .. Len(down) |-> NoPicture]
  <2>1. NoPicture \in Picture BY DEF NoPicture, Picture
  <2>2. pic \in [0 .. Len(down) -> Picture] BY <2>1
  <2>3. base[f] = NoBase /\ ~tracker[f].full BY <1>1 DEF NoTracker
  <2>4. \A i \in 1 .. Len(down) : FALSE BY <1>3
  <2> HIDE DEF pic
  <2>5. Painting(f, pic) BY <2>2, <2>3, <2>4 DEF Painting
  <2> QED BY <2>5
<1> QED BY <1>2, <1>5, <1>6, <1>7, <1>8, <1>9, <1>10, <1>11, <1>12, <1>13, <1>14
        DEF IInv, Pictured

LEMMA StepInvariant == IInv /\ [Next]_vars => IInv'
<1> SUFFICES ASSUME IInv, [Next]_vars PROVE IInv' OBVIOUS
<1> USE DEF IInv
<1>1. Typed' BY TypedStep
<1>2. Synced' BY <1>1, SyncedStep
<1>3. Counters' BY CountersStep
<1>4. Tracked' BY <1>1, TrackedStep
<1>5. OneFlush' BY <1>1, OneFlushStep
<1>6. Covers' BY <1>1, CoversStep
<1>7. SerialStands' BY <1>1, SerialStep
<1>8. PushesTrue' BY <1>1, PushesStep
<1>9. TrackersTrue' BY <1>1, TrackersStep
<1> QED BY <1>1, <1>2, <1>3, <1>4, <1>5, <1>6, <1>7, <1>8, <1>9, Zenon

\* Every reachable state satisfies the inductive invariant of the texts.
THEOREM Invariant == Spec => []IInv
BY InitInvariant, StepInvariant, PTL DEF Spec

\* The trackers, the pipes and the server keep their types.
THEOREM TypeCorrect == Spec => []TypeOK
<1>1. IInv => TypeOK BY DEF IInv, Typed
<1> QED BY <1>1, Invariant, PTL

LEMMA CoverHolds == IInv => CoverIsHonest
<1> SUFFICES ASSUME IInv, ~UnflushedContent, NEW f \in open
             PROVE  newest <= Tip /\ history[newest][f] = text[f]
  BY DEF CoverIsHonest
<1>1. newest \in 1 .. Tip /\ Tip \in Nat BY DEF IInv, Typed, TypeOK, Versions, Tip
<1>2. newest \in newest .. Tip BY <1>1
<1> QED BY <1>1, <1>2 DEF IInv, Covers, UnflushedContent, Since

\* The two counters of FreshnessState: with no content unflushed, the newest
\* version known to the client has the text of every open file.
THEOREM CoverHonest == Spec => []CoverIsHonest
BY CoverHolds, Invariant, PTL

\* A believed picture was rendered on the text the client wrote.
TextsTrusted == \A f \in Files : Fresh(f) => tracker[f].text = text[f]

LEMMA TextsHold == IInv => TextsTrusted
<1> SUFFICES ASSUME IInv, NEW f \in Files, Fresh(f) PROVE tracker[f].text = text[f]
  BY DEF TextsTrusted
<1>1. f \in open /\ tracker[f].full /\ tracker[f].stamp >= newest /\ ~UnflushedContent
  BY DEF Fresh, StampAtLeastAsNew, AtLeastAsNew
<1>2. tracker[f].stamp \in 1 .. newest /\ tracker[f].text = history[tracker[f].stamp][f]
  BY <1>1 DEF IInv, TrackersTrue
<1>3. newest \in Nat BY DEF IInv, Typed, TypeOK
<1>4. tracker[f].stamp = newest BY <1>1, <1>2, <1>3
<1> QED BY <1>1, <1>2, <1>4, CoverHolds DEF CoverIsHonest

\* The text clause of the trust rule needs no luck with the closes.
THEOREM TextTrust == Spec => []TextsTrusted
BY TextsHold, Invariant, PTL

\* The trust rule of processing.py: what a reader believes is the whole picture
\* the server rendered, on the very text of the file, while no didClose stalls.
THEOREM TrustHolds == ASSUME Stalls = {} PROVE Spec => []TrustIsSound
<1>1. IInv /\ Pictured /\ [Next]_vars => (IInv /\ Pictured)'
  <2> SUFFICES ASSUME IInv, Pictured, [Next]_vars PROVE IInv' /\ Pictured' OBVIOUS
  <2>1. IInv' BY StepInvariant
  <2>2. EntriesTrue' BY EntriesStep DEF IInv, Pictured
  <2>3. CachesWhole' BY CachesStep DEF IInv, Pictured
  <2>4. Painted' BY PaintedStep DEF IInv, Pictured
  <2> QED BY <2>1, <2>2, <2>3, <2>4 DEF Pictured
<1>2. IInv /\ Pictured => TrustIsSound
  <2> SUFFICES ASSUME IInv, Pictured PROVE TrustIsSound OBVIOUS
  <2>1. BelievedIsWhole BY DEF BelievedIsWhole, Fresh, StampAtLeastAsNew, Pictured, CachesWhole
  <2> QED BY <2>1, CoverHolds, TextsHold DEF TrustIsSound, TextsTrusted
<1> QED BY <1>1, <1>2, InitInvariant, PTL DEF Spec

-----------------------------------------------------------------------------
(* What a wait returns, and the refinement of PictureTrust.                *)

LEMMA ReturnFresh ==
  ASSUME IInv, [Next]_vars, NEW w \in Waiters, pc[w] # "done", pc'[w] = "done", NEW f \in open'
  PROVE  Fresh(f)'
<1>0. pc \in [Waiters -> {"idle", "asked", "parked", "done", "failed"}]
      /\ sends \in Nat /\ flushed \in Nat /\ snapshot \in [Waiters -> Nat]
  BY DEF IInv, Typed, TypeOK
<1>1. WaitReturns(w)
  <2>1. CASE UNCHANGED <<client, waits>> BY <2>1 DEF waits
  <2>2. CASE ClientReads
    <3>1. \/ ReadPush(Head(down))
          \/ ReadFlushed(Head(down))
      BY <2>2, ClientReadsWhich DEF IInv
    <3>2. pc' = pc \/ \E v : pc' = [pc EXCEPT ![v] = "parked"]
      BY <3>1 DEF ReadPush, ReadFlushed
    <3> QED BY <3>2, <1>0
  <2>3. CASE \E g \in Files : Open(g) \/ Change(g) \/ Close(g) \/ CloseStalls(g)
    <3>1. UNCHANGED waits BY <2>3, Zenon DEF Open, Change, SendText, Close, CloseStalls
    <3> QED BY <3>1 DEF waits
  <2>4. ASSUME NEW v \in Waiters, WaitStep(v) \/ WaitFails(v) PROVE WaitReturns(w)
    <3>1. CASE WaitStarts(v) \/ WaitRearms(v) \/ WaitFails(v)
      <4>1. pc' = [pc EXCEPT ![v] = "asked"] \/ pc' = [pc EXCEPT ![v] = "failed"]
        BY <3>1, Zenon DEF WaitStarts, WaitRearms, WaitFails, Ask
      <4> QED BY <4>1, <1>0
    <3>2. CASE WaitReturns(v)
      <4>1. pc' = [pc EXCEPT ![v] = "done"] BY <3>2, Zenon DEF WaitReturns
      <4>2. v = w BY <4>1, <1>0
      <4> QED BY <3>2, <4>2
    <3> QED BY <2>4, <3>1, <3>2 DEF WaitStep
  <2> QED BY <2>1, <2>2, <2>3, <2>4, ClientSteps DEF IInv
<1>2. pc[w] = "parked" /\ PicturesFresh /\ sends = snapshot[w] /\ UNCHANGED client
  BY <1>1, Zenon DEF WaitReturns
<1>3. UNCHANGED <<open, sends, flushed, newest, tracker>> BY <1>2 DEF client
<1>4. sends = flushed
  <2>1. snapshot[w] <= flushed /\ flushed <= sends BY <1>2 DEF IInv, Counters
  <2> QED BY <2>1, <1>2, <1>0
<1>5. f \in open /\ StampAtLeastAsNew(f) BY <1>2, <1>3 DEF PicturesFresh
<1> QED BY <1>3, <1>4, <1>5 DEF Fresh, StampAtLeastAsNew, UnflushedContent

\* wait_until_fresh returns pictures that are fresh in the full sense, for every
\* open file, with the counter re-tested after the last wait.
THEOREM WaitFresh == Spec => WaitReturnsFresh
<1>1. IInv /\ [Next]_vars =>
        [\A w \in Waiters : pc[w] # "done" /\ pc'[w] = "done" => \A f \in open' : Fresh(f)']_vars
  BY ReturnFresh
<1> QED BY <1>1, Invariant, PTL DEF Spec, WaitReturnsFresh

\* What PictureTrust sees of the trackers.
Seen == [f \in Files |-> IF Fresh(f) THEN tracker[f].text ELSE Blank]

LEMMA InitTrust == Init => Abstract!TrustInit
<1> SUFFICES ASSUME Init PROVE Abstract!TrustInit OBVIOUS
<1>1. text = [f \in Files |-> 0] /\ open = {} BY Zenon DEF Init
<1>2. \A f \in Files : ~Fresh(f) BY <1>1 DEF Fresh
<1>3. Seen = [f \in Files |-> Blank] BY <1>2 DEF Seen
<1>4. text \in [Files -> Nat] BY <1>1
<1> QED BY <1>3, <1>4 DEF Abstract!TrustInit, Seen

\* New text makes the client forget every picture.
LEMMA EditTrust ==
  ASSUME IInv, NEW f \in Files, Open(f) \/ Change(f) PROVE Abstract!Edited
<1>0. sends \in Nat /\ flushed \in Nat /\ text \in [Files -> Nat] /\ flushed <= sends
  BY DEF IInv, Typed, TypeOK, Counters
<1>1. PICK t \in Nat : SendText(f, t) BY TextsTyped DEF IInv
<1>2. text' = [text EXCEPT ![f] = t] /\ flushed' = flushed /\ sends' = sends + 1
  BY <1>1 DEF SendText, Write
<1>3. text' = [text EXCEPT ![f] = text'[f]] BY <1>0, <1>2
<1>4. \A g \in Files : ~Fresh(g)' BY <1>0, <1>2 DEF Fresh, UnflushedContent
<1>5. Seen' = [g \in Files |-> Blank] BY <1>4 DEF Seen
<1> QED BY <1>3, <1>5 DEF Abstract!Edited, Seen

\* Without, what it believes of a file is the file's text.
LEMMA LearnTrust == ASSUME IInv', UNCHANGED text PROVE Abstract!Learned
<1>1. \A f \in Files : Seen'[f] = IF Fresh(f)' THEN tracker'[f].text ELSE Blank BY DEF Seen
<1>2. TextsTrusted' BY TextsHold, PTL
<1>3. \A f \in Files : Seen'[f] \in {Blank, text[f]} BY <1>1, <1>2 DEF TextsTrusted
<1>4. Seen' = [f \in Files |-> Seen'[f]] BY DEF Seen
<1> QED BY <1>3, <1>4 DEF Abstract!Learned, Seen

LEMMA StepTrust ==
  ASSUME IInv, IInv', [Next]_vars PROVE Abstract!Edited \/ Abstract!Learned
<1>1. (UNCHANGED text) \/ \E f \in Files : Open(f) \/ Change(f)
  <2>1. CASE UNCHANGED <<client, waits>> BY <2>1 DEF client
  <2>2. CASE ClientReads BY <2>2, Zenon DEF ClientReads
  <2>3. CASE \E f \in Files : Close(f) \/ CloseStalls(f)
    BY <2>3, Zenon DEF Close, CloseStalls
  <2>4. CASE \E w \in Waiters : WaitStep(w) \/ WaitFails(w)
    <3>1. UNCHANGED client
      BY <2>4, Zenon DEF WaitStep, WaitStarts, WaitRearms, WaitReturns, WaitFails
    <3> QED BY <3>1 DEF client
  <2> QED BY <2>1, <2>2, <2>3, <2>4, ClientSteps DEF IInv
<1> QED BY <1>1, EditTrust, LearnTrust

\* The cache of trackers implements its promise: between two edits a reader
\* only ever learns the state of the text the client wrote, whatever stalls.
THEOREM CacheRefines == Spec => TrustImplemented
<1>1. IInv /\ IInv' /\ [Next]_vars =>
        [Abstract!Edited \/ Abstract!Learned]_<<text, Seen>>
  BY StepTrust
<1>2. Init /\ []IInv /\ [][Next]_vars =>
        Abstract!TrustInit /\ [][Abstract!Edited \/ Abstract!Learned]_<<text, Seen>>
  BY <1>1, InitTrust, PTL
<1> QED BY <1>2, Invariant, PTL DEF Spec, TrustImplemented, Abstract!TrustSpec, Seen

=============================================================================
