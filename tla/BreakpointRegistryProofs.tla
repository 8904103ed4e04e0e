---------------------- MODULE BreakpointRegistryProofs ----------------------
(***************************************************************************)
(* Theorems of BreakpointRegistry, for any number of calls, files,         *)
(* statements, entries, serials and steps.  The inductive invariant ties   *)
(* the registry to the prover: an armed entry stands on the statement it   *)
(* was armed at, who awaits an answer holds the lock and knows what that   *)
(* answer will vouch for, and a site that nobody is about to switch is on  *)
(* exactly when its entry says so.                                         *)
(*                                                                         *)
(* The registry's operators are taken one by one.  A step of a call leaves *)
(* the prover's sites alone, and a step of the prover arms nothing: Kept   *)
(* and Fresh are what a call's step makes of an armed entry.               *)
(***************************************************************************)
EXTENDS BreakpointRegistry, DataLemmas, FiniteSetTheorems, SequenceTheorems

-----------------------------------------------------------------------------
(* The invariant.                                                          *)

Anchors == {AnchorOf[s] : s \in Stmts}
Reasons == {"none", NotEvaluated, Evaluating, NotFound, WireFailure}
SiteRecords == [serial : Serials, file : Files, anchor : Anchors, line : Lines,
                ready : BOOLEAN, life : Nat]
EntryRecords == [file : Files, line : Lines, anchor : Anchors, enabled : BOOLEAN,
                 state : {"armed", "pending"}, serial : 0..MaxSerial, reason : Reasons]
LiveSites == [stmt : Stmts, ready : BOOLEAN, on : BOOLEAN]
Toggles == [serial : Serials, on : BOOLEAN, by : Calls \cup {Nobody}]
Plans == [id : Nat, site : SiteRecords]

Switching == {"arming", "abandon", "disarm", "off", "on"}
Arming == {"files", "on"}
SwitchingOn == {"arming", "on"}
Reconciling == {"targets", "verify"}
Final == {"ok", "unknown", "unfinished"}
CallRecords ==
  [op : {"none", "set", "delete", "disable", "enable", "reconcile"},
   pc : Switching \cup Arming \cup Reconciling \cup {"idle", "reopen", "stage three"},
   ids : SUBSET Nat, plan : SUBSET (Nat \cup Plans), paths : SUBSET Files,
   failed : SUBSET Files, marks : SUBSET (Nat \cup Files),
   site : SiteRecords \cup {NoSite}, cur : 0..MaxSerial,
   reply : {"none", "wait", "failed"} \cup Final]

\* What the fields of a call mean at each of its awaits.
CallOK(r) ==
  /\ r.pc \in Switching <=> r.reply # "none"
  /\ r.pc \in Switching => r.cur \in Serials
  /\ r.pc \in {"arming", "abandon", "on"} => r.site \in SiteRecords
  /\ r.pc = "on" => r.plan \subseteq Plans /\ r.marks \subseteq Nat
  /\ r.pc \in {"abandon", "off"} => r.plan \subseteq Nat
  /\ r.pc \in Reconciling <=> r.op = "reconcile"
  /\ r.op = "reconcile" => r.marks \subseteq Files

Registry(es) ==
  /\ es \in [DOMAIN es -> EntryRecords] /\ DOMAIN es \subseteq Nat
  /\ \A e \in DOMAIN es : EntryOK(es[e])

Typed ==
  /\ prover \in {"up", "closing", "none"} /\ life \in Nat /\ held \subseteq Files
  /\ at \in [Stmts -> Lines]
  /\ serials \in 0..MaxSerial /\ DOMAIN sites \subseteq 1..serials
  /\ sites \in [DOMAIN sites -> LiveSites]
  /\ wire \in Seq(Toggles)
  /\ Registry(entries) /\ DOMAIN entries \subseteq 1..born /\ born \in 0..MaxEntries
  /\ dirty \subseteq Files /\ lock \in Calls \cup {Nobody}
  /\ call \in [Calls -> CallRecords] /\ \A c \in Calls : CallOK(call[c])
  /\ sweep \subseteq [file : Files, line : Lines, loads : SUBSET Files]
  /\ due \subseteq [file : Files, way : {"push", "flush"}, died : SUBSET Serials]
  /\ coming \subseteq Files
  /\ unsure \subseteq Serials /\ doubled \subseteq Serials
  /\ stale \subseteq Serials /\ untold \subseteq Serials

\* Who awaits an answer, or is between two files of an enable, holds the lock.
Locking == \A c \in Calls : call[c].pc \in Switching \cup Arming <=> lock = c

\* The prover's side: a statement has one site at most and a line of its own,
\* a site that is on has finished, and what is being retired is gone.
ProverOK ==
  /\ \A n \in DOMAIN sites : FileOf[sites[n].stmt] \in held /\ (sites[n].on => sites[n].ready)
  /\ \A m, n \in DOMAIN sites : sites[m].stmt = sites[n].stmt => m = n
  /\ \A s, t \in Stmts : FileOf[s] = FileOf[t] /\ at[s] = at[t] => s = t
  /\ prover = "none" => DOMAIN sites = {} /\ wire = <<>> /\ serials = 0
  /\ \A u \in sweep : \A n \in DOMAIN sites :
       /\ FileOf[sites[n].stmt] = u.file => ~(at[sites[n].stmt] >= u.line)
       /\ FileOf[sites[n].stmt] \notin u.loads

\* X (an entry, a listed site) is where the live site N is.
Fits(x, n) == x.file = FileOf[sites[n].stmt] /\ x.line = at[sites[n].stmt] /\ sites[n].ready

\* An armed entry stands on its statement for as long as its site lives.
Bound ==
  \A e \in Armed(entries) : entries[e].serial \notin stale =>
    /\ entries[e].serial <= serials
    /\ entries[e].serial \in DOMAIN sites => Fits(entries[e], entries[e].serial)

\* The sites a call has been listed and will arm.
Hand(r) == (IF r.pc \in {"arming", "abandon", "on"} THEN {r.site} ELSE {})
             \cup (IF r.pc = "on" THEN {p.site : p \in r.plan} ELSE {})

\* The live site of an entry that stands where X was listed is X's.
Agrees(x) ==
  \A e \in Armed(entries) :
    /\ entries[e].serial \in DOMAIN sites \ stale
    /\ entries[e].file = x.file /\ entries[e].line = x.line
    => entries[e].serial = x.serial

HandsOK ==
  \A c \in Calls : \A x \in Hand(call[c]) :
    /\ x.life <= life
    /\ x.life = life /\ prover # "none" => x.serial <= serials
    /\ x.life = life /\ x.serial \in DOMAIN sites => Fits(x, x.serial)
    /\ \A y \in Hand(call[c]) : x.file = y.file /\ (x.line = y.line => x.serial = y.serial)
    /\ Agrees(x)

\* The answer a call has, or will get from the wire, is about an entry's site.
Out(c) == call[c].reply \in Final \/ \E i \in DOMAIN wire : wire[i].by = c
About(c) == \E k \in call[c].ids \cap Armed(entries) : entries[k].serial = call[c].cur
One(c) == \E d \in DOMAIN entries : call[c].ids = {d}
             /\ (entries[d].state = "armed" => entries[d].serial = call[c].cur)

\* The entries an enable has still to arm, with their sites.
Pairs(r) == r.plan \cup {[id |-> i, site |-> r.site] : i \in r.marks}

Abandoning(c) ==
  LET r == call[c] IN
  /\ r.ids # {} /\ r.ids \subseteq DOMAIN entries /\ r.plan \subseteq r.ids
  /\ r.cur # r.site.serial /\ (Out(c) => About(c))
  /\ \A i \in DOMAIN wire : wire[i].serial # r.site.serial
  /\ \A k \in r.ids :
       /\ entries[k].file = r.site.file
       /\ k \in Armed(entries) => entries[k].serial = r.site.serial \/ entries[k].line = r.site.line
  /\ r.site.life = life /\ r.site.serial \in DOMAIN sites =>
       /\ sites[r.site.serial].on
       /\ r.site.serial \notin stale => Carries(entries, r.site.serial) \subseteq r.ids

Enabled(c) ==
  LET r == call[c] IN
  /\ r.ids \subseteq DOMAIN entries
  /\ \A e \in r.ids : entries[e].enabled

Planning(c) ==
  LET r == call[c] IN
  /\ \E i \in r.ids : r.marks = {i}
  /\ \A p \in Pairs(r) :
       /\ p.id \in r.ids /\ entries[p.id].file = p.site.file
       /\ p.id \in Armed(entries) /\ entries[p.id].serial \in DOMAIN sites \ stale
            => entries[p.id].serial = p.site.serial
  /\ \A p, q \in Pairs(r) : p.id = q.id => p = q

\* What a call knows at each of its awaits.
Stage(c) ==
  /\ call[c].pc \in SwitchingOn => call[c].cur = call[c].site.serial
  /\ call[c].pc = "abandon" => Abandoning(c)
  /\ call[c].pc = "disarm" => One(c) /\ (Out(c) => About(c))
  /\ call[c].pc = "off" => /\ One(c) /\ (Out(c) => About(c))
                           /\ \A d \in call[c].ids : ~entries[d].enabled
  /\ call[c].pc \in Arming => Enabled(c)
  /\ call[c].pc = "on" => Planning(c)
StagesOK == \A c \in Calls : Stage(c)

\* What an answer still says of the site when the call reads it.
RepliesOK ==
  \A c \in Calls : LET r == call[c] IN
    /\ r.reply \in Final => wire = <<>>
    /\ r.reply = "ok" =>
         /\ r.cur <= serials
         /\ r.cur \in DOMAIN sites => sites[r.cur].on = (r.pc \in SwitchingOn)
    /\ r.reply \in {"unknown", "unfinished"} /\ r.cur \in DOMAIN sites =>
         /\ ~sites[r.cur].on
         /\ r.cur \notin stale => Carries(entries, r.cur) = {}

\* A toggle on the wire is the one its call waits for, or nothing vouches for
\* its site.
WireOK ==
  \A i \in DOMAIN wire :
    /\ \/ wire[i].serial \in unsure
       \/ \E c \in Calls : call[c].cur = wire[i].serial /\ call[c].reply \in {"wait", "failed"}
    /\ wire[i].by # Nobody =>
         /\ i = Len(wire)
         /\ call[wire[i].by].reply = "wait" /\ call[wire[i].by].cur = wire[i].serial
         /\ wire[i].on = (call[wire[i].by].pc \in SwitchingOn)

\* A mark that leads to file F.
Leads(marks, f) == \E m \in marks : f = m \/ f \in Downstream[m]

\* A dead site's armed entry will be demoted: a mark leads to its file or is
\* still to come, the prover is closing, the wrap-up of a cancellation is about
\* it, or a reconciliation under way has yet to verify its file.
Noticed(e) ==
  \/ Leads(dirty, entries[e].file) \/ prover = "closing" \/ e \in Unloaded(entries, sweep)
  \/ \E d \in due : entries[e].serial \in d.died
  \/ \E c \in Calls :
       /\ entries[e].file \in call[c].paths
       /\ \/ call[c].pc = "targets" /\ Leads(call[c].marks, entries[e].file)
          \/ call[c].pc = "verify" /\ entries[e].file \in call[c].marks

\* A mark still to come is of a living prover, about sites that are gone, and
\* leads to the entries that stood on them.
Reports ==
  /\ prover # "up" => due = {}
  /\ \A d \in due :
       /\ d.died \cap DOMAIN sites = {} /\ d.died \subseteq 1..serials
       /\ \A e \in Armed(entries) :
            entries[e].serial \in d.died \ stale => Leads({d.file}, entries[e].file)

Deaths ==
  /\ Reports
  /\ \A e \in Armed(entries) :
       entries[e].serial \notin DOMAIN sites \cup stale \cup untold => Noticed(e)

\* The sites a finished call vouches for, but for those in flux: a call under
\* way awaits their switch, or holds them on while it switches others off.
Sure == DOMAIN sites \ (unsure \cup stale)
Flux(r, n) == \/ r.reply # "none" /\ n = r.cur
              \/ r.pc = "abandon" /\ n = r.site.serial
InFlux(n) == \E c \in Calls : Flux(call[c], n)

\* The entries of an enable under way, and those it has not come to.
Enabling == {e \in DOMAIN entries : \E c \in Calls : call[c].pc \in Arming /\ e \in call[c].ids}
Ahead(r, e) == entries[e].file \in r.paths \/ (r.pc = "on" /\ \E p \in Pairs(r) : p.id = e)
Todo(e) == \E c \in Calls : call[c].pc \in Arming /\ e \in call[c].ids /\ Ahead(call[c], e)

\* Two entries on one live site are known as doubled, or the enable merges.
OneEach ==
  \A e, k \in Armed(entries) :
    e # k /\ entries[e].serial = entries[k].serial /\ entries[e].serial \in DOMAIN sites \ stale
    => entries[e].serial \in doubled \/ e \in Enabling \/ k \in Enabling

\* A site that is on is some entry's.
Strays == \A n \in Sure : sites[n].on /\ ~InFlux(n) => Carries(entries, n) # {}

\* A site is as its entries say; an enable's are on once it has come to them.
Flags ==
  \A e \in Armed(entries) : LET n == entries[e].serial IN
    n \in Sure /\ ~InFlux(n) =>
      /\ e \in Enabling /\ ~Todo(e) => sites[n].on
      /\ /\ e \notin Enabling /\ n \notin doubled
         /\ \A k \in Armed(entries) \cap Enabling : entries[k].serial # n
         => sites[n].on = entries[e].enabled

IInv == /\ Typed /\ Locking /\ ProverOK /\ Bound /\ HandsOK /\ StagesOK /\ RepliesOK /\ WireOK
        /\ Deaths /\ OneEach /\ Strays /\ Flags

-----------------------------------------------------------------------------
(* What the operators of the registry do.                                  *)

LEMMA Bounds == MaxSerial \in Nat /\ MaxEntries \in Nat
BY RegistryAssumption DEF RegistryAssumption

LEMMA MinIsLeast ==
  ASSUME NEW T \in SUBSET Nat, T # {}
  PROVE  Min(T) \in T /\ \A m \in T : Min(T) <= m
<1>1. \E n \in T : \A m \in T : n <= m BY Least
<1> QED BY <1>1 DEF Min

LEMMA EntryIs ==
  ASSUME NEW es, Registry(es), NEW e \in DOMAIN es
  PROVE  /\ es[e] \in EntryRecords /\ e \in Nat
         /\ es[e].file \in Files /\ es[e].line \in Lines /\ es[e].enabled \in BOOLEAN
         /\ e \in Armed(es) <=> es[e].state = "armed"
         /\ e \in Armed(es) => es[e].serial \in Serials /\ es[e].serial # 0
         /\ e \notin Armed(es) => es[e].serial = 0
BY DEF Registry, EntryOK, EntryRecords, Armed, Serials

LEMMA ArmIs ==
  ASSUME NEW entry \in EntryRecords, NEW x \in SiteRecords
  PROVE  LET a == Arm(entry, x) IN
         /\ a \in EntryRecords /\ EntryOK(a)
         /\ a.state = "armed" /\ a.serial = x.serial /\ a.file = entry.file
         /\ a.line = x.line /\ a.enabled = entry.enabled
<1>1. entry = [entry EXCEPT !.file = entry.file] /\ entry.file \in Files BY DEF EntryRecords
<1>2. x.serial \in Serials /\ x.serial \in 0..MaxSerial /\ x.line \in Lines /\ x.anchor \in Anchors
  BY Bounds DEF SiteRecords, Serials
<1> QED BY <1>1, <1>2 DEF EntryRecords, Arm, EntryOK, Reasons

LEMMA DemotedIs ==
  ASSUME NEW entry \in EntryRecords, NEW tag \in Reasons \ {"none"}
  PROVE  LET a == Demoted(entry, tag) IN
         /\ a \in EntryRecords /\ EntryOK(a)
         /\ a.state = "pending" /\ a.serial = 0 /\ a.file = entry.file /\ a.reason = tag
         /\ a.line = entry.line /\ a.enabled = entry.enabled
<1>1. tag \in {NotEvaluated, Evaluating, NotFound, WireFailure} BY DEF Reasons
<1>2. 0 \in 0..MaxSerial BY Bounds
<1> DEFINE a == Demoted(entry, tag)
<1>3. /\ a \in EntryRecords /\ a.state = "pending" /\ a.serial = 0 /\ a.reason = tag
      /\ a.file = entry.file /\ a.line = entry.line /\ a.enabled = entry.enabled
      /\ a.file \in Files /\ a.line \in Lines /\ a.enabled \in BOOLEAN
  BY <1>2 DEF EntryRecords, Demoted
<1> HIDE DEF a
<1>4. EntryOK(a) BY <1>1, <1>3 DEF EntryOK
<1> QED BY <1>3, <1>4 DEF a

\* The entries of IDS are pending, the others as they were.
LEMMA DemoteIs ==
  ASSUME NEW es, Registry(es), NEW ids, NEW tag \in Reasons \ {"none"}
  PROVE  LET b == Demote(es, ids, tag) IN
         /\ Registry(b) /\ DOMAIN b = DOMAIN es
         /\ Armed(b) = Armed(es) \ ids
         /\ \A e \in DOMAIN es : /\ e \notin ids => b[e] = es[e]
                                 /\ e \in ids => b[e].serial = 0 /\ b[e].reason = tag
                                 /\ b[e].file = es[e].file /\ b[e].line = es[e].line
                                 /\ b[e].enabled = es[e].enabled
<1> DEFINE b == Demote(es, ids, tag)
<1>1. DOMAIN b = DOMAIN es
      /\ \A e \in DOMAIN es : b[e] = IF e \in ids THEN Demoted(es[e], tag) ELSE es[e]
  BY DEF Demote
<1>2. b = [e \in DOMAIN b |-> b[e]] BY DEF Demote
<1> HIDE DEF b
<1>3. ASSUME NEW e \in DOMAIN es
      PROVE  /\ b[e] \in EntryRecords /\ EntryOK(b[e])
             /\ e \notin ids => b[e] = es[e]
             /\ e \in ids => b[e].serial = 0 /\ b[e].reason = tag /\ b[e].state = "pending"
             /\ b[e].file = es[e].file /\ b[e].line = es[e].line /\ b[e].enabled = es[e].enabled
  <2>1. es[e] \in EntryRecords /\ EntryOK(es[e]) BY DEF Registry
  <2>2. CASE e \in ids BY <2>1, <2>2, <1>1, DemotedIs
  <2>3. CASE e \notin ids BY <2>1, <2>3, <1>1
  <2> QED BY <2>2, <2>3
<1>4. Registry(b) BY <1>1, <1>2, <1>3 DEF Registry
<1>5. Armed(b) = Armed(es) \ ids BY <1>1, <1>3 DEF Armed
<1> QED BY <1>1, <1>3, <1>4, <1>5 DEF b

LEMMA EnableIs ==
  ASSUME NEW es, Registry(es), NEW ids, NEW flag \in BOOLEAN
  PROVE  LET b == Enable(es, ids, flag) IN
         /\ Registry(b) /\ DOMAIN b = DOMAIN es
         /\ Armed(b) = Armed(es)
         /\ \A e \in DOMAIN es : /\ b[e].serial = es[e].serial /\ b[e].state = es[e].state
                                 /\ b[e].file = es[e].file /\ b[e].line = es[e].line
                                 /\ b[e].enabled = IF e \in ids THEN flag ELSE es[e].enabled
<1> DEFINE b == Enable(es, ids, flag)
<1>1. DOMAIN b = DOMAIN es
      /\ \A e \in DOMAIN es : b[e] = IF e \in ids THEN [es[e] EXCEPT !.enabled = flag] ELSE es[e]
  BY DEF Enable
<1>2. b = [e \in DOMAIN b |-> b[e]] BY DEF Enable
<1> HIDE DEF b
<1>3. ASSUME NEW e \in DOMAIN es
      PROVE  /\ b[e] \in EntryRecords /\ EntryOK(b[e])
             /\ b[e].serial = es[e].serial /\ b[e].state = es[e].state
             /\ b[e].file = es[e].file /\ b[e].line = es[e].line
             /\ b[e].enabled = IF e \in ids THEN flag ELSE es[e].enabled
  <2>1. es[e] \in EntryRecords /\ EntryOK(es[e]) BY DEF Registry
  <2>2. CASE e \in ids BY <2>1, <2>2, <1>1 DEF EntryRecords, EntryOK
  <2>3. CASE e \notin ids BY <2>1, <2>3, <1>1
  <2> QED BY <2>2, <2>3
<1>4. Registry(b) BY <1>1, <1>2, <1>3 DEF Registry
<1>5. Armed(b) = Armed(es) BY <1>1, <1>3 DEF Armed
<1> QED BY <1>1, <1>3, <1>4, <1>5 DEF b

LEMMA WithoutIs ==
  ASSUME NEW es, Registry(es), NEW ids
  PROVE  LET b == Without(es, ids) IN
         /\ Registry(b) /\ DOMAIN b = DOMAIN es \ ids
         /\ Armed(b) = Armed(es) \ ids
         /\ \A e \in DOMAIN es \ ids : b[e] = es[e]
<1> DEFINE b == Without(es, ids)
<1>1. DOMAIN b = DOMAIN es \ ids /\ \A e \in DOMAIN es \ ids : b[e] = es[e] BY DEF Without
<1>2. b = [e \in DOMAIN b |-> b[e]] BY DEF Without
<1> HIDE DEF b
<1>4. Registry(b) BY <1>1, <1>2 DEF Registry
<1>5. Armed(b) = Armed(es) \ ids BY <1>1 DEF Armed
<1> QED BY <1>1, <1>4, <1>5 DEF b

\* The merge keeps an entry for every site, and one only among IDS.
LEMMA MergeIs ==
  ASSUME NEW es, Registry(es), NEW ids
  PROVE  LET b == MergeSameSite(es, ids) IN
         /\ Registry(b) /\ DOMAIN b \subseteq DOMAIN es
         /\ Armed(b) = Armed(es) \cap DOMAIN b
         /\ \A e \in DOMAIN b : b[e] = es[e]
         /\ \A e \in DOMAIN es : e \in DOMAIN b \/ (e \in ids \cap Armed(es))
         /\ \A e \in Armed(es) : \E k \in Armed(b) : /\ b[k].serial = es[e].serial
                                                     /\ e \in ids => k \in ids
         /\ \A e, k \in Armed(b) : e \in ids /\ k \in ids /\ b[e].serial = b[k].serial => e = k
<1> DEFINE out == {e \in ids \cap Armed(es) : \E k \in ids \cap Armed(es) :
                     k < e /\ es[k].serial = es[e].serial}
           b == MergeSameSite(es, ids)
<1>1. b = Without(es, out) BY DEF MergeSameSite
<1>2. \A e \in DOMAIN es : e \in Nat BY DEF Registry
<1>3. Armed(es) \subseteq DOMAIN es BY DEF Armed
<1>4. \A e : e \in out <=> /\ e \in ids \cap Armed(es)
                           /\ \E k \in ids \cap Armed(es) : k < e /\ es[k].serial = es[e].serial
  OBVIOUS
<1> HIDE DEF out, b
<1>5. /\ Registry(b) /\ DOMAIN b = DOMAIN es \ out /\ Armed(b) = Armed(es) \ out
      /\ \A e \in DOMAIN es \ out : b[e] = es[e]
  BY <1>1, WithoutIs, Zenon
<1>6. ASSUME NEW e \in Armed(es)
      PROVE  \E k \in Armed(b) : b[k].serial = es[e].serial /\ (e \in ids => k \in ids)
  <2>1. CASE e \notin out BY <2>1, <1>3, <1>5
  <2>2. CASE e \in out
    <3> DEFINE K == {k \in ids \cap Armed(es) : es[k].serial = es[e].serial}
    <3>1. K \subseteq Nat /\ e \in K BY <2>2, <1>2, <1>3, <1>4
    <3>2. PICK n \in K : \A m \in K : n <= m BY <3>1, Least
    <3>3. n \notin out
      <4>1. SUFFICES ASSUME n \in out PROVE FALSE OBVIOUS
      <4>2. PICK k \in ids \cap Armed(es) : k < n /\ es[k].serial = es[n].serial BY <4>1, <1>4
      <4>3. k \in K BY <4>2
      <4> QED BY <4>2, <4>3, <3>1, <3>2
    <3> QED BY <3>2, <3>3, <1>3, <1>5
  <2> QED BY <2>1, <2>2
<1>7. ASSUME NEW e \in Armed(b), NEW k \in Armed(b), e \in ids, k \in ids,
             b[e].serial = b[k].serial
      PROVE  e = k
  <2>1. e \in Armed(es) /\ k \in Armed(es) /\ e \notin out /\ k \notin out
        /\ es[e].serial = es[k].serial /\ e \in Nat /\ k \in Nat
    BY <1>7, <1>2, <1>3, <1>5
  <2> QED BY <2>1, <1>4, <1>7
<1> QED BY <1>3, <1>4, <1>5, <1>6, <1>7 DEF b

\* The acknowledged arming is in the registry, in the place of all of IDS.
LEMMA RecordedIs ==
  ASSUME NEW es, Registry(es), NEW n \in Nat, n = born, DOMAIN es \subseteq 1..n, NEW x \in SiteRecords,
         NEW ids, ids \subseteq DOMAIN es, \A e \in ids : es[e].file = x.file
  PROVE  LET b == Recorded(es, ids, x) IN
         /\ Registry(b)
         /\ ids # {} => DOMAIN b \subseteq DOMAIN es
         /\ DOMAIN b \subseteq DOMAIN es \cup {n + 1}
         /\ \A e \in DOMAIN es \ ids : e \in DOMAIN b /\ b[e] = es[e]
         /\ \E a \in DOMAIN b :
              /\ b[a].state = "armed" /\ b[a].serial = x.serial /\ b[a].file = x.file
              /\ b[a].line = x.line /\ b[a].enabled
              /\ DOMAIN b = (DOMAIN es \ ids) \cup {a}
              /\ IF ids = {} THEN a = n + 1 ELSE a = Min(ids) /\ a \in ids
<1> DEFINE b == Recorded(es, ids, x)
<1>1. CASE ids = {}
  <2> DEFINE fresh == [file |-> x.file, line |-> x.line, anchor |-> x.anchor, enabled |-> TRUE,
                       state |-> "armed", reason |-> "none", serial |-> 0]
             a == Arm(fresh, x)
  <2>1. fresh \in EntryRecords BY Bounds DEF EntryRecords, SiteRecords, Reasons, Serials
  <2>2. fresh.file = x.file /\ fresh.enabled OBVIOUS
  <2>3. b = Put(es, n + 1, a) BY <1>1 DEF Recorded
  <2>4. DOMAIN b = DOMAIN es \cup {n + 1} /\ b = [k \in DOMAIN b |-> b[k]]
        /\ \A k \in DOMAIN b : b[k] = IF k = n + 1 THEN a ELSE es[k]
    BY <2>3 DEF Put
  <2> HIDE DEF fresh, b
  <2>5. /\ a \in EntryRecords /\ EntryOK(a) /\ a.state = "armed" /\ a.serial = x.serial
        /\ a.file = x.file /\ a.line = x.line /\ a.enabled
    BY <2>1, <2>2, ArmIs
  <2> HIDE DEF a
  <2>6. n + 1 \in Nat /\ n + 1 \notin DOMAIN es OBVIOUS
  <2>7. Registry(b) BY <2>4, <2>5, <2>6 DEF Registry
  <2>8. \A e \in DOMAIN es \ ids : e \in DOMAIN b /\ b[e] = es[e] BY <2>4, <2>6
  <2>9. n + 1 \in DOMAIN b /\ b[n + 1] = a BY <2>4
  <2> QED BY <2>4, <2>5, <2>7, <2>8, <2>9, <1>1 DEF b
<1>2. CASE ids # {}
  <2>1. ids \in SUBSET Nat BY DEF Registry
  <2> DEFINE m == Min(ids)
             a == [Arm(es[m], x) EXCEPT !.enabled = TRUE]
             put == [es EXCEPT ![m] = [Arm(@, x) EXCEPT !.enabled = TRUE]]
  <2>2. m \in ids BY <2>1, <1>2, MinIsLeast
  <2>3. b = Without(put, ids \ {m}) BY <1>2 DEF Recorded
  <2> HIDE DEF m
  <2>4. m \in DOMAIN es /\ es[m] \in EntryRecords BY <2>2 DEF Registry
  <2>5. Arm(es[m], x) \in EntryRecords BY <2>4, ArmIs
  <2>6. a \in EntryRecords /\ EntryOK(a) /\ a.state = "armed" /\ a.serial = x.serial
        /\ a.file = x.file /\ a.line = x.line /\ a.enabled
    <3>1. EntryOK(Arm(es[m], x)) /\ Arm(es[m], x).state = "armed"
          /\ Arm(es[m], x).serial = x.serial /\ Arm(es[m], x).file = x.file
          /\ Arm(es[m], x).line = x.line
      BY <2>2, <2>4, ArmIs
    <3> DEFINE r == Arm(es[m], x)
    <3> HIDE DEF r
    <3>2. r \in EntryRecords /\ EntryOK(r) /\ r.state = "armed"
          /\ r.serial = x.serial /\ r.file = x.file /\ r.line = x.line
      BY <2>5, <3>1 DEF r
    <3>3. a = [r EXCEPT !.enabled = TRUE] BY DEF r
    <3> HIDE DEF a
    <3> QED BY <3>2, <3>3 DEF EntryRecords, EntryOK
  <2>7. put = [k \in DOMAIN es |-> IF k = m THEN a ELSE es[k]] BY <2>4
  <2> HIDE DEF a, put
  <2>8. DOMAIN put = DOMAIN es /\ \A k \in DOMAIN es : put[k] = IF k = m THEN a ELSE es[k] BY <2>7
  <2>9. Registry(put) BY <2>6, <2>7, <2>8 DEF Registry
  <2>10. /\ Registry(b) /\ DOMAIN b = DOMAIN es \ (ids \ {m})
         /\ \A e \in DOMAIN es \ (ids \ {m}) : b[e] = put[e]
    <3>1. DOMAIN put = DOMAIN es BY <2>8
    <3>2. /\ Registry(Without(put, ids \ {m}))
          /\ DOMAIN Without(put, ids \ {m}) = DOMAIN put \ (ids \ {m})
          /\ \A e \in DOMAIN put \ (ids \ {m}) : Without(put, ids \ {m})[e] = put[e]
      BY <2>9, WithoutIs, Zenon
    <3> QED BY <3>1, <3>2, <2>3, Zenon
  <2> HIDE DEF b
  <2>11. DOMAIN b = (DOMAIN es \ ids) \cup {m} BY <2>2, <2>10
  <2>12. \A e \in DOMAIN es \ ids : e \in DOMAIN b /\ b[e] = es[e] BY <2>2, <2>8, <2>10
  <2>13. m \in DOMAIN b /\ b[m] = a BY <2>4, <2>8, <2>10
  <2>14. DOMAIN b \subseteq DOMAIN es BY <2>4, <2>11
  <2>15. /\ b[m].state = "armed" /\ b[m].serial = x.serial /\ b[m].file = x.file
         /\ b[m].line = x.line /\ b[m].enabled
    BY <2>6, <2>13
  <2>16. \E k \in DOMAIN b :
              /\ b[k].state = "armed" /\ b[k].serial = x.serial /\ b[k].file = x.file
              /\ b[k].line = x.line /\ b[k].enabled
              /\ DOMAIN b = (DOMAIN es \ ids) \cup {k}
              /\ IF ids = {} THEN k = n + 1 ELSE k = Min(ids) /\ k \in ids
    BY <2>2, <2>11, <2>13, <2>15, <1>2 DEF m
  <2> QED BY <2>10, <2>12, <2>14, <2>16 DEF b
<1> QED BY <1>1, <1>2

\* A file's listing: its live sites, each where it stands.
LEMMA ListingIs ==
  ASSUME Typed, NEW f \in Files
  PROVE  /\ \A x \in Listing(f) :
              /\ x \in SiteRecords /\ x.file = f /\ x.life = life
              /\ x.serial \in DOMAIN sites /\ FileOf[sites[x.serial].stmt] = f
              /\ x.line = at[sites[x.serial].stmt] /\ x.ready = sites[x.serial].ready
         /\ \A n \in DOMAIN sites : FileOf[sites[n].stmt] = f =>
              \E x \in Listing(f) : x.serial = n
<1> DEFINE seen(n) == [serial |-> n, file |-> f, anchor |-> AnchorOf[sites[n].stmt],
                       line |-> at[sites[n].stmt], ready |-> sites[n].ready, life |-> life]
<1>1. ASSUME NEW x \in Listing(f)
      PROVE  /\ x \in SiteRecords /\ x.file = f /\ x.life = life
             /\ x.serial \in DOMAIN sites /\ FileOf[sites[x.serial].stmt] = f
             /\ x.line = at[sites[x.serial].stmt] /\ x.ready = sites[x.serial].ready
  <2>1. PICK n \in DOMAIN sites : FileOf[sites[n].stmt] = f /\ x = seen(n) BY DEF Listing
  <2>2. sites[n] \in LiveSites /\ n \in Serials BY Bounds DEF Typed, Serials
  <2>3. sites[n].stmt \in Stmts /\ sites[n].ready \in BOOLEAN BY <2>2 DEF LiveSites
  <2>4. at[sites[n].stmt] \in Lines /\ AnchorOf[sites[n].stmt] \in Anchors /\ life \in Nat
    BY <2>3 DEF Typed, Anchors
  <2>5. seen(n) \in SiteRecords BY <2>2, <2>3, <2>4 DEF SiteRecords
  <2> QED BY <2>1, <2>5
<1>2. ASSUME NEW n \in DOMAIN sites, FileOf[sites[n].stmt] = f
      PROVE  \E x \in Listing(f) : x.serial = n
  <2>1. seen(n) \in Listing(f) BY <1>2 DEF Listing
  <2>2. seen(n).serial = n OBVIOUS
  <2> QED BY <2>1, <2>2
<1> QED BY <1>1, <1>2

LEMMA NobodyNowhere == ASSUME NEW x \in SiteRecords PROVE x # NoSite /\ x.serial # 0
BY DEF SiteRecords, NoSite, Serials

\* An entry is resolved by its serial when the listing has it, and to a site
\* of the listing or none.
LEMMA ResolveIs ==
  ASSUME NEW entry \in EntryRecords, NEW listing \in SUBSET SiteRecords
  PROVE  LET x == ResolveEntry(entry, listing) IN
         /\ x = NoSite \/ x \in listing
         /\ (\E y \in listing : y.serial = entry.serial) =>
              x \in listing /\ x.serial = entry.serial /\ x # NoSite
<1> DEFINE same == {y \in listing : y.serial = entry.serial}
           like == {y \in listing : y.anchor = entry.anchor}
           dist(y) == Distance(y.line, entry.line)
           near(y, z) == dist(y) < dist(z) \/ (dist(y) = dist(z) /\ y.line <= z.line)
<1>1. CASE same # {}
  <2>1. ResolveEntry(entry, listing) = CHOOSE y \in same : TRUE BY <1>1 DEF ResolveEntry
  <2>2. ResolveEntry(entry, listing) \in same BY <1>1, <2>1
  <2> QED BY <2>2, NobodyNowhere
<1>2. CASE same = {} /\ like = {}
  <2>1. ResolveEntry(entry, listing) = NoSite BY <1>2 DEF ResolveEntry
  <2> QED BY <2>1, <1>2
<1>3. CASE same = {} /\ like # {}
  <2>1. ResolveEntry(entry, listing) = CHOOSE y \in like : \A z \in like : near(y, z)
    BY <1>3 DEF ResolveEntry
  <2>2. Lines \subseteq Nat BY RegistryAssumption DEF RegistryAssumption
  <2>3. \A y \in like : y.line \in Nat /\ dist(y) \in Nat
    <3> TAKE y \in like
    <3>1. y.line \in Nat /\ entry.line \in Nat BY <2>2 DEF SiteRecords, EntryRecords
    <3> QED BY <3>1 DEF Distance
  <2>4. \E y \in like : \A z \in like : near(y, z)
    <3> HIDE DEF like, dist
    <3> DEFINE D == {dist(y) : y \in like}
    <3>1. D \in SUBSET Nat /\ D # {} BY <2>3, <1>3
    <3>2. PICK d \in D : \A m \in D : d <= m BY <3>1, Least
    <3> DEFINE L == {y.line : y \in {z \in like : dist(z) = d}}
    <3>3. L \in SUBSET Nat /\ L # {} BY <2>3, <3>2
    <3>4. PICK l \in L : \A m \in L : l <= m BY <3>3, Least
    <3>5. PICK y \in like : dist(y) = d /\ y.line = l BY <3>4
    <3>6. ASSUME NEW z \in like PROVE near(y, z)
      <4>1. d \in Nat /\ dist(z) \in Nat /\ d <= dist(z) /\ y.line \in Nat /\ z.line \in Nat
        BY <3>1, <3>2, <3>5, <2>3
      <4>2. CASE dist(z) = d
        <5>1. z.line \in L BY <4>2
        <5> QED BY <5>1, <3>4, <3>5, <4>2
      <4>3. CASE dist(z) # d BY <4>1, <4>3, <3>5
      <4> QED BY <4>2, <4>3
    <3> QED BY <3>6
  <2> HIDE DEF like, near
  <2>5. ResolveEntry(entry, listing) \in like BY <2>1, <2>4
  <2> QED BY <2>5, <1>3 DEF like
<1> QED BY <1>1, <1>2, <1>3

\* Two armed entries on one site are twins.
LEMMA TwinsAre ==
  ASSUME NEW es, Registry(es), NEW n \in Nat, DOMAIN es \subseteq 1..n,
         NEW e \in Armed(es), NEW k \in DOMAIN es, e # k, es[e].serial = es[k].serial
  PROVE  es[e].serial \in Twins(es)
<1> DEFINE both == Carries(es, es[e].serial)
<1>1. IsFiniteSet(1..n) BY FS_Interval
<1>2. both \subseteq 1..n /\ e \in both /\ k \in both BY DEF Carries, Armed
<1> HIDE DEF both
<1>3. IsFiniteSet(both) /\ Cardinality(both) \in Nat BY <1>1, <1>2, FS_Subset, FS_CardinalityType
<1>4. IsFiniteSet({e}) /\ Cardinality({e}) = 1 BY FS_Singleton
<1>5. Cardinality({e} \cup {k}) = 2
  <2> DEFINE S == {e}
  <2>1. k \notin S OBVIOUS
  <2>2. IsFiniteSet(S) /\ Cardinality(S) = 1 BY <1>4
  <2> HIDE DEF S
  <2>3. Cardinality(S \cup {k}) = IF k \in S THEN Cardinality(S) ELSE Cardinality(S) + 1
    BY <2>2, FS_AddElement
  <2>4. Cardinality(S \cup {k}) = 2 BY <2>1, <2>2, <2>3
  <2> QED BY <2>4 DEF S
<1>6. {e} \cup {k} \in SUBSET both BY <1>2
<1>7. Cardinality({e} \cup {k}) <= Cardinality(both) BY <1>3, <1>6, FS_Subset
<1>8. Cardinality(both) > 1 BY <1>3, <1>5, <1>7
<1> QED BY <1>8 DEF Twins, both

LEMMA TwinsTyped ==
  ASSUME NEW es, Registry(es) PROVE Twins(es) \subseteq Serials
BY EntryIs DEF Twins, Armed

-----------------------------------------------------------------------------
(* What a step of a call makes of the calls, the lock and the wire.        *)

IsCall(r) == r \in CallRecords /\ CallOK(r)

LEMMA CallSet ==
  ASSUME Typed, NEW c \in Calls, NEW r, IsCall(r), call' = [call EXCEPT ![c] = r]
  PROVE  /\ call' \in [Calls -> CallRecords] /\ \A d \in Calls : CallOK(call'[d])
         /\ call'[c] = r /\ \A d \in Calls \ {c} : call'[d] = call[d]
BY DEF Typed, IsCall

LEMMA IdleIs == IsCall(Idle) /\ Idle.pc = "idle" /\ Idle.reply = "none" /\ Idle.op = "none"
BY Bounds DEF IsCall, Idle, CallRecords, CallOK, Switching, Reconciling, Arming

LEMMA AfterIs ==
  ASSUME Typed, NEW es, Registry(es), NEW ok \in BOOLEAN
  PROVE  LET r == After(ok, es) IN
         /\ IsCall(r) /\ r.pc \in {"idle", "targets"} /\ r.reply = "none"
         /\ r.pc = "targets" => r.marks = dirty /\ r.paths = ArmedFiles(es) /\ r.op = "reconcile"
         /\ ok /\ dirty # {} /\ Armed(es) # {} => r.pc = "targets"
<1>1. ArmedFiles(es) \in SUBSET Files BY EntryIs DEF ArmedFiles, Armed
<1>2. dirty \in SUBSET Files BY DEF Typed
<1> DEFINE q == [Idle EXCEPT !.op = "reconcile", !.pc = "targets", !.marks = dirty,
                             !.paths = ArmedFiles(es)]
<1>3. /\ IsCall(q) /\ q.pc = "targets" /\ q.reply = "none"
      /\ q.marks = dirty /\ q.paths = ArmedFiles(es) /\ q.op = "reconcile"
  <2>1. Idle \in CallRecords /\ Idle.reply = "none" BY IdleIs DEF IsCall
  <2>2. /\ q \in CallRecords /\ q.pc = "targets" /\ q.reply = "none"
        /\ q.marks = dirty /\ q.paths = ArmedFiles(es) /\ q.op = "reconcile"
    BY <2>1, <1>1, <1>2 DEF CallRecords, Switching, Reconciling, Arming
  <2> HIDE DEF q
  <2>3. CallOK(q) BY <2>2, <1>2 DEF CallOK, Switching, Reconciling
  <2> QED BY <2>2, <2>3 DEF IsCall
<1> HIDE DEF q
<1>4. After(ok, es) = IF ok /\ dirty # {} /\ Armed(es) # {} THEN q ELSE Idle BY DEF After, q
<1> QED BY <1>3, <1>4, IdleIs

\* A step of call C leaves the prover's side alone.
World == UNCHANGED <<prover, life, held, at, sites, serials, sweep, reportVars>>
Others(c) == \A d \in Calls \ {c} : call'[d] = call[d]
CallsOK == call' \in [Calls -> CallRecords] /\ \A d \in Calls : CallOK(call'[d])

\* Call C is over.
Over(c, ok) ==
  /\ CallsOK /\ Others(c)
  /\ call'[c] = After(ok, entries')
  /\ call'[c].pc \in {"idle", "targets"} /\ call'[c].reply = "none"
  /\ dirty' = (IF ok THEN {} ELSE dirty) /\ dirty' \subseteq Files
  /\ lock' \in Calls \cup {Nobody} /\ lock' # c
  /\ lock \in {c, Nobody} => lock' = Nobody
  /\ lock \notin {c, Nobody} => lock' = lock
  /\ wire' = wire

\* Call C holds the lock and awaits an answer about SERIAL.
Sent(c, serial, on) ==
  /\ CallsOK /\ Others(c)
  /\ call'[c].cur = serial /\ serial \in Serials
  /\ call'[c].reply = IF prover = "none" THEN "failed" ELSE "wait"
  /\ lock' = c /\ dirty' = dirty
  /\ wire' \in Seq(Toggles)
  /\ prover = "none" => wire' = wire
  /\ prover # "none" =>
       /\ Len(wire') = Len(wire) + 1
       /\ \A i \in 1..Len(wire) : wire'[i] = wire[i]
       /\ wire'[Len(wire) + 1] = [serial |-> serial, on |-> on, by |-> c]

\* The fields of call C, to be, are R's, but for the await.
Awaits(c, r) ==
  /\ call'[c].op = r.op /\ call'[c].pc = r.pc /\ call'[c].ids = r.ids /\ call'[c].plan = r.plan
  /\ call'[c].paths = r.paths /\ call'[c].failed = r.failed /\ call'[c].marks = r.marks
  /\ call'[c].site = r.site

LEMMA Returned ==
  ASSUME Typed, NEW c \in Calls, NEW ok \in BOOLEAN, NEW es, Registry(es),
         Return(c, ok, es), wire' = wire
  PROVE  Over(c, ok) /\ entries' = es
<1>1. Nobody \notin Calls BY RegistryAssumption DEF RegistryAssumption
<1> DEFINE r == After(ok, es)
<1>2. IsCall(r) /\ r.pc \in {"idle", "targets"} /\ r.reply = "none" BY AfterIs
<1>3. call' = [call EXCEPT ![c] = r] BY DEF Return
<1>a. entries' = es /\ r = After(ok, entries') BY DEF Return
<1> HIDE DEF r
<1>4. /\ call' \in [Calls -> CallRecords] /\ \A d \in Calls : CallOK(call'[d])
      /\ call'[c] = r /\ \A d \in Calls \ {c} : call'[d] = call[d]
  BY <1>2, <1>3, CallSet
<1>5. dirty' = (IF ok THEN {} ELSE dirty) /\ dirty' \subseteq Files BY DEF Return, Typed
<1>6. lock' = IF lock = c THEN Nobody ELSE lock BY DEF Return
<1> QED BY <1>1, <1>2, <1>a, <1>4, <1>5, <1>6 DEF Typed, Over, CallsOK, Others

\* What a call that is to await a toggle looks like.
Asking(r) ==
  /\ r \in CallRecords /\ r.pc \in Switching /\ r.op # "reconcile"
  /\ r.pc \in {"arming", "abandon", "on"} => r.site \in SiteRecords
  /\ r.pc = "on" => r.plan \subseteq Plans /\ r.marks \subseteq Nat
  /\ r.pc \in {"abandon", "off"} => r.plan \subseteq Nat

LEMMA Awaited ==
  ASSUME Typed, NEW c \in Calls, NEW r, Asking(r), NEW serial \in Serials, NEW on \in BOOLEAN,
         Await(c, r, serial, on)
  PROVE  Sent(c, serial, on) /\ Awaits(c, r)
<1> DEFINE q == Awaiting(r, serial)
           m == [serial |-> serial, on |-> on, by |-> c]
<1>1. serial \in 0..MaxSerial BY Bounds DEF Serials
<1>2. /\ q \in CallRecords /\ q.op = r.op /\ q.pc = r.pc /\ q.ids = r.ids /\ q.plan = r.plan
      /\ q.paths = r.paths /\ q.failed = r.failed /\ q.marks = r.marks /\ q.site = r.site
      /\ q.cur = serial /\ q.reply = IF prover = "none" THEN "failed" ELSE "wait"
  BY <1>1 DEF Awaiting, CallRecords, Asking
<1>5. call' = [call EXCEPT ![c] = q] BY DEF Await
<1> HIDE DEF q
<1>6. CallOK(q) BY <1>2 DEF CallOK, Asking, Switching, Reconciling
<1>7. /\ call' \in [Calls -> CallRecords] /\ \A d \in Calls : CallOK(call'[d])
      /\ call'[c] = q /\ \A d \in Calls \ {c} : call'[d] = call[d]
  BY <1>2, <1>5, <1>6, CallSet DEF IsCall
<1>8. m \in Toggles BY DEF Toggles
<1>9. wire \in Seq(Toggles) BY DEF Typed
<1>10. wire' = IF prover = "none" THEN wire ELSE Append(wire, m) BY DEF Await, Send
<1>11. /\ Append(wire, m) \in Seq(Toggles) /\ Len(Append(wire, m)) = Len(wire) + 1
       /\ \A i \in 1 .. Len(wire) : Append(wire, m)[i] = wire[i]
       /\ Append(wire, m)[Len(wire) + 1] = m
  <2> HIDE DEF m
  <2> QED BY <1>8, <1>9, Appended
<1>12. lock' = c /\ dirty' = dirty BY DEF Await
<1> HIDE DEF m
<1>13. Awaits(c, r) BY <1>2, <1>7 DEF Awaits
<1>14. Sent(c, serial, on)
       BY <1>2, <1>7, <1>9, <1>10, <1>11, <1>12 DEF m, Sent, CallsOK, Others
<1> QED BY <1>13, <1>14

\* The caller no longer waits: its toggles go on without it.
LEMMA Orphaned ==
  ASSUME NEW c \in Calls, wire \in Seq(Toggles),
         wire' = [i \in DOMAIN wire |->
                    IF wire[i].by = c THEN [wire[i] EXCEPT !.by = Nobody] ELSE wire[i]]
  PROVE  /\ wire' \in Seq(Toggles) /\ Len(wire') = Len(wire) /\ DOMAIN wire' = DOMAIN wire
         /\ wire = <<>> => wire' = <<>>
         /\ \A i \in DOMAIN wire : /\ wire'[i].serial = wire[i].serial /\ wire'[i].on = wire[i].on
                                   /\ wire'[i].by = IF wire[i].by = c THEN Nobody ELSE wire[i].by
<1>1. DOMAIN wire = 1..Len(wire) /\ Len(wire) \in Nat OBVIOUS
<1>2. ASSUME NEW i \in DOMAIN wire
      PROVE  /\ wire'[i] \in Toggles
             /\ wire'[i].serial = wire[i].serial /\ wire'[i].on = wire[i].on
             /\ wire'[i].by = IF wire[i].by = c THEN Nobody ELSE wire[i].by
  <2>1. wire[i] \in Toggles BY <1>1
  <2>2. wire'[i] = IF wire[i].by = c THEN [wire[i] EXCEPT !.by = Nobody] ELSE wire[i] OBVIOUS
  <2> QED BY <2>1, <2>2 DEF Toggles
<1>3. wire' \in [1..Len(wire) -> Toggles] BY <1>1, <1>2
<1>4. wire' \in Seq(Toggles) /\ Len(wire') = Len(wire) BY <1>1, <1>3
<1> QED BY <1>1, <1>2, <1>4

-----------------------------------------------------------------------------
(* What each action of a call does.                                        *)

LEMMA OtherToolDoes ==
  ASSUME Typed, NEW c \in Calls, OtherTool(c)
  PROVE  /\ World /\ UNCHANGED <<entries, born, histVars>>
         /\ call[c].pc = "idle" /\ Over(c, TRUE)
<1>1. call[c].pc = "idle" /\ Return(c, TRUE, entries) BY DEF OtherTool, Begins
<1>2. wire' = wire /\ World /\ UNCHANGED <<born, histVars>>
  BY DEF OtherTool, progVars, World
<1>3. Registry(entries) BY DEF Typed
<1> QED BY <1>1, <1>2, <1>3, Returned

LEMMA SetListsDoes ==
  ASSUME Typed, NEW c \in Calls, SetLists(c)
  PROVE  /\ World /\ UNCHANGED <<entries, born, histVars>>
         /\ call[c].pc = "idle" /\ lock = Nobody
         /\ \/ Over(c, FALSE)
            \/ \E f \in Files : \E x \in Listing(f) :
                 /\ x.ready /\ Sent(c, x.serial, TRUE)
                 /\ call'[c].op = "set" /\ call'[c].pc = "arming" /\ call'[c].site = x
                 /\ call'[c].ids = {}
<1>1. /\ World /\ UNCHANGED <<born, histVars>> /\ call[c].pc = "idle" /\ lock = Nobody
  BY DEF SetLists, Begins, World
<1>2. Registry(entries) BY DEF Typed
<1>3. PICK f \in Files, l \in Lines : \E a \in Answers(f) :
        LET onLine == {x \in Listing(f) : x.line = l}
        IN IF a # "ok" \/ onLine = {} \/ \A x \in onLine : ~x.ready
           THEN Return(c, FALSE, entries) /\ UNCHANGED wire
           ELSE \E x \in onLine :
                  /\ x.ready
                  /\ Await(c, [Idle EXCEPT !.op = "set", !.pc = "arming", !.site = x], x.serial, TRUE)
                  /\ UNCHANGED entries
  BY DEF SetLists
<1>4. CASE Return(c, FALSE, entries) /\ UNCHANGED wire BY <1>1, <1>2, <1>4, Returned
<1>5. CASE \E x \in Listing(f) :
              /\ x.ready
              /\ Await(c, [Idle EXCEPT !.op = "set", !.pc = "arming", !.site = x], x.serial, TRUE)
              /\ UNCHANGED entries
  <2>1. PICK x \in Listing(f) :
              /\ x.ready
              /\ Await(c, [Idle EXCEPT !.op = "set", !.pc = "arming", !.site = x], x.serial, TRUE)
              /\ UNCHANGED entries
    BY <1>5
  <2>2. x \in SiteRecords BY ListingIs
  <2>3. x.serial \in Serials BY <2>2 DEF SiteRecords
  <2> DEFINE r == [Idle EXCEPT !.op = "set", !.pc = "arming", !.site = x]
  <2>4. Idle \in CallRecords /\ Idle.ids = {} BY IdleIs DEF IsCall, Idle
  <2>5. r \in CallRecords /\ r.op = "set" /\ r.pc = "arming" /\ r.site = x /\ r.ids = {}
    BY <2>2, <2>4 DEF CallRecords, Switching
  <2> HIDE DEF r
  <2>6. Asking(r) BY <2>2, <2>5 DEF Asking, Switching
  <2>7. Sent(c, x.serial, TRUE) /\ Awaits(c, r) BY <2>1, <2>3, <2>6, Awaited DEF r
  <2> QED BY <1>1, <2>1, <2>5, <2>7 DEF Awaits
<1> QED BY <1>3, <1>4, <1>5

\* The acknowledged arming is recorded.
Records(c, ids, x, known) ==
  /\ Over(c, TRUE)
  /\ Registry(entries')
  /\ \A e \in DOMAIN entries \ ids : e \in DOMAIN entries' /\ entries'[e] = entries[e]
  /\ \E a \in DOMAIN entries' :
       /\ entries'[a].state = "armed" /\ entries'[a].serial = x.serial /\ entries'[a].file = x.file
       /\ entries'[a].line = x.line /\ entries'[a].enabled
       /\ DOMAIN entries' = (DOMAIN entries \ ids) \cup {a}
       /\ IF ids = {} THEN a \notin DOMAIN entries ELSE a \in ids
  /\ DOMAIN entries' \subseteq 1..born' /\ born' \in 0..MaxEntries
  /\ unsure' = known \cup Late(x) /\ stale' = stale \cup Late(x)

LEMMA Recording ==
  ASSUME Typed, NEW c \in Calls, NEW x \in SiteRecords, NEW ids, NEW known,
         ids \subseteq DOMAIN entries, \A e \in ids : entries[e].file = x.file,
         ids = {} => born < MaxEntries, Record(c, ids, x, known)
  PROVE  Records(c, ids, x, known)
<1> DEFINE b == Recorded(entries, ids, x)
<1>1. Registry(entries) /\ born \in Nat /\ DOMAIN entries \subseteq 1..born /\ born \in 0..MaxEntries
  BY Bounds DEF Typed
<1>2. /\ Registry(b)
      /\ ids # {} => DOMAIN b \subseteq DOMAIN entries
      /\ DOMAIN b \subseteq DOMAIN entries \cup {born + 1}
      /\ \A e \in DOMAIN entries \ ids : e \in DOMAIN b /\ b[e] = entries[e]
      /\ \E a \in DOMAIN b :
           /\ b[a].state = "armed" /\ b[a].serial = x.serial /\ b[a].file = x.file
           /\ b[a].line = x.line /\ b[a].enabled
           /\ DOMAIN b = (DOMAIN entries \ ids) \cup {a}
           /\ IF ids = {} THEN a = born + 1 ELSE a = Min(ids) /\ a \in ids
  BY <1>1, RecordedIs
<1>3. Return(c, TRUE, b) /\ wire' = wire /\ born' = (IF ids = {} THEN born + 1 ELSE born)
      /\ unsure' = known \cup Late(x) /\ stale' = stale \cup Late(x)
  BY DEF Record
<1> HIDE DEF b
<1>4. Over(c, TRUE) /\ entries' = b BY <1>2, <1>3, Returned
<1>5. DOMAIN b \subseteq 1..born' /\ born' \in 0..MaxEntries
  BY <1>1, <1>2, <1>3, Bounds
<1>6. born + 1 \notin DOMAIN entries BY <1>1
<1> QED BY <1>2, <1>3, <1>4, <1>5, <1>6 DEF Records

\* The call goes on to switch off the site of an entry that is rebound.
Abandons(c, ids, x) ==
  /\ UNCHANGED <<entries, born, stale>>
  /\ \E e \in ids : /\ entries[e].serial # x.serial /\ e \in Armed(entries)
                    /\ Sent(c, entries[e].serial, FALSE)
  /\ call'[c].pc = "abandon" /\ call'[c].site = x /\ call'[c].ids = ids /\ call'[c].plan \subseteq ids

LEMMA AbandonIs ==
  ASSUME Typed, NEW c \in Calls, call[c].op # "reconcile", NEW x \in SiteRecords, NEW ids, NEW todo,
         ids \subseteq DOMAIN entries, todo # {}, todo \subseteq ids,
         \A e \in todo : entries[e].serial \notin {0, x.serial}, Abandon(c, ids, todo, x)
  PROVE  Abandons(c, ids, x)
<1> DEFINE e == Min(todo)
           r == [call[c] EXCEPT !.pc = "abandon", !.site = x, !.ids = ids, !.plan = todo \ {e}]
<1>1. DOMAIN entries \subseteq Nat /\ Registry(entries) BY DEF Typed, Registry
<1>2. todo \in SUBSET Nat BY <1>1
<1>3. e \in todo BY <1>2, MinIsLeast
<1>4. Await(c, r, entries[e].serial, FALSE) /\ UNCHANGED <<entries, born, stale>>
  BY DEF Abandon
<1> HIDE DEF e
<1>5. e \in DOMAIN entries /\ e \in ids /\ e \in Armed(entries) /\ entries[e].serial \in Serials
  BY <1>1, <1>3, EntryIs
<1>6. call[c] \in CallRecords BY DEF Typed
<1>7. /\ r \in CallRecords /\ r.pc = "abandon" /\ r.site = x /\ r.ids = ids
      /\ r.plan = todo \ {e} /\ r.op = call[c].op
  BY <1>1, <1>2, <1>6 DEF CallRecords, Switching
<1> HIDE DEF r
<1>8. Asking(r) BY <1>2, <1>7 DEF Asking, Switching
<1>9. Sent(c, entries[e].serial, FALSE) /\ Awaits(c, r) BY <1>4, <1>5, <1>8, Awaited
<1>10. e \in ids /\ entries[e].serial # x.serial BY <1>3, <1>5
<1> QED BY <1>4, <1>5, <1>7, <1>9, <1>10 DEF Abandons, Awaits

LEMMA MatchingIs ==
  ASSUME NEW es, NEW x
  PROVE  /\ Matching(es, x) \subseteq DOMAIN es
         /\ \A e \in Matching(es, x) : /\ es[e].file = x.file
                                       /\ es[e].serial = x.serial \/ es[e].line = x.line
         /\ \A e \in DOMAIN es : es[e].file = x.file /\ es[e].serial = x.serial =>
              e \in Matching(es, x)
BY DEF Matching

LEMMA SetAnsweredDoes ==
  ASSUME Typed, Locking, NEW c \in Calls, SetAnswered(c)
  PROVE  LET x == call[c].site
             ids == Matching(entries, x)
             known == Vouched(x.serial, call[c].reply)
         IN
         /\ World /\ doubled' = doubled
         /\ call[c].pc = "arming" /\ lock = c /\ call[c].reply \in Final \cup {"failed"}
         /\ \/ /\ Over(c, FALSE) /\ UNCHANGED <<entries, born, stale>>
               /\ call[c].reply # "ok" /\ unsure' = known
            \/ /\ call[c].reply = "ok" /\ Records(c, ids, x, known)
               /\ \A e \in ids : entries[e].serial \in {0, x.serial}
            \/ call[c].reply = "ok" /\ Abandons(c, ids, x) /\ unsure' = known
<1> DEFINE x == call[c].site
           ids == Matching(entries, x)
           todo == Abandoned(entries, ids, x)
           known == Vouched(x.serial, call[c].reply)
<1>1. /\ World /\ doubled' = doubled /\ call[c].pc = "arming"
      /\ call[c].reply \notin {"none", "wait"}
  BY DEF SetAnswered, Answered, World
<1>2. /\ call[c] \in CallRecords /\ CallOK(call[c]) /\ Registry(entries) BY DEF Typed
<1>3. /\ call[c].reply \in Final \cup {"failed"} BY <1>1, <1>2 DEF CallRecords
<1>4. lock = c BY <1>1 DEF Locking, Switching
<1>5. x \in SiteRecords /\ call[c].op # "reconcile" BY <1>1, <1>2 DEF CallOK, Reconciling
<1>6. \/ call[c].reply # "ok" /\ Return(c, FALSE, entries) /\ unsure' = known
         /\ UNCHANGED <<born, stale, wire>>
      \/ call[c].reply = "ok" /\ todo = {} /\ (ids = {} => born < MaxEntries) /\ Record(c, ids, x, known)
      \/ call[c].reply = "ok" /\ todo # {} /\ Abandon(c, ids, todo, x) /\ unsure' = known
  BY DEF SetAnswered
<1>7. ids \subseteq DOMAIN entries /\ \A e \in ids : entries[e].file = x.file BY DEF Matching
<1>8. todo \subseteq ids /\ \A e \in ids : e \in todo <=> entries[e].serial \notin {0, x.serial}
  BY DEF Abandoned
<1> HIDE DEF x, ids, todo, known
<1>9. CASE call[c].reply # "ok" /\ Return(c, FALSE, entries) /\ unsure' = known
         /\ UNCHANGED <<born, stale, wire>>
  <2>1. Over(c, FALSE) /\ entries' = entries BY <1>2, <1>9, Returned
  <2> QED BY <2>1, <1>1, <1>3, <1>4, <1>9 DEF x, known
<1>10. CASE call[c].reply = "ok" /\ todo = {} /\ (ids = {} => born < MaxEntries)
            /\ Record(c, ids, x, known)
  <2>1. Records(c, ids, x, known) BY <1>5, <1>7, <1>10, Recording
  <2>2. \A e \in ids : entries[e].serial \in {0, x.serial} BY <1>8, <1>10
  <2> QED BY <2>1, <2>2, <1>1, <1>3, <1>4, <1>10 DEF x, known, ids
<1>11. CASE call[c].reply = "ok" /\ todo # {} /\ Abandon(c, ids, todo, x) /\ unsure' = known
  <2>1. Abandons(c, ids, x) BY <1>5, <1>7, <1>8, <1>11, AbandonIs
  <2> QED BY <2>1, <1>1, <1>3, <1>4, <1>11 DEF x, known, ids
<1> QED BY <1>6, <1>9, <1>10, <1>11

LEMMA SetAbandonedDoes ==
  ASSUME Typed, Locking, StagesOK, NEW c \in Calls, SetAbandoned(c)
  PROVE  LET r == call[c]
             known == Vouched(r.cur, r.reply)
         IN
         /\ World /\ doubled' = doubled
         /\ r.pc = "abandon" /\ lock = c /\ r.reply \in Final \cup {"failed"}
         /\ \/ Records(c, r.ids, r.site, known)
            \/ Abandons(c, r.ids, r.site) /\ unsure' = known
<1> DEFINE r == call[c]
           todo == Abandoned(entries, r.plan, r.site)
           known == Vouched(r.cur, r.reply)
<1>1. World /\ doubled' = doubled /\ r.pc = "abandon" /\ r.reply \notin {"none", "wait"}
  BY DEF SetAbandoned, Answered, World
<1>2. r \in CallRecords /\ CallOK(r) /\ Registry(entries) BY DEF Typed
<1>3. r.reply \in Final \cup {"failed"} BY <1>1, <1>2 DEF CallRecords
<1>4. lock = c BY <1>1 DEF Locking, Switching
<1>5. r.site \in SiteRecords /\ r.op # "reconcile" BY <1>1, <1>2 DEF CallOK, Reconciling
<1>6. \/ todo = {} /\ Record(c, r.ids, r.site, known)
      \/ todo # {} /\ Abandon(c, r.ids, todo, r.site) /\ unsure' = known
  BY DEF SetAbandoned
<1>7. Abandoning(c) BY <1>1 DEF StagesOK, Stage
<1>8. /\ r.ids \subseteq DOMAIN entries /\ \A e \in r.ids : entries[e].file = r.site.file
      /\ r.plan \subseteq r.ids /\ r.ids # {}
  BY <1>7 DEF Abandoning
<1>9. todo \subseteq r.ids /\ \A e \in todo : entries[e].serial \notin {0, r.site.serial}
  BY <1>8 DEF Abandoned
<1> HIDE DEF todo, known, r
<1>10. CASE todo = {} /\ Record(c, r.ids, r.site, known)
  <2>1. Records(c, r.ids, r.site, known) BY <1>5, <1>8, <1>10, Recording
  <2> QED BY <2>1, <1>1, <1>3, <1>4 DEF known, r
<1>11. CASE todo # {} /\ Abandon(c, r.ids, todo, r.site) /\ unsure' = known
  <2>1. call[c].op # "reconcile" BY <1>5 DEF r
  <2>2. Abandons(c, r.ids, r.site) BY <1>5, <1>8, <1>9, <1>11, <2>1, AbandonIs
  <2> QED BY <2>2, <1>1, <1>3, <1>4, <1>11 DEF known, r
<1> QED BY <1>6, <1>10, <1>11

LEMMA DeleteStartsDoes ==
  ASSUME Typed, NEW c \in Calls, DeleteStarts(c)
  PROVE  /\ World /\ UNCHANGED <<born, histVars>>
         /\ call[c].pc = "idle" /\ lock = Nobody
         /\ \/ Over(c, TRUE) /\ entries' = entries
            \/ \E d \in DOMAIN entries \ Armed(entries) :
                 Over(c, TRUE) /\ entries' = Without(entries, {d})
            \/ \E d \in Armed(entries) :
                 /\ Sent(c, entries[d].serial, FALSE) /\ entries' = entries
                 /\ call'[c].pc = "disarm" /\ call'[c].ids = {d}
<1>1. /\ World /\ UNCHANGED <<born, histVars>> /\ call[c].pc = "idle" /\ lock = Nobody
  BY DEF DeleteStarts, Begins, World
<1>2. Registry(entries) BY DEF Typed
<1>3. PICK d \in DOMAIN entries :
        LET ids == {e \in DOMAIN entries : entries[e].file = entries[d].file
                                         /\ entries[e].line = entries[d].line}
        IN CASE ids # {d} -> Return(c, TRUE, entries) /\ UNCHANGED wire
            [] ids = {d} /\ entries[d].serial = 0 ->
                 Return(c, TRUE, Without(entries, ids)) /\ UNCHANGED wire
            [] OTHER ->
                 /\ Await(c, [Idle EXCEPT !.op = "delete", !.pc = "disarm", !.ids = ids],
                          entries[d].serial, FALSE)
                 /\ UNCHANGED entries
  BY DEF DeleteStarts
<1> DEFINE ids == {e \in DOMAIN entries : entries[e].file = entries[d].file
                                         /\ entries[e].line = entries[d].line}
           r == [Idle EXCEPT !.op = "delete", !.pc = "disarm", !.ids = {d}]
<1> HIDE DEF ids
<1>4. CASE ids # {d}
  <2>1. Return(c, TRUE, entries) /\ UNCHANGED wire BY <1>3, <1>4 DEF ids
  <2> QED BY <2>1, <1>1, <1>2, Returned
<1>5. CASE ids = {d} /\ entries[d].serial = 0
  <2>1. Return(c, TRUE, Without(entries, {d})) /\ UNCHANGED wire BY <1>3, <1>5 DEF ids
  <2>2. Registry(Without(entries, {d})) BY <1>2, WithoutIs, Zenon
  <2>3. Over(c, TRUE) /\ entries' = Without(entries, {d}) BY <2>1, <2>2, Returned
  <2>4. d \notin Armed(entries) BY <1>2, <1>5, EntryIs
  <2> QED BY <2>3, <2>4, <1>1
<1>6. CASE ids = {d} /\ entries[d].serial # 0
  <2>1. Await(c, r, entries[d].serial, FALSE) /\ UNCHANGED entries BY <1>3, <1>6 DEF ids
  <2>2. d \in Armed(entries) /\ entries[d].serial \in Serials /\ d \in Nat BY <1>2, <1>6, EntryIs
  <2>3. Idle \in CallRecords BY IdleIs DEF IsCall
  <2>4. r \in CallRecords /\ r.op = "delete" /\ r.pc = "disarm" /\ r.ids = {d}
    BY <2>2, <2>3 DEF CallRecords, Switching
  <2> HIDE DEF r
  <2>5. Asking(r) BY <2>4 DEF Asking, Switching
  <2>6. Sent(c, entries[d].serial, FALSE) /\ Awaits(c, r) BY <2>1, <2>2, <2>5, Awaited
  <2> QED BY <2>1, <2>2, <2>4, <2>6, <1>1 DEF Awaits
<1> QED BY <1>4, <1>5, <1>6

LEMMA DeleteAnsweredDoes ==
  ASSUME Typed, Locking, NEW c \in Calls, DeleteAnswered(c)
  PROVE  /\ World /\ UNCHANGED <<born, doubled, stale>>
         /\ call[c].pc = "disarm" /\ lock = c /\ call[c].reply \in Final \cup {"failed"}
         /\ Over(c, TRUE) /\ entries' = Without(entries, call[c].ids)
         /\ unsure' = Vouched(call[c].cur, call[c].reply)
<1>1. /\ World /\ UNCHANGED <<born, doubled, stale>> /\ wire' = wire /\ call[c].pc = "disarm"
      /\ call[c].reply \notin {"none", "wait"} /\ unsure' = Vouched(call[c].cur, call[c].reply)
      /\ Return(c, TRUE, Without(entries, call[c].ids))
  BY DEF DeleteAnswered, Answered, World, progVars
<1>2. call[c] \in CallRecords /\ Registry(entries) BY DEF Typed
<1>3. call[c].reply \in Final \cup {"failed"} BY <1>1, <1>2 DEF CallRecords
<1>4. lock = c BY <1>1 DEF Locking, Switching
<1>5. Registry(Without(entries, call[c].ids)) BY <1>2, WithoutIs, Zenon
<1>6. Over(c, TRUE) /\ entries' = Without(entries, call[c].ids) BY <1>1, <1>5, Returned
<1> QED BY <1>1, <1>3, <1>4, <1>6

\* A disable clears the flags as far as the next armed entry, whose site it
\* switches off, or of all that are left.
Disables(c, es, todo) ==
  \/ Over(c, TRUE) /\ entries' = Enable(es, todo, FALSE) /\ todo \cap Armed(es) = {}
  \/ \E d \in Armed(es) : \E upto \in SUBSET todo :
       /\ d \in upto /\ upto \cap Armed(es) = {d}
       /\ entries' = Enable(es, upto, FALSE)
       /\ Sent(c, es[d].serial, FALSE)
       /\ call'[c].pc = "off" /\ call'[c].ids = {d} /\ call'[c].plan \subseteq Nat

LEMMA Disabling ==
  ASSUME Typed, NEW c \in Calls, NEW es, Registry(es), NEW todo \in SUBSET Nat, DisableFrom(c, es, todo)
  PROVE  Disables(c, es, todo)
<1> DEFINE armed == todo \cap Armed(es)
           d == Min(armed)
           upto == {x \in todo : x <= d}
           r == [Idle EXCEPT !.op = "disable", !.pc = "off", !.ids = {d}, !.plan = todo \ upto]
<1>1. CASE armed = {}
  <2>1. Return(c, TRUE, Enable(es, todo, FALSE)) /\ UNCHANGED wire BY <1>1 DEF DisableFrom
  <2>2. Registry(Enable(es, todo, FALSE)) BY EnableIs, Zenon
  <2> QED BY <1>1, <2>1, <2>2, Returned DEF Disables
<1>2. CASE armed # {}
  <2>1. entries' = Enable(es, upto, FALSE) /\ Await(c, r, es[d].serial, FALSE)
    BY <1>2 DEF DisableFrom
  <2>2. armed \in SUBSET Nat OBVIOUS
  <2>3. d \in armed /\ \A x \in armed : d <= x BY <1>2, <2>2, MinIsLeast
  <2> HIDE DEF d
  <2>4. d \in Nat /\ d \in todo /\ d \in Armed(es) BY <2>3
  <2>5. d \in DOMAIN es /\ es[d].serial \in Serials BY <2>4, EntryIs DEF Armed
  <2>6. upto \in SUBSET todo /\ d \in upto BY <2>4
  <2>7. upto \cap Armed(es) = {d}
    <3>1. \A x \in upto \cap Armed(es) : x = d
      <4> TAKE x \in upto \cap Armed(es)
      <4>1. x \in armed /\ x <= d /\ x \in Nat OBVIOUS
      <4> QED BY <4>1, <2>3, <2>4
    <3> QED BY <3>1, <2>4, <2>6
  <2>8. Idle \in CallRecords BY IdleIs DEF IsCall
  <2>9. todo \ upto \subseteq Nat OBVIOUS
  <2> HIDE DEF upto
  <2>10. /\ r \in CallRecords /\ r.op = "disable" /\ r.pc = "off" /\ r.ids = {d}
         /\ r.plan = todo \ upto
    BY <2>4, <2>8, <2>9 DEF CallRecords, Switching
  <2> HIDE DEF r
  <2>11. Asking(r) BY <2>9, <2>10 DEF Asking, Switching
  <2>12. Sent(c, es[d].serial, FALSE) /\ Awaits(c, r) BY <2>1, <2>5, <2>11, Awaited
  <2> QED BY <2>1, <2>4, <2>6, <2>7, <2>9, <2>10, <2>12 DEF Disables, Awaits
<1> QED BY <1>1, <1>2

LEMMA DisableStartsDoes ==
  ASSUME Typed, NEW c \in Calls, DisableStarts(c)
  PROVE  /\ World /\ UNCHANGED <<born, histVars>>
         /\ call[c].pc = "idle" /\ lock = Nobody
         /\ \E todo \in SUBSET DOMAIN entries : Disables(c, entries, todo)
<1>1. /\ World /\ UNCHANGED <<born, histVars>> /\ call[c].pc = "idle" /\ lock = Nobody
  BY DEF DisableStarts, Begins, World
<1>2. Registry(entries) BY DEF Typed
<1>3. PICK scope \in Scopes : DisableFrom(c, entries, InScope(scope)) BY DEF DisableStarts
<1>4. InScope(scope) \in SUBSET DOMAIN entries /\ InScope(scope) \in SUBSET Nat
  BY <1>2 DEF InScope, Registry
<1>5. Disables(c, entries, InScope(scope)) BY <1>2, <1>3, <1>4, Disabling
<1> QED BY <1>1, <1>4, <1>5

LEMMA DisableAnsweredDoes ==
  ASSUME Typed, Locking, NEW c \in Calls, DisableAnswered(c)
  PROVE  LET r == call[c] IN
         /\ World /\ UNCHANGED <<born, doubled, stale>>
         /\ r.pc = "off" /\ lock = c /\ r.reply \in Final \cup {"failed"}
         /\ unsure' = Vouched(r.cur, r.reply)
         /\ \E tag \in {NotFound, WireFailure} : \E es :
              /\ r.reply # "unknown" => tag = WireFailure
              /\ es = (IF r.reply = "ok" THEN entries ELSE Demote(entries, r.ids, tag))
              /\ Registry(es) /\ DOMAIN es = DOMAIN entries
              /\ Disables(c, es, r.plan)
<1> DEFINE r == call[c]
           tag == IF r.reply = "unknown" THEN NotFound ELSE WireFailure
           es == IF r.reply = "ok" THEN entries ELSE Demote(entries, r.ids, tag)
<1>1. /\ World /\ UNCHANGED <<born, doubled, stale>> /\ r.pc = "off"
      /\ r.reply \notin {"none", "wait"} /\ unsure' = Vouched(r.cur, r.reply)
      /\ DisableFrom(c, es, r.plan)
  BY DEF DisableAnswered, Answered, World
<1>2. r \in CallRecords /\ CallOK(r) /\ Registry(entries) BY DEF Typed
<1>3. r.reply \in Final \cup {"failed"} BY <1>1, <1>2 DEF CallRecords
<1>4. lock = c BY <1>1 DEF Locking, Switching
<1>5. tag \in {NotFound, WireFailure} /\ (r.reply # "unknown" => tag = WireFailure) OBVIOUS
<1>6. tag \in Reasons \ {"none"} BY <1>5 DEF Reasons, NotFound, WireFailure
<1>7. r.plan \in SUBSET Nat BY <1>1, <1>2 DEF CallOK
<1> HIDE DEF tag
<1>8. Registry(es) /\ DOMAIN es = DOMAIN entries
  <2>1. Registry(Demote(entries, r.ids, tag)) /\ DOMAIN Demote(entries, r.ids, tag) = DOMAIN entries
    BY <1>2, <1>6, DemoteIs, Zenon
  <2> QED BY <1>2, <2>1
<1>9. es = (IF r.reply = "ok" THEN entries ELSE Demote(entries, r.ids, tag)) OBVIOUS
<1> HIDE DEF es, r
<1>10. Disables(c, es, r.plan) BY <1>1, <1>7, <1>8, Disabling
<1> QED BY <1>1, <1>3, <1>4, <1>5, <1>8, <1>9, <1>10 DEF r

\* Nothing of the lock, the marks and the wire is touched.
Quiet(c) ==
  /\ CallsOK /\ Others(c) /\ call'[c].reply = "none"
  /\ UNCHANGED <<lock, dirty, wire>>

LEMMA EnableCollectsDoes ==
  ASSUME Typed, NEW c \in Calls, EnableCollects(c)
  PROVE  /\ World /\ UNCHANGED <<entries, born, histVars>>
         /\ call[c].pc = "idle" /\ Quiet(c) /\ call'[c].pc = "reopen"
<1>1. /\ World /\ UNCHANGED <<entries, born, histVars>> /\ UNCHANGED <<lock, dirty, wire>> /\ call[c].pc = "idle"
  BY DEF EnableCollects, Begins, World, progVars
<1>2. PICK scope \in Scopes :
        call' = [call EXCEPT ![c] = [Idle EXCEPT !.op = "enable", !.pc = "reopen",
                     !.ids = InScope(scope), !.paths = {entries[e].file : e \in InScope(scope)}]]
  BY DEF EnableCollects
<1> DEFINE r == [Idle EXCEPT !.op = "enable", !.pc = "reopen",
                     !.ids = InScope(scope), !.paths = {entries[e].file : e \in InScope(scope)}]
<1>3. Idle \in CallRecords /\ Idle.reply = "none" BY IdleIs DEF IsCall
<1>4. InScope(scope) \in SUBSET Nat BY DEF InScope, Typed, Registry
<1>5. {entries[e].file : e \in InScope(scope)} \in SUBSET Files BY EntryIs DEF Typed, InScope
<1>6. r \in CallRecords /\ r.pc = "reopen" /\ r.op = "enable" /\ r.reply = "none"
  BY <1>3, <1>4, <1>5 DEF CallRecords
<1>7. call' = [call EXCEPT ![c] = r] BY <1>2
<1> HIDE DEF r
<1>8. IsCall(r) BY <1>6 DEF IsCall, CallOK, Switching, Reconciling
<1>9. /\ call' \in [Calls -> CallRecords] /\ \A d \in Calls : CallOK(call'[d])
      /\ call'[c] = r /\ \A d \in Calls \ {c} : call'[d] = call[d]
  BY <1>7, <1>8, CallSet
<1> QED BY <1>1, <1>6, <1>9 DEF Quiet, CallsOK, Others

LEMMA EnableReopensDoes ==
  ASSUME Typed, NEW c \in Calls, EnableReopens(c)
  PROVE  /\ World /\ UNCHANGED <<entries, born, histVars>>
         /\ call[c].pc = "reopen" /\ Quiet(c) /\ call'[c].pc = "stage three"
<1>1. /\ World /\ UNCHANGED <<entries, born, histVars>> /\ UNCHANGED <<lock, dirty, wire>>
      /\ call[c].pc = "reopen" /\ call[c].op = "enable"
  BY DEF EnableReopens, World, progVars
<1>2. PICK bad : /\ bad \in {{}} \cup {{f} : f \in call[c].paths}
                 /\ call' = [call EXCEPT ![c].pc = "stage three", ![c].failed = bad]
  <2>1. PICK bad \in {{}} \cup (IF MoreTrouble \/ prover # "up"
                           THEN {{f} : f \in call[c].paths} ELSE {}) :
                 call' = [call EXCEPT ![c].pc = "stage three", ![c].failed = bad]
    BY DEF EnableReopens
  <2>2. bad \in {{}} \cup {{f} : f \in call[c].paths} OBVIOUS
  <2> QED BY <2>1, <2>2
<1>3. call[c] \in CallRecords /\ CallOK(call[c]) BY DEF Typed
<1>4. bad \in SUBSET Files BY <1>2, <1>3 DEF CallRecords
<1> DEFINE r == [call[c] EXCEPT !.pc = "stage three", !.failed = bad]
<1>5. /\ r \in CallRecords /\ r.pc = "stage three" /\ r.op = "enable" /\ r.reply = call[c].reply
  BY <1>1, <1>3, <1>4 DEF CallRecords
<1>6. call[c].reply = "none" BY <1>1, <1>3 DEF CallOK, Switching
<1>7. call' = [call EXCEPT ![c] = r] BY <1>2 DEF Typed
<1> HIDE DEF r
<1>8. IsCall(r) BY <1>5, <1>6 DEF IsCall, CallOK, Switching, Reconciling
<1>9. /\ call' \in [Calls -> CallRecords] /\ \A d \in Calls : CallOK(call'[d])
      /\ call'[c] = r /\ \A d \in Calls \ {c} : call'[d] = call[d]
  BY <1>7, <1>8, CallSet
<1> QED BY <1>1, <1>5, <1>6, <1>9 DEF Quiet, CallsOK, Others

LEMMA EnableFlagsDoes ==
  ASSUME Typed, NEW c \in Calls, EnableFlags(c)
  PROVE  /\ World /\ UNCHANGED <<born, histVars>>
         /\ call[c].pc = "stage three" /\ lock = Nobody
         /\ \/ Over(c, TRUE) /\ entries' = entries
            \/ /\ CallsOK /\ Others(c) /\ call'[c].reply = "none" /\ call'[c].pc = "files"
               /\ call'[c].ids \subseteq DOMAIN entries
               /\ call'[c].paths = {entries[e].file : e \in call'[c].ids}
               /\ entries' = Enable(entries, call'[c].ids, TRUE)
               /\ lock' = c /\ UNCHANGED <<dirty, wire>>
<1>1. /\ World /\ UNCHANGED <<born, histVars>> /\ wire' = wire
      /\ call[c].pc = "stage three" /\ call[c].op = "enable" /\ lock = Nobody
  BY DEF EnableFlags, World, progVars
<1> DEFINE ids == call[c].ids \cap DOMAIN entries
           paths == {entries[e].file : e \in ids}
           r == [call[c] EXCEPT !.pc = "files", !.ids = ids, !.paths = paths]
<1>2. call[c] \in CallRecords /\ CallOK(call[c]) /\ Registry(entries) BY DEF Typed
<1>3. \/ Return(c, TRUE, entries)
      \/ /\ entries' = Enable(entries, ids, TRUE) /\ lock' = c /\ dirty' = dirty
         /\ call' = [call EXCEPT ![c].pc = "files", ![c].ids = ids, ![c].paths = paths]
  BY DEF EnableFlags
<1>4. CASE Return(c, TRUE, entries) BY <1>1, <1>2, <1>4, Returned
<1>5. CASE /\ entries' = Enable(entries, ids, TRUE) /\ lock' = c /\ dirty' = dirty
           /\ call' = [call EXCEPT ![c].pc = "files", ![c].ids = ids, ![c].paths = paths]
  <2>1. ids \in SUBSET Nat /\ paths \in SUBSET Files BY <1>2, EntryIs DEF Registry
  <2>2. call' = [call EXCEPT ![c] = r] BY <1>5 DEF Typed
  <2>3. paths = {entries[e].file : e \in ids} /\ ids \subseteq DOMAIN entries OBVIOUS
  <2> HIDE DEF ids, paths
  <2>4. /\ r \in CallRecords /\ r.pc = "files" /\ r.op = "enable" /\ r.reply = call[c].reply
        /\ r.ids = ids /\ r.paths = paths
    BY <1>1, <1>2, <2>1 DEF CallRecords, Arming
  <2>5. call[c].reply = "none" BY <1>1, <1>2 DEF CallOK, Switching
  <2> HIDE DEF r
  <2>6. IsCall(r) BY <2>4, <2>5 DEF IsCall, CallOK, Switching, Reconciling
  <2>7. /\ call' \in [Calls -> CallRecords] /\ \A d \in Calls : CallOK(call'[d])
        /\ call'[c] = r /\ \A d \in Calls \ {c} : call'[d] = call[d]
    BY <2>2, <2>6, CallSet
  <2> QED BY <1>1, <1>5, <2>3, <2>4, <2>5, <2>7 DEF CallsOK, Others
<1> QED BY <1>3, <1>4, <1>5

\* Where an enable stands after a listing or an answer: at the next entry of
\* the plan, at the next file, or at its end.
ArmsNext(c, es, plan, paths, known) ==
  /\ unsure' = known
  /\ \/ \E p \in plan :
          /\ entries' = es /\ doubled' = doubled
          /\ Sent(c, p.site.serial, TRUE)
          /\ call'[c].pc = "on" /\ call'[c].ids = call[c].ids /\ call'[c].site = p.site
          /\ call'[c].marks = {p.id} /\ call'[c].plan = plan \ {p} /\ call'[c].paths = paths
     \/ /\ plan = {} /\ entries' = es /\ doubled' = doubled
        /\ CallsOK /\ Others(c) /\ call'[c].reply = "none" /\ call'[c].pc = "files"
        /\ call'[c].ids = call[c].ids /\ call'[c].paths = paths
        /\ UNCHANGED <<lock, dirty, wire>>
     \/ /\ plan = {} /\ paths = {} /\ Over(c, TRUE)
        /\ entries' = MergeSameSite(es, call[c].ids) /\ doubled' = doubled \cup Twins(entries')

LEMMA Advancing ==
  ASSUME Typed, NEW c \in Calls, call[c].pc \in Arming, NEW es, Registry(es),
         NEW plan \in SUBSET Plans, NEW paths \in SUBSET Files, NEW known,
         ArmNext(c, es, plan, paths, known)
  PROVE  ArmsNext(c, es, plan, paths, known)
<1>1. call[c] \in CallRecords /\ CallOK(call[c]) BY DEF Typed
<1>2. call[c].op # "reconcile" BY <1>1 DEF CallOK, Reconciling, Arming
<1>3. CASE plan # {}
  <2> DEFINE p == CHOOSE x \in plan : \A y \in plan : x.id <= y.id
             r == [call[c] EXCEPT !.pc = "on", !.site = p.site, !.marks = {p.id},
                         !.plan = plan \ {p}, !.paths = paths]
  <2>1. /\ Await(c, r, p.site.serial, TRUE) /\ entries' = es /\ unsure' = known /\ doubled' = doubled
    BY <1>3 DEF ArmNext
  <2>2. p \in plan
    <3> DEFINE T == {x.id : x \in plan}
    <3>1. T \in SUBSET Nat /\ T # {} BY <1>3 DEF Plans
    <3>2. PICK n \in T : \A m \in T : n <= m BY <3>1, Least
    <3>3. PICK x \in plan : x.id = n BY <3>2
    <3>4. \A y \in plan : x.id <= y.id BY <3>2, <3>3
    <3> QED BY <3>3, <3>4
  <2> HIDE DEF p
  <2>3. p.site \in SiteRecords /\ p.id \in Nat /\ p.site.serial \in Serials
    BY <2>2 DEF Plans, SiteRecords
  <2>4. plan \ {p} \in SUBSET (Nat \cup Plans) OBVIOUS
  <2>5. /\ r \in CallRecords /\ r.pc = "on" /\ r.op = call[c].op /\ r.site = p.site
        /\ r.marks = {p.id} /\ r.plan = plan \ {p} /\ r.paths = paths /\ r.ids = call[c].ids
    BY <1>1, <2>3, <2>4 DEF CallRecords, Switching
  <2> HIDE DEF r
  <2>6. Asking(r) BY <1>2, <2>3, <2>5 DEF Asking, Switching
  <2>7. Sent(c, p.site.serial, TRUE) /\ Awaits(c, r) BY <2>1, <2>3, <2>6, Awaited
  <2> QED BY <2>1, <2>2, <2>5, <2>7 DEF ArmsNext, Awaits
<1>4. CASE plan = {} /\ paths # {}
  <2> DEFINE r == [call[c] EXCEPT !.pc = "files", !.plan = {}, !.paths = paths, !.reply = "none", !.cur = 0]
  <2>1. /\ call' = [call EXCEPT ![c] = r]
        /\ entries' = es /\ unsure' = known /\ UNCHANGED <<lock, dirty, wire, doubled>>
    BY <1>4 DEF ArmNext
  <2>2. /\ r \in CallRecords /\ r.pc = "files" /\ r.op = call[c].op /\ r.reply = "none"
        /\ r.ids = call[c].ids /\ r.paths = paths
    <3>1. 0 \in 0..MaxSerial BY Bounds
    <3>2. {} \in SUBSET (Nat \cup Plans) OBVIOUS
    <3> QED BY <1>1, <3>1, <3>2 DEF CallRecords, Arming
  <2> HIDE DEF r
  <2>3. IsCall(r) BY <1>2, <2>2 DEF IsCall, CallOK, Switching, Reconciling
  <2>4. /\ call' \in [Calls -> CallRecords] /\ \A d \in Calls : CallOK(call'[d])
        /\ call'[c] = r /\ \A d \in Calls \ {c} : call'[d] = call[d]
    BY <2>1, <2>3, CallSet
  <2> QED BY <1>4, <2>1, <2>2, <2>4 DEF ArmsNext, CallsOK, Others
<1>5. CASE plan = {} /\ paths = {}
  <2> DEFINE b == MergeSameSite(es, call[c].ids)
  <2>1. Return(c, TRUE, b) /\ unsure' = known /\ doubled' = doubled \cup Twins(b) /\ wire' = wire
    BY <1>5 DEF ArmNext, EnableEnds
  <2>2. Registry(b) BY MergeIs
  <2>3. Over(c, TRUE) /\ entries' = b BY <2>1, <2>2, Returned
  <2> QED BY <1>5, <2>1, <2>3 DEF ArmsNext
<1> QED BY <1>3, <1>4, <1>5

\* ES is the registry with the entries of OUT demoted.
Demoting(es, out) ==
  /\ Registry(es) /\ DOMAIN es = DOMAIN entries
  /\ Armed(es) = Armed(entries) \ out
  /\ \A e \in DOMAIN entries : /\ e \notin out => es[e] = entries[e]
                               /\ es[e].file = entries[e].file /\ es[e].line = entries[e].line
                               /\ es[e].enabled = entries[e].enabled
                               /\ e \in out => es[e].serial = 0

\* ... none of which has a live site, but for those nothing vouches for then.
Sparing(es, out, known) ==
  \A e \in out \cap Armed(entries) :
    entries[e].serial \in DOMAIN sites \ stale =>
      entries[e].serial \in known /\ es[e].reason = WireFailure

LEMMA DemotingIs ==
  ASSUME Typed, NEW out, NEW tag \in Reasons \ {"none"}
  PROVE  /\ Demoting(Demote(entries, out, tag), out)
         /\ \A e \in out \cap DOMAIN entries : Demote(entries, out, tag)[e].reason = tag
<1>1. Registry(entries) BY DEF Typed
<1> DEFINE b == Demote(entries, out, tag)
<1>2. /\ Registry(b) /\ DOMAIN b = DOMAIN entries
      /\ Armed(b) = Armed(entries) \ out
      /\ \A e \in DOMAIN entries : /\ e \notin out => b[e] = entries[e]
                                   /\ e \in out => b[e].serial = 0 /\ b[e].reason = tag
                                   /\ b[e].file = entries[e].file /\ b[e].line = entries[e].line
                                   /\ b[e].enabled = entries[e].enabled
  BY <1>1, DemoteIs
<1> HIDE DEF b
<1>3. Demoting(b, out) BY <1>2 DEF Demoting
<1>4. \A e \in out \cap DOMAIN entries : b[e].reason = tag BY <1>2
<1> QED BY <1>3, <1>4 DEF b

LEMMA DemotedTwice ==
  ASSUME Typed, NEW none, NEW soon, NEW tag \in Reasons \ {"none"}, NEW late \in Reasons \ {"none"}
  PROVE  Demoting(Demote(Demote(entries, none, tag), soon, late), none \cup soon)
<1>1. ASSUME NEW once, once = Demote(entries, none, tag), NEW twice, twice = Demote(once, soon, late)
      PROVE  Demoting(twice, none \cup soon)
  <2>1. Demoting(once, none) BY <1>1, DemotingIs, Zenon
  <2>2. Registry(once) BY <2>1 DEF Demoting
  <2>3. /\ Registry(twice) /\ DOMAIN twice = DOMAIN once
        /\ Armed(twice) = Armed(once) \ soon
        /\ \A e \in DOMAIN once : /\ e \notin soon => twice[e] = once[e]
                                  /\ e \in soon => twice[e].serial = 0
                                  /\ twice[e].file = once[e].file /\ twice[e].line = once[e].line
                                  /\ twice[e].enabled = once[e].enabled
    BY <1>1, <2>2, DemoteIs
  <2>4. /\ DOMAIN once = DOMAIN entries
        /\ \A e \in DOMAIN entries : /\ e \notin none => once[e] = entries[e]
                                     /\ once[e].file = entries[e].file /\ once[e].line = entries[e].line
                                     /\ once[e].enabled = entries[e].enabled
                                     /\ e \in none => once[e].serial = 0
    BY <2>1 DEF Demoting
  <2>5. Armed(twice) = Armed(entries) \ (none \cup soon) BY <2>1, <2>3 DEF Demoting
  <2>6. ASSUME NEW e \in DOMAIN entries
        PROVE  /\ e \notin none \cup soon => twice[e] = entries[e]
               /\ twice[e].file = entries[e].file /\ twice[e].line = entries[e].line
               /\ twice[e].enabled = entries[e].enabled
               /\ e \in none \cup soon => twice[e].serial = 0
    <3>1. CASE e \in soon BY <3>1, <2>3, <2>4
    <3>2. CASE e \notin soon BY <3>2, <2>3, <2>4
    <3> QED BY <3>1, <3>2
  <2> QED BY <2>3, <2>4, <2>5, <2>6 DEF Demoting
<1> QED BY <1>1

\* The live site of an entry is listed for its file, finished.
LEMMA Spared ==
  ASSUME Typed, ProverOK, Bound, NEW e \in Armed(entries),
         entries[e].serial \in DOMAIN sites \ stale
  PROVE  /\ entries[e].file \in held
         /\ \E x \in Listing(entries[e].file) : x.serial = entries[e].serial
         /\ \A x \in Listing(entries[e].file) : x.serial = entries[e].serial => x.ready
<1>1. Fits(entries[e], entries[e].serial) BY DEF Bound
<1>2. entries[e].file \in Files BY EntryIs DEF Typed, Armed
<1>3. FileOf[sites[entries[e].serial].stmt] = entries[e].file /\ sites[entries[e].serial].ready
  BY <1>1 DEF Fits
<1> QED BY <1>2, <1>3, ListingIs DEF ProverOK

LEMMA AnswersAre ==
  ASSUME NEW f, NEW a \in Answers(f)
  PROVE  a \in {"ok", "closed", "failed"} /\ (a = "closed" => f \notin held)
<1>1. a \in (IF prover = "none" THEN {} ELSE IF f \in held THEN {"ok"} ELSE {"closed"})
         \/ a \in (IF prover # "up" \/ MoreTrouble THEN {"failed"} ELSE {})
  BY DEF Answers
<1> QED BY <1>1

\* The entries of file F are armed against its listing.
Plan(c, f, out, plan) ==
  /\ plan \subseteq Plans
  /\ \A p \in plan :
       /\ p.id \in call[c].ids \ out /\ entries[p.id].file = f
       /\ p.site \in Listing(f) /\ p.site.ready
       /\ (\E y \in Listing(f) : y.serial = entries[p.id].serial) => p.site.serial = entries[p.id].serial
  /\ \A e \in call[c].ids : entries[e].file = f => e \in out \/ \E p \in plan : p.id = e
  /\ \A p, q \in plan : p.id = q.id => p = q

LEMMA EnableListsDoes ==
  ASSUME Typed, Locking, StagesOK, ProverOK, Bound, NEW c \in Calls, EnableLists(c)
  PROVE  /\ World /\ UNCHANGED <<born, stale>>
         /\ call[c].pc = "files" /\ lock = c
         /\ \E f \in call[c].paths : \E out, es, plan, known :
              /\ Demoting(es, out) /\ Sparing(es, out, known)
              /\ out \subseteq call[c].ids /\ \A e \in out : entries[e].file = f
              /\ Plan(c, f, out, plan)
              /\ unsure \subseteq known /\ known \subseteq Serials
              /\ ArmsNext(c, es, plan, call[c].paths \ {f}, known)
<1>1. World /\ UNCHANGED <<born, stale>> /\ call[c].pc = "files" /\ call[c].op = "enable"
  BY DEF EnableLists, World
<1>2. lock = c BY <1>1 DEF Locking, Arming
<1>3. call[c] \in CallRecords /\ Registry(entries) /\ unsure \subseteq Serials BY DEF Typed
<1>4. PICK f \in call[c].paths :
     \E a \in IF f \in call[c].failed THEN {"failed before"} ELSE Answers(f) :
       LET ids   == {e \in call[c].ids : entries[e].file = f}
           found == [e \in ids |-> ResolveEntry(entries[e], Listing(f))]
           none  == {e \in ids : found[e] = NoSite}
           soon  == {e \in ids \ none : ~found[e].ready}
           rest  == call[c].paths \ {f}
           lost  == {entries[e].serial : e \in ids} \ {0}
       IN CASE a = "ok" ->
                    \E tag \in {NotEvaluated, NotFound} :
                      ArmNext(c, Demote(Demote(entries, none, tag), soon, Evaluating),
                              {[id |-> e, site |-> found[e]] : e \in ids \ (none \cup soon)},
                              rest, unsure)
               [] a = "closed" -> ArmNext(c, Demote(entries, ids, NotEvaluated), {}, rest, unsure)
               [] OTHER -> ArmNext(c, Demote(entries, ids, WireFailure), {}, rest,
                                   unsure \cup lost)
  BY DEF EnableLists
<1> DEFINE ids   == {e \in call[c].ids : entries[e].file = f}
           found == [e \in ids |-> ResolveEntry(entries[e], Listing(f))]
           none  == {e \in ids : found[e] = NoSite}
           soon  == {e \in ids \ none : ~found[e].ready}
           rest  == call[c].paths \ {f}
           lost  == {entries[e].serial : e \in ids} \ {0}
           planned == {[id |-> e, site |-> found[e]] : e \in ids \ (none \cup soon)}
<1>5. PICK a \in IF f \in call[c].failed THEN {"failed before"} ELSE Answers(f) :
        CASE a = "ok" ->
                    \E tag \in {NotEvaluated, NotFound} :
                      ArmNext(c, Demote(Demote(entries, none, tag), soon, Evaluating),
                              planned, rest, unsure)
               [] a = "closed" -> ArmNext(c, Demote(entries, ids, NotEvaluated), {}, rest, unsure)
               [] OTHER -> ArmNext(c, Demote(entries, ids, WireFailure), {}, rest,
                                   unsure \cup lost)
  BY <1>4
<1>6. f \in Files /\ rest \in SUBSET Files /\ call[c].pc \in Arming BY <1>1, <1>3 DEF CallRecords, Arming
<1>7. call[c].ids \subseteq DOMAIN entries BY <1>6 DEF StagesOK, Stage, Enabled
<1>8. /\ ids \subseteq DOMAIN entries /\ ids \subseteq call[c].ids
      /\ \A e \in ids : entries[e].file = f
      /\ \A e \in call[c].ids : entries[e].file = f => e \in ids
  BY <1>7
<1>9. (a = "closed" => f \notin held) /\ a \in {"ok", "closed", "failed", "failed before"}
  BY AnswersAre
<1>10. NotEvaluated \in Reasons \ {"none"} /\ WireFailure \in Reasons \ {"none"}
       /\ Evaluating \in Reasons \ {"none"} /\ NotFound \in Reasons \ {"none"}
  BY DEF Reasons, NotEvaluated, WireFailure, Evaluating, NotFound
<1>11. CASE a = "ok"
  <2>1. PICK tag \in {NotEvaluated, NotFound} :
                      ArmNext(c, Demote(Demote(entries, none, tag), soon, Evaluating),
                              planned, rest, unsure)
    BY <1>5, <1>11
  <2> DEFINE es == Demote(Demote(entries, none, tag), soon, Evaluating)
             out == none \cup soon
  <2>2. Listing(f) \in SUBSET SiteRecords BY <1>6, ListingIs
  <2>3. ASSUME NEW e \in ids
        PROVE  /\ found[e] = NoSite \/ found[e] \in Listing(f)
               /\ (\E y \in Listing(f) : y.serial = entries[e].serial) =>
                    found[e] \in Listing(f) /\ found[e].serial = entries[e].serial /\ found[e] # NoSite
    <3>1. entries[e] \in EntryRecords BY <1>3, <1>8, EntryIs
    <3>2. found[e] = ResolveEntry(entries[e], Listing(f)) OBVIOUS
    <3> QED BY <2>2, <3>1, <3>2, ResolveIs
  <2>4. \A e \in ids : /\ e \in none <=> found[e] = NoSite
                       /\ e \in soon <=> found[e] # NoSite /\ ~found[e].ready
    OBVIOUS
  <2>a. none \subseteq ids /\ soon \subseteq ids OBVIOUS
  <2>5. \A p : p \in planned <=> \E e \in ids \ out : p = [id |-> e, site |-> found[e]] OBVIOUS
  <2>6. ArmNext(c, es, planned, rest, unsure) BY <2>1
  <2>7. Demoting(es, out)
    <3>1. tag \in Reasons \ {"none"} BY <1>10
    <3> QED BY <1>10, <3>1, DemotedTwice
  <2>8. out \subseteq ids BY <2>a
  <2>b. \A e \in out : e \in none \/ e \in soon OBVIOUS
  <2>d. \A e \in ids : e \in none \/ e \in soon => e \in out OBVIOUS
  <2> HIDE DEF es, found, none, soon, planned, ids, out
  <2>9. Sparing(es, out, unsure)
    <3>1. SUFFICES ASSUME NEW e \in out \cap Armed(entries), entries[e].serial \in DOMAIN sites \ stale
                   PROVE FALSE
      BY DEF Sparing
    <3>2. e \in ids /\ entries[e].file = f BY <1>8, <2>8
    <3>3. /\ \E x \in Listing(f) : x.serial = entries[e].serial
          /\ \A x \in Listing(f) : x.serial = entries[e].serial => x.ready
      BY <3>1, <3>2, Spared
    <3>4. found[e] # NoSite /\ found[e].ready BY <2>3, <3>2, <3>3
    <3> QED BY <2>4, <2>b, <3>1, <3>2, <3>4
  <2>10. \A e \in ids \ out : found[e] \in Listing(f) /\ found[e].ready /\ e \in Nat
    BY <1>3, <1>8, <2>3, <2>4, <2>d DEF Registry
  <2>11. planned \in SUBSET Plans
    <3>1. \A e \in ids \ out : [id |-> e, site |-> found[e]] \in Plans BY <2>2, <2>10 DEF Plans
    <3> QED BY <2>5, <3>1
  <2>12. \A p \in planned : p.id \in ids \ out /\ p.site = found[p.id] /\ p = [id |-> p.id, site |-> p.site]
    <3> TAKE p \in planned
    <3>1. PICK e \in ids \ out : p = [id |-> e, site |-> found[e]] BY <2>5
    <3> QED BY <3>1
  <2>13. \A e \in ids \ out : \E p \in planned : p.id = e
    <3> TAKE e \in ids \ out
    <3>1. [id |-> e, site |-> found[e]] \in planned BY <2>5
    <3> QED BY <3>1
  <2>14. Plan(c, f, out, planned)
    <3>1. \A p \in planned :
            /\ p.id \in call[c].ids \ out /\ entries[p.id].file = f
            /\ p.site \in Listing(f) /\ p.site.ready
            /\ (\E y \in Listing(f) : y.serial = entries[p.id].serial) => p.site.serial = entries[p.id].serial
      BY <1>8, <2>3, <2>10, <2>12
    <3>2. \A p, q \in planned : p.id = q.id => p = q BY <2>12
    <3>3. \A e \in call[c].ids : entries[e].file = f => e \in out \/ \E p \in planned : p.id = e
      BY <1>8, <2>13
    <3> QED BY <2>11, <3>1, <3>2, <3>3 DEF Plan
  <2>15. Registry(es) BY <2>7 DEF Demoting
  <2>16. ArmsNext(c, es, planned, rest, unsure) BY <1>6, <2>6, <2>11, <2>15, Advancing
  <2>17. out \subseteq call[c].ids /\ \A e \in out : entries[e].file = f BY <1>8, <2>8
  <2> QED BY <1>1, <1>2, <1>3, <2>7, <2>9, <2>14, <2>16, <2>17
<1>12. CASE a # "ok"
  <2>a. PICK tag \in {NotEvaluated, WireFailure} : \E known :
          /\ ArmNext(c, Demote(entries, ids, tag), {}, rest, known)
          /\ tag = NotEvaluated => known = unsure /\ f \notin held
          /\ tag = WireFailure => known = unsure \cup lost
    <3>1. CASE a = "closed"
      <4>1. NotEvaluated # WireFailure BY DEF NotEvaluated, WireFailure
      <4>2. ArmNext(c, Demote(entries, ids, NotEvaluated), {}, rest, unsure) BY <1>5, <3>1
      <4> QED BY <1>9, <3>1, <4>1, <4>2
    <3>2. CASE a # "closed"
      <4>1. NotEvaluated # WireFailure BY DEF NotEvaluated, WireFailure
      <4>2. ArmNext(c, Demote(entries, ids, WireFailure), {}, rest, unsure \cup lost) BY <1>5, <1>12, <3>2
      <4> QED BY <4>1, <4>2
    <3> QED BY <3>1, <3>2
  <2>1. PICK known :
          /\ ArmNext(c, Demote(entries, ids, tag), {}, rest, known)
          /\ tag = NotEvaluated => known = unsure /\ f \notin held
          /\ tag = WireFailure => known = unsure \cup lost
    BY <2>a
  <2> DEFINE es == Demote(entries, ids, tag)
  <2>2. lost \subseteq Serials /\ \A e \in ids \cap Armed(entries) : entries[e].serial \in lost
    BY <1>3, <1>8, EntryIs
  <2> HIDE DEF ids, lost
  <2>3. tag \in Reasons \ {"none"} BY <1>10
  <2>4. Demoting(es, ids) /\ \A e \in ids \cap DOMAIN entries : es[e].reason = tag
    BY <2>3, DemotingIs, Zenon
  <2> HIDE DEF es
  <2>5. Sparing(es, ids, known)
    <3>1. SUFFICES ASSUME NEW e \in ids \cap Armed(entries), entries[e].serial \in DOMAIN sites \ stale
                   PROVE entries[e].serial \in known /\ es[e].reason = WireFailure
      BY DEF Sparing
    <3>2. f \in held BY <1>8, <3>1, Spared
    <3> QED BY <1>8, <2>1, <2>2, <2>4, <3>1, <3>2
  <2>6. Plan(c, f, ids, {}) BY <1>8 DEF Plan
  <2>7. unsure \subseteq known /\ known \subseteq Serials BY <1>3, <2>1, <2>2
  <2>8. Registry(es) BY <2>4 DEF Demoting
  <2>9. ArmsNext(c, es, {}, rest, known) BY <1>6, <2>1, <2>8, Advancing DEF es
  <2> QED BY <1>1, <1>2, <1>8, <2>4, <2>5, <2>6, <2>7, <2>9
<1> QED BY <1>11, <1>12

LEMMA EnableAnsweredDoes ==
  ASSUME Typed, Locking, StagesOK, NEW c \in Calls, EnableAnswered(c)
  PROVE  LET r == call[c]
             gone == IF r.reply = "ok" THEN Late(r.site) ELSE {}
         IN
         /\ World /\ born' = born
         /\ r.pc = "on" /\ lock = c /\ r.reply \in Final \cup {"failed"}
         /\ stale' = stale \cup gone
         /\ \E i \in r.ids : \E es :
              /\ r.marks = {i} /\ i \in DOMAIN entries
              /\ IF r.reply = "ok"
                 THEN /\ Registry(es) /\ DOMAIN es = DOMAIN entries
                      /\ \A e \in DOMAIN entries \ {i} : es[e] = entries[e]
                      /\ es[i].state = "armed" /\ es[i].serial = r.site.serial
                      /\ es[i].file = entries[i].file /\ es[i].line = r.site.line
                      /\ es[i].enabled = entries[i].enabled
                 ELSE /\ Demoting(es, {i}) /\ (r.reply = "failed" => es[i].reason = WireFailure)
              /\ ArmsNext(c, es, r.plan, r.paths, Vouched(r.cur, r.reply) \cup gone)
<1> DEFINE r == call[c]
           gone == IF r.reply = "ok" THEN Late(r.site) ELSE {}
           e == Min(r.marks)
           tag == CASE r.reply = "unfinished" -> Evaluating
                  [] r.reply = "unknown"    -> NotFound
                  [] OTHER            -> WireFailure
           es == IF r.reply = "ok" THEN [entries EXCEPT ![e] = Arm(@, r.site)]
                 ELSE Demote(entries, {e}, tag)
           known == Vouched(r.cur, r.reply) \cup gone
<1>1. /\ World /\ born' = born /\ r.pc = "on" /\ r.reply \notin {"none", "wait"}
      /\ stale' = stale \cup gone /\ ArmNext(c, es, r.plan, r.paths, known)
  BY DEF EnableAnswered, Answered, World
<1>2. r \in CallRecords /\ CallOK(r) /\ Registry(entries) BY DEF Typed
<1>3. r.reply \in Final \cup {"failed"} BY <1>1, <1>2 DEF CallRecords
<1>4. lock = c BY <1>1 DEF Locking, Switching
<1>5. Enabled(c) /\ Planning(c) BY <1>1 DEF StagesOK, Stage, Arming
<1>6. PICK i \in r.ids : r.marks = {i} BY <1>5 DEF Planning
<1>7. i \in DOMAIN entries /\ i \in Nat BY <1>2, <1>5 DEF Enabled, Registry
<1>8. e = i
  <2>1. {i} \in SUBSET Nat BY <1>7
  <2>2. Min({i}) \in {i} BY <2>1, MinIsLeast
  <2> QED BY <2>2, <1>6
<1>9. r.plan \in SUBSET Plans /\ r.paths \in SUBSET Files /\ r.site \in SiteRecords
      /\ r.pc \in Arming
  BY <1>1, <1>2 DEF CallOK, CallRecords, Arming
<1>10. tag \in Reasons \ {"none"} /\ (r.reply = "failed" => tag = WireFailure)
  BY DEF Reasons, NotEvaluated, WireFailure, Evaluating, NotFound
<1> HIDE DEF e, tag
<1>11. IF r.reply = "ok"
       THEN /\ Registry(es) /\ DOMAIN es = DOMAIN entries
            /\ \A k \in DOMAIN entries \ {i} : es[k] = entries[k]
            /\ es[i].state = "armed" /\ es[i].serial = r.site.serial
            /\ es[i].file = entries[i].file /\ es[i].line = r.site.line
            /\ es[i].enabled = entries[i].enabled
       ELSE /\ Demoting(es, {i}) /\ (r.reply = "failed" => es[i].reason = WireFailure)
  <2>1. CASE r.reply = "ok"
    <3> DEFINE a == Arm(entries[i], r.site)
    <3>1. entries[i] \in EntryRecords BY <1>2, <1>7 DEF Registry
    <3>2. /\ a \in EntryRecords /\ EntryOK(a)
          /\ a.state = "armed" /\ a.serial = r.site.serial /\ a.file = entries[i].file
          /\ a.line = r.site.line /\ a.enabled = entries[i].enabled
      BY <3>1, <1>9, ArmIs
    <3>3. es = [k \in DOMAIN entries |-> IF k = i THEN a ELSE entries[k]] BY <2>1, <1>7, <1>8
    <3> HIDE DEF a, es
    <3>4. DOMAIN es = DOMAIN entries /\ es[i] = a /\ \A k \in DOMAIN entries \ {i} : es[k] = entries[k]
      BY <3>3, <1>7
    <3>5. Registry(es) BY <3>2, <3>3, <3>4, <1>2 DEF Registry
    <3> QED BY <2>1, <3>2, <3>4, <3>5
  <2>2. CASE r.reply # "ok"
    <3>1. es = Demote(entries, {i}, tag) BY <2>2, <1>8
    <3>2. Demoting(Demote(entries, {i}, tag), {i})
          /\ \A k \in {i} \cap DOMAIN entries : Demote(entries, {i}, tag)[k].reason = tag
      BY <1>10, DemotingIs, Zenon
    <3> HIDE DEF es
    <3> QED BY <2>2, <3>1, <3>2, <1>7, <1>10
  <2> QED BY <2>1, <2>2
<1>12. Registry(es) BY <1>11 DEF Demoting
<1>14. known = Vouched(r.cur, r.reply) \cup gone OBVIOUS
<1>15. gone = IF r.reply = "ok" THEN Late(r.site) ELSE {} OBVIOUS
<1> HIDE DEF es, known, gone
<1>13. ArmsNext(c, es, r.plan, r.paths, known) BY <1>1, <1>9, <1>12, Advancing
<1> QED BY <1>1, <1>3, <1>4, <1>6, <1>7, <1>11, <1>13, <1>14, <1>15

LEMMA ReconcileTargetsDoes ==
  ASSUME Typed, NEW c \in Calls, ReconcileTargets(c)
  PROVE  /\ World /\ UNCHANGED <<entries, born, histVars>>
         /\ call[c].pc = "targets" /\ Quiet(c) /\ call'[c].pc \in {"idle", "verify"}
         /\ \A f \in call[c].paths : Leads(call[c].marks, f) =>
              call'[c].pc = "verify" /\ f \in call'[c].paths /\ f \in call'[c].marks
<1>1. /\ World /\ UNCHANGED <<entries, born, histVars>> /\ UNCHANGED <<lock, dirty, wire>>
      /\ call[c].pc = "targets"
  BY DEF ReconcileTargets, World, progVars
<1>2. PICK targets \in {Questioned(call[c].marks, call[c].paths), call[c].paths} :
        call' = [call EXCEPT ![c] = IF targets = {} THEN Idle
                                    ELSE [call[c] EXCEPT !.pc = "verify", !.paths = targets,
                                                   !.marks = call[c].marks \cup targets]]
  BY DEF ReconcileTargets
<1>3. call[c] \in CallRecords /\ CallOK(call[c]) BY DEF Typed
<1>4. targets \subseteq call[c].paths BY DEF Questioned
<1>5. targets \in SUBSET Files BY <1>3, <1>4 DEF CallRecords
<1>6. \A f \in call[c].paths : Leads(call[c].marks, f) => f \in targets
  <2>1. SUFFICES ASSUME NEW f \in call[c].paths, NEW m \in call[c].marks, f = m \/ f \in Downstream[m]
                 PROVE f \in Questioned(call[c].marks, call[c].paths)
    BY <1>2 DEF Leads
  <2>2. call[c].op = "reconcile" BY <1>1, <1>3 DEF CallOK, Reconciling
  <2> QED BY <2>1 DEF Questioned
<1>7. CASE targets = {}
  <2>1. call' = [call EXCEPT ![c] = Idle] BY <1>2, <1>7
  <2>2. /\ call' \in [Calls -> CallRecords] /\ \A d \in Calls : CallOK(call'[d])
        /\ call'[c] = Idle /\ \A d \in Calls \ {c} : call'[d] = call[d]
    BY <2>1, IdleIs, CallSet
  <2> QED BY <1>1, <1>6, <1>7, <2>2, IdleIs DEF Quiet, CallsOK, Others
<1>8. CASE targets # {}
  <2> DEFINE r == [call[c] EXCEPT !.pc = "verify", !.paths = targets, !.marks = call[c].marks \cup targets]
  <2>a. call' = [call EXCEPT ![c] = [call[c] EXCEPT !.pc = "verify", !.paths = targets,
                                              !.marks = call[c].marks \cup targets]]
    BY <1>2, <1>8
  <2>1. call' = [call EXCEPT ![c] = r] BY <2>a DEF Typed
  <2>2. call[c].op = "reconcile" /\ call[c].reply = "none" /\ call[c].marks \in SUBSET Files
    BY <1>1, <1>3 DEF CallOK, Reconciling, Switching
  <2>3. /\ r \in CallRecords /\ r.pc = "verify" /\ r.op = "reconcile" /\ r.reply = "none"
        /\ r.paths = targets /\ r.marks = call[c].marks \cup targets
    BY <1>3, <1>5, <2>2 DEF CallRecords, Reconciling
  <2> HIDE DEF r
  <2>4. IsCall(r) BY <1>5, <2>2, <2>3 DEF IsCall, CallOK, Switching, Reconciling
  <2>5. /\ call' \in [Calls -> CallRecords] /\ \A d \in Calls : CallOK(call'[d])
        /\ call'[c] = r /\ \A d \in Calls \ {c} : call'[d] = call[d]
    BY <2>1, <2>4, CallSet
  <2> QED BY <1>1, <1>6, <2>3, <2>5 DEF Quiet, CallsOK, Others
<1> QED BY <1>7, <1>8

LEMMA ReconcileVerifiesDoes ==
  ASSUME Typed, ProverOK, Bound, NEW c \in Calls, ReconcileVerifies(c)
  PROVE  /\ World /\ UNCHANGED <<born, doubled, stale>>
         /\ call[c].pc = "verify" /\ lock = Nobody /\ Quiet(c)
         /\ call'[c].pc \in {"idle", "verify"}
         /\ unsure \subseteq unsure' /\ unsure' \subseteq Serials
         /\ \E out : Demoting(entries', out) /\ Sparing(entries', out, unsure')
         /\ \E f \in call[c].paths :
              /\ \A e \in Armed(entries') : entries'[e].file = f => entries'[e].serial \in DOMAIN sites
              /\ \A g \in call[c].paths \ {f} :
                   /\ call'[c].pc = "verify" /\ g \in call'[c].paths
                   /\ g \in call[c].marks => g \in call'[c].marks
<1>1. /\ World /\ UNCHANGED <<born, doubled, stale>> /\ UNCHANGED <<lock, dirty, wire>>
      /\ call[c].pc = "verify" /\ lock = Nobody
  BY DEF ReconcileVerifies, World, progVars
<1>2. PICK f \in call[c].paths : \E a \in IF ArmedIn(entries, f) = {} THEN {"none armed"} ELSE Answers(f) :
       LET ids   == ArmedIn(entries, f)
           gone  == {e \in ids : \A x \in Listing(f) : x.serial # entries[e].serial}
           rest  == call[c].paths \ {f}
       IN /\ entries' = CASE a = "ok"     -> Demote(entries, gone, NotEvaluated)
                          [] a = "closed" -> Demote(entries, ids, NotEvaluated)
                          [] a = "failed" -> Demote(entries, ids, WireFailure)
                          [] OTHER        -> entries
          /\ unsure' = IF a = "failed" THEN unsure \cup {entries[e].serial : e \in ids}
                       ELSE unsure
          /\ call' = [call EXCEPT ![c] =
                        IF rest = {} THEN Idle
                        ELSE [call[c] EXCEPT !.paths = rest, !.marks = call[c].marks \ {f}]]
  BY DEF ReconcileVerifies
<1> DEFINE ids   == ArmedIn(entries, f)
           gone  == {e \in ids : \A x \in Listing(f) : x.serial # entries[e].serial}
           rest  == call[c].paths \ {f}
<1>3. PICK a \in IF ArmedIn(entries, f) = {} THEN {"none armed"} ELSE Answers(f) :
          /\ entries' = CASE a = "ok"     -> Demote(entries, gone, NotEvaluated)
                          [] a = "closed" -> Demote(entries, ids, NotEvaluated)
                          [] a = "failed" -> Demote(entries, ids, WireFailure)
                          [] OTHER        -> entries
          /\ unsure' = IF a = "failed" THEN unsure \cup {entries[e].serial : e \in ids}
                       ELSE unsure
          /\ call' = [call EXCEPT ![c] =
                        IF rest = {} THEN Idle
                        ELSE [call[c] EXCEPT !.paths = rest, !.marks = call[c].marks \ {f}]]
  BY <1>2
<1>4. /\ call[c] \in CallRecords /\ CallOK(call[c]) /\ Registry(entries) /\ unsure \subseteq Serials
  BY DEF Typed
<1>5. call[c].op = "reconcile" /\ call[c].reply = "none" /\ call[c].marks \in SUBSET Files
  BY <1>1, <1>4 DEF CallOK, Reconciling, Switching
<1>6. f \in Files /\ rest \in SUBSET Files BY <1>4 DEF CallRecords
<1>7. /\ Quiet(c) /\ call'[c].pc \in {"idle", "verify"}
      /\ \A g \in rest : /\ call'[c].pc = "verify" /\ g \in call'[c].paths
                         /\ g \in call[c].marks => g \in call'[c].marks
  <2>1. CASE rest = {}
    <3>1. call' = [call EXCEPT ![c] = Idle] BY <1>3, <2>1
    <3>2. /\ call' \in [Calls -> CallRecords] /\ \A d \in Calls : CallOK(call'[d])
          /\ call'[c] = Idle /\ \A d \in Calls \ {c} : call'[d] = call[d]
      BY <3>1, IdleIs, CallSet
    <3> QED BY <1>1, <2>1, <3>2, IdleIs DEF Quiet, CallsOK, Others
  <2>2. CASE rest # {}
    <3> DEFINE r == [call[c] EXCEPT !.paths = rest, !.marks = call[c].marks \ {f}]
    <3>a. call' = [call EXCEPT ![c] = [call[c] EXCEPT !.paths = rest, !.marks = call[c].marks \ {f}]]
      BY <1>3, <2>2
    <3>1. call' = [call EXCEPT ![c] = r] BY <3>a DEF Typed
    <3> HIDE DEF rest
    <3>2. /\ r \in CallRecords /\ r.pc = "verify" /\ r.op = "reconcile" /\ r.reply = "none"
          /\ r.paths = rest /\ r.marks = call[c].marks \ {f}
      BY <1>1, <1>4, <1>5, <1>6 DEF CallRecords
    <3> HIDE DEF r
    <3>3. IsCall(r) BY <1>5, <3>2 DEF IsCall, CallOK, Switching, Reconciling
    <3>4. /\ call' \in [Calls -> CallRecords] /\ \A d \in Calls : CallOK(call'[d])
          /\ call'[c] = r /\ \A d \in Calls \ {c} : call'[d] = call[d]
      BY <3>1, <3>3, CallSet
    <3>5. Quiet(c) /\ call'[c].pc = "verify" /\ call'[c].paths = rest /\ call'[c].marks = call[c].marks \ {f}
      BY <1>1, <3>2, <3>4 DEF Quiet, CallsOK, Others
    <3>6. \A g \in rest : g # f BY DEF rest
    <3> QED BY <3>5, <3>6
  <2> QED BY <2>1, <2>2
<1>8. unsure \subseteq unsure' /\ unsure' \subseteq Serials
  <2>1. \A e \in ids : entries[e].serial \in Serials BY <1>4, EntryIs DEF ArmedIn, Armed
  <2> HIDE DEF ids
  <2> QED BY <1>3, <1>4, <2>1
<1>9. \A e \in ids : e \in Armed(entries) /\ entries[e].file = f BY DEF ArmedIn
<1>10. \A e \in Armed(entries) : entries[e].file = f => e \in ids BY DEF ArmedIn
<1>11. NotEvaluated \in Reasons \ {"none"} /\ WireFailure \in Reasons \ {"none"}
  BY DEF Reasons, NotEvaluated, WireFailure
<1>12. /\ \E out : Demoting(entries', out) /\ Sparing(entries', out, unsure')
       /\ \A e \in Armed(entries') : entries'[e].file = f => entries'[e].serial \in DOMAIN sites
  <2>1. CASE ids = {}
    <3>1. a = "none armed" BY <2>1
    <3>2. entries' = entries BY <1>3, <3>1
    <3>3. Demoting(entries', {}) BY <1>4, <3>2 DEF Demoting
    <3>4. Sparing(entries', {}, unsure') BY DEF Sparing
    <3> QED BY <2>1, <3>2, <3>3, <3>4, <1>10
  <2>2. CASE ids # {}
    <3>1. a \in {"ok", "closed", "failed"} /\ (a = "closed" => f \notin held) BY <2>2, AnswersAre
    <3>2. CASE a = "ok"
      <4>1. entries' = Demote(entries, gone, NotEvaluated) BY <1>3, <3>2
      <4>2. \A e \in ids : e \in gone <=> \A x \in Listing(f) : x.serial # entries[e].serial OBVIOUS
      <4>3. \A e \in gone : e \in ids OBVIOUS
      <4> HIDE DEF gone, ids
      <4>4. Demoting(entries', gone) BY <4>1, <1>11, DemotingIs, Zenon
      <4>5. Sparing(entries', gone, unsure')
        <5>1. SUFFICES ASSUME NEW e \in gone \cap Armed(entries), entries[e].serial \in DOMAIN sites \ stale
                       PROVE FALSE
          BY DEF Sparing
        <5>2. entries[e].file = f BY <1>9, <4>3
        <5>3. \E x \in Listing(f) : x.serial = entries[e].serial BY <5>1, <5>2, Spared
        <5> QED BY <4>2, <4>3, <5>3
      <4>6. ASSUME NEW e \in Armed(entries'), entries'[e].file = f
            PROVE  entries'[e].serial \in DOMAIN sites
        <5>1. e \in Armed(entries) /\ e \notin gone /\ entries'[e] = entries[e]
          BY <4>4 DEF Demoting, Armed
        <5>2. e \in ids BY <1>10, <4>6, <5>1
        <5>3. PICK x \in Listing(f) : x.serial = entries[e].serial BY <4>2, <5>1, <5>2
        <5>4. x.serial \in DOMAIN sites BY <1>6, ListingIs
        <5> QED BY <5>1, <5>3, <5>4
      <4> QED BY <4>4, <4>5, <4>6
    <3>3. CASE a # "ok"
      <4>1. PICK tag \in {NotEvaluated, WireFailure} :
              /\ entries' = Demote(entries, ids, tag)
              /\ tag = NotEvaluated => f \notin held
              /\ tag = WireFailure => unsure' = unsure \cup {entries[e].serial : e \in ids}
        <5>1. NotEvaluated # WireFailure BY DEF NotEvaluated, WireFailure
        <5>2. CASE a = "closed" BY <1>3, <3>1, <5>1, <5>2
        <5>3. CASE a = "failed" BY <1>3, <3>1, <5>1, <5>3
        <5> QED BY <3>1, <3>3, <5>2, <5>3
      <4>2. tag \in Reasons \ {"none"} BY <1>11
      <4> HIDE DEF ids
      <4>3. Demoting(entries', ids) /\ \A e \in ids \cap DOMAIN entries : entries'[e].reason = tag
        <5>1. /\ Demoting(Demote(entries, ids, tag), ids)
              /\ \A e \in ids \cap DOMAIN entries : Demote(entries, ids, tag)[e].reason = tag
          BY <4>2, DemotingIs, Zenon
        <5> QED BY <4>1, <5>1
      <4>4. Sparing(entries', ids, unsure')
        <5>1. SUFFICES ASSUME NEW e \in ids \cap Armed(entries), entries[e].serial \in DOMAIN sites \ stale
                       PROVE entries[e].serial \in unsure' /\ entries'[e].reason = WireFailure
          BY DEF Sparing
        <5>2. f \in held BY <1>9, <5>1, Spared
        <5>3. e \in DOMAIN entries BY DEF Armed
        <5> QED BY <4>1, <4>3, <5>1, <5>2, <5>3
      <4>5. \A e \in Armed(entries') : entries'[e].file # f
        <5>1. \A e \in Armed(entries') : e \in Armed(entries) /\ e \notin ids /\ entries'[e] = entries[e]
          BY <4>3 DEF Demoting, Armed
        <5> QED BY <5>1, <1>10
      <4> QED BY <4>3, <4>4, <4>5
    <3> QED BY <3>2, <3>3
  <2> QED BY <2>1, <2>2
<1> QED BY <1>1, <1>7, <1>8, <1>12

\* The toggles of call C go on without it.
Orphan(c) ==
  /\ wire' \in Seq(Toggles) /\ Len(wire') = Len(wire) /\ DOMAIN wire' = DOMAIN wire
  /\ wire = <<>> => wire' = <<>>
  /\ \A i \in DOMAIN wire : /\ wire'[i].serial = wire[i].serial /\ wire'[i].on = wire[i].on
                            /\ wire'[i].by = IF wire[i].by = c THEN Nobody ELSE wire[i].by

LEMMA ToggleFailsDoes ==
  ASSUME Typed, Locking, NEW c \in Calls, ToggleFails(c)
  PROVE  /\ World /\ UNCHANGED <<entries, born, histVars, lock, dirty>>
         /\ call[c].reply = "wait" /\ lock = c /\ call[c].pc \in Switching
         /\ Orphan(c) /\ CallsOK /\ Others(c)
         /\ call'[c].reply = "failed"
         /\ call'[c].op = call[c].op /\ call'[c].pc = call[c].pc /\ call'[c].ids = call[c].ids
         /\ call'[c].plan = call[c].plan /\ call'[c].paths = call[c].paths
         /\ call'[c].marks = call[c].marks /\ call'[c].site = call[c].site
         /\ call'[c].cur = call[c].cur
<1>1. /\ World /\ UNCHANGED <<entries, born, histVars, lock, dirty>>
      /\ call[c].reply = "wait" /\ call' = [call EXCEPT ![c].reply = "failed"]
      /\ wire' = [i \in DOMAIN wire |->
                    IF wire[i].by = c THEN [wire[i] EXCEPT !.by = Nobody] ELSE wire[i]]
  BY DEF ToggleFails, World
<1>2. call[c] \in CallRecords /\ CallOK(call[c]) /\ wire \in Seq(Toggles) BY DEF Typed
<1>3. call[c].pc \in Switching BY <1>1, <1>2 DEF CallOK
<1>4. lock = c BY <1>3 DEF Locking
<1> DEFINE r == [call[c] EXCEPT !.reply = "failed"]
<1>5. /\ r \in CallRecords /\ r.reply = "failed" /\ r.op = call[c].op /\ r.pc = call[c].pc
      /\ r.ids = call[c].ids /\ r.plan = call[c].plan /\ r.paths = call[c].paths
      /\ r.marks = call[c].marks /\ r.site = call[c].site /\ r.cur = call[c].cur
  BY <1>2 DEF CallRecords
<1>6. call' = [call EXCEPT ![c] = r] BY <1>1 DEF Typed
<1> HIDE DEF r
<1>7. IsCall(r) BY <1>2, <1>3, <1>5 DEF IsCall, CallOK
<1>8. /\ call' \in [Calls -> CallRecords] /\ \A d \in Calls : CallOK(call'[d])
      /\ call'[c] = r /\ \A d \in Calls \ {c} : call'[d] = call[d]
  BY <1>6, <1>7, CallSet
<1>9. Orphan(c) BY <1>1, <1>2, Orphaned DEF Orphan
<1> QED BY <1>1, <1>3, <1>4, <1>5, <1>8, <1>9 DEF CallsOK, Others

LEMMA CutDoes ==
  ASSUME Typed, NEW c \in Calls, Cut(c)
  PROVE  /\ World /\ UNCHANGED <<entries, born, stale>>
         /\ Orphan(c) /\ CallsOK /\ Others(c) /\ call'[c] = Idle
         /\ lock' = (IF lock = c THEN Nobody ELSE lock)
         /\ dirty' = dirty \cup (IF call[c].op = "reconcile" THEN call[c].marks ELSE {})
         /\ dirty' \subseteq Files
         /\ doubled' = IF lock = c THEN doubled \cup Twins(entries) ELSE doubled
         /\ unsure' \subseteq Serials
         /\ IF lock = c
            THEN /\ unsure \subseteq unsure'
                 /\ call[c].cur # 0 => call[c].cur \in unsure'
                 /\ call[c].site.serial # 0 => call[c].site.serial \in unsure'
                 /\ \A e \in call[c].ids \cap Armed(entries) : entries[e].serial \in unsure'
            ELSE unsure' = unsure
<1> DEFINE r == call[c]
           about == {r.cur, r.site.serial} \cup {entries[e].serial : e \in r.ids \cap DOMAIN entries}
<1>1. /\ World /\ UNCHANGED <<entries, born, stale>>
      /\ unsure' = (IF lock = c THEN unsure \cup (about \ {0}) ELSE unsure)
      /\ dirty' = dirty \cup (IF r.op = "reconcile" THEN r.marks ELSE {})
      /\ call' = [call EXCEPT ![c] = Idle]
      /\ lock' = (IF lock = c THEN Nobody ELSE lock)
      /\ wire' = [i \in DOMAIN wire |->
                    IF wire[i].by = c THEN [wire[i] EXCEPT !.by = Nobody] ELSE wire[i]]
      /\ doubled' = IF lock = c THEN doubled \cup Twins(entries) ELSE doubled
  BY DEF Cut, World
<1>2. /\ r \in CallRecords /\ CallOK(r) /\ wire \in Seq(Toggles) /\ Registry(entries)
      /\ dirty \subseteq Files /\ unsure \subseteq Serials
  BY DEF Typed
<1>3. /\ call' \in [Calls -> CallRecords] /\ \A d \in Calls : CallOK(call'[d])
      /\ call'[c] = Idle /\ \A d \in Calls \ {c} : call'[d] = call[d]
  BY <1>1, IdleIs, CallSet
<1>4. Orphan(c) BY <1>1, <1>2, Orphaned DEF Orphan
<1>5. dirty' \subseteq Files BY <1>1, <1>2 DEF CallOK
<1>6. \A n \in about : n \in Serials \/ n = 0
  <2>1. r.cur \in Serials \/ r.cur = 0
    <3>1. r.cur \in 0..MaxSerial BY <1>2 DEF CallRecords
    <3> HIDE DEF r
    <3> QED BY <3>1, Bounds DEF Serials
  <2>2. r.site.serial \in Serials \/ r.site.serial = 0
    <3>1. r.site \in SiteRecords \cup {NoSite} BY <1>2 DEF CallRecords
    <3> HIDE DEF r
    <3> QED BY <3>1 DEF SiteRecords, NoSite
  <2>3. \A e \in DOMAIN entries : entries[e].serial \in Serials \/ entries[e].serial = 0
    BY <1>2, EntryIs
  <2> QED BY <2>1, <2>2, <2>3
<1>7. /\ r.cur \in about /\ r.site.serial \in about
      /\ \A e \in r.ids \cap Armed(entries) : entries[e].serial \in about /\ entries[e].serial # 0
  BY <1>2, EntryIs DEF Armed
<1> HIDE DEF about
<1>8. unsure' \subseteq Serials BY <1>1, <1>2, <1>6
<1>9. lock = c => /\ unsure \subseteq unsure'
                  /\ r.cur # 0 => r.cur \in unsure'
                  /\ r.site.serial # 0 => r.site.serial \in unsure'
                  /\ \A e \in r.ids \cap Armed(entries) : entries[e].serial \in unsure'
  BY <1>1, <1>7
<1>10. lock # c => unsure' = unsure BY <1>1
<1> QED BY <1>1, <1>3, <1>4, <1>5, <1>8, <1>9, <1>10 DEF CallsOK, Others

-----------------------------------------------------------------------------
(* What every step of a call keeps to.                                     *)

\* The registry and the history variables after a step of call C: who does
\* not hold the lock touches none of them while another holds it.
Stored(c) ==
  /\ Registry(entries') /\ DOMAIN entries' \subseteq 1..born' /\ born' \in 0..MaxEntries
  /\ unsure' \subseteq Serials /\ doubled' \subseteq Serials /\ stale' \subseteq Serials
  /\ stale \subseteq stale'
  /\ lock \notin {c, Nobody} => UNCHANGED <<entries, born, histVars>>

Step(c) ==
  /\ World /\ CallsOK /\ Others(c) /\ Stored(c)
  /\ call'[c].pc \in Switching \cup Arming <=> lock' = c
  /\ lock' = c => lock \in {c, Nobody}
  /\ lock' # c => lock' = IF lock = c THEN Nobody ELSE lock
  /\ call'[c].reply \notin Final
  /\ wire' \in Seq(Toggles) /\ dirty' \subseteq Files

\* An armed entry was armed there before, or stands on the site call C was
\* given the answer about, which is alive or known to be stale.
Kept(e) ==
  /\ e \in Armed(entries) /\ entries'[e].serial = entries[e].serial
  /\ entries'[e].file = entries[e].file /\ entries'[e].line = entries[e].line
Fresh(c, e) ==
  LET x == call[c].site IN
  /\ lock = c /\ call[c].pc \in {"arming", "abandon", "on"}
  /\ entries'[e].serial = x.serial /\ entries'[e].file = x.file /\ entries'[e].line = x.line
  /\ x.serial \in stale' \/ (x.serial \in DOMAIN sites /\ x.life = life)
Registered(c) == \A e \in Armed(entries') : Kept(e) \/ Fresh(c, e)

\* The sites a call will arm are those it had, or one file's as just listed.
Handled(c) ==
  \/ Hand(call'[c]) \subseteq Hand(call[c])
  \/ \E f \in Files : \A x \in Hand(call'[c]) : x \in Listing(f) /\ x.ready

\* A site whose switch failed is not vouched for; one is vouched for by "ok".
Vouches(c) ==
  /\ unsure \subseteq unsure' \/ call[c].reply = "ok"
  /\ call[c].reply = "failed" => call[c].cur \in unsure'

Wired(c) ==
  \/ /\ wire' = wire /\ call[c].reply # "wait" /\ call'[c].reply = "none" /\ Vouches(c)
  \/ /\ \E s \in Serials, on \in BOOLEAN :
          Sent(c, s, on) /\ on = (call'[c].pc \in SwitchingOn)
     /\ lock \in {c, Nobody} /\ call[c].reply # "wait" /\ Vouches(c)
  \/ /\ Orphan(c) /\ call[c].reply = "wait" /\ call'[c].reply = "failed"
     /\ call'[c].cur = call[c].cur /\ call'[c].pc = call[c].pc /\ unsure' = unsure
  \/ /\ Orphan(c) /\ call'[c].reply = "none" /\ unsure \subseteq unsure'
     /\ call[c].reply # "none" => call[c].cur \in unsure'

\* No mark is lost before the file it leads to is verified.
Marked(c) ==
  /\ dirty \subseteq dirty' \/ call'[c] = After(TRUE, entries')
  /\ \A f \in call[c].paths :
       \/ call[c].pc = "targets" /\ Leads(call[c].marks, f)
       \/ call[c].pc = "verify" /\ f \in call[c].marks
       => \/ Leads(dirty', f)
          \/ call'[c].pc = "verify" /\ f \in call'[c].paths /\ f \in call'[c].marks
          \/ \A e \in Armed(entries') : entries'[e].file = f => entries'[e].serial \in DOMAIN sites

Kind(c) == Step(c) /\ Registered(c) /\ Handled(c) /\ Wired(c) /\ Marked(c)

LEMMA CallerOnly == Nobody \notin Calls
BY RegistryAssumption DEF RegistryAssumption

LEMMA NoHand == ASSUME NEW r, r.pc \notin {"arming", "abandon", "on"} PROVE Hand(r) = {}
BY DEF Hand

LEMMA OverStep ==
  ASSUME Typed, Locking, NEW c \in Calls, NEW ok \in BOOLEAN, World, Over(c, ok), Stored(c),
         Registered(c), call[c].reply # "wait", call[c].pc \notin Reconciling, Vouches(c)
  PROVE  Kind(c)
<1>1. wire \in Seq(Toggles) BY DEF Typed
<1>2. Step(c)
  BY <1>1, CallerOnly DEF Step, Over, Typed, Switching, Arming, Final
<1>3. Handled(c)
  <2>1. Hand(call'[c]) = {} BY NoHand DEF Over
  <2> QED BY <2>1 DEF Handled
<1>4. Wired(c) BY DEF Wired, Over
<1>5. Marked(c)
  <2>1. dirty \subseteq dirty' \/ call'[c] = After(TRUE, entries') BY DEF Over
  <2> QED BY <2>1 DEF Marked, Reconciling
<1> QED BY <1>2, <1>3, <1>4, <1>5 DEF Kind

LEMMA SentStep ==
  ASSUME Typed, NEW c \in Calls, NEW s \in Serials, NEW on \in BOOLEAN, World, Sent(c, s, on),
         Stored(c), Registered(c), call'[c].pc \in Switching, lock \in {c, Nobody},
         on = (call'[c].pc \in SwitchingOn), Handled(c),
         call[c].reply # "wait", call[c].pc \notin Reconciling, Vouches(c)
  PROVE  Kind(c)
<1>1. dirty \subseteq Files BY DEF Typed
<1>2. Step(c) BY <1>1, CallerOnly DEF Step, Sent, Final
<1>3. Wired(c) BY DEF Wired
<1>4. Marked(c) BY DEF Marked, Reconciling, Sent
<1> QED BY <1>2, <1>3, <1>4 DEF Kind

\* A step that leaves the lock, the marks and the wire alone.
LEMMA QuietStep ==
  ASSUME Typed, Locking, NEW c \in Calls, World, Quiet(c), Stored(c), Registered(c), Marked(c),
         call'[c].pc \notin Switching \cup Arming, lock # c,
         call[c].reply # "wait", Vouches(c)
  PROVE  Kind(c)
<1>1. dirty \subseteq Files /\ wire \in Seq(Toggles) BY DEF Typed
<1>2. Step(c) BY <1>1 DEF Step, Quiet, Final
<1>3. Handled(c)
  <2>1. Hand(call'[c]) = {} BY NoHand DEF Switching
  <2> QED BY <2>1 DEF Handled
<1>4. Wired(c) BY DEF Wired, Quiet
<1> QED BY <1>2, <1>3, <1>4 DEF Kind
LEMMA Untouched ==
  ASSUME Typed, NEW c \in Calls, UNCHANGED <<entries, born, histVars>>
  PROVE  Stored(c) /\ Registered(c)
<1>1. UNCHANGED <<unsure, doubled, stale>> BY DEF histVars
<1>2. Stored(c) BY <1>1 DEF Stored, Typed
<1>3. Registered(c) BY DEF Registered, Kept
<1> QED BY <1>2, <1>3

\* No entry is armed or moved.
LEMMA NoneArmed ==
  ASSUME NEW c, \A e \in Armed(entries') :
           /\ e \in Armed(entries) /\ entries'[e].serial = entries[e].serial
           /\ entries'[e].file = entries[e].file /\ entries'[e].line = entries[e].line
  PROVE  Registered(c)
BY DEF Registered, Kept

LEMMA VouchedIs ==
  ASSUME Typed, NEW c \in Calls, call[c].reply \in Final \cup {"failed"},
         NEW s \in Serials, s = call[c].cur, NEW more \in SUBSET Serials,
         unsure' = Vouched(s, call[c].reply) \cup more
  PROVE  /\ unsure' \subseteq Serials /\ Vouches(c) /\ call[c].reply # "wait"
         /\ more \subseteq unsure'
         /\ \A n \in Serials \ unsure' : n = s \/ n \notin unsure
         /\ s \notin unsure' => call[c].reply \in Final
         /\ call[c].reply \in {"unknown", "unfinished"} => unsure' = unsure \cup more
<1>1. unsure \subseteq Serials BY DEF Typed
<1>2. CASE call[c].reply = "ok"
  <2>1. unsure' = (unsure \ {s}) \cup more BY <1>2 DEF Vouched
  <2> QED BY <1>1, <1>2, <2>1 DEF Vouches, Final
<1>3. CASE call[c].reply = "failed"
  <2>1. unsure' = (unsure \cup {s}) \cup more BY <1>3 DEF Vouched
  <2> QED BY <1>1, <1>3, <2>1 DEF Vouches, Final
<1>4. CASE call[c].reply \in {"unknown", "unfinished"}
  <2>1. unsure' = unsure \cup more BY <1>4 DEF Vouched
  <2> QED BY <1>1, <1>4, <2>1 DEF Vouches, Final
<1> QED BY <1>2, <1>3, <1>4 DEF Final

LEMMA IdleCall ==
  ASSUME Typed, NEW c \in Calls, call[c].pc = "idle", unsure \subseteq unsure'
  PROVE  /\ call[c].reply # "wait" /\ call[c].reply = "none" /\ Vouches(c)
         /\ call[c].pc \notin Reconciling /\ call[c].pc \notin Switching \cup Arming
<1>1. call[c].reply = "none" BY DEF Typed, CallOK, Switching
<1> QED BY <1>1 DEF Vouches, Reconciling, Switching, Arming

LEMMA Listed ==
  ASSUME NEW c \in Calls, call'[c].pc = "arming", NEW f \in Files, NEW x \in Listing(f), x.ready,
         call'[c].site = x
  PROVE  Handled(c)
BY DEF Handled, Hand

LEMMA OtherToolKind ==
  ASSUME Typed, Locking, NEW c \in Calls, OtherTool(c) PROVE Kind(c)
<1>1. /\ World /\ UNCHANGED <<entries, born, histVars>> /\ call[c].pc = "idle" /\ Over(c, TRUE)
  BY OtherToolDoes
<1>2. unsure \subseteq unsure' BY <1>1 DEF histVars
<1> QED BY <1>1, <1>2, Untouched, IdleCall, OverStep

LEMMA SetListsKind ==
  ASSUME Typed, Locking, NEW c \in Calls, SetLists(c) PROVE Kind(c)
<1>1. /\ World /\ UNCHANGED <<entries, born, histVars>> /\ call[c].pc = "idle" /\ lock = Nobody
      /\ \/ Over(c, FALSE)
         \/ \E f \in Files : \E x \in Listing(f) :
                 /\ x.ready /\ Sent(c, x.serial, TRUE)
                 /\ call'[c].op = "set" /\ call'[c].pc = "arming" /\ call'[c].site = x
                 /\ call'[c].ids = {}
  BY SetListsDoes
<1>2. unsure \subseteq unsure' BY <1>1 DEF histVars
<1>3. /\ Stored(c) /\ Registered(c) /\ call[c].reply # "wait" /\ Vouches(c)
      /\ call[c].pc \notin Reconciling
  BY <1>1, <1>2, Untouched, IdleCall
<1>4. CASE Over(c, FALSE) BY <1>1, <1>3, <1>4, OverStep
<1>5. CASE \E f \in Files : \E x \in Listing(f) :
                 /\ x.ready /\ Sent(c, x.serial, TRUE)
                 /\ call'[c].op = "set" /\ call'[c].pc = "arming" /\ call'[c].site = x
                 /\ call'[c].ids = {}
  <2>a. PICK f \in Files : \E x \in Listing(f) :
                 /\ x.ready /\ Sent(c, x.serial, TRUE)
                 /\ call'[c].pc = "arming" /\ call'[c].site = x
    BY <1>5
  <2>1. PICK x \in Listing(f) :
                 /\ x.ready /\ Sent(c, x.serial, TRUE)
                 /\ call'[c].pc = "arming" /\ call'[c].site = x
    BY <2>a
  <2>2. x.serial \in Serials BY <2>1 DEF Sent
  <2>3. Handled(c) BY <2>1, Listed
  <2>4. call'[c].pc \in Switching /\ call'[c].pc \in SwitchingOn BY <2>1 DEF Switching, SwitchingOn
  <2> QED BY <1>1, <1>3, <2>1, <2>2, <2>3, <2>4, SentStep
<1> QED BY <1>1, <1>4, <1>5

\* What a recording makes of the registry.
LEMMA RecordsKind ==
  ASSUME Typed, Locking, NEW c \in Calls, NEW ids, NEW known, World, lock = c, doubled' = doubled,
         call[c].pc \in {"arming", "abandon"}, call[c].reply # "wait",
         Records(c, ids, call[c].site, known), Vouches(c), known \subseteq Serials
  PROVE  Kind(c)
<1> DEFINE x == call[c].site
<1>1. call[c] \in CallRecords /\ CallOK(call[c]) BY DEF Typed
<1>2. x \in SiteRecords BY <1>1 DEF CallOK
<1>3. Late(x) \subseteq {x.serial} /\ x.serial \in Serials BY <1>2 DEF Late, SiteRecords
<1>4. x.serial \in stale' \/ (x.serial \in DOMAIN sites /\ x.life = life)
  BY DEF Late, Records
<1>5. /\ Over(c, TRUE) /\ Registry(entries') /\ DOMAIN entries' \subseteq 1..born'
      /\ born' \in 0..MaxEntries /\ unsure' = known \cup Late(x) /\ stale' = stale \cup Late(x)
      /\ \A e \in DOMAIN entries \ ids : e \in DOMAIN entries' /\ entries'[e] = entries[e]
  BY DEF Records
<1>6. PICK a \in DOMAIN entries' :
       /\ entries'[a].state = "armed" /\ entries'[a].serial = x.serial /\ entries'[a].file = x.file
       /\ entries'[a].line = x.line /\ entries'[a].enabled
       /\ DOMAIN entries' = (DOMAIN entries \ ids) \cup {a}
  BY DEF Records
<1>7. Registered(c)
  <2>1. SUFFICES ASSUME NEW e \in Armed(entries') PROVE Kept(e) \/ Fresh(c, e)
    BY DEF Registered
  <2>2. e \in DOMAIN entries' /\ entries'[e].state = "armed" BY DEF Armed
  <2>3. CASE e = a BY <1>4, <1>6, <2>3 DEF Fresh
  <2>4. CASE e \in DOMAIN entries \ ids
    <3>1. entries'[e] = entries[e] BY <1>5, <2>4
    <3> QED BY <2>2, <2>4, <3>1 DEF Kept, Armed
  <2> QED BY <2>2, <2>3, <2>4, <1>6
<1>8. Stored(c) BY <1>3, <1>5 DEF Typed, Stored
<1>9. call[c].pc \notin Reconciling BY DEF Reconciling
<1> QED BY <1>5, <1>7, <1>8, <1>9, OverStep

LEMMA AbandonsKind ==
  ASSUME Typed, NEW c \in Calls, NEW ids, World, lock = c, doubled' = doubled,
         call[c].pc \in {"arming", "abandon"}, call[c].reply # "wait",
         Abandons(c, ids, call[c].site), Vouches(c), unsure' \subseteq Serials
  PROVE  Kind(c)
<1>1. PICK s \in Serials : Sent(c, s, FALSE) BY DEF Abandons, Sent
<1>2. UNCHANGED <<entries, born, stale, doubled>> /\ call'[c].pc = "abandon" /\ call'[c].site = call[c].site
  BY DEF Abandons
<1>3. Stored(c) BY <1>2 DEF Stored, Typed
<1>4. Registered(c) BY <1>2 DEF Registered, Kept
<1>5. Handled(c) BY <1>2 DEF Handled, Hand
<1>6. call'[c].pc \in Switching /\ call'[c].pc \notin SwitchingOn /\ call[c].pc \notin Reconciling
  BY <1>2 DEF Switching, SwitchingOn, Reconciling
<1>7. FALSE \in BOOLEAN /\ FALSE = (call'[c].pc \in SwitchingOn) /\ lock \in {c, Nobody}
  BY <1>6
<1> QED BY <1>1, <1>3, <1>4, <1>5, <1>6, <1>7, SentStep, Zenon

LEMMA SetAnsweredKind ==
  ASSUME Typed, Locking, StagesOK, NEW c \in Calls, SetAnswered(c) PROVE Kind(c)
<1> DEFINE x == call[c].site
           ids == Matching(entries, x)
           known == Vouched(x.serial, call[c].reply)
<1>1. /\ World /\ doubled' = doubled
      /\ call[c].pc = "arming" /\ lock = c /\ call[c].reply \in Final \cup {"failed"}
      /\ \/ /\ Over(c, FALSE) /\ UNCHANGED <<entries, born, stale>>
            /\ call[c].reply # "ok" /\ unsure' = known
         \/ call[c].reply = "ok" /\ Records(c, ids, x, known)
         \/ call[c].reply = "ok" /\ Abandons(c, ids, x) /\ unsure' = known
  BY SetAnsweredDoes
<1>2. CallOK(call[c]) /\ unsure \subseteq Serials BY DEF Typed
<1>3. x.serial = call[c].cur /\ x.serial \in Serials /\ x \in SiteRecords
  BY <1>1, <1>2 DEF StagesOK, Stage, SwitchingOn, CallOK, Switching
<1>4. known \subseteq Serials BY <1>2, <1>3 DEF Vouched
<1>5. Late(x) \in SUBSET Serials /\ {} \in SUBSET Serials BY <1>3 DEF Late
<1> HIDE DEF known, x, ids
<1>6. CASE /\ Over(c, FALSE) /\ UNCHANGED <<entries, born, stale>> /\ unsure' = known
  <2>1. unsure' = Vouched(x.serial, call[c].reply) \cup {} BY <1>6 DEF known
  <2>2. Vouches(c) /\ call[c].reply # "wait" BY <1>1, <1>3, <1>5, <2>1, VouchedIs, Zenon
  <2>3. Stored(c) BY <1>1, <1>4, <1>6 DEF Stored, Typed
  <2>4. Registered(c) BY <1>6 DEF Registered, Kept
  <2>5. call[c].pc \notin Reconciling BY <1>1 DEF Reconciling
  <2> QED BY <1>1, <1>6, <2>2, <2>3, <2>4, <2>5, OverStep
<1>7. CASE Records(c, ids, x, known)
  <2>1. unsure' = Vouched(x.serial, call[c].reply) \cup Late(x) BY <1>7 DEF Records, known
  <2>2. Vouches(c) /\ call[c].reply # "wait" BY <1>1, <1>3, <1>5, <2>1, VouchedIs, Zenon
  <2> QED BY <1>1, <1>4, <1>7, <2>2, RecordsKind DEF x
<1>8. CASE Abandons(c, ids, x) /\ unsure' = known
  <2>1. unsure' = Vouched(x.serial, call[c].reply) \cup {} BY <1>8 DEF known
  <2>2. Vouches(c) /\ call[c].reply # "wait" BY <1>1, <1>3, <1>5, <2>1, VouchedIs, Zenon
  <2> QED BY <1>1, <1>4, <1>8, <2>2, AbandonsKind DEF x
<1> QED BY <1>1, <1>6, <1>7, <1>8

LEMMA SetAbandonedKind ==
  ASSUME Typed, Locking, StagesOK, NEW c \in Calls, SetAbandoned(c) PROVE Kind(c)
<1> DEFINE r == call[c]
           known == Vouched(r.cur, r.reply)
<1>1. /\ World /\ doubled' = doubled
      /\ r.pc = "abandon" /\ lock = c /\ r.reply \in Final \cup {"failed"}
      /\ \/ Records(c, r.ids, r.site, known)
         \/ Abandons(c, r.ids, r.site) /\ unsure' = known
  BY SetAbandonedDoes
<1>2. CallOK(r) /\ unsure \subseteq Serials BY DEF Typed
<1>3. r.cur \in Serials /\ r.site \in SiteRecords BY <1>1, <1>2 DEF CallOK, Switching
<1>4. known \subseteq Serials BY <1>2, <1>3 DEF Vouched
<1>5. Late(r.site) \in SUBSET Serials /\ {} \in SUBSET Serials BY <1>3 DEF Late, SiteRecords
<1> HIDE DEF known
<1>7. CASE Records(c, r.ids, r.site, known)
  <2>1. unsure' = known \cup Late(r.site) BY <1>7 DEF Records
  <2>2. Vouches(c) /\ call[c].reply # "wait" BY <1>1, <1>3, <1>5, <2>1, VouchedIs DEF known
  <2> QED BY <1>1, <1>4, <1>7, <2>2, RecordsKind
<1>8. CASE Abandons(c, r.ids, r.site) /\ unsure' = known
  <2>1. unsure' = Vouched(r.cur, r.reply) \cup {} BY <1>8 DEF known
  <2>2. Vouches(c) /\ call[c].reply # "wait" BY <1>1, <1>3, <1>5, <2>1, VouchedIs, Zenon
  <2> QED BY <1>1, <1>4, <1>8, <2>2, AbandonsKind
<1> QED BY <1>1, <1>7, <1>8
\* ... when nothing else is learnt.
LEMMA Settled ==
  ASSUME Typed, NEW c \in Calls, call[c].reply \in Final \cup {"failed"}, call[c].cur \in Serials,
         unsure' = Vouched(call[c].cur, call[c].reply)
  PROVE  /\ unsure' \subseteq Serials /\ Vouches(c) /\ call[c].reply # "wait"
         /\ \A n \in Serials \ unsure' : n = call[c].cur \/ n \notin unsure
         /\ call[c].cur \notin unsure' => call[c].reply \in Final
<1>1. unsure' = Vouched(call[c].cur, call[c].reply) \cup {} /\ {} \in SUBSET Serials OBVIOUS
<1> DEFINE s == call[c].cur
           none == {}
<1>2. /\ s \in Serials /\ s = call[c].cur /\ none \in SUBSET Serials
      /\ unsure' = Vouched(s, call[c].reply) \cup none
  BY <1>1
<1> HIDE DEF s, none
<1>3. /\ unsure' \subseteq Serials /\ Vouches(c) /\ call[c].reply # "wait"
      /\ \A n \in Serials \ unsure' : n = s \/ n \notin unsure
      /\ s \notin unsure' => call[c].reply \in Final
  BY <1>2, VouchedIs
<1> QED BY <1>3 DEF s

LEMMA DeleteStartsKind ==
  ASSUME Typed, Locking, NEW c \in Calls, DeleteStarts(c) PROVE Kind(c)
<1>1. /\ World /\ UNCHANGED <<born, histVars>> /\ call[c].pc = "idle" /\ lock = Nobody
      /\ \/ Over(c, TRUE) /\ entries' = entries
         \/ \E d \in DOMAIN entries \ Armed(entries) :
                 Over(c, TRUE) /\ entries' = Without(entries, {d})
         \/ \E d \in Armed(entries) :
                 /\ Sent(c, entries[d].serial, FALSE) /\ entries' = entries
                 /\ call'[c].pc = "disarm" /\ call'[c].ids = {d}
  BY DeleteStartsDoes
<1>2. UNCHANGED <<unsure, doubled, stale>> BY <1>1 DEF histVars
<1>3. /\ call[c].reply # "wait" /\ Vouches(c) /\ call[c].pc \notin Reconciling
  BY <1>1, <1>2, IdleCall
<1>4. CASE Over(c, TRUE) /\ entries' = entries
  <2>1. Stored(c) /\ Registered(c) BY <1>1, <1>4, Untouched
  <2> QED BY <1>1, <1>3, <1>4, <2>1, OverStep
<1>5. CASE \E d \in DOMAIN entries \ Armed(entries) :
                 Over(c, TRUE) /\ entries' = Without(entries, {d})
  <2>1. PICK d \in DOMAIN entries \ Armed(entries) :
                 Over(c, TRUE) /\ entries' = Without(entries, {d})
    BY <1>5
  <2>2. Registry(entries) BY DEF Typed
  <2>3. /\ Registry(entries') /\ DOMAIN entries' = DOMAIN entries \ {d}
        /\ Armed(entries') = Armed(entries) \ {d}
        /\ \A e \in DOMAIN entries \ {d} : entries'[e] = entries[e]
    BY <2>1, <2>2, WithoutIs
  <2>4. Stored(c) BY <1>1, <1>2, <2>3 DEF Stored, Typed
  <2>5. Registered(c) BY <2>3, NoneArmed DEF Armed
  <2> QED BY <1>1, <1>3, <2>1, <2>4, <2>5, OverStep
<1>6. CASE \E d \in Armed(entries) :
                 /\ Sent(c, entries[d].serial, FALSE) /\ entries' = entries
                 /\ call'[c].pc = "disarm" /\ call'[c].ids = {d}
  <2>1. PICK d \in Armed(entries) :
                 /\ Sent(c, entries[d].serial, FALSE) /\ entries' = entries
                 /\ call'[c].pc = "disarm"
    BY <1>6
  <2>2. Stored(c) /\ Registered(c) BY <1>1, <2>1, Untouched
  <2>3. entries[d].serial \in Serials BY <2>1 DEF Sent
  <2>4. call'[c].pc \in Switching /\ call'[c].pc \notin SwitchingOn BY <2>1 DEF Switching, SwitchingOn
  <2>5. FALSE \in BOOLEAN /\ FALSE = (call'[c].pc \in SwitchingOn) /\ lock \in {c, Nobody} BY <1>1, <2>4
  <2>6. Handled(c)
    <3>1. Hand(call'[c]) = {} BY <2>1, NoHand
    <3> QED BY <3>1 DEF Handled
  <2> QED BY <1>1, <1>3, <2>1, <2>2, <2>3, <2>4, <2>5, <2>6, SentStep, Zenon
<1> QED BY <1>1, <1>4, <1>5, <1>6

LEMMA DeleteAnsweredKind ==
  ASSUME Typed, Locking, NEW c \in Calls, DeleteAnswered(c) PROVE Kind(c)
<1>1. /\ World /\ UNCHANGED <<born, doubled, stale>>
      /\ call[c].pc = "disarm" /\ lock = c /\ call[c].reply \in Final \cup {"failed"}
      /\ Over(c, TRUE) /\ entries' = Without(entries, call[c].ids)
      /\ unsure' = Vouched(call[c].cur, call[c].reply)
  BY DeleteAnsweredDoes
<1>2. Registry(entries) /\ CallOK(call[c]) BY DEF Typed
<1>3. call[c].cur \in Serials BY <1>1, <1>2 DEF CallOK, Switching
<1>4. /\ Registry(entries') /\ DOMAIN entries' = DOMAIN entries \ call[c].ids
      /\ Armed(entries') = Armed(entries) \ call[c].ids
      /\ \A e \in DOMAIN entries \ call[c].ids : entries'[e] = entries[e]
  <2> DEFINE ids == call[c].ids
  <2>1. entries' = Without(entries, ids) BY <1>1
  <2> HIDE DEF ids
  <2>2. /\ Registry(entries') /\ DOMAIN entries' = DOMAIN entries \ ids
        /\ Armed(entries') = Armed(entries) \ ids
        /\ \A e \in DOMAIN entries \ ids : entries'[e] = entries[e]
    BY <1>2, <2>1, WithoutIs
  <2> QED BY <2>2 DEF ids
<1>6. unsure' \subseteq Serials /\ Vouches(c) /\ call[c].reply # "wait"
  BY <1>1, <1>3, Settled
<1>7. Stored(c) BY <1>1, <1>4, <1>6 DEF Stored, Typed
<1>8. Registered(c) BY <1>4, NoneArmed DEF Armed
<1>9. call[c].pc \notin Reconciling BY <1>1 DEF Reconciling
<1> QED BY <1>1, <1>6, <1>7, <1>8, <1>9, OverStep

LEMMA DisablesKind ==
  ASSUME Typed, Locking, NEW c \in Calls, World, UNCHANGED <<born, doubled, stale>>,
         NEW es, Registry(es), DOMAIN es = DOMAIN entries,
         \A e \in Armed(es) : /\ e \in Armed(entries) /\ es[e].serial = entries[e].serial
                              /\ es[e].file = entries[e].file /\ es[e].line = entries[e].line,
         NEW todo, Disables(c, es, todo), lock \in {c, Nobody},
         call[c].reply # "wait", call[c].pc \notin Reconciling, Vouches(c), unsure' \subseteq Serials
  PROVE  Kind(c)
<1>1. ASSUME NEW ids, entries' = Enable(es, ids, FALSE) PROVE Stored(c) /\ Registered(c)
  <2>a. FALSE \in BOOLEAN OBVIOUS
  <2>b. \A flag \in BOOLEAN : entries' = Enable(es, ids, flag) =>
          /\ Registry(entries') /\ DOMAIN entries' = DOMAIN es
          /\ Armed(entries') = Armed(es)
          /\ \A e \in DOMAIN es : /\ entries'[e].serial = es[e].serial
                                  /\ entries'[e].file = es[e].file /\ entries'[e].line = es[e].line
    BY EnableIs
  <2>1. /\ Registry(entries') /\ DOMAIN entries' = DOMAIN es
        /\ Armed(entries') = Armed(es)
        /\ \A e \in DOMAIN es : /\ entries'[e].serial = es[e].serial
                                /\ entries'[e].file = es[e].file /\ entries'[e].line = es[e].line
    BY <1>1, <2>a, <2>b, Zenon
  <2>2. Stored(c) BY <2>1 DEF Stored, Typed
  <2>3. Armed(es) \subseteq DOMAIN es BY DEF Armed
  <2>4. Registered(c) BY <2>1, <2>3, NoneArmed
  <2> QED BY <2>2, <2>4
<1>2. CASE Over(c, TRUE) /\ entries' = Enable(es, todo, FALSE)
  <2>1. Stored(c) /\ Registered(c) BY <1>1, <1>2
  <2> QED BY <1>2, <2>1, OverStep
<1>3. CASE \E d \in Armed(es) : \E upto \in SUBSET todo :
             /\ entries' = Enable(es, upto, FALSE) /\ Sent(c, es[d].serial, FALSE)
             /\ call'[c].pc = "off"
  <2>a. PICK d \in Armed(es) : \E upto \in SUBSET todo :
             /\ entries' = Enable(es, upto, FALSE) /\ Sent(c, es[d].serial, FALSE)
             /\ call'[c].pc = "off"
    BY <1>3
  <2>1. PICK upto \in SUBSET todo :
             /\ entries' = Enable(es, upto, FALSE) /\ Sent(c, es[d].serial, FALSE)
             /\ call'[c].pc = "off"
    BY <2>a
  <2>2. Stored(c) /\ Registered(c) BY <1>1, <2>1
  <2>3. es[d].serial \in Serials BY <2>1 DEF Sent
  <2>4. call'[c].pc \in Switching /\ call'[c].pc \notin SwitchingOn BY <2>1 DEF Switching, SwitchingOn
  <2>5. FALSE \in BOOLEAN /\ FALSE = (call'[c].pc \in SwitchingOn) BY <2>4
  <2>6. Handled(c)
    <3>1. Hand(call'[c]) = {} BY <2>1, NoHand
    <3> QED BY <3>1 DEF Handled
  <2> QED BY <2>1, <2>2, <2>3, <2>4, <2>5, <2>6, SentStep, Zenon
<1>4. \/ Over(c, TRUE) /\ entries' = Enable(es, todo, FALSE)
      \/ \E d \in Armed(es) : \E upto \in SUBSET todo :
             /\ entries' = Enable(es, upto, FALSE) /\ Sent(c, es[d].serial, FALSE)
             /\ call'[c].pc = "off"
  BY DEF Disables
<1> QED BY <1>2, <1>3, <1>4

LEMMA DisableStartsKind ==
  ASSUME Typed, Locking, NEW c \in Calls, DisableStarts(c) PROVE Kind(c)
<1>1. /\ World /\ UNCHANGED <<born, histVars>> /\ call[c].pc = "idle" /\ lock = Nobody
      /\ \E todo \in SUBSET DOMAIN entries : Disables(c, entries, todo)
  BY DisableStartsDoes
<1>2. UNCHANGED <<unsure, doubled, stale>> BY <1>1 DEF histVars
<1>3. /\ call[c].reply # "wait" /\ Vouches(c) /\ call[c].pc \notin Reconciling
  BY <1>1, <1>2, IdleCall
<1>4. Registry(entries) /\ unsure' \subseteq Serials BY <1>2 DEF Typed
<1>5. PICK todo : Disables(c, entries, todo) BY <1>1
<1>6. UNCHANGED <<born, doubled, stale>> /\ lock \in {c, Nobody} BY <1>1, <1>2
<1> QED BY <1>1, <1>3, <1>4, <1>5, <1>6, DisablesKind

LEMMA DisableAnsweredKind ==
  ASSUME Typed, Locking, NEW c \in Calls, DisableAnswered(c) PROVE Kind(c)
<1> DEFINE r == call[c]
<1>1. /\ World /\ UNCHANGED <<born, doubled, stale>>
      /\ r.pc = "off" /\ lock = c /\ r.reply \in Final \cup {"failed"}
      /\ unsure' = Vouched(r.cur, r.reply)
      /\ \E tag \in {NotFound, WireFailure} : \E es :
              /\ r.reply # "unknown" => tag = WireFailure
              /\ es = (IF r.reply = "ok" THEN entries ELSE Demote(entries, r.ids, tag))
              /\ Registry(es) /\ DOMAIN es = DOMAIN entries
              /\ Disables(c, es, r.plan)
  BY DisableAnsweredDoes
<1>2. Registry(entries) /\ CallOK(call[c]) BY DEF Typed
<1>3. call[c].cur \in Serials BY <1>1, <1>2 DEF CallOK, Switching
<1>6. unsure' \subseteq Serials /\ Vouches(c) /\ call[c].reply # "wait"
  BY <1>1, <1>3, Settled
<1>7. call[c].pc \notin Reconciling /\ lock \in {c, Nobody} BY <1>1 DEF Reconciling
<1>8. PICK tag \in {NotFound, WireFailure} : \E es :
              /\ es = (IF r.reply = "ok" THEN entries ELSE Demote(entries, r.ids, tag))
              /\ Registry(es) /\ DOMAIN es = DOMAIN entries
              /\ Disables(c, es, r.plan)
  BY <1>1
<1>9. PICK es :
              /\ es = (IF r.reply = "ok" THEN entries ELSE Demote(entries, r.ids, tag))
              /\ Registry(es) /\ DOMAIN es = DOMAIN entries
              /\ Disables(c, es, r.plan)
  BY <1>8
<1>10. tag \in Reasons \ {"none"} BY DEF Reasons, NotFound, WireFailure
<1>11. ASSUME NEW e \in Armed(es)
       PROVE  /\ e \in Armed(entries) /\ es[e].serial = entries[e].serial
              /\ es[e].file = entries[e].file /\ es[e].line = entries[e].line
  <2>1. CASE r.reply = "ok" BY <1>9, <2>1
  <2>2. CASE r.reply # "ok"
    <3>1. es = Demote(entries, r.ids, tag) BY <1>9, <2>2
    <3>2. Demoting(es, r.ids) BY <3>1, <1>10, DemotingIs, Zenon
    <3> QED BY <3>2 DEF Demoting, Armed
  <2> QED BY <2>1, <2>2
<1> HIDE DEF r
<1> QED BY <1>1, <1>6, <1>7, <1>9, <1>11, DisablesKind

LEMMA ArmsNextKind ==
  ASSUME Typed, Locking, NEW c \in Calls, World, born' = born, lock = c, call[c].pc \in Arming,
         call[c].reply # "wait",
         NEW es, Registry(es), DOMAIN es = DOMAIN entries,
         \A e \in Armed(es) :
           \/ /\ e \in Armed(entries) /\ es[e].serial = entries[e].serial
              /\ es[e].file = entries[e].file /\ es[e].line = entries[e].line
           \/ /\ call[c].pc = "on" /\ es[e].serial = call[c].site.serial
              /\ es[e].file = call[c].site.file /\ es[e].line = call[c].site.line
              /\ \/ call[c].site.serial \in stale'
                 \/ call[c].site.serial \in DOMAIN sites /\ call[c].site.life = life,
         NEW plan, NEW paths, NEW known, ArmsNext(c, es, plan, paths, known),
         \/ \A p \in plan : p.site \in Hand(call[c])
         \/ \E f \in Files : \A p \in plan : p.site \in Listing(f) /\ p.site.ready,
         Vouches(c), unsure' \subseteq Serials, stale \subseteq stale', stale' \subseteq Serials
  PROVE  Kind(c)
<1>1. ASSUME Registry(entries'), DOMAIN entries' \subseteq DOMAIN es, doubled' \subseteq Serials,
             Armed(entries') \subseteq Armed(es), \A e \in Armed(entries') : entries'[e] = es[e]
      PROVE  Stored(c) /\ Registered(c)
  <2>1. Stored(c) BY <1>1 DEF Stored, Typed
  <2>2. Registered(c)
    <3>1. SUFFICES ASSUME NEW e \in Armed(entries') PROVE Kept(e) \/ Fresh(c, e)
      BY DEF Registered
    <3>2. e \in Armed(es) /\ entries'[e] = es[e] BY <1>1
    <3> QED BY <3>2 DEF Kept, Fresh
  <2> QED BY <2>1, <2>2
<1>2. call[c].pc \notin Reconciling /\ lock \in {c, Nobody} /\ doubled \subseteq Serials
  BY DEF Reconciling, Arming, Typed
<1>3. CASE \E p \in plan :
          /\ entries' = es /\ doubled' = doubled
          /\ Sent(c, p.site.serial, TRUE)
          /\ call'[c].pc = "on" /\ call'[c].site = p.site /\ call'[c].plan = plan \ {p}
  <2>1. PICK p \in plan :
          /\ entries' = es /\ doubled' = doubled
          /\ Sent(c, p.site.serial, TRUE)
          /\ call'[c].pc = "on" /\ call'[c].site = p.site /\ call'[c].plan = plan \ {p}
    BY <1>3
  <2>2. Stored(c) /\ Registered(c) BY <1>1, <1>2, <2>1
  <2>3. p.site.serial \in Serials BY <2>1 DEF Sent
  <2>4. call'[c].pc \in Switching /\ call'[c].pc \in SwitchingOn BY <2>1 DEF Switching, SwitchingOn
  <2>5. TRUE \in BOOLEAN /\ TRUE = (call'[c].pc \in SwitchingOn) BY <2>4
  <2>6. \A x \in Hand(call'[c]) : \E q \in plan : x = q.site BY <2>1 DEF Hand
  <2>7. Handled(c) BY <2>6 DEF Handled
  <2> QED BY <1>2, <2>1, <2>2, <2>3, <2>4, <2>5, <2>7, SentStep, Zenon
<1>4. CASE /\ entries' = es /\ doubled' = doubled
           /\ CallsOK /\ Others(c) /\ call'[c].reply = "none" /\ call'[c].pc = "files"
           /\ UNCHANGED <<lock, dirty, wire>>
  <2>1. Stored(c) /\ Registered(c) BY <1>1, <1>2, <1>4
  <2>2. wire \in Seq(Toggles) /\ dirty \subseteq Files BY DEF Typed
  <2>3. Step(c) BY <1>4, <2>1, <2>2 DEF Step, Arming, Final
  <2>4. Handled(c)
    <3>1. Hand(call'[c]) = {} BY <1>4, NoHand
    <3> QED BY <3>1 DEF Handled
  <2>5. Wired(c) BY <1>4 DEF Wired
  <2>6. Marked(c) BY <1>2, <1>4 DEF Marked, Reconciling
  <2> QED BY <2>1, <2>3, <2>4, <2>5, <2>6 DEF Kind
<1>5. CASE /\ Over(c, TRUE)
           /\ entries' = MergeSameSite(es, call[c].ids) /\ doubled' = doubled \cup Twins(entries')
  <2>1. /\ Registry(entries') /\ DOMAIN entries' \subseteq DOMAIN es
        /\ Armed(entries') = Armed(es) \cap DOMAIN entries'
        /\ \A e \in DOMAIN entries' : entries'[e] = es[e]
    BY <1>5, MergeIs
  <2>2. Twins(entries') \subseteq Serials BY <2>1, TwinsTyped
  <2>3. Stored(c) /\ Registered(c) BY <1>1, <1>2, <1>5, <2>1, <2>2
  <2> QED BY <1>2, <1>5, <2>3, OverStep
<1>6. \/ \E p \in plan :
          /\ entries' = es /\ doubled' = doubled
          /\ Sent(c, p.site.serial, TRUE)
          /\ call'[c].pc = "on" /\ call'[c].site = p.site /\ call'[c].plan = plan \ {p}
      \/ /\ entries' = es /\ doubled' = doubled
         /\ CallsOK /\ Others(c) /\ call'[c].reply = "none" /\ call'[c].pc = "files"
         /\ UNCHANGED <<lock, dirty, wire>>
      \/ /\ Over(c, TRUE)
         /\ entries' = MergeSameSite(es, call[c].ids) /\ doubled' = doubled \cup Twins(entries')
  BY DEF ArmsNext
<1> QED BY <1>3, <1>4, <1>5, <1>6
LEMMA EnableCollectsKind ==
  ASSUME Typed, Locking, NEW c \in Calls, EnableCollects(c) PROVE Kind(c)
<1>1. /\ World /\ UNCHANGED <<entries, born, histVars>>
      /\ call[c].pc = "idle" /\ Quiet(c) /\ call'[c].pc = "reopen"
  BY EnableCollectsDoes
<1>2. unsure \subseteq unsure' BY <1>1 DEF histVars
<1>3. /\ Stored(c) /\ Registered(c) BY <1>1, Untouched
<1>4. /\ call[c].reply # "wait" /\ Vouches(c) /\ call[c].pc \notin Reconciling
      /\ call[c].pc \notin Switching \cup Arming
  BY <1>1, <1>2, IdleCall
<1>5. lock # c BY <1>4 DEF Locking
<1>6. Marked(c) BY <1>1, <1>4 DEF Marked, Reconciling, Quiet
<1>7. call'[c].pc \notin Switching \cup Arming BY <1>1 DEF Switching, Arming
<1> QED BY <1>1, <1>3, <1>4, <1>5, <1>6, <1>7, QuietStep

LEMMA EnableReopensKind ==
  ASSUME Typed, Locking, NEW c \in Calls, EnableReopens(c) PROVE Kind(c)
<1>1. /\ World /\ UNCHANGED <<entries, born, histVars>>
      /\ call[c].pc = "reopen" /\ Quiet(c) /\ call'[c].pc = "stage three"
  BY EnableReopensDoes
<1>2. unsure \subseteq unsure' BY <1>1 DEF histVars
<1>3. /\ Stored(c) /\ Registered(c) BY <1>1, Untouched
<1>4. CallOK(call[c]) BY DEF Typed
<1>5. call[c].pc \notin Switching \cup Arming /\ call[c].pc \notin Reconciling /\ call[c].reply = "none"
  BY <1>1, <1>4 DEF CallOK, Switching, Arming, Reconciling
<1>6. lock # c BY <1>5 DEF Locking
<1>7. Vouches(c) BY <1>2, <1>5 DEF Vouches
<1>8. Marked(c) BY <1>1, <1>5 DEF Marked, Reconciling, Quiet
<1>9. call'[c].pc \notin Switching \cup Arming BY <1>1 DEF Switching, Arming
<1> QED BY <1>1, <1>3, <1>5, <1>6, <1>7, <1>8, <1>9, QuietStep

LEMMA EnableFlagsKind ==
  ASSUME Typed, Locking, NEW c \in Calls, EnableFlags(c) PROVE Kind(c)
<1>1. /\ World /\ UNCHANGED <<born, histVars>>
      /\ call[c].pc = "stage three" /\ lock = Nobody
      /\ \/ Over(c, TRUE) /\ entries' = entries
         \/ /\ CallsOK /\ Others(c) /\ call'[c].reply = "none" /\ call'[c].pc = "files"
            /\ entries' = Enable(entries, call'[c].ids, TRUE)
            /\ lock' = c /\ UNCHANGED <<dirty, wire>>
  BY EnableFlagsDoes
<1>2. UNCHANGED <<unsure, doubled, stale>> BY <1>1 DEF histVars
<1>3. CallOK(call[c]) /\ Registry(entries) BY DEF Typed
<1>4. call[c].pc \notin Reconciling /\ call[c].reply = "none"
  BY <1>1, <1>3 DEF CallOK, Switching, Reconciling
<1>5. Vouches(c) BY <1>2, <1>4 DEF Vouches
<1>6. CASE Over(c, TRUE) /\ entries' = entries
  <2>1. Stored(c) /\ Registered(c) BY <1>1, <1>6, Untouched
  <2> QED BY <1>1, <1>4, <1>5, <1>6, <2>1, OverStep
<1>7. CASE /\ CallsOK /\ Others(c) /\ call'[c].reply = "none" /\ call'[c].pc = "files"
           /\ entries' = Enable(entries, call'[c].ids, TRUE)
           /\ lock' = c /\ UNCHANGED <<dirty, wire>>
  <2>a. TRUE \in BOOLEAN OBVIOUS
  <2>b. \A flag \in BOOLEAN : entries' = Enable(entries, call'[c].ids, flag) =>
          /\ Registry(entries') /\ DOMAIN entries' = DOMAIN entries
          /\ Armed(entries') = Armed(entries)
          /\ \A e \in DOMAIN entries :
               /\ entries'[e].serial = entries[e].serial
               /\ entries'[e].file = entries[e].file /\ entries'[e].line = entries[e].line
    BY <1>3, EnableIs
  <2>1. /\ Registry(entries') /\ DOMAIN entries' = DOMAIN entries
        /\ Armed(entries') = Armed(entries)
        /\ \A e \in DOMAIN entries :
             /\ entries'[e].serial = entries[e].serial
             /\ entries'[e].file = entries[e].file /\ entries'[e].line = entries[e].line
    BY <1>7, <2>a, <2>b, Zenon
  <2>2. Stored(c) BY <1>1, <1>2, <2>1 DEF Stored, Typed
  <2>3. Registered(c) BY <2>1, NoneArmed DEF Armed
  <2>4. wire \in Seq(Toggles) /\ dirty \subseteq Files BY DEF Typed
  <2>5. Step(c) BY <1>1, <1>7, <2>2, <2>4 DEF Step, Arming, Final
  <2>6. Handled(c)
    <3>1. Hand(call'[c]) = {} BY <1>7, NoHand
    <3> QED BY <3>1 DEF Handled
  <2>7. Wired(c) BY <1>4, <1>5, <1>7 DEF Wired
  <2>8. Marked(c) BY <1>4, <1>7 DEF Marked, Reconciling
  <2> QED BY <2>3, <2>5, <2>6, <2>7, <2>8 DEF Kind
<1> QED BY <1>1, <1>6, <1>7

LEMMA EnableListsKind ==
  ASSUME Typed, Locking, StagesOK, ProverOK, Bound, NEW c \in Calls, EnableLists(c) PROVE Kind(c)
<1>1. /\ World /\ UNCHANGED <<born, stale>>
      /\ call[c].pc = "files" /\ lock = c
      /\ \E f \in call[c].paths : \E out, es, plan, known :
              /\ Demoting(es, out)
              /\ Plan(c, f, out, plan)
              /\ unsure \subseteq known /\ known \subseteq Serials
              /\ ArmsNext(c, es, plan, call[c].paths \ {f}, known)
  BY EnableListsDoes
<1>2. PICK f, out, es, plan, known :
              /\ f \in call[c].paths
              /\ Demoting(es, out)
              /\ Plan(c, f, out, plan)
              /\ unsure \subseteq known /\ known \subseteq Serials
              /\ ArmsNext(c, es, plan, call[c].paths \ {f}, known)
  BY <1>1
<1>3. CallOK(call[c]) /\ call[c] \in CallRecords /\ stale \subseteq Serials BY DEF Typed
<1>4. f \in Files /\ call[c].pc \in Arming /\ call[c].reply = "none"
  BY <1>1, <1>2, <1>3 DEF CallRecords, CallOK, Switching, Arming
<1>5. unsure' = known BY <1>2 DEF ArmsNext
<1>6. Vouches(c) /\ unsure' \subseteq Serials BY <1>2, <1>4, <1>5 DEF Vouches
<1>7. \A p \in plan : p.site \in Listing(f) /\ p.site.ready BY <1>2 DEF Plan
<1>8. Registry(es) /\ DOMAIN es = DOMAIN entries BY <1>2 DEF Demoting
<1>9. \A e \in Armed(es) : /\ e \in Armed(entries) /\ es[e].serial = entries[e].serial
                           /\ es[e].file = entries[e].file /\ es[e].line = entries[e].line
  BY <1>2 DEF Demoting, Armed
<1>10. stale \subseteq stale' /\ stale' \subseteq Serials /\ born' = born BY <1>1, <1>3
<1>11. call[c].reply # "wait" BY <1>4
<1> QED BY <1>1, <1>2, <1>4, <1>6, <1>7, <1>8, <1>9, <1>10, <1>11, ArmsNextKind

LEMMA EnableAnsweredKind ==
  ASSUME Typed, Locking, StagesOK, NEW c \in Calls, EnableAnswered(c) PROVE Kind(c)
<1> DEFINE r == call[c]
           gone == IF r.reply = "ok" THEN Late(r.site) ELSE {}
<1>1. /\ World /\ born' = born
      /\ r.pc = "on" /\ lock = c /\ r.reply \in Final \cup {"failed"}
      /\ stale' = stale \cup gone
      /\ \E i \in r.ids : \E es :
              /\ r.marks = {i} /\ i \in DOMAIN entries
              /\ IF r.reply = "ok"
                 THEN /\ Registry(es) /\ DOMAIN es = DOMAIN entries
                      /\ \A e \in DOMAIN entries \ {i} : es[e] = entries[e]
                      /\ es[i].state = "armed" /\ es[i].serial = r.site.serial
                      /\ es[i].file = entries[i].file /\ es[i].line = r.site.line
                      /\ es[i].enabled = entries[i].enabled
                 ELSE /\ Demoting(es, {i}) /\ (r.reply = "failed" => es[i].reason = WireFailure)
              /\ ArmsNext(c, es, r.plan, r.paths, Vouched(r.cur, r.reply) \cup gone)
  BY EnableAnsweredDoes
<1>2. PICK i, es :
              /\ i \in r.ids
              /\ r.marks = {i} /\ i \in DOMAIN entries
              /\ IF r.reply = "ok"
                 THEN /\ Registry(es) /\ DOMAIN es = DOMAIN entries
                      /\ \A e \in DOMAIN entries \ {i} : es[e] = entries[e]
                      /\ es[i].serial = r.site.serial
                      /\ es[i].file = entries[i].file /\ es[i].line = r.site.line
                 ELSE Demoting(es, {i})
              /\ ArmsNext(c, es, r.plan, r.paths, Vouched(r.cur, r.reply) \cup gone)
  BY <1>1
<1>3. CallOK(r) /\ r \in CallRecords /\ stale \subseteq Serials BY DEF Typed
<1>4. r.site \in SiteRecords /\ r.plan \subseteq Plans /\ r.cur \in Serials
  BY <1>1, <1>3 DEF CallOK, Switching
<1>5. Late(r.site) \subseteq {r.site.serial} /\ r.site.serial \in Serials
  BY <1>4 DEF Late, SiteRecords
<1>6. gone \in SUBSET Serials BY <1>5
<1>7. r.site.serial \in stale' \/ (r.site.serial \in DOMAIN sites /\ r.site.life = life) \/ r.reply # "ok"
  BY <1>1 DEF Late
<1>8. Planning(c) BY <1>1 DEF StagesOK, Stage
<1>9. entries[i].file = r.site.file
  <2> DEFINE p == [id |-> i, site |-> r.site]
  <2>1. p \in Pairs(r) BY <1>2 DEF Pairs
  <2>2. entries[p.id].file = p.site.file BY <1>8, <2>1 DEF Planning
  <2> QED BY <2>2
<1>10. unsure' = Vouched(r.cur, r.reply) \cup gone BY <1>2 DEF ArmsNext
<1>11. Vouches(c) /\ unsure' \subseteq Serials /\ call[c].reply # "wait"
  <2> DEFINE s == r.cur
  <2>1. s \in Serials /\ s = call[c].cur /\ unsure' = Vouched(s, call[c].reply) \cup gone
    BY <1>4, <1>10
  <2>2. call[c].reply \in Final \cup {"failed"} BY <1>1
  <2> HIDE DEF s, gone, r
  <2> QED BY <1>6, <2>1, <2>2, VouchedIs
<1>12. Registry(es) /\ DOMAIN es = DOMAIN entries BY <1>2 DEF Demoting
<1>13. ASSUME NEW e \in Armed(es)
       PROVE  \/ /\ e \in Armed(entries) /\ es[e].serial = entries[e].serial
                 /\ es[e].file = entries[e].file /\ es[e].line = entries[e].line
              \/ /\ call[c].pc = "on" /\ es[e].serial = call[c].site.serial
                 /\ es[e].file = call[c].site.file /\ es[e].line = call[c].site.line
                 /\ \/ call[c].site.serial \in stale'
                    \/ call[c].site.serial \in DOMAIN sites /\ call[c].site.life = life
  <2>1. CASE r.reply = "ok"
    <3>1. CASE e = i BY <1>1, <1>2, <1>7, <1>9, <2>1, <3>1
    <3>2. CASE e # i
      <4>1. e \in DOMAIN entries BY <1>12 DEF Armed
      <4>2. es[e] = entries[e] BY <1>2, <2>1, <3>2, <4>1
      <4> QED BY <4>1, <4>2 DEF Armed
    <3> QED BY <3>1, <3>2
  <2>2. CASE r.reply # "ok"
    <3>1. Demoting(es, {i}) BY <1>2, <2>2
    <3> QED BY <3>1 DEF Demoting, Armed
  <2> QED BY <2>1, <2>2
<1>14. \A p \in r.plan : p.site \in Hand(call[c]) BY <1>1 DEF Hand
<1>15. stale \subseteq stale' /\ stale' \subseteq Serials /\ call[c].pc \in Arming
  BY <1>1, <1>3, <1>6 DEF Arming
<1>16. PICK plan, paths, known : /\ ArmsNext(c, es, plan, paths, known)
                                 /\ \A p \in plan : p.site \in Hand(call[c])
  BY <1>2, <1>14
<1> HIDE DEF r, gone
<1> QED BY <1>1, <1>11, <1>12, <1>13, <1>15, <1>16, ArmsNextKind

LEMMA ReconcileTargetsKind ==
  ASSUME Typed, Locking, NEW c \in Calls, ReconcileTargets(c) PROVE Kind(c)
<1>1. /\ World /\ UNCHANGED <<entries, born, histVars>>
      /\ call[c].pc = "targets" /\ Quiet(c) /\ call'[c].pc \in {"idle", "verify"}
      /\ \A f \in call[c].paths : Leads(call[c].marks, f) =>
              call'[c].pc = "verify" /\ f \in call'[c].paths /\ f \in call'[c].marks
  BY ReconcileTargetsDoes
<1>2. unsure \subseteq unsure' BY <1>1 DEF histVars
<1>3. /\ Stored(c) /\ Registered(c) BY <1>1, Untouched
<1>4. CallOK(call[c]) BY DEF Typed
<1>5. call[c].pc \notin Switching \cup Arming /\ call[c].reply = "none"
  BY <1>1, <1>4 DEF CallOK, Switching, Arming
<1>6. lock # c BY <1>5 DEF Locking
<1>7. Vouches(c) BY <1>2, <1>5 DEF Vouches
<1>8. Marked(c) BY <1>1 DEF Marked, Quiet
<1>9. call'[c].pc \notin Switching \cup Arming BY <1>1 DEF Switching, Arming
<1> QED BY <1>1, <1>3, <1>5, <1>6, <1>7, <1>8, <1>9, QuietStep

LEMMA ReconcileVerifiesKind ==
  ASSUME Typed, Locking, ProverOK, Bound, NEW c \in Calls, ReconcileVerifies(c) PROVE Kind(c)
<1>1. /\ World /\ UNCHANGED <<born, doubled, stale>>
      /\ call[c].pc = "verify" /\ lock = Nobody /\ Quiet(c)
      /\ call'[c].pc \in {"idle", "verify"}
      /\ unsure \subseteq unsure' /\ unsure' \subseteq Serials
      /\ \E out : Demoting(entries', out)
      /\ \E f \in call[c].paths :
              /\ \A e \in Armed(entries') : entries'[e].file = f => entries'[e].serial \in DOMAIN sites
              /\ \A g \in call[c].paths \ {f} :
                   /\ call'[c].pc = "verify" /\ g \in call'[c].paths
                   /\ g \in call[c].marks => g \in call'[c].marks
  BY ReconcileVerifiesDoes
<1>2. PICK out : Demoting(entries', out) BY <1>1
<1>3. Registered(c) BY <1>2, NoneArmed DEF Demoting, Armed
<1>4. Stored(c) BY <1>1, <1>2 DEF Stored, Typed, Demoting
<1>5. CallOK(call[c]) BY DEF Typed
<1>6. call[c].pc \notin Switching \cup Arming /\ call[c].reply = "none"
  BY <1>1, <1>5 DEF CallOK, Switching, Arming
<1>7. lock # c BY <1>6 DEF Locking
<1>8. Vouches(c) BY <1>1, <1>6 DEF Vouches
<1>9. Marked(c) BY <1>1 DEF Marked, Quiet
<1>10. call'[c].pc \notin Switching \cup Arming BY <1>1 DEF Switching, Arming
<1> QED BY <1>1, <1>3, <1>4, <1>6, <1>7, <1>8, <1>9, <1>10, QuietStep

LEMMA ToggleFailsKind ==
  ASSUME Typed, Locking, NEW c \in Calls, ToggleFails(c) PROVE Kind(c)
<1>1. /\ World /\ UNCHANGED <<entries, born, histVars, lock, dirty>>
      /\ call[c].reply = "wait" /\ lock = c /\ call[c].pc \in Switching
      /\ Orphan(c) /\ CallsOK /\ Others(c)
      /\ call'[c].reply = "failed" /\ call'[c].pc = call[c].pc
      /\ call'[c].plan = call[c].plan /\ call'[c].site = call[c].site
      /\ call'[c].cur = call[c].cur
  BY ToggleFailsDoes
<1>2. Stored(c) /\ Registered(c) BY <1>1, Untouched
<1>3. unsure' = unsure /\ dirty \subseteq Files BY <1>1 DEF histVars, Typed
<1>4. Step(c) BY <1>1, <1>2, <1>3 DEF Step, Orphan, Final
<1>5. Handled(c) BY <1>1 DEF Handled, Hand
<1>6. Wired(c) BY <1>1, <1>3 DEF Wired
<1>7. Marked(c) BY <1>1 DEF Marked, Switching
<1> QED BY <1>2, <1>4, <1>5, <1>6, <1>7 DEF Kind

LEMMA CutKind ==
  ASSUME Typed, Locking, NEW c \in Calls, Cut(c) PROVE Kind(c)
<1>1. /\ World /\ UNCHANGED <<entries, born, stale>>
      /\ Orphan(c) /\ CallsOK /\ Others(c) /\ call'[c] = Idle
      /\ lock' = (IF lock = c THEN Nobody ELSE lock)
      /\ dirty' = dirty \cup (IF call[c].op = "reconcile" THEN call[c].marks ELSE {})
      /\ dirty' \subseteq Files
      /\ doubled' = (IF lock = c THEN doubled \cup Twins(entries) ELSE doubled)
      /\ unsure' \subseteq Serials
      /\ IF lock = c
         THEN unsure \subseteq unsure' /\ (call[c].cur # 0 => call[c].cur \in unsure')
         ELSE unsure' = unsure
  BY CutDoes
<1>2. Registry(entries) /\ CallOK(call[c]) BY DEF Typed
<1>3. Twins(entries) \subseteq Serials BY <1>2, TwinsTyped
<1>4. Stored(c) BY <1>1, <1>3 DEF Stored, Typed, histVars
<1>5. Registered(c) BY <1>1 DEF Registered, Kept
<1>6. call'[c].pc = "idle" /\ call'[c].reply = "none" BY <1>1, IdleIs
<1>7. Step(c)
  <2>1. call'[c].pc \notin Switching \cup Arming BY <1>6 DEF Switching, Arming
  <2>2. lock' # c BY <1>1, CallerOnly
  <2> QED BY <1>1, <1>4, <1>6, <2>1, <2>2 DEF Step, Orphan, Final
<1>8. Handled(c)
  <2>1. Hand(call'[c]) = {} BY <1>6, NoHand
  <2> QED BY <2>1 DEF Handled
<1>9. call[c].reply # "none" => call[c].cur \in unsure'
  <2>1. SUFFICES ASSUME call[c].reply # "none" PROVE call[c].cur \in unsure' OBVIOUS
  <2>2. call[c].pc \in Switching /\ call[c].cur \in Serials BY <1>2, <2>1 DEF CallOK
  <2>3. lock = c BY <2>2 DEF Locking
  <2>4. call[c].cur # 0 BY <2>2 DEF Serials
  <2> QED BY <1>1, <2>3, <2>4
<1>10. Wired(c) BY <1>1, <1>6, <1>9 DEF Wired
<1>11. Marked(c)
  <2>1. call[c].pc \in Reconciling => call[c].marks \subseteq dirty' BY <1>1, <1>2 DEF CallOK
  <2> QED BY <1>1, <2>1 DEF Marked, Reconciling, Leads
<1> QED BY <1>5, <1>7, <1>8, <1>10, <1>11 DEF Kind

\* A step of a call, whichever it is.
LEMMA ToolKind ==
  ASSUME Typed, Locking, StagesOK, ProverOK, Bound, NEW c \in Calls, Tool(c)
  PROVE  Kind(c)
BY OtherToolKind, SetListsKind, SetAnsweredKind, SetAbandonedKind, DeleteStartsKind,
   DeleteAnsweredKind, DisableStartsKind, DisableAnsweredKind, EnableCollectsKind,
   EnableReopensKind, EnableFlagsKind, EnableListsKind, EnableAnsweredKind,
   ReconcileTargetsKind, ReconcileVerifiesKind, ToggleFailsKind, CutKind
   DEF Tool
-----------------------------------------------------------------------------
(* What follows from that alone.                                           *)

LEMMA ToolTyped == ASSUME Typed, NEW c \in Calls, Step(c) PROVE Typed'
BY DEF Typed, Step, Stored, World, reportVars, CallsOK

LEMMA ToolLocking == ASSUME Typed, Locking, NEW c \in Calls, Step(c) PROVE Locking'
<1>1. SUFFICES ASSUME NEW d \in Calls
               PROVE  call'[d].pc \in Switching \cup Arming <=> lock' = d
  BY DEF Locking
<1>2. CASE d = c BY <1>2 DEF Step
<1>3. CASE d # c
  <2>1. call'[d] = call[d] BY <1>3 DEF Step, Others
  <2>2. call[d].pc \in Switching \cup Arming <=> lock = d BY DEF Locking
  <2>3. lock = d <=> lock' = d BY <1>3, CallerOnly DEF Step
  <2> QED BY <2>1, <2>2, <2>3
<1> QED BY <1>2, <1>3

\* Without a process nothing is put on the wire.
LEMMA NoWire ==
  ASSUME NEW c \in Calls, Wired(c), prover = "none", wire = <<>>
  PROVE  wire' = <<>>
BY DEF Wired, Sent, Orphan

LEMMA ToolProverOK == ASSUME Typed, ProverOK, NEW c \in Calls, Kind(c) PROVE ProverOK'
<1>1. World BY DEF Kind, Step
<1>2. prover' = "none" => DOMAIN sites' = {} /\ wire' = <<>> /\ serials' = 0
  BY <1>1, NoWire DEF World, ProverOK, Kind
<1> QED BY <1>1, <1>2 DEF World, ProverOK

LEMMA HandHolds == ASSUME Locking, NEW d \in Calls, Hand(call[d]) # {} PROVE lock = d
<1>1. call[d].pc \in {"arming", "abandon", "on"} BY NoHand
<1> QED BY <1>1 DEF Locking, Switching

LEMMA ToolBound ==
  ASSUME Typed, Bound, HandsOK, NEW c \in Calls, Kind(c) PROVE Bound'
<1>1. World /\ stale \subseteq stale' /\ Registered(c) BY DEF Kind, Step, Stored
<1>2. SUFFICES ASSUME NEW e \in Armed(entries'), entries'[e].serial \notin stale'
               PROVE  /\ entries'[e].serial <= serials
                      /\ entries'[e].serial \in DOMAIN sites => Fits(entries'[e], entries'[e].serial)
  <2>1. ASSUME NEW x, NEW n PROVE Fits(x, n)' <=> Fits(x', n') BY <1>1 DEF Fits, World
  <2> QED BY <1>1, <2>1 DEF Bound, World, Fits
<1>3. CASE Kept(e) BY <1>1, <1>2, <1>3 DEF Kept, Bound, Fits
<1>4. CASE Fresh(c, e)
  <2> DEFINE x == call[c].site
  <2>1. /\ x.serial \in DOMAIN sites /\ x.life = life
        /\ entries'[e].serial = x.serial /\ entries'[e].file = x.file /\ entries'[e].line = x.line
    BY <1>2, <1>4 DEF Fresh
  <2>2. x \in Hand(call[c]) BY <1>4 DEF Fresh, Hand
  <2>3. Fits(x, x.serial) BY <2>1, <2>2 DEF HandsOK
  <2>4. x.serial <= serials BY <2>1 DEF Typed
  <2> QED BY <2>1, <2>3, <2>4 DEF Fits
<1> QED BY <1>1, <1>3, <1>4 DEF Registered

LEMMA ToolHandsOK ==
  ASSUME Typed, Locking, ProverOK, HandsOK, NEW c \in Calls, Kind(c), Bound', Typed'
  PROVE  HandsOK'
<1>1. World /\ Others(c) /\ stale \subseteq stale' /\ Registered(c) BY DEF Kind, Step, Stored
<1>2. ASSUME NEW d \in Calls, NEW x \in Hand(call'[d]), Hand(call'[d]) \subseteq Hand(call[d])
      PROVE  /\ x.life <= life
             /\ x.life = life /\ prover # "none" => x.serial <= serials
             /\ x.life = life /\ x.serial \in DOMAIN sites => Fits(x, x.serial)
             /\ \A y \in Hand(call'[d]) : x.file = y.file /\ (x.line = y.line => x.serial = y.serial)
             /\ Agrees(x)'
  <2>1. x \in Hand(call[d]) BY <1>2
  <2>2. /\ x.life <= life
        /\ x.life = life /\ prover # "none" => x.serial <= serials
        /\ x.life = life /\ x.serial \in DOMAIN sites => Fits(x, x.serial)
        /\ \A y \in Hand(call[d]) : x.file = y.file /\ (x.line = y.line => x.serial = y.serial)
        /\ Agrees(x)
    BY <2>1 DEF HandsOK
  <2>3. Agrees(x)'
    <3>1. SUFFICES ASSUME NEW e \in Armed(entries'), entries'[e].serial \in DOMAIN sites \ stale',
                          entries'[e].file = x.file, entries'[e].line = x.line
                   PROVE  entries'[e].serial = x.serial
      BY <1>1 DEF Agrees, World
    <3>2. CASE Kept(e) BY <3>1, <3>2, <1>1, <2>2 DEF Kept, Agrees
    <3>3. CASE Fresh(c, e)
      <4>1. d = c BY <2>1, <3>3, HandHolds DEF Fresh
      <4>2. call[c].site \in Hand(call[d]) BY <3>3, <4>1 DEF Fresh, Hand
      <4>3. x.line = call[c].site.line /\ entries'[e].serial = call[c].site.serial
        BY <3>1, <3>3 DEF Fresh
      <4> QED BY <2>2, <4>2, <4>3
    <3> QED BY <3>2, <3>3, <1>1 DEF Registered
  <2> QED BY <1>2, <2>2, <2>3
<1>3. ASSUME NEW f \in Files, \A x \in Hand(call'[c]) : x \in Listing(f) /\ x.ready,
             NEW x \in Hand(call'[c])
      PROVE  /\ x.life <= life
             /\ x.life = life /\ prover # "none" => x.serial <= serials
             /\ x.life = life /\ x.serial \in DOMAIN sites => Fits(x, x.serial)
             /\ \A y \in Hand(call'[c]) : x.file = y.file /\ (x.line = y.line => x.serial = y.serial)
             /\ Agrees(x)'
  <2>1. \A y \in Hand(call'[c]) :
          /\ y.file = f /\ y.life = life /\ y.serial \in DOMAIN sites
          /\ FileOf[sites[y.serial].stmt] = f
          /\ y.line = at[sites[y.serial].stmt] /\ y.ready = sites[y.serial].ready /\ y.ready
    BY <1>3, ListingIs
  <2>2. life \in Nat /\ \A n \in DOMAIN sites : n <= serials /\ sites[n] \in LiveSites BY DEF Typed
  <2>3. \A m, n \in DOMAIN sites :
          FileOf[sites[m].stmt] = FileOf[sites[n].stmt] /\ at[sites[m].stmt] = at[sites[n].stmt]
          => m = n
    <3> TAKE m, n \in DOMAIN sites
    <3>1. sites[m].stmt \in Stmts /\ sites[n].stmt \in Stmts BY <2>2 DEF LiveSites
    <3>2. HAVE FileOf[sites[m].stmt] = FileOf[sites[n].stmt] /\ at[sites[m].stmt] = at[sites[n].stmt]
    <3>3. sites[m].stmt = sites[n].stmt BY <3>1, <3>2 DEF ProverOK
    <3> QED BY <3>3 DEF ProverOK
  <2>4. Fits(x, x.serial) BY <2>1 DEF Fits
  <2>5. \A y \in Hand(call'[c]) : x.file = y.file /\ (x.line = y.line => x.serial = y.serial)
    BY <2>1, <2>3
  <2>6. Agrees(x)'
    <3>1. SUFFICES ASSUME NEW e \in Armed(entries'), entries'[e].serial \in DOMAIN sites \ stale',
                          entries'[e].file = x.file, entries'[e].line = x.line
                   PROVE  entries'[e].serial = x.serial
      BY <1>1 DEF Agrees, World
    <3>2. /\ entries'[e].file = FileOf[sites[entries'[e].serial].stmt]
          /\ entries'[e].line = at[sites[entries'[e].serial].stmt]
      BY <1>1, <3>1 DEF Bound, Fits, World
    <3>3. /\ x.file = FileOf[sites[x.serial].stmt] /\ x.line = at[sites[x.serial].stmt]
          /\ x.serial \in DOMAIN sites
      BY <2>1
    <3> QED BY <2>3, <3>1, <3>2, <3>3
  <2> QED BY <2>1, <2>2, <2>4, <2>5, <2>6
<1>4. SUFFICES ASSUME NEW d \in Calls, NEW x \in Hand(call'[d])
               PROVE  /\ x.life <= life
                      /\ x.life = life /\ prover # "none" => x.serial <= serials
                      /\ x.life = life /\ x.serial \in DOMAIN sites => Fits(x, x.serial)
                      /\ \A y \in Hand(call'[d]) : x.file = y.file /\ (x.line = y.line => x.serial = y.serial)
                      /\ Agrees(x)'
  BY <1>1 DEF HandsOK, Hand, World, Fits
<1>5. CASE d # c
  <2>1. Hand(call'[d]) \subseteq Hand(call[d]) BY <1>1, <1>5 DEF Others
  <2> QED BY <1>2, <1>4, <2>1
<1>6. CASE d = c BY <1>2, <1>3, <1>4, <1>6 DEF Kind, Handled
<1> QED BY <1>5, <1>6

LEMMA ToolWireOK ==
  ASSUME Typed, Locking, ProverOK, RepliesOK, WireOK, NEW c \in Calls, Kind(c)
  PROVE  WireOK'
<1>1. Others(c) /\ Wired(c) /\ World BY DEF Kind, Step
<1>2. DOMAIN wire = 1..Len(wire) /\ Len(wire) \in Nat BY DEF Typed
<1>3. ASSUME NEW d \in Calls, call[d].reply = "wait" PROVE lock = d
  <2>1. CallOK(call[d]) BY DEF Typed
  <2>2. call[d].pc \in Switching BY <1>3, <2>1 DEF CallOK
  <2> QED BY <2>2 DEF Locking
<1>4. ASSUME NEW i \in DOMAIN wire, call[c].reply # "wait", Vouches(c)
      PROVE  \/ wire[i].serial \in unsure'
             \/ \E d \in Calls : call'[d].cur = wire[i].serial /\ call'[d].reply \in {"wait", "failed"}
  <2>1. wire # <<>> BY <1>2
  <2>2. call[c].reply # "ok" BY <2>1 DEF RepliesOK, Final
  <2>3. CASE wire[i].serial \in unsure BY <1>4, <2>2, <2>3 DEF Vouches
  <2>4. CASE \E d \in Calls : call[d].cur = wire[i].serial /\ call[d].reply \in {"wait", "failed"}
    <3>1. PICK d \in Calls : call[d].cur = wire[i].serial /\ call[d].reply \in {"wait", "failed"}
      BY <2>4
    <3>2. CASE d = c BY <1>4, <3>1, <3>2 DEF Vouches
    <3>3. CASE d # c BY <1>1, <3>1, <3>3 DEF Others
    <3> QED BY <3>2, <3>3
  <2> QED BY <2>3, <2>4 DEF WireOK
<1>5. ASSUME NEW i \in DOMAIN wire, wire[i].by # Nobody, wire[i].by # c
      PROVE  /\ i = Len(wire) /\ wire[i].by \in Calls /\ lock = wire[i].by
             /\ call'[wire[i].by].reply = "wait" /\ call'[wire[i].by].cur = wire[i].serial
             /\ wire[i].on = (call'[wire[i].by].pc \in SwitchingOn)
  <2>1. wire[i] \in Toggles BY <1>2 DEF Typed
  <2>2. wire[i].by \in Calls BY <2>1, <1>5 DEF Toggles
  <2>3. /\ i = Len(wire) /\ call[wire[i].by].reply = "wait" /\ call[wire[i].by].cur = wire[i].serial
        /\ wire[i].on = (call[wire[i].by].pc \in SwitchingOn)
    BY <1>5 DEF WireOK
  <2>4. call'[wire[i].by] = call[wire[i].by] BY <1>1, <1>5, <2>2 DEF Others
  <2> QED BY <1>3, <2>2, <2>3, <2>4
<1>6. ASSUME NEW i \in DOMAIN wire, wire[i].by = c PROVE call[c].reply = "wait"
  BY <1>6, CallerOnly DEF WireOK
<1>7. CASE wire' = wire /\ call[c].reply # "wait" /\ Vouches(c)
  <2>1. SUFFICES ASSUME NEW i \in DOMAIN wire
                 PROVE  /\ \/ wire[i].serial \in unsure'
                           \/ \E d \in Calls : call'[d].cur = wire[i].serial /\ call'[d].reply \in {"wait", "failed"}
                        /\ wire[i].by # Nobody =>
                             /\ i = Len(wire)
                             /\ call'[wire[i].by].reply = "wait" /\ call'[wire[i].by].cur = wire[i].serial
                             /\ wire[i].on = (call'[wire[i].by].pc \in SwitchingOn)
    BY <1>7 DEF WireOK
  <2>2. wire[i].by # c BY <1>6, <1>7
  <2> QED BY <1>4, <1>5, <1>7, <2>2
<1>8. CASE /\ \E s \in Serials, on \in BOOLEAN :
                Sent(c, s, on) /\ on = (call'[c].pc \in SwitchingOn)
           /\ lock \in {c, Nobody} /\ call[c].reply # "wait" /\ Vouches(c)
  <2>1. PICK s \in Serials, on \in BOOLEAN : Sent(c, s, on) /\ on = (call'[c].pc \in SwitchingOn)
    BY <1>8
  <2>2. CASE prover = "none"
    <3>1. wire' = <<>> BY <1>1, <2>2, NoWire DEF ProverOK
    <3> QED BY <3>1 DEF WireOK
  <2>3. CASE prover # "none"
    <3>1. /\ Len(wire') = Len(wire) + 1
          /\ \A i \in 1..Len(wire) : wire'[i] = wire[i]
          /\ wire'[Len(wire) + 1] = [serial |-> s, on |-> on, by |-> c]
          /\ call'[c].cur = s /\ call'[c].reply = "wait" /\ wire' \in Seq(Toggles)
      BY <2>1, <2>3 DEF Sent
    <3>2. DOMAIN wire' = 1..(Len(wire) + 1) BY <3>1
    <3>3. SUFFICES ASSUME NEW i \in DOMAIN wire'
                   PROVE  /\ \/ wire'[i].serial \in unsure'
                             \/ \E d \in Calls : call'[d].cur = wire'[i].serial /\ call'[d].reply \in {"wait", "failed"}
                          /\ wire'[i].by # Nobody =>
                               /\ i = Len(wire')
                               /\ call'[wire'[i].by].reply = "wait" /\ call'[wire'[i].by].cur = wire'[i].serial
                               /\ wire'[i].on = (call'[wire'[i].by].pc \in SwitchingOn)
      BY DEF WireOK
    <3>4. CASE i \in DOMAIN wire
      <4>1. wire'[i] = wire[i] BY <1>2, <3>1, <3>4
      <4>2. wire[i].by = Nobody
        <5>1. SUFFICES ASSUME wire[i].by # Nobody PROVE FALSE OBVIOUS
        <5>2. CASE wire[i].by = c BY <1>6, <1>8, <3>4, <5>2
        <5>3. CASE wire[i].by # c BY <1>5, <1>8, <3>4, <5>1, <5>3, CallerOnly
        <5> QED BY <5>2, <5>3
      <4> QED BY <1>4, <1>8, <3>4, <4>1, <4>2
    <3>5. CASE i = Len(wire) + 1
      <4>1. wire'[i].serial = s /\ wire'[i].on = on /\ wire'[i].by = c BY <3>1, <3>5
      <4> QED BY <2>1, <3>1, <3>5, <4>1
    <3> QED BY <1>2, <3>2, <3>4, <3>5
  <2> QED BY <2>2, <2>3
<1>9. ASSUME Orphan(c),
             \A i \in DOMAIN wire : \/ wire[i].serial \in unsure'
                                    \/ \E d \in Calls : call'[d].cur = wire[i].serial /\ call'[d].reply \in {"wait", "failed"}
      PROVE  WireOK'
  <2>1. SUFFICES ASSUME NEW i \in DOMAIN wire'
                   PROVE  /\ \/ wire'[i].serial \in unsure'
                             \/ \E d \in Calls : call'[d].cur = wire'[i].serial /\ call'[d].reply \in {"wait", "failed"}
                          /\ wire'[i].by # Nobody =>
                               /\ i = Len(wire')
                               /\ call'[wire'[i].by].reply = "wait" /\ call'[wire'[i].by].cur = wire'[i].serial
                               /\ wire'[i].on = (call'[wire'[i].by].pc \in SwitchingOn)
    BY DEF WireOK
  <2>2. /\ i \in DOMAIN wire /\ Len(wire') = Len(wire)
        /\ wire'[i].serial = wire[i].serial /\ wire'[i].on = wire[i].on
        /\ wire'[i].by = IF wire[i].by = c THEN Nobody ELSE wire[i].by
    BY <1>9 DEF Orphan
  <2>3. wire'[i].by # Nobody => wire[i].by # Nobody /\ wire[i].by # c /\ wire'[i].by = wire[i].by
    BY <2>2
  <2>4. wire'[i].by # Nobody =>
             /\ i = Len(wire')
             /\ call'[wire'[i].by].reply = "wait" /\ call'[wire'[i].by].cur = wire'[i].serial
             /\ wire'[i].on = (call'[wire'[i].by].pc \in SwitchingOn)
    BY <1>5, <2>2, <2>3
  <2> QED BY <1>9, <2>2, <2>4
<1>10. CASE Orphan(c) /\ call[c].reply = "wait" /\ call'[c].reply = "failed"
            /\ call'[c].cur = call[c].cur /\ unsure' = unsure
  <2>1. ASSUME NEW d \in Calls, call[d].reply \in {"wait", "failed"}
        PROVE  call'[d].cur = call[d].cur /\ call'[d].reply \in {"wait", "failed"}
    BY <1>1, <1>10, <2>1 DEF Others
  <2>2. \A i \in DOMAIN wire :
           \/ wire[i].serial \in unsure'
           \/ \E d \in Calls : call'[d].cur = wire[i].serial /\ call'[d].reply \in {"wait", "failed"}
    BY <1>10, <2>1 DEF WireOK
  <2> QED BY <1>9, <1>10, <2>2
<1>11. CASE Orphan(c) /\ unsure \subseteq unsure' /\ (call[c].reply # "none" => call[c].cur \in unsure')
  <2>2. \A i \in DOMAIN wire :
           \/ wire[i].serial \in unsure'
           \/ \E d \in Calls : call'[d].cur = wire[i].serial /\ call'[d].reply \in {"wait", "failed"}
    <3> TAKE i \in DOMAIN wire
    <3>1. CASE wire[i].serial \in unsure BY <1>11, <3>1
    <3>2. CASE \E d \in Calls : call[d].cur = wire[i].serial /\ call[d].reply \in {"wait", "failed"}
      <4>1. PICK d \in Calls : call[d].cur = wire[i].serial /\ call[d].reply \in {"wait", "failed"}
        BY <3>2
      <4>2. CASE d = c BY <1>11, <4>1, <4>2
      <4>3. CASE d # c BY <1>1, <4>1, <4>3 DEF Others
      <4> QED BY <4>2, <4>3
    <3> QED BY <3>1, <3>2 DEF WireOK
  <2> QED BY <1>9, <1>11, <2>2
<1> QED BY <1>1, <1>7, <1>8, <1>10, <1>11 DEF Wired

\* While another call holds the lock, a step changes neither the registry nor
\* what that call's answer says.
LEMMA ToolRepliesOK ==
  ASSUME Typed, Locking, RepliesOK, NEW c \in Calls, Kind(c)
  PROVE  RepliesOK'
<1>1. World /\ Others(c) /\ Stored(c) /\ call'[c].reply \notin Final /\ Wired(c) BY DEF Kind, Step
<1>2. SUFFICES ASSUME NEW d \in Calls, call'[d].reply \in Final
               PROVE  LET r == call'[d] IN
                      /\ wire' = <<>>
                      /\ r.reply = "ok" =>
                           /\ r.cur <= serials
                           /\ r.cur \in DOMAIN sites => sites[r.cur].on = (r.pc \in SwitchingOn)
                      /\ r.reply \in {"unknown", "unfinished"} /\ r.cur \in DOMAIN sites =>
                           /\ ~sites[r.cur].on
                           /\ r.cur \notin stale' => Carries(entries', r.cur) = {}
  BY <1>1 DEF RepliesOK, World, Carries, Final
<1>3. d # c /\ call'[d] = call[d] BY <1>1, <1>2 DEF Others
<1>4. CallOK(call[d]) BY DEF Typed
<1>5. call[d].pc \in Switching BY <1>2, <1>3, <1>4 DEF CallOK, Final
<1>6. lock = d BY <1>5 DEF Locking
<1>7. entries' = entries /\ stale' = stale BY <1>1, <1>3, <1>6, CallerOnly DEF Stored, histVars
<1>8. wire = <<>> BY <1>2, <1>3 DEF RepliesOK
<1>9. wire' = <<>> BY <1>1, <1>3, <1>6, <1>8, CallerOnly DEF Wired, Orphan
<1> QED BY <1>2, <1>3, <1>7, <1>8, <1>9 DEF RepliesOK, Final

LEMMA ToolReports ==
  ASSUME Reports, NEW c \in Calls, World, stale \subseteq stale', Registered(c)
  PROVE  Reports'
<1>1. UNCHANGED <<prover, sites, serials, due>> BY DEF World, reportVars
<1>2. SUFFICES ASSUME NEW d \in due, NEW e \in Armed(entries'),
                      entries'[e].serial \in d.died \ stale'
               PROVE  Leads({d.file}, entries'[e].file)
  BY <1>1 DEF Reports
<1>3. entries'[e].serial \notin DOMAIN sites BY <1>2 DEF Reports
<1>4. Kept(e) BY <1>2, <1>3 DEF Registered, Fresh
<1> QED BY <1>2, <1>4 DEF Kept, Reports

LEMMA ToolDeaths ==
  ASSUME Typed, Deaths, NEW c \in Calls, Kind(c), Typed'
  PROVE  Deaths'
<1>1. World /\ Others(c) /\ stale \subseteq stale' /\ Registered(c) /\ Marked(c)
  BY DEF Kind, Step, Stored
<1>a. Reports' BY <1>1, ToolReports DEF Deaths
<1>b. due' = due /\ untold' = untold BY <1>1 DEF World, reportVars
<1>2. SUFFICES ASSUME NEW e \in Armed(entries'),
                      entries'[e].serial \notin DOMAIN sites \cup stale' \cup untold
               PROVE  Noticed(e)'
  BY <1>1, <1>a, <1>b DEF Deaths, World
<1>3. Kept(e) BY <1>1, <1>2 DEF Registered, Fresh
<1> DEFINE f == entries[e].file
<1>4. /\ e \in Armed(entries) /\ entries'[e].file = f /\ entries'[e].line = entries[e].line
      /\ entries'[e].serial = entries[e].serial /\ Noticed(e)
  BY <1>1, <1>2, <1>3 DEF Kept, Deaths
<1>5. e \in DOMAIN entries' BY DEF Armed
<1>6. CASE Leads(dirty, f)
  <2>1. CASE dirty \subseteq dirty'
    <3>1. Leads(dirty', f) BY <1>6, <2>1 DEF Leads
    <3> QED BY <1>4, <3>1 DEF Noticed
  <2>2. CASE call'[c] = After(TRUE, entries')
    <3>1. dirty # {} BY <1>6 DEF Leads
    <3>2. Registry(entries') BY DEF Typed
    <3>3. TRUE \in BOOLEAN OBVIOUS
    <3>4. call'[c].pc = "targets" /\ call'[c].marks = dirty /\ call'[c].paths = ArmedFiles(entries')
      BY <2>2, <3>1, <3>2, <3>3, AfterIs
    <3>5. f \in call'[c].paths BY <1>4, <3>4 DEF ArmedFiles
    <3> QED BY <1>4, <1>6, <3>4, <3>5 DEF Noticed
  <2> QED BY <2>1, <2>2, <1>1 DEF Marked
<1>7. CASE prover = "closing" BY <1>1, <1>7 DEF Noticed, World
<1>8. CASE e \in Unloaded(entries, sweep)
  <2>1. e \in Unloaded(entries', sweep) BY <1>4, <1>8 DEF Unloaded
  <2> QED BY <1>1, <2>1 DEF Noticed, World
<1>9. CASE \E d \in Calls :
             /\ f \in call[d].paths
             /\ \/ call[d].pc = "targets" /\ Leads(call[d].marks, f)
                \/ call[d].pc = "verify" /\ f \in call[d].marks
  <2>1. PICK d \in Calls :
             /\ f \in call[d].paths
             /\ \/ call[d].pc = "targets" /\ Leads(call[d].marks, f)
                \/ call[d].pc = "verify" /\ f \in call[d].marks
    BY <1>9
  <2>2. CASE d # c
    <3>1. call'[d] = call[d] BY <1>1, <2>2 DEF Others
    <3> QED BY <1>4, <2>1, <3>1 DEF Noticed
  <2>3. CASE d = c
    <3>1. \/ Leads(dirty', f)
          \/ call'[c].pc = "verify" /\ f \in call'[c].paths /\ f \in call'[c].marks
          \/ \A k \in Armed(entries') : entries'[k].file = f => entries'[k].serial \in DOMAIN sites
      BY <1>1, <2>1, <2>3 DEF Marked
    <3>2. Leads(dirty', f) \/ (call'[c].pc = "verify" /\ f \in call'[c].paths /\ f \in call'[c].marks)
      BY <1>2, <1>4, <3>1
    <3> QED BY <1>4, <3>2 DEF Noticed
  <2> QED BY <2>2, <2>3
<1>10. CASE \E d \in due : entries[e].serial \in d.died BY <1>4, <1>b, <1>10 DEF Noticed
<1> QED BY <1>4, <1>6, <1>7, <1>8, <1>9, <1>10 DEF Noticed
-----------------------------------------------------------------------------
(* What the calls of a step under the lock leave, and the other calls.     *)

\* With the lock free or held by C, only C switches sites.
Calm(c) ==
  /\ \A e, k \in Armed(entries) :
       e # k /\ entries[e].serial = entries[k].serial /\ entries[e].serial \in DOMAIN sites \ stale
       => entries[e].serial \in doubled
  /\ \A n \in Sure : sites[n].on /\ ~Flux(call[c], n) => Carries(entries, n) # {}
  /\ \A e \in Armed(entries) :
       entries[e].serial \in Sure \ doubled /\ ~Flux(call[c], entries[e].serial)
       => sites[entries[e].serial].on = entries[e].enabled
Busy(c) ==
  /\ \A e, k \in Armed(entries) :
       e # k /\ entries[e].serial = entries[k].serial /\ entries[e].serial \in DOMAIN sites \ stale
       => entries[e].serial \in doubled \/ e \in call[c].ids \/ k \in call[c].ids
  /\ \A n \in Sure : sites[n].on /\ ~Flux(call[c], n) => Carries(entries, n) # {}
  /\ \A e \in Armed(entries) :
       entries[e].serial \in Sure /\ ~Flux(call[c], entries[e].serial) =>
         /\ e \in call[c].ids /\ ~Ahead(call[c], e) => sites[entries[e].serial].on
         /\ /\ e \notin call[c].ids /\ entries[e].serial \notin doubled
            /\ \A k \in Armed(entries) \cap call[c].ids : entries[k].serial # entries[e].serial
            => sites[entries[e].serial].on = entries[e].enabled

LEMMA Alone ==
  ASSUME Typed, Locking, NEW c \in Calls, lock \in {c, Nobody}
  PROVE  /\ \A n : InFlux(n) <=> Flux(call[c], n)
         /\ \A e : e \in Enabling <=> e \in DOMAIN entries /\ call[c].pc \in Arming /\ e \in call[c].ids
         /\ \A e : Todo(e) <=> call[c].pc \in Arming /\ e \in call[c].ids /\ Ahead(call[c], e)
<1>1. ASSUME NEW d \in Calls, d # c PROVE call[d].pc \notin Switching \cup Arming /\ call[d].reply = "none"
  <2>1. lock # d BY <1>1, CallerOnly
  <2>2. call[d].pc \notin Switching \cup Arming BY <2>1 DEF Locking
  <2>3. CallOK(call[d]) BY DEF Typed
  <2> QED BY <2>2, <2>3 DEF CallOK
<1>2. \A n : InFlux(n) <=> Flux(call[c], n) BY <1>1 DEF InFlux, Flux, Switching
<1>3. \A e : e \in Enabling <=> e \in DOMAIN entries /\ call[c].pc \in Arming /\ e \in call[c].ids
  BY <1>1 DEF Enabling
<1>4. \A e : Todo(e) <=> call[c].pc \in Arming /\ e \in call[c].ids /\ Ahead(call[c], e)
  BY <1>1 DEF Todo
<1> QED BY <1>2, <1>3, <1>4

Quiescent(c) == OneEach /\ Strays /\ Flags <=> Calm(c)
Engaged(c) == OneEach /\ Strays /\ Flags <=> Busy(c)

LEMMA IsCalm ==
  \A c \in Calls : Typed /\ Locking /\ lock \in {c, Nobody} /\ call[c].pc \notin Arming => Quiescent(c)
<1>1. SUFFICES ASSUME NEW c \in Calls, Typed, Locking, lock \in {c, Nobody}, call[c].pc \notin Arming
               PROVE  Quiescent(c)
  OBVIOUS
<1>2. (\A n : InFlux(n) <=> Flux(call[c], n)) /\ \A e : e \notin Enabling BY <1>1, Alone
<1> HIDE DEF InFlux, Enabling
<1>3. OneEach <=> \A e, k \in Armed(entries) :
       e # k /\ entries[e].serial = entries[k].serial /\ entries[e].serial \in DOMAIN sites \ stale
       => entries[e].serial \in doubled
  BY <1>2 DEF OneEach
<1>4. Strays <=> \A n \in Sure : sites[n].on /\ ~Flux(call[c], n) => Carries(entries, n) # {}
  BY <1>2 DEF Strays
<1>5. Flags <=> \A e \in Armed(entries) :
       entries[e].serial \in Sure \ doubled /\ ~Flux(call[c], entries[e].serial)
       => sites[entries[e].serial].on = entries[e].enabled
  BY <1>2 DEF Flags
<1> QED BY <1>3, <1>4, <1>5 DEF Quiescent, Calm

LEMMA IsBusy ==
  \A c \in Calls : Typed /\ Locking /\ lock = c /\ call[c].pc \in Arming => Engaged(c)
<1>1. SUFFICES ASSUME NEW c \in Calls, Typed, Locking, lock = c, call[c].pc \in Arming
               PROVE  Engaged(c)
  OBVIOUS
<1>2. /\ \A n : InFlux(n) <=> Flux(call[c], n)
      /\ \A e : e \in Enabling <=> e \in DOMAIN entries /\ e \in call[c].ids
      /\ \A e : Todo(e) <=> e \in call[c].ids /\ Ahead(call[c], e)
  BY <1>1, Alone
<1>a. \A e \in Armed(entries) : e \in Enabling <=> e \in call[c].ids BY <1>2 DEF Armed
<1> HIDE DEF InFlux, Enabling, Todo
<1>3. OneEach <=> \A e, k \in Armed(entries) :
       e # k /\ entries[e].serial = entries[k].serial /\ entries[e].serial \in DOMAIN sites \ stale
       => entries[e].serial \in doubled \/ e \in call[c].ids \/ k \in call[c].ids
  BY <1>a DEF OneEach
<1>4. Strays <=> \A n \in Sure : sites[n].on /\ ~Flux(call[c], n) => Carries(entries, n) # {}
  BY <1>2 DEF Strays
<1>5. Flags <=> \A e \in Armed(entries) :
       entries[e].serial \in Sure /\ ~Flux(call[c], entries[e].serial) =>
         /\ e \in call[c].ids /\ ~Ahead(call[c], e) => sites[entries[e].serial].on
         /\ /\ e \notin call[c].ids /\ entries[e].serial \notin doubled
            /\ \A k \in Armed(entries) \cap call[c].ids : entries[k].serial # entries[e].serial
            => sites[entries[e].serial].on = entries[e].enabled
  BY <1>2, <1>a DEF Flags
<1> QED BY <1>3, <1>4, <1>5 DEF Engaged, Busy

LEMMA IsCalmNext ==
  \A c \in Calls : Typed' /\ Locking' /\ lock' \in {c, Nobody} /\ call'[c].pc \notin Arming
    => Quiescent(c)'
<1>1. (\A c \in Calls : Typed /\ Locking /\ lock \in {c, Nobody} /\ call[c].pc \notin Arming => Quiescent(c))'
  BY IsCalm, PTL
<1> QED BY <1>1 DEF Arming

LEMMA IsBusyNext ==
  \A c \in Calls : Typed' /\ Locking' /\ lock' = c /\ call'[c].pc \in Arming => Engaged(c)'
<1>1. (\A c \in Calls : Typed /\ Locking /\ lock = c /\ call[c].pc \in Arming => Engaged(c))'
  BY IsBusy, PTL
<1> QED BY <1>1 DEF Arming
-----------------------------------------------------------------------------
(* The calls a step is not of, and steps that switch nothing.              *)

Picture == OneEach /\ Strays /\ Flags
Upheld(c) == Stage(c)' /\ Picture'

LEMMA StagesOthers ==
  ASSUME Typed, Locking, StagesOK, NEW c \in Calls, Kind(c), NEW d \in Calls \ {c}
  PROVE  Stage(d)'
<1>1. World /\ Others(c) /\ Stored(c) /\ Wired(c) BY DEF Kind, Step
<1>2. call'[d] = call[d] BY <1>1 DEF Others
<1>3. CASE call[d].pc \notin Switching \cup Arming
  BY <1>2, <1>3 DEF Stage, Switching, Arming, SwitchingOn
<1>4. CASE call[d].pc \in Switching \cup Arming
  <2>1. lock = d /\ lock \notin {c, Nobody} BY <1>4, CallerOnly DEF Locking
  <2>2. entries' = entries /\ stale' = stale BY <1>1, <2>1 DEF Stored, histVars
  <2>3. /\ DOMAIN wire' = DOMAIN wire
        /\ \A i \in DOMAIN wire : wire'[i].serial = wire[i].serial /\ (wire'[i].by = d => wire[i].by = d)
    BY <1>1, <2>1, CallerOnly DEF Wired, Orphan
  <2>4. Out(d)' => Out(d) BY <1>2, <2>3 DEF Out
  <2>5. (About(d)' <=> About(d)) /\ (One(d)' <=> One(d)) BY <1>2, <2>2 DEF About, One
  <2>6. Abandoning(d) => Abandoning(d)'
    BY <1>1, <1>2, <2>2, <2>3, <2>4, <2>5 DEF Abandoning, World
  <2>7. Enabled(d) => Enabled(d)' BY <1>2, <2>2 DEF Enabled
  <2>8. Planning(d) => Planning(d)' BY <1>1, <1>2, <2>2 DEF Planning, World
  <2>9. Stage(d) BY DEF StagesOK
  <2> QED BY <1>2, <2>2, <2>4, <2>5, <2>6, <2>7, <2>8, <2>9 DEF Stage
<1> QED BY <1>3, <1>4

LEMMA NoStage ==
  ASSUME NEW c \in Calls, call'[c].pc \notin Switching \cup Arming
  PROVE  Stage(c)'
BY DEF Stage, Switching, Arming, SwitchingOn

\* A step of a call without the lock that leaves the registry alone.
LEMMA Elsewhere ==
  ASSUME Typed, Typed', Locking, Locking', Picture, NEW c \in Calls, World, Others(c),
         UNCHANGED <<entries, histVars>>, lock # c, lock' # c
  PROVE  Upheld(c)
<1>1. call[c].pc \notin Switching \cup Arming /\ call'[c].pc \notin Switching \cup Arming
  BY DEF Locking
<1>2. CallOK(call[c]) /\ CallOK(call'[c]) BY DEF Typed
<1>3. call[c].reply = "none" /\ call'[c].reply = "none" BY <1>1, <1>2 DEF CallOK
<1>4. \A n : InFlux(n)' <=> InFlux(n)
  <2>1. ASSUME NEW n, NEW d \in Calls PROVE Flux(call'[d], n) <=> Flux(call[d], n)
    <3>1. CASE d = c BY <1>1, <1>3, <3>1 DEF Flux, Switching
    <3>2. CASE d # c BY <3>2 DEF Others
    <3> QED BY <3>1, <3>2
  <2> QED BY <2>1 DEF InFlux
<1>5. \A d \in Calls : call'[d].pc \in Arming => call'[d] = call[d]
  BY <1>1 DEF Others
<1>6. \A d \in Calls : call[d].pc \in Arming => call'[d] = call[d]
  BY <1>1 DEF Others
<1>7. Enabling' = Enabling BY <1>5, <1>6 DEF Enabling
<1>8. \A e : Todo(e)' <=> Todo(e) BY <1>5, <1>6 DEF Todo, Ahead
<1>9. Sure' = Sure BY DEF Sure, World, histVars
<1> HIDE DEF InFlux, Enabling, Todo, Sure
<1>10. UNCHANGED <<sites, entries, doubled, stale>> BY DEF World, histVars
<1>11. OneEach' BY <1>7, <1>10 DEF OneEach, Picture
<1>12. Strays' BY <1>4, <1>9, <1>10 DEF Strays, Picture
<1>13. Flags' BY <1>4, <1>7, <1>8, <1>9, <1>10 DEF Flags, Picture
<1> QED BY <1>1, <1>11, <1>12, <1>13, NoStage DEF Upheld, Picture

\* The picture a call with the lock, or none, starts from and leaves.
LEMMA StartsCalm ==
  ASSUME Typed, Locking, Picture, NEW c \in Calls, lock \in {c, Nobody}, call[c].pc \notin Arming
  PROVE  Calm(c)
BY IsCalm DEF Quiescent, Picture

LEMMA StartsBusy ==
  ASSUME Typed, Locking, Picture, NEW c \in Calls, lock = c, call[c].pc \in Arming
  PROVE  Busy(c)
BY IsBusy DEF Engaged, Picture

LEMMA EndsCalm ==
  ASSUME Typed', Locking', NEW c \in Calls, lock' \in {c, Nobody}, call'[c].pc \notin Arming,
         Stage(c)', Calm(c)'
  PROVE  Upheld(c)
<1>1. Quiescent(c)' BY IsCalmNext
<1>2. Picture' BY <1>1 DEF Quiescent, Picture
<1> QED BY <1>2 DEF Upheld

LEMMA EndsBusy ==
  ASSUME Typed', Locking', NEW c \in Calls, lock' = c, call'[c].pc \in Arming, Stage(c)', Busy(c)'
  PROVE  Upheld(c)
<1>1. Engaged(c)' BY IsBusyNext
<1>2. Picture' BY <1>1 DEF Engaged, Picture
<1> QED BY <1>2 DEF Upheld

\* The picture ES is, once the step has taken its answer into account.
Even(es) ==
  /\ \A e, k \in Armed(es) :
       e # k /\ es[e].serial = es[k].serial /\ es[e].serial \in DOMAIN sites \ stale'
       => es[e].serial \in doubled
  /\ \A n \in DOMAIN sites \ (unsure' \cup stale') : sites[n].on => Carries(es, n) # {}
  /\ \A e \in Armed(es) :
       es[e].serial \in DOMAIN sites \ (unsure' \cup stale') /\ es[e].serial \notin doubled
       => sites[es[e].serial].on = es[e].enabled

LEMMA EvenIsCalm ==
  ASSUME NEW c \in Calls, World, doubled' = doubled, Even(entries')
  PROVE  Calm(c)'
BY DEF Even, Calm, World, Sure, Carries, Armed

\* A call that held no site is as even as it found the registry.
LEMMA StartsEven ==
  ASSUME Typed, Locking, Picture, NEW c \in Calls, lock = Nobody, call[c].pc = "idle",
         UNCHANGED histVars
  PROVE  Even(entries)
<1>1. call[c].reply = "none" BY DEF Typed, CallOK, Switching
<1>2. call[c].pc \notin Arming /\ \A n : ~Flux(call[c], n) BY <1>1 DEF Arming, Flux
<1>3. Calm(c) BY <1>2, StartsCalm
<1> QED BY <1>2, <1>3 DEF Calm, Even, Sure, histVars

\* What an answer says of its site, if anything vouches for it then.
LEMMA AnswerSays ==
  ASSUME Typed, RepliesOK, NEW c \in Calls, call[c].reply \in Final \cup {"failed"},
         call[c].cur \in Serials, NEW more \in SUBSET Serials,
         unsure' = Vouched(call[c].cur, call[c].reply) \cup more
  PROVE  /\ \A n \in DOMAIN sites \ unsure' : n # call[c].cur => n \notin unsure
         /\ call[c].cur \in DOMAIN sites \ unsure' =>
              /\ call[c].reply \in Final
              /\ call[c].reply = "ok" => sites[call[c].cur].on = (call[c].pc \in SwitchingOn)
              /\ call[c].reply # "ok" =>
                   /\ ~sites[call[c].cur].on
                   /\ call[c].cur \notin stale => Carries(entries, call[c].cur) = {}
<1> DEFINE s == call[c].cur
<1>1. s \in Serials OBVIOUS
<1>2. DOMAIN sites \subseteq Serials BY Bounds DEF Typed, Serials
<1> HIDE DEF s
<1>3. s = call[c].cur BY DEF s
<1>4. unsure' = Vouched(s, call[c].reply) \cup more BY <1>3
<1>5. /\ \A n \in Serials \ unsure' : n = s \/ n \notin unsure
      /\ s \notin unsure' => call[c].reply \in Final
  BY <1>1, <1>3, <1>4, VouchedIs
<1> QED BY <1>2, <1>3, <1>5 DEF RepliesOK, Final
-----------------------------------------------------------------------------
(* Other tools, and set_breakpoint.                                        *)

LEMMA OtherToolUpheld ==
  ASSUME Typed, Typed', Locking, Locking', Picture, NEW c \in Calls, OtherTool(c)
  PROVE  Upheld(c)
<1>1. World /\ UNCHANGED <<entries, histVars>> /\ call[c].pc = "idle" /\ Over(c, TRUE) BY OtherToolDoes
<1>2. lock # c /\ lock' # c /\ Others(c) BY <1>1 DEF Locking, Switching, Arming, Over
<1> QED BY <1>1, <1>2, Elsewhere

LEMMA SetListsUpheld ==
  ASSUME Typed, Typed', Locking, Locking', Picture, NEW c \in Calls, SetLists(c)
  PROVE  Upheld(c)
<1>1. /\ World /\ UNCHANGED <<entries, histVars>> /\ call[c].pc = "idle" /\ lock = Nobody
      /\ \/ Over(c, FALSE)
         \/ \E f \in Files : \E x \in Listing(f) :
              /\ Sent(c, x.serial, TRUE) /\ call'[c].pc = "arming" /\ call'[c].site = x
  BY SetListsDoes
<1>2. CASE Over(c, FALSE)
  <2>1. lock # c /\ lock' # c /\ Others(c) BY <1>1, <1>2, CallerOnly DEF Over
  <2> QED BY <1>1, <2>1, Elsewhere
<1>3. CASE \E f \in Files : \E x \in Listing(f) :
              /\ Sent(c, x.serial, TRUE) /\ call'[c].pc = "arming" /\ call'[c].site = x
  <2>1. lock' = c /\ call'[c].pc = "arming" /\ call'[c].cur = call'[c].site.serial
    BY <1>3 DEF Sent
  <2>2. Stage(c)' BY <2>1 DEF Stage, Arming
  <2>3. Even(entries) /\ entries' = entries BY <1>1, StartsEven
  <2>4. UNCHANGED <<doubled, stale, unsure>> BY <1>1 DEF histVars
  <2>5. Calm(c)' BY <1>1, <2>3, <2>4, EvenIsCalm
  <2>6. call'[c].pc \notin Arming BY <2>1 DEF Arming
  <2> QED BY <2>1, <2>2, <2>5, <2>6, EndsCalm
<1> QED BY <1>1, <1>2, <1>3

\* What is known when the arming of X enters the registry: its site is on, and
\* the entries it takes over are on no other live one.
Ripe(ids, x, known) ==
  /\ x.serial \in DOMAIN sites /\ x.life = life =>
       /\ sites[x.serial].on
       /\ x.serial \notin stale => Carries(entries, x.serial) \subseteq ids
  /\ \A e \in ids \cap Armed(entries) :
       entries[e].serial \in DOMAIN sites \ (known \cup stale) => entries[e].serial = x.serial
  /\ \A e, k \in Armed(entries) :
       e # k /\ entries[e].serial = entries[k].serial /\ entries[e].serial \in DOMAIN sites \ stale
       => entries[e].serial \in doubled
  /\ \A n \in DOMAIN sites \ (known \cup stale) : n # x.serial =>
       /\ sites[n].on => Carries(entries, n) # {}
       /\ \A e \in Armed(entries) :
            entries[e].serial = n /\ n \notin doubled => sites[n].on = entries[e].enabled

LEMMA RecordsEven ==
  ASSUME Typed, NEW c \in Calls, NEW x \in SiteRecords, NEW ids, NEW known,
         Ripe(ids, x, known), Records(c, ids, x, known)
  PROVE  Even(entries')
<1> DEFINE n0 == x.serial
<1>1. PICK a \in DOMAIN entries' :
        /\ entries'[a].state = "armed" /\ entries'[a].serial = n0 /\ entries'[a].enabled
        /\ DOMAIN entries' = (DOMAIN entries \ ids) \cup {a}
  BY DEF Records
<1>2. /\ Registry(entries') /\ unsure' = known \cup Late(x) /\ stale' = stale \cup Late(x)
      /\ \A e \in DOMAIN entries \ ids : e \in DOMAIN entries' /\ entries'[e] = entries[e]
  BY DEF Records
<1>3. n0 \in DOMAIN sites \ stale' => /\ x.life = life /\ sites[n0].on
                                       /\ Carries(entries, n0) \subseteq ids
  BY <1>2 DEF Late, Ripe
<1>4. \A e \in Armed(entries') \ {a} :
        /\ e \in Armed(entries) \ ids /\ entries'[e] = entries[e]
        /\ entries[e].serial = n0 => n0 \notin DOMAIN sites \ stale'
  <2> TAKE e \in Armed(entries') \ {a}
  <2>1. e \in DOMAIN entries \ ids BY <1>1 DEF Armed
  <2>2. entries'[e] = entries[e] /\ e \in Armed(entries) BY <1>2, <2>1 DEF Armed
  <2>3. entries[e].serial = n0 => e \in Carries(entries, n0) BY <2>1 DEF Carries
  <2> QED BY <1>3, <2>1, <2>2, <2>3
<1>a. a \in Armed(entries') /\ entries'[a].enabled = TRUE
  <2>1. entries'[a].enabled \in BOOLEAN BY <1>2, EntryIs
  <2> QED BY <1>1, <2>1 DEF Armed
<1>5. \A e, k \in Armed(entries') :
        e # k /\ entries'[e].serial = entries'[k].serial /\ entries'[e].serial \in DOMAIN sites \ stale'
        => entries'[e].serial \in doubled
  <2> TAKE e, k \in Armed(entries')
  <2>1. HAVE e # k /\ entries'[e].serial = entries'[k].serial /\ entries'[e].serial \in DOMAIN sites \ stale'
  <2>2. CASE e = a BY <1>1, <1>4, <2>1, <2>2
  <2>3. CASE k = a BY <1>1, <1>4, <2>1, <2>3
  <2>4. CASE e # a /\ k # a BY <1>2, <1>4, <2>1, <2>4 DEF Ripe
  <2> QED BY <2>2, <2>3, <2>4
<1>6. ASSUME NEW n \in DOMAIN sites \ (unsure' \cup stale')
      PROVE  /\ sites[n].on => Carries(entries', n) # {}
             /\ \A e \in Armed(entries') : entries'[e].serial = n /\ n \notin doubled
                  => sites[n].on = entries'[e].enabled
  <2>1. CASE n = n0
    <3>1. a \in Carries(entries', n) BY <1>1, <2>1 DEF Carries
    <3>2. sites[n].on BY <1>3, <1>6, <2>1
    <3>3. sites[n].on = TRUE
      <4>1. sites[n] \in LiveSites BY DEF Typed
      <4> QED BY <3>2, <4>1 DEF LiveSites
    <3>4. \A e \in Armed(entries') : entries'[e].serial = n => e = a BY <1>4, <1>6, <2>1
    <3> QED BY <1>a, <3>1, <3>3, <3>4
  <2>2. CASE n # n0
    <3>1. n \notin known \cup stale BY <1>2, <1>6
    <3>2. /\ sites[n].on => Carries(entries, n) # {}
          /\ \A e \in Armed(entries) :
               entries[e].serial = n /\ n \notin doubled => sites[n].on = entries[e].enabled
      BY <1>6, <2>2, <3>1 DEF Ripe
    <3>3. ASSUME NEW e \in Carries(entries, n) PROVE e \in Carries(entries', n)
      <4>1. e \in DOMAIN entries /\ entries[e].serial = n BY <3>3 DEF Carries
      <4>2. n # 0 BY DEF Typed
      <4>3. e \in Armed(entries) BY <4>1, <4>2, EntryIs DEF Typed
      <4>4. e \notin ids BY <1>6, <2>2, <3>1, <4>1, <4>3 DEF Ripe
      <4> QED BY <1>2, <4>1, <4>4 DEF Carries
    <3>4. \A e \in Armed(entries') : entries'[e].serial = n =>
            e \in Armed(entries) /\ entries'[e] = entries[e]
      BY <1>1, <1>4, <2>2
    <3> QED BY <3>2, <3>3, <3>4
  <2> QED BY <2>1, <2>2
<1> QED BY <1>5, <1>6 DEF Even

LEMMA RecordsUpheld ==
  ASSUME Typed, Typed', Locking', NEW c \in Calls, NEW x \in SiteRecords, NEW ids, NEW known,
         World, lock = c, doubled' = doubled, Ripe(ids, x, known), Records(c, ids, x, known)
  PROVE  Upheld(c)
<1>1. lock' = Nobody /\ call'[c].pc \in {"idle", "targets"} BY DEF Records, Over
<1>2. Stage(c)' BY <1>1, NoStage DEF Switching, Arming
<1>3. Calm(c)' BY RecordsEven, EvenIsCalm
<1> QED BY <1>1, <1>2, <1>3, EndsCalm DEF Arming

\* What is known as the site of one more entry is switched off before X's
\* arming is recorded.
Wanted(ids, x) ==
  /\ \A i \in DOMAIN wire : wire[i].serial # x.serial
  /\ ids \subseteq DOMAIN entries
  /\ \A k \in ids :
       /\ entries[k].file = x.file
       /\ k \in Armed(entries) => entries[k].serial = x.serial \/ entries[k].line = x.line
  /\ x.life = life /\ x.serial \in DOMAIN sites =>
       /\ sites[x.serial].on
       /\ x.serial \notin stale => Carries(entries, x.serial) \subseteq ids

LEMMA AbandonsUpheld ==
  ASSUME Typed, Typed', Locking', NEW c \in Calls, NEW x \in SiteRecords, NEW ids,
         World, doubled' = doubled, Wanted(ids, x), Abandons(c, ids, x),
         \A e, k \in Armed(entries) :
           e # k /\ entries[e].serial = entries[k].serial /\ entries[e].serial \in DOMAIN sites \ stale
           => entries[e].serial \in doubled,
         \A n \in DOMAIN sites \ (unsure' \cup stale) : n # x.serial =>
           /\ sites[n].on => Carries(entries, n) # {}
           /\ \A e \in Armed(entries) :
                entries[e].serial = n /\ n \notin doubled => sites[n].on = entries[e].enabled
  PROVE  Upheld(c)
<1>1. /\ UNCHANGED <<entries, stale>>
      /\ call'[c].pc = "abandon" /\ call'[c].site = x /\ call'[c].ids = ids /\ call'[c].plan \subseteq ids
  BY DEF Abandons
<1>2. PICK e \in ids : /\ entries[e].serial # x.serial /\ e \in Armed(entries)
                       /\ Sent(c, entries[e].serial, FALSE)
  BY DEF Abandons
<1> DEFINE m == entries[e].serial
<1>3. /\ lock' = c /\ call'[c].cur = m /\ call'[c].reply # "none"
      /\ wire' \in Seq(Toggles)
      /\ wire' = wire \/ /\ Len(wire') = Len(wire) + 1
                         /\ \A i \in 1..Len(wire) : wire'[i] = wire[i]
                         /\ wire'[Len(wire) + 1].serial = m
  BY <1>2 DEF Sent
<1>4. \A i \in DOMAIN wire' : wire'[i].serial # x.serial
  <2>1. DOMAIN wire = 1..Len(wire) /\ Len(wire) \in Nat BY DEF Typed
  <2>2. CASE wire' = wire BY <2>2 DEF Wanted
  <2>3. CASE /\ Len(wire') = Len(wire) + 1
             /\ \A i \in 1..Len(wire) : wire'[i] = wire[i]
             /\ wire'[Len(wire) + 1].serial = m
    <3> TAKE i \in DOMAIN wire'
    <3>1. i \in 1..(Len(wire) + 1) BY <1>3, <2>3
    <3>2. CASE i = Len(wire) + 1 BY <1>2, <2>3, <3>2
    <3>3. CASE i # Len(wire) + 1
      <4>1. i \in DOMAIN wire /\ wire'[i] = wire[i] BY <2>1, <2>3, <3>1, <3>3
      <4> QED BY <4>1 DEF Wanted
    <3> QED BY <3>2, <3>3
  <2> QED BY <1>3, <2>2, <2>3
<1>5. About(c)'
  <2>1. e \in call'[c].ids \cap Armed(entries') /\ entries'[e].serial = call'[c].cur
    BY <1>1, <1>2, <1>3
  <2> QED BY <2>1 DEF About
<1>6. Abandoning(c)'
  <2>1. ids # {} /\ ids \subseteq DOMAIN entries BY DEF Wanted
  <2>2. \A k \in ids :
          /\ entries[k].file = x.file
          /\ k \in Armed(entries) => entries[k].serial = x.serial \/ entries[k].line = x.line
    BY DEF Wanted
  <2>3. x.life = life /\ x.serial \in DOMAIN sites =>
       /\ sites[x.serial].on
       /\ x.serial \notin stale => Carries(entries, x.serial) \subseteq ids
    BY DEF Wanted
  <2>4. UNCHANGED <<life, sites>> BY DEF World
  <2>5. call'[c].cur # x.serial BY <1>2, <1>3
  <2> QED BY <1>1, <1>4, <1>5, <2>1, <2>2, <2>3, <2>4, <2>5 DEF Abandoning
<1>7. Stage(c)' BY <1>1, <1>6 DEF Stage, SwitchingOn, Arming
<1>8. Calm(c)'
  <2>1. \A n : Flux(call'[c], n) <=> n = m \/ n = x.serial BY <1>1, <1>3 DEF Flux
  <2> QED BY <1>1, <2>1 DEF Calm, World, Sure
<1>9. call'[c].pc \notin Arming BY <1>1 DEF Arming
<1> QED BY <1>3, <1>7, <1>8, <1>9, EndsCalm

\* The same of an answer that is all the step settles.
LEMMA AnswerAlone ==
  ASSUME Typed, RepliesOK, NEW c \in Calls, call[c].reply \in Final \cup {"failed"},
         call[c].cur \in Serials, unsure' = Vouched(call[c].cur, call[c].reply)
  PROVE  /\ \A n \in DOMAIN sites \ unsure' : n # call[c].cur => n \notin unsure
         /\ call[c].cur \in DOMAIN sites \ unsure' =>
              /\ call[c].reply \in Final
              /\ call[c].reply = "ok" => sites[call[c].cur].on = (call[c].pc \in SwitchingOn)
              /\ call[c].reply # "ok" =>
                   /\ ~sites[call[c].cur].on
                   /\ call[c].cur \notin stale => Carries(entries, call[c].cur) = {}
<1> DEFINE more == {}
<1>1. more \in SUBSET Serials /\ unsure' = Vouched(call[c].cur, call[c].reply) \cup more OBVIOUS
<1> HIDE DEF more
<1> QED BY <1>1, AnswerSays

\* The entries on the live site a call was listed are in the site's file.
LEMMA Neighbours ==
  ASSUME Typed, Bound, HandsOK, NEW c \in Calls, NEW x \in Hand(call[c]),
         x \in SiteRecords, x.life = life, x.serial \in DOMAIN sites \ stale
  PROVE  Carries(entries, x.serial) \subseteq Matching(entries, x)
<1> SUFFICES ASSUME NEW k \in Carries(entries, x.serial) PROVE k \in Matching(entries, x)
  OBVIOUS
<1>1. k \in DOMAIN entries /\ entries[k].serial = x.serial BY DEF Carries
<1>2. k \in Armed(entries) BY <1>1, EntryIs, NobodyNowhere DEF Typed
<1>3. Fits(entries[k], x.serial) BY <1>1, <1>2 DEF Bound
<1>4. Fits(x, x.serial) BY DEF HandsOK
<1> QED BY <1>1, <1>3, <1>4 DEF Fits, Matching

LEMMA SetAnsweredUpheld ==
  ASSUME Typed, Typed', Locking, Locking', Bound, HandsOK, StagesOK, RepliesOK, Picture,
         NEW c \in Calls, SetAnswered(c)
  PROVE  Upheld(c)
<1> DEFINE r == call[c]
           x == r.site
           ids == Matching(entries, x)
           known == Vouched(x.serial, r.reply)
<1>1. /\ World /\ doubled' = doubled
      /\ r.pc = "arming" /\ lock = c /\ r.reply \in Final \cup {"failed"}
      /\ \/ /\ Over(c, FALSE) /\ UNCHANGED <<entries, stale>>
            /\ r.reply # "ok" /\ unsure' = known
         \/ /\ r.reply = "ok" /\ Records(c, ids, x, known)
            /\ \A e \in ids : entries[e].serial \in {0, x.serial}
         \/ r.reply = "ok" /\ Abandons(c, ids, x) /\ unsure' = known
  BY SetAnsweredDoes
<1>2. /\ r.cur = x.serial /\ x \in SiteRecords /\ r.cur \in Serials
  <2>1. CallOK(r) BY DEF Typed
  <2> QED BY <1>1, <2>1 DEF StagesOK, Stage, SwitchingOn, CallOK, Switching
<1>3. x \in Hand(r) BY <1>1 DEF Hand
<1>4. Calm(c) BY <1>1, StartsCalm DEF Arming
<1>5. \A n : Flux(r, n) <=> n = x.serial BY <1>1, <1>2 DEF Flux, Final
<1>6. r.reply = "ok" => /\ wire = <<>>
                        /\ x.serial \in DOMAIN sites => sites[x.serial].on
  BY <1>1, <1>2 DEF RepliesOK, Final, SwitchingOn
<1>7. x.life = life /\ x.serial \in DOMAIN sites \ stale => Carries(entries, x.serial) \subseteq ids
  BY <1>2, <1>3, Neighbours
<1>8. \A e, k \in Armed(entries) :
        e # k /\ entries[e].serial = entries[k].serial /\ entries[e].serial \in DOMAIN sites \ stale
        => entries[e].serial \in doubled
  BY <1>4 DEF Calm
<1>9. \A n \in DOMAIN sites \ (unsure \cup stale) : n # x.serial =>
        /\ sites[n].on => Carries(entries, n) # {}
        /\ \A e \in Armed(entries) :
             entries[e].serial = n /\ n \notin doubled => sites[n].on = entries[e].enabled
  BY <1>4, <1>5 DEF Calm, Sure
<1>a. r.reply = "ok" => known = unsure \ {x.serial} BY DEF Vouched
<1>10. CASE /\ Over(c, FALSE) /\ UNCHANGED <<entries, stale>>
            /\ r.reply # "ok" /\ unsure' = known
  <2>1. /\ \A n \in DOMAIN sites \ unsure' : n # x.serial => n \notin unsure
        /\ x.serial \in DOMAIN sites \ unsure' =>
             /\ ~sites[x.serial].on
             /\ x.serial \notin stale => Carries(entries, x.serial) = {}
    BY <1>1, <1>2, <1>10, AnswerAlone
  <2>2. Even(entries) BY <1>8, <1>9, <1>10, <2>1 DEF Even, Carries, Armed
  <2>3. Calm(c)' BY <1>1, <1>10, <2>2, EvenIsCalm
  <2>4. lock' = Nobody /\ call'[c].pc \in {"idle", "targets"} BY <1>1, <1>10 DEF Over
  <2>5. Stage(c)' BY <2>4, NoStage DEF Switching, Arming
  <2> QED BY <2>3, <2>4, <2>5, EndsCalm DEF Arming
<1>11. CASE /\ r.reply = "ok" /\ Records(c, ids, x, known)
            /\ \A e \in ids : entries[e].serial \in {0, x.serial}
  <2>1. Ripe(ids, x, known)
    <3>1. 0 \notin DOMAIN sites BY DEF Typed
    <3>2. \A e \in ids \cap Armed(entries) :
            entries[e].serial \in DOMAIN sites \ (known \cup stale) => entries[e].serial = x.serial
      BY <1>11, <3>1
    <3> HIDE DEF ids
    <3> QED BY <1>6, <1>7, <1>8, <1>9, <1>a, <1>11, <3>2 DEF Ripe
  <2> QED BY <1>1, <1>2, <1>11, <2>1, RecordsUpheld
<1>12. CASE r.reply = "ok" /\ Abandons(c, ids, x) /\ unsure' = known
  <2>1. Wanted(ids, x) BY <1>6, <1>7, <1>12, MatchingIs DEF Wanted
  <2>2. \A n \in DOMAIN sites \ (unsure' \cup stale) : n # x.serial =>
           /\ sites[n].on => Carries(entries, n) # {}
           /\ \A e \in Armed(entries) :
                entries[e].serial = n /\ n \notin doubled => sites[n].on = entries[e].enabled
    BY <1>9, <1>a, <1>12
  <2> QED BY <1>1, <1>2, <1>8, <1>12, <2>1, <2>2, AbandonsUpheld
<1> QED BY <1>1, <1>10, <1>11, <1>12

LEMMA SetAbandonedUpheld ==
  ASSUME Typed, Typed', Locking, Locking', Bound, HandsOK, StagesOK, RepliesOK, Picture,
         NEW c \in Calls, SetAbandoned(c)
  PROVE  Upheld(c)
<1> DEFINE r == call[c]
           x == r.site
           m == r.cur
           known == Vouched(r.cur, r.reply)
<1>1. /\ World /\ doubled' = doubled
      /\ r.pc = "abandon" /\ lock = c /\ r.reply \in Final \cup {"failed"}
      /\ \/ Records(c, r.ids, x, known)
         \/ Abandons(c, r.ids, x) /\ unsure' = known
  BY SetAbandonedDoes
<1>2. x \in SiteRecords /\ m \in Serials
  <2>1. CallOK(r) BY DEF Typed
  <2> QED BY <1>1, <2>1 DEF CallOK, Switching
<1>3. x \in Hand(r) BY <1>1 DEF Hand
<1>4. Abandoning(c) BY <1>1 DEF StagesOK, Stage
<1>5. Calm(c) BY <1>1, StartsCalm DEF Arming
<1>6. \A n : Flux(r, n) <=> n = m \/ n = x.serial BY <1>1 DEF Flux, Final
<1>7. \A e \in r.ids \cap Armed(entries) :
        entries[e].serial \in DOMAIN sites \ stale => entries[e].serial = x.serial
  <2> TAKE e \in r.ids \cap Armed(entries)
  <2>1. /\ entries[e].file = x.file
        /\ entries[e].serial = x.serial \/ entries[e].line = x.line
    BY <1>4 DEF Abandoning
  <2>2. Agrees(x) BY <1>3 DEF HandsOK
  <2> QED BY <2>1, <2>2 DEF Agrees
<1>8. r.reply = "failed" => m \in known BY DEF Vouched
<1>9. r.reply # "failed" => m \notin DOMAIN sites \ stale
  <2>1. SUFFICES ASSUME r.reply # "failed", m \in DOMAIN sites \ stale PROVE FALSE OBVIOUS
  <2>2. About(c) BY <1>1, <1>4, <2>1 DEF Abandoning, Out
  <2>3. PICK k \in r.ids \cap Armed(entries) : entries[k].serial = m BY <2>2 DEF About
  <2>4. m = x.serial BY <1>7, <2>1, <2>3
  <2> QED BY <1>4, <2>4 DEF Abandoning
<1>10. \A n \in DOMAIN sites \ (known \cup stale) : n # m /\ n \notin unsure
  <2>1. m \notin DOMAIN sites \ (known \cup stale) BY <1>1, <1>8, <1>9
  <2>2. unsure \subseteq known \cup {m} BY DEF Vouched
  <2> QED BY <2>1, <2>2
<1>11. \A e, k \in Armed(entries) :
        e # k /\ entries[e].serial = entries[k].serial /\ entries[e].serial \in DOMAIN sites \ stale
        => entries[e].serial \in doubled
  BY <1>5 DEF Calm
<1>12. \A n \in DOMAIN sites \ (known \cup stale) : n # x.serial =>
        /\ sites[n].on => Carries(entries, n) # {}
        /\ \A e \in Armed(entries) :
             entries[e].serial = n /\ n \notin doubled => sites[n].on = entries[e].enabled
  BY <1>5, <1>6, <1>10 DEF Calm, Sure
<1>13. x.serial \in DOMAIN sites /\ x.life = life =>
         /\ sites[x.serial].on
         /\ x.serial \notin stale => Carries(entries, x.serial) \subseteq r.ids
  BY <1>4 DEF Abandoning
<1>14. CASE Records(c, r.ids, x, known)
  <2>1. Ripe(r.ids, x, known) BY <1>7, <1>11, <1>12, <1>13 DEF Ripe
  <2> DEFINE ids == r.ids
  <2>2. Ripe(ids, x, known) /\ Records(c, ids, x, known) BY <1>14, <2>1
  <2> HIDE DEF ids, known
  <2> QED BY <1>1, <1>2, <2>2, RecordsUpheld
<1>15. CASE Abandons(c, r.ids, x) /\ unsure' = known
  <2>1. Wanted(r.ids, x) BY <1>4, <1>13 DEF Wanted, Abandoning
  <2> DEFINE ids == r.ids
  <2>2. Wanted(ids, x) /\ Abandons(c, ids, x) BY <1>15, <2>1
  <2>3. \A n \in DOMAIN sites \ (unsure' \cup stale) : n # x.serial =>
           /\ sites[n].on => Carries(entries, n) # {}
           /\ \A e \in Armed(entries) :
                entries[e].serial = n /\ n \notin doubled => sites[n].on = entries[e].enabled
    BY <1>12, <1>15
  <2> HIDE DEF ids, known
  <2> QED BY <1>1, <1>2, <1>11, <2>2, <2>3, AbandonsUpheld
<1> QED BY <1>1, <1>14, <1>15
-----------------------------------------------------------------------------
(* del_breakpoints and disable_all.                                        *)

\* Back to idle, or to the middleware, with an even registry.
LEMMA OverUpheld ==
  ASSUME Typed', Locking', NEW c \in Calls, NEW ok \in BOOLEAN, World, doubled' = doubled,
         lock \in {c, Nobody}, Over(c, ok), Even(entries')
  PROVE  Upheld(c)
<1>1. lock' = Nobody /\ call'[c].pc \in {"idle", "targets"} BY DEF Over
<1>2. Stage(c)' BY <1>1, NoStage DEF Switching, Arming
<1>3. Calm(c)' BY EvenIsCalm
<1> QED BY <1>1, <1>2, <1>3, EndsCalm DEF Arming

LEMMA OutAbout ==
  ASSUME NEW c \in Calls, NEW d \in Armed(entries'), call'[c].ids = {d},
         call'[c].cur = entries'[d].serial
  PROVE  About(c)' /\ One(c)'
<1>1. d \in call'[c].ids \cap Armed(entries') /\ d \in DOMAIN entries' BY DEF Armed
<1> QED BY <1>1 DEF About, One

LEMMA DeleteStartsUpheld ==
  ASSUME Typed, Typed', Locking, Locking', Picture, NEW c \in Calls, DeleteStarts(c)
  PROVE  Upheld(c)
<1>1. /\ World /\ UNCHANGED histVars /\ call[c].pc = "idle" /\ lock = Nobody
      /\ \/ Over(c, TRUE) /\ entries' = entries
         \/ \E d \in DOMAIN entries \ Armed(entries) :
              Over(c, TRUE) /\ entries' = Without(entries, {d})
         \/ \E d \in Armed(entries) :
              /\ Sent(c, entries[d].serial, FALSE) /\ entries' = entries
              /\ call'[c].pc = "disarm" /\ call'[c].ids = {d}
  BY DeleteStartsDoes
<1>2. Even(entries) BY <1>1, StartsEven
<1>3. UNCHANGED <<doubled, stale, unsure>> BY <1>1 DEF histVars
<1>a. \A ok \in BOOLEAN : Over(c, ok) /\ Even(entries') => Upheld(c) BY <1>1, <1>3, OverUpheld
<1>b. TRUE \in BOOLEAN OBVIOUS
<1>4. CASE Over(c, TRUE) /\ entries' = entries BY <1>2, <1>4, <1>a, <1>b, Zenon
<1>5. CASE \E d \in DOMAIN entries \ Armed(entries) :
              Over(c, TRUE) /\ entries' = Without(entries, {d})
  <2>1. PICK d \in DOMAIN entries \ Armed(entries) :
              Over(c, TRUE) /\ entries' = Without(entries, {d})
    BY <1>5
  <2> DEFINE out == {d}
  <2>2. entries' = Without(entries, out) /\ Registry(entries) BY <2>1 DEF Typed
  <2>3. \A e \in DOMAIN entries : e \in out => entries[e].serial = 0 BY <2>1, <2>2, EntryIs
  <2>4. out \cap Armed(entries) = {} BY <2>1
  <2> HIDE DEF out
  <2>5. /\ DOMAIN entries' = DOMAIN entries \ out
        /\ Armed(entries') = Armed(entries) \ out
        /\ \A e \in DOMAIN entries \ out : entries'[e] = entries[e]
    BY <2>2, WithoutIs
  <2>6. Even(entries')
    <3>1. Armed(entries') = Armed(entries) /\ \A e \in Armed(entries) : entries'[e] = entries[e]
      BY <2>4, <2>5 DEF Armed
    <3>2. \A n \in DOMAIN sites : Carries(entries, n) \subseteq Carries(entries', n)
      <4>1. 0 \notin DOMAIN sites BY DEF Typed
      <4> QED BY <2>3, <2>5, <4>1 DEF Carries
    <3> QED BY <1>2, <3>1, <3>2 DEF Even
  <2> QED BY <2>1, <2>6, <1>a, <1>b, Zenon
<1>6. CASE \E d \in Armed(entries) :
              /\ Sent(c, entries[d].serial, FALSE) /\ entries' = entries
              /\ call'[c].pc = "disarm" /\ call'[c].ids = {d}
  <2>1. PICK d \in Armed(entries) :
              /\ Sent(c, entries[d].serial, FALSE) /\ entries' = entries
              /\ call'[c].pc = "disarm" /\ call'[c].ids = {d}
    BY <1>6
  <2>2. lock' = c /\ call'[c].cur = entries'[d].serial /\ d \in Armed(entries') BY <2>1 DEF Sent
  <2>3. About(c)' /\ One(c)' BY <2>1, <2>2, OutAbout
  <2>4. Stage(c)' BY <2>1, <2>3 DEF Stage, SwitchingOn, Arming
  <2>5. Calm(c)' BY <1>1, <1>2, <1>3, <2>1, EvenIsCalm
  <2> QED BY <2>1, <2>2, <2>4, <2>5, EndsCalm DEF Arming
<1> QED BY <1>1, <1>4, <1>5, <1>6

\* A switch-off of a call's only entry, answered.
LEMMA SwitchedOff ==
  ASSUME Typed, Locking, StagesOK, RepliesOK, Picture, NEW c \in Calls, lock = c,
         call[c].pc \in {"disarm", "off"}, call[c].reply \in Final \cup {"failed"},
         unsure' = Vouched(call[c].cur, call[c].reply), stale' = stale
  PROVE  /\ call[c].cur \in Serials
         /\ \A e, k \in Armed(entries) :
              e # k /\ entries[e].serial = entries[k].serial
              /\ entries[e].serial \in DOMAIN sites \ stale
              => entries[e].serial \in doubled
         /\ \A n \in DOMAIN sites \ (unsure' \cup stale) : n # call[c].cur =>
              /\ sites[n].on => Carries(entries, n) # {}
              /\ \A e \in Armed(entries) :
                   entries[e].serial = n /\ n \notin doubled => sites[n].on = entries[e].enabled
         /\ call[c].cur \in DOMAIN sites \ (unsure' \cup stale) =>
              /\ sites[call[c].cur].on = FALSE
              /\ call[c].reply # "ok" => Carries(entries, call[c].cur) = {}
              /\ call[c].cur \notin doubled =>
                   \A e \in Armed(entries) : entries[e].serial = call[c].cur => e \in call[c].ids
<1> DEFINE m == call[c].cur
<1>1. m \in Serials
  <2>1. CallOK(call[c]) BY DEF Typed
  <2> QED BY <2>1 DEF CallOK, Switching
<1>2. Calm(c) BY StartsCalm DEF Arming
<1>3. \A n : Flux(call[c], n) <=> n = m BY DEF Flux, Final
<1>4. /\ \A n \in DOMAIN sites \ unsure' : n # m => n \notin unsure
      /\ m \in DOMAIN sites \ unsure' =>
           /\ call[c].reply \in Final
           /\ call[c].reply = "ok" => sites[m].on = (call[c].pc \in SwitchingOn)
           /\ call[c].reply # "ok" => /\ ~sites[m].on
                                      /\ m \notin stale => Carries(entries, m) = {}
  BY <1>1, AnswerAlone
<1>5. \A e, k \in Armed(entries) :
        e # k /\ entries[e].serial = entries[k].serial /\ entries[e].serial \in DOMAIN sites \ stale
        => entries[e].serial \in doubled
  BY <1>2 DEF Calm
<1>6. \A n \in DOMAIN sites \ (unsure' \cup stale) : n # m =>
        /\ sites[n].on => Carries(entries, n) # {}
        /\ \A e \in Armed(entries) :
             entries[e].serial = n /\ n \notin doubled => sites[n].on = entries[e].enabled
  BY <1>2, <1>3, <1>4 DEF Calm, Sure
<1>7. ASSUME m \in DOMAIN sites \ (unsure' \cup stale)
      PROVE  /\ sites[m].on = FALSE
             /\ call[c].reply # "ok" => Carries(entries, m) = {}
             /\ m \notin doubled => \A e \in Armed(entries) : entries[e].serial = m => e \in call[c].ids
  <2>1. sites[m].on \in BOOLEAN
    <3>1. sites[m] \in LiveSites BY <1>7 DEF Typed
    <3> QED BY <3>1 DEF LiveSites
  <2>2. sites[m].on = FALSE BY <1>4, <1>7, <2>1 DEF SwitchingOn
  <2>3. ASSUME m \notin doubled, NEW e \in Armed(entries), entries[e].serial = m
        PROVE  e \in call[c].ids
    <3>1. Stage(c) /\ Out(c) BY <1>4, <1>7 DEF StagesOK, Out
    <3>2. About(c) BY <3>1 DEF Stage
    <3>3. PICK k \in call[c].ids \cap Armed(entries) : entries[k].serial = m BY <3>2 DEF About
    <3>4. e = k BY <1>5, <1>7, <2>3, <3>3
    <3> QED BY <3>3, <3>4
  <2> QED BY <1>4, <1>7, <2>2, <2>3
<1> QED BY <1>1, <1>5, <1>6, <1>7

\* The one entry of a call, when it awaits a switch-off.
LEMMA TheOne ==
  ASSUME Typed, StagesOK, NEW c \in Calls, call[c].pc \in {"disarm", "off"}
  PROVE  \E d \in DOMAIN entries : /\ call[c].ids = {d}
                                   /\ entries[d].serial \in {0, call[c].cur}
                                   /\ call[c].pc = "off" => ~entries[d].enabled
<1>1. Stage(c) BY DEF StagesOK
<1>2. PICK d \in DOMAIN entries : call[c].ids = {d}
             /\ (entries[d].state = "armed" => entries[d].serial = call[c].cur)
  BY <1>1 DEF Stage, One
<1>3. entries[d].serial \in {0, call[c].cur} BY <1>2, EntryIs DEF Typed
<1> QED BY <1>1, <1>2, <1>3 DEF Stage

LEMMA DeleteAnsweredUpheld ==
  ASSUME Typed, Typed', Locking, Locking', StagesOK, RepliesOK, Picture,
         NEW c \in Calls, DeleteAnswered(c)
  PROVE  Upheld(c)
<1>1. /\ World /\ UNCHANGED <<doubled, stale>>
      /\ call[c].pc = "disarm" /\ lock = c /\ call[c].reply \in Final \cup {"failed"}
      /\ Over(c, TRUE) /\ entries' = Without(entries, call[c].ids)
      /\ unsure' = Vouched(call[c].cur, call[c].reply)
  BY DeleteAnsweredDoes
<1>2. PICK d \in DOMAIN entries : call[c].ids = {d} /\ entries[d].serial \in {0, call[c].cur}
  BY <1>1, TheOne
<1> DEFINE out == call[c].ids
           m == call[c].cur
<1>3. /\ \A e, k \in Armed(entries) :
              e # k /\ entries[e].serial = entries[k].serial
              /\ entries[e].serial \in DOMAIN sites \ stale
              => entries[e].serial \in doubled
      /\ \A n \in DOMAIN sites \ (unsure' \cup stale) : n # m =>
              /\ sites[n].on => Carries(entries, n) # {}
              /\ \A e \in Armed(entries) :
                   entries[e].serial = n /\ n \notin doubled => sites[n].on = entries[e].enabled
      /\ m \in DOMAIN sites \ (unsure' \cup stale) =>
              /\ sites[m].on = FALSE
              /\ m \notin doubled =>
                   \A e \in Armed(entries) : entries[e].serial = m => e \in out
  BY <1>1, SwitchedOff
<1>4. entries' = Without(entries, out) /\ Registry(entries) BY <1>1 DEF Typed
<1>5. \A e \in DOMAIN entries : e \in out => entries[e].serial \in {0, m} BY <1>2
<1> HIDE DEF out, m
<1>6. /\ DOMAIN entries' = DOMAIN entries \ out
      /\ Armed(entries') = Armed(entries) \ out
      /\ \A e \in DOMAIN entries \ out : entries'[e] = entries[e]
  BY <1>4, WithoutIs
<1>7. Even(entries')
  <2>1. 0 \notin DOMAIN sites BY DEF Typed
  <2>2. \A n \in DOMAIN sites : n # m => Carries(entries, n) \subseteq Carries(entries', n)
    BY <1>5, <1>6, <2>1 DEF Carries
  <2>3. \A e \in Armed(entries') : e \in Armed(entries) /\ e \notin out /\ entries'[e] = entries[e]
    BY <1>6 DEF Armed
  <2>4. stale' = stale BY <1>1
  <2>5. \A e, k \in Armed(entries') :
       e # k /\ entries'[e].serial = entries'[k].serial /\ entries'[e].serial \in DOMAIN sites \ stale'
       => entries'[e].serial \in doubled
    BY <1>3, <2>3, <2>4
  <2>6. \A n \in DOMAIN sites \ (unsure' \cup stale') : sites[n].on => Carries(entries', n) # {}
    BY <1>3, <2>2, <2>4
  <2>7. \A e \in Armed(entries') :
       entries'[e].serial \in DOMAIN sites \ (unsure' \cup stale') /\ entries'[e].serial \notin doubled
       => sites[entries'[e].serial].on = entries'[e].enabled
    BY <1>3, <2>3, <2>4
  <2> QED BY <2>5, <2>6, <2>7 DEF Even
<1>a. \A ok \in BOOLEAN : Over(c, ok) => Upheld(c) BY <1>1, <1>7, OverUpheld
<1>b. TRUE \in BOOLEAN OBVIOUS
<1> QED BY <1>1, <1>a, <1>b, Zenon

\* A disable goes on with an even registry, in which its next site is in flux.
LEMMA DisablesUpheld ==
  ASSUME Typed', Locking', NEW c \in Calls, World, doubled' = doubled, lock \in {c, Nobody},
         NEW es, Registry(es), Even(es), NEW todo, Disables(c, es, todo)
  PROVE  Upheld(c)
<1>b. FALSE \in BOOLEAN /\ TRUE \in BOOLEAN OBVIOUS
<1>1. CASE Over(c, TRUE) /\ entries' = Enable(es, todo, FALSE) /\ todo \cap Armed(es) = {}
  <2>1. \A flag \in BOOLEAN : entries' = Enable(es, todo, flag) =>
          /\ DOMAIN entries' = DOMAIN es /\ Armed(entries') = Armed(es)
          /\ \A e \in DOMAIN es : /\ entries'[e].serial = es[e].serial
                                  /\ e \notin todo => entries'[e].enabled = es[e].enabled
    BY EnableIs
  <2>2. /\ DOMAIN entries' = DOMAIN es /\ Armed(entries') = Armed(es)
        /\ \A e \in DOMAIN es : /\ entries'[e].serial = es[e].serial
                                /\ e \notin todo => entries'[e].enabled = es[e].enabled
    BY <1>1, <1>b, <2>1, Zenon
  <2>3. Even(entries')
    <3>1. \A n : Carries(entries', n) = Carries(es, n) BY <2>2 DEF Carries
    <3>2. \A e \in Armed(es) : entries'[e].serial = es[e].serial /\ entries'[e].enabled = es[e].enabled
      BY <1>1, <2>2 DEF Armed
    <3> QED BY <2>2, <3>1, <3>2 DEF Even
  <2>a. \A ok \in BOOLEAN : Over(c, ok) => Upheld(c) BY <2>3, OverUpheld
  <2> QED BY <1>1, <1>b, <2>a, Zenon
<1>2. CASE \E d \in Armed(es) : \E upto \in SUBSET todo :
             /\ d \in upto /\ upto \cap Armed(es) = {d}
             /\ entries' = Enable(es, upto, FALSE)
             /\ Sent(c, es[d].serial, FALSE)
             /\ call'[c].pc = "off" /\ call'[c].ids = {d} /\ call'[c].plan \subseteq Nat
  <2>0. PICK d \in Armed(es) : \E upto \in SUBSET todo :
             /\ d \in upto /\ upto \cap Armed(es) = {d}
             /\ entries' = Enable(es, upto, FALSE)
             /\ Sent(c, es[d].serial, FALSE)
             /\ call'[c].pc = "off" /\ call'[c].ids = {d} /\ call'[c].plan \subseteq Nat
    BY <1>2
  <2>1. PICK upto \in SUBSET todo :
             /\ d \in upto /\ upto \cap Armed(es) = {d}
             /\ entries' = Enable(es, upto, FALSE)
             /\ Sent(c, es[d].serial, FALSE)
             /\ call'[c].pc = "off" /\ call'[c].ids = {d} /\ call'[c].plan \subseteq Nat
    BY <2>0
  <2>2. \A flag \in BOOLEAN : entries' = Enable(es, upto, flag) =>
          /\ DOMAIN entries' = DOMAIN es /\ Armed(entries') = Armed(es)
          /\ \A e \in DOMAIN es : /\ entries'[e].serial = es[e].serial
                                  /\ e \notin upto => entries'[e].enabled = es[e].enabled
                                  /\ e \in upto => entries'[e].enabled = flag
    BY EnableIs
  <2>3. /\ DOMAIN entries' = DOMAIN es /\ Armed(entries') = Armed(es)
        /\ \A e \in DOMAIN es : /\ entries'[e].serial = es[e].serial
                                /\ e \notin upto => entries'[e].enabled = es[e].enabled
                                /\ e \in upto => entries'[e].enabled = FALSE
    BY <2>1, <1>b, <2>2, Zenon
  <2>4. lock' = c /\ call'[c].cur = es[d].serial /\ call'[c].reply # "none" BY <2>1 DEF Sent
  <2>5. d \in DOMAIN es /\ d \in Armed(entries') /\ call'[c].cur = entries'[d].serial
        /\ ~entries'[d].enabled
    BY <2>1, <2>3, <2>4 DEF Armed
  <2>6. Calm(c)'
    <3>1. \A n : Carries(entries', n) = Carries(es, n) BY <2>3 DEF Carries
    <3>2. \A e \in Armed(es) :
            /\ entries'[e].serial = es[e].serial
            /\ e # d => entries'[e].enabled = es[e].enabled
      BY <2>1, <2>3 DEF Armed
    <3>3. Flux(call'[c], es[d].serial) BY <2>4 DEF Flux
    <3>4. \A e, k \in Armed(entries') :
       e # k /\ entries'[e].serial = entries'[k].serial /\ entries'[e].serial \in DOMAIN sites \ stale'
       => entries'[e].serial \in doubled'
      BY <2>3, <3>2 DEF Even
    <3>5. \A n \in DOMAIN sites \ (unsure' \cup stale') : sites[n].on => Carries(entries', n) # {}
      BY <3>1 DEF Even
    <3>6. \A e \in Armed(entries') :
       entries'[e].serial \in (DOMAIN sites \ (unsure' \cup stale')) \ doubled'
       /\ ~Flux(call'[c], entries'[e].serial)
       => sites[entries'[e].serial].on = entries'[e].enabled
      BY <2>3, <3>2, <3>3 DEF Even
    <3> HIDE DEF Flux
    <3> QED BY <3>4, <3>5, <3>6 DEF Calm, World, Sure
  <2>7. About(c)' /\ One(c)' BY <2>1, <2>5, OutAbout
  <2>8. Stage(c)' BY <2>1, <2>5, <2>7 DEF Stage, SwitchingOn, Arming
  <2> QED BY <2>1, <2>4, <2>6, <2>8, EndsCalm DEF Arming
<1> QED BY <1>1, <1>2 DEF Disables

LEMMA DisableStartsUpheld ==
  ASSUME Typed, Typed', Locking, Locking', Picture, NEW c \in Calls, DisableStarts(c)
  PROVE  Upheld(c)
<1>1. /\ World /\ UNCHANGED histVars /\ call[c].pc = "idle" /\ lock = Nobody
      /\ \E todo \in SUBSET DOMAIN entries : Disables(c, entries, todo)
  BY DisableStartsDoes
<1>2. Even(entries) /\ doubled' = doubled /\ Registry(entries) BY <1>1, StartsEven DEF histVars, Typed
<1> QED BY <1>1, <1>2, DisablesUpheld

LEMMA DisableAnsweredUpheld ==
  ASSUME Typed, Typed', Locking, Locking', StagesOK, RepliesOK, Picture,
         NEW c \in Calls, DisableAnswered(c)
  PROVE  Upheld(c)
<1> DEFINE r == call[c]
           m == r.cur
<1>1. /\ World /\ UNCHANGED <<doubled, stale>>
      /\ r.pc = "off" /\ lock = c /\ r.reply \in Final \cup {"failed"}
      /\ unsure' = Vouched(r.cur, r.reply)
      /\ \E tag \in {NotFound, WireFailure} : \E es :
           /\ r.reply # "unknown" => tag = WireFailure
           /\ es = (IF r.reply = "ok" THEN entries ELSE Demote(entries, r.ids, tag))
           /\ Registry(es) /\ DOMAIN es = DOMAIN entries
           /\ Disables(c, es, r.plan)
  BY DisableAnsweredDoes
<1>2. PICK tag \in {NotFound, WireFailure} : \E es :
           /\ es = (IF r.reply = "ok" THEN entries ELSE Demote(entries, r.ids, tag))
           /\ Registry(es) /\ Disables(c, es, r.plan)
  BY <1>1
<1>3. PICK es :
           /\ es = (IF r.reply = "ok" THEN entries ELSE Demote(entries, r.ids, tag))
           /\ Registry(es) /\ Disables(c, es, r.plan)
  BY <1>2
<1>4. PICK d \in DOMAIN entries : /\ r.ids = {d} /\ entries[d].serial \in {0, m}
                                  /\ ~entries[d].enabled
  BY <1>1, TheOne
<1>5. /\ \A e, k \in Armed(entries) :
              e # k /\ entries[e].serial = entries[k].serial
              /\ entries[e].serial \in DOMAIN sites \ stale
              => entries[e].serial \in doubled
      /\ \A n \in DOMAIN sites \ (unsure' \cup stale) : n # m =>
              /\ sites[n].on => Carries(entries, n) # {}
              /\ \A e \in Armed(entries) :
                   entries[e].serial = n /\ n \notin doubled => sites[n].on = entries[e].enabled
      /\ m \in DOMAIN sites \ (unsure' \cup stale) =>
              /\ sites[m].on = FALSE
              /\ r.reply # "ok" => Carries(entries, m) = {}
              /\ m \notin doubled =>
                   \A e \in Armed(entries) : entries[e].serial = m => e \in r.ids
  BY <1>1, SwitchedOff
<1>6. stale' = stale BY <1>1
<1>7. CASE r.reply = "ok"
  <2>1. es = entries BY <1>3, <1>7
  <2>2. entries[d].enabled = FALSE
    <3>1. entries[d].enabled \in BOOLEAN BY EntryIs DEF Typed
    <3> QED BY <1>4, <3>1
  <2>3. ASSUME NEW e \in Armed(entries),
               entries[e].serial \in DOMAIN sites \ (unsure' \cup stale'), entries[e].serial \notin doubled
        PROVE  sites[entries[e].serial].on = entries[e].enabled
    <3>1. CASE entries[e].serial = m
      <4>1. e = d BY <1>4, <1>5, <1>6, <2>3, <3>1
      <4> QED BY <1>5, <1>6, <2>2, <2>3, <3>1, <4>1
    <3>2. CASE entries[e].serial # m BY <1>5, <1>6, <2>3, <3>2
    <3> QED BY <3>1, <3>2
  <2>4. Even(entries) BY <1>5, <1>6, <2>3 DEF Even
  <2> DEFINE todo == r.plan
  <2>5. Disables(c, es, todo) /\ Even(es) BY <1>3, <2>1, <2>4
  <2> HIDE DEF todo
  <2> QED BY <1>1, <1>3, <2>5, DisablesUpheld
<1>8. CASE r.reply # "ok"
  <2> DEFINE out == r.ids
  <2>1. es = Demote(entries, out, tag) /\ Registry(entries) BY <1>3, <1>8 DEF Typed
  <2>2. tag \in Reasons \ {"none"} BY DEF Reasons, NotFound, WireFailure
  <2>3. out = {d} BY <1>4
  <2> HIDE DEF out
  <2>4. /\ DOMAIN es = DOMAIN entries /\ Armed(es) = Armed(entries) \ out
        /\ \A e \in DOMAIN entries : e \notin out => es[e] = entries[e]
    BY <2>1, <2>2, DemoteIs
  <2>5. \A n \in DOMAIN sites : n # m => Carries(entries, n) \subseteq Carries(es, n)
    <3>1. 0 \notin DOMAIN sites BY DEF Typed
    <3> QED BY <1>4, <2>3, <2>4, <3>1 DEF Carries
  <2>6. \A e \in Armed(es) : e \in Armed(entries) /\ es[e] = entries[e] /\ e \in DOMAIN entries
    BY <2>4 DEF Armed
  <2>7. \A e, k \in Armed(es) :
       e # k /\ es[e].serial = es[k].serial /\ es[e].serial \in DOMAIN sites \ stale'
       => es[e].serial \in doubled
    BY <1>5, <1>6, <2>6
  <2>8. \A n \in DOMAIN sites \ (unsure' \cup stale') : sites[n].on => Carries(es, n) # {}
    BY <1>5, <1>6, <2>5
  <2>9. \A e \in Armed(es) :
       es[e].serial \in DOMAIN sites \ (unsure' \cup stale') /\ es[e].serial \notin doubled
       => sites[es[e].serial].on = es[e].enabled
    <3> SUFFICES ASSUME NEW e \in Armed(es), es[e].serial \in DOMAIN sites \ (unsure' \cup stale'),
                        es[e].serial \notin doubled
                 PROVE  sites[es[e].serial].on = es[e].enabled
      OBVIOUS
    <3>1. e \in Carries(entries, es[e].serial) BY <2>6 DEF Carries
    <3>2. es[e].serial # m BY <1>5, <1>6, <1>8, <3>1
    <3> QED BY <1>5, <1>6, <2>6, <3>2
  <2>10. Even(es) BY <2>7, <2>8, <2>9 DEF Even
  <2> DEFINE todo == r.plan
  <2>11. Disables(c, es, todo) BY <1>3
  <2> HIDE DEF todo
  <2> QED BY <1>1, <1>3, <2>10, <2>11, DisablesUpheld
<1> QED BY <1>7, <1>8
-----------------------------------------------------------------------------
(* enable_all.                                                             *)

LEMMA EnableCollectsUpheld ==
  ASSUME Typed, Typed', Locking, Locking', Picture, NEW c \in Calls, EnableCollects(c)
  PROVE  Upheld(c)
<1>1. World /\ UNCHANGED <<entries, histVars>> /\ call[c].pc = "idle" /\ Quiet(c) BY EnableCollectsDoes
<1>2. lock # c /\ lock' # c /\ Others(c) BY <1>1 DEF Locking, Switching, Arming, Quiet
<1> QED BY <1>1, <1>2, Elsewhere

LEMMA EnableReopensUpheld ==
  ASSUME Typed, Typed', Locking, Locking', Picture, NEW c \in Calls, EnableReopens(c)
  PROVE  Upheld(c)
<1>1. World /\ UNCHANGED <<entries, histVars>> /\ call[c].pc = "reopen" /\ Quiet(c)
  BY EnableReopensDoes
<1>2. lock # c /\ lock' # c /\ Others(c) BY <1>1 DEF Locking, Switching, Arming, Quiet
<1> QED BY <1>1, <1>2, Elsewhere

LEMMA EnableFlagsUpheld ==
  ASSUME Typed, Typed', Locking, Locking', Picture, NEW c \in Calls, EnableFlags(c)
  PROVE  Upheld(c)
<1>1. /\ World /\ UNCHANGED histVars /\ call[c].pc = "stage three" /\ lock = Nobody
      /\ \/ Over(c, TRUE) /\ entries' = entries
         \/ /\ call'[c].reply = "none" /\ call'[c].pc = "files"
            /\ call'[c].ids \subseteq DOMAIN entries
            /\ call'[c].paths = {entries[e].file : e \in call'[c].ids}
            /\ entries' = Enable(entries, call'[c].ids, TRUE)
            /\ lock' = c
  BY EnableFlagsDoes
<1>2. CASE Over(c, TRUE) /\ entries' = entries
  <2>1. lock # c /\ lock' # c /\ Others(c) BY <1>1, <1>2, CallerOnly DEF Over
  <2> QED BY <1>1, <1>2, <2>1, Elsewhere
<1>3. CASE /\ call'[c].reply = "none" /\ call'[c].pc = "files"
           /\ call'[c].ids \subseteq DOMAIN entries
           /\ call'[c].paths = {entries[e].file : e \in call'[c].ids}
           /\ entries' = Enable(entries, call'[c].ids, TRUE)
           /\ lock' = c
  <2> DEFINE ids == call'[c].ids
  <2>0. ids = call'[c].ids /\ entries' = Enable(entries, ids, TRUE) /\ Registry(entries)
    BY <1>3 DEF Typed
  <2> HIDE DEF ids
  <2>1. \A flag \in BOOLEAN : entries' = Enable(entries, ids, flag) =>
          /\ DOMAIN entries' = DOMAIN entries /\ Armed(entries') = Armed(entries)
          /\ \A e \in DOMAIN entries : /\ entries'[e].serial = entries[e].serial
                                       /\ entries'[e].file = entries[e].file
                                       /\ e \notin ids => entries'[e].enabled = entries[e].enabled
                                       /\ e \in ids => entries'[e].enabled = flag
    <3>1. Registry(entries) BY <2>0
    <3> QED BY <3>1, EnableIs
  <2>b. TRUE \in BOOLEAN OBVIOUS
  <2>2. /\ DOMAIN entries' = DOMAIN entries /\ Armed(entries') = Armed(entries)
        /\ \A e \in DOMAIN entries : /\ entries'[e].serial = entries[e].serial
                                     /\ entries'[e].file = entries[e].file
                                     /\ e \notin ids => entries'[e].enabled = entries[e].enabled
                                     /\ e \in ids => entries'[e].enabled = TRUE
    BY <2>0, <2>1, <2>b, Zenon
  <2>3. UNCHANGED <<doubled, stale, unsure>> BY <1>1 DEF histVars
  <2>4. call[c].reply = "none" /\ call[c].pc \notin Arming
    <3>1. CallOK(call[c]) BY DEF Typed
    <3> QED BY <1>1, <3>1 DEF CallOK, Switching, Arming
  <2>5. Calm(c) /\ \A n : ~Flux(call[c], n) BY <1>1, <2>4, StartsCalm DEF Flux
  <2>6. \A n : ~Flux(call'[c], n) BY <1>3 DEF Flux
  <2>7. \A e \in ids : Ahead(call[c], e)'
    <3> TAKE e \in ids
    <3>1. entries'[e].file \in call'[c].paths BY <1>3, <2>0, <2>2
    <3> QED BY <3>1 DEF Ahead
  <2>8. \A n : Carries(entries', n) = Carries(entries, n) BY <2>2 DEF Carries
  <2>9. \A e \in Armed(entries) : e \in DOMAIN entries BY DEF Armed
  <2>10. Busy(c)'
    <3>1. Sure' = Sure /\ sites' = sites BY <1>1, <2>3 DEF Sure, World
    <3>2. \A e, k \in Armed(entries') :
       e # k /\ entries'[e].serial = entries'[k].serial /\ entries'[e].serial \in DOMAIN sites' \ stale'
       => entries'[e].serial \in doubled' \/ e \in ids \/ k \in ids
      BY <2>2, <2>3, <2>5, <2>9, <3>1 DEF Calm
    <3>3. \A n \in Sure' : sites'[n].on => Carries(entries', n) # {}
      BY <2>5, <2>8, <3>1 DEF Calm
    <3>4. ASSUME NEW e \in Armed(entries'), entries'[e].serial \in Sure', e \notin ids,
                 entries'[e].serial \notin doubled'
          PROVE  sites'[entries'[e].serial].on = entries'[e].enabled
      <4>1. /\ e \in Armed(entries) /\ entries'[e].serial = entries[e].serial
            /\ entries'[e].enabled = entries[e].enabled
        BY <2>2, <2>9, <3>4
      <4> QED BY <2>3, <2>5, <3>1, <3>4, <4>1 DEF Calm
    <3> HIDE DEF Sure, Flux, Ahead
    <3> QED BY <2>0, <2>6, <2>7, <3>2, <3>3, <3>4 DEF Busy
  <2>11. Enabled(c)' BY <1>3, <2>0, <2>2 DEF Enabled
  <2>12. Stage(c)' BY <1>3, <2>11 DEF Stage, SwitchingOn, Arming
  <2> QED BY <1>3, <2>10, <2>12, EndsBusy DEF Arming
<1> QED BY <1>1, <1>2, <1>3

\* The picture between two steps of an enable: what PLAN and PATHS still have
\* to come to apart, the sites of its entries are on.
Rising(c, es, plan, paths) ==
  LET ids == call[c].ids IN
  /\ Registry(es) /\ ids \subseteq DOMAIN es /\ \A e \in ids : es[e].enabled
  /\ \A e, k \in Armed(es) :
       e # k /\ es[e].serial = es[k].serial /\ es[e].serial \in DOMAIN sites \ stale'
       => es[e].serial \in doubled \/ e \in ids \/ k \in ids
  /\ \A n \in DOMAIN sites \ (unsure' \cup stale') : sites[n].on => Carries(es, n) # {}
  /\ \A e \in Armed(es) : es[e].serial \in DOMAIN sites \ (unsure' \cup stale') =>
       /\ e \in ids => \/ es[e].file \in paths \/ (\E p \in plan : p.id = e)
                       \/ sites[es[e].serial].on
       /\ /\ e \notin ids /\ es[e].serial \notin doubled
          /\ \A k \in Armed(es) \cap ids : es[k].serial # es[e].serial
          => sites[es[e].serial].on = es[e].enabled
  /\ plan \subseteq Plans
  /\ \A p \in plan :
       /\ p.id \in ids /\ es[p.id].file = p.site.file
       /\ p.id \in Armed(es) /\ es[p.id].serial \in DOMAIN sites \ stale'
            => es[p.id].serial = p.site.serial
  /\ \A p, q \in plan : p.id = q.id => p = q

\* It goes on to the next entry ...
LEMMA RisingOn ==
  ASSUME Typed', Locking', NEW c \in Calls, World, doubled' = doubled,
         NEW es, NEW plan, NEW paths, Rising(c, es, plan, paths), NEW p \in plan, entries' = es,
         Sent(c, p.site.serial, TRUE), call'[c].pc = "on", call'[c].ids = call[c].ids,
         call'[c].site = p.site, call'[c].marks = {p.id}, call'[c].plan = plan \ {p},
         call'[c].paths = paths
  PROVE  Upheld(c)
<1>1. lock' = c /\ call'[c].cur = p.site.serial /\ call'[c].reply # "none" BY DEF Sent
<1>2. p \in Plans BY DEF Rising
<1>3. p = [id |-> p.id, site |-> p.site] BY <1>2 DEF Plans
<1>4. Pairs(call'[c]) = plan
  <2>1. {[id |-> i, site |-> call'[c].site] : i \in call'[c].marks} = {p} BY <1>3
  <2> QED BY <2>1 DEF Pairs
<1>5. \A e : Ahead(call[c], e)' <=> entries'[e].file \in paths \/ \E q \in plan : q.id = e
  BY <1>4 DEF Ahead
<1>6. Enabled(c)' BY DEF Enabled, Rising
<1>7. Planning(c)'
  <2>1. \E i \in call'[c].ids : call'[c].marks = {i} BY DEF Rising
  <2>2. sites' = sites BY DEF World
  <2>3. \A q \in plan :
       /\ q.id \in call'[c].ids /\ entries'[q.id].file = q.site.file
       /\ q.id \in Armed(entries') /\ entries'[q.id].serial \in DOMAIN sites' \ stale'
            => entries'[q.id].serial = q.site.serial
    BY <2>2 DEF Rising
  <2>4. \A o, q \in plan : o.id = q.id => o = q BY DEF Rising
  <2> HIDE DEF Pairs
  <2> QED BY <1>4, <2>1, <2>3, <2>4 DEF Planning
<1>8. Stage(c)' BY <1>1, <1>6, <1>7 DEF Stage, SwitchingOn, Arming
<1>9. Busy(c)'
  <2>1. Sure' = DOMAIN sites \ (unsure' \cup stale') /\ sites' = sites BY DEF Sure, World
  <2> HIDE DEF Sure, Ahead
  <2>2. \A e, k \in Armed(entries') :
       e # k /\ entries'[e].serial = entries'[k].serial /\ entries'[e].serial \in DOMAIN sites' \ stale'
       => entries'[e].serial \in doubled' \/ e \in call'[c].ids \/ k \in call'[c].ids
    BY <2>1 DEF Rising
  <2>3. \A n \in Sure' : sites'[n].on => Carries(entries', n) # {} BY <2>1 DEF Rising
  <2>4. \A e \in Armed(entries') : entries'[e].serial \in Sure' =>
         /\ e \in call'[c].ids /\ ~Ahead(call[c], e)' => sites'[entries'[e].serial].on
         /\ /\ e \notin call'[c].ids /\ entries'[e].serial \notin doubled'
            /\ \A k \in Armed(entries') \cap call'[c].ids : entries'[k].serial # entries'[e].serial
            => sites'[entries'[e].serial].on = entries'[e].enabled
    BY <1>5, <2>1 DEF Rising
  <2> QED BY <2>2, <2>3, <2>4 DEF Busy
<1> QED BY <1>1, <1>8, <1>9, EndsBusy DEF Arming

\* ... or to the next file ...
LEMMA RisingFiles ==
  ASSUME Typed', Locking', NEW c \in Calls, lock = c, World, doubled' = doubled, lock' = lock,
         NEW es, NEW plan, NEW paths, plan = {}, Rising(c, es, plan, paths), entries' = es,
         call'[c].reply = "none", call'[c].pc = "files", call'[c].ids = call[c].ids,
         call'[c].paths = paths
  PROVE  Upheld(c)
<1>1. \A e : Ahead(call[c], e)' <=> entries'[e].file \in paths BY DEF Ahead
<1>2. Enabled(c)' BY DEF Enabled, Rising
<1>3. Stage(c)' BY <1>2 DEF Stage, SwitchingOn, Arming
<1>4. Busy(c)'
  <2>1. Sure' = DOMAIN sites \ (unsure' \cup stale') /\ sites' = sites BY DEF Sure, World
  <2> HIDE DEF Sure, Ahead
  <2>2. \A e, k \in Armed(entries') :
       e # k /\ entries'[e].serial = entries'[k].serial /\ entries'[e].serial \in DOMAIN sites' \ stale'
       => entries'[e].serial \in doubled' \/ e \in call'[c].ids \/ k \in call'[c].ids
    BY <2>1 DEF Rising
  <2>3. \A n \in Sure' : sites'[n].on => Carries(entries', n) # {} BY <2>1 DEF Rising
  <2>4. \A e \in Armed(entries') : entries'[e].serial \in Sure' =>
         /\ e \in call'[c].ids /\ ~Ahead(call[c], e)' => sites'[entries'[e].serial].on
         /\ /\ e \notin call'[c].ids /\ entries'[e].serial \notin doubled'
            /\ \A k \in Armed(entries') \cap call'[c].ids : entries'[k].serial # entries'[e].serial
            => sites'[entries'[e].serial].on = entries'[e].enabled
    BY <1>1, <2>1 DEF Rising
  <2> QED BY <2>2, <2>3, <2>4 DEF Busy
<1> QED BY <1>3, <1>4, EndsBusy DEF Arming

\* ... or ends with the merge: of two entries on one site either both are
\* outside the call, and doubled, or the later one is gone.
LEMMA RisingEnds ==
  ASSUME Typed', Locking', NEW c \in Calls, lock = c, World,
         NEW es, NEW plan, NEW paths, plan = {}, paths = {}, Rising(c, es, plan, paths),
         Over(c, TRUE), entries' = MergeSameSite(es, call[c].ids),
         doubled' = doubled \cup Twins(entries')
  PROVE  Upheld(c)
<1> DEFINE ids == call[c].ids
<1>1. Registry(es) /\ entries' = MergeSameSite(es, ids) BY DEF Rising
<1>a. /\ ids \subseteq DOMAIN es /\ \A e \in ids : es[e].enabled
      /\ \A n \in DOMAIN sites \ (unsure' \cup stale') : sites[n].on => Carries(es, n) # {}
      /\ \A e \in Armed(es) : es[e].serial \in DOMAIN sites \ (unsure' \cup stale') =>
          /\ e \in ids => sites[es[e].serial].on
          /\ /\ e \notin ids /\ es[e].serial \notin doubled
             /\ \A k \in Armed(es) \cap ids : es[k].serial # es[e].serial
             => sites[es[e].serial].on = es[e].enabled
  BY DEF Rising
<1> HIDE DEF ids
<1>2. /\ Registry(entries') /\ DOMAIN entries' \subseteq DOMAIN es
      /\ Armed(entries') = Armed(es) \cap DOMAIN entries'
      /\ \A e \in DOMAIN entries' : entries'[e] = es[e]
      /\ \A e \in DOMAIN es : e \in DOMAIN entries' \/ (e \in ids \cap Armed(es))
      /\ \A e \in Armed(es) : \E k \in Armed(entries') : /\ entries'[k].serial = es[e].serial
                                                         /\ e \in ids => k \in ids
  <2> DEFINE b == MergeSameSite(es, ids)
  <2>1. /\ Registry(b) /\ DOMAIN b \subseteq DOMAIN es
        /\ Armed(b) = Armed(es) \cap DOMAIN b
        /\ \A e \in DOMAIN b : b[e] = es[e]
        /\ \A e \in DOMAIN es : e \in DOMAIN b \/ (e \in ids \cap Armed(es))
        /\ \A e \in Armed(es) : \E k \in Armed(b) : /\ b[k].serial = es[e].serial
                                                    /\ e \in ids => k \in ids
    BY <1>1, MergeIs
  <2>2. entries' = b BY <1>1
  <2> HIDE DEF b
  <2> QED BY <2>1, <2>2, Zenon
<1>3. DOMAIN entries' \subseteq 1..born' /\ born' \in Nat BY Bounds DEF Typed
<1>4. \A e, k \in Armed(entries') :
        e # k /\ entries'[e].serial = entries'[k].serial => entries'[e].serial \in doubled'
  <2> TAKE e, k \in Armed(entries')
  <2>1. HAVE e # k /\ entries'[e].serial = entries'[k].serial
  <2>2. k \in DOMAIN entries' BY DEF Armed
  <2> DEFINE b == entries'
             m == born'
  <2>3. /\ Registry(b) /\ m \in Nat /\ DOMAIN b \subseteq 1..m /\ e \in Armed(b) /\ k \in DOMAIN b
        /\ e # k /\ b[e].serial = b[k].serial
    BY <1>2, <1>3, <2>1, <2>2
  <2> HIDE DEF b, m
  <2>4. b[e].serial \in Twins(b) BY <2>3, TwinsAre
  <2> QED BY <2>4 DEF b
<1>5. ASSUME NEW n \in DOMAIN sites \ (unsure' \cup stale'), sites[n].on
      PROVE  Carries(entries', n) # {}
  <2>1. PICK e \in DOMAIN es : es[e].serial = n BY <1>a, <1>5 DEF Carries
  <2>2. CASE e \in DOMAIN entries'
    <3>1. e \in Carries(entries', n) BY <1>2, <2>1, <2>2 DEF Carries
    <3> QED BY <3>1
  <2>3. CASE e \notin DOMAIN entries'
    <3>1. e \in Armed(es) BY <1>2, <2>3
    <3>2. PICK k \in Armed(entries') : entries'[k].serial = n BY <1>2, <2>1, <3>1
    <3>3. k \in Carries(entries', n) BY <3>2 DEF Carries, Armed
    <3> QED BY <3>3
  <2> QED BY <2>2, <2>3
<1>6. ASSUME NEW e \in Armed(entries'), entries'[e].serial \in DOMAIN sites \ (unsure' \cup stale'),
             entries'[e].serial \notin doubled'
      PROVE  sites[entries'[e].serial].on = entries'[e].enabled
  <2>1. e \in DOMAIN entries' /\ e \in Armed(es) /\ entries'[e] = es[e] BY <1>2
  <2> DEFINE n == es[e].serial
  <2>2. n \in DOMAIN sites \ (unsure' \cup stale') /\ n \notin doubled BY <1>6, <2>1
  <2>3. CASE e \in ids
    <3>1. es[e].enabled /\ sites[n].on BY <1>a, <2>1, <2>2, <2>3
    <3>2. es[e].enabled \in BOOLEAN BY <1>1, <2>1, EntryIs DEF Armed
    <3>3. sites[n].on \in BOOLEAN
      <4>1. sites' = sites BY DEF World
      <4>2. sites[n] \in LiveSites BY <2>2, <4>1 DEF Typed
      <4> QED BY <4>2 DEF LiveSites
    <3> HIDE DEF n
    <3>4. sites[n].on = es[e].enabled BY <3>1, <3>2, <3>3
    <3> QED BY <2>1, <3>4 DEF n
  <2>4. CASE e \notin ids
    <3>1. \A k \in Armed(es) \cap ids : es[k].serial # n
      <4> SUFFICES ASSUME NEW k \in Armed(es) \cap ids, es[k].serial = n PROVE FALSE
        OBVIOUS
      <4>1. PICK j \in Armed(entries') : entries'[j].serial = n /\ j \in ids BY <1>2
      <4> QED BY <1>4, <1>6, <2>1, <2>4, <4>1
    <3> QED BY <1>a, <2>1, <2>2, <2>4, <3>1
  <2> QED BY <2>3, <2>4
<1>7. Calm(c)'
  <2>1. Sure' = DOMAIN sites \ (unsure' \cup stale') /\ sites' = sites BY DEF Sure, World
  <2> HIDE DEF Sure
  <2> QED BY <1>4, <1>5, <1>6, <2>1 DEF Calm
<1>8. lock' = Nobody /\ call'[c].pc \in {"idle", "targets"} BY DEF Over
<1>9. Stage(c)' BY <1>8, NoStage DEF Switching, Arming
<1> QED BY <1>7, <1>8, <1>9, EndsCalm DEF Arming

LEMMA ArmsNextUpheld ==
  ASSUME Typed', Locking', NEW c \in Calls, lock = c, World,
         NEW es, NEW plan, NEW paths, NEW known, ArmsNext(c, es, plan, paths, known),
         Rising(c, es, plan, paths)
  PROVE  Upheld(c)
<1>1. CASE \E p \in plan :
          /\ entries' = es /\ doubled' = doubled
          /\ Sent(c, p.site.serial, TRUE)
          /\ call'[c].pc = "on" /\ call'[c].ids = call[c].ids /\ call'[c].site = p.site
          /\ call'[c].marks = {p.id} /\ call'[c].plan = plan \ {p} /\ call'[c].paths = paths
  BY <1>1, RisingOn
<1>2. CASE /\ plan = {} /\ entries' = es /\ doubled' = doubled
           /\ call'[c].reply = "none" /\ call'[c].pc = "files"
           /\ call'[c].ids = call[c].ids /\ call'[c].paths = paths
           /\ UNCHANGED <<lock, dirty, wire>>
  BY <1>2, RisingFiles
<1>3. CASE /\ plan = {} /\ paths = {} /\ Over(c, TRUE)
           /\ entries' = MergeSameSite(es, call[c].ids) /\ doubled' = doubled \cup Twins(entries')
  BY <1>3, RisingEnds
<1> QED BY <1>1, <1>2, <1>3 DEF ArmsNext

LEMMA EnableListsUpheld ==
  ASSUME Typed, Typed', Locking, Locking', StagesOK, ProverOK, Bound, Picture,
         NEW c \in Calls, EnableLists(c)
  PROVE  Upheld(c)
<1>1. /\ World /\ stale' = stale
      /\ call[c].pc = "files" /\ lock = c
      /\ \E f \in call[c].paths : \E out, es, plan, known :
           /\ Demoting(es, out) /\ Sparing(es, out, known)
           /\ out \subseteq call[c].ids /\ \A e \in out : entries[e].file = f
           /\ Plan(c, f, out, plan)
           /\ unsure \subseteq known /\ known \subseteq Serials
           /\ ArmsNext(c, es, plan, call[c].paths \ {f}, known)
  BY EnableListsDoes
<1>2. PICK f, out, es, plan, known :
           /\ f \in call[c].paths
           /\ Demoting(es, out) /\ Sparing(es, out, known)
           /\ out \subseteq call[c].ids /\ \A e \in out : entries[e].file = f
           /\ Plan(c, f, out, plan)
           /\ unsure \subseteq known /\ known \subseteq Serials
           /\ ArmsNext(c, es, plan, call[c].paths \ {f}, known)
  BY <1>1
<1> DEFINE ids == call[c].ids
           paths == call[c].paths \ {f}
<1>3. ArmsNext(c, es, plan, paths, known) /\ unsure' = known BY <1>2 DEF ArmsNext
<1>4. call[c].reply = "none" /\ f \in Files
  <2>1. CallOK(call[c]) /\ call[c] \in CallRecords BY DEF Typed
  <2> QED BY <1>1, <1>2, <2>1 DEF CallOK, Switching, CallRecords
<1>5. Busy(c) /\ \A n : ~Flux(call[c], n) BY <1>1, <1>4, StartsBusy DEF Arming, Flux
<1>6. ids \subseteq DOMAIN entries /\ \A e \in ids : entries[e].enabled
  BY <1>1 DEF StagesOK, Stage, Arming, Enabled
<1>7. \A e : Ahead(call[c], e) => entries[e].file \in paths \/ entries[e].file = f
  BY <1>1 DEF Ahead
<1>8. /\ Registry(es) /\ DOMAIN es = DOMAIN entries
      /\ Armed(es) = Armed(entries) \ out
      /\ \A e \in DOMAIN entries : /\ e \notin out => es[e] = entries[e]
                                   /\ es[e].file = entries[e].file
                                   /\ es[e].enabled = entries[e].enabled
  BY <1>2 DEF Demoting
<1>9. \A e \in out \cap Armed(entries) : entries[e].serial \notin DOMAIN sites \ (unsure' \cup stale')
  BY <1>1, <1>2, <1>3 DEF Sparing
<1>10. /\ plan \subseteq Plans
       /\ \A p \in plan :
            /\ p.id \in ids \ out /\ entries[p.id].file = f
            /\ p.site \in Listing(f)
            /\ (\E y \in Listing(f) : y.serial = entries[p.id].serial) => p.site.serial = entries[p.id].serial
       /\ \A e \in ids : entries[e].file = f => e \in out \/ \E p \in plan : p.id = e
       /\ \A p, q \in plan : p.id = q.id => p = q
  BY <1>2 DEF Plan
<1>11. ArmsNext(c, es, plan, paths, known) /\ unsure' = known BY <1>3
<1> HIDE DEF ids, paths
<1>12. \A e \in Armed(es) : e \in Armed(entries) /\ e \notin out /\ es[e] = entries[e]
  BY <1>8 DEF Armed
<1>13. \A e, k \in Armed(es) :
       e # k /\ es[e].serial = es[k].serial /\ es[e].serial \in DOMAIN sites \ stale'
       => es[e].serial \in doubled \/ e \in ids \/ k \in ids
  BY <1>1, <1>5, <1>12 DEF Busy, ids
<1>14. \A n \in DOMAIN sites \ (unsure' \cup stale') : sites[n].on => Carries(es, n) # {}
  <2> SUFFICES ASSUME NEW n \in DOMAIN sites \ (unsure' \cup stale'), sites[n].on
               PROVE  Carries(es, n) # {}
    OBVIOUS
  <2>1. n \in Sure BY <1>1, <1>2, <1>11 DEF Sure
  <2>2. PICK e \in Carries(entries, n) : TRUE BY <1>5, <2>1 DEF Busy
  <2>3. e \in DOMAIN entries /\ entries[e].serial = n BY <2>2 DEF Carries
  <2>4. e \in Armed(entries)
    <3>1. n # 0 BY DEF Typed
    <3> QED BY <2>3, <3>1, EntryIs DEF Typed
  <2>5. e \notin out BY <1>9, <2>3, <2>4
  <2>6. e \in Carries(es, n) BY <1>8, <2>3, <2>5 DEF Carries
  <2> QED BY <2>6
<1>15. ASSUME NEW e \in Armed(es), es[e].serial \in DOMAIN sites \ (unsure' \cup stale')
       PROVE  /\ e \in ids => \/ es[e].file \in paths \/ (\E p \in plan : p.id = e)
                              \/ sites[es[e].serial].on
              /\ /\ e \notin ids /\ es[e].serial \notin doubled
                 /\ \A k \in Armed(es) \cap ids : es[k].serial # es[e].serial
                 => sites[es[e].serial].on = es[e].enabled
  <2>1. e \in Armed(entries) /\ e \notin out /\ es[e] = entries[e] BY <1>12
  <2>2. entries[e].serial \in Sure BY <1>1, <1>2, <1>11, <1>15, <2>1 DEF Sure
  <2>3. ASSUME e \in ids, es[e].file \notin paths, ~\E p \in plan : p.id = e
        PROVE  sites[es[e].serial].on
    <3>1. entries[e].file # f BY <1>10, <2>1, <2>3
    <3>2. ~Ahead(call[c], e) BY <1>7, <2>1, <2>3, <3>1
    <3> QED BY <1>5, <2>1, <2>2, <2>3, <3>2 DEF Busy, ids
  <2>4. ASSUME e \notin ids, es[e].serial \notin doubled,
               \A k \in Armed(es) \cap ids : es[k].serial # es[e].serial
        PROVE  sites[es[e].serial].on = es[e].enabled
    <3>1. \A k \in Armed(entries) \cap ids : entries[k].serial # entries[e].serial
      <4> TAKE k \in Armed(entries) \cap ids
      <4>1. CASE k \in out BY <1>9, <1>15, <2>1, <4>1
      <4>2. CASE k \notin out
        <5>1. k \in Armed(es) BY <1>8, <4>2
        <5> QED BY <1>12, <2>1, <2>4, <5>1
      <4> QED BY <4>1, <4>2
    <3> QED BY <1>5, <2>1, <2>2, <2>4, <3>1 DEF Busy, ids
  <2> QED BY <2>3, <2>4
<1>16. \A p \in plan :
         /\ p.id \in ids /\ es[p.id].file = p.site.file
         /\ p.id \in Armed(es) /\ es[p.id].serial \in DOMAIN sites \ stale'
              => es[p.id].serial = p.site.serial
  <2> TAKE p \in plan
  <2>1. /\ p.id \in ids \ out /\ entries[p.id].file = f /\ p.site \in Listing(f)
        /\ (\E y \in Listing(f) : y.serial = entries[p.id].serial) => p.site.serial = entries[p.id].serial
    BY <1>10
  <2>2. p.site.file = f BY <1>4, <2>1, ListingIs
  <2>3. es[p.id] = entries[p.id] BY <1>6, <1>8, <2>1 DEF ids
  <2> DEFINE e == p.id
  <2>4. e = p.id OBVIOUS
  <2> HIDE DEF e
  <2>5. ASSUME e \in Armed(es), es[e].serial \in DOMAIN sites \ stale'
        PROVE  es[e].serial = p.site.serial
    <3>1. e \in Armed(entries) /\ entries[e].serial \in DOMAIN sites \ stale
      BY <1>1, <1>12, <2>5
    <3>2. \E x \in Listing(entries[e].file) : x.serial = entries[e].serial BY <3>1, Spared
    <3> QED BY <2>1, <2>3, <2>4, <3>2
  <2> QED BY <2>1, <2>2, <2>3, <2>4, <2>5
<1>17. ids \subseteq DOMAIN es /\ \A e \in ids : es[e].enabled BY <1>6, <1>8 DEF ids
<1>18. Rising(c, es, plan, paths)
  BY <1>8, <1>10, <1>13, <1>14, <1>15, <1>16, <1>17 DEF Rising, ids
<1> QED BY <1>1, <1>11, <1>18, ArmsNextUpheld

LEMMA EnableAnsweredUpheld ==
  ASSUME Typed, Typed', Locking, Locking', StagesOK, RepliesOK, Picture,
         NEW c \in Calls, EnableAnswered(c)
  PROVE  Upheld(c)
<1> DEFINE r == call[c]
           n0 == r.site.serial
           gone == IF r.reply = "ok" THEN Late(r.site) ELSE {}
           ids == r.ids
           plan == r.plan
           paths == r.paths
           known == Vouched(r.cur, r.reply) \cup gone
<1>1. /\ World
      /\ r.pc = "on" /\ lock = c /\ r.reply \in Final \cup {"failed"}
      /\ stale' = stale \cup gone
      /\ \E i \in r.ids : \E es :
           /\ r.marks = {i} /\ i \in DOMAIN entries
           /\ IF r.reply = "ok"
              THEN /\ Registry(es) /\ DOMAIN es = DOMAIN entries
                   /\ \A e \in DOMAIN entries \ {i} : es[e] = entries[e]
                   /\ es[i].state = "armed" /\ es[i].serial = r.site.serial
                   /\ es[i].file = entries[i].file /\ es[i].line = r.site.line
                   /\ es[i].enabled = entries[i].enabled
              ELSE /\ Demoting(es, {i}) /\ (r.reply = "failed" => es[i].reason = WireFailure)
           /\ ArmsNext(c, es, r.plan, r.paths, known)
  BY EnableAnsweredDoes
<1>2. PICK i, es :
           /\ i \in r.ids
           /\ r.marks = {i} /\ i \in DOMAIN entries
           /\ IF r.reply = "ok"
              THEN /\ Registry(es) /\ DOMAIN es = DOMAIN entries
                   /\ \A e \in DOMAIN entries \ {i} : es[e] = entries[e]
                   /\ es[i].state = "armed" /\ es[i].serial = r.site.serial
                   /\ es[i].file = entries[i].file /\ es[i].line = r.site.line
                   /\ es[i].enabled = entries[i].enabled
              ELSE /\ Demoting(es, {i}) /\ (r.reply = "failed" => es[i].reason = WireFailure)
           /\ ArmsNext(c, es, r.plan, r.paths, known)
  BY <1>1
<1>3. /\ r.cur = n0 /\ r.site \in SiteRecords /\ r.cur \in Serials /\ plan \subseteq Plans
  <2>1. CallOK(r) BY DEF Typed
  <2> QED BY <1>1, <2>1 DEF StagesOK, Stage, SwitchingOn, CallOK, Switching
<1>4. Enabled(c) /\ Planning(c) BY <1>1 DEF StagesOK, Stage, Arming
<1>5. Busy(c) /\ \A n : Flux(r, n) <=> n = n0 BY <1>1, <1>3, StartsBusy DEF Arming, Flux, Final
<1>6. gone \in SUBSET Serials BY <1>3 DEF Late, SiteRecords
<1>7. ArmsNext(c, es, plan, paths, known) /\ unsure' = known BY <1>2 DEF ArmsNext
<1>8. /\ \A n \in DOMAIN sites \ unsure' : n # n0 => n \notin unsure
      /\ n0 \in DOMAIN sites \ unsure' =>
           /\ r.reply \in Final
           /\ r.reply = "ok" => sites[n0].on = (r.pc \in SwitchingOn)
           /\ r.reply # "ok" => ~sites[n0].on /\ (n0 \notin stale => Carries(entries, n0) = {})
  <2> DEFINE more == gone
  <2>1. more \in SUBSET Serials /\ unsure' = Vouched(r.cur, r.reply) \cup more BY <1>6, <1>7
  <2> HIDE DEF more
  <2> QED BY <1>1, <1>3, <2>1, AnswerSays
<1>a. n0 \in DOMAIN sites \ unsure' /\ r.reply = "ok" => sites[n0].on BY <1>1, <1>8 DEF SwitchingOn
<1>b. n0 \notin DOMAIN sites \ (unsure' \cup stale') \/ r.reply = "ok"
      \/ (~sites[n0].on /\ Carries(entries, n0) = {})
  BY <1>1, <1>8
<1>c. Sure \subseteq DOMAIN sites /\ \A n \in DOMAIN sites \ (unsure' \cup stale') : n # n0 => n \in Sure
  BY <1>1, <1>8 DEF Sure
<1>d. /\ Registry(es) /\ DOMAIN es = DOMAIN entries
      /\ \A e \in DOMAIN entries \ {i} : es[e] = entries[e]
      /\ es[i].file = entries[i].file /\ es[i].enabled = entries[i].enabled
      /\ r.reply = "ok" => i \in Armed(es) /\ es[i].serial = n0
      /\ r.reply # "ok" => i \notin Armed(es)
  <2>1. CASE r.reply = "ok" BY <1>2, <2>1 DEF Armed
  <2>2. CASE r.reply # "ok"
    <3>1. Demoting(es, {i}) BY <1>2, <2>2
    <3> QED BY <1>2, <2>2, <3>1 DEF Demoting
  <2> QED BY <2>1, <2>2
<1>e. \A e \in Armed(es) \ {i} : e \in Armed(entries) /\ e \in DOMAIN entries /\ es[e] = entries[e]
  BY <1>d DEF Armed
<1>f. \A e \in Armed(entries) \ {i} : e \in Armed(es) BY <1>d DEF Armed
<1>g. /\ ids \subseteq DOMAIN entries /\ \A e \in ids : entries[e].enabled
  BY <1>4 DEF Enabled
<1>h. /\ \A p \in Pairs(r) :
           /\ p.id \in ids /\ entries[p.id].file = p.site.file
           /\ p.id \in Armed(entries) /\ entries[p.id].serial \in DOMAIN sites \ stale
                => entries[p.id].serial = p.site.serial
      /\ \A p, q \in Pairs(r) : p.id = q.id => p = q
  BY <1>4 DEF Planning
<1>i. /\ plan \subseteq Pairs(r)
      /\ [id |-> i, site |-> r.site] \in Pairs(r)
      /\ \A p \in Pairs(r) : p \in plan \/ p.id = i
  BY <1>2 DEF Pairs
<1>j. i \in Armed(entries) /\ entries[i].serial \in DOMAIN sites \ stale => entries[i].serial = n0
  <2> DEFINE p == [id |-> i, site |-> r.site]
  <2>1. p \in Pairs(r) /\ p.id = i /\ p.site = r.site BY <1>i
  <2> HIDE DEF p
  <2> QED BY <1>h, <2>1
<1>k. \A e : Ahead(r, e) <=> entries[e].file \in paths \/ (\E p \in plan : p.id = e) \/ e = i
  <2>1. [id |-> i, site |-> r.site].id = i OBVIOUS
  <2> HIDE DEF Pairs
  <2> QED BY <1>1, <1>i, <2>1 DEF Ahead
<1>l. stale \subseteq stale' BY <1>1
<1>m. /\ \A e, k \in Armed(entries) :
           e # k /\ entries[e].serial = entries[k].serial /\ entries[e].serial \in DOMAIN sites \ stale
           => entries[e].serial \in doubled \/ e \in ids \/ k \in ids
      /\ \A n \in Sure : sites[n].on /\ n # n0 => Carries(entries, n) # {}
      /\ \A e \in Armed(entries) : entries[e].serial \in Sure /\ entries[e].serial # n0 =>
           /\ e \in ids /\ ~Ahead(r, e) => sites[entries[e].serial].on
           /\ /\ e \notin ids /\ entries[e].serial \notin doubled
              /\ \A k \in Armed(entries) \cap ids : entries[k].serial # entries[e].serial
              => sites[entries[e].serial].on = entries[e].enabled
  BY <1>5 DEF Busy
<1>n. i \in ids /\ i \in DOMAIN entries BY <1>2
<1>o. ids = call[c].ids OBVIOUS
<1> HIDE DEF ids, plan, paths, known, n0, gone, Sure, Ahead, Pairs
<1>13. \A e, k \in Armed(es) :
       e # k /\ es[e].serial = es[k].serial /\ es[e].serial \in DOMAIN sites \ stale'
       => es[e].serial \in doubled \/ e \in ids \/ k \in ids
  <2> TAKE e, k \in Armed(es)
  <2>1. HAVE e # k /\ es[e].serial = es[k].serial /\ es[e].serial \in DOMAIN sites \ stale'
  <2>2. CASE e = i \/ k = i BY <1>n, <2>2
  <2>3. CASE e # i /\ k # i BY <1>e, <1>l, <1>m, <2>1, <2>3
  <2> QED BY <2>2, <2>3
<1>14. \A n \in DOMAIN sites \ (unsure' \cup stale') : sites[n].on => Carries(es, n) # {}
  <2> SUFFICES ASSUME NEW n \in DOMAIN sites \ (unsure' \cup stale'), sites[n].on
               PROVE  Carries(es, n) # {}
    OBVIOUS
  <2>1. CASE n = n0
    <3>1. r.reply = "ok" BY <1>b, <2>1
    <3>2. i \in Carries(es, n) BY <1>d, <1>n, <2>1, <3>1 DEF Carries
    <3> QED BY <3>2
  <2>2. CASE n # n0
    <3>1. n \in Sure BY <1>c, <2>2
    <3>2. PICK e \in Carries(entries, n) : TRUE BY <1>m, <2>2, <3>1
    <3>3. e \in DOMAIN entries /\ entries[e].serial = n BY <3>2 DEF Carries
    <3>4. e \in Armed(entries)
      <4>1. n # 0 BY DEF Typed
      <4> QED BY <3>3, <4>1, EntryIs DEF Typed
    <3>5. e # i BY <1>j, <1>l, <2>2, <3>3, <3>4
    <3>6. e \in Carries(es, n) BY <1>d, <3>3, <3>5 DEF Carries
    <3> QED BY <3>6
  <2> QED BY <2>1, <2>2
<1>15. ASSUME NEW e \in Armed(es), es[e].serial \in DOMAIN sites \ (unsure' \cup stale')
       PROVE  /\ e \in ids => \/ es[e].file \in paths \/ (\E p \in plan : p.id = e)
                              \/ sites[es[e].serial].on
              /\ /\ e \notin ids /\ es[e].serial \notin doubled
                 /\ \A k \in Armed(es) \cap ids : es[k].serial # es[e].serial
                 => sites[es[e].serial].on = es[e].enabled
  <2>1. CASE e = i
    <3>1. r.reply = "ok" /\ es[e].serial = n0 BY <1>d, <2>1
    <3>2. sites[es[e].serial].on BY <1>a, <1>15, <3>1
    <3> QED BY <1>n, <2>1, <3>2
  <2>2. CASE e # i /\ es[e].serial = n0
    <3>1. e \in Carries(entries, n0) BY <1>e, <2>2 DEF Carries
    <3>2. r.reply = "ok" BY <1>b, <1>15, <2>2, <3>1
    <3>3. sites[es[e].serial].on BY <1>a, <1>15, <2>2, <3>2
    <3>4. i \in Armed(es) \cap ids /\ es[i].serial = es[e].serial BY <1>d, <1>n, <2>2, <3>2
    <3> QED BY <3>3, <3>4
  <2>3. CASE e # i /\ es[e].serial # n0
    <3>1. e \in Armed(entries) /\ es[e] = entries[e] BY <1>e, <2>3
    <3>2. entries[e].serial \in Sure /\ entries[e].serial # n0 BY <1>c, <1>15, <2>3, <3>1
    <3>3. ASSUME e \in ids, es[e].file \notin paths, ~\E p \in plan : p.id = e
          PROVE  sites[es[e].serial].on
      <4>1. ~Ahead(r, e) BY <1>k, <2>3, <3>1, <3>3
      <4> QED BY <1>m, <3>1, <3>2, <3>3, <4>1
    <3>4. ASSUME e \notin ids, es[e].serial \notin doubled,
                 \A k \in Armed(es) \cap ids : es[k].serial # es[e].serial
          PROVE  sites[es[e].serial].on = es[e].enabled
      <4>1. \A k \in Armed(entries) \cap ids : entries[k].serial # entries[e].serial
        <5> TAKE k \in Armed(entries) \cap ids
        <5>1. CASE k = i BY <1>15, <1>j, <1>l, <2>3, <3>1, <5>1
        <5>2. CASE k # i
          <6>1. k \in Armed(es) /\ es[k] = entries[k] BY <1>e, <1>f, <5>2
          <6> QED BY <3>1, <3>4, <6>1
        <5> QED BY <5>1, <5>2
      <4> QED BY <1>m, <3>1, <3>2, <3>4, <4>1
    <3> QED BY <3>3, <3>4
  <2> QED BY <2>1, <2>2, <2>3
<1>16. ASSUME NEW p \in plan
       PROVE  /\ p.id \in ids /\ es[p.id].file = p.site.file
              /\ p.id \in Armed(es) /\ es[p.id].serial \in DOMAIN sites \ stale'
                   => es[p.id].serial = p.site.serial
  <2>1. /\ p.id \in ids /\ entries[p.id].file = p.site.file
        /\ p.id \in Armed(entries) /\ entries[p.id].serial \in DOMAIN sites \ stale
             => entries[p.id].serial = p.site.serial
    BY <1>h, <1>i
  <2>2. p.id \in DOMAIN entries BY <1>g, <2>1
  <2>3. CASE p.id = i
    <3>1. p = [id |-> i, site |-> r.site] BY <1>h, <1>i, <2>3
    <3>2. p.site = r.site BY <3>1
    <3> QED BY <1>d, <2>1, <2>3, <3>2 DEF n0
  <2>4. CASE p.id # i
    <3>1. es[p.id] = entries[p.id] BY <1>d, <2>2, <2>4
    <3> QED BY <1>e, <1>l, <2>1, <2>4, <3>1
  <2> QED BY <2>3, <2>4
<1>17. ids \subseteq DOMAIN es /\ \A e \in ids : es[e].enabled
  <2>1. \A e \in DOMAIN entries : es[e].enabled = entries[e].enabled BY <1>d
  <2> QED BY <1>d, <1>g, <2>1
<1>18. \A p, q \in plan : p.id = q.id => p = q BY <1>h, <1>i
<1>19. Rising(c, es, plan, paths)
  <2>1. plan \subseteq Plans BY <1>3
  <2> QED BY <1>d, <1>o, <1>13, <1>14, <1>15, <1>16, <1>17, <1>18, <2>1 DEF Rising
<1> QED BY <1>1, <1>7, <1>19, ArmsNextUpheld
-----------------------------------------------------------------------------
(* reconcile_dirty, a stale deadline and a cancelled call.                *)

LEMMA ReconcileTargetsUpheld ==
  ASSUME Typed, Typed', Locking, Locking', Picture, NEW c \in Calls, ReconcileTargets(c)
  PROVE  Upheld(c)
<1>1. World /\ UNCHANGED <<entries, histVars>> /\ call[c].pc = "targets" /\ Quiet(c)
  BY ReconcileTargetsDoes
<1>2. lock # c /\ lock' # c /\ Others(c) BY <1>1 DEF Locking, Switching, Arming, Quiet
<1> QED BY <1>1, <1>2, Elsewhere

LEMMA ReconcileVerifiesUpheld ==
  ASSUME Typed, Typed', Locking, Locking', ProverOK, Bound, Picture,
         NEW c \in Calls, ReconcileVerifies(c)
  PROVE  Upheld(c)
<1>1. /\ World /\ UNCHANGED <<doubled, stale>>
      /\ call[c].pc = "verify" /\ lock = Nobody /\ lock' = lock
      /\ call'[c].pc \in {"idle", "verify"} /\ unsure \subseteq unsure'
      /\ \E out : Demoting(entries', out) /\ Sparing(entries', out, unsure')
  BY ReconcileVerifiesDoes DEF Quiet
<1>2. PICK out : Demoting(entries', out) /\ Sparing(entries', out, unsure') BY <1>1
<1>3. call[c].reply = "none"
  <2>1. CallOK(call[c]) BY DEF Typed
  <2> QED BY <1>1, <2>1 DEF CallOK, Switching
<1>4. Calm(c) /\ \A n : ~Flux(call[c], n) BY <1>1, <1>3, StartsCalm DEF Arming, Flux
<1>5. /\ DOMAIN entries' = DOMAIN entries /\ Armed(entries') = Armed(entries) \ out
      /\ \A e \in DOMAIN entries : e \notin out => entries'[e] = entries[e]
  BY <1>2 DEF Demoting
<1>6. \A e \in Armed(entries') : e \in Armed(entries) /\ entries'[e] = entries[e] BY <1>5 DEF Armed
<1>7. Even(entries')
  <2>1. \A n \in DOMAIN sites \ (unsure' \cup stale') : n \in Sure BY <1>1 DEF Sure
  <2>2. ASSUME NEW n \in DOMAIN sites \ (unsure' \cup stale'), sites[n].on
        PROVE  Carries(entries', n) # {}
    <3>1. PICK e \in Carries(entries, n) : TRUE BY <1>4, <2>1, <2>2 DEF Calm
    <3>2. e \in DOMAIN entries /\ entries[e].serial = n BY <3>1 DEF Carries
    <3>3. e \in Armed(entries)
      <4>1. n # 0 BY DEF Typed
      <4> QED BY <3>2, <4>1, EntryIs DEF Typed
    <3>4. e \notin out BY <1>1, <1>2, <2>2, <3>2, <3>3 DEF Sparing
    <3>5. e \in Carries(entries', n) BY <1>5, <3>2, <3>4 DEF Carries
    <3> QED BY <3>5
  <2>3. \A e, k \in Armed(entries') :
       e # k /\ entries'[e].serial = entries'[k].serial /\ entries'[e].serial \in DOMAIN sites \ stale'
       => entries'[e].serial \in doubled
    BY <1>1, <1>4, <1>6 DEF Calm
  <2>4. \A e \in Armed(entries') :
       entries'[e].serial \in DOMAIN sites \ (unsure' \cup stale') /\ entries'[e].serial \notin doubled
       => sites[entries'[e].serial].on = entries'[e].enabled
    BY <1>4, <1>6, <2>1 DEF Calm
  <2> QED BY <2>2, <2>3, <2>4 DEF Even
<1>8. Calm(c)' BY <1>1, <1>7, EvenIsCalm
<1>9. Stage(c)' BY <1>1, NoStage DEF Switching, Arming
<1> QED BY <1>1, <1>8, <1>9, EndsCalm DEF Arming

LEMMA ToggleFailsUpheld ==
  ASSUME Typed, Typed', Locking, Locking', StagesOK, Picture, NEW c \in Calls, ToggleFails(c)
  PROVE  Upheld(c)
<1>1. /\ World /\ UNCHANGED <<entries, histVars, lock>>
      /\ call[c].reply = "wait" /\ lock = c
      /\ Orphan(c) /\ call'[c].reply = "failed"
      /\ call'[c].pc = call[c].pc /\ call'[c].ids = call[c].ids
      /\ call'[c].plan = call[c].plan /\ call'[c].paths = call[c].paths
      /\ call'[c].marks = call[c].marks /\ call'[c].site = call[c].site
      /\ call'[c].cur = call[c].cur
  BY ToggleFailsDoes
<1>2. UNCHANGED <<doubled, stale, unsure>> BY <1>1 DEF histVars
<1>3. ~Out(c)' BY <1>1, CallerOnly DEF Out, Final, Orphan
<1>4. Stage(c)'
  <2>1. Stage(c) BY DEF StagesOK
  <2>2. One(c)' <=> One(c) BY <1>1 DEF One
  <2>3. Enabled(c) => Enabled(c)' BY <1>1 DEF Enabled
  <2>4. Pairs(call'[c]) = Pairs(call[c]) BY <1>1 DEF Pairs
  <2>5. Planning(c) => Planning(c)'
    <3> HIDE DEF Pairs
    <3> QED BY <1>1, <1>2, <2>4 DEF Planning, World
  <2>6. Abandoning(c) => Abandoning(c)' BY <1>1, <1>2, <1>3 DEF Abandoning, World, Orphan
  <2> QED BY <1>1, <1>3, <2>1, <2>2, <2>3, <2>5, <2>6 DEF Stage
<1>5. \A n : Flux(call'[c], n) <=> Flux(call[c], n) BY <1>1 DEF Flux
<1>6. Sure' = Sure /\ sites' = sites BY <1>1, <1>2 DEF Sure, World
<1>7. CASE call[c].pc \in Arming
  <2>1. Busy(c) BY <1>1, <1>7, StartsBusy
  <2>2. \A e : Ahead(call[c], e)' <=> Ahead(call[c], e) BY <1>1 DEF Ahead, Pairs
  <2> HIDE DEF Flux, Sure, Ahead
  <2>3. Busy(c)' BY <1>1, <1>2, <1>5, <1>6, <2>1, <2>2 DEF Busy
  <2> QED BY <1>1, <1>4, <1>7, <2>3, EndsBusy
<1>8. CASE call[c].pc \notin Arming
  <2>1. Calm(c) BY <1>1, <1>8, StartsCalm
  <2> HIDE DEF Flux, Sure
  <2>2. Calm(c)' BY <1>1, <1>2, <1>5, <1>6, <2>1 DEF Calm
  <2> QED BY <1>1, <1>4, <1>8, <2>2, EndsCalm
<1> QED BY <1>7, <1>8

\* A call cut short takes its sites, and its entries', out of the picture.
LEMMA CutUpheld ==
  ASSUME Typed, Typed', Locking, Locking', Picture, NEW c \in Calls, Cut(c)
  PROVE  Upheld(c)
<1>1. /\ World /\ UNCHANGED <<entries, stale>> /\ Others(c) /\ call'[c] = Idle
      /\ lock' = (IF lock = c THEN Nobody ELSE lock)
      /\ doubled' = (IF lock = c THEN doubled \cup Twins(entries) ELSE doubled)
      /\ IF lock = c
         THEN /\ unsure \subseteq unsure'
              /\ call[c].cur # 0 => call[c].cur \in unsure'
              /\ call[c].site.serial # 0 => call[c].site.serial \in unsure'
              /\ \A e \in call[c].ids \cap Armed(entries) : entries[e].serial \in unsure'
         ELSE unsure' = unsure
  BY CutDoes
<1>2. CASE lock # c
  <2>1. UNCHANGED histVars /\ lock' # c BY <1>1, <1>2 DEF histVars
  <2> QED BY <1>1, <1>2, <2>1, Elsewhere
<1>3. CASE lock = c
  <2>1. /\ doubled' = doubled \cup Twins(entries) /\ lock' = Nobody
        /\ unsure \subseteq unsure'
        /\ call[c].cur # 0 => call[c].cur \in unsure'
        /\ call[c].site.serial # 0 => call[c].site.serial \in unsure'
        /\ \A e \in call[c].ids \cap Armed(entries) : entries[e].serial \in unsure'
    BY <1>1, <1>3
  <2>2. \A n \in DOMAIN sites \ (unsure' \cup stale) :
          n \in Sure /\ ~Flux(call[c], n) /\ n # 0
    <3>1. 0 \notin DOMAIN sites BY DEF Typed
    <3> QED BY <2>1, <3>1 DEF Sure, Flux
  <2>3. \A e, k \in Armed(entries) :
          e # k /\ entries[e].serial = entries[k].serial => entries[e].serial \in doubled'
    <3> TAKE e, k \in Armed(entries)
    <3>1. HAVE e # k /\ entries[e].serial = entries[k].serial
    <3>2. k \in DOMAIN entries BY DEF Armed
    <3> DEFINE m == born
    <3>3. Registry(entries) /\ m \in Nat /\ DOMAIN entries \subseteq 1..m BY Bounds DEF Typed
    <3> HIDE DEF m
    <3>4. entries[e].serial \in Twins(entries) BY <3>1, <3>2, <3>3, TwinsAre
    <3> QED BY <2>1, <3>4
  <2>4. \A n \in DOMAIN sites \ (unsure' \cup stale) : sites[n].on => Carries(entries, n) # {}
    <3>1. CASE call[c].pc \in Arming
      <4>1. Busy(c) BY <1>3, <3>1, StartsBusy
      <4> QED BY <2>2, <4>1 DEF Busy
    <3>2. CASE call[c].pc \notin Arming
      <4>1. Calm(c) BY <1>3, <3>2, StartsCalm
      <4> QED BY <2>2, <4>1 DEF Calm
    <3> QED BY <3>1, <3>2
  <2>5. \A e \in Armed(entries) :
          entries[e].serial \in DOMAIN sites \ (unsure' \cup stale) /\ entries[e].serial \notin doubled'
          => sites[entries[e].serial].on = entries[e].enabled
    <3> SUFFICES ASSUME NEW e \in Armed(entries),
                        entries[e].serial \in DOMAIN sites \ (unsure' \cup stale),
                        entries[e].serial \notin doubled'
                 PROVE  sites[entries[e].serial].on = entries[e].enabled
      OBVIOUS
    <3>1. CASE call[c].pc \in Arming
      <4>1. Busy(c) BY <1>3, <3>1, StartsBusy
      <4>2. e \notin call[c].ids BY <2>1
      <4>3. \A k \in Armed(entries) \cap call[c].ids : entries[k].serial # entries[e].serial
        BY <2>1
      <4>4. entries[e].serial \notin doubled BY <2>1
      <4> QED BY <2>2, <4>1, <4>2, <4>3, <4>4 DEF Busy
    <3>2. CASE call[c].pc \notin Arming
      <4>1. Calm(c) BY <1>3, <3>2, StartsCalm
      <4> QED BY <2>1, <2>2, <4>1 DEF Calm
    <3> QED BY <3>1, <3>2
  <2>6. Calm(c)'
    <3>1. Sure' = DOMAIN sites \ (unsure' \cup stale) /\ sites' = sites BY <1>1 DEF Sure, World
    <3> HIDE DEF Sure
    <3> QED BY <1>1, <2>3, <2>4, <2>5, <3>1 DEF Calm
  <2>7. call'[c].pc = "idle" BY <1>1, IdleIs
  <2>8. Stage(c)' BY <2>7, NoStage DEF Switching, Arming
  <2> QED BY <2>1, <2>6, <2>7, <2>8, EndsCalm DEF Arming
<1> QED BY <1>2, <1>3

\* A step of a call keeps the whole invariant.
LEMMA ToolKeeps ==
  ASSUME IInv, NEW c \in Calls, Tool(c)
  PROVE  IInv'
<1>1. /\ Typed /\ Locking /\ ProverOK /\ Bound /\ HandsOK /\ StagesOK /\ RepliesOK /\ WireOK
      /\ Deaths /\ Picture
  BY DEF IInv, Picture
<1>2. Kind(c) BY <1>1, ToolKind
<1>3. Step(c) BY <1>2 DEF Kind
<1>4. Typed' BY <1>1, <1>3, ToolTyped
<1>5. Locking' BY <1>1, <1>3, ToolLocking
<1>6. ProverOK' BY <1>1, <1>2, ToolProverOK
<1>7. Bound' BY <1>1, <1>2, ToolBound
<1>8. HandsOK' BY <1>1, <1>2, <1>4, <1>7, ToolHandsOK
<1>9. RepliesOK' BY <1>1, <1>2, ToolRepliesOK
<1>10. WireOK' BY <1>1, <1>2, ToolWireOK
<1>11. Deaths' BY <1>1, <1>2, <1>4, ToolDeaths
<1>12. Upheld(c)
  <2>1. CASE OtherTool(c) BY <1>1, <1>4, <1>5, <2>1, OtherToolUpheld
  <2>2. CASE SetLists(c) BY <1>1, <1>4, <1>5, <2>2, SetListsUpheld
  <2>3. CASE SetAnswered(c) BY <1>1, <1>4, <1>5, <2>3, SetAnsweredUpheld
  <2>4. CASE SetAbandoned(c) BY <1>1, <1>4, <1>5, <2>4, SetAbandonedUpheld
  <2>5. CASE DeleteStarts(c) BY <1>1, <1>4, <1>5, <2>5, DeleteStartsUpheld
  <2>6. CASE DeleteAnswered(c) BY <1>1, <1>4, <1>5, <2>6, DeleteAnsweredUpheld
  <2>7. CASE DisableStarts(c) BY <1>1, <1>4, <1>5, <2>7, DisableStartsUpheld
  <2>8. CASE DisableAnswered(c) BY <1>1, <1>4, <1>5, <2>8, DisableAnsweredUpheld
  <2>9. CASE EnableCollects(c) BY <1>1, <1>4, <1>5, <2>9, EnableCollectsUpheld
  <2>10. CASE EnableReopens(c) BY <1>1, <1>4, <1>5, <2>10, EnableReopensUpheld
  <2>11. CASE EnableFlags(c) BY <1>1, <1>4, <1>5, <2>11, EnableFlagsUpheld
  <2>12. CASE EnableLists(c) BY <1>1, <1>4, <1>5, <2>12, EnableListsUpheld
  <2>13. CASE EnableAnswered(c) BY <1>1, <1>4, <1>5, <2>13, EnableAnsweredUpheld
  <2>14. CASE ReconcileTargets(c) BY <1>1, <1>4, <1>5, <2>14, ReconcileTargetsUpheld
  <2>15. CASE ReconcileVerifies(c) BY <1>1, <1>4, <1>5, <2>15, ReconcileVerifiesUpheld
  <2>16. CASE ToggleFails(c) BY <1>1, <1>4, <1>5, <2>16, ToggleFailsUpheld
  <2>17. CASE Cut(c) BY <1>1, <1>4, <1>5, <2>17, CutUpheld
  <2> QED BY <2>1, <2>2, <2>3, <2>4, <2>5, <2>6, <2>7, <2>8, <2>9, <2>10, <2>11, <2>12, <2>13,
             <2>14, <2>15, <2>16, <2>17 DEF Tool
<1>13. StagesOK'
  <2>1. \A d \in Calls \ {c} : Stage(d)' BY <1>1, <1>2, StagesOthers
  <2>2. \A d \in Calls : Stage(d)' BY <1>12, <2>1 DEF Upheld
  <2> QED BY <2>2 DEF StagesOK
<1> QED BY <1>4, <1>5, <1>6, <1>7, <1>8, <1>9, <1>10, <1>11, <1>12, <1>13
        DEF IInv, Upheld, Picture
-----------------------------------------------------------------------------
(* The prover's steps.  What a step that leaves the registry and the calls *)
(* aside does to the sites: those that live on stay as they are, but that  *)
(* they may finish; a new one is off, under a serial never given before.   *)

Stays(n) ==
  /\ sites'[n].stmt = sites[n].stmt /\ at'[sites[n].stmt] = at[sites[n].stmt]
  /\ sites'[n].on = sites[n].on /\ (sites[n].ready => sites'[n].ready)
Comes(n) == n > serials /\ ~sites'[n].on /\ prover = "up" /\ life' = life

Aside ==
  /\ UNCHANGED <<entries, born, lock, call, wire, histVars>>
  /\ serials <= serials'
  /\ (life' = life /\ prover' = prover) \/ (life' = life + 1 /\ DOMAIN sites' = {})
  /\ \A n \in DOMAIN sites' : IF n \in DOMAIN sites THEN Stays(n) ELSE Comes(n)

\* An armed entry's site is none of the new ones.
LEMMA NotNew ==
  ASSUME Typed, Bound, Aside, NEW e \in Armed(entries), entries[e].serial \in DOMAIN sites' \ stale
  PROVE  /\ entries[e].serial \in DOMAIN sites /\ Stays(entries[e].serial)
         /\ Fits(entries[e], entries[e].serial) /\ Fits(entries[e], entries[e].serial)'
<1>1. entries[e].serial <= serials BY DEF Bound
<1>2. entries[e].serial \in Serials /\ serials \in Nat
  <2>1. e \in DOMAIN entries BY DEF Armed
  <2> QED BY <2>1, EntryIs, Bounds DEF Typed
<1>3. entries[e].serial \in DOMAIN sites
  <2>1. ~(entries[e].serial > serials) BY <1>1, <1>2, Bounds DEF Serials
  <2> QED BY <2>1 DEF Aside, Comes
<1>4. Stays(entries[e].serial) BY <1>3 DEF Aside
<1>5. Fits(entries[e], entries[e].serial) BY <1>3 DEF Bound
<1>6. entries' = entries BY DEF Aside
<1> QED BY <1>3, <1>4, <1>5, <1>6 DEF Fits, Stays

LEMMA AsideBound == ASSUME Typed, Typed', Bound, Aside PROVE Bound'
<1>1. entries' = entries /\ Armed(entries') = Armed(entries) /\ stale' = stale /\ serials <= serials'
  BY DEF Aside, histVars
<1> SUFFICES ASSUME NEW e \in Armed(entries), entries[e].serial \notin stale
             PROVE  /\ entries[e].serial <= serials'
                    /\ entries[e].serial \in DOMAIN sites' => Fits(entries[e], entries[e].serial)'
  BY <1>1 DEF Bound
<1>2. entries[e].serial <= serials'
  <2>1. entries[e].serial <= serials BY DEF Bound
  <2>2. entries[e].serial \in Nat /\ serials \in Nat /\ serials' \in Nat
    <3>1. e \in DOMAIN entries BY DEF Armed
    <3> QED BY <3>1, EntryIs, Bounds DEF Typed, Serials
  <2> QED BY <1>1, <2>1, <2>2
<1> QED BY <1>2, NotNew

LEMMA HandTyped ==
  ASSUME Typed, NEW c \in Calls, NEW x \in Hand(call[c]) PROVE x \in SiteRecords
<1>1. CallOK(call[c]) BY DEF Typed
<1>2. CASE x = call[c].site /\ call[c].pc \in {"arming", "abandon", "on"} BY <1>1, <1>2 DEF CallOK
<1>3. CASE call[c].pc = "on" /\ \E p \in call[c].plan : x = p.site
  <2>1. PICK p \in call[c].plan : x = p.site BY <1>3
  <2>2. p \in Plans BY <1>1, <1>3 DEF CallOK
  <2> QED BY <2>1, <2>2 DEF Plans
<1> QED BY <1>2, <1>3 DEF Hand

\* Nor is a site that was listed in the life of this prover.
LEMMA ListedIsOld ==
  ASSUME Typed, HandsOK, Aside, NEW c \in Calls, NEW x \in Hand(call[c]),
         x.life = life', x.serial \in DOMAIN sites'
  PROVE  /\ x.life = life /\ x.serial \in DOMAIN sites /\ Stays(x.serial)
<1>1. life' = life BY DEF Aside
<1>2. x.serial \in DOMAIN sites
  <2>1. SUFFICES ASSUME x.serial \notin DOMAIN sites PROVE FALSE OBVIOUS
  <2>2. x.serial > serials /\ prover = "up" BY <2>1 DEF Aside, Comes
  <2>3. x.serial <= serials BY <1>1, <2>2 DEF HandsOK
  <2>4. x.serial \in Nat /\ serials \in Nat
    <3>1. x.serial \in 1..MaxSerial BY HandTyped DEF SiteRecords, Serials
    <3> QED BY <3>1, Bounds DEF Typed
  <2> QED BY <2>2, <2>3, <2>4
<1> QED BY <1>1, <1>2 DEF Aside

LEMMA AsideHandsOK == ASSUME Typed, Typed', HandsOK, Bound, Aside PROVE HandsOK'
<1>1. /\ entries' = entries /\ call' = call /\ stale' = stale /\ serials <= serials'
      /\ (life' = life /\ prover' = prover) \/ (life' = life + 1 /\ DOMAIN sites' = {})
  BY DEF Aside, histVars
<1> SUFFICES ASSUME NEW c \in Calls, NEW x \in Hand(call[c])
             PROVE  /\ x.life <= life'
                    /\ x.life = life' /\ prover' # "none" => x.serial <= serials'
                    /\ x.life = life' /\ x.serial \in DOMAIN sites' => Fits(x, x.serial)'
                    /\ \A y \in Hand(call[c]) :
                         x.file = y.file /\ (x.line = y.line => x.serial = y.serial)
                    /\ Agrees(x)'
  BY <1>1 DEF HandsOK
<1>2. /\ x.life <= life
      /\ x.life = life /\ prover # "none" => x.serial <= serials
      /\ x.life = life /\ x.serial \in DOMAIN sites => Fits(x, x.serial)
      /\ \A y \in Hand(call[c]) : x.file = y.file /\ (x.line = y.line => x.serial = y.serial)
      /\ Agrees(x)
  BY DEF HandsOK
<1>3. x.life \in Nat /\ x.serial \in Nat /\ life \in Nat /\ serials \in Nat /\ serials' \in Nat
  <2>1. x \in SiteRecords BY HandTyped
  <2>2. x.serial \in 1..MaxSerial BY <2>1 DEF SiteRecords, Serials
  <2> QED BY <2>1, <2>2, Bounds DEF Typed, SiteRecords
<1>4. x.life <= life' BY <1>1, <1>2, <1>3
<1>5. x.life = life' /\ prover' # "none" => x.serial <= serials' BY <1>1, <1>2, <1>3
<1>6. x.life = life' /\ x.serial \in DOMAIN sites' => Fits(x, x.serial)'
  <2>1. HAVE x.life = life' /\ x.serial \in DOMAIN sites'
  <2>2. x.life = life /\ x.serial \in DOMAIN sites /\ Stays(x.serial) BY <2>1, ListedIsOld
  <2> QED BY <1>2, <2>2 DEF Fits, Stays
<1>7. Agrees(x)'
  <2>1. SUFFICES ASSUME NEW e \in Armed(entries), entries[e].serial \in DOMAIN sites' \ stale,
                        entries[e].file = x.file, entries[e].line = x.line
                 PROVE  entries[e].serial = x.serial
    BY <1>1 DEF Agrees
  <2>2. entries[e].serial \in DOMAIN sites BY <2>1, NotNew
  <2> QED BY <1>2, <2>1, <2>2 DEF Agrees
<1> QED BY <1>2, <1>4, <1>5, <1>6, <1>7

LEMMA AsideStagesOK == ASSUME Typed, Typed', HandsOK, StagesOK, Bound, Aside PROVE StagesOK'
<1>1. /\ entries' = entries /\ call' = call /\ stale' = stale /\ wire' = wire
  BY DEF Aside, histVars
<1> SUFFICES ASSUME NEW c \in Calls PROVE Stage(c)' BY DEF StagesOK
<1>2. Stage(c) BY DEF StagesOK
<1>3. (Out(c)' <=> Out(c)) /\ (About(c)' <=> About(c)) /\ (One(c)' <=> One(c))
  BY <1>1 DEF Out, About, One
<1>4. Enabled(c)' <=> Enabled(c) BY <1>1 DEF Enabled
<1>5. call[c].pc = "abandon" => Abandoning(c)'
  <2>1. HAVE call[c].pc = "abandon"
  <2>2. Abandoning(c) BY <1>2, <2>1 DEF Stage
  <2>3. call[c].site \in Hand(call[c]) BY <2>1 DEF Hand
  <2>4. call[c].site.life = life' /\ call[c].site.serial \in DOMAIN sites' =>
          /\ call[c].site.life = life /\ call[c].site.serial \in DOMAIN sites
          /\ sites'[call[c].site.serial].on = sites[call[c].site.serial].on
    <3> DEFINE x == call[c].site
    <3>1. x \in Hand(call[c]) BY <2>3
    <3> HIDE DEF x
    <3>2. x.life = life' /\ x.serial \in DOMAIN sites' =>
            x.life = life /\ x.serial \in DOMAIN sites /\ sites'[x.serial].on = sites[x.serial].on
      BY <3>1, ListedIsOld DEF Stays
    <3> QED BY <3>2 DEF x
  <2> QED BY <1>1, <1>3, <2>2, <2>4 DEF Abandoning
<1>6. Planning(c) => Planning(c)'
  <2>1. \A e \in Armed(entries) : entries[e].serial \in DOMAIN sites' \ stale =>
          entries[e].serial \in DOMAIN sites
    BY NotNew
  <2>2. Pairs(call'[c]) = Pairs(call[c]) BY <1>1
  <2> HIDE DEF Pairs
  <2> QED BY <1>1, <2>1, <2>2 DEF Planning
<1> QED BY <1>1, <1>2, <1>3, <1>4, <1>5, <1>6 DEF Stage

LEMMA AsideRepliesOK == ASSUME Typed, Typed', ProverOK, Bound, RepliesOK, Aside PROVE RepliesOK'
<1>1. /\ entries' = entries /\ call' = call /\ stale' = stale /\ wire' = wire
      /\ serials <= serials'
  BY DEF Aside, histVars
<1> SUFFICES ASSUME NEW c \in Calls
             PROVE  LET r == call[c] IN
               /\ r.reply \in Final => wire = <<>>
               /\ r.reply = "ok" =>
                    /\ r.cur <= serials'
                    /\ r.cur \in DOMAIN sites' => sites'[r.cur].on = (r.pc \in SwitchingOn)
               /\ r.reply \in {"unknown", "unfinished"} /\ r.cur \in DOMAIN sites' =>
                    /\ ~sites'[r.cur].on
                    /\ r.cur \notin stale => Carries(entries, r.cur) = {}
  BY <1>1 DEF RepliesOK
<1> DEFINE r == call[c]
<1>2. /\ r.reply \in Final => wire = <<>>
      /\ r.reply = "ok" =>
           /\ r.cur <= serials
           /\ r.cur \in DOMAIN sites => sites[r.cur].on = (r.pc \in SwitchingOn)
      /\ r.reply \in {"unknown", "unfinished"} /\ r.cur \in DOMAIN sites =>
           /\ ~sites[r.cur].on
           /\ r.cur \notin stale => Carries(entries, r.cur) = {}
  BY DEF RepliesOK
<1>3. r.cur \in Nat /\ serials \in Nat /\ serials' \in Nat
  <2>1. call[c] \in CallRecords BY DEF Typed
  <2>2. call[c].cur \in 0..MaxSerial BY <2>1 DEF CallRecords
  <2>3. serials \in 0..MaxSerial /\ serials' \in 0..MaxSerial BY DEF Typed
  <2> QED BY <2>2, <2>3, Bounds
<1>4. r.reply = "ok" =>
        /\ r.cur <= serials'
        /\ r.cur \in DOMAIN sites' => sites'[r.cur].on = (r.pc \in SwitchingOn)
  <2>1. HAVE r.reply = "ok"
  <2>2. r.cur <= serials BY <1>2, <2>1
  <2>3. r.cur <= serials' BY <1>1, <1>3, <2>2
  <2>4. ASSUME r.cur \in DOMAIN sites' PROVE sites'[r.cur].on = (r.pc \in SwitchingOn)
    <3>1. ~(r.cur > serials) BY <1>3, <2>2
    <3>2. r.cur \in DOMAIN sites BY <2>4, <3>1 DEF Aside, Comes
    <3>3. sites'[r.cur].on = sites[r.cur].on BY <2>4, <3>2 DEF Aside, Stays
    <3> QED BY <1>2, <2>1, <3>2, <3>3
  <2> QED BY <2>3, <2>4
<1>5. r.reply \in {"unknown", "unfinished"} /\ r.cur \in DOMAIN sites' =>
        /\ ~sites'[r.cur].on
        /\ r.cur \notin stale => Carries(entries, r.cur) = {}
  <2>1. HAVE r.reply \in {"unknown", "unfinished"} /\ r.cur \in DOMAIN sites'
  <2>2. CASE r.cur \in DOMAIN sites
    <3>1. sites'[r.cur].on = sites[r.cur].on BY <2>1, <2>2 DEF Aside, Stays
    <3> QED BY <1>2, <2>1, <2>2, <3>1
  <2>3. CASE r.cur \notin DOMAIN sites
    <3>1. r.cur > serials /\ ~sites'[r.cur].on BY <2>1, <2>3 DEF Aside, Comes
    <3>2. ASSUME r.cur \notin stale, NEW e \in Carries(entries, r.cur) PROVE FALSE
      <4>1. e \in DOMAIN entries /\ entries[e].serial = r.cur BY <3>2 DEF Carries
      <4>2. r.cur # 0 BY <1>3, <3>1
      <4>3. e \in Armed(entries) BY <4>1, <4>2, EntryIs DEF Typed
      <4>4. entries[e].serial <= serials BY <3>2, <4>1, <4>3 DEF Bound
      <4> QED BY <1>3, <3>1, <4>1, <4>4
    <3> QED BY <3>1, <3>2
  <2> QED BY <2>2, <2>3
<1> QED BY <1>2, <1>4, <1>5

LEMMA AsidePicture == ASSUME Typed, Bound, Picture, Aside PROVE Picture'
<1>1. UNCHANGED <<entries, call, stale, unsure, doubled>> BY DEF Aside, histVars
<1>2. Enabling' = Enabling /\ \A e : Todo(e)' <=> Todo(e) BY <1>1 DEF Enabling, Todo, Ahead
<1>3. \A n : InFlux(n)' <=> InFlux(n) BY <1>1 DEF InFlux, Flux
<1>4. \A n \in Sure' : /\ n \notin DOMAIN sites => ~sites'[n].on
                       /\ n \in DOMAIN sites => n \in Sure /\ sites'[n].on = sites[n].on
  BY <1>1 DEF Sure, Aside, Stays, Comes
<1>5. \A e \in Armed(entries) : entries[e].serial \in DOMAIN sites' \ stale =>
        entries[e].serial \in DOMAIN sites
  BY NotNew
<1>6. OneEach'
  <2> HIDE DEF Enabling
  <2> QED BY <1>1, <1>2, <1>5 DEF OneEach, Picture
<1> USE DEF Picture
<1>7. Strays'
  <2>1. SUFFICES ASSUME NEW n \in Sure', sites'[n].on, ~InFlux(n)' PROVE Carries(entries, n) # {}
    BY <1>1 DEF Strays
  <2>2. n \in Sure /\ sites[n].on /\ ~InFlux(n) BY <1>3, <1>4, <2>1
  <2> HIDE DEF InFlux, Sure
  <2> QED BY <2>2 DEF Strays
<1>8. Flags'
  <2>1. SUFFICES ASSUME NEW e \in Armed(entries), NEW n, n = entries[e].serial, n \in Sure', ~InFlux(n)'
                 PROVE  /\ e \in Enabling /\ ~Todo(e) => sites'[n].on
                        /\ /\ e \notin Enabling /\ n \notin doubled
                           /\ \A k \in Armed(entries) \cap Enabling : entries[k].serial # n
                           => sites'[n].on = entries[e].enabled
    <3> HIDE DEF Enabling, Todo, InFlux, Sure
    <3> QED BY <1>1, <1>2 DEF Flags
  <2>2. n \in DOMAIN sites' \ stale BY <1>1, <2>1 DEF Sure
  <2>3. n \in DOMAIN sites BY <1>5, <2>1, <2>2
  <2>4. n \in Sure /\ ~InFlux(n) /\ sites'[n].on = sites[n].on BY <1>3, <1>4, <2>1, <2>3
  <2> HIDE DEF Enabling, Todo, InFlux, Sure
  <2> QED BY <2>1, <2>4 DEF Flags
<1> QED BY <1>6, <1>7, <1>8

\* What such a step has still to be shown to keep.
LEMMA AsideKeeps == ASSUME IInv, Typed', ProverOK', Deaths', Aside PROVE IInv'
<1>1. /\ Typed /\ Locking /\ ProverOK /\ Bound /\ HandsOK /\ StagesOK /\ RepliesOK /\ WireOK
      /\ Deaths /\ Picture
  BY DEF IInv, Picture
<1>2. Locking' /\ WireOK' BY <1>1 DEF Aside, Locking, WireOK, histVars
<1>3. Bound' /\ HandsOK' /\ StagesOK' /\ RepliesOK' /\ Picture'
  BY <1>1, AsideBound, AsideHandsOK, AsideStagesOK, AsideRepliesOK, AsidePicture
<1> QED BY <1>2, <1>3 DEF IInv, Picture
-----------------------------------------------------------------------------
(* Evaluation, edits, a cancellation's retirement and a relaunch.          *)

LEMMA CompileKeeps == ASSUME IInv, Compile PROVE IInv'
<1>1. PICK s \in {x \in Stmts : \A n \in DOMAIN sites : sites[n].stmt # x}, done \in BOOLEAN :
        /\ sites' = Put(sites, serials + 1, [stmt |-> s, ready |-> done, on |-> FALSE])
        /\ held' = held \cup {FileOf[s]}
  BY DEF Compile
<1>2. /\ prover = "up" /\ serials < MaxSerial /\ sweep = {} /\ serials' = serials + 1
      /\ UNCHANGED <<prover, life, at, wire, entries, born, dirty, lock, call, sweep, reportVars, histVars>>
  BY DEF Compile
<1>3. Typed /\ ProverOK /\ Deaths /\ serials \in 0..MaxSerial /\ MaxSerial \in Nat
  BY Bounds DEF IInv, Typed
<1>4. s \in Stmts /\ (\A n \in DOMAIN sites : sites[n].stmt # s) /\ FileOf[s] \in Files
  BY <1>1, RegistryAssumption
<1>5. /\ DOMAIN sites' = DOMAIN sites \cup {serials + 1}
      /\ sites'[serials + 1] = [stmt |-> s, ready |-> done, on |-> FALSE]
      /\ \A n \in DOMAIN sites : n # serials + 1 /\ sites'[n] = sites[n]
  <2>1. \A n \in DOMAIN sites : n \in 1..serials BY <1>3 DEF Typed
  <2>2. \A n \in DOMAIN sites : n # serials + 1 BY <1>3, <2>1
  <2> QED BY <1>1, <2>2 DEF Put
<1>6. Typed'
  <2>1. DOMAIN sites' \subseteq 1..serials' /\ serials' \in 0..MaxSerial
    <3>1. DOMAIN sites \subseteq 1..serials BY <1>3 DEF Typed
    <3> QED BY <1>2, <1>3, <1>5, <3>1
  <2>2. sites' \in [DOMAIN sites' -> LiveSites]
    <3>1. ASSUME NEW n \in DOMAIN sites' PROVE sites'[n] \in LiveSites
      <4>1. CASE n \in DOMAIN sites BY <1>3, <1>5, <4>1 DEF Typed
      <4>2. CASE n = serials + 1
        <5>1. FALSE \in BOOLEAN /\ done \in BOOLEAN BY <1>1
        <5>2. [stmt |-> s, ready |-> done, on |-> FALSE] \in LiveSites BY <1>4, <5>1 DEF LiveSites
        <5> QED BY <1>5, <4>2, <5>2
      <4> QED BY <1>5, <4>1, <4>2
    <3>2. sites' = [n \in DOMAIN sites' |-> sites'[n]] BY <1>1 DEF Put
    <3> QED BY <3>1, <3>2
  <2>3. held' \subseteq Files BY <1>1, <1>3, <1>4 DEF Typed
  <2> QED BY <1>2, <1>3, <2>1, <2>2, <2>3 DEF Typed, histVars, reportVars
<1>7. ProverOK'
  <2>1. \A n \in DOMAIN sites' : FileOf[sites'[n].stmt] \in held' /\ (sites'[n].on => sites'[n].ready)
    <3>1. \A n \in DOMAIN sites : FileOf[sites[n].stmt] \in held /\ (sites[n].on => sites[n].ready)
      BY <1>3 DEF ProverOK
    <3>2. sites'[serials + 1].stmt = s /\ ~sites'[serials + 1].on BY <1>5
    <3>3. held \subseteq held' /\ FileOf[s] \in held' BY <1>1
    <3> QED BY <1>5, <3>1, <3>2, <3>3
  <2>2. \A m, n \in DOMAIN sites' : sites'[m].stmt = sites'[n].stmt => m = n
    BY <1>3, <1>4, <1>5 DEF ProverOK
  <2> QED BY <1>2, <1>3, <2>1, <2>2 DEF ProverOK
<1>8. Deaths'
  <2>1. Reports'
    <3>1. \A d \in due : serials + 1 \notin d.died /\ d.died \subseteq 1..serials'
      <4>1. \A d \in due : d.died \subseteq 1..serials BY <1>3 DEF Deaths, Reports
      <4>2. serials + 1 \notin 1..serials /\ 1..serials \subseteq 1..serials' BY <1>2, <1>3
      <4> QED BY <4>1, <4>2
    <3> QED BY <1>2, <1>3, <1>5, <3>1 DEF Deaths, Reports, reportVars, histVars
  <2> QED BY <1>2, <1>3, <1>5, <2>1 DEF Deaths, Noticed, histVars, reportVars
<1>9. Aside
  <2>1. \A n \in DOMAIN sites' : IF n \in DOMAIN sites THEN Stays(n) ELSE Comes(n)
    BY <1>2, <1>3, <1>5 DEF Stays, Comes
  <2>2. serials <= serials' BY <1>2, <1>3
  <2> QED BY <1>2, <2>1, <2>2 DEF Aside
<1> QED BY <1>6, <1>7, <1>8, <1>9, AsideKeeps

LEMMA FinishCommandKeeps == ASSUME IInv, FinishCommand PROVE IInv'
<1>1. PICK n \in DOMAIN sites : sites' = [sites EXCEPT ![n].ready = TRUE] BY DEF FinishCommand
<1>2. UNCHANGED <<prover, life, held, at, serials, wire, entries, born, dirty, lock,
                  call, sweep, reportVars, histVars>>
  BY DEF FinishCommand
<1>3. Typed /\ ProverOK /\ Deaths BY DEF IInv
<1>4. /\ DOMAIN sites' = DOMAIN sites
      /\ \A m \in DOMAIN sites : /\ sites'[m] \in LiveSites /\ sites'[m].stmt = sites[m].stmt
                                 /\ sites'[m].on = sites[m].on
                                 /\ sites[m].ready => sites'[m].ready
  <2>1. \A m \in DOMAIN sites : sites[m] \in LiveSites BY <1>3 DEF Typed
  <2> QED BY <1>1, <2>1 DEF LiveSites
<1>5. sites' = [m \in DOMAIN sites' |-> sites'[m]] BY <1>1, <1>3 DEF Typed
<1>6. sites' \in [DOMAIN sites' -> LiveSites] BY <1>4, <1>5
<1>7. Typed' BY <1>2, <1>3, <1>4, <1>6 DEF Typed, histVars, reportVars
<1>8. ProverOK' BY <1>2, <1>3, <1>4 DEF ProverOK
<1>9. Deaths' BY <1>2, <1>3, <1>4 DEF Deaths, Reports, Noticed, histVars, reportVars
<1>10. Aside
  <2>1. serials <= serials' BY <1>2, <1>3, Bounds DEF Typed
  <2> QED BY <1>2, <1>4, <2>1 DEF Aside, Stays
<1> QED BY <1>7, <1>8, <1>9, <1>10, AsideKeeps

LEMMA DeadIs ==
  ASSUME Typed, NEW stmts, sites' = Dead(stmts)
  PROVE  /\ sites' \in [DOMAIN sites' -> LiveSites] /\ DOMAIN sites' \subseteq DOMAIN sites
         /\ \A n \in DOMAIN sites' : sites'[n] = sites[n] /\ sites[n].stmt \in Stmts \ stmts
         /\ \A n \in DOMAIN sites \ DOMAIN sites' : sites[n].stmt \in stmts
<1>1. \A n \in DOMAIN sites : sites[n] \in LiveSites BY DEF Typed
<1> QED BY <1>1 DEF Dead, LiveSites

\* The entry of a site that died stood on its statement.
LEMMA DiedHere ==
  ASSUME Typed, Bound, NEW e \in Armed(entries), entries[e].serial \in DOMAIN sites \ stale
  PROVE  /\ entries[e].file = FileOf[sites[entries[e].serial].stmt]
         /\ entries[e].line = at[sites[entries[e].serial].stmt]
BY DEF Bound, Fits

\* The text moves, and the sites compiled anew are gone; all else stays.
\* The statements STMTS, of F and of what is downstream of it, lose their sites.
Ruined(f, stmts) ==
  /\ sites' = Dead(stmts) /\ prover = "up"
  /\ stmts \subseteq {t \in Stmts : FileOf[t] = f \/ FileOf[t] \in Downstream[f]}
  /\ UNCHANGED <<prover, life, held, serials, wire, entries, born, lock, call, sweep, histVars>>

LEMMA RuinedIs ==
  ASSUME IInv, NEW f, NEW stmts, Ruined(f, stmts)
  PROVE  /\ sites' \in [DOMAIN sites' -> LiveSites] /\ DOMAIN sites' \subseteq DOMAIN sites
         /\ \A n \in DOMAIN sites' : sites'[n] = sites[n] /\ sites[n].stmt \in Stmts \ stmts
         /\ \A e \in Armed(entries) :
              entries[e].serial \in DOMAIN sites \ DOMAIN sites' => entries[e].serial \in Killed(stmts)
         /\ Killed(stmts) \subseteq DOMAIN sites \ DOMAIN sites'
         /\ \A e \in Armed(entries) : entries[e].serial \in Killed(stmts) \ stale =>
              Leads({f}, entries[e].file)
<1>1. Typed /\ ProverOK /\ Bound BY DEF IInv
<1>2. /\ sites' \in [DOMAIN sites' -> LiveSites] /\ DOMAIN sites' \subseteq DOMAIN sites
      /\ \A n \in DOMAIN sites' : sites'[n] = sites[n] /\ sites[n].stmt \in Stmts \ stmts
      /\ \A n \in DOMAIN sites \ DOMAIN sites' : sites[n].stmt \in stmts
  BY <1>1, DeadIs DEF Ruined
<1>3. Killed(stmts) \subseteq DOMAIN sites \ DOMAIN sites'
  <2>1. \A n \in Killed(stmts) : n \in DOMAIN sites /\ sites[n].stmt \in stmts BY DEF Killed
  <2> QED BY <1>2, <2>1
<1>4. \A e \in Armed(entries) :
        entries[e].serial \in DOMAIN sites \ DOMAIN sites' => entries[e].serial \in Killed(stmts)
  <2>1. \A e \in Armed(entries) : e \in Carries(entries, entries[e].serial) BY DEF Armed, Carries
  <2> QED BY <1>2, <2>1 DEF Killed
<1>5. \A e \in Armed(entries) : entries[e].serial \in Killed(stmts) \ stale =>
        Leads({f}, entries[e].file)
  <2>1. SUFFICES ASSUME NEW e \in Armed(entries), entries[e].serial \in Killed(stmts) \ stale
                 PROVE  Leads({f}, entries[e].file)
    OBVIOUS
  <2>2. entries[e].serial \in DOMAIN sites /\ sites[entries[e].serial].stmt \in stmts
    BY <2>1 DEF Killed
  <2>3. entries[e].file = FileOf[sites[entries[e].serial].stmt] BY <1>1, <2>1, <2>2, DiedHere
  <2>4. entries[e].file = f \/ entries[e].file \in Downstream[f] BY <2>2, <2>3 DEF Ruined
  <2> QED BY <2>4 DEF Leads
<1> QED BY <1>2, <1>3, <1>4, <1>5

\* An edit of the statement S, and the lines it moves.
Edited(s, l, stmts) ==
  /\ EditLands(s, l, stmts) /\ Ruined(FileOf[s], stmts) /\ s \in stmts

LEMMA EditedIs ==
  ASSUME IInv, NEW s \in Stmts, NEW l \in Lines, NEW stmts, Edited(s, l, stmts)
  PROVE  at' \in [Stmts -> Lines] /\ ProverOK' /\ Aside
<1>1. /\ \A t \in Stmts : FileOf[t] = FileOf[s] => at[t] # l
      /\ at' = [at EXCEPT ![s] = l] /\ prover = "up" /\ s \in stmts
      /\ UNCHANGED <<prover, life, held, serials, wire, entries, born, lock, call, sweep, histVars>>
  BY DEF Edited, EditLands, Ruined
<1>2. Typed /\ ProverOK BY DEF IInv
<1>3. /\ DOMAIN sites' \subseteq DOMAIN sites
      /\ \A n \in DOMAIN sites' : sites'[n] = sites[n] /\ sites[n].stmt \in Stmts \ stmts
  BY RuinedIs DEF Edited
<1>4. /\ at' \in [Stmts -> Lines] /\ at'[s] = l /\ \A t \in Stmts \ {s} : at'[t] = at[t]
  BY <1>1, <1>2 DEF Typed
<1>5. ProverOK'
  <2>1. \A n \in DOMAIN sites' : FileOf[sites'[n].stmt] \in held' /\ (sites'[n].on => sites'[n].ready)
    BY <1>1, <1>2, <1>3 DEF ProverOK
  <2>2. \A m, n \in DOMAIN sites' : sites'[m].stmt = sites'[n].stmt => m = n
    BY <1>2, <1>3 DEF ProverOK
  <2>3. \A t, u \in Stmts : FileOf[t] = FileOf[u] /\ at'[t] = at'[u] => t = u
    BY <1>1, <1>2, <1>4 DEF ProverOK
  <2>4. \A u \in sweep' : \A n \in DOMAIN sites' :
          /\ FileOf[sites'[n].stmt] = u.file => ~(at'[sites'[n].stmt] >= u.line)
          /\ FileOf[sites'[n].stmt] \notin u.loads
    <3>1. \A n \in DOMAIN sites' : at'[sites[n].stmt] = at[sites[n].stmt] BY <1>1, <1>3, <1>4
    <3> QED BY <1>1, <1>2, <1>3, <3>1 DEF ProverOK
  <2> QED BY <1>1, <2>1, <2>2, <2>3, <2>4 DEF ProverOK
<1>6. Aside
  <2>1. serials <= serials' BY <1>1, <1>2, Bounds DEF Typed
  <2>2. \A n \in DOMAIN sites' : n \in DOMAIN sites /\ Stays(n) BY <1>1, <1>3, <1>4 DEF Stays
  <2> QED BY <1>1, <2>1, <2>2 DEF Aside
<1> QED BY <1>4, <1>5, <1>6

\* An edit whose mark is still to come.
LEMMA EditDueKeeps ==
  ASSUME IInv, NEW s \in Stmts, NEW l \in Lines, NEW stmts, NEW way \in {"push", "flush"},
         Edited(s, l, stmts), due' = due \cup {Due(FileOf[s], way, stmts)},
         dirty' = dirty, coming' \subseteq Files, untold' = untold
  PROVE  IInv'
<1>1. Typed /\ Deaths BY DEF IInv
<1> DEFINE d0 == Due(FileOf[s], way, stmts)
<1>2. at' \in [Stmts -> Lines] /\ ProverOK' /\ Aside BY EditedIs
<1>3. /\ prover = "up"
      /\ UNCHANGED <<prover, life, held, serials, wire, entries, born, lock, call, sweep, histVars>>
  BY DEF Edited, Ruined
<1>4. /\ sites' \in [DOMAIN sites' -> LiveSites] /\ DOMAIN sites' \subseteq DOMAIN sites
      /\ \A e \in Armed(entries) :
           entries[e].serial \in DOMAIN sites \ DOMAIN sites' => entries[e].serial \in Killed(stmts)
      /\ Killed(stmts) \subseteq DOMAIN sites \ DOMAIN sites'
      /\ \A e \in Armed(entries) : entries[e].serial \in Killed(stmts) \ stale =>
           Leads({FileOf[s]}, entries[e].file)
  BY RuinedIs DEF Edited
<1>5. d0.file = FileOf[s] /\ d0.died = Killed(stmts) /\ due' = due \cup {d0} BY DEF Due
<1>6. Typed'
  <2>1. DOMAIN sites \subseteq 1..serials /\ 1..serials \subseteq Serials BY <1>1, Bounds DEF Typed, Serials
  <2>2. FileOf[s] \in Files BY RegistryAssumption
  <2>3. d0 \in [file : Files, way : {"push", "flush"}, died : SUBSET Serials]
    BY <1>4, <2>1, <2>2 DEF Due
  <2>4. due' \subseteq [file : Files, way : {"push", "flush"}, died : SUBSET Serials]
    BY <1>1, <1>5, <2>3 DEF Typed
  <2>5. DOMAIN sites' \subseteq 1..serials' BY <1>3, <1>4, <2>1
  <2> HIDE DEF d0
  <2> QED BY <1>1, <1>2, <1>3, <1>4, <2>4, <2>5 DEF Typed, histVars
<1> HIDE DEF d0
<1>7. Reports'
  <2>1. SUFFICES ASSUME NEW d \in due'
                 PROVE  /\ d.died \cap DOMAIN sites' = {} /\ d.died \subseteq 1..serials
                        /\ \A e \in Armed(entries) :
                             entries[e].serial \in d.died \ stale => Leads({d.file}, entries[e].file)
    BY <1>3 DEF Reports, histVars
  <2>2. CASE d \in due BY <1>1, <1>4, <2>2 DEF Deaths, Reports
  <2>3. CASE d = d0
    <3>1. d.died \subseteq 1..serials BY <1>1, <1>4, <1>5, <2>3 DEF Typed
    <3> QED BY <1>4, <1>5, <2>3, <3>1
  <2> QED BY <1>5, <2>1, <2>2, <2>3
<1>8. Deaths'
  <2>1. SUFFICES ASSUME NEW e \in Armed(entries),
                        entries[e].serial \notin DOMAIN sites' \cup stale \cup untold
                 PROVE  Noticed(e)'
    BY <1>3, <1>7 DEF Deaths, histVars
  <2>2. CASE entries[e].serial \in DOMAIN sites
    <3>1. entries[e].serial \in d0.died /\ d0 \in due' BY <1>4, <1>5, <2>1, <2>2
    <3> QED BY <1>3, <3>1 DEF Noticed
  <2>3. CASE entries[e].serial \notin DOMAIN sites
    <3>1. Noticed(e) BY <1>1, <2>1, <2>3 DEF Deaths
    <3> QED BY <1>3, <1>5, <3>1 DEF Noticed
  <2> QED BY <2>2, <2>3
<1> QED BY <1>2, <1>6, <1>8, AsideKeeps

\* What an edit recompiles, at once and downstream.
LEMMA EditScope ==
  ASSUME NEW s \in Stmts, NEW l
  PROVE  /\ s \in Below(s, l) /\ s \in Recompiled(s, l)
         /\ Below(s, l) \subseteq Recompiled(s, l)
         /\ Recompiled(s, l) \subseteq
              {t \in Stmts : FileOf[t] = FileOf[s] \/ FileOf[t] \in Downstream[FileOf[s]]}
BY DEF Below, Recompiled, Importing

LEMMA EditPushedKeeps == ASSUME IInv, EditPushed PROVE IInv'
<1>1. PICK s \in {t \in Stmts : FileOf[t] \notin ML}, l \in Lines :
        /\ EditLands(s, l, Below(s, l))
        /\ due' = due \cup {Due(FileOf[s], "push", Below(s, l))}
        /\ coming' = coming \cup {FileOf[s]}
  BY DEF EditPushed
<1>2. Edited(s, l, Below(s, l)) /\ dirty' = dirty /\ untold' = untold
  BY <1>1, EditScope DEF EditPushed, Edited, EditLands, Ruined
<1>3. coming' \subseteq Files
  <2>1. coming \subseteq Files BY DEF IInv, Typed
  <2> QED BY <1>1, <2>1, RegistryAssumption
<1>4. "push" \in {"push", "flush"} OBVIOUS
<1> QED BY <1>1, <1>2, <1>3, <1>4, EditDueKeeps

LEMMA EditRereadKeeps == ASSUME IInv, EditReread PROVE IInv'
<1>1. PICK s \in Stmts, l \in Lines :
        /\ EditLands(s, l, Recompiled(s, l))
        /\ due' = due \cup {Due(FileOf[s], "flush", Recompiled(s, l))}
  BY DEF EditReread
<1>2. Edited(s, l, Recompiled(s, l)) /\ dirty' = dirty /\ coming' = coming /\ untold' = untold
  BY <1>1, EditScope DEF EditReread, Edited, EditLands, Ruined
<1>3. coming' \subseteq Files BY <1>2 DEF IInv, Typed
<1>4. "flush" \in {"push", "flush"} OBVIOUS
<1> QED BY <1>1, <1>2, <1>3, <1>4, EditDueKeeps

LEMMA EditAbsorbedKeeps == ASSUME IInv, EditAbsorbed PROVE IInv'
<1>1. PICK s \in Stmts, l \in Lines :
        EditLands(s, l, Recompiled(s, l)) /\ untold' = untold \cup Killed(Recompiled(s, l))
  BY DEF EditAbsorbed
<1> DEFINE stmts == Recompiled(s, l)
<1>2. Edited(s, l, stmts) /\ dirty' = dirty /\ due' = due /\ coming' = coming
  BY <1>1, EditScope DEF EditAbsorbed, Edited, EditLands, Ruined
<1>3. untold' = untold \cup Killed(stmts) BY <1>1
<1> HIDE DEF stmts
<1>4. Typed /\ Deaths BY DEF IInv
<1>5. at' \in [Stmts -> Lines] /\ ProverOK' /\ Aside BY <1>2, EditedIs
<1>6. /\ sites' \in [DOMAIN sites' -> LiveSites] /\ DOMAIN sites' \subseteq DOMAIN sites
      /\ \A e \in Armed(entries) :
           entries[e].serial \in DOMAIN sites \ DOMAIN sites' => entries[e].serial \in Killed(stmts)
      /\ Killed(stmts) \subseteq DOMAIN sites \ DOMAIN sites'
  BY <1>2, RuinedIs DEF Edited
<1>7. UNCHANGED <<prover, life, held, serials, wire, entries, born, lock, call, sweep, histVars>>
  BY <1>2 DEF Edited, Ruined
<1>8. Typed'
  <2>1. DOMAIN sites \subseteq 1..serials /\ 1..serials \subseteq Serials BY <1>4, Bounds DEF Typed, Serials
  <2>2. untold' \subseteq Serials BY <1>3, <1>4, <1>6, <2>1 DEF Typed
  <2>3. DOMAIN sites' \subseteq 1..serials' BY <1>6, <1>7, <2>1
  <2> QED BY <1>2, <1>4, <1>5, <1>6, <1>7, <2>2, <2>3 DEF Typed, histVars
<1>9. Reports' BY <1>2, <1>4, <1>6, <1>7 DEF Deaths, Reports, histVars
<1>10. Deaths'
  <2>1. SUFFICES ASSUME NEW e \in Armed(entries),
                        entries[e].serial \notin DOMAIN sites' \cup stale \cup untold'
                 PROVE  Noticed(e)'
    BY <1>7, <1>9 DEF Deaths, histVars
  <2>2. entries[e].serial \notin DOMAIN sites \cup stale \cup untold BY <1>3, <1>6, <2>1
  <2>3. Noticed(e) BY <1>4, <2>1, <2>2 DEF Deaths
  <2> QED BY <1>2, <1>7, <2>3 DEF Noticed
<1> QED BY <1>5, <1>8, <1>10, AsideKeeps

\* The push reaches what is downstream: its mark stands, is still to come, or
\* was popped too early.
LEMMA EditReachesKeeps == ASSUME IInv, NEW f \in coming, EditReaches(f) PROVE IInv'
<1> DEFINE stmts == Importing(f)
           more(d) == IF d.file = f THEN d.died \cup Killed(stmts) ELSE d.died
           after(d) == [d EXCEPT !.died = more(d)]
<1>1. /\ sites' = Dead(stmts) /\ prover = "up"
      /\ due' = {after(d) : d \in due}
      /\ untold' = IF f \in dirty \cup {d.file : d \in due} THEN untold
                   ELSE untold \cup Killed(stmts)
      /\ coming' = coming \ {f}
      /\ UNCHANGED <<prover, life, held, at, serials, wire, entries, born, dirty, lock, call,
                     sweep, histVars>>
  BY DEF EditReaches
<1>2. Ruined(f, stmts)
  <2>1. stmts \subseteq {t \in Stmts : FileOf[t] = f \/ FileOf[t] \in Downstream[f]} BY DEF Importing
  <2> QED BY <1>1, <2>1 DEF Ruined
<1> HIDE DEF stmts
<1>3. Typed /\ ProverOK /\ Deaths BY DEF IInv
<1>4. /\ sites' \in [DOMAIN sites' -> LiveSites] /\ DOMAIN sites' \subseteq DOMAIN sites
      /\ \A n \in DOMAIN sites' : sites'[n] = sites[n]
      /\ \A e \in Armed(entries) :
           entries[e].serial \in DOMAIN sites \ DOMAIN sites' => entries[e].serial \in Killed(stmts)
      /\ Killed(stmts) \subseteq DOMAIN sites \ DOMAIN sites'
      /\ \A e \in Armed(entries) : entries[e].serial \in Killed(stmts) \ stale =>
           Leads({f}, entries[e].file)
  BY <1>2, RuinedIs
<1>5. /\ DOMAIN sites \subseteq 1..serials /\ 1..serials \subseteq Serials
      /\ Killed(stmts) \subseteq 1..serials
  BY <1>3, <1>4, Bounds DEF Typed, Serials
<1>6. \A d \in due : /\ after(d) \in [file : Files, way : {"push", "flush"}, died : SUBSET Serials]
                     /\ after(d).file = d.file /\ after(d).died = more(d)
  <2>1. SUFFICES ASSUME NEW d \in due
                 PROVE  /\ after(d) \in [file : Files, way : {"push", "flush"}, died : SUBSET Serials]
                        /\ after(d).file = d.file /\ after(d).died = more(d)
    OBVIOUS
  <2>2. d \in [file : Files, way : {"push", "flush"}, died : SUBSET Serials] BY <1>3 DEF Typed
  <2>3. more(d) \in SUBSET Serials BY <1>5, <2>2
  <2> HIDE DEF more
  <2> QED BY <2>2, <2>3
<1> HIDE DEF after
<1>7. Typed'
  <2>1. due' \subseteq [file : Files, way : {"push", "flush"}, died : SUBSET Serials] BY <1>1, <1>6
  <2>2. untold' \subseteq Serials BY <1>1, <1>3, <1>5 DEF Typed
  <2>3. DOMAIN sites' \subseteq 1..serials' BY <1>1, <1>4, <1>5
  <2>4. coming' \subseteq Files BY <1>1, <1>3 DEF Typed
  <2> QED BY <1>1, <1>3, <1>4, <2>1, <2>2, <2>3, <2>4 DEF Typed, histVars
<1>8. ProverOK' BY <1>1, <1>3, <1>4 DEF ProverOK
<1>9. Reports'
  <2>1. SUFFICES ASSUME NEW d \in due
                 PROVE  /\ more(d) \cap DOMAIN sites' = {} /\ more(d) \subseteq 1..serials
                        /\ \A e \in Armed(entries) :
                             entries[e].serial \in more(d) \ stale => Leads({d.file}, entries[e].file)
    <3> HIDE DEF more
    <3>1. SUFFICES ASSUME NEW x \in due'
                   PROVE  /\ x.died \cap DOMAIN sites' = {} /\ x.died \subseteq 1..serials
                          /\ \A e \in Armed(entries) :
                               entries[e].serial \in x.died \ stale =>
                                 Leads({x.file}, entries[e].file)
      <4>1. UNCHANGED <<serials, entries, stale>> /\ prover = "up" /\ prover' = "up"
        BY <1>1 DEF histVars
      <4> QED BY <3>1, <4>1 DEF Reports
    <3>2. PICK d \in due : x = after(d) BY <1>1
    <3>3. x.file = d.file /\ x.died = more(d) BY <1>6, <3>2
    <3> QED BY <2>1, <3>3
  <2>2. /\ d.died \cap DOMAIN sites = {} /\ d.died \subseteq 1..serials
        /\ \A e \in Armed(entries) :
             entries[e].serial \in d.died \ stale => Leads({d.file}, entries[e].file)
    BY <1>3 DEF Deaths, Reports
  <2> QED BY <1>4, <1>5, <2>2
<1>10. Deaths'
  <2>1. SUFFICES ASSUME NEW e \in Armed(entries),
                        entries[e].serial \notin DOMAIN sites' \cup stale \cup untold'
                 PROVE  Noticed(e)'
    BY <1>1, <1>9 DEF Deaths, histVars
  <2>2. \A d \in due : after(d) \in due' /\ d.died \subseteq after(d).died BY <1>1, <1>6
  <2>3. CASE entries[e].serial \in DOMAIN sites
    <3>1. entries[e].serial \in Killed(stmts) BY <1>4, <2>1, <2>3
    <3>2. f \in dirty \cup {d.file : d \in due} BY <1>1, <2>1, <3>1
    <3>3. CASE f \in dirty
      <4>1. Leads({f}, entries[e].file) BY <1>1, <1>4, <2>1, <3>1 DEF histVars
      <4>2. Leads(dirty, entries[e].file) BY <3>3, <4>1 DEF Leads
      <4> QED BY <1>1, <4>2 DEF Noticed
    <3>4. CASE \E d \in due : d.file = f
      <4>1. PICK d \in due : d.file = f BY <3>4
      <4>2. entries[e].serial \in after(d).died BY <1>6, <3>1, <4>1
      <4> QED BY <1>1, <2>2, <4>1, <4>2 DEF Noticed
    <3> QED BY <3>2, <3>3, <3>4
  <2>4. CASE entries[e].serial \notin DOMAIN sites
    <3>1. untold \subseteq untold' BY <1>1
    <3>2. Noticed(e) BY <1>3, <2>1, <2>4, <3>1 DEF Deaths
    <3>3. (\E d \in due : entries[e].serial \in d.died) => \E d \in due' : entries[e].serial \in d.died
      BY <2>2
    <3> QED BY <1>1, <3>2, <3>3 DEF Noticed
  <2> QED BY <2>3, <2>4
<1>11. Aside
  <2>1. serials <= serials' BY <1>1, <1>5, Bounds, <1>3 DEF Typed
  <2>2. \A n \in DOMAIN sites' : n \in DOMAIN sites /\ Stays(n) BY <1>1, <1>4 DEF Stays
  <2> QED BY <1>1, <2>1, <2>2 DEF Aside
<1> QED BY <1>7, <1>8, <1>10, <1>11, AsideKeeps

\* A mark that comes leads to the entries it was to lead to ...
LEMMA MarkSetKeeps == ASSUME IInv, NEW d \in due, MarkSet(d) PROVE IInv'
<1>1. /\ due' = due \ {d} /\ dirty' = dirty \cup {d.file} /\ untold' = untold
      /\ coming' = coming
      /\ UNCHANGED <<prover, life, held, at, sites, serials, wire>>
      /\ UNCHANGED <<entries, born, lock, call, sweep, histVars>>
  BY DEF MarkSet, progVars
<1>2. Typed /\ ProverOK /\ Deaths BY DEF IInv
<1>3. Typed'
  <2>1. d.file \in Files BY <1>2 DEF Typed
  <2> QED BY <1>1, <1>2, <2>1 DEF Typed, histVars
<1>4. ProverOK' BY <1>1, <1>2 DEF ProverOK
<1>5. Reports' BY <1>1, <1>2 DEF Deaths, Reports, histVars
<1>6. Deaths'
  <2>1. SUFFICES ASSUME NEW e \in Armed(entries),
                        entries[e].serial \notin DOMAIN sites \cup stale \cup untold
                 PROVE  Noticed(e)'
    BY <1>1, <1>5 DEF Deaths, histVars
  <2>2. Noticed(e) BY <1>2, <2>1 DEF Deaths
  <2>3. CASE entries[e].serial \in d.died
    <3>1. Leads({d.file}, entries[e].file) BY <1>2, <2>1, <2>3 DEF Deaths, Reports
    <3>2. Leads(dirty', entries[e].file) BY <1>1, <3>1 DEF Leads
    <3> QED BY <1>1, <3>2 DEF Noticed
  <2>4. CASE entries[e].serial \notin d.died
    <3>1. Leads(dirty, entries[e].file) => Leads(dirty', entries[e].file) BY <1>1 DEF Leads
    <3> QED BY <1>1, <2>2, <2>4, <3>1 DEF Noticed
  <2> QED BY <2>3, <2>4
<1>7. Aside
  <2>1. serials <= serials' BY <1>1, <1>2, Bounds DEF Typed
  <2> QED BY <1>1, <2>1 DEF Aside, Stays
<1> QED BY <1>3, <1>4, <1>6, <1>7, AsideKeeps

\* ... and with one that is lost they are on the record as untold.
LEMMA MarkLostKeeps == ASSUME IInv, NEW d \in due, MarkLost(d) PROVE IInv'
<1>1. /\ due' = due \ {d} /\ untold' = untold \cup d.died
      /\ coming' = coming
      /\ UNCHANGED <<prover, life, held, at, sites, serials, wire>>
      /\ UNCHANGED <<entries, born, dirty, lock, call, sweep, histVars>>
  BY DEF MarkLost, progVars
<1>2. Typed /\ ProverOK /\ Deaths BY DEF IInv
<1>3. Typed'
  <2>1. d.died \subseteq Serials BY <1>2 DEF Typed
  <2> QED BY <1>1, <1>2, <2>1 DEF Typed, histVars
<1>4. ProverOK' BY <1>1, <1>2 DEF ProverOK
<1>5. Reports' BY <1>1, <1>2 DEF Deaths, Reports, histVars
<1>6. Deaths'
  <2>1. SUFFICES ASSUME NEW e \in Armed(entries),
                        entries[e].serial \notin DOMAIN sites \cup stale \cup untold'
                 PROVE  Noticed(e)'
    BY <1>1, <1>5 DEF Deaths, histVars
  <2>2. Noticed(e) /\ entries[e].serial \notin d.died BY <1>1, <1>2, <2>1 DEF Deaths
  <2> QED BY <1>1, <2>2 DEF Noticed
<1>7. Aside
  <2>1. serials <= serials' BY <1>1, <1>2, Bounds DEF Typed
  <2> QED BY <1>1, <2>1 DEF Aside, Stays
<1> QED BY <1>3, <1>4, <1>6, <1>7, AsideKeeps

LEMMA RetireKeeps == ASSUME IInv, Retire PROVE IInv'
<1>a. PICK f \in Files, l \in Lines, withML \in BOOLEAN :
        LET loads == IF withML THEN Downstream[f] \cap ML ELSE {}
        IN /\ sites' = Dead({t \in Stmts : (FileOf[t] = f /\ at[t] >= l) \/ FileOf[t] \in loads})
           /\ sweep' = {[file |-> f, line |-> l, loads |-> loads]}
  BY DEF Retire
<1>1. PICK loads \in SUBSET Files :
        /\ sites' = Dead({t \in Stmts : (FileOf[t] = f /\ at[t] >= l) \/ FileOf[t] \in loads})
        /\ sweep' = {[file |-> f, line |-> l, loads |-> loads]}
  <2>1. Downstream[f] \cap ML \in SUBSET Files BY RegistryAssumption
  <2> QED BY <1>a, <2>1
<1>2. /\ prover = "up" /\ sweep = {} /\ due' = due /\ coming' = coming /\ untold' = untold
      /\ UNCHANGED <<prover, life, held, at, serials, wire, entries, born, dirty, lock, call, histVars>>
  BY DEF Retire, reportVars
<1>3. Typed /\ ProverOK /\ Deaths /\ Bound BY DEF IInv
<1> DEFINE stmts == {t \in Stmts : (FileOf[t] = f /\ at[t] >= l) \/ FileOf[t] \in loads}
<1>4. sites' = Dead(stmts) BY <1>1
<1>5. \A t \in Stmts : t \in stmts <=> (FileOf[t] = f /\ at[t] >= l) \/ FileOf[t] \in loads OBVIOUS
<1>6. stmts \subseteq Stmts OBVIOUS
<1> HIDE DEF stmts
<1>8. /\ sites' \in [DOMAIN sites' -> LiveSites] /\ DOMAIN sites' \subseteq DOMAIN sites
      /\ \A n \in DOMAIN sites' : sites'[n] = sites[n] /\ sites[n].stmt \in Stmts \ stmts
      /\ \A n \in DOMAIN sites \ DOMAIN sites' : sites[n].stmt \in stmts
  BY <1>3, <1>4, DeadIs
<1>10. Typed'
  <2>1. sweep' \subseteq [file : Files, line : Lines, loads : SUBSET Files] BY <1>1
  <2>2. DOMAIN sites' \subseteq 1..serials' BY <1>2, <1>3, <1>8 DEF Typed
  <2> QED BY <1>2, <1>3, <1>8, <2>1, <2>2 DEF Typed, histVars
<1>11. ProverOK'
  <2>1. \A n \in DOMAIN sites' : FileOf[sites'[n].stmt] \in held' /\ (sites'[n].on => sites'[n].ready)
    BY <1>2, <1>3, <1>8 DEF ProverOK
  <2>2. \A m, n \in DOMAIN sites' : sites'[m].stmt = sites'[n].stmt => m = n
    BY <1>3, <1>8 DEF ProverOK
  <2>4. \A u \in sweep' : \A n \in DOMAIN sites' :
          /\ FileOf[sites'[n].stmt] = u.file => ~(at'[sites'[n].stmt] >= u.line)
          /\ FileOf[sites'[n].stmt] \notin u.loads
    BY <1>1, <1>2, <1>5, <1>8
  <2> QED BY <1>2, <1>3, <2>1, <2>2, <2>4 DEF ProverOK
<1>12. Deaths'
  <2>a. Reports' BY <1>2, <1>3, <1>8 DEF Deaths, Reports, histVars
  <2>1. SUFFICES ASSUME NEW e \in Armed(entries),
                        entries[e].serial \notin DOMAIN sites' \cup stale \cup untold
                 PROVE  Noticed(e)'
    BY <1>2, <2>a DEF Deaths, histVars
  <2>2. CASE entries[e].serial \notin DOMAIN sites
    <3>1. Noticed(e) BY <1>3, <2>1, <2>2 DEF Deaths
    <3>2. e \notin Unloaded(entries, sweep) BY <1>2 DEF Unloaded
    <3> QED BY <1>2, <3>1, <3>2 DEF Noticed
  <2>3. CASE entries[e].serial \in DOMAIN sites
    <3>1. /\ entries[e].file = FileOf[sites[entries[e].serial].stmt]
          /\ entries[e].line = at[sites[entries[e].serial].stmt]
      BY <1>3, <2>1, <2>3, DiedHere
    <3>2. sites[entries[e].serial].stmt \in stmts BY <1>8, <2>1, <2>3
    <3>3. (entries[e].file = f /\ entries[e].line >= l) \/ entries[e].file \in loads
      BY <1>5, <1>6, <3>1, <3>2
    <3>4. e \in Unloaded(entries, sweep') BY <1>1, <3>3 DEF Unloaded
    <3> QED BY <1>2, <3>4 DEF Noticed
  <2> QED BY <2>2, <2>3
<1>13. Aside
  <2>1. serials <= serials' BY <1>2, <1>3, Bounds DEF Typed
  <2>2. \A n \in DOMAIN sites' : n \in DOMAIN sites /\ Stays(n) BY <1>2, <1>8 DEF Stays
  <2> QED BY <1>2, <2>1, <2>2 DEF Aside
<1> QED BY <1>10, <1>11, <1>12, <1>13, AsideKeeps

LEMMA RelaunchKeeps == ASSUME IInv, Relaunch PROVE IInv'
<1>1. /\ prover = "none" /\ prover' = "up" /\ life' = life + 1
      /\ UNCHANGED <<held, at, sites, serials, wire, entries, born, dirty, lock, call, sweep, reportVars, histVars>>
  BY DEF Relaunch
<1>2. Typed /\ ProverOK /\ Deaths BY DEF IInv
<1>3. DOMAIN sites = {} BY <1>1, <1>2 DEF ProverOK
<1>4. Typed' BY <1>1, <1>2 DEF Typed, histVars, reportVars
<1>5. ProverOK' BY <1>1, <1>2 DEF ProverOK
<1>6. Deaths'
  <2>1. due' = {} /\ untold' = untold BY <1>1, <1>2 DEF Deaths, Reports, reportVars
  <2>2. Reports' BY <2>1 DEF Reports
  <2> QED BY <1>1, <1>2, <2>1, <2>2 DEF Deaths, Noticed, histVars, reportVars
<1>7. Aside
  <2>1. serials <= serials' BY <1>1, <1>2, Bounds DEF Typed
  <2> QED BY <1>1, <1>3, <2>1 DEF Aside
<1> QED BY <1>4, <1>5, <1>6, <1>7, AsideKeeps
-----------------------------------------------------------------------------
(* The wrap-up of a cancellation.                                          *)

\* What a cancellation unloaded has no live site left.
LEMMA UnloadedIsDead ==
  ASSUME Typed, ProverOK, Bound, NEW e \in Unloaded(entries, sweep)
  PROVE  e \in Armed(entries) /\ entries[e].serial \notin DOMAIN sites \ stale
<1>1. e \in Armed(entries) BY DEF Unloaded
<1>2. PICK u \in sweep : \/ entries[e].file = u.file /\ entries[e].line >= u.line
                         \/ entries[e].file \in u.loads
  BY DEF Unloaded
<1>3. SUFFICES ASSUME entries[e].serial \in DOMAIN sites \ stale PROVE FALSE BY <1>1
<1>4. /\ entries[e].file = FileOf[sites[entries[e].serial].stmt]
      /\ entries[e].line = at[sites[entries[e].serial].stmt]
  BY <1>1, <1>3, DiedHere
<1>5. \A n \in DOMAIN sites : /\ FileOf[sites[n].stmt] = u.file => ~(at[sites[n].stmt] >= u.line)
                              /\ FileOf[sites[n].stmt] \notin u.loads
  BY DEF ProverOK
<1> QED BY <1>2, <1>3, <1>4, <1>5

\* No call awaits an answer or is arming.
LEMMA NoneHolds ==
  ASSUME Typed, Locking, lock = Nobody
  PROVE  /\ \A c \in Calls : call[c].pc \notin Switching \cup Arming /\ call[c].reply = "none"
         /\ Enabling = {} /\ \A n : ~InFlux(n)
<1>1. ASSUME NEW c \in Calls PROVE call[c].pc \notin Switching \cup Arming /\ call[c].reply = "none"
  <2>1. call[c].pc \notin Switching \cup Arming BY CallerOnly DEF Locking
  <2>2. CallOK(call[c]) BY DEF Typed
  <2> QED BY <2>1, <2>2 DEF CallOK
<1>2. Enabling = {} BY <1>1 DEF Enabling
<1>3. \A n : ~InFlux(n) BY <1>1 DEF InFlux, Flux, Switching
<1> QED BY <1>1, <1>2, <1>3

LEMMA SweepDemotesKeeps == ASSUME IInv, SweepDemotes PROVE IInv'
<1> DEFINE out == Unloaded(entries, sweep)
<1>1. /\ lock = Nobody /\ entries' = Demote(entries, out, NotEvaluated) /\ sweep' = {}
      /\ due' = due /\ coming' = coming /\ untold' = untold
      /\ UNCHANGED <<progVars, born, dirty, lock, call, histVars>>
  BY DEF SweepDemotes, reportVars
<1>2. UNCHANGED <<prover, life, held, at, sites, serials, wire, unsure, doubled, stale>>
  BY <1>1 DEF progVars, histVars
<1>3. /\ Typed /\ Locking /\ ProverOK /\ Bound /\ HandsOK /\ StagesOK /\ RepliesOK /\ WireOK
      /\ Deaths /\ OneEach /\ Strays /\ Flags
  BY DEF IInv
<1>4. \A e \in out : e \in Armed(entries) /\ entries[e].serial \notin DOMAIN sites \ stale
  BY <1>3, UnloadedIsDead
<1>5. /\ \A c \in Calls : call[c].pc \notin Switching \cup Arming /\ call[c].reply = "none"
      /\ Enabling = {} /\ \A n : ~InFlux(n)
  BY <1>1, <1>3, NoneHolds
<1>6. /\ Registry(entries') /\ DOMAIN entries' = DOMAIN entries
      /\ Armed(entries') = Armed(entries) \ out
      /\ \A e \in DOMAIN entries : e \notin out => entries'[e] = entries[e]
  <2>1. Registry(entries) BY <1>3 DEF Typed
  <2>2. NotEvaluated \in Reasons \ {"none"} BY DEF Reasons, NotEvaluated
  <2> HIDE DEF out
  <2> QED BY <1>1, <2>1, <2>2, DemoteIs
<1>7. \A e \in Armed(entries') : e \in Armed(entries) \ out /\ entries'[e] = entries[e]
  BY <1>6 DEF Armed
<1>8. Typed' BY <1>1, <1>2, <1>3, <1>6 DEF Typed
<1>9. Locking' /\ WireOK' BY <1>1, <1>2, <1>3 DEF Locking, WireOK
<1>10. ProverOK' BY <1>1, <1>2, <1>3 DEF ProverOK
<1>11. Bound' BY <1>2, <1>3, <1>7 DEF Bound, Fits
<1>12. HandsOK'
  <2>1. \A x : Agrees(x) => Agrees(x)' BY <1>2, <1>7 DEF Agrees
  <2>2. \A x, n : Fits(x, n)' <=> Fits(x, n) BY <1>2 DEF Fits
  <2> QED BY <1>1, <1>2, <1>3, <2>1, <2>2 DEF HandsOK
<1>13. StagesOK' BY <1>1, <1>5, NoStage DEF StagesOK
<1>14. RepliesOK' BY <1>1, <1>5 DEF RepliesOK, Final
<1>15. Deaths'
  <2>a. Reports' BY <1>1, <1>2, <1>3, <1>7 DEF Deaths, Reports
  <2>1. SUFFICES ASSUME NEW e \in Armed(entries) \ out, entries'[e] = entries[e],
                        entries[e].serial \notin DOMAIN sites \cup stale \cup untold
                 PROVE  Noticed(e)'
    BY <1>1, <1>2, <1>7, <2>a DEF Deaths
  <2>2. Noticed(e) BY <1>3, <2>1 DEF Deaths
  <2> QED BY <1>1, <1>2, <2>1, <2>2 DEF Noticed
<1>16. Sure' = Sure /\ Sure \subseteq DOMAIN sites \ stale BY <1>2 DEF Sure
<1>17. Enabling' = {} BY <1>1, <1>5 DEF Enabling, Arming
<1>18. \A n : ~InFlux(n)' BY <1>1, <1>5 DEF InFlux, Flux, Switching
<1> HIDE DEF Sure, InFlux, Enabling, out
<1>19. OneEach' BY <1>2, <1>3, <1>5, <1>7 DEF OneEach
<1>20. Strays'
  <2>1. SUFFICES ASSUME NEW n \in Sure, sites[n].on PROVE Carries(entries', n) # {}
    BY <1>2, <1>16 DEF Strays
  <2>2. PICK e \in Carries(entries, n) : TRUE BY <1>3, <1>5, <2>1 DEF Strays
  <2>3. e \in DOMAIN entries /\ entries[e].serial = n BY <2>2 DEF Carries
  <2>4. e \notin out BY <1>4, <1>16, <2>1, <2>3
  <2>5. e \in Carries(entries', n) BY <1>6, <2>3, <2>4 DEF Carries
  <2> QED BY <2>5
<1>21. Flags'
  <2>1. SUFFICES ASSUME NEW e \in Armed(entries'), entries'[e].serial \in Sure,
                        entries'[e].serial \notin doubled
                 PROVE  sites[entries'[e].serial].on = entries'[e].enabled
    BY <1>2, <1>16, <1>17 DEF Flags
  <2>2. e \in Armed(entries) /\ entries'[e] = entries[e] BY <1>7
  <2> QED BY <1>3, <1>5, <2>1, <2>2 DEF Flags
<1> QED BY <1>8, <1>9, <1>10, <1>11, <1>12, <1>13, <1>14, <1>15, <1>19, <1>20, <1>21 DEF IInv

LEMMA SweepEndsKeeps == ASSUME IInv, SweepEnds PROVE IInv'
<1> DEFINE out == Unloaded(entries, sweep)
           left == {entries[e].serial : e \in out} \ DOMAIN sites
<1>1. /\ untold' = untold \cup left /\ sweep' = {} /\ due' = due /\ coming' = coming
      /\ UNCHANGED <<prover, life, held, at, sites, serials, wire>>
      /\ UNCHANGED <<entries, born, dirty, lock, call, histVars>>
  BY DEF SweepEnds, progVars
<1>2. Typed /\ ProverOK /\ Deaths BY DEF IInv
<1>3. untold' \subseteq Serials
  <2>1. \A e \in out : e \in DOMAIN entries /\ e \in Armed(entries) BY DEF Unloaded, Armed
  <2>2. \A e \in out : entries[e].serial \in Serials BY <1>2, <2>1, EntryIs DEF Typed
  <2> QED BY <1>1, <1>2, <2>2 DEF Typed
<1>4. \A e \in out : entries[e].serial \in DOMAIN sites \cup untold' BY <1>1
<1>5. untold \subseteq untold' BY <1>1
<1> HIDE DEF left
<1>6. Typed' BY <1>1, <1>2, <1>3 DEF Typed, histVars
<1>7. ProverOK' BY <1>1, <1>2 DEF ProverOK
<1>8. Reports' BY <1>1, <1>2 DEF Deaths, Reports, histVars
<1>9. Deaths'
  <2>1. SUFFICES ASSUME NEW e \in Armed(entries),
                        entries[e].serial \notin DOMAIN sites \cup stale \cup untold'
                 PROVE  Noticed(e)'
    BY <1>1, <1>8 DEF Deaths, histVars
  <2>2. Noticed(e) /\ e \notin out BY <1>2, <1>4, <1>5, <2>1 DEF Deaths
  <2> QED BY <1>1, <2>2 DEF Noticed
<1>10. Aside
  <2>1. serials <= serials' BY <1>1, <1>2, Bounds DEF Typed
  <2> QED BY <1>1, <2>1 DEF Aside, Stays
<1> QED BY <1>6, <1>7, <1>9, <1>10, AsideKeeps
-----------------------------------------------------------------------------
(* Answers and teardown: the calls learn something, and change in nothing  *)
(* else.                                                                   *)

Told ==
  /\ call' \in [Calls -> CallRecords]
  /\ \A c \in Calls :
       /\ call'[c].op = call[c].op /\ call'[c].pc = call[c].pc /\ call'[c].ids = call[c].ids
       /\ call'[c].plan = call[c].plan /\ call'[c].paths = call[c].paths
       /\ call'[c].marks = call[c].marks /\ call'[c].site = call[c].site
       /\ call'[c].cur = call[c].cur
       /\ call[c].reply # "wait" => call'[c].reply = call[c].reply
       /\ call[c].reply = "wait" => call'[c].reply # "none"

LEMMA Telling ==
  ASSUME Typed, Locking, Told, lock' = lock
  PROVE  /\ \A c \in Calls : CallOK(call'[c]) /\ Hand(call'[c]) = Hand(call[c])
         /\ Locking' /\ \A n : InFlux(n)' <=> InFlux(n)
<1>1. \A c \in Calls : call'[c].reply # "none" <=> call[c].reply # "none" BY DEF Told
<1>2. \A c \in Calls : CallOK(call'[c]) BY <1>1 DEF Typed, Told, CallOK
<1>3. \A c \in Calls : Hand(call'[c]) = Hand(call[c]) BY DEF Told, Hand
<1>4. Locking' BY DEF Told, Locking
<1>5. \A n : InFlux(n)' <=> InFlux(n) BY <1>1 DEF InFlux, Flux, Told
<1> QED BY <1>2, <1>3, <1>4, <1>5

LEMMA TellingEnables ==
  ASSUME Told, entries' = entries
  PROVE  Enabling' = Enabling /\ \A e : Todo(e)' <=> Todo(e)
<1>1. \A c \in Calls : Pairs(call'[c]) = Pairs(call[c]) BY DEF Told, Pairs
<1>2. Enabling' = Enabling BY DEF Told, Enabling
<1> HIDE DEF Pairs
<1>3. \A e : Todo(e)' <=> Todo(e) BY <1>1 DEF Told, Todo, Ahead
<1> QED BY <1>2, <1>3

\* What a call knows, if it has no answer it was not to get anyway.
LEMMA TellingStages ==
  ASSUME StagesOK, Told, UNCHANGED <<entries, stale, life>>, DOMAIN sites' = DOMAIN sites,
         \A c \in Calls : Out(c)' => Out(c),
         DOMAIN wire' = {} \/ \A i \in DOMAIN wire' : \E j \in DOMAIN wire : wire'[i].serial = wire[j].serial,
         \A n \in DOMAIN sites : sites[n].on /\ ~sites'[n].on => \E i \in DOMAIN wire : wire[i].serial = n
  PROVE  StagesOK'
<1> SUFFICES ASSUME NEW c \in Calls PROVE Stage(c)' BY DEF StagesOK
<1>1. Stage(c) BY DEF StagesOK
<1>2. (About(c)' <=> About(c)) /\ (One(c)' <=> One(c)) BY DEF Told, About, One
<1>3. Enabled(c)' <=> Enabled(c) BY DEF Told, Enabled
<1>4. Abandoning(c) => Abandoning(c)'
  <2>1. HAVE Abandoning(c)
  <2>2. \A i \in DOMAIN wire' : wire'[i].serial # call[c].site.serial BY <2>1 DEF Abandoning
  <2>3. call[c].site.life = life /\ call[c].site.serial \in DOMAIN sites =>
          sites'[call[c].site.serial].on
    BY <2>1 DEF Abandoning
  <2> QED BY <1>2, <2>1, <2>2, <2>3 DEF Told, Abandoning
<1>5. Planning(c) => Planning(c)'
  <2>1. Pairs(call'[c]) = Pairs(call[c]) BY DEF Told, Pairs
  <2> HIDE DEF Pairs
  <2> QED BY <2>1 DEF Told, Planning
<1> QED BY <1>1, <1>2, <1>3, <1>4, <1>5 DEF Told, Stage

LEMMA TailIs ==
  ASSUME NEW w \in Seq(Toggles), w # <<>>
  PROVE  /\ Head(w) = w[1] /\ 1 \in DOMAIN w /\ Head(w) \in Toggles
         /\ Tail(w) \in Seq(Toggles) /\ DOMAIN Tail(w) = 1..Len(w) - 1
         /\ Len(w) \in Nat \ {0} /\ Len(Tail(w)) = Len(w) - 1 /\ DOMAIN w = 1..Len(w)
         /\ \A i \in DOMAIN Tail(w) : Tail(w)[i] = w[i + 1] /\ i + 1 \in DOMAIN w
         /\ Len(w) = 1 => Tail(w) = <<>>
<1>1. Len(w) \in Nat \ {0} /\ DOMAIN w = 1..Len(w) OBVIOUS
<1>2. Tail(w) \in Seq(Toggles) /\ Len(Tail(w)) = Len(w) - 1 OBVIOUS
<1>3. DOMAIN Tail(w) = 1..Len(w) - 1 BY <1>2
<1>4. \A i \in DOMAIN Tail(w) : Tail(w)[i] = w[i + 1] /\ i + 1 \in DOMAIN w BY <1>1, <1>3
<1>5. Len(w) = 1 => Tail(w) = <<>>
  <2> DEFINE t == Tail(w)
  <2>1. HAVE Len(w) = 1
  <2>2. t \in Seq(Toggles) /\ Len(t) = 0 BY <1>2, <2>1
  <2> HIDE DEF t
  <2>3. t # <<>> => Len(t) \in Nat \ {0} BY <2>2, EmptySeq
  <2>4. t = <<>> BY <2>2, <2>3
  <2> QED BY <2>4 DEF t
<1>6. Head(w) = w[1] /\ 1 \in DOMAIN w /\ Head(w) \in Toggles BY <1>1
<1> QED BY <1>1, <1>2, <1>3, <1>4, <1>5, <1>6

LEMMA Replied ==
  ASSUME NEW r \in CallRecords, NEW s \in Final \cup {"failed"}
  PROVE  LET q == [r EXCEPT !.reply = s] IN
         /\ q \in CallRecords /\ q.reply = s /\ q.op = r.op /\ q.pc = r.pc /\ q.ids = r.ids
         /\ q.plan = r.plan /\ q.paths = r.paths /\ q.marks = r.marks /\ q.site = r.site
         /\ q.cur = r.cur
BY DEF CallRecords

LEMMA TeardownBeginsKeeps == ASSUME IInv, TeardownBegins PROVE IInv'
<1>1. /\ prover = "up" /\ prover' = "closing"
      /\ call' = [c \in Calls |-> IF call[c].reply = "wait"
                                  THEN [call[c] EXCEPT !.reply = "failed"] ELSE call[c]]
      /\ wire' = [i \in DOMAIN wire |-> [wire[i] EXCEPT !.by = Nobody]]
      /\ due' = {} /\ coming' = {} /\ untold' = untold
      /\ UNCHANGED <<life, held, at, sites, serials, entries, born, dirty, lock, sweep, histVars>>
  BY DEF TeardownBegins
<1>2. UNCHANGED <<life, held, at, sites, serials, entries, born, dirty, lock, sweep, unsure,
                  doubled, stale>>
  BY <1>1 DEF histVars
<1>3. /\ Typed /\ Locking /\ ProverOK /\ Bound /\ HandsOK /\ StagesOK /\ RepliesOK /\ WireOK
      /\ Deaths /\ OneEach /\ Strays /\ Flags
  BY DEF IInv
<1>4. Told
  <2>1. \A c \in Calls : call[c] \in CallRecords BY <1>3 DEF Typed
  <2>2. \A c \in Calls : call'[c] \in CallRecords
    <3> SUFFICES ASSUME NEW c \in Calls PROVE call'[c] \in CallRecords OBVIOUS
    <3> DEFINE r == call[c]
    <3>1. r \in CallRecords BY <2>1
    <3> HIDE DEF r
    <3>2. [r EXCEPT !.reply = "failed"] \in CallRecords BY <3>1, Replied
    <3> QED BY <1>1, <3>1, <3>2 DEF r
  <2>3. call' \in [Calls -> CallRecords] BY <1>1, <2>2
  <2>4. \A c \in Calls : call[c].reply = "wait" => call'[c].reply = "failed"
    BY <1>1, <2>1 DEF CallRecords
  <2>5. \A c \in Calls :
          /\ call'[c].op = call[c].op /\ call'[c].pc = call[c].pc /\ call'[c].ids = call[c].ids
          /\ call'[c].plan = call[c].plan /\ call'[c].paths = call[c].paths
          /\ call'[c].marks = call[c].marks /\ call'[c].site = call[c].site
          /\ call'[c].cur = call[c].cur
          /\ call[c].reply # "wait" => call'[c].reply = call[c].reply
    BY <1>1, <2>1 DEF CallRecords
  <2> QED BY <2>3, <2>4, <2>5 DEF Told
<1>5. \A c \in Calls : call[c].reply = "wait" => call'[c].reply = "failed"
  <2>1. \A c \in Calls : call[c] \in CallRecords BY <1>3 DEF Typed
  <2> QED BY <1>1, <2>1 DEF CallRecords
<1>6. /\ wire' \in Seq(Toggles) /\ DOMAIN wire' = DOMAIN wire /\ (wire = <<>> => wire' = <<>>)
      /\ \A i \in DOMAIN wire : wire'[i].serial = wire[i].serial /\ wire'[i].by = Nobody
  <2>1. wire \in Seq(Toggles) BY <1>3 DEF Typed
  <2>2. \A i \in DOMAIN wire : wire[i] \in Toggles BY <2>1
  <2>3. \A i \in DOMAIN wire : wire'[i] \in Toggles /\ wire'[i].serial = wire[i].serial
                                 /\ wire'[i].by = Nobody
    BY <1>1, <2>2 DEF Toggles
  <2>4. Len(wire) \in Nat /\ DOMAIN wire = 1..Len(wire) BY <2>1
  <2>5. wire' \in Seq(Toggles) BY <1>1, <2>3, <2>4
  <2>6. DOMAIN wire' = DOMAIN wire BY <1>1
  <2>7. wire = <<>> => wire' = <<>>
    <3>1. HAVE wire = <<>>
    <3>2. Len(wire') = 0 BY <2>5, <2>6, <3>1
    <3> QED BY <2>5, <3>2, EmptySeq
  <2> QED BY <2>3, <2>5, <2>6, <2>7
<1>7. /\ \A c \in Calls : CallOK(call'[c]) /\ Hand(call'[c]) = Hand(call[c])
      /\ Locking' /\ \A n : InFlux(n)' <=> InFlux(n)
  BY <1>2, <1>3, <1>4, Telling
<1>8. Enabling' = Enabling /\ \A e : Todo(e)' <=> Todo(e) BY <1>2, <1>4, TellingEnables
<1>9. Typed' BY <1>1, <1>2, <1>3, <1>4, <1>6, <1>7 DEF Typed, Told
<1>10. ProverOK' BY <1>1, <1>2, <1>3 DEF ProverOK
<1>11. Bound' BY <1>2, <1>3 DEF Bound, Fits
<1>12. HandsOK'
  <2>1. \A x : Agrees(x) => Agrees(x)' BY <1>2 DEF Agrees
  <2>2. \A x, n : Fits(x, n)' <=> Fits(x, n) BY <1>2 DEF Fits
  <2>3. prover # "none" BY <1>1
  <2> QED BY <1>2, <1>3, <1>7, <2>1, <2>2, <2>3 DEF HandsOK
<1>13. StagesOK'
  <2>1. \A c \in Calls : Out(c)' => Out(c)
    <3>1. SUFFICES ASSUME NEW c \in Calls, Out(c)' PROVE Out(c) OBVIOUS
    <3>2. \A i \in DOMAIN wire' : wire'[i].by # c BY <1>6, CallerOnly
    <3>3. call'[c].reply \in Final BY <3>1, <3>2 DEF Out
    <3>4. call'[c].reply = call[c].reply BY <1>4, <1>5, <3>3 DEF Told, Final
    <3> QED BY <3>3, <3>4 DEF Out
  <2>2. \A i \in DOMAIN wire' : \E j \in DOMAIN wire : wire'[i].serial = wire[j].serial BY <1>6
  <2> QED BY <1>2, <1>3, <1>4, <2>1, <2>2, TellingStages
<1>14. RepliesOK'
  <2>1. SUFFICES ASSUME NEW c \in Calls
                 PROVE  LET r == call'[c] IN
                   /\ r.reply \in Final => wire' = <<>>
                   /\ r.reply = "ok" =>
                        /\ r.cur <= serials
                        /\ r.cur \in DOMAIN sites => sites[r.cur].on = (r.pc \in SwitchingOn)
                   /\ r.reply \in {"unknown", "unfinished"} /\ r.cur \in DOMAIN sites =>
                        /\ ~sites[r.cur].on
                        /\ r.cur \notin stale => Carries(entries, r.cur) = {}
    BY <1>2 DEF RepliesOK
  <2>2. CASE call[c].reply = "wait" BY <1>5, <2>2 DEF Final
  <2>3. CASE call[c].reply # "wait" BY <1>3, <1>4, <1>6, <2>3 DEF RepliesOK, Told
  <2> QED BY <2>2, <2>3
<1>15. WireOK'
  <2>1. SUFFICES ASSUME NEW i \in DOMAIN wire
                 PROVE  \/ wire[i].serial \in unsure
                        \/ \E c \in Calls : call'[c].cur = wire[i].serial
                                            /\ call'[c].reply \in {"wait", "failed"}
    BY <1>2, <1>6 DEF WireOK
  <2>2. CASE \E c \in Calls : call[c].cur = wire[i].serial /\ call[c].reply \in {"wait", "failed"}
    BY <1>4, <1>5, <2>2 DEF Told
  <2> QED BY <1>3, <2>2 DEF WireOK
<1>16. Deaths'
  <2>1. Reports' BY <1>1 DEF Reports
  <2> QED BY <1>1, <2>1 DEF Deaths, Noticed
<1>17. Sure' = Sure BY <1>2 DEF Sure
<1> HIDE DEF Sure, InFlux, Enabling, Todo
<1>18. OneEach' BY <1>2, <1>3, <1>8 DEF OneEach
<1>19. Strays' BY <1>2, <1>3, <1>7, <1>17 DEF Strays
<1>20. Flags' BY <1>2, <1>3, <1>7, <1>8, <1>17 DEF Flags
<1> QED BY <1>7, <1>9, <1>10, <1>11, <1>12, <1>13, <1>14, <1>15, <1>16, <1>18, <1>19, <1>20 DEF IInv

LEMMA TeardownEndsKeeps == ASSUME IInv, TeardownEnds PROVE IInv'
<1>1. /\ \A c \in Calls : call[c].reply \in {"none", "wait"}
      /\ prover' = "none" /\ held' = {} /\ sites' = <<>> /\ wire' = <<>> /\ serials' = 0
      /\ entries' = Demote(entries, Armed(entries), NotEvaluated)
      /\ dirty' = {} /\ unsure' = {} /\ doubled' = {} /\ stale' = {} /\ untold' = {}
      /\ UNCHANGED <<life, at, born, lock, call, sweep, due, coming>>
  BY DEF TeardownEnds
<1>2. Typed /\ Locking /\ ProverOK /\ HandsOK /\ StagesOK /\ Deaths BY DEF IInv
<1>3. /\ Registry(entries') /\ DOMAIN entries' = DOMAIN entries /\ Armed(entries') = {}
      /\ \A e \in DOMAIN entries : /\ entries'[e].file = entries[e].file
                                   /\ entries'[e].enabled = entries[e].enabled
  <2> DEFINE out == Armed(entries)
  <2>1. Registry(entries) /\ entries' = Demote(entries, out, NotEvaluated) BY <1>1, <1>2 DEF Typed
  <2>2. NotEvaluated \in Reasons \ {"none"} BY DEF Reasons, NotEvaluated
  <2>3. Armed(entries) \ out = {} OBVIOUS
  <2> HIDE DEF out
  <2> QED BY <2>1, <2>2, <2>3, DemoteIs
<1>4. DOMAIN sites' = {} /\ DOMAIN wire' = {} BY <1>1
<1>5. Typed'
  <2>1. sites' \in [DOMAIN sites' -> LiveSites] BY <1>1
  <2>2. wire' \in Seq(Toggles) BY <1>1
  <2> QED BY <1>1, <1>2, <1>3, <1>4, <2>1, <2>2, Bounds DEF Typed
<1>6. Locking' BY <1>1, <1>2 DEF Locking
<1>7. ProverOK' BY <1>1, <1>2, <1>4 DEF ProverOK
<1>8. Bound' /\ Deaths' /\ OneEach' /\ Flags'
  <2>1. prover = "closing" BY DEF TeardownEnds
  <2>2. due' = {} BY <1>1, <1>2, <2>1 DEF Deaths, Reports
  <2>3. Reports' BY <2>2 DEF Reports
  <2> QED BY <1>3, <2>3 DEF Bound, Deaths, OneEach, Flags
<1>9. HandsOK'
  <2>1. \A x : Agrees(x)' BY <1>3 DEF Agrees
  <2> QED BY <1>1, <1>2, <1>4, <2>1 DEF HandsOK
<1>10. StagesOK'
  <2>1. SUFFICES ASSUME NEW c \in Calls PROVE Stage(c)' BY DEF StagesOK
  <2>2. Stage(c) BY <1>2 DEF StagesOK
  <2>3. ~Out(c)' BY <1>1, <1>4 DEF Out, Final
  <2>4. \A e \in DOMAIN entries : entries'[e].state # "armed" BY <1>3 DEF Armed
  <2>5. One(c) => One(c)' BY <1>1, <1>3, <2>4 DEF One
  <2>6. Abandoning(c) => Abandoning(c)' BY <1>1, <1>3, <1>4, <2>3 DEF Abandoning
  <2>7. Enabled(c) => Enabled(c)' BY <1>1, <1>3 DEF Enabled
  <2>8. Planning(c) /\ Enabled(c) => Planning(c)'
    <3>1. Pairs(call'[c]) = Pairs(call[c]) BY <1>1
    <3> HIDE DEF Pairs
    <3> QED BY <1>1, <1>3, <1>4, <3>1 DEF Planning, Enabled
  <2>9. call[c].pc = "off" => \A d \in call[c].ids : ~entries'[d].enabled
    <3>1. HAVE call[c].pc = "off"
    <3>2. One(c) /\ \A d \in call[c].ids : ~entries[d].enabled BY <2>2, <3>1 DEF Stage
    <3> QED BY <1>3, <3>2 DEF One
  <2> QED BY <1>1, <2>2, <2>3, <2>5, <2>6, <2>7, <2>8, <2>9 DEF Stage, Arming
<1>11. RepliesOK' /\ WireOK' BY <1>1, <1>4 DEF RepliesOK, WireOK, Final
<1>12. Strays' BY <1>4 DEF Strays, Sure
<1> QED BY <1>5, <1>6, <1>7, <1>8, <1>9, <1>10, <1>11, <1>12 DEF IInv

LEMMA ProverTogglesKeeps == ASSUME IInv, ProverToggles PROVE IInv'
<1> DEFINE h == Head(wire)
           status == IF h.serial \notin DOMAIN sites THEN "unknown"
                     ELSE IF sites[h.serial].ready THEN "ok" ELSE "unfinished"
<1>1. /\ prover # "none" /\ wire # <<>> /\ wire' = Tail(wire)
      /\ sites' = (IF status = "ok" THEN [sites EXCEPT ![h.serial].on = h.on] ELSE sites)
      /\ call' = (IF h.by = Nobody THEN call ELSE [call EXCEPT ![h.by].reply = status])
      /\ UNCHANGED <<prover, life, held, at, serials, entries, born, dirty, lock, sweep, reportVars, histVars>>
  BY DEF ProverToggles
<1>2. UNCHANGED <<prover, life, held, at, serials, entries, born, dirty, lock, sweep, reportVars, unsure,
                  doubled, stale>>
  BY <1>1 DEF histVars
<1>3. /\ Typed /\ Locking /\ ProverOK /\ Bound /\ HandsOK /\ StagesOK /\ RepliesOK /\ WireOK
      /\ Deaths /\ OneEach /\ Strays /\ Flags
  BY DEF IInv
<1>4. wire \in Seq(Toggles) BY <1>3 DEF Typed
<1>5. /\ h = wire[1] /\ 1 \in DOMAIN wire /\ h \in Toggles
      /\ wire' \in Seq(Toggles) /\ DOMAIN wire' = 1..Len(wire) - 1
      /\ Len(wire) \in Nat \ {0} /\ Len(wire') = Len(wire) - 1
      /\ \A i \in DOMAIN wire' : wire'[i] = wire[i + 1] /\ i + 1 \in DOMAIN wire
      /\ Len(wire) = 1 => wire' = <<>>
  BY <1>1, <1>4, TailIs
<1>6. /\ \/ h.serial \in unsure
         \/ \E c \in Calls : call[c].cur = h.serial /\ call[c].reply \in {"wait", "failed"}
      /\ h.by # Nobody =>
           /\ 1 = Len(wire) /\ h.by \in Calls
           /\ call[h.by].reply = "wait" /\ call[h.by].cur = h.serial
           /\ h.on = (call[h.by].pc \in SwitchingOn)
  <2>1. h.by \in Calls \cup {Nobody} BY <1>5 DEF Toggles
  <2> HIDE DEF h
  <2> QED BY <1>3, <1>5, <2>1 DEF WireOK
<1>7. /\ status \in Final
      /\ status = "ok" => h.serial \in DOMAIN sites /\ sites[h.serial].ready
      /\ status # "ok" /\ h.serial \in DOMAIN sites => ~sites[h.serial].ready
  BY DEF Final
<1>8. h.serial \in Serials /\ h.on \in BOOLEAN BY <1>5 DEF Toggles
<1> HIDE DEF h, status
<1>9. /\ DOMAIN sites' = DOMAIN sites /\ sites' \in [DOMAIN sites -> LiveSites]
      /\ \A n \in DOMAIN sites : /\ sites'[n].stmt = sites[n].stmt /\ sites'[n].ready = sites[n].ready
                                 /\ n # h.serial \/ status # "ok" => sites'[n].on = sites[n].on
      /\ status = "ok" => sites'[h.serial].on = h.on
  <2>1. sites \in [DOMAIN sites -> LiveSites] BY <1>3 DEF Typed
  <2>2. CASE status = "ok"
    <3>1. sites' = [sites EXCEPT ![h.serial].on = h.on] BY <1>1, <2>2
    <3> QED BY <1>7, <1>8, <2>1, <2>2, <3>1 DEF LiveSites
  <2>3. CASE status # "ok" BY <1>1, <2>1, <2>3
  <2> QED BY <2>2, <2>3
<1>10. /\ \A c \in Calls : c = h.by => call'[c].reply = status
       /\ \A c \in Calls : c # h.by => call'[c] = call[c]
       /\ Told
  <2>1. \A c \in Calls : call[c] \in CallRecords BY <1>3 DEF Typed
  <2>2. CASE h.by = Nobody
    <3>1. call' = call BY <1>1, <2>2
    <3> QED BY <1>3, <2>2, <3>1, CallerOnly DEF Told, Typed
  <2>3. CASE h.by # Nobody
    <3> DEFINE b == h.by
               r == call[b]
               q == [r EXCEPT !.reply = status]
    <3>1. b \in Calls /\ r \in CallRecords /\ r.reply = "wait" BY <1>6, <2>1, <2>3
    <3>2. call' = [call EXCEPT ![b] = q] BY <1>1, <2>3
    <3> HIDE DEF r
    <3>3. /\ q \in CallRecords /\ q.reply = status /\ q.op = r.op /\ q.pc = r.pc /\ q.ids = r.ids
          /\ q.plan = r.plan /\ q.paths = r.paths /\ q.marks = r.marks /\ q.site = r.site
          /\ q.cur = r.cur
      BY <1>7, <3>1, Replied
    <3> HIDE DEF q
    <3>4. call'[b] = q /\ \A c \in Calls \ {b} : call'[c] = call[c] BY <1>3, <3>1, <3>2 DEF Typed
    <3>5. call' \in [Calls -> CallRecords] BY <1>3, <3>1, <3>2, <3>3 DEF Typed
    <3>6. status # "none" BY <1>7 DEF Final
    <3>7. \A c \in Calls :
            /\ call'[c].op = call[c].op /\ call'[c].pc = call[c].pc /\ call'[c].ids = call[c].ids
            /\ call'[c].plan = call[c].plan /\ call'[c].paths = call[c].paths
            /\ call'[c].marks = call[c].marks /\ call'[c].site = call[c].site
            /\ call'[c].cur = call[c].cur
            /\ call[c].reply # "wait" => call'[c].reply = call[c].reply
            /\ call[c].reply = "wait" => call'[c].reply # "none"
      <4> SUFFICES ASSUME NEW c \in Calls
                   PROVE  /\ call'[c].op = call[c].op /\ call'[c].pc = call[c].pc
                          /\ call'[c].ids = call[c].ids
                          /\ call'[c].plan = call[c].plan /\ call'[c].paths = call[c].paths
                          /\ call'[c].marks = call[c].marks /\ call'[c].site = call[c].site
                          /\ call'[c].cur = call[c].cur
                          /\ call[c].reply # "wait" => call'[c].reply = call[c].reply
                          /\ call[c].reply = "wait" => call'[c].reply # "none"
        OBVIOUS
      <4>1. CASE c = b BY <3>1, <3>3, <3>4, <3>6, <4>1 DEF r
      <4>2. CASE c # b BY <3>4, <4>2
      <4> QED BY <4>1, <4>2
    <3> QED BY <3>3, <3>4, <3>5, <3>7 DEF Told
  <2> QED BY <2>2, <2>3
<1>11. /\ \A c \in Calls : CallOK(call'[c]) /\ Hand(call'[c]) = Hand(call[c])
       /\ Locking' /\ \A n : InFlux(n)' <=> InFlux(n)
  BY <1>2, <1>3, <1>10, Telling
<1>12. Enabling' = Enabling /\ \A e : Todo(e)' <=> Todo(e) BY <1>2, <1>10, TellingEnables
<1>13. h.by # Nobody => wire' = <<>> BY <1>5, <1>6
<1>14. \A c \in Calls : c # h.by => call'[c].reply \notin Final
  <2>1. \A c \in Calls : call[c].reply \notin Final BY <1>1, <1>3 DEF RepliesOK
  <2> QED BY <1>10, <2>1
<1>15. Typed' BY <1>2, <1>3, <1>5, <1>9, <1>10, <1>11 DEF Typed, Told, reportVars
<1>16. ProverOK'
  <2>1. \A n \in DOMAIN sites' : FileOf[sites'[n].stmt] \in held' /\ (sites'[n].on => sites'[n].ready)
    <3>1. SUFFICES ASSUME NEW n \in DOMAIN sites
                   PROVE  FileOf[sites'[n].stmt] \in held /\ (sites'[n].on => sites'[n].ready)
      BY <1>2, <1>9
    <3>2. CASE n = h.serial /\ status = "ok" BY <1>3, <1>7, <1>9, <3>2 DEF ProverOK
    <3>3. CASE ~(n = h.serial /\ status = "ok") BY <1>3, <1>9, <3>3 DEF ProverOK
    <3> QED BY <3>2, <3>3
  <2>2. \A m, n \in DOMAIN sites' : sites'[m].stmt = sites'[n].stmt => m = n
    BY <1>3, <1>9 DEF ProverOK
  <2>3. \A u \in sweep' : \A n \in DOMAIN sites' :
          /\ FileOf[sites'[n].stmt] = u.file => ~(at'[sites'[n].stmt] >= u.line)
          /\ FileOf[sites'[n].stmt] \notin u.loads
    BY <1>2, <1>3, <1>9 DEF ProverOK
  <2> QED BY <1>1, <1>2, <1>3, <2>1, <2>2, <2>3 DEF ProverOK
<1>17. \A x : \A n \in DOMAIN sites : Fits(x, n)' <=> Fits(x, n) BY <1>2, <1>9 DEF Fits
<1>18. Bound' BY <1>2, <1>3, <1>9 DEF Bound, Fits
<1>19. HandsOK'
  <2>1. \A x : Agrees(x) => Agrees(x)' BY <1>2, <1>9 DEF Agrees
  <2> QED BY <1>2, <1>3, <1>9, <1>11, <1>17, <2>1 DEF HandsOK
<1>20. StagesOK'
  <2>1. \A c \in Calls : Out(c)' => Out(c)
    <3>1. SUFFICES ASSUME NEW c \in Calls, Out(c)' PROVE Out(c) OBVIOUS
    <3>2. CASE c = h.by BY <1>5, <3>2 DEF Out
    <3>3. CASE c # h.by
      <4>1. PICK i \in DOMAIN wire' : wire'[i].by = c BY <1>14, <3>1, <3>3 DEF Out
      <4> QED BY <1>5, <4>1 DEF Out
    <3> QED BY <3>2, <3>3
  <2>2. \A i \in DOMAIN wire' : \E j \in DOMAIN wire : wire'[i].serial = wire[j].serial BY <1>5
  <2>3. \A n \in DOMAIN sites : sites[n].on /\ ~sites'[n].on => \E i \in DOMAIN wire : wire[i].serial = n
    BY <1>5, <1>9
  <2> QED BY <1>2, <1>3, <1>9, <1>10, <2>1, <2>2, <2>3, TellingStages
<1>21. RepliesOK'
  <2>1. SUFFICES ASSUME NEW c \in Calls, call'[c].reply \in Final
                 PROVE  LET r == call'[c] IN
                   /\ wire' = <<>>
                   /\ r.reply = "ok" =>
                        /\ r.cur <= serials
                        /\ r.cur \in DOMAIN sites => sites'[r.cur].on = (r.pc \in SwitchingOn)
                   /\ r.reply \in {"unknown", "unfinished"} /\ r.cur \in DOMAIN sites =>
                        /\ ~sites'[r.cur].on
                        /\ r.cur \notin stale => Carries(entries, r.cur) = {}
    BY <1>2, <1>9 DEF RepliesOK, Final
  <2>2. c = h.by BY <1>14, <2>1
  <2>3. /\ call'[c].reply = status /\ call'[c].cur = h.serial /\ wire' = <<>>
        /\ h.on = (call'[c].pc \in SwitchingOn)
    BY <1>6, <1>10, <1>13, <2>2, CallerOnly DEF Told
  <2>4. ASSUME status = "ok"
        PROVE  /\ h.serial <= serials
               /\ sites'[h.serial].on = (call'[c].pc \in SwitchingOn)
    <3>1. h.serial \in 1..serials BY <1>3, <1>7, <2>4 DEF Typed
    <3>2. serials \in Nat BY <1>3, Bounds DEF Typed
    <3> QED BY <1>9, <2>3, <2>4, <3>1, <3>2
  <2>5. ASSUME status # "ok", h.serial \in DOMAIN sites
        PROVE  /\ ~sites'[h.serial].on
               /\ h.serial \notin stale => Carries(entries, h.serial) = {}
    <3>1. ~sites[h.serial].ready BY <1>7, <2>5
    <3>2. ~sites[h.serial].on BY <1>3, <2>5, <3>1 DEF ProverOK
    <3>3. ASSUME h.serial \notin stale, NEW e \in Carries(entries, h.serial) PROVE FALSE
      <4>1. e \in DOMAIN entries /\ entries[e].serial = h.serial BY <3>3 DEF Carries
      <4>2. h.serial # 0 BY <1>8 DEF Serials
      <4>3. e \in Armed(entries) BY <1>3, <4>1, <4>2, EntryIs DEF Typed
      <4>4. Fits(entries[e], h.serial) BY <1>3, <2>5, <3>3, <4>1, <4>3 DEF Bound
      <4> QED BY <3>1, <4>4 DEF Fits
    <3> QED BY <1>9, <2>5, <3>2, <3>3
  <2> QED BY <2>3, <2>4, <2>5
<1>22. WireOK'
  <2>1. SUFFICES ASSUME NEW i \in DOMAIN wire'
                 PROVE  /\ \/ wire'[i].serial \in unsure
                           \/ \E c \in Calls : /\ call'[c].cur = wire'[i].serial
                                               /\ call'[c].reply \in {"wait", "failed"}
                        /\ wire'[i].by # Nobody =>
                             /\ i = Len(wire')
                             /\ call'[wire'[i].by].reply = "wait"
                             /\ call'[wire'[i].by].cur = wire'[i].serial
                             /\ wire'[i].on = (call'[wire'[i].by].pc \in SwitchingOn)
    BY <1>2 DEF WireOK
  <2>2. h.by = Nobody BY <1>13
  <2>3. call' = call BY <1>1, <2>2
  <2>4. wire'[i] = wire[i + 1] /\ i + 1 \in DOMAIN wire /\ i \in Nat BY <1>5
  <2>5. \A j \in DOMAIN wire :
          /\ \/ wire[j].serial \in unsure
             \/ \E c \in Calls : call[c].cur = wire[j].serial /\ call[c].reply \in {"wait", "failed"}
          /\ wire[j].by # Nobody =>
               /\ j = Len(wire)
               /\ call[wire[j].by].reply = "wait" /\ call[wire[j].by].cur = wire[j].serial
               /\ wire[j].on = (call[wire[j].by].pc \in SwitchingOn)
    BY <1>3 DEF WireOK
  <2>6. i + 1 = Len(wire) => i = Len(wire') BY <1>5, <2>4
  <2> QED BY <2>3, <2>4, <2>5, <2>6
<1>23. Deaths'
  <2>a. due' = due /\ untold' = untold BY <1>2 DEF reportVars
  <2>b. Reports' BY <1>2, <1>3, <1>9, <2>a DEF Deaths, Reports
  <2>1. \A e \in DOMAIN entries : Noticed(e) => Noticed(e)' BY <1>2, <1>10, <2>a DEF Noticed, Told
  <2>2. Armed(entries) \subseteq DOMAIN entries BY DEF Armed
  <2> QED BY <1>2, <1>3, <1>9, <2>a, <2>b, <2>1, <2>2 DEF Deaths
<1>24. Sure' = Sure /\ Sure \subseteq DOMAIN sites BY <1>2, <1>9 DEF Sure
<1>25. \A n \in Sure : ~InFlux(n) => sites'[n].on = sites[n].on
  <2>1. SUFFICES ASSUME NEW n \in Sure, n = h.serial PROVE InFlux(n) BY <1>9, <1>24
  <2>2. n \notin unsure BY DEF Sure
  <2>3. PICK c \in Calls : call[c].cur = h.serial /\ call[c].reply \in {"wait", "failed"}
    BY <1>6, <2>1, <2>2
  <2> QED BY <2>1, <2>3 DEF InFlux, Flux
<1> HIDE DEF Sure, InFlux, Enabling, Todo
<1>26. OneEach' BY <1>2, <1>3, <1>9, <1>12 DEF OneEach
<1>27. Strays' BY <1>2, <1>3, <1>11, <1>24, <1>25 DEF Strays
<1>28. Flags' BY <1>2, <1>3, <1>11, <1>12, <1>24, <1>25 DEF Flags
<1> QED BY <1>11, <1>15, <1>16, <1>18, <1>19, <1>20, <1>21, <1>22, <1>23, <1>26, <1>27, <1>28 DEF IInv
-----------------------------------------------------------------------------
(* What a step does to the entry of a live site.                           *)

Lasting(es) ==
  \A e \in Armed(entries) \cap DOMAIN es :
    entries[e].serial \in DOMAIN sites \ stale =>
      es[e].serial = entries[e].serial \/ es[e].reason = WireFailure

LEMMA RecordsLasts ==
  ASSUME NEW c, NEW ids, NEW x, NEW known, Records(c, ids, x, known),
         \A e \in ids \cap Armed(entries) :
           entries[e].serial \in DOMAIN sites \ stale => entries[e].serial = x.serial
  PROVE  Lasting(entries')
<1>1. PICK a \in DOMAIN entries' :
        /\ entries'[a].serial = x.serial /\ DOMAIN entries' = (DOMAIN entries \ ids) \cup {a}
        /\ IF ids = {} THEN a \notin DOMAIN entries ELSE a \in ids
  BY DEF Records
<1>2. \A e \in DOMAIN entries \ ids : entries'[e] = entries[e] BY DEF Records
<1>3. SUFFICES ASSUME NEW e \in Armed(entries), e \in DOMAIN entries',
                      entries[e].serial \in DOMAIN sites \ stale
               PROVE  entries'[e].serial = entries[e].serial
  BY DEF Lasting
<1>4. e \in DOMAIN entries BY DEF Armed
<1>5. CASE e \in ids BY <1>1, <1>3, <1>4, <1>5
<1>6. CASE e \notin ids BY <1>2, <1>4, <1>6
<1> QED BY <1>5, <1>6

LEMMA SetLasts ==
  ASSUME Typed, Locking, HandsOK, StagesOK, NEW c \in Calls, SetAnswered(c) \/ SetAbandoned(c)
  PROVE  Lasting(entries')
<1>1. entries' = entries => Lasting(entries') BY DEF Lasting
<1>2. CASE SetAnswered(c)
  <2> DEFINE x == call[c].site
             ids == Matching(entries, x)
             known == Vouched(x.serial, call[c].reply)
  <2>1. \/ entries' = entries
        \/ Records(c, ids, x, known) /\ \A e \in ids : entries[e].serial \in {0, x.serial}
    BY <1>2, SetAnsweredDoes DEF Abandons
  <2>2. CASE Records(c, ids, x, known) /\ \A e \in ids : entries[e].serial \in {0, x.serial}
    <3>1. \A e \in ids \cap Armed(entries) : entries[e].serial = x.serial
      <4>1. \A e \in Armed(entries) : e \in DOMAIN entries /\ entries[e].serial # 0
        BY EntryIs DEF Typed, Armed
      <4> HIDE DEF ids, x
      <4> QED BY <2>2, <4>1
    <3> HIDE DEF x, ids, known
    <3> QED BY <2>2, <3>1, RecordsLasts
  <2> QED BY <1>1, <2>1, <2>2
<1>3. CASE SetAbandoned(c)
  <2> DEFINE x == call[c].site
             ids == call[c].ids
             known == Vouched(call[c].cur, call[c].reply)
  <2>1. call[c].pc = "abandon" /\ (entries' = entries \/ Records(c, ids, x, known))
    BY <1>3, SetAbandonedDoes DEF Abandons
  <2>2. CASE Records(c, ids, x, known)
    <3>1. Abandoning(c) /\ Agrees(x) BY <2>1 DEF StagesOK, Stage, HandsOK, Hand
    <3>2. \A e \in ids \cap Armed(entries) :
            entries[e].serial \in DOMAIN sites \ stale => entries[e].serial = x.serial
      BY <3>1 DEF Abandoning, Agrees
    <3> HIDE DEF x, ids, known
    <3> QED BY <2>2, <3>2, RecordsLasts
  <2> QED BY <1>1, <2>1, <2>2
<1> QED BY <1>2, <1>3

\* Entries leave, or their flags change.
LEMMA PlainLasts ==
  ASSUME Registry(entries), NEW out,
         \/ entries' = entries
         \/ entries' = Without(entries, out)
         \/ \E flag \in BOOLEAN : entries' = Enable(entries, out, flag)
  PROVE  Lasting(entries')
<1>1. CASE entries' = entries BY <1>1 DEF Lasting
<1>2. CASE entries' = Without(entries, out) BY <1>2 DEF Lasting, Without
<1>3. CASE \E flag \in BOOLEAN : entries' = Enable(entries, out, flag)
  <2>1. PICK flag \in BOOLEAN : entries' = Enable(entries, out, flag) BY <1>3
  <2>2. \A e \in DOMAIN entries : entries'[e].serial = entries[e].serial BY <2>1, EnableIs
  <2> QED BY <2>2 DEF Lasting, Armed
<1> QED BY <1>1, <1>2, <1>3

LEMMA DisablesLasts ==
  ASSUME NEW c, NEW es, Registry(es), DOMAIN es = DOMAIN entries, Lasting(es), NEW todo,
         Disables(c, es, todo)
  PROVE  Lasting(entries')
<1>1. PICK ids : entries' = Enable(es, ids, FALSE) BY DEF Disables
<1>2. \A e \in DOMAIN es : entries'[e].serial = es[e].serial /\ entries'[e].reason = es[e].reason
  <2>1. \A e \in DOMAIN es : es[e] \in EntryRecords BY DEF Registry
  <2> QED BY <1>1, <2>1 DEF Enable, EntryRecords
<1>3. DOMAIN entries' = DOMAIN es BY <1>1 DEF Enable
<1> QED BY <1>2, <1>3 DEF Lasting

\* The entry a refused answer is about has no live site.
LEMMA RefusedLasts ==
  ASSUME Typed, RepliesOK, NEW c \in Calls, NEW es, NEW out, Demoting(es, out),
         call[c].reply \in Final \cup {"failed"}, call[c].reply # "ok",
         call[c].reply = "failed" => \A e \in out \cap DOMAIN entries : es[e].reason = WireFailure,
         \A e \in out \cap Armed(entries) :
           entries[e].serial \in DOMAIN sites \ stale => entries[e].serial = call[c].cur
  PROVE  Lasting(es)
<1>1. SUFFICES ASSUME NEW e \in Armed(entries), e \in DOMAIN es,
                      entries[e].serial \in DOMAIN sites \ stale
               PROVE  es[e].serial = entries[e].serial \/ es[e].reason = WireFailure
  BY DEF Lasting
<1>2. e \in DOMAIN entries BY DEF Armed
<1>3. CASE e \notin out BY <1>2, <1>3 DEF Demoting
<1>4. CASE e \in out
  <2>1. CASE call[c].reply = "failed" BY <1>2, <1>4, <2>1
  <2>2. CASE call[c].reply \in {"unknown", "unfinished"}
    <3>1. entries[e].serial = call[c].cur BY <1>1, <1>4
    <3>2. Carries(entries, call[c].cur) = {} BY <1>1, <2>2, <3>1 DEF RepliesOK
    <3>3. e \in Carries(entries, call[c].cur) BY <1>2, <3>1 DEF Carries
    <3> QED BY <3>2, <3>3
  <2> QED BY <2>1, <2>2 DEF Final
<1> QED BY <1>3, <1>4

LEMMA DisableAnsweredLasts ==
  ASSUME Typed, Locking, StagesOK, RepliesOK, NEW c \in Calls, DisableAnswered(c)
  PROVE  Lasting(entries')
<1> DEFINE r == call[c]
           ids == r.ids
<1>1. /\ r.pc = "off" /\ r.reply \in Final \cup {"failed"}
      /\ \E tag \in {NotFound, WireFailure} : \E es :
           /\ r.reply # "unknown" => tag = WireFailure
           /\ es = (IF r.reply = "ok" THEN entries ELSE Demote(entries, ids, tag))
           /\ Registry(es) /\ DOMAIN es = DOMAIN entries
           /\ Disables(c, es, r.plan)
  BY DisableAnsweredDoes
<1>a. PICK tag \in {NotFound, WireFailure} : \E es :
           /\ r.reply # "unknown" => tag = WireFailure
           /\ es = (IF r.reply = "ok" THEN entries ELSE Demote(entries, ids, tag))
           /\ Registry(es) /\ DOMAIN es = DOMAIN entries
           /\ Disables(c, es, r.plan)
  BY <1>1
<1>2. PICK es :
           /\ r.reply # "unknown" => tag = WireFailure
           /\ es = (IF r.reply = "ok" THEN entries ELSE Demote(entries, ids, tag))
           /\ Registry(es) /\ DOMAIN es = DOMAIN entries
           /\ Disables(c, es, r.plan)
  BY <1>a
<1>3. tag \in Reasons \ {"none"} BY DEF Reasons, NotFound, WireFailure
<1>4. \A e \in ids \cap Armed(entries) : entries[e].serial = r.cur
  <2>1. One(c) BY <1>1 DEF StagesOK, Stage
  <2> QED BY <2>1 DEF One, Armed
<1>5. Lasting(es)
  <2>1. CASE r.reply = "ok" BY <1>2, <2>1 DEF Lasting
  <2>2. CASE r.reply # "ok"
    <3> HIDE DEF ids
    <3>1. es = Demote(entries, ids, tag) BY <1>2, <2>2
    <3>2. /\ Demoting(es, ids)
          /\ \A e \in ids \cap DOMAIN entries : es[e].reason = tag
      BY <1>3, <3>1, DemotingIs
    <3>3. r.reply = "failed" => \A e \in ids \cap DOMAIN entries : es[e].reason = WireFailure
      BY <1>2, <3>2
    <3> QED BY <1>1, <1>4, <2>2, <3>2, <3>3, RefusedLasts
  <2> QED BY <2>1, <2>2
<1>6. PICK todo : Disables(c, es, todo) BY <1>2
<1> HIDE DEF r, ids
<1> QED BY <1>2, <1>5, <1>6, DisablesLasts

\* Going on with the enable, the merge at its end included, changes no entry.
LEMMA ArmsNextLasts ==
  ASSUME NEW c, NEW es, Registry(es), DOMAIN es = DOMAIN entries, Lasting(es),
         NEW plan, NEW paths, NEW known, ArmsNext(c, es, plan, paths, known)
  PROVE  Lasting(entries')
<1>1. CASE entries' = es BY <1>1
<1>2. CASE entries' = MergeSameSite(es, call[c].ids)
  <2> DEFINE ids == call[c].ids
  <2>1. entries' = MergeSameSite(es, ids) BY <1>2
  <2> HIDE DEF ids
  <2>2. DOMAIN entries' \subseteq DOMAIN es /\ \A e \in DOMAIN entries' : entries'[e] = es[e]
    BY <2>1, MergeIs
  <2> QED BY <2>2 DEF Lasting
<1> QED BY <1>1, <1>2 DEF ArmsNext

LEMMA EnableListsLasts ==
  ASSUME Typed, Locking, StagesOK, ProverOK, Bound, NEW c \in Calls, EnableLists(c)
  PROVE  Lasting(entries')
<1>a. PICK f \in call[c].paths : \E out, es, plan, known :
        /\ Demoting(es, out) /\ Sparing(es, out, known)
        /\ ArmsNext(c, es, plan, call[c].paths \ {f}, known)
  BY EnableListsDoes
<1>1. PICK out, es, plan, known :
        /\ Demoting(es, out) /\ Sparing(es, out, known)
        /\ ArmsNext(c, es, plan, call[c].paths \ {f}, known)
  BY <1>a
<1>2. Lasting(es) BY <1>1 DEF Demoting, Sparing, Lasting
<1>3. Registry(es) /\ DOMAIN es = DOMAIN entries BY <1>1 DEF Demoting
<1> DEFINE rest == call[c].paths \ {f}
<1>4. ArmsNext(c, es, plan, rest, known) BY <1>1
<1> HIDE DEF rest
<1> QED BY <1>2, <1>3, <1>4, ArmsNextLasts

LEMMA EnableAnsweredLasts ==
  ASSUME Typed, Locking, StagesOK, RepliesOK, NEW c \in Calls, EnableAnswered(c)
  PROVE  Lasting(entries')
<1> DEFINE r == call[c]
           gone == IF r.reply = "ok" THEN Late(r.site) ELSE {}
           plan == r.plan
           paths == r.paths
           known == Vouched(r.cur, r.reply) \cup gone
<1>1. /\ r.pc = "on" /\ r.reply \in Final \cup {"failed"}
      /\ \E i \in r.ids : \E es :
           /\ r.marks = {i} /\ i \in DOMAIN entries
           /\ IF r.reply = "ok"
              THEN /\ Registry(es) /\ DOMAIN es = DOMAIN entries
                   /\ \A e \in DOMAIN entries \ {i} : es[e] = entries[e]
                   /\ es[i].serial = r.site.serial
              ELSE /\ Demoting(es, {i}) /\ (r.reply = "failed" => es[i].reason = WireFailure)
           /\ ArmsNext(c, es, plan, paths, known)
  BY EnableAnsweredDoes
<1>2. PICK i, es :
           /\ i \in r.ids
           /\ r.marks = {i} /\ i \in DOMAIN entries
           /\ IF r.reply = "ok"
              THEN /\ Registry(es) /\ DOMAIN es = DOMAIN entries
                   /\ \A e \in DOMAIN entries \ {i} : es[e] = entries[e]
                   /\ es[i].serial = r.site.serial
              ELSE /\ Demoting(es, {i}) /\ (r.reply = "failed" => es[i].reason = WireFailure)
           /\ ArmsNext(c, es, plan, paths, known)
  BY <1>1
<1>3. r.cur = r.site.serial /\ Planning(c) BY <1>1 DEF StagesOK, Stage, SwitchingOn
<1>4. i \in Armed(entries) /\ entries[i].serial \in DOMAIN sites \ stale =>
        entries[i].serial = r.site.serial
  <2> DEFINE p == [id |-> i, site |-> r.site]
  <2>1. p \in Pairs(r) /\ p.id = i /\ p.site = r.site BY <1>2 DEF Pairs
  <2> HIDE DEF p
  <2> QED BY <1>3, <2>1 DEF Planning
<1>5. Lasting(es)
  <2>1. CASE r.reply = "ok" BY <1>2, <1>4, <2>1 DEF Lasting, Armed
  <2>2. CASE r.reply # "ok"
    <3> DEFINE out == {i}
    <3>1. Demoting(es, out) BY <1>2, <2>2
    <3>2. r.reply = "failed" => \A e \in out \cap DOMAIN entries : es[e].reason = WireFailure
      BY <1>2, <2>2
    <3>3. \A e \in out \cap Armed(entries) :
            entries[e].serial \in DOMAIN sites \ stale => entries[e].serial = r.cur
      BY <1>3, <1>4
    <3> HIDE DEF out
    <3> QED BY <1>1, <2>2, <3>1, <3>2, <3>3, RefusedLasts
  <2> QED BY <2>1, <2>2
<1>6. Registry(es) /\ DOMAIN es = DOMAIN entries BY <1>2 DEF Demoting
<1>7. ArmsNext(c, es, plan, paths, known) BY <1>2
<1> HIDE DEF r, plan, paths, known
<1> QED BY <1>5, <1>6, <1>7, ArmsNextLasts

LEMMA ToolLasts == ASSUME IInv, NEW c \in Calls, Tool(c) PROVE Lasting(entries')
<1>1. /\ Typed /\ Locking /\ ProverOK /\ Bound /\ HandsOK /\ StagesOK /\ RepliesOK
      /\ Registry(entries)
  BY DEF IInv, Typed
<1> DEFINE Plainly == \E out : \/ entries' = entries
                               \/ entries' = Without(entries, out)
                               \/ \E flag \in BOOLEAN : entries' = Enable(entries, out, flag)
<1>2. Plainly => Lasting(entries') BY <1>1, PlainLasts
<1>3. CASE OtherTool(c) \/ SetLists(c) \/ EnableCollects(c) \/ EnableReopens(c)
  BY <1>1, <1>2, <1>3, OtherToolDoes, SetListsDoes, EnableCollectsDoes, EnableReopensDoes
<1>4. CASE ReconcileTargets(c) \/ ToggleFails(c) \/ Cut(c)
  BY <1>1, <1>2, <1>4, ReconcileTargetsDoes, ToggleFailsDoes, CutDoes
<1>5. CASE DeleteStarts(c) BY <1>1, <1>2, <1>5, DeleteStartsDoes
<1>6. CASE DeleteAnswered(c) BY <1>1, <1>2, <1>6, DeleteAnsweredDoes
<1>7. CASE EnableFlags(c)
  <2>1. TRUE \in BOOLEAN OBVIOUS
  <2>2. \/ entries' = entries
        \/ \E out : entries' = Enable(entries, out, TRUE)
    BY <1>1, <1>7, EnableFlagsDoes
  <2> QED BY <1>2, <2>1, <2>2, Zenon
<1>8. CASE DisableStarts(c)
  <2>1. PICK todo : Disables(c, entries, todo) BY <1>1, <1>8, DisableStartsDoes
  <2>2. Lasting(entries) BY DEF Lasting
  <2> QED BY <1>1, <2>1, <2>2, DisablesLasts
<1>9. CASE ReconcileVerifies(c)
  <2>1. PICK out : Demoting(entries', out) /\ Sparing(entries', out, unsure')
    BY <1>1, <1>9, ReconcileVerifiesDoes
  <2> QED BY <2>1 DEF Demoting, Sparing, Lasting
<1>10. CASE SetAnswered(c) \/ SetAbandoned(c) BY <1>1, <1>10, SetLasts
<1>11. CASE DisableAnswered(c) BY <1>1, <1>11, DisableAnsweredLasts
<1>12. CASE EnableLists(c) BY <1>1, <1>12, EnableListsLasts
<1>13. CASE EnableAnswered(c) BY <1>1, <1>13, EnableAnsweredLasts
<1> QED BY <1>3, <1>4, <1>5, <1>6, <1>7, <1>8, <1>9, <1>10, <1>11, <1>12, <1>13 DEF Tool
-----------------------------------------------------------------------------
(* The theorems.                                                           *)

LEMMA InitInv == Init => IInv
<1> SUFFICES ASSUME Init PROVE IInv OBVIOUS
<1> USE DEF Init
<1>1. /\ DOMAIN sites = {} /\ DOMAIN entries = {} /\ DOMAIN wire = {} /\ Armed(entries) = {}
  BY DEF Armed
<1>2. \A c \in Calls : call[c].pc = "idle" /\ call[c].reply = "none" BY IdleIs
<1>3. Typed
  <2>1. Registry(entries) BY <1>1 DEF Registry
  <2>2. sites \in [DOMAIN sites -> LiveSites] /\ wire \in Seq(Toggles) OBVIOUS
  <2>3. call \in [Calls -> CallRecords] /\ \A c \in Calls : CallOK(call[c]) BY IdleIs DEF IsCall
  <2>4. at \in [Stmts -> Lines] BY RegistryAssumption
  <2> QED BY <1>1, <2>1, <2>2, <2>3, <2>4, Bounds DEF Typed
<1>4. Locking BY <1>2, CallerOnly DEF Locking, Switching, Arming
<1>5. ProverOK BY <1>1, RegistryAssumption DEF ProverOK
<1>6. Bound /\ Deaths /\ OneEach /\ Flags BY <1>1 DEF Bound, Deaths, Reports, OneEach, Flags
<1>7. HandsOK /\ StagesOK BY <1>2 DEF HandsOK, Hand, StagesOK, Stage, SwitchingOn, Arming
<1>8. RepliesOK /\ WireOK /\ Strays BY <1>1, <1>2 DEF RepliesOK, WireOK, Strays, Sure, Final
<1> QED BY <1>3, <1>4, <1>5, <1>6, <1>7, <1>8 DEF IInv

LEMMA StutterInv == IInv /\ UNCHANGED vars => IInv'
<1> SUFFICES ASSUME IInv, UNCHANGED vars PROVE IInv' OBVIOUS
<1>1. /\ UNCHANGED <<prover, life, held, at, sites, serials, wire>>
      /\ UNCHANGED <<entries, born, dirty, lock, call, sweep, due, coming, untold>>
      /\ UNCHANGED <<histVars, unsure, doubled, stale>>
  BY DEF vars, progVars, histVars, reportVars
<1>2. Typed /\ ProverOK /\ Deaths BY DEF IInv
<1>3. Typed' BY <1>1, <1>2 DEF Typed
<1>4. ProverOK' BY <1>1, <1>2 DEF ProverOK
<1>5. Deaths' BY <1>1, <1>2 DEF Deaths, Reports, Noticed
<1>6. Aside
  <2>1. serials <= serials' BY <1>1, <1>2, Bounds DEF Typed
  <2> QED BY <1>1, <2>1 DEF Aside, Stays
<1> QED BY <1>3, <1>4, <1>5, <1>6, AsideKeeps

LEMMA SessionKeeps == ASSUME IInv, Session PROVE IInv'
<1>1. CASE \E d \in due : MarkSet(d) \/ MarkLost(d) BY <1>1, MarkSetKeeps, MarkLostKeeps
<1>2. CASE SweepDemotes BY <1>2, SweepDemotesKeeps
<1>3. CASE \E f \in coming : EditReaches(f) BY <1>3, EditReachesKeeps
<1>4. CASE SweepSkipped \/ SweepDropped BY <1>4, SweepEndsKeeps DEF SweepSkipped, SweepDropped
<1> QED BY <1>1, <1>2, <1>3, <1>4 DEF Session

LEMMA StepInv == IInv /\ [Next]_vars => IInv'
BY StutterInv, ToolKeeps, ProverTogglesKeeps, CompileKeeps, FinishCommandKeeps, EditPushedKeeps,
   EditRereadKeeps, EditAbsorbedKeeps, RetireKeeps, TeardownBeginsKeeps, TeardownEndsKeeps,
   RelaunchKeeps, SessionKeeps DEF Next, Prover

\* Every part of the invariant holds of every reachable state.
THEOREM Invariant == Spec => []IInv
BY InitInv, StepInv, PTL DEF Spec

\* Every variable keeps its type, and only an armed entry carries a serial.
THEOREM TypeCorrect == Spec => []TypeOK
<1>1. ASSUME IInv PROVE TypeOK
  <2>1. Typed BY <1>1 DEF IInv
  <2>2. \A n \in DOMAIN sites : sites[n] \in [stmt : Stmts, ready : BOOLEAN, on : BOOLEAN]
    BY <2>1 DEF Typed, LiveSites
  <2>3. \A i \in DOMAIN wire : wire[i] \in [serial : Serials, on : BOOLEAN, by : Calls \cup {Nobody}]
    <3>1. wire \in Seq(Toggles) BY <2>1 DEF Typed
    <3>2. \A i \in DOMAIN wire : wire[i] \in Toggles BY <3>1
    <3> QED BY <3>2 DEF Toggles
  <2> QED BY <2>1, <2>2, <2>3 DEF Typed, Registry, TypeOK
<1> QED BY <1>1, Invariant, PTL

\* The mark of the edit that killed an armed entry's site is still to come, or
\* the entry is in reach of a mark, a reconciliation under way or the wrap-up;
\* the deaths nothing reports are those of a lost, never due or too early
\* popped mark, and of a wrap-up that did not run.
THEOREM DeathsAreNoticed == Spec => []SiteDeathIsNoticed
<1>1. ASSUME IInv PROVE SiteDeathIsNoticed
  <2>1. SUFFICES ASSUME NEW e \in Armed(entries),
                        entries[e].serial \notin DOMAIN sites \cup stale \cup untold
                 PROVE  \/ \E d \in due : entries[e].serial \in d.died
                        \/ Doubted(entries[e].file)
                        \/ e \in Unloaded(entries, sweep)
                        \/ prover = "closing"
    BY DEF SiteDeathIsNoticed
  <2>2. Noticed(e) BY <1>1, <2>1 DEF IInv, Deaths
  <2>3. Leads(dirty, entries[e].file) => Doubted(entries[e].file) BY DEF Leads, Doubted
  <2>4. ASSUME NEW c \in Calls, call[c].pc \in Reconciling, Leads(call[c].marks, entries[e].file)
        PROVE  Doubted(entries[e].file)
    <3>1. CallOK(call[c]) BY <1>1 DEF IInv, Typed
    <3>2. call[c].op = "reconcile" BY <2>4, <3>1 DEF CallOK
    <3> QED BY <2>4, <3>2 DEF Leads, Doubted
  <2> QED BY <2>2, <2>3, <2>4 DEF Noticed, Leads, Reconciling
<1> QED BY <1>1, Invariant, PTL

\* Between calls a site that stops threads is some entry's.
THEOREM SitesAreListed == Spec => []NoStrayBreakpoint
<1>1. ASSUME IInv PROVE NoStrayBreakpoint
  <2>1. SUFFICES ASSUME lock = Nobody, NEW n \in DOMAIN sites \ (unsure \cup stale), sites[n].on
                 PROVE  Carries(entries, n) # {}
    BY DEF NoStrayBreakpoint
  <2>2. ~InFlux(n) BY <1>1, <2>1, NoneHolds DEF IInv
  <2> QED BY <1>1, <2>1, <2>2 DEF IInv, Strays, Sure
<1> QED BY <1>1, Invariant, PTL

\* Between calls an armed entry's flag is its site's.
THEOREM FlagsAreTrue == Spec => []FlagMatchesSite
<1>1. ASSUME IInv PROVE FlagMatchesSite
  <2>1. SUFFICES ASSUME lock = Nobody, NEW e \in Armed(entries),
                        entries[e].serial \in DOMAIN sites \ (unsure \cup doubled \cup stale)
                 PROVE  sites[entries[e].serial].on = entries[e].enabled
    BY DEF FlagMatchesSite
  <2>2. Enabling = {} /\ ~InFlux(entries[e].serial) BY <1>1, <2>1, NoneHolds DEF IInv
  <2> HIDE DEF Enabling, InFlux
  <2> QED BY <1>1, <2>1, <2>2 DEF IInv, Flags, Sure
<1> QED BY <1>1, Invariant, PTL

\* No step rebinds or demotes a live site's entry, but for a failed wire.
THEOREM LiveEntriesStay == Spec => LiveEntryKeepsItsSite
<1> DEFINE A == \A e \in Armed(entries) \cap DOMAIN entries' :
                  /\ entries[e].serial \in DOMAIN sites \cap DOMAIN sites'
                  /\ entries[e].serial \notin stale
                  => \/ entries'[e].serial = entries[e].serial
                     \/ entries'[e].reason = WireFailure
<1>1. ASSUME IInv, [Next]_vars PROVE A
  <2>1. Lasting(entries') => A BY DEF Lasting
  <2>2. entries' = entries => A OBVIOUS
  <2>3. CASE \E c \in Calls : Tool(c) BY <1>1, <2>1, <2>3, ToolLasts
  <2>4. CASE TeardownEnds
    <3>1. DOMAIN sites' = {} BY <2>4 DEF TeardownEnds
    <3> QED BY <3>1
  <2>5. CASE SweepDemotes
    <3>1. \A e \in Unloaded(entries, sweep) : entries[e].serial \notin DOMAIN sites \ stale
      BY <1>1, UnloadedIsDead DEF IInv
    <3>2. \A e \in DOMAIN entries : e \notin Unloaded(entries, sweep) => entries'[e] = entries[e]
      BY <2>5 DEF SweepDemotes, Demote
    <3> QED BY <3>1, <3>2 DEF Armed
  <2>6. CASE \/ ProverToggles \/ Compile \/ FinishCommand \/ EditPushed \/ EditReread
             \/ EditAbsorbed \/ Retire \/ TeardownBegins \/ Relaunch \/ UNCHANGED vars
    <3>1. entries' = entries
      BY <2>6 DEF ProverToggles, Compile, FinishCommand, EditPushed, EditReread, EditAbsorbed,
                  Retire, TeardownBegins, Relaunch, vars
    <3> QED BY <2>2, <3>1
  <2>7. CASE \/ SweepSkipped \/ SweepDropped
             \/ \E d \in due : MarkSet(d) \/ MarkLost(d)
             \/ \E f \in coming : EditReaches(f)
    <3>1. entries' = entries
      BY <2>7 DEF SweepSkipped, SweepDropped, SweepEnds, MarkSet, MarkLost, EditReaches
    <3> QED BY <2>2, <3>1
  <2> QED BY <1>1, <2>3, <2>4, <2>5, <2>6, <2>7 DEF Next, Prover, Session
<1> QED BY <1>1, Invariant, PTL DEF Spec, LiveEntryKeepsItsSite
=============================================================================
