------------------------- MODULE DebugSessionProofs -------------------------
(***************************************************************************)
(* Theorems of DebugSession, for any number of threads, calls, processes   *)
(* and pushes.  The inductive invariant says what each look at the table   *)
(* finds: it is in order, it is behind the live map by the backlog only,   *)
(* the calls' hits are its hits, and whoever launches or tears down holds  *)
(* the lock over a prover that has not halted anywhere.                    *)
(*                                                                         *)
(* The table's operators are taken one by one; Folds says what folding any *)
(* backlog keeps, Adjusts what a tool's own change to the table keeps.     *)
(* Turned, Called and Telling are what every step of a call keeps of the   *)
(* table, of the calls and of the agent's news.                            *)
(***************************************************************************)
EXTENDS DebugSession, DataLemmas, FiniteSetTheorems

-----------------------------------------------------------------------------
(* The invariant.                                                          *)

Hits == [thread : Threads, stack : 1..MaxHalts, stepping : BOOLEAN, ending : Endings]
Labels == {"idle", "returning", "continue", "step", "stepping", "evaluating", "report", "cancel",
           "sweep", "doomed", "closing", "closing for launch", "spawn", "shake", "probe", "reap"}
Holdings == UNION {[D -> Threads] : D \in SUBSET Nat}
CallRecords == [pc : Labels, hits : Holdings, todo : SUBSET Nat, halt : Nat, news : BOOLEAN,
                process : Nat, want : Sessions \cup {Nobody}]

\* A hit table in order: an id is live or retired once it was minted, and a
\* thread has one live hit at most.
IsTable(tbl) ==
  tbl = [live |-> tbl.live, retired |-> tbl.retired, seq |-> tbl.seq, notices |-> tbl.notices]

TableOK(tbl) ==
  /\ IsTable(tbl)
  /\ tbl.seq \in Nat
  /\ tbl.live \in [DOMAIN tbl.live -> Hits] /\ DOMAIN tbl.live \subseteq 1..tbl.seq
  /\ tbl.retired \in [(1..tbl.seq) \ DOMAIN tbl.live -> Endings \ {"none"}]
  /\ tbl.notices \subseteq {"new", "ended"} \X (1..tbl.seq)
  /\ \A g, h \in DOMAIN tbl.live : tbl.live[g].thread = tbl.live[h].thread => g = h

Typed ==
  /\ process \in 0..MaxStarts /\ living \subseteq 1..MaxStarts
  /\ shaken \in BOOLEAN /\ logic \in Sessions \cup {Nobody}
  /\ halted \in Snapshots /\ threads \in Snapshots
  /\ inbox \in [Threads -> Nat] /\ swept \subseteq Threads
  /\ wire \in Seq(Snapshots) /\ backlog \in Seq(Snapshots)
  /\ TableOK(table)
  /\ lock \in Calls \cup {Nobody}
  /\ call \in [Calls -> CallRecords]
  /\ \A c \in Calls : Mine(c) \subseteq 1..table.seq /\ call[c].todo \subseteq Mine(c)
  /\ told \subseteq 1..table.seq /\ cut \subseteq 1..table.seq
  /\ spent \in [halts : 0..MaxHalts, starts : 0..MaxStarts, calls : Nat, trouble : Nat]

\* Hits keep their threads, and a new one has a new id.
Keeps(old, new) ==
  /\ old.seq <= new.seq
  /\ \A h \in DOMAIN new.live : IF h \in DOMAIN old.live
                                  THEN new.live[h].thread = old.live[h].thread
                                  ELSE h > old.seq

\* Folding steps no hit.
Unstepped(old, new) ==
  \A h \in DOMAIN new.live : new.live[h].stepping => h \in DOMAIN old.live /\ old.live[h].stepping

\* Folding announces what it mints.
Announces(old, new) == Announced(old) \cup (old.seq + 1 .. new.seq) \subseteq Announced(new)

\* A table says what a push says, but for the hits of OUT.
Matches(tbl, push, out) ==
  /\ \A t \in Threads : push[t] # 0 =>
       \E h \in DOMAIN tbl.live : tbl.live[h].thread = t /\ tbl.live[h].stack = push[t]
  /\ \A h \in DOMAIN tbl.live \ out : push[tbl.live[h].thread] = 0 => tbl.live[h].stepping

Launching == {"spawn", "shake", "probe", "reap"}
Locking == Launching \cup {"cancel", "sweep", "closing", "closing for launch"}
Quiet == Live = {} /\ backlog = <<>> /\ wire = <<>> /\ threads = Running /\ halted = Running

\* A session under a free lock: who launches or tears down holds it.
Session ==
  /\ \A c \in Calls : call[c].pc \in Locking <=> lock = c
  /\ living \subseteq {process}
  /\ process = 0 => Quiet
  /\ process # 0 => shaken \/ \E c \in Calls : call[c].pc \in {"shake", "reap"}
  /\ \A c \in Calls : /\ call[c].pc \in Launching => Quiet
                      /\ call[c].pc = "spawn" => process = 0
                      /\ call[c].pc = "reap" => living = {}

\* A call's hits, as far as they live, are its threads'.
Held == \A c \in Calls : \A h \in Mine(c) \cap Live : call[c].hits[h] = table.live[h].thread

\* A stepping hit is a call's, unless that call was cut short.
Steps ==
  /\ \A c \in Calls : call[c].pc \in {"step", "stepping"} => \E h \in HitIds : Mine(c) = {h}
  /\ \A h \in Live \ cut : table.live[h].stepping =>
       \E c \in Calls : call[c].pc \in {"step", "stepping"} /\ h \in Mine(c)

\* The table is behind the live map by the backlog only.
Current == IF backlog = <<>> THEN Matches(table, threads, cut)
           ELSE backlog[Len(backlog)] = threads

IInv == Typed /\ Session /\ Held /\ Steps /\ Current /\ EveryHitIsTold

-----------------------------------------------------------------------------
(* What the operators of the hit table do.                                 *)

\* What is read off a table that is changed in one place.
LEMMA LiveSet ==
  ASSUME NEW tbl, IsTable(tbl), NEW x, NEW b, b = [tbl EXCEPT !.live = x]
  PROVE  IsTable(b) /\ b.live = x /\ b.retired = tbl.retired /\ b.seq = tbl.seq
         /\ b.notices = tbl.notices
BY DEF IsTable

LEMMA RetiredSet ==
  ASSUME NEW tbl, IsTable(tbl), NEW x, NEW b, b = [tbl EXCEPT !.retired = x]
  PROVE  IsTable(b) /\ b.live = tbl.live /\ b.retired = x /\ b.seq = tbl.seq
         /\ b.notices = tbl.notices
BY DEF IsTable

LEMMA SeqSet ==
  ASSUME NEW tbl, IsTable(tbl), NEW x, NEW b, b = [tbl EXCEPT !.seq = x]
  PROVE  IsTable(b) /\ b.live = tbl.live /\ b.retired = tbl.retired /\ b.seq = x
         /\ b.notices = tbl.notices
BY DEF IsTable

LEMMA NoticesSet ==
  ASSUME NEW tbl, IsTable(tbl), NEW x, NEW b, b = [tbl EXCEPT !.notices = x]
  PROVE  IsTable(b) /\ b.live = tbl.live /\ b.retired = tbl.retired /\ b.seq = tbl.seq
         /\ b.notices = x
BY DEF IsTable

LEMMA EndingIs ==
  ASSUME NEW tbl, TableOK(tbl), NEW hits, NEW ending \in Endings
  PROVE  LET b == Ending(tbl, hits, ending) IN
         /\ TableOK(b) /\ Keeps(tbl, b) /\ DOMAIN b.live = DOMAIN tbl.live
         /\ b.seq = tbl.seq /\ b.notices = tbl.notices
         /\ \A h \in DOMAIN tbl.live : /\ b.live[h].thread = tbl.live[h].thread
                                       /\ b.live[h].stack = tbl.live[h].stack
                                       /\ b.live[h].stepping = tbl.live[h].stepping
<1> DEFINE live == [h \in DOMAIN tbl.live |-> IF h \in hits THEN [tbl.live[h] EXCEPT !.ending = ending]
                                              ELSE tbl.live[h]]
           b == Ending(tbl, hits, ending)
<1>1. IsTable(b) /\ b.live = live /\ b.retired = tbl.retired /\ b.seq = tbl.seq /\ b.notices = tbl.notices
  <2>1. IsTable(tbl) BY DEF TableOK
  <2>2. b = [tbl EXCEPT !.live = live] BY DEF Ending
  <2> HIDE DEF live, b
  <2> QED BY <2>1, <2>2, LiveSet
<1>2. \A h \in DOMAIN tbl.live : tbl.live[h] \in Hits BY DEF TableOK
<1>3. \A h \in DOMAIN tbl.live : /\ live[h] \in Hits
                                 /\ live[h].thread = tbl.live[h].thread
                                 /\ live[h].stack = tbl.live[h].stack
                                 /\ live[h].stepping = tbl.live[h].stepping
  BY <1>2 DEF Hits
<1>4. DOMAIN live = DOMAIN tbl.live /\ live \in [DOMAIN live -> Hits] BY <1>3
<1> HIDE DEF live, b
<1>5. TableOK(b) BY <1>1, <1>3, <1>4 DEF TableOK
<1>6. Keeps(tbl, b) BY <1>1, <1>3, <1>4 DEF Keeps, TableOK
<1> QED BY <1>1, <1>3, <1>4, <1>5, <1>6 DEF b

LEMMA SteppingIs ==
  ASSUME NEW tbl, TableOK(tbl), NEW hits, NEW flag \in BOOLEAN
  PROVE  LET b == Stepping(tbl, hits, flag) IN
         /\ TableOK(b) /\ Keeps(tbl, b) /\ DOMAIN b.live = DOMAIN tbl.live
         /\ b.seq = tbl.seq /\ b.notices = tbl.notices
         /\ \A h \in DOMAIN tbl.live :
              /\ b.live[h].thread = tbl.live[h].thread
              /\ b.live[h].stack = tbl.live[h].stack
              /\ b.live[h].stepping = IF h \in hits THEN flag ELSE tbl.live[h].stepping
<1> DEFINE live == [h \in DOMAIN tbl.live |-> IF h \in hits THEN [tbl.live[h] EXCEPT !.stepping = flag]
                                              ELSE tbl.live[h]]
           b == Stepping(tbl, hits, flag)
<1>1. IsTable(b) /\ b.live = live /\ b.retired = tbl.retired /\ b.seq = tbl.seq /\ b.notices = tbl.notices
  <2>1. IsTable(tbl) BY DEF TableOK
  <2>2. b = [tbl EXCEPT !.live = live] BY DEF Stepping
  <2> HIDE DEF live, b
  <2> QED BY <2>1, <2>2, LiveSet
<1>2. \A h \in DOMAIN tbl.live : tbl.live[h] \in Hits BY DEF TableOK
<1>3. \A h \in DOMAIN tbl.live :
        /\ live[h] \in Hits
        /\ live[h].thread = tbl.live[h].thread
        /\ live[h].stack = tbl.live[h].stack
        /\ live[h].stepping = IF h \in hits THEN flag ELSE tbl.live[h].stepping
  BY <1>2 DEF Hits
<1>4. DOMAIN live = DOMAIN tbl.live /\ live \in [DOMAIN live -> Hits] BY <1>3
<1> HIDE DEF live, b
<1>5. TableOK(b) BY <1>1, <1>3, <1>4 DEF TableOK
<1>6. Keeps(tbl, b) BY <1>1, <1>3, <1>4 DEF Keeps, TableOK
<1> QED BY <1>1, <1>3, <1>4, <1>5, <1>6 DEF b

\* Notices taken away.
LEMMA NoticesTaken ==
  ASSUME NEW tbl, TableOK(tbl), NEW left, left \subseteq tbl.notices
  PROVE  LET b == [tbl EXCEPT !.notices = left] IN
         TableOK(b) /\ Keeps(tbl, b) /\ b.live = tbl.live /\ b.seq = tbl.seq /\ b.notices = left
<1> DEFINE b == [tbl EXCEPT !.notices = left]
<1>1. /\ IsTable(b) /\ b.live = tbl.live /\ b.retired = tbl.retired /\ b.seq = tbl.seq
      /\ b.notices = left
  <2>1. IsTable(tbl) BY DEF TableOK
  <2>2. b = [tbl EXCEPT !.notices = left] OBVIOUS
  <2> HIDE DEF b
  <2> QED BY <2>1, <2>2, NoticesSet
<1> HIDE DEF b
<1>2. TableOK(b) BY <1>1 DEF TableOK
<1>3. Keeps(tbl, b) BY <1>1 DEF Keeps, TableOK
<1> QED BY <1>1, <1>2, <1>3 DEF b

LEMMA ConsumedIs ==
  ASSUME NEW tbl, TableOK(tbl), NEW hits
  PROVE  LET b == Consumed(tbl, hits) IN
         /\ TableOK(b) /\ Keeps(tbl, b) /\ b.live = tbl.live /\ b.seq = tbl.seq
         /\ Announced(tbl) \subseteq Announced(b) \cup hits
<1> DEFINE left == tbl.notices \ {NewHit(h) : h \in hits}
           b == Consumed(tbl, hits)
<1>1. left \subseteq tbl.notices OBVIOUS
<1>2. b = [tbl EXCEPT !.notices = left] BY DEF Consumed
<1>3. TableOK(b) /\ Keeps(tbl, b) /\ b.live = tbl.live /\ b.seq = tbl.seq /\ b.notices = left
  <2> HIDE DEF left, b
  <2> QED BY <1>1, <1>2, NoticesTaken
<1>4. ASSUME NEW n \in tbl.notices, n[1] = "new", n[2] \notin hits PROVE n \in left
  BY <1>4 DEF NewHit
<1> HIDE DEF b, left
<1>5. Announced(tbl) \subseteq Announced(b) \cup hits BY <1>3, <1>4 DEF Announced
<1> QED BY <1>3, <1>5 DEF b

\* Hits leave the live table for the retired ones.
LEMMA RetireIs ==
  ASSUME NEW tbl, TableOK(tbl), NEW D \in SUBSET (DOMAIN tbl.live),
         NEW endings \in [D -> Endings \ {"none"}]
  PROVE  LET b == Retire(tbl, endings) IN
         /\ TableOK(b) /\ Keeps(tbl, b) /\ b.seq = tbl.seq /\ b.notices = tbl.notices
         /\ DOMAIN b.live = (DOMAIN tbl.live) \ D
         /\ \A h \in DOMAIN b.live : b.live[h] = tbl.live[h]
<1> DEFINE live == [h \in DOMAIN tbl.live \ D |-> tbl.live[h]]
           gone == [h \in DOMAIN tbl.retired \cup D |->
                      IF h \in D THEN endings[h] ELSE tbl.retired[h]]
           mid == [tbl EXCEPT !.live = live]
           b == Retire(tbl, endings)
<1>0. DOMAIN endings = D OBVIOUS
<1>1. IsTable(mid) /\ mid.live = live /\ mid.retired = tbl.retired /\ mid.seq = tbl.seq
      /\ mid.notices = tbl.notices
  <2>1. IsTable(tbl) BY DEF TableOK
  <2>2. mid = [tbl EXCEPT !.live = live] OBVIOUS
  <2> HIDE DEF live, mid
  <2> QED BY <2>1, <2>2, LiveSet
<1>2. b = [mid EXCEPT !.retired = gone] BY <1>0, <1>1 DEF Retire, TableOK, IsTable
<1>3. IsTable(b) /\ b.live = live /\ b.retired = gone /\ b.seq = tbl.seq /\ b.notices = tbl.notices
  <2> HIDE DEF live, gone, mid, b
  <2>1. /\ IsTable(b) /\ b.live = mid.live /\ b.retired = gone /\ b.seq = mid.seq
        /\ b.notices = mid.notices
    BY <1>1, <1>2, RetiredSet
  <2> QED BY <1>1, <2>1
<1>4. DOMAIN live = (DOMAIN tbl.live) \ D /\ \A h \in DOMAIN live : live[h] = tbl.live[h]
  OBVIOUS
<1>5. live \in [DOMAIN live -> Hits] BY DEF TableOK
<1>6. gone \in [(1..tbl.seq) \ DOMAIN live -> Endings \ {"none"}]
  <2>1. tbl.retired \in [(1..tbl.seq) \ DOMAIN tbl.live -> Endings \ {"none"}] /\ D \subseteq 1..tbl.seq
    BY DEF TableOK
  <2>2. (1..tbl.seq) \ DOMAIN live = DOMAIN tbl.retired \cup D BY <2>1, <1>4
  <2>3. \A h \in DOMAIN tbl.retired \cup D : gone[h] \in Endings \ {"none"} BY <2>1
  <2>4. gone = [h \in DOMAIN tbl.retired \cup D |-> gone[h]] OBVIOUS
  <2> HIDE DEF gone, live
  <2> QED BY <2>2, <2>3, <2>4
<1> HIDE DEF live, gone, b, mid
<1>7. TableOK(b) BY <1>3, <1>4, <1>5, <1>6 DEF TableOK
<1>8. Keeps(tbl, b) BY <1>3, <1>4 DEF Keeps, TableOK
<1> QED BY <1>3, <1>4, <1>7, <1>8 DEF b

\* The live hits after a push: whose threads are stopped are there with the new
\* stack, the others are being stepped.
LEMMA RefreshedIs ==
  ASSUME NEW tbl, TableOK(tbl), NEW S \in SUBSET Threads, NEW stopped \in [S -> 1..MaxHalts]
  PROVE  LET b == Refreshed(tbl, stopped) IN
         /\ TableOK(b) /\ b.seq = tbl.seq /\ DOMAIN b.live \subseteq DOMAIN tbl.live
         /\ \A h \in DOMAIN b.live :
              /\ b.live[h].thread = tbl.live[h].thread
              /\ b.live[h].stepping => tbl.live[h].stepping
              /\ IF b.live[h].thread \in S THEN b.live[h].stack = stopped[b.live[h].thread]
                                           ELSE b.live[h].stepping
         /\ Announced(tbl) \subseteq Announced(b)
<1> DEFINE on == tbl.live
           left == {h \in DOMAIN on : on[h].thread \notin DOMAIN stopped /\ ~on[h].stepping}
           unattributed == {h \in left : on[h].ending = "none"}
           kept == [h \in DOMAIN on |-> IF on[h].thread \in DOMAIN stopped
                                          THEN Restopped(on[h], stopped[on[h].thread])
                                          ELSE on[h]]
           endings == [h \in left |-> IF h \in unattributed THEN "resumed" ELSE on[h].ending]
           mid == [tbl EXCEPT !.live = kept]
           out == Retire(mid, endings)
           notices == out.notices \cup {HitEnded(h) : h \in unattributed}
           b == Refreshed(tbl, stopped)
<1>0. DOMAIN stopped = S OBVIOUS
<1>1. b = [out EXCEPT !.notices = notices] BY DEF Refreshed
<1>2. IsTable(mid) /\ mid.live = kept /\ mid.retired = tbl.retired /\ mid.seq = tbl.seq
      /\ mid.notices = tbl.notices
  <2>1. IsTable(tbl) BY DEF TableOK
  <2>2. mid = [tbl EXCEPT !.live = kept] OBVIOUS
  <2> HIDE DEF kept, mid
  <2> QED BY <2>1, <2>2, LiveSet
<1>3. \A h \in DOMAIN on : on[h] \in Hits BY DEF TableOK
<1>4. \A h \in DOMAIN on :
        /\ kept[h] \in Hits /\ kept[h].thread = on[h].thread
        /\ kept[h].stepping => on[h].stepping
        /\ IF on[h].thread \in S THEN kept[h].stack = stopped[on[h].thread]
                                 ELSE kept[h].stepping = on[h].stepping
  BY <1>0, <1>3 DEF Hits, Restopped
<1>5. DOMAIN kept = DOMAIN on /\ kept \in [DOMAIN kept -> Hits] BY <1>4
<1>6. left \subseteq DOMAIN on /\ unattributed \subseteq left OBVIOUS
<1>7. endings \in [left -> Endings \ {"none"}] BY <1>3 DEF Hits, Endings
<1>8. \A h \in (DOMAIN on) \ left : on[h].thread \notin S => on[h].stepping BY <1>0
<1> HIDE DEF kept, left, unattributed, endings, mid
<1>9. TableOK(mid) BY <1>2, <1>4, <1>5 DEF TableOK
<1>10. /\ TableOK(out) /\ out.seq = tbl.seq /\ out.notices = tbl.notices
       /\ DOMAIN out.live = (DOMAIN on) \ left
       /\ \A h \in DOMAIN out.live : out.live[h] = kept[h]
  <2>1. left \in SUBSET (DOMAIN mid.live) BY <1>2, <1>5, <1>6
  <2>2. /\ TableOK(out) /\ out.seq = mid.seq /\ out.notices = mid.notices
        /\ DOMAIN out.live = (DOMAIN mid.live) \ left
        /\ \A h \in DOMAIN out.live : out.live[h] = mid.live[h]
    BY <2>1, <1>9, <1>7, RetireIs
  <2> QED BY <2>2, <1>2, <1>5
<1>11. notices \subseteq {"new", "ended"} \X (1..tbl.seq) /\ tbl.notices \subseteq notices
  <2>1. unattributed \subseteq 1..tbl.seq BY <1>6 DEF TableOK
  <2>2. tbl.notices \subseteq {"new", "ended"} \X (1..tbl.seq) BY DEF TableOK
  <2>3. \A h \in unattributed : HitEnded(h) \in {"new", "ended"} \X (1..tbl.seq)
    BY <2>1 DEF HitEnded
  <2>4. out.notices = tbl.notices BY <1>10
  <2> HIDE DEF out
  <2>5. notices = tbl.notices \cup {HitEnded(h) : h \in unattributed} BY <2>4
  <2> HIDE DEF notices
  <2> QED BY <2>2, <2>3, <2>5
<1> HIDE DEF out, notices, b
<1>12. /\ IsTable(b) /\ b.live = out.live /\ b.retired = out.retired /\ b.seq = out.seq
       /\ b.notices = notices
  <2>1. IsTable(out) BY <1>10 DEF TableOK
  <2> QED BY <2>1, <1>1, NoticesSet
<1>13. TableOK(b) BY <1>10, <1>11, <1>12 DEF TableOK
<1>14. Announced(tbl) \subseteq Announced(b) BY <1>11, <1>12 DEF Announced
<1>15. ASSUME NEW h \in DOMAIN b.live
       PROVE  /\ b.live[h].thread = tbl.live[h].thread
              /\ b.live[h].stepping => tbl.live[h].stepping
              /\ IF b.live[h].thread \in S THEN b.live[h].stack = stopped[b.live[h].thread]
                                           ELSE b.live[h].stepping
  <2>1. h \in (DOMAIN on) \ left /\ b.live[h] = kept[h] BY <1>10, <1>12
  <2> QED BY <2>1, <1>4, <1>8
<1> QED BY <1>10, <1>12, <1>13, <1>14, <1>15 DEF b

LEMMA Numbers ==
  ASSUME NEW n \in Nat, NEW fresh, IsFiniteSet(fresh)
  PROVE  LET ids == n + 1 .. n + Cardinality(fresh)
             of == CHOOSE f \in Bijection(ids, fresh) : TRUE
         IN /\ Cardinality(fresh) \in Nat
            /\ of \in [ids -> fresh]
            /\ \A i, j \in ids : of[i] = of[j] => i = j
            /\ \A t \in fresh : \E i \in ids : of[i] = t
<1> DEFINE k == Cardinality(fresh)
           ids == n + 1 .. n + k
           of == CHOOSE f \in Bijection(ids, fresh) : TRUE
<1>1. k \in Nat BY FS_CardinalityType
<1>2. IsFiniteSet(ids) /\ Cardinality(ids) = k
  <2>1. n + 1 \in Int /\ n + k \in Int BY <1>1
  <2> HIDE DEF k
  <2>2. IsFiniteSet(ids) /\ Cardinality(ids) = IF n + 1 > n + k THEN 0 ELSE (n + k) - (n + 1) + 1
    BY <2>1, FS_Interval
  <2> QED BY <2>2, <1>1
<1>3. ExistsBijection(ids, fresh) BY <1>2, FS_SameCardinalityBij
<1>4. of \in Bijection(ids, fresh)
  <2> HIDE DEF ids
  <2> QED BY <1>3 DEF ExistsBijection
<1> HIDE DEF of, ids
<1>5. of \in [ids -> fresh] /\ (\A i, j \in ids : of[i] = of[j] => i = j)
      /\ \A t \in fresh : \E i \in ids : of[i] = t
  BY <1>4 DEF Bijection, Injection, Surjection, IsInjective
<1> QED BY <1>1, <1>5 DEF of, ids

LEMMA MintedIs ==
  ASSUME NEW tbl, TableOK(tbl), NEW S \in SUBSET Threads, NEW stopped \in [S -> 1..MaxHalts],
         NEW fresh \in SUBSET S, \A h \in DOMAIN tbl.live : tbl.live[h].thread \notin fresh
  PROVE  LET b == Minted(tbl, stopped, fresh) IN
         /\ TableOK(b) /\ tbl.seq <= b.seq /\ DOMAIN tbl.live \subseteq DOMAIN b.live
         /\ \A h \in DOMAIN b.live :
              IF h \in DOMAIN tbl.live THEN b.live[h] = tbl.live[h]
              ELSE /\ h > tbl.seq /\ b.live[h].thread \in fresh /\ ~b.live[h].stepping
                   /\ b.live[h].stack = stopped[b.live[h].thread]
         /\ \A t \in fresh : \E h \in DOMAIN b.live : b.live[h].thread = t
         /\ Announces(tbl, b)
<1> DEFINE k == Cardinality(fresh)
           ids == tbl.seq + 1 .. tbl.seq + k
           of == CHOOSE f \in Bijection(ids, fresh) : TRUE
           live == [h \in DOMAIN tbl.live \cup ids |-> IF h \in ids THEN Hit(of[h], stopped[of[h]])
                                                       ELSE tbl.live[h]]
           notices == tbl.notices \cup {NewHit(h) : h \in ids}
           one == [tbl EXCEPT !.seq = tbl.seq + k]
           two == [one EXCEPT !.live = live]
           b == Minted(tbl, stopped, fresh)
<1>0. tbl.seq \in Nat /\ IsTable(tbl) BY DEF TableOK
<1>1. /\ k \in Nat /\ of \in [ids -> fresh]
      /\ \A i, j \in ids : of[i] = of[j] => i = j
      /\ \A t \in fresh : \E i \in ids : of[i] = t
  <2>1. IsFiniteSet(fresh)
    <3>1. IsFiniteSet(Threads) /\ fresh \subseteq Threads BY SessionAssumption
    <3> QED BY <3>1, FS_Subset
  <2> QED BY <2>1, <1>0, Numbers
<1>2. b = [two EXCEPT !.notices = notices] BY <1>0 DEF Minted, IsTable
<1> HIDE DEF of
<1>3. DOMAIN live = DOMAIN tbl.live \cup ids OBVIOUS
<1>4. \A h \in ids : /\ live[h] \in Hits /\ live[h].thread = of[h] /\ of[h] \in fresh
                     /\ live[h].stack = stopped[of[h]] /\ ~live[h].stepping
  <2> TAKE h \in ids
  <2>1. of[h] \in fresh /\ of[h] \in Threads /\ stopped[of[h]] \in 1..MaxHalts BY <1>1
  <2>2. live[h] = Hit(of[h], stopped[of[h]]) OBVIOUS
  <2> QED BY <2>1, <2>2 DEF Hits, Hit, Endings
<1>5. ids \cap DOMAIN tbl.live = {} /\ \A h \in ids : h > tbl.seq
  BY <1>0, <1>1 DEF TableOK
<1>6. \A h \in DOMAIN tbl.live : live[h] = tbl.live[h] /\ live[h] \in Hits
  BY <1>5 DEF TableOK
<1>7. live = [h \in DOMAIN live |-> live[h]] OBVIOUS
<1> HIDE DEF live
<1>8. live \in [DOMAIN live -> Hits] BY <1>3, <1>4, <1>6, <1>7
<1>9. IsTable(one) /\ one.live = tbl.live /\ one.retired = tbl.retired /\ one.seq = tbl.seq + k
      /\ one.notices = tbl.notices
  <2>1. one = [tbl EXCEPT !.seq = tbl.seq + k] OBVIOUS
  <2> HIDE DEF one
  <2> QED BY <2>1, <1>0, SeqSet
<1>10. IsTable(two) /\ two.live = live /\ two.retired = tbl.retired /\ two.seq = tbl.seq + k
      /\ two.notices = tbl.notices
  <2>1. two = [one EXCEPT !.live = live] OBVIOUS
  <2> HIDE DEF one, two
  <2> QED BY <2>1, <1>9, LiveSet
<1> HIDE DEF one, two, notices, b
<1>11. IsTable(b) /\ b.live = live /\ b.retired = tbl.retired /\ b.seq = tbl.seq + k
      /\ b.notices = notices
  BY <1>2, <1>10, NoticesSet
<1>12. notices \subseteq {"new", "ended"} \X (1..(tbl.seq + k)) /\ tbl.notices \subseteq notices
       /\ \A h \in ids : <<"new", h>> \in notices
  <2>1. ids \subseteq 1..(tbl.seq + k) BY <1>0, <1>1
  <2>2. tbl.notices \subseteq {"new", "ended"} \X (1..tbl.seq) BY DEF TableOK
  <2>3. 1..tbl.seq \subseteq 1..(tbl.seq + k) BY <1>0, <1>1
  <2> QED BY <2>1, <2>2, <2>3 DEF NewHit, notices
<1>13. TableOK(b)
  <2>1. DOMAIN live \subseteq 1..(tbl.seq + k) BY <1>0, <1>1, <1>3 DEF TableOK
  <2>2. (1..(tbl.seq + k)) \ DOMAIN live = (1..tbl.seq) \ DOMAIN tbl.live BY <1>0, <1>1, <1>3
  <2>3. tbl.retired \in [(1..(tbl.seq + k)) \ DOMAIN live -> Endings \ {"none"}]
    BY <2>2 DEF TableOK
  <2>4. ASSUME NEW g \in DOMAIN live, NEW h \in DOMAIN live, live[g].thread = live[h].thread
        PROVE  g = h
    <3>1. \A i \in ids, j \in DOMAIN tbl.live : live[i].thread # live[j].thread BY <1>4, <1>6
    <3>2. CASE g \in ids /\ h \in ids BY <3>2, <2>4, <1>1, <1>4
    <3>3. CASE g \in DOMAIN tbl.live /\ h \in DOMAIN tbl.live BY <3>3, <2>4, <1>6 DEF TableOK
    <3> QED BY <3>1, <3>2, <3>3, <2>4, <1>3
  <2> HIDE DEF ids
  <2> QED BY <2>1, <2>3, <2>4, <1>0, <1>1, <1>8, <1>11, <1>12 DEF TableOK
<1>14. Announces(tbl, b)
  <2>1. Announced(tbl) \subseteq Announced(b) BY <1>11, <1>12 DEF Announced
  <2>2. ASSUME NEW h \in ids PROVE h \in Announced(b)
    <3> DEFINE n == <<"new", h>>
    <3>1. n \in b.notices /\ n[1] = "new" /\ n[2] = h BY <2>2, <1>11, <1>12
    <3> HIDE DEF n
    <3> QED BY <3>1 DEF Announced
  <2> QED BY <2>1, <2>2, <1>11 DEF Announces
<1>15. \A t \in fresh : \E h \in DOMAIN b.live : b.live[h].thread = t
  BY <1>1, <1>3, <1>4, <1>11
<1>16. tbl.seq <= b.seq BY <1>0, <1>1, <1>11
<1>17. ASSUME NEW h \in DOMAIN b.live
       PROVE  IF h \in DOMAIN tbl.live THEN b.live[h] = tbl.live[h]
              ELSE /\ h > tbl.seq /\ b.live[h].thread \in fresh /\ ~b.live[h].stepping
                   /\ b.live[h].stack = stopped[b.live[h].thread]
  <2> HIDE DEF ids
  <2> QED BY <1>3, <1>4, <1>5, <1>6, <1>11
<1> HIDE DEF ids
<1> QED BY <1>3, <1>11, <1>13, <1>14, <1>15, <1>16, <1>17 DEF b

-----------------------------------------------------------------------------
(* Folding pushes.                                                         *)

\* What folding pushes does to a table.
Folds(old, new) ==
  TableOK(new) /\ Keeps(old, new) /\ Unstepped(old, new) /\ Announces(old, new)

LEMMA FoldPushIs ==
  ASSUME NEW tbl, TableOK(tbl), NEW push \in Snapshots
  PROVE  Folds(tbl, FoldPush(tbl, push)) /\ Matches(FoldPush(tbl, push), push, {})
<1> DEFINE S == {u \in Threads : push[u] # 0}
           stopped == [t \in S |-> push[t]]
           kept == Refreshed(tbl, stopped)
           taken == {kept.live[h].thread : h \in DOMAIN kept.live}
           fresh == S \ taken
           b == Minted(kept, stopped, fresh)
<1>1. FoldPush(tbl, push) = b BY DEF FoldPush
<1>2. S \in SUBSET Threads /\ stopped \in [S -> 1..MaxHalts]
  <2>1. \A t \in Threads : push[t] \in 0..MaxHalts BY DEF Snapshots
  <2>2. MaxHalts \in Nat BY SessionAssumption
  <2>3. \A t \in S : push[t] \in 1..MaxHalts BY <2>1, <2>2
  <2> QED BY <2>3
<1>3. \A t \in S : stopped[t] = push[t] OBVIOUS
<1>a. \A t \in Threads : t \in S <=> push[t] # 0 OBVIOUS
<1> HIDE DEF stopped, S
<1>4. /\ TableOK(kept) /\ kept.seq = tbl.seq /\ DOMAIN kept.live \subseteq DOMAIN tbl.live
      /\ \A h \in DOMAIN kept.live :
           /\ kept.live[h].thread = tbl.live[h].thread
           /\ kept.live[h].stepping => tbl.live[h].stepping
           /\ IF kept.live[h].thread \in S THEN kept.live[h].stack = stopped[kept.live[h].thread]
                                           ELSE kept.live[h].stepping
      /\ Announced(tbl) \subseteq Announced(kept)
  BY <1>2, RefreshedIs
<1>5. fresh \in SUBSET S /\ \A h \in DOMAIN kept.live : kept.live[h].thread \notin fresh OBVIOUS
<1>6. \A t \in S : t \in fresh \/ \E h \in DOMAIN kept.live : kept.live[h].thread = t OBVIOUS
<1> HIDE DEF kept, taken, fresh
<1>7. /\ TableOK(b) /\ kept.seq <= b.seq /\ DOMAIN kept.live \subseteq DOMAIN b.live
      /\ \A h \in DOMAIN b.live :
           IF h \in DOMAIN kept.live THEN b.live[h] = kept.live[h]
           ELSE /\ h > kept.seq /\ b.live[h].thread \in fresh /\ ~b.live[h].stepping
                /\ b.live[h].stack = stopped[b.live[h].thread]
      /\ \A t \in fresh : \E h \in DOMAIN b.live : b.live[h].thread = t
      /\ Announces(kept, b)
  BY <1>2, <1>4, <1>5, MintedIs
<1> HIDE DEF b
<1>8. DOMAIN tbl.live \subseteq 1..tbl.seq /\ tbl.seq \in Nat BY DEF TableOK
<1>9. Keeps(tbl, b)
  <2>1. ASSUME NEW h \in DOMAIN b.live, h \notin DOMAIN kept.live PROVE h \notin DOMAIN tbl.live
    BY <2>1, <1>4, <1>7, <1>8
  <2> QED BY <2>1, <1>4, <1>7 DEF Keeps
<1>10. Unstepped(tbl, b) BY <1>4, <1>7 DEF Unstepped
<1>11. Announces(tbl, b) BY <1>4, <1>7 DEF Announces
<1>12. \A h \in DOMAIN b.live : b.live[h].thread \in Threads BY <1>7 DEF TableOK, Hits
<1>13. \A h \in DOMAIN b.live : IF b.live[h].thread \in S
                                  THEN b.live[h].stack = stopped[b.live[h].thread]
                                  ELSE b.live[h].stepping
  BY <1>4, <1>5, <1>7
<1>14. Matches(b, push, {})
  <2>1. ASSUME NEW t \in Threads, push[t] # 0
        PROVE  \E h \in DOMAIN b.live : b.live[h].thread = t /\ b.live[h].stack = push[t]
    <3>1. t \in S BY <2>1, <1>a
    <3>2. \E h \in DOMAIN b.live : b.live[h].thread = t BY <3>1, <1>6, <1>7
    <3> QED BY <3>1, <3>2, <1>13, <1>3
  <2>2. ASSUME NEW h \in DOMAIN b.live, push[b.live[h].thread] = 0 PROVE b.live[h].stepping
    BY <2>2, <1>12, <1>13, <1>a
  <2> QED BY <2>1, <2>2 DEF Matches
<1> QED BY <1>1, <1>7, <1>9, <1>10, <1>11, <1>14 DEF Folds

LEMMA FoldsNothing == ASSUME NEW tbl, TableOK(tbl) PROVE Folds(tbl, tbl)
<1>1. tbl.seq \in Nat BY DEF TableOK
<1>2. tbl.seq + 1 .. tbl.seq = {} BY <1>1
<1> QED BY <1>1, <1>2 DEF Folds, Keeps, Unstepped, Announces

LEMMA FoldsOn ==
  ASSUME NEW a, NEW b, NEW d, TableOK(a), Folds(a, b), Folds(b, d)
  PROVE  Folds(a, d)
<1>1. /\ TableOK(a) /\ TableOK(b) /\ TableOK(d)
      /\ a.seq \in Nat /\ b.seq \in Nat /\ d.seq \in Nat /\ a.seq <= b.seq /\ b.seq <= d.seq
      /\ DOMAIN a.live \subseteq 1..a.seq /\ DOMAIN b.live \subseteq 1..b.seq
  BY DEF Folds, Keeps, TableOK
<1>2. Keeps(a, d)
  <2>1. ASSUME NEW h \in DOMAIN d.live
        PROVE  IF h \in DOMAIN a.live THEN d.live[h].thread = a.live[h].thread ELSE h > a.seq
    <3>1. CASE h \in DOMAIN b.live BY <3>1 DEF Folds, Keeps
    <3>2. CASE h \notin DOMAIN b.live
      <4>1. h > b.seq BY <3>2 DEF Folds, Keeps
      <4>2. h \in 1..d.seq BY <1>1 DEF TableOK
      <4> QED BY <4>1, <4>2, <1>1
    <3> QED BY <3>1, <3>2
  <2> QED BY <2>1, <1>1 DEF Keeps
<1>3. Unstepped(a, d) BY DEF Folds, Unstepped
<1>4. Announces(a, d) BY <1>1 DEF Folds, Announces
<1> QED BY <1>1, <1>2, <1>3, <1>4 DEF Folds

\* sync_hits: with no push it changes nothing; otherwise the table says what the
\* last push says.
LEMMA FoldedIs ==
  ASSUME NEW tbl, TableOK(tbl), backlog \in Seq(Snapshots)
  PROVE  /\ Folds(tbl, Folded(tbl))
         /\ backlog = <<>> => Folded(tbl) = tbl
         /\ backlog # <<>> => Matches(Folded(tbl), backlog[Len(backlog)], {})
<1> DEFINE Step(g, n) == [i \in 0..n |-> IF i = 0 THEN tbl ELSE FoldPush(g[i - 1], backlog[i])]
           after == CHOOSE g : g = Step(g, Len(backlog))
           Bad == {n \in 0..Len(backlog) : ~ \E g : g = Step(g, n)}
           Ill == {n \in 0..Len(backlog) : ~ Folds(tbl, after[n])}
<1>1. Len(backlog) \in Nat OBVIOUS
<1>2. Folded(tbl) = after[Len(backlog)] BY DEF Folded
<1>3. ASSUME Bad # {} PROVE FALSE
  <2>0. Bad \in SUBSET Nat OBVIOUS
  <2>1. PICK n \in Bad : \A m \in Bad : n <= m
    <3> HIDE DEF Bad
    <3> QED BY <1>3, <2>0, Least
  <2>2. n \in 0..Len(backlog) /\ n # 0
    <3>1. [i \in 0..0 |-> tbl] = Step([i \in 0..0 |-> tbl], 0) OBVIOUS
    <3> QED BY <3>1
  <2>3. PICK g : g = Step(g, n - 1)
    <3>1. n - 1 \in 0..Len(backlog) /\ ~(n <= n - 1) BY <2>2, <1>1
    <3>2. n - 1 \notin Bad BY <3>1, <2>1
    <3> QED BY <3>1, <3>2
  <2> DEFINE h == [i \in 0..n |-> IF i = n THEN FoldPush(g[n - 1], backlog[n]) ELSE g[i]]
  <2>4. h = Step(h, n)
    <3>1. \A i \in 0..n : h[i] = IF i = 0 THEN tbl ELSE FoldPush(h[i - 1], backlog[i])
      <4> TAKE i \in 0..n
      <4>1. CASE i = n BY <4>1, <2>2
      <4>2. CASE i # n
        <5>1. i \in 0..(n - 1) /\ h[i] = g[i] /\ (i # 0 => h[i - 1] = g[i - 1])
          BY <4>2, <2>2
        <5>2. g[i] = Step(g, n - 1)[i] BY <2>3
        <5> QED BY <5>1, <5>2
      <4> QED BY <4>1, <4>2
    <3> QED BY <3>1
  <2>5. n \notin Bad BY <2>4
  <2> QED BY <2>5
<1>4. after = Step(after, Len(backlog))
  <2>1. \E g : g = Step(g, Len(backlog)) BY <1>3, <1>1
  <2> QED BY <2>1
<1> HIDE DEF after
<1>5. after[0] = tbl BY <1>4, <1>1
<1>6. \A i \in 1..Len(backlog) : after[i] = FoldPush(after[i - 1], backlog[i]) BY <1>4, <1>1
<1>7. ASSUME NEW n \in 1..Len(backlog), Folds(tbl, after[n - 1])
      PROVE  Folds(tbl, after[n]) /\ Matches(after[n], backlog[n], {})
  <2>1. backlog[n] \in Snapshots OBVIOUS
  <2>2. TableOK(after[n - 1]) BY <1>7 DEF Folds
  <2>3. Folds(after[n - 1], after[n]) /\ Matches(after[n], backlog[n], {})
    BY <2>1, <2>2, <1>6, FoldPushIs
  <2>4. Folds(tbl, after[n]) BY <2>3, <1>7, FoldsOn
  <2> QED BY <2>3, <2>4
<1>8. ASSUME Ill # {} PROVE FALSE
  <2>0. Ill \in SUBSET Nat OBVIOUS
  <2>1. PICK n \in Ill : \A m \in Ill : n <= m
    <3> HIDE DEF Ill
    <3> QED BY <1>8, <2>0, Least
  <2>2. n \in 1..Len(backlog) BY <2>1, <1>5, FoldsNothing
  <2>3. Folds(tbl, after[n - 1])
    <3>1. n - 1 \in 0..Len(backlog) /\ ~(n <= n - 1) BY <2>2
    <3> QED BY <3>1, <2>1
  <2>4. Folds(tbl, after[n]) BY <2>2, <2>3, <1>7
  <2> QED BY <2>1, <2>4
<1>9. \A n \in 0..Len(backlog) : Folds(tbl, after[n]) BY <1>8
<1>10. backlog = <<>> => Folded(tbl) = tbl BY <1>2, <1>5
<1>11. backlog # <<>> => Matches(Folded(tbl), backlog[Len(backlog)], {})
  <2>1. SUFFICES ASSUME backlog # <<>> PROVE Matches(after[Len(backlog)], backlog[Len(backlog)], {})
    BY <1>2
  <2>2. Len(backlog) \in 1..Len(backlog) /\ Len(backlog) - 1 \in 0..Len(backlog) BY <2>1
  <2> QED BY <2>2, <1>7, <1>9
<1> QED BY <1>1, <1>2, <1>9, <1>10, <1>11

\* The rest of a table when all its live hits end.
LEMMA TornDownIs ==
  ASSUME NEW tbl, TableOK(tbl)
  PROVE  LET b == TornDown(tbl) IN
         /\ TableOK(b) /\ Keeps(tbl, b) /\ DOMAIN b.live = {} /\ b.seq = tbl.seq
         /\ Announced(tbl) \subseteq Announced(b)
<1> DEFINE D == DOMAIN tbl.live
           out == Retire(tbl, [h \in D |-> "terminated"])
           notices == out.notices \cup {HitEnded(h) : h \in D}
           b == TornDown(tbl)
<1>1. b = [out EXCEPT !.notices = notices] BY DEF TornDown
<1>2. D \in SUBSET DOMAIN tbl.live /\ [h \in D |-> "terminated"] \in [D -> Endings \ {"none"}]
  BY DEF Endings
<1>3. /\ TableOK(out) /\ Keeps(tbl, out) /\ out.seq = tbl.seq /\ out.notices = tbl.notices
      /\ DOMAIN out.live = (DOMAIN tbl.live) \ D
  <2> HIDE DEF D
  <2> QED BY <1>2, RetireIs
<1>4. notices \subseteq {"new", "ended"} \X (1..tbl.seq) /\ tbl.notices \subseteq notices
  <2>1. D \subseteq 1..tbl.seq /\ tbl.notices \subseteq {"new", "ended"} \X (1..tbl.seq)
    BY DEF TableOK
  <2> QED BY <2>1, <1>3 DEF HitEnded
<1>5. IsTable(out) BY <1>3 DEF TableOK
<1> HIDE DEF out, notices, b
<1>6. IsTable(b) /\ b.live = out.live /\ b.retired = out.retired /\ b.seq = out.seq
      /\ b.notices = notices
  BY <1>1, <1>5, NoticesSet
<1>7. TableOK(b) BY <1>3, <1>4, <1>6 DEF TableOK
<1>8. Keeps(tbl, b) BY <1>3, <1>6 DEF Keeps
<1>9. Announced(tbl) \subseteq Announced(b) BY <1>4, <1>6 DEF Announced
<1> QED BY <1>3, <1>6, <1>7, <1>8, <1>9 DEF b

LEMMA WithdrawnIs ==
  ASSUME NEW tbl, TableOK(tbl), NEW hits
  PROVE  LET b == Withdrawn(tbl, hits) IN
         /\ TableOK(b) /\ Keeps(tbl, b) /\ DOMAIN b.live = DOMAIN tbl.live
         /\ b.seq = tbl.seq /\ b.notices = tbl.notices
         /\ \A h \in DOMAIN tbl.live : /\ b.live[h].thread = tbl.live[h].thread
                                       /\ b.live[h].stack = tbl.live[h].stack
                                       /\ b.live[h].stepping = tbl.live[h].stepping
<1>1. "none" \in Endings BY DEF Endings
<1> DEFINE some == {h \in hits \cap DOMAIN tbl.live : tbl.live[h].ending = "cancelled"}
<1>2. Withdrawn(tbl, hits) = Ending(tbl, some, "none") BY DEF Withdrawn
<1> HIDE DEF some
<1> QED BY <1>1, <1>2, EndingIs

LEMMA LeftByMapIs ==
  ASSUME NEW tbl, TableOK(tbl), NEW hits
  PROVE  LET b == LeftByMap(tbl, hits) IN
         /\ TableOK(b) /\ Keeps(tbl, b) /\ b.seq = tbl.seq /\ b.notices = tbl.notices
         /\ DOMAIN b.live = (DOMAIN tbl.live) \ hits
         /\ \A h \in DOMAIN b.live : b.live[h] = tbl.live[h]
<1> DEFINE D == hits \cap DOMAIN tbl.live
           e == [h \in D |-> "step left"]
<1>1. D \in SUBSET (DOMAIN tbl.live) /\ e \in [D -> Endings \ {"none"}] BY DEF Endings
<1>2. LeftByMap(tbl, hits) = Retire(tbl, e) BY DEF LeftByMap
<1>3. (DOMAIN tbl.live) \ hits = (DOMAIN tbl.live) \ D OBVIOUS
<1> HIDE DEF D, e
<1> QED BY <1>1, <1>2, <1>3, RetireIs

\* A table changed by other means than folding: hits only leave, and only those
\* of HITS leave or have their stepping flag taken off.
Adjusts(old, new, hits) ==
  /\ TableOK(new) /\ Keeps(old, new) /\ new.seq = old.seq
  /\ DOMAIN new.live \subseteq DOMAIN old.live /\ (DOMAIN old.live) \ hits \subseteq DOMAIN new.live
  /\ \A h \in DOMAIN new.live :
       /\ new.live[h].thread = old.live[h].thread /\ new.live[h].stack = old.live[h].stack
       /\ new.live[h].stepping => old.live[h].stepping
       /\ h \notin hits => new.live[h].stepping = old.live[h].stepping

LEMMA EndingAdjusts ==
  ASSUME NEW tbl, TableOK(tbl), NEW hits, NEW ending \in Endings
  PROVE  /\ Adjusts(tbl, Ending(tbl, hits, ending), {})
         /\ Announced(Ending(tbl, hits, ending)) = Announced(tbl)
<1> DEFINE b == Ending(tbl, hits, ending)
<1>1. /\ TableOK(b) /\ Keeps(tbl, b) /\ DOMAIN b.live = DOMAIN tbl.live
      /\ b.seq = tbl.seq /\ b.notices = tbl.notices
      /\ \A h \in DOMAIN tbl.live : /\ b.live[h].thread = tbl.live[h].thread
                                    /\ b.live[h].stack = tbl.live[h].stack
                                    /\ b.live[h].stepping = tbl.live[h].stepping
  BY EndingIs
<1> HIDE DEF b
<1>2. Adjusts(tbl, b, {}) /\ Announced(b) = Announced(tbl) BY <1>1 DEF Adjusts, Announced
<1> QED BY <1>2 DEF b

LEMMA WithdrawnAdjusts ==
  ASSUME NEW tbl, TableOK(tbl), NEW hits
  PROVE  /\ Adjusts(tbl, Withdrawn(tbl, hits), {})
         /\ Announced(Withdrawn(tbl, hits)) = Announced(tbl)
<1>1. "none" \in Endings BY DEF Endings
<1> DEFINE some == {h \in hits \cap DOMAIN tbl.live : tbl.live[h].ending = "cancelled"}
<1>2. Withdrawn(tbl, hits) = Ending(tbl, some, "none") BY DEF Withdrawn
<1> HIDE DEF some
<1> QED BY <1>1, <1>2, EndingAdjusts

LEMMA SteppingAdjusts ==
  ASSUME NEW tbl, TableOK(tbl), NEW hits
  PROVE  /\ Adjusts(tbl, Stepping(tbl, hits, FALSE), hits)
         /\ Announced(Stepping(tbl, hits, FALSE)) = Announced(tbl)
         /\ \A h \in hits \cap DOMAIN Stepping(tbl, hits, FALSE).live :
              ~Stepping(tbl, hits, FALSE).live[h].stepping
<1> DEFINE b == Stepping(tbl, hits, FALSE)
<1>0. \A flag \in BOOLEAN :
        LET d == Stepping(tbl, hits, flag) IN
        /\ TableOK(d) /\ Keeps(tbl, d) /\ DOMAIN d.live = DOMAIN tbl.live
        /\ d.seq = tbl.seq /\ d.notices = tbl.notices
        /\ \A h \in DOMAIN tbl.live :
             /\ d.live[h].thread = tbl.live[h].thread
             /\ d.live[h].stack = tbl.live[h].stack
             /\ d.live[h].stepping = IF h \in hits THEN flag ELSE tbl.live[h].stepping
  BY SteppingIs
<1>a. FALSE \in BOOLEAN OBVIOUS
<1>1. /\ TableOK(b) /\ Keeps(tbl, b) /\ DOMAIN b.live = DOMAIN tbl.live
      /\ b.seq = tbl.seq /\ b.notices = tbl.notices
      /\ \A h \in DOMAIN tbl.live :
           /\ b.live[h].thread = tbl.live[h].thread
           /\ b.live[h].stack = tbl.live[h].stack
           /\ b.live[h].stepping = IF h \in hits THEN FALSE ELSE tbl.live[h].stepping
  BY <1>0, <1>a, Zenon
<1> HIDE DEF b
<1>2. Adjusts(tbl, b, hits) /\ Announced(b) = Announced(tbl)
      /\ \A h \in hits \cap DOMAIN b.live : ~b.live[h].stepping
  BY <1>1 DEF Adjusts, Announced
<1> QED BY <1>2 DEF b

LEMMA NoticesAdjust ==
  ASSUME NEW tbl, TableOK(tbl), NEW left, left \subseteq tbl.notices
  PROVE  Adjusts(tbl, [tbl EXCEPT !.notices = left], {})
<1> DEFINE b == [tbl EXCEPT !.notices = left]
<1>1. TableOK(b) /\ Keeps(tbl, b) /\ b.live = tbl.live /\ b.seq = tbl.seq BY NoticesTaken
<1> HIDE DEF b
<1>2. Adjusts(tbl, b, {}) BY <1>1 DEF Adjusts
<1> QED BY <1>2 DEF b

LEMMA ConsumedAdjusts ==
  ASSUME NEW tbl, TableOK(tbl), NEW hits
  PROVE  /\ Adjusts(tbl, Consumed(tbl, hits), {})
         /\ Announced(tbl) \subseteq Announced(Consumed(tbl, hits)) \cup hits
<1> DEFINE b == Consumed(tbl, hits)
<1>1. /\ TableOK(b) /\ Keeps(tbl, b) /\ b.live = tbl.live /\ b.seq = tbl.seq
      /\ Announced(tbl) \subseteq Announced(b) \cup hits
  BY ConsumedIs
<1> HIDE DEF b
<1>2. Adjusts(tbl, b, {}) BY <1>1 DEF Adjusts
<1> QED BY <1>1, <1>2 DEF b

LEMMA LeftAdjusts ==
  ASSUME NEW tbl, TableOK(tbl), NEW hits
  PROVE  /\ Adjusts(tbl, LeftByMap(tbl, hits), hits)
         /\ Announced(LeftByMap(tbl, hits)) = Announced(tbl)
         /\ hits \cap DOMAIN LeftByMap(tbl, hits).live = {}
<1> DEFINE b == LeftByMap(tbl, hits)
<1>1. /\ TableOK(b) /\ Keeps(tbl, b) /\ b.seq = tbl.seq /\ b.notices = tbl.notices
      /\ DOMAIN b.live = (DOMAIN tbl.live) \ hits
      /\ \A h \in DOMAIN b.live : b.live[h] = tbl.live[h]
  BY LeftByMapIs
<1> HIDE DEF b
<1>2. Adjusts(tbl, b, hits) /\ Announced(b) = Announced(tbl) /\ hits \cap DOMAIN b.live = {}
  BY <1>1 DEF Adjusts, Announced
<1> QED BY <1>2 DEF b

LEMMA AdjustsOn ==
  ASSUME NEW a, NEW b, NEW d, NEW hits, TableOK(a),
         Adjusts(a, b, hits), Adjusts(b, d, {}) \/ Adjusts(b, d, hits)
  PROVE  Adjusts(a, d, hits)
<1>1. a.seq \in Nat /\ DOMAIN a.live \subseteq 1..a.seq BY DEF TableOK
<1>2. CASE Adjusts(b, d, hits)
  <2>1. /\ TableOK(d) /\ d.seq = a.seq /\ DOMAIN d.live \subseteq DOMAIN a.live
        /\ (DOMAIN a.live) \ hits \subseteq DOMAIN d.live
    BY <1>2 DEF Adjusts
  <2>2. \A h \in DOMAIN d.live :
       /\ d.live[h].thread = a.live[h].thread /\ d.live[h].stack = a.live[h].stack
       /\ d.live[h].stepping => a.live[h].stepping
       /\ h \notin hits => d.live[h].stepping = a.live[h].stepping
    BY <1>2 DEF Adjusts
  <2>3. Keeps(a, d) BY <1>1, <2>1, <2>2 DEF Keeps
  <2> QED BY <2>1, <2>2, <2>3 DEF Adjusts
<1>3. CASE Adjusts(b, d, {})
  <2>1. /\ TableOK(d) /\ d.seq = a.seq /\ DOMAIN d.live \subseteq DOMAIN a.live
        /\ (DOMAIN a.live) \ hits \subseteq DOMAIN d.live
    BY <1>3 DEF Adjusts
  <2>2. \A h \in DOMAIN d.live :
       /\ d.live[h].thread = a.live[h].thread /\ d.live[h].stack = a.live[h].stack
       /\ d.live[h].stepping => a.live[h].stepping
       /\ h \notin hits => d.live[h].stepping = a.live[h].stepping
    BY <1>3 DEF Adjusts
  <2>3. Keeps(a, d) BY <1>1, <2>1, <2>2 DEF Keeps
  <2> QED BY <2>1, <2>2, <2>3 DEF Adjusts
<1> QED BY <1>2, <1>3

\* A table says what a push says after an adjustment, too, if no hit of a
\* stopped thread left and no flag was taken off a hit whose thread is not.
LEMMA MatchesOn ==
  ASSUME NEW a, NEW b, NEW hits, NEW push \in Snapshots, NEW out, NEW more,
         TableOK(a), Matches(a, push, out), Adjusts(a, b, hits), out \subseteq more,
         \A h \in hits \cap DOMAIN b.live : push[a.live[h].thread] # 0 \/ h \in more,
         \A h \in (DOMAIN a.live) \ DOMAIN b.live : push[a.live[h].thread] = 0
  PROVE  Matches(b, push, more)
<1>1. ASSUME NEW t \in Threads, push[t] # 0
      PROVE  \E h \in DOMAIN b.live : b.live[h].thread = t /\ b.live[h].stack = push[t]
  <2>1. PICK h \in DOMAIN a.live : a.live[h].thread = t /\ a.live[h].stack = push[t]
    BY <1>1 DEF Matches
  <2>2. h \in DOMAIN b.live BY <2>1, <1>1
  <2> QED BY <2>1, <2>2 DEF Adjusts
<1>2. ASSUME NEW h \in (DOMAIN b.live) \ more, push[b.live[h].thread] = 0
      PROVE  b.live[h].stepping
  <2>1. h \in (DOMAIN a.live) \ out /\ a.live[h].thread = b.live[h].thread BY <1>2 DEF Adjusts
  <2>2. h \notin hits BY <1>2, <2>1
  <2>3. a.live[h].stepping BY <1>2, <2>1 DEF Matches
  <2> QED BY <2>2, <2>3, <1>2 DEF Adjusts
<1> QED BY <1>1, <1>2 DEF Matches

\* The same when what changed is not what a push says.
LEMMA MatchesStill ==
  ASSUME NEW a, NEW b, NEW push \in Snapshots, NEW out, TableOK(a),
         Matches(a, push, out), Adjusts(a, b, {})
  PROVE  Matches(b, push, out)
<1>1. DOMAIN b.live = DOMAIN a.live BY DEF Adjusts
<1> QED BY <1>1, MatchesOn

LEMMA Unadjusted == ASSUME NEW tbl, TableOK(tbl) PROVE Adjusts(tbl, tbl, {})
BY DEF Adjusts, TableOK, Keeps

\* The table after all pushes says what the live map says.
LEMMA FoldedFrom ==
  ASSUME Typed, Current, NEW tbl, NEW out, TableOK(tbl),
         backlog = <<>> => Matches(tbl, threads, out)
  PROVE  /\ Folds(tbl, Folded(tbl)) /\ Matches(Folded(tbl), threads, out)
         /\ backlog = <<>> => Folded(tbl) = tbl
<1>1. backlog \in Seq(Snapshots) BY DEF Typed
<1>2. /\ Folds(tbl, Folded(tbl))
      /\ backlog = <<>> => Folded(tbl) = tbl
      /\ backlog # <<>> => Matches(Folded(tbl), backlog[Len(backlog)], {})
  BY <1>1, FoldedIs
<1>3. CASE backlog = <<>> BY <1>2, <1>3
<1>4. CASE backlog # <<>>
  <2>1. Matches(Folded(tbl), threads, {}) BY <1>2, <1>4 DEF Current
  <2>2. Matches(Folded(tbl), threads, out) BY <2>1 DEF Matches
  <2> QED BY <1>2, <1>4, <2>2
<1> QED BY <1>3, <1>4

LEMMA SyncedIs ==
  ASSUME Typed, Current
  PROVE  /\ Folds(table, Synced) /\ Matches(Synced, threads, cut)
         /\ backlog = <<>> => Synced = table
<1>1. TableOK(table) BY DEF Typed
<1>2. backlog = <<>> => Matches(table, threads, cut) BY DEF Current
<1> QED BY <1>1, <1>2, FoldedFrom DEF Synced

-----------------------------------------------------------------------------
(* What a step of a call leaves of the table.                              *)

Steppers == {"step", "stepping"}

\* What the table's side of a step of call C leaves in order.
Turned(c) ==
  /\ TableOK(table') /\ Keeps(table, table') /\ (backlog = <<>> => Live' \subseteq Live)
  /\ told' \subseteq 1..table'.seq /\ cut' \subseteq 1..table'.seq /\ cut \subseteq cut'
  /\ \A h \in Live' : table'.live[h].stepping =>
       \/ h \in Live /\ table.live[h].stepping
       \/ call'[c].pc = "step" /\ h \in DOMAIN call'[c].hits
  /\ call[c].pc \in Steppers /\ call'[c].pc \notin Steppers =>
       \A h \in Mine(c) \cap Live' : table'.live[h].stepping => h \in cut'
  /\ Current'

LEMMA CurrentNow ==
  ASSUME IF backlog' = <<>> THEN Matches(table', threads', cut')
         ELSE backlog'[Len(backlog')] = threads'
  PROVE  Current'
BY DEF Current, Matches

LEMMA CurrentThen ==
  ASSUME Current PROVE IF backlog = <<>> THEN Matches(table, threads, cut)
                       ELSE backlog[Len(backlog)] = threads
BY DEF Current

LEMMA MatchesMore ==
  ASSUME NEW tbl, NEW push, NEW out, NEW more, out \subseteq more, Matches(tbl, push, out)
  PROVE  Matches(tbl, push, more)
BY DEF Matches

\* The table stands still.
LEMMA StillTurns ==
  ASSUME Typed, Current, NEW c \in Calls, UNCHANGED <<table, backlog, threads>>,
         told' \subseteq 1..table.seq, cut' \subseteq 1..table.seq, cut \subseteq cut',
         call[c].pc \notin Steppers \/ call'[c].pc \in Steppers \/ Mine(c) \subseteq cut'
  PROVE  Turned(c)
<1>1. TableOK(table) BY DEF Typed
<1>2. Keeps(table, table) BY <1>1, Unadjusted DEF Adjusts
<1>3. Current'
  <2>1. CASE backlog = <<>>
    <3>1. Matches(table, threads, cut) BY <2>1, CurrentThen
    <3>2. Matches(table, threads, cut') BY <3>1, MatchesMore
    <3>3. Matches(table', threads', cut') BY <3>2
    <3> QED BY <2>1, <3>3, CurrentNow
  <2>2. CASE backlog # <<>> BY <2>2, CurrentThen, CurrentNow
  <2> QED BY <2>1, <2>2
<1>4. table' = table BY Zenon
<1>5. TableOK(table') /\ Keeps(table, table') BY <1>1, <1>2, <1>4, Zenon
<1>6. Live' = Live BY <1>4 DEF Live
<1> QED BY <1>3, <1>4, <1>5, <1>6 DEF Turned

\* It is adjusted with the pushes still waiting; a flag is only taken off a hit
\* that is then cut.
LEMMA AdjustTurns ==
  ASSUME Typed, Current, NEW c \in Calls, NEW hits, Adjusts(table, table', hits),
         Live' = Live, hits \subseteq cut', UNCHANGED <<backlog, threads>>,
         told' \subseteq 1..table.seq, cut' \subseteq 1..table.seq, cut \subseteq cut',
         call[c].pc \notin Steppers \/ Mine(c) \subseteq cut'
  PROVE  Turned(c)
<1>1. TableOK(table) /\ threads \in Snapshots BY DEF Typed
<1>2. Current'
  <2>1. CASE backlog = <<>>
    <3>1. Matches(table, threads, cut) BY <2>1, CurrentThen
    <3>2. /\ \A h \in hits \cap DOMAIN table'.live : threads[table.live[h].thread] # 0 \/ h \in cut'
          /\ \A h \in (DOMAIN table.live) \ DOMAIN table'.live : threads[table.live[h].thread] = 0
      BY DEF Live
    <3>3. Matches(table', threads, cut') BY <1>1, <3>1, <3>2, MatchesOn
    <3>4. Matches(table', threads', cut') BY <3>3
    <3> QED BY <2>1, <3>4, CurrentNow
  <2>2. CASE backlog # <<>> BY <2>2, CurrentThen, CurrentNow
  <2> QED BY <2>1, <2>2
<1>3. /\ TableOK(table') /\ Keeps(table, table') /\ table'.seq = table.seq
      /\ \A h \in Live' : table'.live[h].stepping => table.live[h].stepping
  BY DEF Adjusts, Live
<1> QED BY <1>2, <1>3 DEF Turned, Live

\* It is adjusted, folded up to the live map, and adjusted again.
LEMMA Composed ==
  ASSUME NEW a, NEW t, NEW b, NEW d, NEW early, NEW late, TableOK(a),
         Adjusts(a, t, early), Folds(t, b), Adjusts(b, d, late)
  PROVE  /\ TableOK(d) /\ Keeps(a, d) /\ Unstepped(a, d) /\ d.seq = b.seq
         /\ a.seq \in Nat /\ d.seq \in Nat /\ a.seq <= d.seq
<1>1. /\ TableOK(t) /\ TableOK(b) /\ TableOK(d) /\ t.seq = a.seq /\ d.seq = b.seq
      /\ a.seq \in Nat /\ b.seq \in Nat /\ t.seq <= b.seq
      /\ DOMAIN a.live \subseteq 1..a.seq /\ DOMAIN b.live \subseteq 1..b.seq
  BY DEF Folds, Adjusts, TableOK, Keeps
<1>2. ASSUME NEW h \in DOMAIN d.live
      PROVE  IF h \in DOMAIN a.live THEN d.live[h].thread = a.live[h].thread ELSE h > a.seq
  <2>1. h \in DOMAIN b.live /\ d.live[h].thread = b.live[h].thread BY DEF Adjusts
  <2>2. IF h \in DOMAIN t.live THEN b.live[h].thread = t.live[h].thread ELSE h > t.seq
    BY <2>1 DEF Folds, Keeps
  <2>3. CASE h \in DOMAIN t.live BY <2>1, <2>2, <2>3 DEF Adjusts
  <2>4. CASE h \notin DOMAIN t.live
    <3>1. h > a.seq BY <2>2, <2>4, <1>1
    <3>2. h \notin DOMAIN a.live BY <3>1, <2>1, <1>1
    <3> QED BY <3>1, <3>2
  <2> QED BY <2>3, <2>4
<1>3. Keeps(a, d) BY <1>1, <1>2 DEF Keeps
<1>4. Unstepped(a, d)
  <2>1. ASSUME NEW h \in DOMAIN d.live, d.live[h].stepping
        PROVE  h \in DOMAIN a.live /\ a.live[h].stepping
    <3>1. h \in DOMAIN b.live /\ b.live[h].stepping BY <2>1 DEF Adjusts
    <3>2. h \in DOMAIN t.live /\ t.live[h].stepping BY <3>1 DEF Folds, Unstepped
    <3> QED BY <3>2 DEF Adjusts
  <2> QED BY <2>1 DEF Unstepped
<1> QED BY <1>1, <1>3, <1>4

LEMMA FoldTurns ==
  ASSUME Typed, Current, NEW c \in Calls, NEW t, NEW b, NEW d, NEW early, NEW late,
         Adjusts(table, t, early), Folds(t, b), Adjusts(b, d, late),
         table' = d, backlog' = <<>>, threads' = threads, cut' = cut,
         backlog = <<>> => b = t, Matches(d, threads, cut), told' \subseteq 1..b.seq,
         call[c].pc \notin Steppers \/ \A h \in Mine(c) \cap DOMAIN d.live : ~d.live[h].stepping
  PROVE  Turned(c)
<1>1. TableOK(table) /\ cut \subseteq 1..table.seq BY DEF Typed
<1>2. /\ TableOK(d) /\ Keeps(table, d) /\ Unstepped(table, d) /\ d.seq = b.seq
      /\ table.seq \in Nat /\ d.seq \in Nat /\ table.seq <= d.seq
  BY <1>1, Composed
<1>3. 1..table.seq \subseteq 1..d.seq BY <1>2
<1>4. Matches(table', threads', cut') BY Zenon
<1>5. Current' BY <1>4, CurrentNow
<1>6. backlog = <<>> => Live' \subseteq Live
  <2>1. ASSUME backlog = <<>> PROVE DOMAIN d.live \subseteq DOMAIN table.live
    BY <2>1 DEF Adjusts
  <2> QED BY <2>1 DEF Live
<1>7. told' \subseteq 1..table'.seq /\ cut' \subseteq 1..table'.seq /\ cut \subseteq cut'
  BY <1>1, <1>2, <1>3
<1>8. TableOK(table') /\ Keeps(table, table') BY <1>2, Zenon
<1>9. \A h \in Live' : table'.live[h].stepping => h \in Live /\ table.live[h].stepping
  BY <1>2 DEF Unstepped, Live
<1>10. \A h \in Mine(c) \cap Live' : call[c].pc \in Steppers => ~table'.live[h].stepping
  BY DEF Live
<1> QED BY <1>5, <1>6, <1>7, <1>8, <1>9, <1>10 DEF Turned

\* The commonest turn: the table of sync_hits, adjusted in what no push says.
LEMMA SyncedTurns ==
  ASSUME Typed, Current, NEW c \in Calls, NEW d, Adjusts(Synced, d, {}),
         table' = d, backlog' = <<>>, threads' = threads, cut' = cut,
         told' \subseteq 1..Synced.seq, call[c].pc \notin Steppers
  PROVE  Turned(c)
<1>1. TableOK(table) /\ threads \in Snapshots BY DEF Typed
<1>2. /\ Folds(table, Synced) /\ Matches(Synced, threads, cut)
      /\ backlog = <<>> => Synced = table
  BY SyncedIs
<1>3. Adjusts(table, table, {}) BY <1>1, Unadjusted
<1>4. Matches(d, threads, cut) BY <1>1, <1>2, MatchesStill DEF Folds
<1> HIDE DEF Synced
<1> QED BY <1>2, <1>3, <1>4, FoldTurns

\* What a step of call C can be.
Acts(c) ==
  \/ Returns(c) \/ Look(c) \/ CutShort(c)
  \/ ContinueStarts(c) \/ ContinueSends(c) \/ ContinueEnds(c)
  \/ StepStarts(c) \/ StepAnswered(c) \/ StepLooks(c) \/ StepStops(c) \/ StepLeaves(c)
  \/ EvaluateRefused(c) \/ Evaluates(c) \/ ReportStarts(c) \/ ReportEnds(c)
  \/ EvaluationEnds(c)
  \/ CancelStarts(c) \/ CancelRetired(c) \/ CancelNothing(c) \/ CancelEnds(c)
  \/ CancelFails(c)
  \/ \E s \in Sessions : LaunchRuns(c, s) \/ LaunchRefused(c, s) \/ LaunchStarts(c, s)
  \/ TeardownEnds(c) \/ Terminate(c) \/ TeardownStarts(c)
  \/ Spawns(c) \/ Shakes(c) \/ Launched(c) \/ LaunchFails(c) \/ Reaps(c)

\* What a call holds is known to the table.
LEMMA MineKnown ==
  ASSUME Typed, NEW c \in Calls
  PROVE  /\ Mine(c) \subseteq 1..table.seq /\ told \subseteq 1..table.seq
         /\ cut \subseteq 1..table.seq /\ call[c].pc \in Labels
         /\ TableOK(table) /\ threads \in Snapshots /\ table.seq \in Nat
BY DEF Typed, CallRecords, TableOK

LEMMA StillActions ==
  ASSUME Typed, Current, NEW c \in Calls,
         \/ Look(c) \/ ReportEnds(c) \/ EvaluationEnds(c) \/ CancelRetired(c)
         \/ \E s \in Sessions : LaunchRuns(c, s)
         \/ Terminate(c) \/ TeardownStarts(c) \/ Spawns(c) \/ Shakes(c) \/ Launched(c)
         \/ LaunchFails(c) \/ StepLooks(c)
  PROVE  Turned(c)
<1>1. UNCHANGED <<table, backlog, threads, cut>>
  BY Zenon DEF Look, ReportEnds, EvaluationEnds, CancelRetired, LaunchRuns, Terminate,
     TeardownStarts, Spawns, Shakes, Launched, LaunchFails, StepLooks, clientVars, histVars
<1>2. told' = told \/ told' = told \cup Mine(c)
  BY Zenon DEF Look, ReportEnds, EvaluationEnds, CancelRetired, LaunchRuns, Terminate,
     TeardownStarts, Spawns, Shakes, Launched, LaunchFails, StepLooks, clientVars, histVars
<1>3. call[c].pc \notin Steppers \/ StepLooks(c)
  <2>1. call[c].pc \in Labels \ Steppers \/ StepLooks(c)
    BY MineKnown DEF Look, ReportEnds, EvaluationEnds, CancelRetired, LaunchRuns, Terminate,
       TeardownStarts, Spawns, Shakes, Launched, LaunchFails, Enters, At, Steppers, Labels
  <2> QED BY <2>1
<1>4. StepLooks(c) => call'[c].pc \in Steppers
  <2> SUFFICES ASSUME StepLooks(c) PROVE call'[c].pc \in Steppers OBVIOUS
  <2>1. call' = [call EXCEPT ![c].news = FALSE] /\ call[c].pc = "stepping"
    BY Zenon DEF StepLooks, At
  <2>2. call \in [Calls -> CallRecords] BY DEF Typed
  <2> QED BY <2>1, <2>2 DEF CallRecords, Steppers
<1>5. told' \subseteq 1..table.seq /\ cut' \subseteq 1..table.seq /\ cut \subseteq cut'
  BY <1>1, <1>2, MineKnown
<1> QED BY <1>1, <1>3, <1>4, <1>5, StillTurns

\* The tools that fold, and then change what no push says.
LEMMA SyncingActions ==
  ASSUME Typed, Current, NEW c \in Calls,
         \/ ContinueStarts(c) \/ ContinueEnds(c) \/ EvaluateRefused(c) \/ Evaluates(c)
         \/ ReportStarts(c) \/ CancelStarts(c) \/ CancelEnds(c)
         \/ \E s \in Sessions : LaunchRefused(c, s)
  PROVE  Turned(c)
<1>1. /\ backlog' = <<>> /\ threads' = threads /\ cut' = cut
      /\ told' = told \/ told' = told \cup DOMAIN Synced.live
      /\ \/ table' = Synced
         \/ table' = Ending(Synced, Mine(c), "none")
         \/ table' = Ending(Synced, DOMAIN Synced.live, "cancelled")
         \/ table' = Consumed(Synced, DOMAIN Synced.live)
  BY Zenon DEF ContinueStarts, ContinueEnds, EvaluateRefused, Evaluates, ReportStarts,
     CancelStarts, CancelEnds, LaunchRefused, Becomes, histVars
<1>2. call[c].pc \notin Steppers
  BY MineKnown DEF ContinueStarts, ContinueEnds, EvaluateRefused, Evaluates, ReportStarts,
     CancelStarts, CancelEnds, LaunchRefused, Enters, At, Steppers
<1>3. Folds(table, Synced) BY SyncedIs
<1>4. TableOK(Synced) /\ table.seq <= Synced.seq BY <1>3 DEF Folds, Keeps
<1> HIDE DEF Synced
<1>5. told' \subseteq 1..Synced.seq
  <2>1. Synced.seq \in Nat /\ DOMAIN Synced.live \subseteq 1..Synced.seq BY <1>4 DEF TableOK
  <2> QED BY <2>1, <1>1, <1>4, MineKnown
<1>6. Adjusts(Synced, table', {})
  <2>0. "none" \in Endings /\ "cancelled" \in Endings BY DEF Endings
  <2>1. CASE table' = Synced BY <2>1, <1>4, Unadjusted, Zenon
  <2>2. CASE table' = Ending(Synced, Mine(c), "none") BY <2>0, <2>2, <1>4, EndingAdjusts, Zenon
  <2>3. CASE table' = Ending(Synced, DOMAIN Synced.live, "cancelled")
    BY <2>0, <2>3, <1>4, EndingAdjusts, Zenon
  <2>4. CASE table' = Consumed(Synced, DOMAIN Synced.live)
    BY <2>4, <1>4, ConsumedAdjusts, Zenon
  <2> QED BY <1>1, <2>1, <2>2, <2>3, <2>4
<1> QED BY <1>1, <1>2, <1>5, <1>6, SyncedTurns

LEMMA ReturnTurns == ASSUME Typed, Current, NEW c \in Calls, Returns(c) PROVE Turned(c)
<1> DEFINE t == IF process # 0 THEN Synced ELSE table
<1>1. /\ table' = [t EXCEPT !.notices = {}] /\ told' = told \cup Announced(t)
      /\ backlog' = (IF process # 0 THEN <<>> ELSE backlog)
      /\ UNCHANGED <<threads, cut>> /\ call[c].pc = "returning"
  BY DEF Returns, At
<1>2. call[c].pc \notin Steppers BY <1>1 DEF Steppers
<1>3. Folds(table, Synced) BY SyncedIs
<1>4. TableOK(Synced) /\ table.seq <= Synced.seq BY <1>3 DEF Folds, Keeps
<1>5. CASE process # 0
  <2>1. table' = [Synced EXCEPT !.notices = {}] /\ told' = told \cup Announced(Synced)
        /\ backlog' = <<>>
    BY <1>1, <1>5
  <2> HIDE DEF Synced
  <2>2. Announced(Synced) \subseteq 1..Synced.seq BY <1>4 DEF Announced, TableOK
  <2>3. told' \subseteq 1..Synced.seq
    <3>1. Synced.seq \in Nat BY <1>4 DEF TableOK
    <3> QED BY <3>1, <2>1, <2>2, <1>4, MineKnown
  <2>4. Adjusts(Synced, table', {})
    <3>1. {} \subseteq Synced.notices OBVIOUS
    <3> QED BY <3>1, <2>1, <1>4, NoticesAdjust, Zenon
  <2> QED BY <1>1, <1>2, <2>1, <2>3, <2>4, SyncedTurns
<1>6. CASE process = 0
  <2>1. table' = [table EXCEPT !.notices = {}] /\ told' = told \cup Announced(table)
        /\ backlog' = backlog
    BY <1>1, <1>6
  <2>2. Announced(table) \subseteq 1..table.seq BY MineKnown DEF Announced, TableOK
  <2>3. told' \subseteq 1..table.seq BY <2>1, <2>2, MineKnown
  <2>4. Adjusts(table, table', {})
    <3>1. {} \subseteq table.notices OBVIOUS
    <3> QED BY <3>1, <2>1, MineKnown, NoticesAdjust, Zenon
  <2>5. Live' = Live BY <2>4 DEF Adjusts, Live
  <2>6. {} \subseteq cut' /\ cut' \subseteq 1..table.seq /\ cut \subseteq cut' BY <1>1, MineKnown
  <2> QED BY <1>1, <1>2, <2>1, <2>3, <2>4, <2>5, <2>6, AdjustTurns
<1> QED BY <1>5, <1>6

LEMMA KeepsOn ==
  ASSUME NEW a, NEW b, NEW d, TableOK(a), TableOK(b), Keeps(a, b), Keeps(b, d), TableOK(d)
  PROVE  Keeps(a, d)
<1>1. /\ a.seq \in Nat /\ b.seq \in Nat /\ d.seq \in Nat /\ a.seq <= b.seq /\ b.seq <= d.seq
      /\ DOMAIN a.live \subseteq 1..a.seq /\ DOMAIN d.live \subseteq 1..d.seq
  BY DEF Keeps, TableOK
<1>2. ASSUME NEW h \in DOMAIN d.live
      PROVE  IF h \in DOMAIN a.live THEN d.live[h].thread = a.live[h].thread ELSE h > a.seq
  <2>1. CASE h \in DOMAIN b.live BY <2>1 DEF Keeps
  <2>2. CASE h \notin DOMAIN b.live
    <3>1. h > b.seq BY <2>2 DEF Keeps
    <3>2. h > a.seq /\ h \notin DOMAIN a.live BY <3>1, <1>1
    <3> QED BY <3>2
  <2> QED BY <2>1, <2>2
<1> QED BY <1>1, <1>2 DEF Keeps

\* What a call holds keeps its thread as long as it lives.
LEMMA HeldOn ==
  ASSUME Typed, Held, NEW c \in Calls, NEW b, Keeps(table, b)
  PROVE  \A h \in Mine(c) \cap DOMAIN b.live :
           h \in Live /\ b.live[h].thread = call[c].hits[h]
<1>1. Mine(c) \subseteq 1..table.seq /\ table.seq \in Nat BY MineKnown
<1>2. \A h \in Mine(c) \cap DOMAIN b.live : ~(h > table.seq) BY <1>1
<1> QED BY <1>2 DEF Keeps, Held, Live

LEMMA StepStartTurns == ASSUME Typed, Current, NEW c \in Calls, StepStarts(c) PROVE Turned(c)
<1>1. PICK h \in DOMAIN Synced.live :
        /\ table' = Ending(Stepping(Synced, {h}, TRUE), {h}, "none") /\ backlog' = <<>>
        /\ UNCHANGED <<threads, told, cut>>
        /\ call' = [call EXCEPT ![c] = [Holding("step", Synced, {h}) EXCEPT
                                          !.halt = threads[Synced.live[h].thread]]]
        /\ call[c].pc = "idle"
  BY Zenon DEF StepStarts, Becomes, histVars, Enters, At
<1>2. call'[c].pc = "step" /\ DOMAIN call'[c].hits = {h}
  <2>1. call \in [Calls -> CallRecords] BY DEF Typed
  <2> DEFINE r == [Holding("step", Synced, {h}) EXCEPT !.halt = threads[Synced.live[h].thread]]
  <2>2. r.pc = "step" /\ DOMAIN r.hits = {h} BY DEF Holding, Idle
  <2> HIDE DEF r
  <2>3. call'[c] = r BY <2>1, <1>1 DEF r
  <2> QED BY <2>2, <2>3
<1>3. /\ Folds(table, Synced) /\ Matches(Synced, threads, cut)
      /\ backlog = <<>> => Synced = table
  BY SyncedIs
<1>4. TableOK(Synced) /\ Keeps(table, Synced) /\ Unstepped(table, Synced) BY <1>3 DEF Folds
<1> DEFINE s == Stepping(Synced, {h}, TRUE)
<1>5. /\ TableOK(s) /\ Keeps(Synced, s) /\ DOMAIN s.live = DOMAIN Synced.live
      /\ \A g \in DOMAIN Synced.live :
           /\ s.live[g].thread = Synced.live[g].thread
           /\ s.live[g].stack = Synced.live[g].stack
           /\ s.live[g].stepping => Synced.live[g].stepping \/ g = h
           /\ Synced.live[g].stepping => s.live[g].stepping
  <2> HIDE DEF Synced
  <2>1. TRUE \in BOOLEAN OBVIOUS
  <2>2. \A flag \in BOOLEAN :
        LET d == Stepping(Synced, {h}, flag) IN
        /\ TableOK(d) /\ Keeps(Synced, d) /\ DOMAIN d.live = DOMAIN Synced.live
        /\ \A g \in DOMAIN Synced.live :
             /\ d.live[g].thread = Synced.live[g].thread
             /\ d.live[g].stack = Synced.live[g].stack
             /\ d.live[g].stepping = IF g \in {h} THEN flag ELSE Synced.live[g].stepping
    BY <1>4, SteppingIs
  <2>3. /\ TableOK(s) /\ Keeps(Synced, s) /\ DOMAIN s.live = DOMAIN Synced.live
        /\ \A g \in DOMAIN Synced.live :
             /\ s.live[g].thread = Synced.live[g].thread
             /\ s.live[g].stack = Synced.live[g].stack
             /\ s.live[g].stepping = IF g \in {h} THEN TRUE ELSE Synced.live[g].stepping
    BY <2>1, <2>2, Zenon
  <2> HIDE DEF s
  <2> QED BY <2>3
<1>6. table' = Ending(s, {h}, "none") BY <1>1
<1> HIDE DEF Synced, s
<1>7. Adjusts(s, table', {})
  <2>1. "none" \in Endings BY DEF Endings
  <2> QED BY <2>1, <1>5, <1>6, EndingAdjusts, Zenon
<1>8. TableOK(table') /\ Keeps(s, table') BY <1>7 DEF Adjusts
<1>9. Keeps(table, table')
  <2>1. Keeps(table, s) BY <1>4, <1>5, KeepsOn, MineKnown
  <2> QED BY <2>1, <1>8, <1>5, KeepsOn, MineKnown
<1>10. Matches(table', threads, cut)
  <2>1. Matches(s, threads, cut) BY <1>3, <1>5 DEF Matches
  <2> QED BY <2>1, <1>5, <1>7, MatchesStill, MineKnown
<1>11. Current'
  <2>1. Matches(table', threads', cut') BY <1>10, <1>1
  <2> QED BY <2>1, <1>1, CurrentNow
<1>12. backlog = <<>> => Live' \subseteq Live BY <1>3, <1>5, <1>7 DEF Adjusts, Live
<1>13. told' \subseteq 1..table'.seq /\ cut' \subseteq 1..table'.seq /\ cut \subseteq cut'
  <2>1. table.seq <= table'.seq /\ table'.seq \in Nat BY <1>8, <1>9 DEF Keeps, TableOK
  <2>2. \A i \in 1..table.seq : i \in 1..table'.seq BY <2>1, MineKnown
  <2>3. told \subseteq 1..table.seq /\ cut \subseteq 1..table.seq BY MineKnown
  <2>4. told' = told /\ cut' = cut BY <1>1
  <2> QED BY <2>2, <2>3, <2>4
<1>14. \A g \in Live' : table'.live[g].stepping =>
       \/ g \in Live /\ table.live[g].stepping
       \/ call'[c].pc = "step" /\ g \in DOMAIN call'[c].hits
  <2>1. SUFFICES ASSUME NEW g \in DOMAIN table'.live, table'.live[g].stepping
                 PROVE  (g \in DOMAIN table.live /\ table.live[g].stepping) \/ g = h
    BY <1>2 DEF Live
  <2>2. g \in DOMAIN Synced.live /\ (Synced.live[g].stepping \/ g = h)
    BY <2>1, <1>5, <1>7 DEF Adjusts
  <2> QED BY <2>2, <1>4 DEF Unstepped
<1>15. call[c].pc \notin Steppers BY <1>1 DEF Steppers
<1> QED BY <1>8, <1>9, <1>11, <1>12, <1>13, <1>14, <1>15 DEF Turned

LEMMA StepStopTurns ==
  ASSUME Typed, Current, Held, Steps, NEW c \in Calls, StepStops(c) PROVE Turned(c)
<1>1. /\ table' = Stepping(Synced, Mine(c), FALSE) /\ backlog' = <<>>
      /\ UNCHANGED <<threads, told, cut>> /\ call[c].pc = "stepping" /\ Stopped(c)
  BY Zenon DEF StepStops, Becomes, histVars, At
<1>2. /\ Folds(table, Synced) /\ Matches(Synced, threads, cut)
      /\ backlog = <<>> => Synced = table
  BY SyncedIs
<1>3. TableOK(Synced) /\ Keeps(table, Synced) BY <1>2 DEF Folds
<1> HIDE DEF Synced
<1> DEFINE d == Stepping(Synced, Mine(c), FALSE)
<1>4. Adjusts(Synced, d, Mine(c)) /\ \A h \in Mine(c) \cap DOMAIN d.live : ~d.live[h].stepping
  BY <1>3, SteppingAdjusts
<1>a. DOMAIN d.live = DOMAIN Synced.live
  <2>1. FALSE \in BOOLEAN OBVIOUS
  <2>2. \A flag \in BOOLEAN : DOMAIN Stepping(Synced, Mine(c), flag).live = DOMAIN Synced.live
    BY <1>3, SteppingIs
  <2> QED BY <2>1, <2>2, Zenon
<1> HIDE DEF d
<1>5. \A h \in Mine(c) \cap DOMAIN d.live : threads[Synced.live[h].thread] # 0
  <2>1. PICK g \in HitIds : Mine(c) = {g} BY <1>1 DEF Steps
  <2>2. threads[call[c].hits[g]] # 0 BY <2>1, <1>1 DEF Stopped, ThreadsOf
  <2>3. \A h \in Mine(c) \cap DOMAIN Synced.live : Synced.live[h].thread = call[c].hits[h]
    BY <1>3, HeldOn
  <2> QED BY <2>1, <2>2, <2>3, <1>a
<1>6. Matches(d, threads, cut) BY <1>2, <1>3, <1>4, <1>5, <1>a, MatchesOn, MineKnown
<1>7. Adjusts(table, table, {}) BY MineKnown, Unadjusted
<1>8. told' \subseteq 1..Synced.seq
  <2>1. table.seq <= Synced.seq /\ Synced.seq \in Nat BY <1>3 DEF Keeps, TableOK
  <2> QED BY <2>1, <1>1, MineKnown
<1>9. table' = d BY <1>1 DEF d
<1> QED BY <1>1, <1>2, <1>4, <1>6, <1>7, <1>8, <1>9, FoldTurns

LEMMA StepLeaveTurns ==
  ASSUME Typed, Current, Held, NEW c \in Calls, StepLeaves(c) PROVE Turned(c)
<1> DEFINE left == Ending(Stepping(table, Mine(c), FALSE), Mine(c), "step left")
           b == Folded(left)
           d == LeftByMap(b, Mine(c))
<1>1. /\ table' = d /\ backlog' = <<>>
      /\ UNCHANGED <<threads, told, cut>> /\ call[c].pc = "stepping" /\ ~Stopped(c)
  BY Zenon DEF StepLeaves, Becomes, histVars, At
<1>2. TableOK(table) /\ threads \in Snapshots BY MineKnown
<1>3. Adjusts(table, left, Mine(c))
  <2> DEFINE s == Stepping(table, Mine(c), FALSE)
  <2>1. Adjusts(table, s, Mine(c)) BY <1>2, SteppingAdjusts
  <2>2. "step left" \in Endings /\ TableOK(s) BY <2>1 DEF Endings, Adjusts
  <2> HIDE DEF s
  <2>3. Adjusts(s, Ending(s, Mine(c), "step left"), {}) BY <2>2, EndingAdjusts
  <2>4. Adjusts(table, Ending(s, Mine(c), "step left"), Mine(c)) BY <2>1, <2>3, <1>2, AdjustsOn
  <2> QED BY <2>4 DEF s
<1>a. DOMAIN left.live = Live
  <2> DEFINE s == Stepping(table, Mine(c), FALSE)
  <2>0. FALSE \in BOOLEAN OBVIOUS
  <2>1. \A flag \in BOOLEAN : DOMAIN Stepping(table, Mine(c), flag).live = DOMAIN table.live
    BY <1>2, SteppingIs
  <2>2. DOMAIN s.live = DOMAIN table.live BY <2>0, <2>1, Zenon
  <2>3. "step left" \in Endings /\ TableOK(s) BY <1>2, SteppingAdjusts DEF Endings, Adjusts
  <2> HIDE DEF s
  <2>4. DOMAIN Ending(s, Mine(c), "step left").live = DOMAIN s.live BY <2>3, EndingIs
  <2> QED BY <2>2, <2>4 DEF s, Live
<1> HIDE DEF left
<1>4. TableOK(left) BY <1>3 DEF Adjusts
<1>5. backlog = <<>> => Matches(left, threads, cut \cup Mine(c))
  <2> SUFFICES ASSUME backlog = <<>> PROVE Matches(left, threads, cut \cup Mine(c)) OBVIOUS
  <2>1. Matches(table, threads, cut) BY CurrentThen
  <2>2. cut \subseteq cut \cup Mine(c) /\ \A h \in (DOMAIN table.live) \ DOMAIN left.live : FALSE
    BY <1>a DEF Live
  <2> QED BY <2>1, <2>2, <1>2, <1>3, MatchesOn
<1>6. /\ Folds(left, b) /\ Matches(b, threads, cut \cup Mine(c))
      /\ backlog = <<>> => b = left
  BY <1>4, <1>5, FoldedFrom
<1> HIDE DEF b
<1>7. TableOK(b) BY <1>6 DEF Folds
<1>8. Adjusts(b, d, Mine(c)) /\ Mine(c) \cap DOMAIN d.live = {} BY <1>7, LeftAdjusts
<1> HIDE DEF d
<1>9. \A h \in Mine(c) \cap DOMAIN b.live : threads[b.live[h].thread] = 0
  <2>1. Keeps(table, b)
    <3>1. Keeps(table, left) BY <1>3 DEF Adjusts
    <3>2. Keeps(left, b) BY <1>6 DEF Folds
    <3> QED BY <3>1, <3>2, <1>2, <1>4, <1>7, KeepsOn
  <2>2. \A h \in Mine(c) \cap DOMAIN b.live : b.live[h].thread = call[c].hits[h]
    BY <2>1, HeldOn
  <2>3. \A h \in Mine(c) : threads[call[c].hits[h]] = 0 BY <1>1 DEF Stopped, ThreadsOf
  <2> QED BY <2>2, <2>3
<1>10. Matches(d, threads, cut)
  <2>1. ASSUME NEW t \in Threads, threads[t] # 0
        PROVE  \E h \in DOMAIN d.live : d.live[h].thread = t /\ d.live[h].stack = threads[t]
    <3>1. PICK h \in DOMAIN b.live : b.live[h].thread = t /\ b.live[h].stack = threads[t]
      BY <2>1, <1>6 DEF Matches
    <3>2. h \notin Mine(c) BY <3>1, <2>1, <1>9
    <3>3. h \in DOMAIN d.live BY <3>1, <3>2, <1>8 DEF Adjusts
    <3> QED BY <3>1, <3>3, <1>8 DEF Adjusts
  <2>2. ASSUME NEW h \in (DOMAIN d.live) \ cut, threads[d.live[h].thread] = 0
        PROVE  d.live[h].stepping
    <3>1. h \notin Mine(c) /\ h \in DOMAIN b.live BY <1>8 DEF Adjusts
    <3>2. threads[b.live[h].thread] = 0 BY <2>2, <3>1, <1>8 DEF Adjusts
    <3>3. b.live[h].stepping BY <3>1, <3>2, <1>6 DEF Matches
    <3> QED BY <3>1, <3>3, <1>8 DEF Adjusts
  <2> QED BY <2>1, <2>2 DEF Matches
<1>11. told' \subseteq 1..b.seq
  <2>1. table.seq <= b.seq /\ b.seq \in Nat BY <1>3, <1>6 DEF Keeps, TableOK, Adjusts, Folds
  <2> QED BY <2>1, <1>1, MineKnown
<1> QED BY <1>1, <1>3, <1>6, <1>8, <1>10, <1>11, FoldTurns

LEMMA FlagTurns ==
  ASSUME Typed, Current, NEW c \in Calls, ContinueSends(c) \/ StepAnswered(c) \/ CancelFails(c)
  PROVE  Turned(c)
<1>0. "continued" \in Endings BY DEF Endings
<1>1. CASE ContinueSends(c)
  <2>1. /\ table' = Ending(table, {Min(call[c].todo)}, "continued")
        /\ UNCHANGED <<backlog, threads, told, cut>> /\ call[c].pc = "continue"
    BY <1>1, Zenon DEF ContinueSends, clientVars, histVars, At
  <2>2. Adjusts(table, table', {}) BY <2>1, <1>0, MineKnown, EndingAdjusts, Zenon
  <2>3. Live' = Live BY <2>2 DEF Adjusts, Live
  <2>4. call[c].pc \notin Steppers BY <2>1 DEF Steppers
  <2>5. {} \subseteq cut' /\ told' \subseteq 1..table.seq /\ cut' \subseteq 1..table.seq
        /\ cut \subseteq cut'
    BY <2>1, MineKnown
  <2> QED BY <2>1, <2>2, <2>3, <2>4, <2>5, AdjustTurns
<1>2. CASE CancelFails(c)
  <2>1. /\ table' = Withdrawn(table, Mine(c))
        /\ UNCHANGED <<backlog, threads, told, cut>> /\ call[c].pc = "cancel"
    BY <1>2, Zenon DEF CancelFails, clientVars, histVars, At
  <2>2. Adjusts(table, table', {}) BY <2>1, MineKnown, WithdrawnAdjusts, Zenon
  <2>3. Live' = Live BY <2>2 DEF Adjusts, Live
  <2>4. call[c].pc \notin Steppers BY <2>1 DEF Steppers
  <2>5. {} \subseteq cut' /\ told' \subseteq 1..table.seq /\ cut' \subseteq 1..table.seq
        /\ cut \subseteq cut'
    BY <2>1, MineKnown
  <2> QED BY <2>1, <2>2, <2>3, <2>4, <2>5, AdjustTurns
<1>3. CASE StepAnswered(c)
  <2>1. UNCHANGED <<backlog, threads, told>>
    BY <1>3, Zenon DEF StepAnswered, clientVars
  <2>2. CASE Goto(c, "stepping") /\ UNCHANGED <<table, cut>>
    <3>1. call'[c].pc = "stepping"
      <4>1. call \in [Calls -> CallRecords] BY DEF Typed
      <4> QED BY <4>1, <2>2 DEF Goto, CallRecords
    <3>2. call'[c].pc \in Steppers BY <3>1 DEF Steppers
    <3>3. told' \subseteq 1..table.seq /\ cut' \subseteq 1..table.seq /\ cut \subseteq cut'
      BY <2>1, <2>2, MineKnown
    <3> QED BY <2>1, <2>2, <3>2, <3>3, StillTurns
  <2>3. CASE table' = Stepping(table, Mine(c), FALSE) /\ cut' = cut \cup Mine(c)
    <3>1. Adjusts(table, table', Mine(c)) BY <2>3, MineKnown, SteppingAdjusts, Zenon
    <3>2. Live' = Live
      <4>1. FALSE \in BOOLEAN OBVIOUS
      <4>2. \A flag \in BOOLEAN : DOMAIN Stepping(table, Mine(c), flag).live = DOMAIN table.live
        BY MineKnown, SteppingIs
      <4>3. DOMAIN table'.live = DOMAIN table.live BY <4>1, <4>2, <2>3, Zenon
      <4> QED BY <4>3 DEF Live
    <3>3. Mine(c) \subseteq cut' /\ told' \subseteq 1..table.seq /\ cut' \subseteq 1..table.seq
          /\ cut \subseteq cut'
      BY <2>1, <2>3, MineKnown
    <3> QED BY <2>1, <3>1, <3>2, <3>3, AdjustTurns
  <2> QED BY <1>3, <2>2, <2>3, Zenon DEF StepAnswered
<1> QED BY <1>1, <1>2, <1>3

LEMMA NothingTurns == ASSUME Typed, Current, NEW c \in Calls, CancelNothing(c) PROVE Turned(c)
<1> DEFINE t == Withdrawn(table, Mine(c))
           b == Folded(t)
<1>1. /\ table' = b /\ backlog' = <<>> /\ UNCHANGED <<threads, told, cut>>
      /\ call[c].pc = "cancel"
  BY Zenon DEF CancelNothing, Becomes, histVars, At
<1>2. TableOK(table) /\ threads \in Snapshots BY MineKnown
<1>3. Adjusts(table, t, {}) BY <1>2, WithdrawnAdjusts
<1> HIDE DEF t
<1>4. TableOK(t) BY <1>3 DEF Adjusts
<1>5. backlog = <<>> => Matches(t, threads, cut)
  <2>1. backlog = <<>> => Matches(table, threads, cut) BY CurrentThen
  <2> QED BY <2>1, <1>2, <1>3, MatchesStill
<1>6. Folds(t, b) /\ Matches(b, threads, cut) /\ (backlog = <<>> => b = t)
  BY <1>4, <1>5, FoldedFrom
<1> HIDE DEF b
<1>7. Adjusts(b, b, {}) BY <1>6, Unadjusted DEF Folds
<1>8. told' \subseteq 1..b.seq
  <2>1. table.seq <= b.seq /\ b.seq \in Nat BY <1>3, <1>6 DEF Keeps, TableOK, Adjusts, Folds
  <2> QED BY <2>1, <1>1, MineKnown
<1>9. call[c].pc \notin Steppers BY <1>1 DEF Steppers
<1> QED BY <1>1, <1>3, <1>6, <1>7, <1>8, <1>9, FoldTurns

LEMMA LaunchTurns ==
  ASSUME Typed, Current, NEW c \in Calls, NEW s \in Sessions, LaunchStarts(c, s) PROVE Turned(c)
<1>1. /\ \/ table' = Synced /\ backlog' = <<>>
         \/ UNCHANGED <<table, backlog>>
      /\ UNCHANGED <<threads, told, cut>> /\ call[c].pc = "idle"
  <2>1. /\ IF Sound THEN table' = Synced /\ backlog' = <<>> ELSE UNCHANGED <<table, backlog>>
        /\ UNCHANGED <<threads, told, cut>> /\ call[c].pc = "idle"
    BY Zenon DEF LaunchStarts, Becomes, histVars, Enters, At
  <2> QED BY <2>1
<1>2. call[c].pc \notin Steppers BY <1>1 DEF Steppers
<1>3. CASE table' = Synced /\ backlog' = <<>>
  <2>1. Folds(table, Synced) BY SyncedIs
  <2>2. TableOK(Synced) /\ table.seq <= Synced.seq BY <2>1 DEF Folds, Keeps
  <2> HIDE DEF Synced
  <2>3. Adjusts(Synced, Synced, {}) BY <2>2, Unadjusted
  <2>4. told' \subseteq 1..Synced.seq
    <3>1. Synced.seq \in Nat BY <2>2 DEF TableOK
    <3> QED BY <3>1, <2>2, <1>1, MineKnown
  <2> QED BY <1>1, <1>2, <1>3, <2>3, <2>4, SyncedTurns
<1>4. CASE UNCHANGED <<table, backlog>>
  <2>1. told' \subseteq 1..table.seq /\ cut' \subseteq 1..table.seq /\ cut \subseteq cut'
    BY <1>1, MineKnown
  <2> QED BY <1>1, <1>2, <1>4, <2>1, StillTurns
<1> QED BY <1>1, <1>3, <1>4

LEMMA TeardownTurns ==
  ASSUME Typed, Current, NEW c \in Calls, TeardownEnds(c) \/ Reaps(c) PROVE Turned(c)
<1>0. call[c].pc \notin Steppers /\ UNCHANGED <<told, cut>>
  <2>1. call[c].pc \in {"closing", "closing for launch", "reap"}
    BY Zenon DEF TeardownEnds, Reaps, At
  <2>2. UNCHANGED <<told, cut>> BY Zenon DEF TeardownEnds, Reaps, histVars
  <2> QED BY <2>1, <2>2 DEF Steppers
<1>1. \/ table' = TornDown(table) /\ backlog' = <<>> /\ threads' = Running
      \/ UNCHANGED <<table, backlog, threads>>
  BY Zenon DEF TeardownEnds, Reaps, Clears
<1>2. CASE UNCHANGED <<table, backlog, threads>>
  <2>1. told' \subseteq 1..table.seq /\ cut' \subseteq 1..table.seq /\ cut \subseteq cut'
    BY <1>0, MineKnown
  <2> QED BY <1>0, <1>2, <2>1, StillTurns
<1>3. CASE table' = TornDown(table) /\ backlog' = <<>> /\ threads' = Running
  <2>1. /\ TableOK(table') /\ Keeps(table, table') /\ DOMAIN table'.live = {}
        /\ table'.seq = table.seq
    BY <1>3, MineKnown, TornDownIs, Zenon
  <2>2. Current'
    <3>1. \A t \in Threads : threads'[t] = 0 BY <1>3 DEF Running
    <3>2. Matches(table', threads', cut') BY <3>1, <2>1 DEF Matches
    <3> QED BY <3>2, <1>3, CurrentNow
  <2>3. told' \subseteq 1..table'.seq /\ cut' \subseteq 1..table'.seq /\ cut \subseteq cut'
    BY <1>0, <2>1, MineKnown
  <2>4. Live' = {} BY <2>1 DEF Live
  <2> QED BY <1>0, <2>1, <2>2, <2>3, <2>4 DEF Turned
<1> QED BY <1>1, <1>2, <1>3

LEMMA CutTurns == ASSUME Typed, Current, NEW c \in Calls, CutShort(c) PROVE Turned(c)
<1>1. UNCHANGED <<backlog, threads>> BY Zenon DEF CutShort, clientVars
<1>2. \/ /\ call[c].pc \in {"continue", "evaluating", "returning", "doomed", "report"}
         /\ UNCHANGED <<table, cut>> /\ (told' = told \/ told' = told \cup Mine(c))
      \/ call[c].pc = "stepping" /\ cut' = cut \cup Mine(c) /\ UNCHANGED <<table, told>>
      \/ /\ call[c].pc \in {"cancel", "sweep"} /\ table' = Withdrawn(table, Mine(c))
         /\ UNCHANGED <<told, cut>>
  BY Zenon DEF CutShort, histVars, At
<1>3. CASE /\ call[c].pc \in {"continue", "evaluating", "returning", "doomed", "report"}
           /\ UNCHANGED <<table, cut>> /\ (told' = told \/ told' = told \cup Mine(c))
  <2>1. told' \subseteq 1..table.seq /\ cut' \subseteq 1..table.seq /\ cut \subseteq cut'
    BY <1>3, MineKnown
  <2>2. call[c].pc \notin Steppers BY <1>3 DEF Steppers
  <2> QED BY <1>1, <1>3, <2>1, <2>2, StillTurns
<1>4. CASE call[c].pc = "stepping" /\ cut' = cut \cup Mine(c) /\ UNCHANGED <<table, told>>
  <2>1. told' \subseteq 1..table.seq /\ cut' \subseteq 1..table.seq /\ cut \subseteq cut'
        /\ Mine(c) \subseteq cut'
    BY <1>4, MineKnown
  <2> QED BY <1>1, <1>4, <2>1, StillTurns
<1>5. CASE /\ call[c].pc \in {"cancel", "sweep"} /\ table' = Withdrawn(table, Mine(c))
           /\ UNCHANGED <<told, cut>>
  <2>1. Adjusts(table, table', {}) BY <1>5, MineKnown, WithdrawnAdjusts, Zenon
  <2>2. Live' = Live BY <2>1 DEF Adjusts, Live
  <2>3. call[c].pc \notin Steppers BY <1>5 DEF Steppers
  <2>4. {} \subseteq cut' /\ told' \subseteq 1..table.seq /\ cut' \subseteq 1..table.seq
        /\ cut \subseteq cut'
    BY <1>5, MineKnown
  <2> QED BY <1>1, <2>1, <2>2, <2>3, <2>4, AdjustTurns
<1> QED BY <1>2, <1>3, <1>4, <1>5

LEMMA ActsTurn ==
  ASSUME Typed, Current, Held, Steps, NEW c \in Calls, Acts(c) PROVE Turned(c)
<1>1. CASE \/ Look(c) \/ ReportEnds(c) \/ EvaluationEnds(c) \/ CancelRetired(c)
           \/ \E s \in Sessions : LaunchRuns(c, s)
           \/ Terminate(c) \/ TeardownStarts(c) \/ Spawns(c) \/ Shakes(c) \/ Launched(c)
           \/ LaunchFails(c) \/ StepLooks(c)
  BY <1>1, StillActions
<1>2. CASE \/ ContinueStarts(c) \/ ContinueEnds(c) \/ EvaluateRefused(c) \/ Evaluates(c)
           \/ ReportStarts(c) \/ CancelStarts(c) \/ CancelEnds(c)
           \/ \E s \in Sessions : LaunchRefused(c, s)
  BY <1>2, SyncingActions
<1>3. CASE ContinueSends(c) \/ StepAnswered(c) \/ CancelFails(c) BY <1>3, FlagTurns
<1>4. CASE \E s \in Sessions : LaunchStarts(c, s) BY <1>4, LaunchTurns
<1>5. CASE TeardownEnds(c) \/ Reaps(c) BY <1>5, TeardownTurns
<1>6. CASE Returns(c) BY <1>6, ReturnTurns
<1>7. CASE StepStarts(c) BY <1>7, StepStartTurns
<1>8. CASE StepStops(c) BY <1>8, StepStopTurns
<1>9. CASE StepLeaves(c) BY <1>9, StepLeaveTurns
<1>10. CASE CancelNothing(c) BY <1>10, NothingTurns
<1>11. CASE CutShort(c) BY <1>11, CutTurns
<1> QED BY <1>1, <1>2, <1>3, <1>4, <1>5, <1>6, <1>7, <1>8, <1>9, <1>10, <1>11, Zenon DEF Acts

-----------------------------------------------------------------------------
(* What it leaves of the calls' hits.                                      *)

\* What the call's side of a step of call C leaves in order.
Called(c) ==
  /\ call' = [call EXCEPT ![c] = call'[c]] /\ call'[c] \in CallRecords
  /\ DOMAIN call'[c].hits \subseteq 1..table'.seq /\ call'[c].todo \subseteq DOMAIN call'[c].hits
  /\ \A h \in DOMAIN call'[c].hits : h \in Live' => call'[c].hits[h] = table'.live[h].thread
  /\ call'[c].pc \in Steppers => \E h \in 1..table'.seq : DOMAIN call'[c].hits = {h}

\* No more hits than it had.
LEMMA CalledOn ==
  ASSUME Typed, Held, Steps, NEW c \in Calls, Keeps(table, table'), TableOK(table'),
         NEW r, call' = [call EXCEPT ![c] = r], r \in CallRecords,
         r.hits = call[c].hits \/ r.hits = <<>>, r.todo \subseteq DOMAIN r.hits,
         r.pc \in Steppers => call[c].pc \in Steppers /\ r.hits = call[c].hits
  PROVE  Called(c)
<1>1. call'[c] = r BY DEF Typed
<1>2. Mine(c) \subseteq 1..table.seq /\ table.seq \in Nat BY MineKnown
<1>3. table.seq <= table'.seq /\ table'.seq \in Nat BY DEF Keeps, TableOK
<1>4. \A i \in 1..table.seq : i \in 1..table'.seq BY <1>2, <1>3
<1>5. \A h \in Mine(c) \cap DOMAIN table'.live : table'.live[h].thread = call[c].hits[h]
  BY HeldOn
<1>6. CASE r.hits = call[c].hits
  <2>1. r.pc \in Steppers => \E h \in 1..table'.seq : DOMAIN r.hits = {h}
    <3> SUFFICES ASSUME r.pc \in Steppers PROVE \E h \in 1..table'.seq : Mine(c) = {h}
      BY <1>6 DEF Mine
    <3>1. PICK h \in HitIds : Mine(c) = {h} BY DEF Steps, Steppers
    <3> QED BY <3>1, <1>4 DEF HitIds
  <2> QED BY <1>1, <1>2, <1>4, <1>5, <1>6, <2>1 DEF Called, Live, Mine
<1>7. CASE r.hits = <<>> /\ r.pc \notin Steppers
  <2>1. DOMAIN r.hits = {} BY <1>7
  <2> QED BY <1>1, <1>7, <2>1 DEF Called
<1> QED BY <1>6, <1>7

LEMMA IdleGiven == Idle \in CallRecords /\ Idle.hits = <<>> /\ Idle.todo = {} /\ Idle.pc = "idle"
<1>1. <<>> \in Holdings
  <2>1. <<>> \in [{} -> Threads] OBVIOUS
  <2> QED BY <2>1 DEF Holdings
<1>2. Idle \in CallRecords BY <1>1 DEF Idle, CallRecords, Labels
<1> QED BY <1>2 DEF Idle

LEMMA DoneGiven ==
  ASSUME NEW pc \in Labels
  PROVE  LET r == [Idle EXCEPT !.pc = pc] IN
         r \in CallRecords /\ r.hits = <<>> /\ r.todo = {} /\ r.pc = pc
BY IdleGiven DEF CallRecords

LEMMA WantGiven ==
  ASSUME NEW pc \in Labels, NEW s \in Sessions
  PROVE  LET r == [Idle EXCEPT !.pc = pc, !.want = s] IN
         r \in CallRecords /\ r.hits = <<>> /\ r.todo = {} /\ r.pc = pc
BY IdleGiven DEF CallRecords

LEMMA HoldingGiven ==
  ASSUME Typed, NEW pc \in Labels, NEW tbl, TableOK(tbl), NEW hits \in SUBSET (DOMAIN tbl.live)
  PROVE  /\ Holding(pc, tbl, hits) \in CallRecords /\ Holding(pc, tbl, hits).pc = pc
         /\ \A h \in hits : Holding(pc, tbl, hits).hits[h] = tbl.live[h].thread
         /\ DOMAIN Holding(pc, tbl, hits).hits = hits /\ Holding(pc, tbl, hits).todo = hits
<1>1. hits \subseteq Nat /\ \A h \in hits : tbl.live[h].thread \in Threads BY DEF TableOK, Hits
<1>2. [h \in hits |-> tbl.live[h].thread] \in Holdings
  <2>1. [h \in hits |-> tbl.live[h].thread] \in [hits -> Threads] BY <1>1
  <2>2. hits \in SUBSET Nat BY <1>1
  <2> QED BY <2>1, <2>2 DEF Holdings
<1>3. process \in Nat BY SessionAssumption DEF Typed
<1> DEFINE held == [h \in hits |-> tbl.live[h].thread]
<1>4. DOMAIN held = hits OBVIOUS
<1> HIDE DEF held
<1>5. Holding(pc, tbl, hits) = [Idle EXCEPT !.pc = pc, !.process = process, !.todo = hits,
                                            !.hits = held]
  BY DEF Holding, held
<1> DEFINE r == [Idle EXCEPT !.pc = pc, !.process = process, !.todo = hits, !.hits = held]
<1>6. held \in Holdings BY <1>2 DEF held
<1>7. r \in CallRecords /\ r.pc = pc /\ r.hits = held /\ r.todo = hits
  BY <1>1, <1>3, <1>6, IdleGiven DEF CallRecords
<1> HIDE DEF r
<1>8. Holding(pc, tbl, hits) = r BY <1>5 DEF r
<1>9. \A h \in hits : held[h] = tbl.live[h].thread BY DEF held
<1> QED BY <1>4, <1>7, <1>8, <1>9

\* Hits taken from a table the step leaves behind, but for what no thread shows.
LEMMA CalledWith ==
  ASSUME Typed, NEW c \in Calls, NEW tbl, TableOK(tbl), NEW hits \in SUBSET (DOMAIN tbl.live),
         NEW pc \in Labels, NEW r \in CallRecords,
         r.hits = Holding(pc, tbl, hits).hits, r.todo = hits, r.pc = pc,
         call' = [call EXCEPT ![c] = r], tbl.seq = table'.seq,
         \A h \in DOMAIN tbl.live : h \in DOMAIN table'.live =>
           table'.live[h].thread = tbl.live[h].thread,
         pc \in Steppers => \E h \in DOMAIN tbl.live : hits = {h}
  PROVE  Called(c)
<1>1. call'[c] = r BY DEF Typed
<1>2. DOMAIN r.hits = hits /\ \A h \in hits : r.hits[h] = tbl.live[h].thread BY HoldingGiven
<1>3. DOMAIN tbl.live \subseteq 1..tbl.seq BY DEF TableOK
<1> QED BY <1>1, <1>2, <1>3 DEF Called, Live

\* Actions after which a call has the hits it had, or none.
LEMMA PlainCalls ==
  ASSUME Typed, Held, Steps, NEW c \in Calls, Keeps(table, table'), TableOK(table'),
         \/ UNCHANGED call /\ call[c].pc \notin Steppers
         \/ Done(c) \/ Finish(c)
         \/ \E pc \in Labels : Goto(c, pc) /\ (pc \in Steppers => call[c].pc \in Steppers)
         \/ call' = [call EXCEPT ![c].news = FALSE]
         \/ \E s \in Sessions, pc \in Labels \ Steppers :
              call' = [call EXCEPT ![c] = [Idle EXCEPT !.pc = pc, !.want = s]]
         \/ \E p \in Nat : call' = [call EXCEPT ![c].pc = "shake", ![c].process = p]
         \/ \E h : call' = [call EXCEPT ![c].todo = @ \ {h}]
  PROVE  Called(c)
<1>0. call \in [Calls -> CallRecords] /\ call[c].todo \subseteq Mine(c) BY DEF Typed
<1> DEFINE was == call[c]
<1>a. was \in CallRecords /\ was.todo \subseteq DOMAIN was.hits BY <1>0 DEF Mine
<1>b. "returning" \in Labels \ Steppers /\ "idle" \in Labels \ Steppers
      /\ "shake" \in Labels \ Steppers
  BY DEF Labels, Steppers
<1>1. CASE UNCHANGED call /\ call[c].pc \notin Steppers
  <2>1. call' = [call EXCEPT ![c] = was] BY <1>0, <1>1
  <2> QED BY <1>1, <1>a, <2>1, CalledOn
<1>2. CASE Done(c)
  <2> DEFINE r == [Idle EXCEPT !.pc = "returning"]
  <2>1. r \in CallRecords /\ r.hits = <<>> /\ r.todo = {} /\ r.pc \notin Steppers
    BY <1>b, DoneGiven
  <2>2. call' = [call EXCEPT ![c] = r] BY <1>2 DEF Done
  <2> HIDE DEF r
  <2> QED BY <2>1, <2>2, CalledOn
<1>3. CASE Finish(c)
  <2>1. Idle \in CallRecords /\ Idle.hits = <<>> /\ Idle.todo = {} /\ Idle.pc \notin Steppers
    BY <1>b, IdleGiven
  <2>2. call' = [call EXCEPT ![c] = Idle] BY <1>3 DEF Finish
  <2> QED BY <2>1, <2>2, CalledOn
<1>4. CASE \E pc \in Labels : Goto(c, pc) /\ (pc \in Steppers => call[c].pc \in Steppers)
  <2>1. PICK pc \in Labels : Goto(c, pc) /\ (pc \in Steppers => call[c].pc \in Steppers)
    BY <1>4
  <2> DEFINE r == [was EXCEPT !.pc = pc]
  <2>2. r \in CallRecords /\ r.hits = was.hits /\ r.todo = was.todo /\ r.pc = pc
    BY <1>a DEF CallRecords
  <2>3. call' = [call EXCEPT ![c] = r] BY <2>1 DEF Goto
  <2> HIDE DEF r
  <2> QED BY <2>1, <2>2, <2>3, <1>a, CalledOn
<1>5. CASE call' = [call EXCEPT ![c].news = FALSE]
  <2> DEFINE r == [was EXCEPT !.news = FALSE]
  <2>2. r \in CallRecords /\ r.hits = was.hits /\ r.todo = was.todo /\ r.pc = was.pc
    BY <1>a DEF CallRecords
  <2>3. call' = [call EXCEPT ![c] = r] BY <1>5
  <2> HIDE DEF r
  <2> QED BY <2>2, <2>3, <1>a, CalledOn
<1>6. CASE \E s \in Sessions, pc \in Labels \ Steppers :
              call' = [call EXCEPT ![c] = [Idle EXCEPT !.pc = pc, !.want = s]]
  <2>1. PICK s \in Sessions, pc \in Labels \ Steppers :
              call' = [call EXCEPT ![c] = [Idle EXCEPT !.pc = pc, !.want = s]]
    BY <1>6
  <2> DEFINE r == [Idle EXCEPT !.pc = pc, !.want = s]
  <2>2. r \in CallRecords /\ r.hits = <<>> /\ r.todo = {} /\ r.pc \notin Steppers
    BY WantGiven
  <2>3. call' = [call EXCEPT ![c] = r] BY <2>1
  <2> HIDE DEF r
  <2> QED BY <2>2, <2>3, CalledOn
<1>7. CASE \E p \in Nat : call' = [call EXCEPT ![c].pc = "shake", ![c].process = p]
  <2>1. PICK p \in Nat : call' = [call EXCEPT ![c].pc = "shake", ![c].process = p] BY <1>7
  <2> DEFINE r == [was EXCEPT !.pc = "shake", !.process = p]
  <2>2. r \in CallRecords /\ r.hits = was.hits /\ r.todo = was.todo /\ r.pc = "shake"
    BY <1>a, <1>b DEF CallRecords
  <2>3. call' = [call EXCEPT ![c] = r] BY <2>1, <1>0
  <2> HIDE DEF r
  <2> QED BY <2>2, <2>3, <1>a, <1>b, CalledOn
<1>8. CASE \E h : call' = [call EXCEPT ![c].todo = @ \ {h}]
  <2>1. PICK h : call' = [call EXCEPT ![c].todo = @ \ {h}] BY <1>8
  <2> DEFINE r == [was EXCEPT !.todo = was.todo \ {h}]
  <2>2. /\ r \in CallRecords /\ r.hits = was.hits /\ r.todo \subseteq DOMAIN was.hits
        /\ r.pc = was.pc
    BY <1>a DEF CallRecords
  <2>3. call' = [call EXCEPT ![c] = r] BY <2>1
  <2> HIDE DEF r
  <2> QED BY <2>2, <2>3, CalledOn
<1> QED BY <1>1, <1>2, <1>3, <1>4, <1>5, <1>6, <1>7, <1>8

LEMMA PlainActions ==
  ASSUME Typed, NEW c \in Calls,
         Acts(c), ~ContinueStarts(c), ~StepStarts(c), ~ReportStarts(c), ~CancelStarts(c)
  PROVE  \/ UNCHANGED call /\ call[c].pc \notin Steppers
         \/ Done(c) \/ Finish(c)
         \/ \E pc \in Labels : Goto(c, pc) /\ (pc \in Steppers => call[c].pc \in Steppers)
         \/ call' = [call EXCEPT ![c].news = FALSE]
         \/ \E s \in Sessions, pc \in Labels \ Steppers :
              call' = [call EXCEPT ![c] = [Idle EXCEPT !.pc = pc, !.want = s]]
         \/ \E p \in Nat : call' = [call EXCEPT ![c].pc = "shake", ![c].process = p]
         \/ \E h : call' = [call EXCEPT ![c].todo = @ \ {h}]
<1>1. CASE \/ Look(c) \/ ContinueEnds(c) \/ StepStops(c) \/ StepLeaves(c) \/ ReportEnds(c)
           \/ EvaluationEnds(c) \/ CancelNothing(c) \/ CancelEnds(c) \/ Launched(c)
           \/ \E s \in Sessions : LaunchRuns(c, s)
  <2>1. Done(c)
    BY <1>1, Zenon DEF Look, ContinueEnds, StepStops, StepLeaves, ReportEnds, EvaluationEnds,
       CancelNothing, CancelEnds, Launched, LaunchRuns
  <2> QED BY <2>1
<1>2. CASE Returns(c) \/ CutShort(c) \/ Reaps(c)
  <2>1. Finish(c) BY <1>2, Zenon DEF Returns, CutShort, Reaps
  <2> QED BY <2>1
<1>3. CASE \/ Evaluates(c) \/ CancelRetired(c) \/ CancelFails(c) \/ Terminate(c)
           \/ TeardownStarts(c) \/ Shakes(c) \/ LaunchFails(c)
  <2>1. \E pc \in {"evaluating", "sweep", "doomed", "closing", "probe", "reap"} : Goto(c, pc)
    BY <1>3 DEF Evaluates, CancelRetired, CancelFails, Terminate, TeardownStarts, Shakes, LaunchFails
  <2>2. {"evaluating", "sweep", "doomed", "closing", "probe", "reap"} \subseteq Labels \ Steppers
    BY DEF Labels, Steppers
  <2> QED BY <2>1, <2>2
<1>4. CASE StepAnswered(c)
  <2>1. (Goto(c, "stepping") \/ Finish(c)) /\ call[c].pc = "step"
    BY <1>4, Zenon DEF StepAnswered, At
  <2>2. "stepping" \in Labels /\ "step" \in Steppers BY DEF Labels, Steppers
  <2> QED BY <2>1, <2>2
<1>5. CASE TeardownEnds(c)
  <2>1. Done(c) \/ Goto(c, "spawn") BY <1>5, Zenon DEF TeardownEnds
  <2>2. "spawn" \in Labels \ Steppers BY DEF Labels, Steppers
  <2> QED BY <2>1, <2>2
<1>6. CASE StepLooks(c)
  <2>1. call' = [call EXCEPT ![c].news = FALSE] BY <1>6, Zenon DEF StepLooks
  <2> QED BY <2>1
<1>7. CASE \E s \in Sessions : LaunchStarts(c, s)
  <2>1. PICK s \in Sessions : LaunchStarts(c, s) BY <1>7
  <2> DEFINE pc == IF process # 0 THEN "closing for launch" ELSE "spawn"
  <2>2. call' = [call EXCEPT ![c] = [Idle EXCEPT !.pc = pc, !.want = s]]
    BY <2>1, Zenon DEF LaunchStarts
  <2>3. pc \in Labels \ Steppers BY DEF Labels, Steppers
  <2> HIDE DEF pc
  <2> QED BY <2>2, <2>3
<1>8. CASE Spawns(c)
  <2> DEFINE p == spent.starts + 1
  <2>1. call' = [call EXCEPT ![c].pc = "shake", ![c].process = p] BY <1>8, Zenon DEF Spawns
  <2>2. p \in Nat
    <3>1. spent.starts \in 0..MaxStarts BY DEF Typed
    <3> QED BY <3>1
  <2> HIDE DEF p
  <2> QED BY <2>1, <2>2
<1>9. CASE ContinueSends(c)
  <2> DEFINE h == Min(call[c].todo)
  <2>1. call' = [call EXCEPT ![c].todo = @ \ {h}] \/ Finish(c)
    BY <1>9, Zenon DEF ContinueSends
  <2> HIDE DEF h
  <2> QED BY <2>1
<1>10. CASE EvaluateRefused(c) \/ \E s \in Sessions : LaunchRefused(c, s)
  <2>1. UNCHANGED call /\ call[c].pc = "idle"
    BY <1>10, Zenon DEF EvaluateRefused, LaunchRefused, Enters, At
  <2> QED BY <2>1 DEF Steppers
<1> QED BY <1>1, <1>2, <1>3, <1>4, <1>5, <1>6, <1>7, <1>8, <1>9, <1>10, Zenon DEF Acts

LEMMA HoldingCalls ==
  ASSUME Typed, Current, NEW c \in Calls,
         ContinueStarts(c) \/ ReportStarts(c) \/ CancelStarts(c)
  PROVE  Called(c)
<1>1. Folds(table, Synced) BY SyncedIs
<1>2. TableOK(Synced) BY <1>1 DEF Folds
<1>3. PICK pc \in {"continue", "report", "cancel"}, hits \in SUBSET (DOMAIN Synced.live) :
        call' = [call EXCEPT ![c] = Holding(pc, Synced, hits)]
  <2>1. CASE ContinueStarts(c)
    <3>1. PICK hits \in {DOMAIN Synced.live} \cup {{h} : h \in DOMAIN Synced.live} :
            call' = [call EXCEPT ![c] = Holding("continue", Synced, hits)]
      BY <2>1, Zenon DEF ContinueStarts
    <3> HIDE DEF Synced
    <3>2. hits \in SUBSET (DOMAIN Synced.live) OBVIOUS
    <3> QED BY <3>1, <3>2, Zenon
  <2>2. CASE ReportStarts(c) BY <2>2, Zenon DEF ReportStarts
  <2>3. CASE CancelStarts(c) BY <2>3, Zenon DEF CancelStarts
  <2> QED BY <2>1, <2>2, <2>3
<1>4. \/ table' = Synced \/ table' = Consumed(Synced, DOMAIN Synced.live)
      \/ table' = Ending(Synced, DOMAIN Synced.live, "cancelled")
  BY Zenon DEF ContinueStarts, ReportStarts, CancelStarts, Becomes
<1> HIDE DEF Synced
<1>5. Adjusts(Synced, table', {})
  <2>0. "cancelled" \in Endings BY DEF Endings
  <2>1. CASE table' = Synced BY <2>1, <1>2, Unadjusted, Zenon
  <2>2. CASE table' = Ending(Synced, DOMAIN Synced.live, "cancelled")
    BY <2>0, <2>2, <1>2, EndingAdjusts, Zenon
  <2>3. CASE table' = Consumed(Synced, DOMAIN Synced.live)
    BY <2>3, <1>2, ConsumedAdjusts, Zenon
  <2> QED BY <1>4, <2>1, <2>2, <2>3
<1>6. Synced.seq = table'.seq /\ \A h \in DOMAIN Synced.live : h \in DOMAIN table'.live =>
        table'.live[h].thread = Synced.live[h].thread
  BY <1>5 DEF Adjusts
<1>7. pc \in Labels /\ pc \notin Steppers BY DEF Labels, Steppers
<1> DEFINE r == Holding(pc, Synced, hits)
<1>8. r \in CallRecords /\ r.pc = pc /\ r.todo = hits
  <2>1. \A p \in Labels, x \in SUBSET (DOMAIN Synced.live) :
          LET q == Holding(p, Synced, x) IN q \in CallRecords /\ q.pc = p /\ q.todo = x
    BY <1>2, HoldingGiven
  <2> QED BY <2>1, <1>7, Zenon
<1>9. r.hits = Holding(pc, Synced, hits).hits OBVIOUS
<1>10. call' = [call EXCEPT ![c] = r] BY <1>3
<1> HIDE DEF r
<1>11. pc \in Steppers => \E g \in DOMAIN Synced.live : hits = {g} BY <1>7
<1>12. Synced.seq = table'.seq BY <1>6
<1>13. \A h \in DOMAIN Synced.live : h \in DOMAIN table'.live =>
         table'.live[h].thread = Synced.live[h].thread
  BY <1>6
<1> QED BY <1>2, <1>7, <1>8, <1>9, <1>10, <1>11, <1>12, <1>13, CalledWith, Zenon

LEMMA StepCall == ASSUME Typed, Current, NEW c \in Calls, StepStarts(c) PROVE Called(c)
<1>1. PICK h \in DOMAIN Synced.live :
        /\ table' = Ending(Stepping(Synced, {h}, TRUE), {h}, "none")
        /\ call' = [call EXCEPT ![c] = [Holding("step", Synced, {h}) EXCEPT
                                          !.halt = threads[Synced.live[h].thread]]]
  BY Zenon DEF StepStarts, Becomes
<1>2. Folds(table, Synced) BY SyncedIs
<1>3. TableOK(Synced) BY <1>2 DEF Folds
<1> HIDE DEF Synced
<1> DEFINE s == Stepping(Synced, {h}, TRUE)
<1>4. TableOK(s) /\ s.seq = Synced.seq
      /\ \A g \in DOMAIN Synced.live : s.live[g].thread = Synced.live[g].thread
  <2>1. \A flag \in BOOLEAN :
          /\ TableOK(Stepping(Synced, {h}, flag)) /\ Stepping(Synced, {h}, flag).seq = Synced.seq
          /\ \A g \in DOMAIN Synced.live :
               Stepping(Synced, {h}, flag).live[g].thread = Synced.live[g].thread
    BY <1>3, SteppingIs
  <2> QED BY <2>1, Zenon
<1>5. DOMAIN s.live = DOMAIN Synced.live
  <2>1. \A flag \in BOOLEAN : DOMAIN Stepping(Synced, {h}, flag).live = DOMAIN Synced.live
    BY <1>3, SteppingIs
  <2> QED BY <2>1, Zenon
<1> HIDE DEF s
<1>6. table'.seq = s.seq /\ \A g \in DOMAIN s.live : table'.live[g].thread = s.live[g].thread
  <2>1. "none" \in Endings BY DEF Endings
  <2>2. table' = Ending(s, {h}, "none") BY <1>1 DEF s
  <2>3. Ending(s, {h}, "none").seq = s.seq
        /\ \A g \in DOMAIN s.live : Ending(s, {h}, "none").live[g].thread = s.live[g].thread
    BY <2>1, <1>4, EndingIs
  <2> QED BY <2>2, <2>3
<1>7. "step" \in Labels BY DEF Labels
<1>8. {h} \in SUBSET (DOMAIN Synced.live) OBVIOUS
<1> DEFINE q == Holding("step", Synced, {h})
           r == [q EXCEPT !.halt = threads[Synced.live[h].thread]]
<1>9. q \in CallRecords /\ q.pc = "step" /\ q.todo = {h}
  <2>1. \A p \in Labels, x \in SUBSET (DOMAIN Synced.live) :
          LET d == Holding(p, Synced, x) IN d \in CallRecords /\ d.pc = p /\ d.todo = x
    BY <1>3, HoldingGiven
  <2> QED BY <2>1, <1>7, <1>8, Zenon
<1>10. threads[Synced.live[h].thread] \in Nat
  <2>1. Synced.live[h].thread \in Threads BY <1>3 DEF TableOK, Hits
  <2>2. threads \in [Threads -> 0..MaxHalts] BY MineKnown DEF Snapshots
  <2> QED BY <2>1, <2>2
<1> HIDE DEF q
<1>11. r \in CallRecords /\ r.hits = q.hits /\ r.pc = "step" /\ r.todo = {h}
  BY <1>9, <1>10 DEF CallRecords
<1>12. call' = [call EXCEPT ![c] = r] BY <1>1 DEF q
<1> HIDE DEF r
<1>13. r.hits = Holding("step", Synced, {h}).hits BY <1>11 DEF q
<1>14. \A g \in DOMAIN Synced.live : g \in DOMAIN table'.live =>
         table'.live[g].thread = Synced.live[g].thread
  BY <1>4, <1>5, <1>6
<1>15. Synced.seq = table'.seq BY <1>4, <1>6
<1>16. "step" \in Steppers => \E g \in DOMAIN Synced.live : {h} = {g} OBVIOUS
<1>17. r \in CallRecords /\ r.todo = {h} /\ r.pc = "step" BY <1>11
<1> HIDE <1>1
<1> QED BY <1>3, <1>7, <1>8, <1>12, <1>13, <1>14, <1>15, <1>16, <1>17, CalledWith, Zenon

LEMMA ActsCall ==
  ASSUME Typed, Current, Held, Steps, NEW c \in Calls, Acts(c) PROVE Called(c)
<1>1. Keeps(table, table') /\ TableOK(table') BY ActsTurn DEF Turned
<1>2. CASE ContinueStarts(c) \/ ReportStarts(c) \/ CancelStarts(c) BY <1>2, HoldingCalls
<1>3. CASE StepStarts(c) BY <1>3, StepCall
<1>4. CASE ~ContinueStarts(c) /\ ~StepStarts(c) /\ ~ReportStarts(c) /\ ~CancelStarts(c)
  <2>1. \/ UNCHANGED call /\ call[c].pc \notin Steppers
        \/ Done(c) \/ Finish(c)
        \/ \E pc \in Labels : Goto(c, pc) /\ (pc \in Steppers => call[c].pc \in Steppers)
        \/ call' = [call EXCEPT ![c].news = FALSE]
        \/ \E s \in Sessions, pc \in Labels \ Steppers :
             call' = [call EXCEPT ![c] = [Idle EXCEPT !.pc = pc, !.want = s]]
        \/ \E p \in Nat : call' = [call EXCEPT ![c].pc = "shake", ![c].process = p]
        \/ \E h : call' = [call EXCEPT ![c].todo = @ \ {h}]
    BY <1>4, PlainActions
  <2> QED BY <2>1, <1>1, PlainCalls, Zenon
<1> QED BY <1>2, <1>3, <1>4

-----------------------------------------------------------------------------
(* The calls together, and the news of hits.                               *)

\* A call that goes on stepping keeps its hit.
LEMMA StepsOn ==
  ASSUME Typed, NEW c \in Calls, Acts(c), call[c].pc \in Steppers, call'[c].pc \in Steppers
  PROVE  call'[c].hits = call[c].hits
<1>0. call \in [Calls -> CallRecords] BY DEF Typed
<1>1. StepAnswered(c) \/ StepLooks(c) \/ StepStops(c) \/ StepLeaves(c) \/ CutShort(c)
  <2>1. call[c].pc = "step" \/ call[c].pc = "stepping" BY DEF Steppers
  <2> QED
    BY <2>1 DEF Acts, Returns, Look, ContinueStarts, ContinueSends, ContinueEnds, StepStarts,
       EvaluateRefused, Evaluates, ReportStarts, ReportEnds, EvaluationEnds, CancelStarts,
       CancelRetired, CancelNothing, CancelEnds, CancelFails, LaunchRuns, LaunchRefused,
       LaunchStarts, TeardownEnds, Terminate, TeardownStarts, Spawns, Shakes, Launched,
       LaunchFails, Reaps, Enters, At
<1>2. \/ Goto(c, "stepping") \/ call' = [call EXCEPT ![c].news = FALSE]
      \/ Done(c) \/ Finish(c)
  BY <1>1, Zenon DEF StepAnswered, StepLooks, StepStops, StepLeaves, CutShort
<1>3. CASE Goto(c, "stepping") \/ call' = [call EXCEPT ![c].news = FALSE]
  BY <1>0, <1>3 DEF Goto, CallRecords
<1>4. CASE Done(c) \/ Finish(c)
  <2>1. call'[c].pc = "returning" \/ call'[c].pc = "idle" BY <1>0, <1>4 DEF Done, Finish, Idle
  <2> QED BY <2>1 DEF Steppers
<1> QED BY <1>2, <1>3, <1>4

\* The calls stay in order when one of them takes a step.
LEMMA ActsHeld ==
  ASSUME Typed, Current, Held, Steps, NEW c \in Calls, Acts(c)
  PROVE  /\ Held' /\ Steps' /\ call' \in [Calls -> CallRecords]
         /\ \A d \in Calls : DOMAIN call'[d].hits \subseteq 1..table'.seq
                             /\ call'[d].todo \subseteq DOMAIN call'[d].hits
<1>0. call \in [Calls -> CallRecords]
      /\ \A d \in Calls : Mine(d) \subseteq 1..table.seq /\ call[d].todo \subseteq Mine(d)
  BY DEF Typed
<1>1. Turned(c) BY ActsTurn
<1>2. Called(c) BY ActsCall
<1>3. Keeps(table, table') /\ TableOK(table') /\ table.seq \in Nat
  BY <1>1, MineKnown DEF Turned
<1>4. table.seq <= table'.seq /\ table'.seq \in Nat BY <1>3 DEF Keeps, TableOK
<1>5. \A i \in 1..table.seq : i \in 1..table'.seq BY <1>3, <1>4
<1>6. \A d \in Calls \ {c} : call'[d] = call[d] BY <1>0, <1>2 DEF Called
<1>7. call' \in [Calls -> CallRecords] BY <1>0, <1>2 DEF Called
<1>8. ASSUME NEW d \in Calls
      PROVE  DOMAIN call'[d].hits \subseteq 1..table'.seq
             /\ call'[d].todo \subseteq DOMAIN call'[d].hits
  <2>1. CASE d = c BY <2>1, <1>2 DEF Called
  <2>2. CASE d # c BY <2>2, <1>0, <1>5, <1>6 DEF Mine
  <2> QED BY <2>1, <2>2
<1>9. Held'
  <2> SUFFICES ASSUME NEW d \in Calls, NEW h \in DOMAIN call'[d].hits, h \in Live'
               PROVE  call'[d].hits[h] = table'.live[h].thread
    BY DEF Held, Mine
  <2>1. CASE d = c BY <2>1, <1>2 DEF Called
  <2>2. CASE d # c
    <3>1. call'[d] = call[d] BY <2>2, <1>6
    <3>2. h \in Mine(d) \cap DOMAIN table'.live BY <3>1 DEF Mine, Live
    <3> QED BY <3>1, <3>2, <1>3, HeldOn
  <2> QED BY <2>1, <2>2
<1>10. \A d \in Calls : call'[d].pc \in Steppers =>
         \E h \in 1..table'.seq : DOMAIN call'[d].hits = {h}
  <2> SUFFICES ASSUME NEW d \in Calls, call'[d].pc \in Steppers
               PROVE  \E h \in 1..table'.seq : DOMAIN call'[d].hits = {h}
    OBVIOUS
  <2>1. CASE d = c BY <2>1, <1>2 DEF Called
  <2>2. CASE d # c
    <3>1. PICK h \in HitIds : Mine(d) = {h} BY <2>2, <1>6 DEF Steps, Steppers
    <3> QED BY <3>1, <2>2, <1>5, <1>6 DEF Mine, HitIds
  <2> QED BY <2>1, <2>2
<1>11. \A h \in Live' : h \notin cut' /\ table'.live[h].stepping =>
         \E d \in Calls : call'[d].pc \in Steppers /\ h \in DOMAIN call'[d].hits
  <2> SUFFICES ASSUME NEW h \in Live', h \notin cut', table'.live[h].stepping
               PROVE  \E d \in Calls : call'[d].pc \in Steppers /\ h \in DOMAIN call'[d].hits
    OBVIOUS
  <2>1. CASE call'[c].pc = "step" /\ h \in DOMAIN call'[c].hits BY <2>1 DEF Steppers
  <2>2. CASE h \in Live /\ table.live[h].stepping
    <3>1. h \notin cut BY <1>1 DEF Turned
    <3>2. PICK d \in Calls : call[d].pc \in Steppers /\ h \in Mine(d)
      BY <2>2, <3>1 DEF Steps, Steppers
    <3>3. CASE d # c BY <3>2, <3>3, <1>6 DEF Mine
    <3>4. CASE d = c
      <4>1. call'[c].pc \in Steppers BY <1>1, <3>2, <3>4 DEF Turned
      <4>2. call'[c].hits = call[c].hits BY <3>2, <3>4, <4>1, StepsOn
      <4> QED BY <3>2, <3>4, <4>1, <4>2 DEF Mine
    <3> QED BY <3>3, <3>4
  <2> QED BY <2>1, <2>2, <1>1 DEF Turned
<1>12. Steps' BY <1>10, <1>11 DEF Steps, Steppers, Mine, HitIds
<1> QED BY <1>7, <1>8, <1>9, <1>12

\* What C's step announces and names.
Telling(c) ==
  /\ told \subseteq told'
  /\ \A h \in Announced(table) \cup (table.seq + 1 .. table'.seq) :
       \/ h \in told' \cup Announced(table')
       \/ call'[c].pc = "report" /\ h \in DOMAIN call'[c].hits
  /\ call[c].pc = "report" => Mine(c) \subseteq told'

LEMMA TellingTells ==
  ASSUME Typed, EveryHitIsTold, NEW c \in Calls, Called(c), Telling(c), TableOK(table')
  PROVE  EveryHitIsTold'
<1>0. call \in [Calls -> CallRecords] BY DEF Typed
<1>1. \A d \in Calls \ {c} : call'[d] = call[d] BY <1>0 DEF Called
<1>2. table.seq \in Nat /\ table'.seq \in Nat BY MineKnown DEF TableOK
<1> SUFFICES ASSUME NEW h \in 1..table'.seq
             PROVE  \/ h \in told' \cup Announced(table')
                    \/ \E d \in Calls : call'[d].pc = "report" /\ h \in DOMAIN call'[d].hits
  BY DEF EveryHitIsTold, HitIds, Mine, At, Announced
<1>3. CASE h \in table.seq + 1 .. table'.seq BY <1>3 DEF Telling
<1>4. CASE h \in 1..table.seq
  <2>1. \/ h \in told \cup Announced(table)
        \/ \E d \in Calls : At(d, "report") /\ h \in Mine(d)
    BY <1>4 DEF EveryHitIsTold, HitIds
  <2>2. CASE h \in told \cup Announced(table) BY <2>2 DEF Telling
  <2>3. CASE \E d \in Calls : At(d, "report") /\ h \in Mine(d)
    <3>1. PICK d \in Calls : At(d, "report") /\ h \in Mine(d) BY <2>3
    <3>2. CASE d = c BY <3>1, <3>2 DEF Telling, At
    <3>3. CASE d # c BY <3>1, <3>3, <1>1 DEF At, Mine
    <3> QED BY <3>2, <3>3
  <2> QED BY <2>1, <2>2, <2>3
<1> QED BY <1>2, <1>3, <1>4

\* Tables that announce at least what another one does.
LEMMA TellsOn ==
  ASSUME Typed, NEW c \in Calls, NEW tbl, TableOK(tbl), Announces(table, tbl), table.seq <= tbl.seq,
         table'.seq = tbl.seq, told \subseteq told', call[c].pc # "report",
         \A h \in Announced(tbl) : \/ h \in told' \cup Announced(table')
                                   \/ call'[c].pc = "report" /\ h \in DOMAIN call'[c].hits
  PROVE  Telling(c)
BY DEF Telling, Announces

LEMMA SyncingTells ==
  ASSUME Typed, Current, NEW c \in Calls,
         \/ ContinueStarts(c) \/ ContinueEnds(c) \/ EvaluateRefused(c) \/ Evaluates(c)
         \/ ReportStarts(c) \/ CancelStarts(c) \/ CancelEnds(c)
         \/ \E s \in Sessions : LaunchRefused(c, s)
  PROVE  Telling(c)
<1>1. Folds(table, Synced) BY SyncedIs
<1>2. TableOK(Synced) /\ table.seq <= Synced.seq /\ Announces(table, Synced)
  BY <1>1 DEF Folds, Keeps
<1>3. told \subseteq told'
  BY Zenon DEF ContinueStarts, ContinueEnds, EvaluateRefused, Evaluates, ReportStarts,
     CancelStarts, CancelEnds, LaunchRefused, histVars
<1>4. call[c].pc # "report"
  BY MineKnown DEF ContinueStarts, ContinueEnds, EvaluateRefused, Evaluates, ReportStarts,
     CancelStarts, CancelEnds, LaunchRefused, Enters, At
<1>5. \/ table' = Synced
      \/ table' = Ending(Synced, Mine(c), "none")
      \/ table' = Ending(Synced, DOMAIN Synced.live, "cancelled")
      \/ /\ table' = Consumed(Synced, DOMAIN Synced.live)
         /\ \/ told' = told \cup DOMAIN Synced.live
            \/ call' = [call EXCEPT ![c] = Holding("report", Synced, DOMAIN Synced.live)]
  BY Zenon DEF ContinueStarts, ContinueEnds, EvaluateRefused, Evaluates, ReportStarts,
     CancelStarts, CancelEnds, LaunchRefused, Becomes
<1> HIDE DEF Synced
<1>6. CASE table' = Synced
  <2>1. Announced(table') = Announced(Synced) BY <1>6 DEF Announced
  <2> QED BY <2>1, <1>2, <1>3, <1>4, <1>6, TellsOn
<1>7. ASSUME NEW hits, NEW ending \in Endings, table' = Ending(Synced, hits, ending)
      PROVE  Telling(c)
  <2>1. table'.seq = Synced.seq BY <1>2, <1>7, EndingIs
  <2>2. Announced(table') = Announced(Synced)
    <3>1. table'.notices = Synced.notices BY <1>2, <1>7, EndingIs
    <3> QED BY <3>1 DEF Announced
  <2> QED BY <2>1, <2>2, <1>2, <1>3, <1>4, TellsOn
<1>8. CASE table' = Consumed(Synced, DOMAIN Synced.live)
  <2>1. table'.seq = Synced.seq /\ Announced(Synced) \subseteq Announced(table') \cup DOMAIN Synced.live
    <3>1. /\ Consumed(Synced, DOMAIN Synced.live).seq = Synced.seq
          /\ Announced(Synced) \subseteq
               Announced(Consumed(Synced, DOMAIN Synced.live)) \cup DOMAIN Synced.live
      BY <1>2, ConsumedIs
    <3>2. Announced(table') = Announced(Consumed(Synced, DOMAIN Synced.live))
      BY <1>8 DEF Announced
    <3> QED BY <1>8, <3>1, <3>2
  <2>2. CASE told' = told \cup DOMAIN Synced.live
    BY <2>1, <2>2, <1>2, <1>3, <1>4, TellsOn
  <2>3. CASE call' = [call EXCEPT ![c] = Holding("report", Synced, DOMAIN Synced.live)]
    <3>1. call'[c] = Holding("report", Synced, DOMAIN Synced.live) BY <2>3 DEF Typed
    <3>2. "report" \in Labels BY DEF Labels
    <3>3. call'[c].pc = "report" /\ DOMAIN call'[c].hits = DOMAIN Synced.live
      <4>1. DOMAIN Synced.live \in SUBSET (DOMAIN Synced.live) OBVIOUS
      <4>2. \A p \in Labels, x \in SUBSET (DOMAIN Synced.live) :
              Holding(p, Synced, x).pc = p /\ DOMAIN Holding(p, Synced, x).hits = x
        BY <1>2, HoldingGiven
      <4> QED BY <3>1, <3>2, <4>1, <4>2
    <3> QED BY <3>3, <2>1, <1>2, <1>3, <1>4, TellsOn
  <2> QED
    <3>1. CASE \/ table' = Ending(Synced, Mine(c), "none")
               \/ table' = Ending(Synced, DOMAIN Synced.live, "cancelled")
      BY <3>1, <1>7 DEF Endings
    <3> QED BY <3>1, <2>2, <2>3, <1>5, <1>6
<1>9. "none" \in Endings /\ "cancelled" \in Endings BY DEF Endings
<1> QED BY <1>5, <1>6, <1>7, <1>8, <1>9

LEMMA ReturnTells == ASSUME Typed, Current, NEW c \in Calls, Returns(c) PROVE Telling(c)
<1> DEFINE t == IF process # 0 THEN Synced ELSE table
<1>1. table' = [t EXCEPT !.notices = {}] /\ told' = told \cup Announced(t)
      /\ call[c].pc = "returning"
  BY DEF Returns, At
<1>2. Folds(table, Synced) BY SyncedIs
<1>3. TableOK(t) /\ Announces(table, t) /\ table.seq <= t.seq
  <2>1. CASE process # 0
    <3>1. Folds(table, t) BY <1>2, <2>1
    <3> HIDE DEF t
    <3> QED BY <3>1 DEF Folds, Keeps
  <2>2. CASE process = 0
    <3>1. t = table BY <2>2
    <3> HIDE DEF t
    <3>2. Folds(table, t) BY <3>1, FoldsNothing, MineKnown
    <3> QED BY <3>2 DEF Folds, Keeps
  <2> QED BY <2>1, <2>2
<1> HIDE DEF t
<1>4. table'.seq = t.seq
  <2>1. IsTable(t) BY <1>3 DEF TableOK
  <2> QED BY <1>1, <2>1, NoticesSet
<1> QED BY <1>1, <1>3, <1>4, TellsOn

\* Actions that mint nothing, and take no notice out of the buffer.
LEMMA QuietTells ==
  ASSUME Typed, NEW c \in Calls, table'.seq = table.seq,
         Announced(table) \subseteq Announced(table'), told \subseteq told',
         call[c].pc = "report" => Mine(c) \subseteq told'
  PROVE  Telling(c)
<1>1. table.seq + 1 .. table'.seq = {} BY MineKnown
<1> QED BY <1>1 DEF Telling

LEMMA FoldingTells ==
  ASSUME Typed, Current, Held, Steps, NEW c \in Calls,
         StepStarts(c) \/ StepStops(c) \/ StepLeaves(c) \/ CancelNothing(c)
  PROVE  Telling(c)
<1>0. TableOK(table) /\ UNCHANGED told /\ call[c].pc # "report"
  <2>1. UNCHANGED told BY Zenon DEF StepStarts, StepStops, StepLeaves, CancelNothing, histVars
  <2>2. call[c].pc # "report"
    BY DEF StepStarts, StepStops, StepLeaves, CancelNothing, Enters, At
  <2> QED BY <2>1, <2>2, MineKnown
<1>1. CASE StepStarts(c) \/ StepStops(c)
  <2>1. \/ table' = Stepping(Synced, Mine(c), FALSE)
        \/ \E h : table' = Ending(Stepping(Synced, {h}, TRUE), {h}, "none")
    BY <1>1, Zenon DEF StepStarts, StepStops, Becomes
  <2>2. Folds(table, Synced) BY SyncedIs
  <2> HIDE DEF Synced
  <2>3. TableOK(Synced) /\ table.seq <= Synced.seq /\ Announces(table, Synced)
    BY <2>2 DEF Folds, Keeps
  <2>4. \A hits : \A flag \in BOOLEAN :
          /\ TableOK(Stepping(Synced, hits, flag)) /\ Stepping(Synced, hits, flag).seq = Synced.seq
          /\ Stepping(Synced, hits, flag).notices = Synced.notices
    BY <2>3, SteppingIs
  <2>5. ASSUME NEW hits, NEW s, TableOK(s), s.seq = Synced.seq, s.notices = Synced.notices,
               table' = s \/ table' = Ending(s, hits, "none")
        PROVE  Telling(c)
    <3>1. table'.seq = Synced.seq /\ table'.notices = Synced.notices
      <4>1. "none" \in Endings BY DEF Endings
      <4>2. CASE table' = s BY <2>5, <4>2
      <4>3. CASE table' = Ending(s, hits, "none")
        <5>1. Ending(s, hits, "none").seq = s.seq /\ Ending(s, hits, "none").notices = s.notices
          BY <2>5, <4>1, EndingIs
        <5> QED BY <2>5, <4>3, <5>1
      <4> QED BY <2>5, <4>2, <4>3
    <3>2. Announced(table') = Announced(Synced) BY <3>1 DEF Announced
    <3> QED BY <3>1, <3>2, <2>3, <1>0, TellsOn
  <2>6. CASE table' = Stepping(Synced, Mine(c), FALSE)
    <3>1. FALSE \in BOOLEAN OBVIOUS
    <3> DEFINE s == Stepping(Synced, Mine(c), FALSE)
    <3>2. TableOK(s) /\ s.seq = Synced.seq /\ s.notices = Synced.notices
      BY <3>1, <2>4, Zenon
    <3>3. table' = s BY <2>6
    <3> HIDE DEF s
    <3> QED BY <3>2, <3>3, <2>5
  <2>7. CASE \E h : table' = Ending(Stepping(Synced, {h}, TRUE), {h}, "none")
    <3>0. TRUE \in BOOLEAN OBVIOUS
    <3>1. PICK h : table' = Ending(Stepping(Synced, {h}, TRUE), {h}, "none") BY <2>7
    <3> DEFINE s == Stepping(Synced, {h}, TRUE)
    <3>2. TableOK(s) /\ s.seq = Synced.seq /\ s.notices = Synced.notices
      BY <3>0, <2>4, Zenon
    <3>3. table' = Ending(s, {h}, "none") BY <3>1
    <3> HIDE DEF s
    <3> QED BY <3>2, <3>3, <2>5
  <2> QED BY <2>1, <2>6, <2>7
<1>2. ASSUME NEW a, NEW hits, TableOK(a), a.seq = table.seq, Announced(a) = Announced(table),
             table' = Folded(a) \/ table' = LeftByMap(Folded(a), hits)
      PROVE  Telling(c)
  <2>0. backlog \in Seq(Snapshots) BY DEF Typed
  <2> DEFINE b == Folded(a)
  <2>1. Folds(a, b) BY <1>2, <2>0, FoldedIs
  <2>2. table' = b \/ table' = LeftByMap(b, hits) BY <1>2
  <2> HIDE DEF b
  <2>3. TableOK(b) /\ a.seq <= b.seq /\ Announces(a, b) BY <2>1 DEF Folds, Keeps
  <2>4. Announces(table, b) /\ table.seq <= b.seq BY <2>3, <1>2 DEF Announces
  <2>5. table'.seq = b.seq /\ Announced(table') = Announced(b)
    <3>1. CASE table' = b BY <3>1 DEF Announced
    <3>2. CASE table' = LeftByMap(b, hits)
      <4>1. table'.seq = b.seq /\ table'.notices = b.notices BY <2>3, <3>2, LeftByMapIs
      <4> QED BY <4>1 DEF Announced
    <3> QED BY <2>2, <3>1, <3>2
  <2> QED BY <2>3, <2>4, <2>5, <1>0, TellsOn
<1>3. CASE CancelNothing(c)
  <2> DEFINE a == Withdrawn(table, Mine(c))
  <2>1. table' = Folded(a) BY <1>3, Zenon DEF CancelNothing, Becomes
  <2>2. TableOK(a) /\ a.seq = table.seq /\ a.notices = table.notices BY <1>0, WithdrawnIs
  <2> HIDE DEF a
  <2>3. Announced(a) = Announced(table) BY <2>2 DEF Announced
  <2> QED BY <2>1, <2>2, <2>3, <1>2
<1>4. CASE StepLeaves(c)
  <2> DEFINE s == Stepping(table, Mine(c), FALSE)
             a == Ending(s, Mine(c), "step left")
  <2>1. table' = LeftByMap(Folded(a), Mine(c)) BY <1>4, Zenon DEF StepLeaves, Becomes
  <2>2. TableOK(s) /\ s.seq = table.seq /\ s.notices = table.notices
    <3>1. FALSE \in BOOLEAN OBVIOUS
    <3>2. \A flag \in BOOLEAN :
            /\ TableOK(Stepping(table, Mine(c), flag))
            /\ Stepping(table, Mine(c), flag).seq = table.seq
            /\ Stepping(table, Mine(c), flag).notices = table.notices
      BY <1>0, SteppingIs
    <3> QED BY <3>1, <3>2, Zenon
  <2> HIDE DEF s
  <2>3. TableOK(a) /\ a.seq = s.seq /\ a.notices = s.notices
    <3>1. "step left" \in Endings BY DEF Endings
    <3> QED BY <3>1, <2>2, EndingIs
  <2> HIDE DEF a
  <2>4. Announced(a) = Announced(table) BY <2>2, <2>3 DEF Announced
  <2> QED BY <2>1, <2>2, <2>3, <2>4, <1>2
<1> QED BY <1>1, <1>3, <1>4

LEMMA StillTells ==
  ASSUME Typed, NEW c \in Calls,
         \/ Look(c) \/ ReportEnds(c) \/ EvaluationEnds(c) \/ CancelRetired(c)
         \/ \E s \in Sessions : LaunchRuns(c, s)
         \/ Terminate(c) \/ TeardownStarts(c) \/ Spawns(c) \/ Shakes(c) \/ Launched(c)
         \/ LaunchFails(c) \/ StepLooks(c)
  PROVE  Telling(c)
<1>1. UNCHANGED table
  BY Zenon DEF Look, ReportEnds, EvaluationEnds, CancelRetired, LaunchRuns, Terminate,
     TeardownStarts, Spawns, Shakes, Launched, LaunchFails, StepLooks
<1>2. told' = told \/ told' = told \cup Mine(c)
  BY Zenon DEF Look, ReportEnds, EvaluationEnds, CancelRetired, LaunchRuns, Terminate,
     TeardownStarts, Spawns, Shakes, Launched, LaunchFails, StepLooks, histVars
<1>3. call[c].pc = "report" => Mine(c) \subseteq told'
  BY DEF Look, ReportEnds, EvaluationEnds, CancelRetired, LaunchRuns, Terminate,
     TeardownStarts, Spawns, Shakes, Launched, LaunchFails, StepLooks, Enters, At
<1>4. Announced(table') = Announced(table) BY <1>1 DEF Announced
<1> QED BY <1>1, <1>2, <1>3, <1>4, QuietTells

LEMMA FlagTells ==
  ASSUME Typed, NEW c \in Calls,
         \/ ContinueSends(c) \/ StepAnswered(c) \/ CancelFails(c) \/ CutShort(c)
         \/ TeardownEnds(c) \/ Reaps(c)
  PROVE  Telling(c)
<1>0. TableOK(table) BY MineKnown
<1>1. \/ UNCHANGED table \/ table' = Ending(table, {Min(call[c].todo)}, "continued")
      \/ table' = Stepping(table, Mine(c), FALSE) \/ table' = Withdrawn(table, Mine(c))
      \/ table' = TornDown(table)
  BY Zenon DEF ContinueSends, StepAnswered, CancelFails, CutShort, TeardownEnds, Reaps, Clears
<1>2. told' = told \/ told' = told \cup Mine(c)
  BY Zenon DEF ContinueSends, StepAnswered, CancelFails, CutShort, TeardownEnds, Reaps, histVars
<1>3. call[c].pc = "report" => Mine(c) \subseteq told'
  BY DEF ContinueSends, StepAnswered, CancelFails, CutShort, TeardownEnds, Reaps, At
<1>4. table'.seq = table.seq /\ Announced(table) \subseteq Announced(table')
  <2>1. CASE UNCHANGED table BY <2>1 DEF Announced
  <2>2. CASE table' = Ending(table, {Min(call[c].todo)}, "continued")
    <3>1. "continued" \in Endings BY DEF Endings
    <3>2. \A e \in Endings : /\ Ending(table, {Min(call[c].todo)}, e).seq = table.seq
                             /\ Ending(table, {Min(call[c].todo)}, e).notices = table.notices
      BY <1>0, EndingIs
    <3> QED BY <2>2, <3>1, <3>2 DEF Announced
  <2>3. CASE table' = Stepping(table, Mine(c), FALSE)
    <3>1. FALSE \in BOOLEAN OBVIOUS
    <3>2. \A flag \in BOOLEAN : /\ Stepping(table, Mine(c), flag).seq = table.seq
                                /\ Stepping(table, Mine(c), flag).notices = table.notices
      BY <1>0, SteppingIs
    <3>3. table'.seq = table.seq /\ table'.notices = table.notices BY <2>3, <3>1, <3>2, Zenon
    <3> QED BY <3>3 DEF Announced
  <2>4. CASE table' = Withdrawn(table, Mine(c))
    <3>1. /\ Withdrawn(table, Mine(c)).seq = table.seq
          /\ Withdrawn(table, Mine(c)).notices = table.notices
      BY <1>0, WithdrawnIs
    <3> QED BY <2>4, <3>1 DEF Announced
  <2>5. CASE table' = TornDown(table)
    <3>1. /\ TornDown(table).seq = table.seq
          /\ Announced(table) \subseteq Announced(TornDown(table))
      BY <1>0, TornDownIs
    <3>2. Announced(table') = Announced(TornDown(table)) BY <2>5 DEF Announced
    <3> QED BY <2>5, <3>1, <3>2
  <2> QED BY <1>1, <2>1, <2>2, <2>3, <2>4, <2>5
<1> QED BY <1>2, <1>3, <1>4, QuietTells

LEMMA LaunchTells ==
  ASSUME Typed, Current, NEW c \in Calls, NEW s \in Sessions, LaunchStarts(c, s) PROVE Telling(c)
<1>1. /\ table' = Synced \/ UNCHANGED table
      /\ UNCHANGED told /\ call[c].pc = "idle"
  <2>1. /\ IF Sound THEN table' = Synced ELSE UNCHANGED table
        /\ UNCHANGED told /\ call[c].pc = "idle"
    BY Zenon DEF LaunchStarts, Becomes, histVars, Enters, At
  <2> QED BY <2>1
<1>2. CASE UNCHANGED table
  <2>1. Announced(table') = Announced(table) BY <1>2 DEF Announced
  <2> QED BY <1>1, <1>2, <2>1, QuietTells
<1>3. CASE table' = Synced
  <2>1. Folds(table, Synced) BY SyncedIs
  <2> HIDE DEF Synced
  <2>2. TableOK(Synced) /\ table.seq <= Synced.seq /\ Announces(table, Synced)
    BY <2>1 DEF Folds, Keeps
  <2>3. Announced(table') = Announced(Synced) BY <1>3 DEF Announced
  <2> QED BY <1>1, <1>3, <2>2, <2>3, TellsOn
<1> QED BY <1>1, <1>2, <1>3

\* No step of a call loses a hit's news.
LEMMA ActsTell ==
  ASSUME Typed, Current, Held, Steps, EveryHitIsTold, NEW c \in Calls, Acts(c)
  PROVE  EveryHitIsTold'
<1>1. Telling(c)
  <2>1. CASE \/ Look(c) \/ ReportEnds(c) \/ EvaluationEnds(c) \/ CancelRetired(c)
             \/ \E s \in Sessions : LaunchRuns(c, s)
             \/ Terminate(c) \/ TeardownStarts(c) \/ Spawns(c) \/ Shakes(c) \/ Launched(c)
             \/ LaunchFails(c) \/ StepLooks(c)
    BY <2>1, StillTells
  <2>2. CASE \/ ContinueStarts(c) \/ ContinueEnds(c) \/ EvaluateRefused(c) \/ Evaluates(c)
             \/ ReportStarts(c) \/ CancelStarts(c) \/ CancelEnds(c)
             \/ \E s \in Sessions : LaunchRefused(c, s)
    BY <2>2, SyncingTells
  <2>3. CASE \/ ContinueSends(c) \/ StepAnswered(c) \/ CancelFails(c) \/ CutShort(c)
             \/ TeardownEnds(c) \/ Reaps(c)
    BY <2>3, FlagTells
  <2>4. CASE \E s \in Sessions : LaunchStarts(c, s) BY <2>4, LaunchTells
  <2>5. CASE Returns(c) BY <2>5, ReturnTells
  <2>6. CASE StepStarts(c) \/ StepStops(c) \/ StepLeaves(c) \/ CancelNothing(c)
    BY <2>6, FoldingTells
  <2> QED BY <2>1, <2>2, <2>3, <2>4, <2>5, <2>6, Zenon DEF Acts
<1>2. Called(c) BY ActsCall
<1>3. TableOK(table') BY ActsTurn DEF Turned
<1> QED BY <1>1, <1>2, <1>3, TellingTells

-----------------------------------------------------------------------------
(* The lock and the process.                                               *)

LEMMA QuietOn ==
  ASSUME Quiet, backlog = <<>> => Live' \subseteq Live, backlog' \in {backlog, <<>>},
         UNCHANGED <<wire, threads, halted>>
  PROVE  Quiet'
BY DEF Quiet

\* A step that leaves the prover and its process alone: what it does to the
\* lock and to where the call is.
LEMMA SessionMoves ==
  ASSUME Typed, Session, NEW c \in Calls, Called(c), backlog = <<>> => Live' \subseteq Live,
         backlog' \in {backlog, <<>>}, UNCHANGED <<process, living, shaken, threads, wire, halted>>,
         \/ lock' = lock /\ (call[c].pc \in Locking <=> call'[c].pc \in Locking)
         \/ lock = Nobody /\ lock' = c /\ call'[c].pc \in Locking
         \/ call[c].pc \in Locking /\ lock' = Nobody /\ call'[c].pc \notin Locking,
         call[c].pc \notin {"shake", "reap"},
         call'[c].pc \in Launching => call'[c].pc = "spawn" /\ process = 0
  PROVE  Session'
<1>0. call \in [Calls -> CallRecords] /\ Nobody \notin Calls BY SessionAssumption DEF Typed
<1>1. \A d \in Calls \ {c} : call'[d] = call[d] BY <1>0 DEF Called
<1>2. \A d \in Calls : call'[d].pc \in Locking <=> lock' = d
  <2> SUFFICES ASSUME NEW d \in Calls PROVE call'[d].pc \in Locking <=> lock' = d OBVIOUS
  <2>1. \A e \in Calls : call[e].pc \in Locking <=> lock = e BY DEF Session
  <2>2. CASE d = c BY <2>1, <2>2, <1>0
  <2>3. CASE d # c BY <2>1, <2>3, <1>0, <1>1
  <2> QED BY <2>2, <2>3
<1>3. living' \subseteq {process'} BY DEF Session
<1>4. process' = 0 => Quiet' BY QuietOn DEF Session
<1>5. process' # 0 => shaken' \/ \E d \in Calls : call'[d].pc \in {"shake", "reap"}
  <2> SUFFICES ASSUME process # 0, ~shaken
               PROVE  \E d \in Calls : call'[d].pc \in {"shake", "reap"}
    OBVIOUS
  <2>1. PICK d \in Calls : call[d].pc \in {"shake", "reap"} BY DEF Session
  <2> QED BY <2>1, <1>1
<1>6. ASSUME NEW d \in Calls
      PROVE  /\ call'[d].pc \in Launching => Quiet'
             /\ call'[d].pc = "spawn" => process' = 0
             /\ call'[d].pc = "reap" => living' = {}
  <2>1. CASE d = c BY <2>1, <1>4 DEF Launching
  <2>2. CASE d # c
    <3>1. call'[d].pc = call[d].pc BY <2>2, <1>1
    <3>2. /\ call[d].pc \in Launching => Quiet
          /\ call[d].pc = "spawn" => process = 0
          /\ call[d].pc = "reap" => living = {}
      BY DEF Session
    <3> QED BY <3>1, <3>2, QuietOn
  <2> QED BY <2>1, <2>2
<1> QED BY <1>2, <1>3, <1>4, <1>5, <1>6 DEF Session

\* Where a call is after the changes that actions make of it.
LEMMA WhereDone ==
  ASSUME Typed, NEW c \in Calls
  PROVE  /\ Done(c) => call'[c].pc = "returning"
         /\ Finish(c) => call'[c].pc = "idle"
         /\ \A pc : Goto(c, pc) => call'[c].pc = pc
<1>0. call \in [Calls -> CallRecords] BY DEF Typed
<1>1. Idle.pc = "idle" BY DEF Idle
<1>2. [Idle EXCEPT !.pc = "returning"].pc = "returning" BY DEF Idle
<1>3. Done(c) => call'[c].pc = "returning" BY <1>0, <1>2 DEF Done
<1>4. Finish(c) => call'[c].pc = "idle" BY <1>0, <1>1 DEF Finish
<1>5. ASSUME NEW pc, Goto(c, pc) PROVE call'[c].pc = pc BY <1>0, <1>5 DEF Goto, CallRecords
<1> QED BY <1>3, <1>4, <1>5

LEMMA WhereHolding ==
  ASSUME Typed, Current, NEW c \in Calls, NEW pc \in Labels, NEW hits \in SUBSET (DOMAIN Synced.live),
         call' = [call EXCEPT ![c] = Holding(pc, Synced, hits)]
  PROVE  call'[c].pc = pc
<1>1. call'[c] = Holding(pc, Synced, hits) BY DEF Typed
<1>2. TableOK(Synced) BY SyncedIs DEF Folds
<1> HIDE DEF Synced
<1>3. \A p \in Labels, x \in SUBSET (DOMAIN Synced.live) : Holding(p, Synced, x).pc = p
  BY <1>2, HoldingGiven
<1> QED BY <1>1, <1>3

\* A tool's step: neither it nor the prover moves.
Tool(c) ==
  /\ UNCHANGED <<process, living, shaken, threads, wire, halted, lock>>
  /\ backlog' \in {backlog, <<>>}
  /\ call[c].pc \notin Locking /\ call'[c].pc \notin Locking

LEMMA LookTool ==
  ASSUME Typed, NEW c \in Calls,
         \/ Look(c) \/ Returns(c) \/ ContinueSends(c) \/ ContinueEnds(c)
         \/ StepAnswered(c) \/ StepLooks(c) \/ StepStops(c) \/ StepLeaves(c)
         \/ EvaluateRefused(c) \/ Evaluates(c) \/ ReportEnds(c) \/ EvaluationEnds(c)
         \/ \E s \in Sessions : LaunchRuns(c, s) \/ LaunchRefused(c, s)
         \/ Terminate(c)
  PROVE  Tool(c)
<1>0. call \in [Calls -> CallRecords] BY DEF Typed
<1>1. UNCHANGED <<process, living, shaken, threads, wire, halted, lock>>
  BY Zenon DEF Look, Returns, ContinueSends, ContinueEnds, StepAnswered, StepLooks, StepStops,
     StepLeaves, EvaluateRefused, Evaluates, ReportEnds, EvaluationEnds, LaunchRuns,
     LaunchRefused, Terminate, proverVars, clientVars
<1>2. backlog' \in {backlog, <<>>}
  <2>1. backlog' = backlog \/ backlog' = <<>>
    BY DEF Look, Returns, ContinueSends, ContinueEnds, StepAnswered, StepLooks, StepStops,
       StepLeaves, EvaluateRefused, Evaluates, ReportEnds, EvaluationEnds, LaunchRuns,
       LaunchRefused, Terminate, proverVars, clientVars, Becomes
  <2> QED BY <2>1
<1>3. call[c].pc \in {"idle", "returning", "continue", "step", "stepping", "report", "evaluating"}
  BY DEF Look, Returns, ContinueSends, ContinueEnds, StepAnswered, StepLooks, StepStops,
     StepLeaves, EvaluateRefused, Evaluates, ReportEnds, EvaluationEnds, LaunchRuns,
     LaunchRefused, Terminate, Enters, At
<1>4. \/ Done(c) \/ Finish(c)
      \/ Goto(c, "stepping") \/ Goto(c, "evaluating") \/ Goto(c, "doomed")
      \/ UNCHANGED call
      \/ call' = [call EXCEPT ![c].news = FALSE]
      \/ call' = [call EXCEPT ![c].todo = @ \ {Min(call[c].todo)}]
  BY Zenon DEF Look, Returns, ContinueSends, ContinueEnds, StepAnswered, StepLooks, StepStops,
     StepLeaves, EvaluateRefused, Evaluates, ReportEnds, EvaluationEnds, LaunchRuns,
     LaunchRefused, Terminate
<1>5. \/ call'[c].pc \in {"returning", "idle", "stepping", "evaluating", "doomed"}
      \/ call'[c].pc = call[c].pc
  <2>1. CASE Done(c) \/ Finish(c) BY <2>1, WhereDone
  <2>2. CASE Goto(c, "stepping") \/ Goto(c, "evaluating") \/ Goto(c, "doomed")
    BY <2>2, <1>0 DEF Goto, CallRecords
  <2>3. CASE UNCHANGED call BY <2>3
  <2>4. CASE call' = [call EXCEPT ![c].news = FALSE] BY <2>4, <1>0 DEF CallRecords
  <2>5. CASE call' = [call EXCEPT ![c].todo = @ \ {Min(call[c].todo)}]
    <3> DEFINE h == Min(call[c].todo)
    <3>1. call' = [call EXCEPT ![c].todo = @ \ {h}] BY <2>5
    <3> HIDE DEF h
    <3> QED BY <3>1, <1>0 DEF CallRecords
  <2> QED BY <1>4, <2>1, <2>2, <2>3, <2>4, <2>5
<1> QED BY <1>1, <1>2, <1>3, <1>5 DEF Tool, Locking, Launching

LEMMA StartTool ==
  ASSUME Typed, Current, NEW c \in Calls, ContinueStarts(c) \/ StepStarts(c) \/ ReportStarts(c)
  PROVE  Tool(c)
<1>0. call \in [Calls -> CallRecords] BY DEF Typed
<1>1. UNCHANGED <<process, living, shaken, threads, wire, halted, lock>> /\ backlog' = <<>>
  BY Zenon DEF ContinueStarts, StepStarts, ReportStarts, proverVars, Becomes
<1>2. call[c].pc \in {"idle", "evaluating"}
  BY DEF ContinueStarts, StepStarts, ReportStarts, Enters, At
<1>3. call'[c].pc \in {"continue", "step", "report"}
  <2>0. {"continue", "step", "report"} \subseteq Labels BY DEF Labels
  <2>1. CASE ContinueStarts(c)
    <3>1. PICK hits \in {DOMAIN Synced.live} \cup {{h} : h \in DOMAIN Synced.live} :
            call' = [call EXCEPT ![c] = Holding("continue", Synced, hits)]
      BY <2>1, Zenon DEF ContinueStarts
    <3>2. hits \in SUBSET (DOMAIN Synced.live)
      <4> HIDE DEF Synced
      <4> QED OBVIOUS
    <3>3. call'[c].pc = "continue" BY <2>0, <3>1, <3>2, WhereHolding
    <3> QED BY <3>3
  <2>2. CASE ReportStarts(c)
    <3>1. call' = [call EXCEPT ![c] = Holding("report", Synced, DOMAIN Synced.live)]
      BY <2>2, Zenon DEF ReportStarts
    <3>2. call'[c].pc = "report" BY <2>0, <3>1, WhereHolding
    <3> QED BY <3>2
  <2>3. CASE StepStarts(c)
    <3>1. PICK h \in DOMAIN Synced.live :
            call' = [call EXCEPT ![c] = [Holding("step", Synced, {h}) EXCEPT
                                           !.halt = threads[Synced.live[h].thread]]]
      BY <2>3, Zenon DEF StepStarts
    <3>2. TableOK(Synced) BY SyncedIs DEF Folds
    <3> HIDE DEF Synced
    <3>3. \A p \in Labels, x \in SUBSET (DOMAIN Synced.live) :
            Holding(p, Synced, x) \in CallRecords /\ Holding(p, Synced, x).pc = p
      BY <3>2, HoldingGiven
    <3> DEFINE q == Holding("step", Synced, {h})
    <3>4. q \in CallRecords /\ q.pc = "step" BY <2>0, <3>3
    <3>5. call' = [call EXCEPT ![c] = [q EXCEPT !.halt = threads[Synced.live[h].thread]]]
      BY <3>1
    <3> HIDE DEF q
    <3>6. call'[c].pc = "step" BY <1>0, <3>4, <3>5 DEF CallRecords
    <3> QED BY <3>6
  <2> QED BY <2>1, <2>2, <2>3
<1> QED BY <1>1, <1>2, <1>3 DEF Tool, Locking, Launching

LEMMA ToolSession ==
  ASSUME Typed, Session, NEW c \in Calls, Called(c), backlog = <<>> => Live' \subseteq Live, Tool(c)
  PROVE  Session'
<1>1. call[c].pc \notin {"shake", "reap"} /\ call'[c].pc \notin Launching
  BY DEF Tool, Locking, Launching
<1>2. lock' = lock /\ (call[c].pc \in Locking <=> call'[c].pc \in Locking) BY DEF Tool
<1>3. UNCHANGED <<process, living, shaken, threads, wire, halted>> /\ backlog' \in {backlog, <<>>}
  BY DEF Tool
<1> QED BY <1>1, <1>2, <1>3, SessionMoves

\* Who holds the lock.
LEMMA Holder ==
  ASSUME Session, NEW c \in Calls, call[c].pc \in Locking
  PROVE  lock = c /\ \A d \in Calls \ {c} : call[d].pc \notin Locking
BY DEF Session

LEMMA LockSession ==
  ASSUME Typed, Current, Session, NEW c \in Calls, Called(c), backlog = <<>> => Live' \subseteq Live,
         \/ CancelStarts(c) \/ CancelRetired(c) \/ CancelNothing(c) \/ CancelEnds(c)
         \/ CancelFails(c) \/ TeardownStarts(c) \/ Launched(c)
         \/ \E s \in Sessions : LaunchStarts(c, s)
  PROVE  Session'
<1>0. call \in [Calls -> CallRecords] BY DEF Typed
<1>1. UNCHANGED <<process, living, shaken, threads, wire, halted>>
  BY Zenon DEF CancelStarts, CancelRetired, CancelNothing, CancelEnds, CancelFails,
     TeardownStarts, Launched, LaunchStarts, proverVars, clientVars
<1>2. backlog' \in {backlog, <<>>}
  <2>1. backlog' = backlog \/ backlog' = <<>>
    <3>1. CASE \E s \in Sessions : LaunchStarts(c, s)
      <4>1. PICK s \in Sessions : LaunchStarts(c, s) BY <3>1
      <4>2. IF Sound THEN backlog' = <<>> ELSE UNCHANGED backlog
        BY <4>1, Zenon DEF LaunchStarts, Becomes
      <4> QED BY <4>2
    <3>2. CASE ~\E s \in Sessions : LaunchStarts(c, s)
      BY <3>2, Zenon DEF CancelStarts, CancelRetired, CancelNothing, CancelEnds, CancelFails,
         TeardownStarts, Launched, clientVars, Becomes
    <3> QED BY <3>1, <3>2
  <2> QED BY <2>1
<1>3. CASE CancelStarts(c)
  <2>1. lock = Nobody /\ lock' = c /\ call[c].pc = "idle"
        /\ call' = [call EXCEPT ![c] = Holding("cancel", Synced, DOMAIN Synced.live)]
    BY <1>3, Zenon DEF CancelStarts, Enters, At
  <2>2. "cancel" \in Labels BY DEF Labels
  <2>3. call'[c].pc = "cancel" BY <2>1, <2>2, WhereHolding
  <2> QED BY <1>1, <1>2, <2>1, <2>3, SessionMoves DEF Locking, Launching
<1>4. CASE TeardownStarts(c)
  <2>1. lock = Nobody /\ lock' = c /\ call[c].pc = "doomed" /\ Goto(c, "closing")
    BY <1>4, Zenon DEF TeardownStarts, At
  <2>2. call'[c].pc = "closing" BY <2>1, WhereDone
  <2> QED BY <1>1, <1>2, <2>1, <2>2, SessionMoves DEF Locking, Launching
<1>5. CASE \E s \in Sessions : LaunchStarts(c, s)
  <2> DEFINE pc == IF process # 0 THEN "closing for launch" ELSE "spawn"
  <2>1. PICK s \in Sessions :
          /\ lock = Nobody /\ lock' = c /\ call[c].pc = "idle"
          /\ call' = [call EXCEPT ![c] = [Idle EXCEPT !.pc = pc, !.want = s]]
    BY <1>5, Zenon DEF LaunchStarts, Enters, At
  <2>2. pc = "closing for launch" \/ (pc = "spawn" /\ process = 0)
    <3>1. CASE process = 0 BY <3>1
    <3>2. CASE process # 0 BY <3>2
    <3> QED BY <3>1, <3>2
  <2>a. pc \in Labels BY DEF Labels
  <2> HIDE DEF pc
  <2> DEFINE r == [Idle EXCEPT !.pc = pc, !.want = s]
  <2>3. r.pc = pc BY <2>a, WantGiven
  <2>4. call'[c].pc = pc BY <1>0, <2>1, <2>3
  <2> QED BY <1>1, <1>2, <2>1, <2>2, <2>4, SessionMoves DEF Locking, Launching
<1>6. CASE CancelRetired(c)
  <2>1. lock' = lock /\ call[c].pc = "cancel" /\ Goto(c, "sweep")
    BY <1>6, Zenon DEF CancelRetired, At
  <2>2. call'[c].pc = "sweep" BY <2>1, WhereDone
  <2> QED BY <1>1, <1>2, <2>1, <2>2, SessionMoves DEF Locking, Launching
<1>7. CASE CancelNothing(c) \/ CancelEnds(c) \/ CancelFails(c) \/ Launched(c)
  <2>1. /\ Free(c) /\ call[c].pc \in {"cancel", "sweep", "probe"}
        /\ Done(c) \/ Goto(c, "doomed")
    BY <1>7, Zenon DEF CancelNothing, CancelEnds, CancelFails, Launched, At
  <2>2. call[c].pc \in Locking /\ call[c].pc \notin {"shake", "reap"}
    BY <2>1 DEF Locking, Launching
  <2>3. lock' = Nobody BY <2>1, <2>2, Holder DEF Free
  <2>4. call'[c].pc \in {"returning", "doomed"} BY <2>1, WhereDone
  <2> QED BY <1>1, <1>2, <2>2, <2>3, <2>4, SessionMoves DEF Locking, Launching
<1> QED BY <1>3, <1>4, <1>5, <1>6, <1>7

LEMMA CutSession ==
  ASSUME Typed, Current, Session, NEW c \in Calls, Called(c), backlog = <<>> => Live' \subseteq Live,
         CutShort(c)
  PROVE  Session'
<1>1. UNCHANGED <<process, living, shaken, threads, wire, halted, backlog>> /\ Finish(c)
  BY Zenon DEF CutShort, proverVars, clientVars
<1>2. call'[c].pc = "idle" BY <1>1, WhereDone
<1>3. \/ call[c].pc \in {"continue", "evaluating", "returning", "doomed", "report", "stepping"}
         /\ UNCHANGED lock
      \/ call[c].pc \in {"cancel", "sweep"} /\ Free(c)
  <2>1. \/ call[c].pc \in {"continue", "evaluating", "returning", "doomed"} /\ UNCHANGED lock
        \/ call[c].pc = "report" /\ UNCHANGED lock
        \/ call[c].pc = "stepping" /\ UNCHANGED lock
        \/ (call[c].pc = "cancel" \/ call[c].pc = "sweep") /\ Free(c)
    BY Zenon DEF CutShort, At
  <2> QED BY <2>1
<1>4. CASE call[c].pc \in {"continue", "evaluating", "returning", "doomed", "report", "stepping"}
           /\ UNCHANGED lock
  BY <1>1, <1>2, <1>4, SessionMoves DEF Locking, Launching
<1>5. CASE call[c].pc \in {"cancel", "sweep"} /\ Free(c)
  <2>1. call[c].pc \in Locking BY <1>5 DEF Locking
  <2>2. lock' = Nobody BY <1>5, <2>1, Holder DEF Free
  <2> QED BY <1>1, <1>2, <1>5, <2>1, <2>2, SessionMoves DEF Locking, Launching
<1> QED BY <1>3, <1>4, <1>5

\* The process itself comes and goes.
LEMMA SpawnSession ==
  ASSUME Typed, Session, NEW c \in Calls, Called(c), Spawns(c)
  PROVE  Session'
<1>0. call \in [Calls -> CallRecords] BY DEF Typed
<1>1. \A d \in Calls \ {c} : call'[d] = call[d] BY <1>0 DEF Called
<1> DEFINE n == spent.starts + 1
<1>2. /\ call[c].pc = "spawn" /\ process' = n /\ living' = living \cup {n}
      /\ call' = [call EXCEPT ![c].pc = "shake", ![c].process = n]
      /\ UNCHANGED <<lock, table, backlog, wire, threads, halted>>
  BY Zenon DEF Spawns, At
<1>3. n # 0
  <2>1. spent.starts \in Nat BY SessionAssumption DEF Typed
  <2> QED BY <2>1
<1> HIDE DEF n
<1>4. call'[c].pc = "shake" BY <1>0, <1>2 DEF CallRecords
<1>5. call[c].pc \in Launching /\ call[c].pc \in Locking BY <1>2 DEF Launching, Locking
<1>6. process = 0 /\ Quiet BY <1>2, <1>5 DEF Session
<1>7. living = {}
  <2>1. living \subseteq {0} /\ living \subseteq 1..MaxStarts BY <1>6 DEF Session, Typed
  <2> QED BY <2>1
<1>8. Quiet' BY <1>2, <1>6 DEF Quiet, Live
<1>9. \A d \in Calls : call'[d].pc \in Locking <=> lock' = d
  <2>1. lock = c /\ \A d \in Calls \ {c} : call[d].pc \notin Locking BY <1>5, Holder
  <2>2. call'[c].pc \in Locking BY <1>4 DEF Locking, Launching
  <2> QED BY <1>1, <1>2, <2>1, <2>2
<1>10. \A d \in Calls : call'[d].pc # "spawn" /\ call'[d].pc # "reap"
  <2>1. \A d \in Calls \ {c} : call[d].pc \notin Locking BY <1>5, Holder
  <2> QED BY <1>1, <1>4, <2>1 DEF Locking, Launching
<1> QED BY <1>2, <1>3, <1>4, <1>7, <1>8, <1>9, <1>10 DEF Session

LEMMA ShakeSession ==
  ASSUME Typed, Session, NEW c \in Calls, Called(c), Shakes(c)
  PROVE  Session'
<1>0. call \in [Calls -> CallRecords] BY DEF Typed
<1>1. \A d \in Calls \ {c} : call'[d] = call[d] BY <1>0 DEF Called
<1>2. /\ call[c].pc = "shake" /\ shaken' = TRUE /\ Goto(c, "probe")
      /\ UNCHANGED <<process, living, lock, table, backlog, wire, threads, halted>>
  BY Zenon DEF Shakes, At, proverVars
<1>3. call'[c].pc = "probe" BY <1>2, WhereDone
<1>4. call[c].pc \in Launching /\ call[c].pc \in Locking BY <1>2 DEF Launching, Locking
<1>5. Quiet BY <1>4 DEF Session
<1>6. Quiet' BY <1>2, <1>5 DEF Quiet, Live
<1>7. lock = c /\ \A d \in Calls \ {c} : call[d].pc \notin Locking BY <1>4, Holder
<1>8. \A d \in Calls : call'[d].pc \in Locking <=> lock' = d
  BY <1>1, <1>2, <1>3, <1>7 DEF Locking, Launching
<1>9. \A d \in Calls : call'[d].pc # "spawn" /\ call'[d].pc # "reap"
  BY <1>1, <1>3, <1>7 DEF Locking, Launching
<1>10. living' \subseteq {process'} BY <1>2 DEF Session
<1> QED BY <1>2, <1>6, <1>8, <1>9, <1>10 DEF Session

LEMMA FailSession ==
  ASSUME Typed, Session, NEW c \in Calls, Called(c), LaunchFails(c)
  PROVE  Session'
<1>0. call \in [Calls -> CallRecords] BY DEF Typed
<1>1. \A d \in Calls \ {c} : call'[d] = call[d] BY <1>0 DEF Called
<1>2. /\ call[c].pc \in {"shake", "probe"} /\ Goto(c, "reap")
      /\ living' = living \ {process} /\ halted' = Running
      /\ UNCHANGED <<process, lock, table, backlog, wire, threads>>
  BY DEF LaunchFails, At, clientVars, Vanish
<1>3. call'[c].pc = "reap" BY <1>2, WhereDone
<1>4. call[c].pc \in Launching /\ call[c].pc \in Locking BY <1>2 DEF Launching, Locking
<1>5. Quiet BY <1>4 DEF Session
<1>6. Quiet' BY <1>2, <1>5 DEF Quiet, Live
<1>7. lock = c /\ \A d \in Calls \ {c} : call[d].pc \notin Locking BY <1>4, Holder
<1>8. \A d \in Calls : call'[d].pc \in Locking <=> lock' = d
  BY <1>1, <1>2, <1>3, <1>7 DEF Locking, Launching
<1>9. \A d \in Calls : call'[d].pc # "spawn"
  BY <1>1, <1>3, <1>7 DEF Locking, Launching
<1>10. living' = {} BY <1>2 DEF Session
<1> QED BY <1>2, <1>3, <1>6, <1>8, <1>9, <1>10 DEF Session

\* A teardown, or the end of a failed launch: no process is left.
LEMMA GoneSession ==
  ASSUME Typed, Session, NEW c \in Calls, Called(c), TeardownEnds(c) \/ Reaps(c)
  PROVE  Session'
<1>0. call \in [Calls -> CallRecords] /\ Nobody \notin Calls BY SessionAssumption DEF Typed
<1>1. \A d \in Calls \ {c} : call'[d] = call[d] BY <1>0 DEF Called
<1>2. process' = 0 /\ call[c].pc \in {"closing", "closing for launch", "reap"}
  BY DEF TeardownEnds, Reaps, Clears, At
<1>3. call[c].pc \in Locking BY <1>2 DEF Locking, Launching
<1>4. lock = c /\ \A d \in Calls \ {c} : call[d].pc \notin Locking BY <1>3, Holder
<1>a. TableOK(table) BY MineKnown
<1>5. table' = TornDown(table) => Live' = {} BY <1>a, TornDownIs DEF Live
<1>6. living' = {} /\ Quiet'
  <2>1. CASE TeardownEnds(c)
    <3>1. /\ living' = living \ {process} /\ halted' = Running /\ wire' = <<>>
          /\ threads' = Running /\ backlog' = <<>> /\ table' = TornDown(table)
      BY <2>1, Zenon DEF TeardownEnds, Clears, Vanish
    <3>2. living' = {} BY <3>1 DEF Session
    <3> QED BY <1>5, <3>1, <3>2 DEF Quiet
  <2>2. CASE Reaps(c)
    <3>1. /\ UNCHANGED <<living, halted>> /\ call[c].pc = "reap"
          /\ \/ /\ wire' = <<>> /\ threads' = Running /\ backlog' = <<>>
                /\ table' = TornDown(table)
             \/ UNCHANGED <<wire, threads, backlog, table>>
      BY <2>2, Zenon DEF Reaps, At
    <3>2. living = {} /\ Quiet BY <3>1 DEF Session, Launching
    <3> QED BY <1>5, <3>1, <3>2 DEF Quiet, Live
  <2> QED BY <2>1, <2>2
<1>7. \/ lock' = Nobody /\ call'[c].pc \in {"returning", "idle"}
      \/ lock' = c /\ call'[c].pc = "spawn"
  <2>1. CASE TeardownEnds(c)
    <3>1. (Free(c) /\ Done(c)) \/ (Goto(c, "spawn") /\ UNCHANGED lock)
      <4>1. IF At(c, "closing") THEN Free(c) /\ Done(c) ELSE Goto(c, "spawn") /\ UNCHANGED lock
        BY <2>1, Zenon DEF TeardownEnds
      <4> QED BY <4>1
    <3> QED BY <3>1, <1>4, WhereDone DEF Free
  <2>2. CASE Reaps(c)
    <3>1. Free(c) /\ Finish(c) BY <2>2, Zenon DEF Reaps
    <3> QED BY <3>1, <1>4, WhereDone DEF Free
  <2> QED BY <2>1, <2>2
<1>8. \A d \in Calls : call'[d].pc \in Locking <=> lock' = d
  BY <1>0, <1>1, <1>4, <1>7 DEF Locking, Launching
<1>9. \A d \in Calls : call'[d].pc \in Launching => process' = 0 BY <1>2
<1> QED BY <1>2, <1>6, <1>8 DEF Session

\* The session stays settled when a call takes a step.
LEMMA ActsSession ==
  ASSUME Typed, Current, Held, Steps, Session, NEW c \in Calls, Acts(c)
  PROVE  Session'
<1>1. Called(c) BY ActsCall
<1>2. backlog = <<>> => Live' \subseteq Live BY ActsTurn DEF Turned
<1>3. CASE Tool(c) BY <1>1, <1>2, <1>3, ToolSession
<1>4. CASE \/ Look(c) \/ Returns(c) \/ ContinueSends(c) \/ ContinueEnds(c)
           \/ StepAnswered(c) \/ StepLooks(c) \/ StepStops(c) \/ StepLeaves(c)
           \/ EvaluateRefused(c) \/ Evaluates(c) \/ ReportEnds(c) \/ EvaluationEnds(c)
           \/ \E s \in Sessions : LaunchRuns(c, s) \/ LaunchRefused(c, s)
           \/ Terminate(c)
  BY <1>3, <1>4, LookTool
<1>5. CASE ContinueStarts(c) \/ StepStarts(c) \/ ReportStarts(c) BY <1>3, <1>5, StartTool
<1>6. CASE \/ CancelStarts(c) \/ CancelRetired(c) \/ CancelNothing(c) \/ CancelEnds(c)
           \/ CancelFails(c) \/ TeardownStarts(c) \/ Launched(c)
           \/ \E s \in Sessions : LaunchStarts(c, s)
  BY <1>1, <1>2, <1>6, LockSession
<1>7. CASE CutShort(c) BY <1>1, <1>2, <1>7, CutSession
<1>8. CASE Spawns(c) BY <1>1, <1>8, SpawnSession
<1>9. CASE Shakes(c) BY <1>1, <1>9, ShakeSession
<1>10. CASE LaunchFails(c) BY <1>1, <1>10, FailSession
<1>11. CASE TeardownEnds(c) \/ Reaps(c) BY <1>1, <1>11, GoneSession
<1> QED BY <1>4, <1>5, <1>6, <1>7, <1>8, <1>9, <1>10, <1>11, Zenon DEF Acts

-----------------------------------------------------------------------------
(* Types.                                                                  *)

LEMMA StartTyped ==
  Running \in Snapshots /\ Running \in [Threads -> Nat] /\ <<>> \in Seq(Snapshots)
BY SessionAssumption DEF Running, Snapshots

\* The smallest of the hits a call has left to continue.
LEMMA TodoIs ==
  ASSUME Typed, NEW c \in Calls, call[c].todo # {}
  PROVE  Min(call[c].todo) \in Mine(c) /\ call[c].hits[Min(call[c].todo)] \in Threads
<1>1. call[c] \in CallRecords /\ call[c].todo \subseteq Mine(c) BY DEF Typed
<1>2. call[c].todo \in SUBSET Nat BY <1>1 DEF CallRecords
<1>3. \E n \in call[c].todo : \A m \in call[c].todo : n <= m BY <1>2, Least
<1> DEFINE T == call[c].todo
<1>4. Min(T) \in T
  <2> DEFINE P(x) == x \in T /\ \A y \in T : x <= y
  <2>1. \E x : P(x) BY <1>3
  <2> HIDE DEF T
  <2>2. Min(T) = CHOOSE x \in T : \A y \in T : x <= y BY DEF Min
  <2> QED BY <2>1, <2>2
<1>5. Min(T) \in Mine(c) BY <1>1, <1>4
<1>6. call[c].hits \in Holdings BY <1>1 DEF CallRecords
<1>7. PICK D \in SUBSET Nat : call[c].hits \in [D -> Threads] BY <1>6 DEF Holdings
<1> QED BY <1>5, <1>7 DEF Mine

\* The process, the session's names and the bounds.
LEMMA ActsProcess ==
  ASSUME Typed, NEW c \in Calls, Acts(c)
  PROVE  /\ process' \in 0..MaxStarts /\ living' \subseteq 1..MaxStarts
         /\ shaken' \in BOOLEAN /\ logic' \in Sessions \cup {Nobody}
         /\ lock' \in Calls \cup {Nobody}
<1>0. /\ process \in 0..MaxStarts /\ living \subseteq 1..MaxStarts
      /\ shaken \in BOOLEAN /\ logic \in Sessions \cup {Nobody}
      /\ lock \in Calls \cup {Nobody} /\ call[c] \in CallRecords /\ MaxStarts \in Nat
  BY SessionAssumption DEF Typed
<1>1. lock' \in {lock, c, Nobody}
  <2>1. lock' = lock \/ lock' = c \/ Free(c)
    BY Zenon DEF Acts, Returns, Look, CutShort, ContinueStarts, ContinueSends, ContinueEnds,
       StepStarts, StepAnswered, StepLooks, StepStops, StepLeaves, EvaluateRefused, Evaluates,
       ReportStarts, ReportEnds, EvaluationEnds, CancelStarts, CancelRetired, CancelNothing,
       CancelEnds, CancelFails, LaunchRuns, LaunchRefused, LaunchStarts, TeardownEnds, Terminate,
       TeardownStarts, Spawns, Shakes, Launched, LaunchFails, Reaps
  <2> QED BY <2>1 DEF Free
<1>a. lock' \in Calls \cup {Nobody} BY <1>0, <1>1
<1>2. CASE Spawns(c)
  <2>1. /\ spent.starts < MaxStarts /\ process' = spent.starts + 1
        /\ living' = living \cup {spent.starts + 1} /\ shaken' = FALSE /\ logic' = call[c].want
    BY <1>2, Zenon DEF Spawns
  <2>2. spent.starts \in Nat BY SessionAssumption DEF Typed
  <2>3. call[c].want \in Sessions \cup {Nobody} BY <1>0 DEF CallRecords
  <2>4. process' \in 0..MaxStarts BY <1>0, <2>1, <2>2
  <2>5. living' \subseteq 1..MaxStarts
    <3>1. spent.starts + 1 \in 1..MaxStarts BY <1>0, <2>1, <2>2
    <3>2. living' = living \cup {spent.starts + 1} BY <2>1
    <3> QED BY <1>0, <3>1, <3>2, Zenon
  <2>6. shaken' \in BOOLEAN BY <2>1, Zenon
  <2>7. logic' \in Sessions \cup {Nobody} BY <2>1, <2>3
  <2> QED BY <1>a, <2>4, <2>5, <2>6, <2>7
<1>3. CASE TeardownEnds(c)
  <2>1. process' = 0 /\ shaken' = FALSE /\ living' = living \ {process} /\ logic' = logic
    BY <1>3, Zenon DEF TeardownEnds, Clears, Vanish
  <2>2. process' \in 0..MaxStarts /\ living' \subseteq 1..MaxStarts BY <1>0, <2>1
  <2>3. shaken' \in BOOLEAN BY <2>1, Zenon
  <2> QED BY <1>0, <1>a, <2>1, <2>2, <2>3
<1>4. CASE Reaps(c)
  <2>1. process' = 0 /\ (shaken' = FALSE \/ shaken' = shaken) /\ UNCHANGED <<living, logic>>
    BY <1>4, Zenon DEF Reaps
  <2>2. process' \in 0..MaxStarts /\ living' \subseteq 1..MaxStarts BY <1>0, <2>1
  <2>3. shaken' \in BOOLEAN BY <1>0, <2>1, Zenon
  <2> QED BY <1>0, <1>a, <2>1, <2>2, <2>3
<1>5. CASE LaunchFails(c)
  <2>1. living' = living \ {process} /\ UNCHANGED <<process, shaken, logic>>
    BY <1>5, Zenon DEF LaunchFails, Vanish, clientVars
  <2> QED BY <1>0, <1>a, <2>1
<1>6. CASE Shakes(c)
  <2>1. shaken' = TRUE /\ UNCHANGED <<process, living, logic>>
    BY <1>6, Zenon DEF Shakes, proverVars
  <2> QED BY <1>0, <1>a, <2>1
<1>7. CASE ~Spawns(c) /\ ~TeardownEnds(c) /\ ~Reaps(c) /\ ~LaunchFails(c) /\ ~Shakes(c)
  <2>1. UNCHANGED <<process, living, shaken, logic>>
    BY <1>7, Zenon DEF Acts, Returns, Look, CutShort, ContinueStarts, ContinueSends, ContinueEnds,
       StepStarts, StepAnswered, StepLooks, StepStops, StepLeaves, EvaluateRefused, Evaluates,
       ReportStarts, ReportEnds, EvaluationEnds, CancelStarts, CancelRetired, CancelNothing,
       CancelEnds, CancelFails, LaunchRuns, LaunchRefused, LaunchStarts, Terminate,
       TeardownStarts, Launched, proverVars, clientVars
  <2> QED BY <1>0, <1>a, <2>1
<1> QED BY <1>2, <1>3, <1>4, <1>5, <1>6, <1>7

\* The prover's threads, and the pushes.
LEMMA ActsThreads ==
  ASSUME Typed, Current, NEW c \in Calls, Acts(c)
  PROVE  /\ halted' \in Snapshots /\ threads' \in Snapshots
         /\ wire' \in Seq(Snapshots) /\ backlog' \in Seq(Snapshots)
         /\ inbox' \in [Threads -> Nat] /\ swept' \subseteq Threads
<1>0. /\ halted \in Snapshots /\ threads \in Snapshots
      /\ wire \in Seq(Snapshots) /\ backlog \in Seq(Snapshots)
      /\ inbox \in [Threads -> Nat] /\ swept \subseteq Threads
  BY DEF Typed
<1>1. CASE TeardownEnds(c) \/ Reaps(c) \/ LaunchFails(c)
  <2>1. \/ halted' = Running /\ inbox' = Running /\ swept' = {}
        \/ UNCHANGED <<halted, inbox, swept>>
    BY <1>1, Zenon DEF TeardownEnds, Reaps, LaunchFails, Clears, Vanish
  <2>2. \/ wire' = <<>> /\ threads' = Running /\ backlog' = <<>>
        \/ UNCHANGED <<wire, threads, backlog>>
    BY <1>1, Zenon DEF TeardownEnds, Reaps, LaunchFails, Clears, clientVars
  <2> QED BY <1>0, <2>1, <2>2, StartTyped
<1>2. CASE ~TeardownEnds(c) /\ ~Reaps(c) /\ ~LaunchFails(c)
  <2>1. UNCHANGED <<halted, wire, threads>>
    BY <1>2, Zenon DEF Acts, Returns, Look, CutShort, ContinueStarts, ContinueSends, ContinueEnds,
       StepStarts, StepAnswered, StepLooks, StepStops, StepLeaves, EvaluateRefused, Evaluates,
       ReportStarts, ReportEnds, EvaluationEnds, CancelStarts, CancelRetired, CancelNothing,
       CancelEnds, CancelFails, LaunchRuns, LaunchRefused, LaunchStarts, Terminate,
       TeardownStarts, Spawns, Shakes, Launched, proverVars, clientVars
  <2>2. backlog' = backlog \/ backlog' = <<>>
    <3>1. backlog' = backlog \/ backlog' = <<>> \/ Returns(c) \/ \E s \in Sessions : LaunchStarts(c, s)
      BY <1>2, Zenon DEF Acts, Look, CutShort, ContinueStarts, ContinueSends, ContinueEnds,
         StepStarts, StepAnswered, StepLooks, StepStops, StepLeaves, EvaluateRefused, Evaluates,
         ReportStarts, ReportEnds, EvaluationEnds, CancelStarts, CancelRetired, CancelNothing,
         CancelEnds, CancelFails, LaunchRuns, LaunchRefused, Terminate,
         TeardownStarts, Spawns, Shakes, Launched, proverVars, clientVars, Becomes
    <3>2. CASE Returns(c)
      <4>1. backlog' = (IF process # 0 THEN <<>> ELSE backlog) BY <3>2, Zenon DEF Returns
      <4> QED BY <4>1
    <3>3. CASE \E s \in Sessions : LaunchStarts(c, s)
      <4>1. IF Sound THEN backlog' = <<>> ELSE backlog' = backlog
        BY <3>3, Zenon DEF LaunchStarts, Becomes
      <4> QED BY <4>1
    <3> QED BY <3>1, <3>2, <3>3
  <2>3. inbox' = inbox \/ \E t \in Threads : Verb(t)
    <3>1. CASE StepStarts(c)
      <4>1. PICK h \in DOMAIN Synced.live :
              IF Up /\ ~Closing THEN Verb(Synced.live[h].thread) ELSE UNCHANGED inbox
        BY <3>1, Zenon DEF StepStarts
      <4>2. TableOK(Synced) BY SyncedIs DEF Folds
      <4> HIDE DEF Synced
      <4>3. Synced.live[h].thread \in Threads BY <4>2 DEF TableOK, Hits
      <4> QED BY <4>1, <4>3
    <3>2. CASE ContinueSends(c)
      <4>1. /\ call[c].todo # {}
            /\ UNCHANGED inbox \/ Verb(call[c].hits[Min(call[c].todo)])
        BY <3>2, Zenon DEF ContinueSends
      <4> QED BY <4>1, TodoIs
    <3>3. CASE ~StepStarts(c) /\ ~ContinueSends(c)
      BY <1>2, <3>3, Zenon DEF Acts, Returns, Look, CutShort, ContinueStarts, ContinueEnds,
         StepAnswered, StepLooks, StepStops, StepLeaves, EvaluateRefused, Evaluates,
         ReportStarts, ReportEnds, EvaluationEnds, CancelStarts, CancelRetired, CancelNothing,
         CancelEnds, CancelFails, LaunchRuns, LaunchRefused, LaunchStarts, Terminate,
         TeardownStarts, Spawns, Shakes, Launched, proverVars
    <3> QED BY <3>1, <3>2, <3>3
  <2>4. inbox' \in [Threads -> Nat] BY <1>0, <2>3 DEF Verb
  <2>5. swept' = swept \/ swept' = {t \in Threads : halted[t] # 0}
    BY <1>2, Zenon DEF Acts, Returns, Look, CutShort, ContinueStarts, ContinueSends, ContinueEnds,
       StepStarts, StepAnswered, StepLooks, StepStops, StepLeaves, EvaluateRefused, Evaluates,
       ReportStarts, ReportEnds, EvaluationEnds, CancelStarts, CancelRetired, CancelNothing,
       CancelEnds, CancelFails, LaunchRuns, LaunchRefused, LaunchStarts, Terminate,
       TeardownStarts, Spawns, Shakes, Launched, proverVars
  <2> QED BY <1>0, <2>1, <2>2, <2>4, <2>5, StartTyped
<1> QED BY <1>1, <1>2

LEMMA ActsSpent ==
  ASSUME Typed, NEW c \in Calls, Acts(c)
  PROVE  spent' \in [halts : 0..MaxHalts, starts : 0..MaxStarts, calls : Nat, trouble : Nat]
<1>0. /\ spent \in [halts : 0..MaxHalts, starts : 0..MaxStarts, calls : Nat, trouble : Nat]
      /\ MaxStarts \in Nat
  BY SessionAssumption DEF Typed
<1>1. CASE UNCHANGED spent BY <1>0, <1>1
<1>2. CASE Spend("calls") \/ Spend("trouble") BY <1>0, <1>2 DEF Spend
<1>3. CASE Spawns(c)
  <2>1. spent.starts < MaxStarts /\ spent' = [spent EXCEPT !.starts = @ + 1]
    BY <1>3, Zenon DEF Spawns, Spend
  <2> QED BY <1>0, <2>1
<1>4. CASE \E n \in {0, 1} : spent' = [spent EXCEPT !.trouble = @ + n] BY <1>0, <1>4
<1>5. CASE Fails(c)
  <2>1. (IF Lost(c) THEN 0 ELSE 1) \in {0, 1} OBVIOUS
  <2> QED BY <1>4, <1>5, <2>1, Zenon DEF Fails
<1>6. CASE LaunchFails(c)
  <2>1. spent' = [spent EXCEPT !.trouble = @ + IF Up THEN 1 ELSE 0] BY <1>6, Zenon DEF LaunchFails
  <2>2. (IF Up THEN 1 ELSE 0) \in {0, 1} OBVIOUS
  <2> QED BY <1>4, <2>1, <2>2, Zenon
<1>7. \/ UNCHANGED spent \/ Spend("calls") \/ Spend("trouble") \/ Fails(c)
      \/ Spawns(c) \/ LaunchFails(c)
  BY Zenon DEF Acts, Returns, Look, CutShort, ContinueStarts, ContinueSends, ContinueEnds,
     StepStarts, StepAnswered, StepLooks, StepStops, StepLeaves, EvaluateRefused, Evaluates,
     ReportStarts, ReportEnds, EvaluationEnds, CancelStarts, CancelRetired, CancelNothing,
     CancelEnds, CancelFails, LaunchRuns, LaunchRefused, LaunchStarts, TeardownEnds, Terminate,
     TeardownStarts, Shakes, Launched, Reaps, Enters, LeftOrLate
<1> QED BY <1>1, <1>2, <1>3, <1>5, <1>6, <1>7

LEMMA ActsTyped ==
  ASSUME Typed, Current, Held, Steps, NEW c \in Calls, Acts(c) PROVE Typed'
<1>1. /\ TableOK(table') /\ told' \subseteq 1..table'.seq /\ cut' \subseteq 1..table'.seq
  BY ActsTurn DEF Turned
<1>2. /\ call' \in [Calls -> CallRecords]
      /\ \A d \in Calls : DOMAIN call'[d].hits \subseteq 1..table'.seq
                          /\ call'[d].todo \subseteq DOMAIN call'[d].hits
  BY ActsHeld
<1>3. /\ process' \in 0..MaxStarts /\ living' \subseteq 1..MaxStarts
      /\ shaken' \in BOOLEAN /\ logic' \in Sessions \cup {Nobody}
      /\ lock' \in Calls \cup {Nobody}
  BY ActsProcess
<1>4. /\ halted' \in Snapshots /\ threads' \in Snapshots
      /\ wire' \in Seq(Snapshots) /\ backlog' \in Seq(Snapshots)
      /\ inbox' \in [Threads -> Nat] /\ swept' \subseteq Threads
  BY ActsThreads
<1>5. spent' \in [halts : 0..MaxHalts, starts : 0..MaxStarts, calls : Nat, trouble : Nat]
  BY ActsSpent
<1>6. TableOK(table)' BY <1>1 DEF TableOK, IsTable
<1>7. \A d \in Calls : Mine(d)' \subseteq 1..table'.seq /\ call'[d].todo \subseteq Mine(d)'
  BY <1>2 DEF Mine
<1>8. Snapshots' = Snapshots BY DEF Snapshots
<1>9. CallRecords' = CallRecords BY DEF CallRecords, Labels, Holdings
<1> QED BY <1>1, <1>2, <1>3, <1>4, <1>5, <1>6, <1>7, <1>8, <1>9, Zenon DEF Typed

\* What a step of a call keeps.
LEMMA ActsKeep == ASSUME IInv, NEW c \in Calls, Acts(c) PROVE IInv'
<1> USE DEF IInv
<1>1. Typed' BY ActsTyped
<1>2. Session' BY ActsSession
<1>3. Held' /\ Steps' BY ActsHeld
<1>4. Current' BY ActsTurn DEF Turned
<1>5. EveryHitIsTold' BY ActsTell
<1> QED BY <1>1, <1>2, <1>3, <1>4, <1>5

\* The prover's steps leave the client alone.
LEMMA ProverKeeps ==
  ASSUME IInv,
         \/ \E t \in Threads : Halt(t) \/ Resume(t)
         \/ Crash
  PROVE  IInv'
<1>0. Typed /\ Session /\ Held /\ Steps /\ Current /\ EveryHitIsTold BY DEF IInv
<1>1. UNCHANGED <<process, shaken, logic, threads, backlog, table, lock, call, told, cut>>
  BY Zenon DEF Halt, Resume, Crash, clientVars, histVars
<1>2. Held' BY <1>0, <1>1 DEF Held, Mine, Live
<1>3. Steps' BY <1>0, <1>1 DEF Steps, Mine, HitIds, Live
<1>4. Current' BY <1>0, <1>1 DEF Current, Matches
<1>5. EveryHitIsTold' BY <1>0, <1>1 DEF EveryHitIsTold, HitIds, Announced, At, Mine
<1>6. TableOK(table)' BY <1>0, <1>1 DEF Typed, TableOK, IsTable
<1>7. \A d \in Calls : Mine(d)' = Mine(d) BY <1>1 DEF Mine
<1>8. Snapshots' = Snapshots BY DEF Snapshots
<1>9. CallRecords' = CallRecords BY DEF CallRecords, Labels, Holdings
<1>10. ASSUME halted' \in Snapshots, wire' \in Seq(Snapshots), living' \subseteq 1..MaxStarts,
              inbox' \in [Threads -> Nat], swept' \subseteq Threads,
              spent' \in [halts : 0..MaxHalts, starts : 0..MaxStarts, calls : Nat, trouble : Nat]
       PROVE  Typed'
  BY <1>0, <1>1, <1>6, <1>7, <1>8, <1>9, <1>10, Zenon DEF Typed
<1>11. \A d \in Calls : call[d].pc \in Launching => Quiet BY <1>0 DEF Session
<1>12. /\ halted \in [Threads -> 0..MaxHalts] /\ wire \in Seq(Snapshots)
       /\ living \subseteq 1..MaxStarts /\ inbox \in [Threads -> Nat] /\ swept \subseteq Threads
       /\ spent \in [halts : 0..MaxHalts, starts : 0..MaxStarts, calls : Nat, trouble : Nat]
       /\ MaxHalts \in Nat /\ MaxStarts \in Nat
  BY <1>0, SessionAssumption DEF Typed, Snapshots
<1>13. ASSUME NEW now \in Snapshots, wire' = Append(wire, now) PROVE wire' \in Seq(Snapshots)
  BY <1>12, <1>13, Appended, Zenon
<1>14. CASE \E t \in Threads : Halt(t)
  <2>1. PICK t \in Threads : Halt(t) BY <1>14
  <2>2. /\ process \in living /\ \A d \in Calls : call[d].pc \notin {"shake", "probe"}
        /\ spent.halts < MaxHalts /\ halted' = [halted EXCEPT ![t] = spent.halts + 1]
        /\ wire' = Append(wire, [halted EXCEPT ![t] = spent.halts + 1])
        /\ spent' = [spent EXCEPT !.halts = @ + 1] /\ UNCHANGED <<living, inbox, swept>>
    BY <2>1, Zenon DEF Halt, Up, Push, Spend
  <2>3. spent.halts + 1 \in 0..MaxHalts BY <1>12, <2>2
  <2>4. halted' \in Snapshots BY <1>12, <2>2, <2>3 DEF Snapshots
  <2>5. wire' \in Seq(Snapshots)
    <3>1. wire' = Append(wire, halted') BY <2>2
    <3> QED BY <3>1, <2>4, <1>13
  <2>6. spent' \in [halts : 0..MaxHalts, starts : 0..MaxStarts, calls : Nat, trouble : Nat]
    BY <1>12, <2>2, <2>3
  <2>7. Typed' BY <1>10, <1>12, <2>2, <2>4, <2>5, <2>6
  <2>8. process # 0 BY <1>12, <2>2
  <2>9. \A d \in Calls : call[d].pc \notin Launching
    BY <1>0, <2>2, <2>8 DEF Session, Launching
  <2>10. Session' BY <1>0, <1>1, <2>2, <2>8, <2>9 DEF Session, Launching
  <2> QED BY <1>2, <1>3, <1>4, <1>5, <2>7, <2>10 DEF IInv
<1>15. CASE \E t \in Threads : Resume(t)
  <2>1. PICK t \in Threads : Resume(t) BY <1>15
  <2>2. /\ halted[t] # 0 /\ halted' = [halted EXCEPT ![t] = 0]
        /\ wire' = Append(wire, [halted EXCEPT ![t] = 0])
        /\ UNCHANGED <<living, spent>>
        /\ \/ inbox[t] > 0 /\ inbox' = [inbox EXCEPT ![t] = @ - 1] /\ UNCHANGED swept
           \/ swept' = swept \ {t} /\ UNCHANGED inbox
    BY <2>1, Zenon DEF Resume, Push
  <2>4. halted' \in Snapshots BY <1>12, <2>2 DEF Snapshots
  <2>5. wire' \in Seq(Snapshots)
    <3>1. wire' = Append(wire, halted') BY <2>2
    <3> QED BY <3>1, <2>4, <1>13
  <2>6. inbox' \in [Threads -> Nat] /\ swept' \subseteq Threads
    <3>1. CASE inbox[t] > 0 /\ inbox' = [inbox EXCEPT ![t] = @ - 1] /\ UNCHANGED swept
      <4>1. inbox[t] - 1 \in Nat BY <1>12, <3>1
      <4> QED BY <1>12, <3>1, <4>1
    <3>2. CASE swept' = swept \ {t} /\ UNCHANGED inbox BY <1>12, <3>2
    <3> QED BY <2>2, <3>1, <3>2
  <2>7. Typed' BY <1>10, <1>12, <2>2, <2>4, <2>5, <2>6
  <2>8. ~Quiet BY <2>2 DEF Quiet, Running
  <2>9. process # 0 /\ \A d \in Calls : call[d].pc \notin Launching
    BY <1>0, <1>11, <2>8 DEF Session
  <2>10. Session' BY <1>0, <1>1, <2>2, <2>9 DEF Session, Launching
  <2> QED BY <1>2, <1>3, <1>4, <1>5, <2>7, <2>10 DEF IInv
<1>16. CASE Crash
  <2>1. /\ living' = living \ {process} /\ halted' = Running /\ inbox' = Running /\ swept' = {}
        /\ spent' = [spent EXCEPT !.trouble = @ + 1] /\ UNCHANGED wire
    BY <1>16, Zenon DEF Crash, Vanish, Spend
  <2>2. Typed'
    <3>1. spent' \in [halts : 0..MaxHalts, starts : 0..MaxStarts, calls : Nat, trouble : Nat]
      <4>1. spent' = [spent EXCEPT !.trouble = @ + 1] BY <2>1
      <4>2. spent \in [halts : 0..MaxHalts, starts : 0..MaxStarts, calls : Nat, trouble : Nat]
        BY <1>12
      <4> QED BY <4>1, <4>2
    <3>2. living' \subseteq 1..MaxStarts BY <1>12, <2>1
    <3> QED BY <1>10, <1>12, <2>1, <3>1, <3>2, StartTyped
  <2>3. Quiet => Quiet' BY <1>1, <2>1 DEF Quiet, Live
  <2>4. living' = {} BY <1>0, <2>1 DEF Session
  <2>5. Session' BY <1>0, <1>1, <2>3, <2>4 DEF Session
  <2> QED BY <1>2, <1>3, <1>4, <1>5, <2>2, <2>5 DEF IInv
<1> QED BY <1>14, <1>15, <1>16

-----------------------------------------------------------------------------
(* The steps, and the theorems.                                            *)

\* A push is read: the table is behind by one more.
LEMMA ReceiveKeeps == ASSUME IInv, Receive PROVE IInv'
<1>0. Typed /\ Session /\ Held /\ Steps /\ Current /\ EveryHitIsTold BY DEF IInv
<1>1. /\ wire # <<>> /\ process # 0 /\ threads' = Head(wire)
      /\ backlog' = Append(backlog, Head(wire)) /\ wire' = Tail(wire)
      /\ UNCHANGED <<living, halted, inbox, swept, process, shaken, logic, table, lock,
                     told, cut, spent>>
  BY Zenon DEF Receive, histVars
<1>2. call \in [Calls -> CallRecords] /\ wire \in Seq(Snapshots) /\ backlog \in Seq(Snapshots)
  BY <1>0 DEF Typed
<1>3. /\ call' \in [Calls -> CallRecords]
      /\ \A d \in Calls : /\ call'[d].pc = call[d].pc /\ call'[d].hits = call[d].hits
                          /\ call'[d].todo = call[d].todo
  <2>1. call' = [d \in Calls |-> IF call[d].pc \in {"step", "stepping"}
                                   THEN [call[d] EXCEPT !.news = TRUE] ELSE call[d]]
    BY DEF Receive
  <2>2. \A d \in Calls : LET r == [call[d] EXCEPT !.news = TRUE] IN
          /\ r \in CallRecords /\ r.pc = call[d].pc /\ r.hits = call[d].hits
          /\ r.todo = call[d].todo
    BY <1>2 DEF CallRecords
  <2> QED BY <1>2, <2>1, <2>2
<1>4. /\ Head(wire) \in Snapshots /\ Tail(wire) \in Seq(Snapshots) BY <1>1, <1>2, Shifted
<1>5. /\ backlog' \in Seq(Snapshots) /\ Len(backlog') = Len(backlog) + 1
      /\ backlog'[Len(backlog) + 1] = Head(wire)
  BY <1>1, <1>2, <1>4, Appended
<1>6. \A d \in Calls : Mine(d)' = Mine(d) BY <1>3 DEF Mine
<1>7. Typed'
  <2>1. TableOK(table)' BY <1>0, <1>1 DEF Typed, TableOK, IsTable
  <2>2. Snapshots' = Snapshots BY DEF Snapshots
  <2>3. CallRecords' = CallRecords BY DEF CallRecords, Labels, Holdings
  <2>4. threads' \in Snapshots /\ wire' \in Seq(Snapshots) BY <1>1, <1>4
  <2>5. \A d \in Calls : Mine(d)' \subseteq 1..table'.seq /\ call'[d].todo \subseteq Mine(d)'
    BY <1>0, <1>1, <1>3, <1>6 DEF Typed
  <2> QED BY <1>0, <1>1, <1>3, <1>5, <2>1, <2>2, <2>3, <2>4, <2>5, Zenon DEF Typed
<1>8. Session'
  <2>1. wire # <<>> /\ process # 0 BY <1>1
  <2>2. ~Quiet BY <2>1 DEF Quiet
  <2>3. \A d \in Calls : call'[d].pc \notin Launching BY <1>0, <1>3, <2>2 DEF Session
  <2> QED BY <1>0, <1>1, <1>3, <2>3 DEF Session, Launching
<1>9. Held' BY <1>0, <1>1, <1>3 DEF Held, Mine, Live
<1>10. Steps' BY <1>0, <1>1, <1>3 DEF Steps, Mine, HitIds, Live
<1>11. Current'
  <2>1. Len(backlog') # 0 BY <1>2, <1>5
  <2>2. backlog' # <<>> BY <2>1
  <2>3. backlog'[Len(backlog')] = threads' BY <1>1, <1>5
  <2> QED BY <2>2, <2>3, CurrentNow
<1>12. EveryHitIsTold'
  <2>1. HitIds' = HitIds /\ Announced(table)' = Announced(table)
    BY <1>1 DEF HitIds, Announced
  <2> QED BY <1>0, <1>1, <1>3, <2>1 DEF EveryHitIsTold, At, Mine
<1> QED BY <1>7, <1>8, <1>9, <1>10, <1>11, <1>12 DEF IInv

\* Nothing has happened yet.
LEMMA InitInv == Init => IInv
<1> SUFFICES ASSUME Init PROVE IInv OBVIOUS
<1>0. /\ process = 0 /\ living = {} /\ shaken = FALSE /\ logic = Nobody
      /\ halted = Running /\ inbox = Running /\ swept = {} /\ wire = <<>>
      /\ threads = Running /\ backlog = <<>> /\ table = EmptyTable /\ lock = Nobody
      /\ call = [c \in Calls |-> Idle] /\ told = {} /\ cut = {}
      /\ spent = [halts |-> 0, starts |-> 0, calls |-> 0, trouble |-> 0]
  BY DEF Init
<1>1. /\ table.live = <<>> /\ table.retired = <<>> /\ table.seq = 0 /\ table.notices = {}
      /\ IsTable(table)
  BY <1>0 DEF EmptyTable, IsTable
<1>2. Live = {} BY <1>1 DEF Live
<1>3. \A c \in Calls : call[c] = Idle BY <1>0
<1>4. Idle.pc = "idle" /\ DOMAIN Idle.hits = {} /\ Idle.todo = {} BY IdleGiven
<1>5. HitIds = {} BY <1>1 DEF HitIds
<1>6. TableOK(table)
  <2>1. table.live \in [DOMAIN table.live -> Hits] BY <1>1, <1>2 DEF Live
  <2>2. table.retired \in [(1..table.seq) \ DOMAIN table.live -> Endings \ {"none"}]
    <3>1. (1..table.seq) \ DOMAIN table.live = {} BY <1>1
    <3>2. <<>> \in [{} -> Endings \ {"none"}] OBVIOUS
    <3> QED BY <1>1, <3>1, <3>2
  <2> QED BY <1>1, <2>1, <2>2, <1>2 DEF TableOK, Live
<1>7. Typed
  <2>1. call \in [Calls -> CallRecords] BY <1>0, IdleGiven
  <2>2. \A c \in Calls : Mine(c) \subseteq 1..table.seq /\ call[c].todo \subseteq Mine(c)
    BY <1>3, <1>4 DEF Mine
  <2>3. spent \in [halts : 0..MaxHalts, starts : 0..MaxStarts, calls : Nat, trouble : Nat]
        /\ process \in 0..MaxStarts
    BY <1>0, SessionAssumption
  <2>4. living \subseteq 1..MaxStarts /\ shaken \in BOOLEAN /\ logic \in Sessions \cup {Nobody}
        /\ swept \subseteq Threads /\ lock \in Calls \cup {Nobody}
        /\ told \subseteq 1..table.seq /\ cut \subseteq 1..table.seq
    BY <1>0
  <2> QED BY <1>0, <1>6, <2>1, <2>2, <2>3, <2>4, StartTyped DEF Typed
<1>8. Quiet BY <1>0, <1>2 DEF Quiet
<1>9. Session
  <2>1. Nobody \notin Calls BY SessionAssumption
  <2>2. \A c \in Calls : call[c].pc = "idle" BY <1>3, <1>4
  <2> QED BY <1>0, <1>8, <2>1, <2>2 DEF Session, Locking, Launching
<1>10. Held BY <1>2 DEF Held
<1>11. Steps BY <1>2, <1>3, <1>4 DEF Steps
<1>12. Current
  <2>1. \A t \in Threads : threads[t] = 0 BY <1>0 DEF Running
  <2> QED BY <1>0, <1>1, <2>1 DEF Current, Matches
<1>13. EveryHitIsTold BY <1>5 DEF EveryHitIsTold
<1> QED BY <1>7, <1>9, <1>10, <1>11, <1>12, <1>13 DEF IInv

\* Every step keeps the invariant.
LEMMA StepInv == IInv /\ [Next]_vars => IInv'
<1> SUFFICES ASSUME IInv, [Next]_vars PROVE IInv' OBVIOUS
<1>1. CASE \/ \E t \in Threads : Halt(t) \/ Resume(t)
           \/ Crash
  BY <1>1, ProverKeeps
<1>2. CASE Receive BY <1>2, ReceiveKeeps
<1>3. CASE \E c \in Calls : Acts(c) BY <1>3, ActsKeep
<1>4. CASE UNCHANGED vars
  <2>1. UNCHANGED <<process, living, shaken, logic, halted, inbox, swept, wire, threads, backlog,
                    table, lock, call, told, cut, spent>>
    BY <1>4, Zenon DEF vars, proverVars, clientVars, histVars
  <2>2. Typed /\ Session /\ Held /\ Steps /\ Current /\ EveryHitIsTold BY DEF IInv
  <2>3. Typed'
    <3>1. TableOK(table)' BY <2>1, <2>2 DEF Typed, TableOK, IsTable
    <3>2. Snapshots' = Snapshots BY DEF Snapshots
    <3>3. CallRecords' = CallRecords BY DEF CallRecords, Labels, Holdings
    <3>4. \A d \in Calls : Mine(d)' = Mine(d) BY <2>1 DEF Mine
    <3> QED BY <2>1, <2>2, <3>1, <3>2, <3>3, <3>4, Zenon DEF Typed
  <2>4. Session' BY <2>1, <2>2 DEF Session, Quiet, Live
  <2>5. Held' BY <2>1, <2>2 DEF Held, Mine, Live
  <2>6. Steps' BY <2>1, <2>2 DEF Steps, Mine, HitIds, Live
  <2>7. Current' BY <2>1, <2>2 DEF Current, Matches
  <2>8. EveryHitIsTold' BY <2>1, <2>2 DEF EveryHitIsTold, HitIds, Announced, At, Mine
  <2> QED BY <2>3, <2>4, <2>5, <2>6, <2>7, <2>8 DEF IInv
<1> QED BY <1>1, <1>2, <1>3, <1>4, Zenon DEF Next, Acts

\* The inductive invariant holds in every reachable state.
THEOREM Invariant == Spec => []IInv
BY InitInv, StepInv, PTL DEF Spec

\* Types: ids are live or retired once minted and never both, endings are of
\* the known kinds, and a call's hits are ids of this server's table.
THEOREM TypeCorrect == Spec => []TypeOK
<1>1. IInv => TypeOK
  <2> SUFFICES ASSUME IInv PROVE TypeOK OBVIOUS
  <2>0. Typed BY DEF IInv
  <2>1. TableOK(table) /\ {halted, threads} \subseteq Snapshots BY <2>0 DEF Typed
  <2>2. Range(wire) \cup Range(backlog) \subseteq Snapshots
    <3>1. ASSUME NEW q \in Seq(Snapshots) PROVE Range(q) \subseteq Snapshots BY DEF Range
    <3> QED BY <3>1, <2>0 DEF Typed
  <2>3. DOMAIN table.retired = HitIds \ Live /\ Live \subseteq HitIds
    BY <2>1 DEF TableOK, HitIds, Live
  <2>4. \A h \in Live : table.live[h] \in [thread : Threads, stack : 1..MaxHalts,
                                            stepping : BOOLEAN, ending : Endings]
    BY <2>1 DEF TableOK, Hits, Live
  <2>5. Range(table.retired) \subseteq Endings \ {"none"} BY <2>1 DEF TableOK, Range
  <2>6. table.notices \subseteq {"new", "ended"} \X HitIds BY <2>1 DEF TableOK, HitIds
  <2>7. \A c \in Calls : Mine(c) \subseteq HitIds /\ call[c].todo \subseteq Mine(c)
    BY <2>0 DEF Typed, HitIds
  <2>8. told \cup cut \subseteq HitIds BY <2>0 DEF Typed, HitIds
  <2> QED BY <2>0, <2>1, <2>2, <2>3, <2>4, <2>5, <2>6, <2>7, <2>8, Zenon DEF Typed, TypeOK
<1> QED BY <1>1, Invariant, PTL

\* _reconcile_live and sync_hits keep one live hit for each halt of the last
\* push, with its stack, whatever pushes came in between and whatever calls
\* adjusted meanwhile; a live hit of a running thread is being stepped.
THEOREM HitsPerHalt == Spec => []HitPerHalt
<1>1. IInv => HitPerHalt
  <2> SUFFICES ASSUME IInv PROVE HitPerHalt OBVIOUS
  <2>0. Typed /\ Steps /\ Current BY DEF IInv
  <2>1. \A g, h \in Live : table.live[g].thread = table.live[h].thread => g = h
    BY <2>0 DEF Typed, TableOK, Live
  <2>2. backlog = <<>> => Matches(table, threads, cut) BY <2>0, CurrentThen
  <2> QED BY <2>0, <2>1, <2>2 DEF HitPerHalt, Matches, Steps, Live
<1> QED BY <1>1, Invariant, PTL

\* The notice buffer, the refusals and the reports between them name every hit
\* that was minted, although a fold may both mint a hit and end it, and a call
\* may be cancelled at any await.
THEOREM NoHitPassesBy == Spec => []EveryHitIsTold
<1>1. IInv => EveryHitIsTold BY DEF IInv
<1> QED BY <1>1, Invariant, PTL

\* isabelle_launch, isabelle_terminate and the catastrophe handler leave a
\* settled prover, or none, to the next holder of _evaluation_state_lock.
THEOREM SettledSession == Spec => []SettledWhenFree
<1>1. IInv => SettledWhenFree
  <2> SUFFICES ASSUME IInv, lock = Nobody
               PROVE  /\ living \subseteq {process}
                      /\ process # 0 => shaken
                      /\ process = 0 => Live = {} /\ backlog = <<>>
    BY DEF SettledWhenFree
  <2>1. Session /\ Nobody \notin Calls BY SessionAssumption DEF IInv
  <2>2. \A c \in Calls : call[c].pc \notin Locking BY <2>1 DEF Session
  <2> QED BY <2>1, <2>2 DEF Session, Quiet, Locking, Launching
<1> QED BY <1>1, Invariant, PTL
=============================================================================
