----------------------------- MODULE DataLemmas -----------------------------
(***************************************************************************)
(* What the proofs about the components need to know of numbers, sets of   *)
(* numbers and queues.  The least element of a set of naturals stands in   *)
(* for induction: a counterexample that is least has no smaller one.       *)
(***************************************************************************)
EXTENDS Integers, Sequences, FiniteSetsExt, WellFoundedInduction, TLAPS

\* Every nonempty set of natural numbers has a least element.
LEMMA Least ==
  ASSUME NEW T \in SUBSET Nat, T # {}
  PROVE  \E n \in T : \A m \in T : n <= m
<1> DEFINE R == {ss \in Nat \X Nat : ss[1] < ss[2]}
<1>1. IsWellFoundedOn(OpToRel(<, Nat), Nat) BY NatLessThanWellFounded, Zenon
<1>2. IsWellFoundedOn(R, Nat) BY <1>1, Zenon DEF OpToRel
<1> HIDE DEF R
<1>3. PICK x \in T : \A y \in T : ~ (<<y, x>> \in R) BY <1>2, WFMin
<1>4. \A y \in T : ~(y < x) BY <1>3 DEF R
<1> QED BY <1>4

\* A nonempty bounded one has a greatest element, and it is its Max.
LEMMA Greatest ==
  ASSUME NEW k \in Nat, NEW T \in SUBSET (0..k), T # {}
  PROVE  \E n \in T : \A m \in T : m <= n
<1> DEFINE D == {k - x : x \in T}
<1>1. D \in SUBSET Nat
  <2>1. \A x \in T : x \in 0..k OBVIOUS
  <2> QED BY <2>1
<1>a. D # {}
  <2>1. PICK x \in T : TRUE OBVIOUS
  <2>2. k - x \in D OBVIOUS
  <2> QED BY <2>2
<1>2. PICK d \in D : \A e \in D : d <= e BY <1>1, <1>a, Least
<1>3. PICK n \in T : d = k - n BY <1>2
<1>4. ASSUME NEW m \in T PROVE m <= n
  <2>1. k - m \in D OBVIOUS
  <2> QED BY <2>1, <1>2, <1>3
<1> QED BY <1>4

LEMMA MaxIsGreatest ==
  ASSUME NEW k \in Nat, NEW T \in SUBSET (0..k), T # {}
  PROVE  Max(T) \in T /\ \A m \in T : m <= Max(T)
<1>1. \E n \in T : \A m \in T : n >= m BY Greatest
<1>2. Max(T) \in T /\ \A m \in T : Max(T) >= m BY <1>1 DEF Max
<1> QED BY <1>2

-----------------------------------------------------------------------------
(* Counting the messages of one kind in a queue: at[i] is the number the    *)
(* first i of them take the count to.                                       *)

Numbering(at, queue, kind, from, upto) ==
  /\ at \in [0..Len(queue) -> Nat]
  /\ at[0] = from /\ at[Len(queue)] = upto
  /\ \A i \in 1..Len(queue) : at[i] = IF queue[i] = kind THEN at[i - 1] + 1 ELSE at[i - 1]
  /\ \A i, j \in 0..Len(queue) : i <= j => at[i] <= at[j]

\* upto - from messages of the kind are in the queue.
Numbered(queue, kind, from, upto) == \E at : Numbering(at, queue, kind, from, upto)

LEMMA NumberedEmpty ==
  ASSUME NEW kind, NEW from \in Nat
  PROVE  Numbered(<<>>, kind, from, from)
<1> DEFINE at == [i \in 0..0 |-> from]
<1>1. Numbering(at, <<>>, kind, from, from) BY DEF Numbering
<1> QED BY <1>1 DEF Numbered

\* A message more at the end.
LEMMA NumberedAppend ==
  ASSUME NEW S, NEW queue \in Seq(S), NEW m \in S, NEW kind, NEW from, NEW upto,
         Numbered(queue, kind, from, upto)
  PROVE  /\ upto \in Nat
         /\ Numbered(Append(queue, m), kind, from, IF m = kind THEN upto + 1 ELSE upto)
<1>1. PICK at : Numbering(at, queue, kind, from, upto) BY DEF Numbered
<1> DEFINE q == Append(queue, m)
           top == IF m = kind THEN upto + 1 ELSE upto
           new == [i \in 0..Len(q) |-> IF i = Len(q) THEN top ELSE at[i]]
<1>2. Len(queue) \in Nat /\ Len(q) = Len(queue) + 1 OBVIOUS
<1>3. \A i \in 1..Len(queue) : q[i] = queue[i] OBVIOUS
<1>4. q[Len(q)] = m OBVIOUS
<1>5. upto \in Nat /\ top \in Nat /\ \A i \in 0..Len(queue) : at[i] <= upto
  BY <1>1, <1>2 DEF Numbering
<1> HIDE DEF q
<1>6. new \in [0..Len(q) -> Nat] BY <1>1, <1>2, <1>5 DEF Numbering
<1>7. new[0] = from /\ new[Len(q)] = top BY <1>1, <1>2 DEF Numbering
<1> HIDE DEF top
<1>8. \A i \in 1..Len(q) : new[i] = IF q[i] = kind THEN new[i - 1] + 1 ELSE new[i - 1]
  <2>1. SUFFICES ASSUME NEW i \in 1..Len(q)
                 PROVE new[i] = IF q[i] = kind THEN new[i - 1] + 1 ELSE new[i - 1]
    OBVIOUS
  <2>2. CASE i = Len(q)
    <3>1. new[i] = top /\ new[i - 1] = upto /\ q[i] = m
      BY <2>2, <1>1, <1>2, <1>4 DEF Numbering
    <3> QED BY <3>1 DEF top
  <2>3. CASE i # Len(q)
    <3>1. i \in 1..Len(queue) /\ new[i] = at[i] /\ new[i - 1] = at[i - 1] BY <2>3, <1>2
    <3> QED BY <3>1, <1>1, <1>3 DEF Numbering
  <2> QED BY <2>2, <2>3
<1>9. \A i, j \in 0..Len(q) : i <= j => new[i] <= new[j]
  <2>1. \A i \in 0..Len(queue) : new[i] = at[i] /\ at[i] \in Nat BY <1>1, <1>2 DEF Numbering
  <2>2. upto <= top BY <1>5 DEF top
  <2>3. SUFFICES ASSUME NEW i \in 0..Len(q), NEW j \in 0..Len(q), i <= j
                 PROVE  new[i] <= new[j]
    OBVIOUS
  <2>4. CASE j = Len(q) /\ i = j BY <2>4, <1>7, <1>5
  <2>5. CASE j = Len(q) /\ i # j
    <3>1. i \in 0..Len(queue) BY <2>5, <1>2
    <3>2. new[i] <= upto /\ new[i] \in Nat BY <3>1, <2>1, <1>5
    <3> HIDE DEF new
    <3> QED BY <3>2, <2>2, <2>5, <1>5, <1>7
  <2>6. CASE j # Len(q)
    <3>1. i \in 0..Len(queue) /\ j \in 0..Len(queue) BY <2>6, <2>3, <1>2
    <3>2. at[i] <= at[j] BY <3>1, <2>3, <1>1 DEF Numbering
    <3> QED BY <3>1, <3>2, <2>1
  <2> QED BY <2>4, <2>5, <2>6
<1> HIDE DEF new
<1>10. Numbering(new, q, kind, from, top) BY <1>6, <1>7, <1>8, <1>9 DEF Numbering
<1> QED BY <1>10, <1>5 DEF Numbered, q, top

\* The first message taken away.
LEMMA NumberedTail ==
  ASSUME NEW S, NEW queue \in Seq(S), queue # <<>>, NEW kind, NEW from, NEW upto,
         Numbered(queue, kind, from, upto)
  PROVE  /\ from \in Nat /\ upto \in Nat
         /\ IF Head(queue) = kind
            THEN from + 1 <= upto /\ Numbered(Tail(queue), kind, from + 1, upto)
            ELSE Numbered(Tail(queue), kind, from, upto)
<1>1. PICK at : Numbering(at, queue, kind, from, upto) BY DEF Numbered
<1> DEFINE q == Tail(queue)
           low == IF Head(queue) = kind THEN from + 1 ELSE from
           new == [i \in 0..Len(q) |-> at[i + 1]]
<1>2. Len(queue) \in Nat \ {0} /\ Len(q) = Len(queue) - 1 OBVIOUS
<1>3. \A i \in 1..Len(q) : q[i] = queue[i + 1] OBVIOUS
<1>4. Head(queue) = queue[1] OBVIOUS
<1> HIDE DEF q
<1>5. from \in Nat /\ upto \in Nat /\ at[1] = low /\ low <= upto
  BY <1>1, <1>2, <1>4 DEF Numbering
<1>6. Numbering(new, q, kind, low, upto) BY <1>1, <1>2, <1>3, <1>5 DEF Numbering
<1> QED BY <1>5, <1>6 DEF Numbered, q

-----------------------------------------------------------------------------
(* Sequences.                                                              *)

LEMMA Appended ==
  ASSUME NEW S, NEW q \in Seq(S), NEW m \in S
  PROVE  /\ Append(q, m) \in Seq(S) /\ Len(Append(q, m)) = Len(q) + 1
         /\ \A i \in 1 .. Len(q) : Append(q, m)[i] = q[i]
         /\ Append(q, m)[Len(q) + 1] = m
OBVIOUS

LEMMA Shifted ==
  ASSUME NEW S, NEW q \in Seq(S), q # <<>>
  PROVE  /\ Tail(q) \in Seq(S) /\ Len(Tail(q)) = Len(q) - 1 /\ Len(q) \in Nat \ {0}
         /\ Head(q) \in S /\ Head(q) = q[1]
         /\ \A i \in 1 .. Len(Tail(q)) : Tail(q)[i] = q[i + 1]
OBVIOUS

LEMMA Joined ==
  ASSUME NEW S, NEW q \in Seq(S), NEW r \in Seq(S)
  PROVE  /\ q \o r \in Seq(S) /\ Len(q \o r) = Len(q) + Len(r)
         /\ \A i \in 1 .. Len(q) : (q \o r)[i] = q[i]
         /\ \A i \in 1 .. Len(r) : (q \o r)[Len(q) + i] = r[i]
         /\ \A i \in Len(q) + 1 .. Len(q) + Len(r) : (q \o r)[i] = r[i - Len(q)]
OBVIOUS

-----------------------------------------------------------------------------
(* The places of a queue that hold a message of some set.                  *)

Places(queue, S) == {i \in 1 .. Len(queue) : queue[i] \in S}

LEMMA PlacesAppended ==
  ASSUME NEW M, NEW q \in Seq(M), NEW m \in M, NEW S
  PROVE  /\ m \in S => Places(Append(q, m), S) = Places(q, S) \cup {Len(q) + 1}
         /\ m \notin S => Places(Append(q, m), S) = Places(q, S)
<1>1. /\ Len(Append(q, m)) = Len(q) + 1 /\ Len(q) \in Nat
      /\ \A i \in 1 .. Len(q) : Append(q, m)[i] = q[i]
      /\ Append(q, m)[Len(q) + 1] = m
  BY Appended
<1> QED BY <1>1 DEF Places

LEMMA PlacesTail ==
  ASSUME NEW M, NEW q \in Seq(M), q # <<>>, NEW S
  PROVE  /\ \A i \in Places(Tail(q), S) : i + 1 \in Places(q, S)
         /\ \A i \in Places(q, S) : i # 1 => i - 1 \in Places(Tail(q), S)
         /\ 1 \in Places(q, S) <=> Head(q) \in S
         /\ Places(q, S) \subseteq 1 .. Len(q) /\ Len(q) \in Nat
<1>1. /\ Len(Tail(q)) = Len(q) - 1 /\ Len(q) \in Nat \ {0} /\ Head(q) = q[1]
      /\ \A i \in 1 .. Len(Tail(q)) : Tail(q)[i] = q[i + 1]
  BY Shifted
<1> QED BY <1>1 DEF Places

LEMMA PlacesJoined ==
  ASSUME NEW M, NEW q \in Seq(M), NEW r \in Seq(M), NEW S,
         \A i \in 1 .. Len(r) : r[i] \notin S
  PROVE  Places(q \o r, S) = Places(q, S)
<1>1. /\ Len(q \o r) = Len(q) + Len(r) /\ Len(q) \in Nat /\ Len(r) \in Nat
      /\ \A i \in 1 .. Len(q) : (q \o r)[i] = q[i]
      /\ \A i \in Len(q) + 1 .. Len(q) + Len(r) : (q \o r)[i] = r[i - Len(q)]
  BY Joined
<1>2. \A i \in Len(q) + 1 .. Len(q) + Len(r) : (q \o r)[i] \notin S
  <2> TAKE i \in Len(q) + 1 .. Len(q) + Len(r)
  <2>1. i - Len(q) \in 1 .. Len(r) BY <1>1
  <2> QED BY <2>1, <1>1
<1> QED BY <1>1, <1>2 DEF Places

Once(queue, S) == \A i, j \in Places(queue, S) : i = j

=============================================================================
