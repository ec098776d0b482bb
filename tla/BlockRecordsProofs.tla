------------------------- MODULE BlockRecordsProofs -------------------------
(***************************************************************************)
(* Proofs about BlockRecords: whatever the pools and queues start with,    *)
(* however many cores there are and whatever blocks are refused, an entry  *)
(* of an authorizer pool authorizes at most one report; the activity       *)
(* records are those of the log, whatever epochs are skipped; and the      *)
(* beefy roots of the recent blocks commit to every block up to theirs.    *)
(***************************************************************************)
EXTENDS BlockRecords, FiniteSetTheorems, WellFoundedInduction, TLAPS

-----------------------------------------------------------------------------
(* Counting the occurrences of an element of a sequence.                   *)

Places(s, P, x) == {i \in P : s[i] = x}

LEMMA PlacesFinite ==
  ASSUME NEW S, NEW s \in Seq(S), NEW P \in SUBSET DOMAIN s, NEW x
  PROVE  IsFiniteSet(Places(s, P, x)) /\ Cardinality(Places(s, P, x)) \in Nat
<1>1. IsFiniteSet(1..Len(s))
  BY FS_Interval
<1>2. Places(s, P, x) \in SUBSET (1..Len(s))
  BY DEF Places
<1>3. IsFiniteSet(Places(s, P, x))
  BY <1>1, <1>2, FS_Subset
<1> QED
  BY <1>3, FS_CardinalityType

LEMMA OccurrencesType ==
  ASSUME NEW S, NEW s \in Seq(S), NEW x
  PROVE  Occurrences(s, x) \in Nat
<1>1. Occurrences(s, x) = Cardinality(Places(s, DOMAIN s, x))
  BY DEF Occurrences, Places
<1> QED
  BY <1>1, PlacesFinite

\* A sequence drawn from the places P of s, each of them used once, has an
\* element at most as often as s has it there.
LEMMA DrawnOnce ==
  ASSUME NEW S, NEW s \in Seq(S), NEW t \in Seq(S), NEW P \in SUBSET DOMAIN s,
         NEW from \in [DOMAIN t -> P],
         \A i \in DOMAIN t : t[i] = s[from[i]],
         \A i, j \in DOMAIN t : from[i] = from[j] => i = j,
         NEW x
  PROVE  Occurrences(t, x) <= Cardinality(Places(s, P, x))
<1> DEFINE A == {i \in DOMAIN t : t[i] = x}
           B == Places(s, P, x)
           f == [i \in A |-> from[i]]
<1>1. f \in [A -> B]
  BY DEF Places
<1>2. \A i, j \in A : f[i] = f[j] => i = j
  OBVIOUS
<1>3. f \in Injection(A, B)
  BY <1>1, <1>2 DEF Injection, IsInjective
<1>4. IsFiniteSet(B)
  BY PlacesFinite
<1> HIDE DEF A, B, f
<1>5. Cardinality(A) <= Cardinality(B)
  BY <1>3, <1>4, FS_Injection
<1> QED
  BY <1>5 DEF Occurrences, A, B

LEMMA OccurrencesAppend ==
  ASSUME NEW S, NEW s \in Seq(S), NEW z \in S, NEW x
  PROVE  Occurrences(Append(s, z), x) =
           IF z = x THEN Occurrences(s, x) + 1 ELSE Occurrences(s, x)
<1> DEFINE A == {i \in DOMAIN s : s[i] = x}
           B == {i \in DOMAIN Append(s, z) : Append(s, z)[i] = x}
           last_ == Len(s) + 1
<1>1. IsFiniteSet(A) /\ last_ \notin A
  <2>1. A = Places(s, DOMAIN s, x)
    BY DEF Places
  <2>2. IsFiniteSet(A)
    BY <2>1, PlacesFinite
  <2> QED
    BY <2>2
<1>2. /\ DOMAIN Append(s, z) = 1..(Len(s) + 1)
      /\ \A i \in 1..Len(s) : Append(s, z)[i] = s[i]
      /\ Append(s, z)[last_] = z
  OBVIOUS
<1>3. B = IF z = x THEN A \cup {last_} ELSE A
  BY <1>2
<1>4. Occurrences(s, x) = Cardinality(A) /\ Occurrences(Append(s, z), x) = Cardinality(B)
  BY DEF Occurrences
<1> HIDE DEF A, B, last_
<1> QED
  BY <1>1, <1>3, <1>4, FS_AddElement

-----------------------------------------------------------------------------
(* What a block does to a pool.                                            *)

\* Trimming a pool keeps its newest n entries.
LEMMA NewestBounds ==
  ASSUME NEW S, NEW s \in Seq(S), s # <<>>, NEW n \in Nat \ {0}
  PROVE  /\ Newest(s, n) \in Seq(S)
         /\ Len(Newest(s, n)) <= n
         /\ \A x : Occurrences(Newest(s, n), x) <= Occurrences(s, x)
<1> DEFINE m == Max({1, Len(s) - n + 1})
<1>1. m \in 1..Len(s) /\ Len(s) - m + 1 <= n
  <2>1. Len(s) \in Nat /\ Len(s) >= 1
    OBVIOUS
  <2>2. m = IF Len(s) - n + 1 > 1 THEN Len(s) - n + 1 ELSE 1
    BY <2>1 DEF Max
  <2> QED
    BY <2>1, <2>2
<1> HIDE DEF m
<1>2. Newest(s, n) = SubSeq(s, m, Len(s))
  BY DEF Newest, m
<1>3. /\ Newest(s, n) \in Seq(S)
      /\ Len(Newest(s, n)) = Len(s) - m + 1
      /\ \A i \in 1..(Len(s) - m + 1) : Newest(s, n)[i] = s[m + i - 1]
  BY <1>1, <1>2
<1>4. ASSUME NEW x PROVE Occurrences(Newest(s, n), x) <= Occurrences(s, x)
  <2> DEFINE t == Newest(s, n)
             from == [i \in DOMAIN t |-> m + i - 1]
  <2>0. m \in Nat /\ m >= 1 /\ DOMAIN t = 1..(Len(s) - m + 1) /\ DOMAIN s = 1..Len(s)
    BY <1>1, <1>3
  <2>1. /\ from \in [DOMAIN t -> DOMAIN s]
        /\ \A i \in DOMAIN t : t[i] = s[from[i]]
    <3>1. \A i \in DOMAIN t : m + i - 1 \in DOMAIN s
      BY <2>0
    <3>2. \A i \in DOMAIN t : t[i] = s[m + i - 1]
      BY <1>3, <2>0
    <3> QED
      BY <3>1, <3>2
  <2>2. \A i, j \in DOMAIN t : from[i] = from[j] => i = j
    <3>1. \A i \in DOMAIN t : i \in Nat /\ from[i] = m + i - 1
      BY <2>0
    <3> HIDE DEF from
    <3> QED
      BY <2>0, <3>1
  <2>3. t \in Seq(S)
    BY <1>3
  <2> HIDE DEF from, t
  <2>4. Occurrences(t, x) <= Cardinality(Places(s, DOMAIN s, x))
    BY <2>1, <2>2, <2>3, DrawnOnce
  <2> QED
    BY <2>4 DEF Occurrences, Places, t
<1> QED
  BY <1>1, <1>3, <1>4

\* A set of numbers has a least one.
LEMMA LeastPlace ==
  ASSUME NEW T, T \subseteq Nat, T # {}
  PROVE  Min(T) \in T /\ \A y \in T : Min(T) <= y
<1> DEFINE R == OpToRel(<, Nat)
<1>1. IsWellFoundedOn(R, Nat)
  BY NatLessThanWellFounded
<1>2. \A x, y \in Nat : <<y, x>> \in R <=> y < x
  BY DEF OpToRel
<1> HIDE DEF R
<1>3. PICK x \in T : \A y \in T : ~ (<<y, x>> \in R)
  BY <1>1, WFMin
<1>4. ASSUME NEW y \in T PROVE x <= y
  <2>1. x \in Nat /\ y \in Nat /\ ~ (<<y, x>> \in R)
    BY <1>3
  <2>2. ~ (y < x)
    BY <1>2, <2>1
  <2> QED
    BY <2>1, <2>2
<1> QED
  BY <1>4 DEF Min

LEMMA Joined ==
  ASSUME NEW S, NEW u \in Seq(S), NEW w \in Seq(S)
  PROVE  /\ u \o w \in Seq(S) /\ Len(u \o w) = Len(u) + Len(w)
         /\ \A i \in 1..Len(u) : (u \o w)[i] = u[i]
         /\ \A i \in (Len(u) + 1)..(Len(u) + Len(w)) : (u \o w)[i] = w[i - Len(u)]
<1>1. u \o w \in Seq(S)
  OBVIOUS
<1>2. Len(u \o w) = Len(u) + Len(w)
  OBVIOUS
<1>3. \A i \in 1..Len(u) : (u \o w)[i] = u[i]
  OBVIOUS
<1>4. \A i \in (Len(u) + 1)..(Len(u) + Len(w)) : (u \o w)[i] = w[i - Len(u)]
  OBVIOUS
<1> QED
  BY <1>1, <1>2, <1>3, <1>4

\* Using an authorizer takes one entry of it, and none of another, out of the
\* pool.
LEMMA ConsumeCounts ==
  ASSUME NEW S, NEW s \in Seq(S), NEW a
  PROVE  /\ Consume(s, a) \in Seq(S)
         /\ \A x : Occurrences(Consume(s, a), x) <= Occurrences(s, x)
         /\ Contains(s, a) => Occurrences(Consume(s, a), a) + 1 <= Occurrences(s, a)
<1>0. \A x : Occurrences(s, x) \in Nat
  BY OccurrencesType
<1>1. CASE ~ Contains(s, a)
  BY <1>0, <1>1 DEF Consume
<1>2. CASE Contains(s, a)
  <2> DEFINE I == {i \in 1..Len(s) : s[i] = a}
             k == Min(I)
             t == RemoveAt(s, k)
             P == DOMAIN s \ {k}
  <2>1. k \in 1..Len(s) /\ s[k] = a
    <3>1. I # {} /\ I \subseteq Nat
      BY <1>2 DEF Contains
    <3>2. k \in I
      BY <3>1, LeastPlace
    <3> QED
      BY <3>2
  <2>2. Consume(s, a) = t
    <3>1. I # {}
      BY <1>2 DEF Contains
    <3> QED
      BY <1>2, <3>1 DEF Consume, Contains, RemoveFirst, SelectInSeq
  <2> HIDE DEF I, k
  <2>3. /\ t \in Seq(S) /\ Len(t) = Len(s) - 1
        /\ \A i \in 1..(Len(s) - 1) : t[i] = IF i < k THEN s[i] ELSE s[i + 1]
    <3> DEFINE u == SubSeq(s, 1, k - 1)
               w == SubSeq(s, k + 1, Len(s))
    <3>1. /\ u \in Seq(S) /\ Len(u) = k - 1
          /\ \A i \in 1..(k - 1) : u[i] = s[i]
      BY <2>1
    <3>2. /\ w \in Seq(S) /\ Len(w) = Len(s) - k
          /\ \A i \in 1..(Len(s) - k) : w[i] = s[k + i]
      BY <2>1
    <3>3. t = u \o w
      BY DEF RemoveAt
    <3> HIDE DEF u, w, t
    <3>4. /\ t \in Seq(S) /\ Len(t) = Len(s) - 1
          /\ \A i \in 1..(k - 1) : t[i] = u[i]
          /\ \A i \in k..(Len(s) - 1) : t[i] = w[i - (k - 1)]
      <4>1. /\ t \in Seq(S) /\ Len(t) = Len(u) + Len(w)
            /\ \A i \in 1..Len(u) : t[i] = u[i]
            /\ \A i \in (Len(u) + 1)..(Len(u) + Len(w)) : t[i] = w[i - Len(u)]
        BY <3>1, <3>2, <3>3, Joined
      <4>2. /\ Len(u) + Len(w) = Len(s) - 1 /\ Len(u) + 1 = k
        BY <2>1, <3>1, <3>2
      <4> QED
        BY <3>1, <4>1, <4>2
    <3>5. \A i \in k..(Len(s) - 1) : i - (k - 1) \in 1..(Len(s) - k) /\ k + (i - (k - 1)) = i + 1
      BY <2>1
    <3>6. ASSUME NEW i \in 1..(Len(s) - 1)
          PROVE  t[i] = IF i < k THEN s[i] ELSE s[i + 1]
      <4>1. CASE i < k
        <5>1. i \in 1..(k - 1)
          BY <2>1, <4>1
        <5> QED
          BY <3>1, <3>4, <4>1, <5>1
      <4>2. CASE ~ (i < k)
        <5>1. i \in k..(Len(s) - 1)
          BY <2>1, <4>2
        <5>2. t[i] = w[i - (k - 1)]
          BY <3>4, <5>1
        <5>3. w[i - (k - 1)] = s[k + (i - (k - 1))]
          BY <3>2, <3>5, <5>1
        <5> QED
          BY <3>5, <4>2, <5>1, <5>2, <5>3
      <4> QED
        BY <4>1, <4>2
    <3> HIDE DEF k
    <3> QED
      BY <3>4, <3>6
  <2>4. ASSUME NEW x
        PROVE  Occurrences(t, x) <= Cardinality(Places(s, P, x))
    <3> DEFINE from == [i \in DOMAIN t |-> IF i < k THEN i ELSE i + 1]
    <3>1. from \in [DOMAIN t -> P] /\ \A i \in DOMAIN t : t[i] = s[from[i]]
      BY <2>1, <2>3
    <3>2. \A i, j \in DOMAIN t : from[i] = from[j] => i = j
      BY <2>1, <2>3
    <3>3. t \in Seq(S) /\ P \in SUBSET DOMAIN s
      BY <2>3
    <3> HIDE DEF from, t, P
    <3> QED
      BY <3>1, <3>2, <3>3, DrawnOnce
  <2> HIDE DEF t
  <2>5. ASSUME NEW x
        PROVE  /\ x # a => Cardinality(Places(s, P, x)) = Occurrences(s, x)
               /\ x = a => Cardinality(Places(s, P, x)) = Occurrences(s, x) - 1
    <3> DEFINE A == {i \in DOMAIN s : s[i] = x}
    <3>1. IsFiniteSet(A)
      <4>1. A = Places(s, DOMAIN s, x)
        BY DEF Places
      <4> QED
        BY <4>1, PlacesFinite
    <3>2. Places(s, P, x) = A \ {k} /\ Occurrences(s, x) = Cardinality(A)
      BY DEF Places, Occurrences
    <3>3. k \in A <=> x = a
      BY <2>1
    <3> HIDE DEF A
    <3> QED
      BY <3>1, <3>2, <3>3, FS_RemoveElement
  <2>6. \A x : Occurrences(t, x) \in Nat
    BY <2>3, OccurrencesType
  <2>7. ASSUME NEW x PROVE Occurrences(t, x) <= Occurrences(s, x)
    <3>2. Cardinality(Places(s, P, x)) \in Nat
      BY PlacesFinite
    <3> HIDE DEF P
    <3>0. Occurrences(s, x) \in Nat
      BY <1>0
    <3>1. Cardinality(Places(s, P, x)) <= Occurrences(s, x)
      <4>1. CASE x = a
        <5>1. Cardinality(Places(s, P, x)) = Occurrences(s, x) - 1
          BY <2>5, <4>1
        <5> QED
          BY <3>0, <5>1
      <4>2. CASE x # a
        <5>1. Cardinality(Places(s, P, x)) = Occurrences(s, x)
          BY <2>5, <4>2
        <5> QED
          BY <3>0, <5>1
      <4> QED
        BY <4>1, <4>2
    <3> QED
      BY <1>0, <2>4, <2>6, <3>1, <3>2
  <2>8. Occurrences(t, a) + 1 <= Occurrences(s, a)
    <3>1. Occurrences(t, a) <= Cardinality(Places(s, P, a))
      BY <2>4
    <3>2. Cardinality(Places(s, P, a)) = Occurrences(s, a) - 1
      BY <2>5
    <3>3. Occurrences(t, a) \in Nat /\ Occurrences(s, a) \in Nat
      BY <1>0, <2>6
    <3> QED
      BY <3>1, <3>2, <3>3
  <2> QED
    BY <2>2, <2>3, <2>7, <2>8
<1> QED
  BY <1>1, <1>2

-----------------------------------------------------------------------------
(* The pools, the queues and the two counts.                               *)

Counts == [Cores -> [Authorizers -> Nat]]

IInv ==
  /\ tau \in Nat
  /\ alpha \in [Cores -> Seq(Authorizers)]
  /\ phi \in [Cores -> Seq(Authorizers) \ {<<>>}]
  /\ issued \in Counts /\ used \in Counts
  /\ AuthorizedOnce

LEMMA InitInv == Init => IInv
<1> SUFFICES ASSUME Init PROVE IInv
  OBVIOUS
<1>1. alpha \in [Cores -> Seq(Authorizers)] /\ tau \in Nat /\ used \in Counts
  BY BlockRecordsConstants DEF Init, Counts
<1>2. phi \in [Cores -> Seq(Authorizers) \ {<<>>}]
  BY BlockRecordsConstants DEF Init
<1>3. \A c \in Cores, a \in Authorizers : Occurrences(FirstPools[c], a) \in Nat
  BY BlockRecordsConstants, OccurrencesType
<1>4. issued \in Counts
  BY <1>3 DEF Init, Counts
<1>5. AuthorizedOnce
  <2>1. \A c \in Cores : Len(alpha[c]) <= MaxPool
    BY BlockRecordsConstants DEF Init
  <2>2. ASSUME NEW c \in Cores, NEW a \in Authorizers
        PROVE  used[c][a] + Occurrences(alpha[c], a) <= issued[c][a]
    <3>1. /\ used[c][a] = 0 /\ alpha[c] = FirstPools[c]
          /\ issued[c][a] = Occurrences(FirstPools[c], a)
      BY DEF Init
    <3> QED
      BY <1>3, <3>1
  <2> QED
    BY <2>1, <2>2 DEF AuthorizedOnce
<1> QED
  BY <1>1, <1>2, <1>4, <1>5 DEF IInv

\* The queue gives every core an authorizer for the slot.
LEMMA ScheduledType ==
  ASSUME IInv, NEW slot \in Nat, NEW c \in Cores
  PROVE  Scheduled(c, slot) \in Authorizers
<1> DEFINE q == phi[c]
<1>1. q \in Seq(Authorizers) /\ q # <<>>
  BY DEF IInv
<1> HIDE DEF q
<1>2. Len(q) \in Nat /\ Len(q) > 0
  BY <1>1
<1>3. slot % Len(q) \in 0..(Len(q) - 1)
  BY <1>2
<1>4. (slot % Len(q)) + 1 \in 1..Len(q)
  BY <1>2, <1>3
<1>5. q[(slot % Len(q)) + 1] \in Authorizers
  BY <1>1, <1>4
<1> QED
  BY <1>5 DEF Scheduled, q

\* A pool after a block: what a report took is gone, what came is counted.
LEMMA PoolStep ==
  ASSUME IInv, NEW slot \in Nat, NEW reports \in Extrinsics, NEW c \in Cores
  PROVE  LET pool == NextAuthPools(reports, slot)[c]
         IN  /\ pool \in Seq(Authorizers) /\ Len(pool) <= MaxPool
             /\ \A a \in Authorizers :
                  Occurrences(pool, a) <=
                    Occurrences(alpha[c], a) + (IF a = Scheduled(c, slot) THEN 1 ELSE 0)
             /\ \A a \in Authorizers :
                  c \in DOMAIN reports /\ a = reports[c] /\ Contains(alpha[c], a) =>
                  Occurrences(pool, a) + 1 <=
                    Occurrences(alpha[c], a) + (IF a = Scheduled(c, slot) THEN 1 ELSE 0)
<1> DEFINE z == Scheduled(c, slot)
           left == IF c \in DOMAIN reports THEN Consume(alpha[c], reports[c]) ELSE alpha[c]
           pool == NextAuthPools(reports, slot)[c]
           grown == Append(left, z)
<1>1. z \in Authorizers /\ alpha[c] \in Seq(Authorizers)
  BY ScheduledType DEF IInv
<1>2. /\ left \in Seq(Authorizers)
      /\ \A a : Occurrences(left, a) <= Occurrences(alpha[c], a)
      /\ \A a : c \in DOMAIN reports /\ a = reports[c] /\ Contains(alpha[c], a) =>
                Occurrences(left, a) + 1 <= Occurrences(alpha[c], a)
  <2>1. \A a : Occurrences(alpha[c], a) \in Nat
    BY <1>1, OccurrencesType
  <2>2. CASE c \in DOMAIN reports
    BY <1>1, <2>2, ConsumeCounts
  <2>3. CASE c \notin DOMAIN reports
    BY <1>1, <2>1, <2>3
  <2> QED
    BY <2>2, <2>3
<1>3. pool = Newest(grown, MaxPool)
  BY DEF NextAuthPools
<1> HIDE DEF left, pool
<1>4. grown \in Seq(Authorizers) /\ grown # <<>>
  BY <1>1, <1>2
<1>5. \A a : Occurrences(grown, a) = IF z = a THEN Occurrences(left, a) + 1 ELSE Occurrences(left, a)
  BY <1>1, <1>2, OccurrencesAppend
<1> HIDE DEF z, grown
<1>6. MaxPool \in Nat \ {0}
  BY BlockRecordsConstants
<1>7. /\ pool \in Seq(Authorizers) /\ Len(pool) <= MaxPool
      /\ \A a : Occurrences(pool, a) <= Occurrences(grown, a)
  BY <1>3, <1>4, <1>6, NewestBounds
<1>8. \A a : /\ Occurrences(pool, a) \in Nat /\ Occurrences(grown, a) \in Nat
             /\ Occurrences(left, a) \in Nat /\ Occurrences(alpha[c], a) \in Nat
  BY <1>1, <1>2, <1>4, <1>7, OccurrencesType
<1>9. ASSUME NEW a \in Authorizers
      PROVE  Occurrences(pool, a) <= Occurrences(left, a) + (IF a = z THEN 1 ELSE 0)
  BY <1>5, <1>7, <1>8
<1> QED
  <2>1. ASSUME NEW a \in Authorizers
        PROVE  Occurrences(pool, a) <= Occurrences(alpha[c], a) + (IF a = z THEN 1 ELSE 0)
    BY <1>2, <1>8, <1>9
  <2>2. ASSUME NEW a \in Authorizers,
               c \in DOMAIN reports, a = reports[c], Contains(alpha[c], a)
        PROVE  Occurrences(pool, a) + 1 <= Occurrences(alpha[c], a) + (IF a = z THEN 1 ELSE 0)
    <3>1. Occurrences(left, a) + 1 <= Occurrences(alpha[c], a)
      BY <1>2, <2>2
    <3> QED
      BY <1>8, <1>9, <3>1
  <2> QED
    BY <1>7, <2>1, <2>2 DEF z, pool

LEMMA ImportBlockInv ==
  ASSUME IInv, NEW slot \in Nat, NEW reports \in Extrinsics, NEW assurers,
         NEW refusing, ImportBlock(slot, reports, assurers, refusing)
  PROVE  IInv'
<1> DEFINE z(c) == Scheduled(c, slot)
           takes(c, a) == /\ "reports" \notin refusing /\ c \in DOMAIN reports
                          /\ a = reports[c]
<1>1. alpha' = NextAuthPools(reports, slot)
  BY DEF ImportBlock
<1>2. DOMAIN reports \subseteq Cores /\ \A c \in DOMAIN reports : reports[c] \in Authorizers
  <2>1. PICK cores \in SUBSET Cores : reports \in [cores -> Authorizers]
    BY BlockRecordsConstants
  <2> QED
    BY <2>1
<1>3. /\ issued' = [c \in Cores |-> [issued[c] EXCEPT ![z(c)] = @ + 1]]
      /\ used' = [c \in Cores |->
           IF "reports" \notin refusing /\ c \in DOMAIN reports
             THEN [used[c] EXCEPT ![reports[c]] = @ + 1] ELSE used[c]]
  BY DEF ImportBlock, Record
<1>4. \A c \in Cores : z(c) \in Authorizers
  BY ScheduledType
<1> HIDE DEF z
<1>5. ASSUME NEW c \in Cores, NEW a \in Authorizers
      PROVE  /\ issued[c][a] \in Nat /\ used[c][a] \in Nat
             /\ issued'[c][a] = issued[c][a] + (IF a = z(c) THEN 1 ELSE 0)
             /\ used'[c][a] = used[c][a] + (IF takes(c, a) THEN 1 ELSE 0)
  <2>1. issued[c] \in [Authorizers -> Nat] /\ used[c] \in [Authorizers -> Nat]
    BY DEF IInv, Counts
  <2>2. issued'[c] = [issued[c] EXCEPT ![z(c)] = @ + 1]
    BY <1>3
  <2>3. issued'[c][a] = issued[c][a] + (IF a = z(c) THEN 1 ELSE 0)
    BY <1>4, <2>1, <2>2
  <2>4. used'[c][a] = used[c][a] + (IF takes(c, a) THEN 1 ELSE 0)
    BY <1>2, <1>3, <2>1
  <2> QED
    BY <2>1, <2>3, <2>4
<1>6. issued' \in Counts /\ used' \in Counts
  <2>1. ASSUME NEW c \in Cores
        PROVE  issued'[c] \in [Authorizers -> Nat] /\ used'[c] \in [Authorizers -> Nat]
    <3>1. issued[c] \in [Authorizers -> Nat] /\ used[c] \in [Authorizers -> Nat]
      BY DEF IInv, Counts
    <3>2. issued'[c] \in [Authorizers -> Nat]
      BY <1>3, <1>4, <3>1
    <3>3. used'[c] \in [Authorizers -> Nat]
      BY <1>2, <1>3, <3>1
    <3> QED
      BY <3>2, <3>3
  <2>2. /\ issued' = [c \in Cores |-> issued'[c]]
        /\ used' = [c \in Cores |-> used'[c]]
    BY <1>3
  <2> QED
    BY <2>1, <2>2 DEF Counts
<1>7. alpha' \in [Cores -> Seq(Authorizers)]
  <2>1. \A c \in Cores : NextAuthPools(reports, slot)[c] \in Seq(Authorizers)
    BY PoolStep
  <2>2. NextAuthPools(reports, slot) = [c \in Cores |-> NextAuthPools(reports, slot)[c]]
    BY DEF NextAuthPools
  <2> QED
    BY <1>1, <2>1, <2>2
<1>8. AuthorizedOnce'
  <2>1. ASSUME NEW c \in Cores PROVE Len(alpha'[c]) <= MaxPool
    BY <1>1, PoolStep
  <2>2. ASSUME NEW c \in Cores, NEW a \in Authorizers
        PROVE  used'[c][a] + Occurrences(alpha'[c], a) <= issued'[c][a]
    <3>1. /\ Occurrences(alpha[c], a) \in Nat /\ Occurrences(alpha'[c], a) \in Nat
      <4>1. alpha[c] \in Seq(Authorizers) /\ alpha'[c] \in Seq(Authorizers)
        BY <1>7 DEF IInv
      <4> QED
        BY <4>1, OccurrencesType
    <3>2. used[c][a] + Occurrences(alpha[c], a) <= issued[c][a]
      BY DEF IInv, AuthorizedOnce
    <3>3. CASE ~ takes(c, a)
      <4>1. Occurrences(alpha'[c], a) <=
              Occurrences(alpha[c], a) + (IF a = z(c) THEN 1 ELSE 0)
        BY <1>1, PoolStep DEF z
      <4> QED
        BY <1>5, <3>1, <3>2, <3>3, <4>1
    <3>4. CASE takes(c, a)
      <4>1. Contains(alpha[c], a)
        BY <3>4 DEF ImportBlock, MayAccept, Authorized
      <4>2. Occurrences(alpha'[c], a) + 1 <=
              Occurrences(alpha[c], a) + (IF a = z(c) THEN 1 ELSE 0)
        BY <1>1, <3>4, <4>1, PoolStep DEF z
      <4> QED
        BY <1>5, <3>1, <3>2, <3>4, <4>2
    <3> QED
      BY <3>3, <3>4
  <2> QED
    BY <2>1, <2>2 DEF AuthorizedOnce
<1>9. tau' \in Nat
  BY DEF ImportBlock, IInv
<1>10. phi' \in [Cores -> Seq(Authorizers) \ {<<>>}]
  <2>1. PICK q \in [Cores -> Queues] : phi' = q
    BY DEF ImportBlock
  <2> QED
    BY <2>1, BlockRecordsConstants
<1> QED
  BY <1>6, <1>7, <1>8, <1>9, <1>10 DEF IInv

LEMMA NextInv == IInv /\ [Next]_vars => IInv'
<1> SUFFICES ASSUME IInv, [Next]_vars PROVE IInv'
  OBVIOUS
<1>1. CASE \E gap \in Gaps, reports \in Extrinsics, assurers \in AssurerSets :
             \E refusing \in SUBSET {"safrole", "reports"} :
               /\ tau + gap >= 0
               /\ ImportBlock(tau + gap, reports, assurers, refusing)
  <2>1. PICK gap \in Gaps, reports \in Extrinsics, assurers \in AssurerSets,
             refusing \in SUBSET {"safrole", "reports"} :
               /\ tau + gap >= 0
               /\ ImportBlock(tau + gap, reports, assurers, refusing)
    BY <1>1
  <2>2. tau + gap \in Nat
    BY <2>1, BlockRecordsConstants DEF IInv
  <2> QED
    BY <2>1, <2>2, ImportBlockInv
<1>2. CASE UNCHANGED vars
  BY <1>2 DEF vars, IInv, AuthorizedOnce
<1> QED
  BY <1>1, <1>2 DEF Next, AtBound

\* No entry of an authorizer pool authorizes two reports that are accepted,
\* and no pool outgrows its limit: for any number of cores, any pools and
\* queues to start with, any queues assigned on the way and any blocks that
\* safrole or reports refuse (block_import.rs 129-155, reports.rs 266-270).
THEOREM EntriesAuthorizeOnce == Spec => []AuthorizedOnce
<1>1. Init => IInv
  BY InitInv
<1>2. IInv /\ [Next]_vars => IInv'
  BY NextInv
<1>3. IInv => AuthorizedOnce
  BY DEF IInv
<1> QED
  BY <1>1, <1>2, <1>3, PTL DEF Spec

-----------------------------------------------------------------------------
(* The activity records.                                                   *)

Entries ==
  [slot : Nat, author : {Author(t) : t \in Nat}, refusing : SUBSET {"safrole", "reports"},
   guarantors : SUBSET Validators, assurers : SUBSET Validators]

\* What a chain of blocks has of a validator in an epoch.
ActivityOf(chain, epoch, v) ==
  LET Blocks == {i \in DOMAIN chain : Epoch(chain[i].slot) = epoch}
  IN  [blocks     |-> Cardinality({i \in Blocks : chain[i].author = v}),
       guarantees |-> Cardinality({i \in Blocks : v \in chain[i].guarantors}),
       assurances |-> Cardinality({i \in Blocks : v \in chain[i].assurers})]

Accepted == \A i \in DOMAIN log : "safrole" \notin log[i].refusing

Epochs == {Epoch(log[i].slot) : i \in DOMAIN log}
Earlier == Epochs \ {Epoch(tau)}

LastMatches ==
  last = IF Earlier = {} THEN NoActivity
         ELSE [v \in Validators |-> ActivityOf(log, Max(Earlier), v)]

\* As long as safrole accepts every block, tau is the slot of the last one and
\* no block is later.
RInv ==
  /\ tau \in Nat /\ log \in Seq(Entries)
  /\ Accepted =>
       /\ \A i \in DOMAIN log : log[i].slot <= tau
       /\ log = <<>> => curr = NoActivity /\ last = NoActivity
       /\ log # <<>> =>
            /\ log[Len(log)].slot = tau
            /\ curr = [v \in Validators |-> ActivityOf(log, Epoch(tau), v)]
            /\ LastMatches

LEMMA EpochGrows ==
  ASSUME NEW s \in Nat, NEW t \in Nat
  PROVE  Epoch(s) \in Nat /\ (s <= t => Epoch(s) <= Epoch(t))
<1> DEFINE n == EpochLength
           p == s \div n
           q == t \div n
<1>1. n \in Nat \ {0}
  BY BlockRecordsConstants
<1> HIDE DEF n
<1>2. /\ p \in Int /\ q \in Int /\ s % n \in 0..(n - 1) /\ t % n \in 0..(n - 1)
      /\ s = n * p + (s % n) /\ t = n * q + (t % n)
  BY <1>1
<1>3. /\ \A d \in Int : d >= 1 => n * d >= n
      /\ \A d \in Int : d <= -1 => n * d <= -n
      /\ \A a, b \in Int : n * (a - b) = n * a - n * b /\ n * a \in Int
  BY <1>1
<1> HIDE DEF p, q
<1>4. p >= 0
  <2>1. p <= -1 => n * p <= -n
    BY <1>2, <1>3
  <2> DEFINE np == n * p
             r == s % n
  <2>2. np \in Int /\ r \in 0..(n - 1) /\ s = np + r /\ (p <= -1 => np <= -n)
    BY <1>2, <1>3, <2>1
  <2> HIDE DEF np, r
  <2> QED
    BY <1>1, <1>2, <2>2
<1>5. s <= t => p <= q
  <2> DEFINE np == n * p
             nq == n * q
             r == s % n
             w == t % n
  <2>1. np - nq = n * (p - q) /\ np \in Int /\ nq \in Int
    BY <1>2, <1>3
  <2>2. p - q >= 1 => np - nq >= n
    BY <1>2, <1>3, <2>1
  <2>3. r \in 0..(n - 1) /\ w \in 0..(n - 1) /\ s = np + r /\ t = nq + w
    BY <1>2
  <2> HIDE DEF np, nq, r, w
  <2> QED
    BY <1>1, <1>2, <2>1, <2>2, <2>3
<1> QED
  BY <1>2, <1>4, <1>5 DEF Epoch, p, q, n

\* A bounded set of numbers has a greatest one.
LEMMA GreatestExists ==
  ASSUME NEW T, T \subseteq Nat, T # {}, NEW n \in Nat, \A x \in T : x <= n
  PROVE  Max(T) \in T
<1> DEFINE D == {n - x : x \in T}
<1>1. D \subseteq Nat /\ D # {}
  <2>1. ASSUME NEW x \in T PROVE n - x \in Nat
    <3>1. x \in Nat /\ x <= n
      OBVIOUS
    <3> QED
      BY <3>1
  <2> QED
    BY <2>1
<1>2. Min(D) \in D /\ \A y \in D : Min(D) <= y
  <2> HIDE DEF D
  <2> QED
    BY <1>1, LeastPlace
<1>3. PICK x \in T : Min(D) = n - x
  BY <1>2
<1>4. ASSUME NEW y \in T PROVE x >= y
  <2>1. n - x <= n - y
    BY <1>2, <1>3
  <2> QED
    BY <2>1
<1> QED
  BY <1>4 DEF Max

LEMMA GreatestIs ==
  ASSUME NEW T, T \subseteq Nat, NEW n \in T, \A x \in T : x <= n
  PROVE  Max(T) = n
<1>1. \A y \in T : n >= y
  OBVIOUS
<1>2. Max(T) \in T /\ Max(T) >= n
  BY <1>1 DEF Max
<1>3. Max(T) \in Nat /\ n \in Nat /\ Max(T) <= n
  BY <1>2
<1> QED
  BY <1>2, <1>3

LEMMA CountOneMore ==
  ASSUME NEW A, IsFiniteSet(A), NEW x, x \notin A, NEW c \in BOOLEAN, NEW B,
         B = IF c THEN A \cup {x} ELSE A
  PROVE  Cardinality(B) = Cardinality(A) + One(c)
<1>1. Cardinality(A) \in Nat
  BY FS_CardinalityType
<1> QED
  BY <1>1, FS_AddElement DEF One

\* What a block adds to the activity in an epoch.
LEMMA ActivityGrows ==
  ASSUME NEW chain \in Seq(Entries), NEW entry \in Entries,
         NEW epoch, NEW v \in Validators
  PROVE  LET old == ActivityOf(chain, epoch, v)
             in == Epoch(entry.slot) = epoch
         IN  ActivityOf(Append(chain, entry), epoch, v) =
               [blocks     |-> old.blocks + One(in /\ entry.author = v),
                guarantees |-> old.guarantees + One(in /\ v \in entry.guarantors),
                assurances |-> old.assurances + One(in /\ v \in entry.assurers)]
<1> DEFINE in == Epoch(entry.slot) = epoch
           n == Len(chain) + 1
           new == Append(chain, entry)
           Blocks == {i \in DOMAIN chain : Epoch(chain[i].slot) = epoch}
           Later == {i \in DOMAIN new : Epoch(new[i].slot) = epoch}
<1>1. /\ DOMAIN chain = 1..Len(chain) /\ DOMAIN new = DOMAIN chain \cup {n} /\ n \notin DOMAIN chain
      /\ new[n] = entry /\ \A i \in DOMAIN chain : new[i] = chain[i]
  OBVIOUS
<1>2. IsFiniteSet(DOMAIN chain)
  BY <1>1, FS_Interval
<1>3. Cardinality({i \in Later : new[i].author = v}) =
        Cardinality({i \in Blocks : chain[i].author = v}) + One(in /\ entry.author = v)
  <2> DEFINE A == {i \in Blocks : chain[i].author = v}
             B == {i \in Later : new[i].author = v}
  <2>1. A \in SUBSET DOMAIN chain /\ n \notin A
    BY <1>1
  <2>2. B = IF in /\ entry.author = v THEN A \cup {n} ELSE A
    BY <1>1
  <2> HIDE DEF A, B, n
  <2>3. IsFiniteSet(A)
    BY <1>2, <2>1, FS_Subset
  <2>4. Cardinality(B) = Cardinality(A) + One(in /\ entry.author = v)
    BY <2>1, <2>2, <2>3, CountOneMore
  <2> QED
    BY <2>4 DEF A, B
<1>4. Cardinality({i \in Later : v \in new[i].guarantors}) =
        Cardinality({i \in Blocks : v \in chain[i].guarantors}) + One(in /\ v \in entry.guarantors)
  <2> DEFINE A == {i \in Blocks : v \in chain[i].guarantors}
             B == {i \in Later : v \in new[i].guarantors}
  <2>1. A \in SUBSET DOMAIN chain /\ n \notin A
    BY <1>1
  <2>2. B = IF in /\ v \in entry.guarantors THEN A \cup {n} ELSE A
    BY <1>1
  <2> HIDE DEF A, B, n
  <2>3. IsFiniteSet(A)
    BY <1>2, <2>1, FS_Subset
  <2>4. Cardinality(B) = Cardinality(A) + One(in /\ v \in entry.guarantors)
    BY <2>1, <2>2, <2>3, CountOneMore
  <2> QED
    BY <2>4 DEF A, B
<1>5. Cardinality({i \in Later : v \in new[i].assurers}) =
        Cardinality({i \in Blocks : v \in chain[i].assurers}) + One(in /\ v \in entry.assurers)
  <2> DEFINE A == {i \in Blocks : v \in chain[i].assurers}
             B == {i \in Later : v \in new[i].assurers}
  <2>1. A \in SUBSET DOMAIN chain /\ n \notin A
    BY <1>1
  <2>2. B = IF in /\ v \in entry.assurers THEN A \cup {n} ELSE A
    BY <1>1
  <2> HIDE DEF A, B, n
  <2>3. IsFiniteSet(A)
    BY <1>2, <2>1, FS_Subset
  <2>4. Cardinality(B) = Cardinality(A) + One(in /\ v \in entry.assurers)
    BY <2>1, <2>2, <2>3, CountOneMore
  <2> QED
    BY <2>4 DEF A, B
<1> HIDE DEF in
<1> QED
  BY <1>3, <1>4, <1>5 DEF ActivityOf, in

LEMMA ActivityType ==
  ASSUME NEW chain \in Seq(Entries), NEW epoch, NEW v \in Validators
  PROVE  /\ ActivityOf(chain, epoch, v).blocks \in Nat
         /\ ActivityOf(chain, epoch, v).guarantees \in Nat
         /\ ActivityOf(chain, epoch, v).assurances \in Nat
<1> DEFINE Blocks == {i \in DOMAIN chain : Epoch(chain[i].slot) = epoch}
<1>1. DOMAIN chain = 1..Len(chain) /\ Len(chain) \in Nat
  OBVIOUS
<1>2. \A A \in SUBSET DOMAIN chain : Cardinality(A) \in Nat
  <2>1. IsFiniteSet(DOMAIN chain)
    BY <1>1, FS_Interval
  <2> QED
    BY <2>1, FS_Subset, FS_CardinalityType
<1>3. \A A \in SUBSET Blocks : Cardinality(A) \in Nat
  BY <1>2
<1> QED
  BY <1>3 DEF ActivityOf

LEMMA ActivityShape ==
  ASSUME NEW chain, NEW epoch, NEW v
  PROVE  ActivityOf(chain, epoch, v) = [blocks |-> ActivityOf(chain, epoch, v).blocks,
                               guarantees |-> ActivityOf(chain, epoch, v).guarantees,
                               assurances |-> ActivityOf(chain, epoch, v).assurances]
  BY DEF ActivityOf

\* An epoch without blocks.
LEMMA NoneActive ==
  ASSUME NEW chain, NEW epoch, NEW v \in Validators,
         \A i \in DOMAIN chain : Epoch(chain[i].slot) # epoch
  PROVE  ActivityOf(chain, epoch, v) = NoActivity[v]
<1> DEFINE Blocks == {i \in DOMAIN chain : Epoch(chain[i].slot) = epoch}
<1>1. Blocks = {}
  OBVIOUS
<1>2. \A A \in SUBSET Blocks : Cardinality(A) = 0
  BY <1>1, FS_EmptySet
<1> QED
  BY <1>2 DEF ActivityOf, NoActivity

\* A block adds nothing to the activity in another epoch.
LEMMA ActivityElsewhere ==
  ASSUME NEW chain \in Seq(Entries), NEW entry \in Entries,
         NEW epoch, Epoch(entry.slot) # epoch, NEW v \in Validators
  PROVE  ActivityOf(Append(chain, entry), epoch, v) = ActivityOf(chain, epoch, v)
<1>1. ActivityOf(Append(chain, entry), epoch, v) =
        [blocks     |-> ActivityOf(chain, epoch, v).blocks + One(FALSE),
         guarantees |-> ActivityOf(chain, epoch, v).guarantees + One(FALSE),
         assurances |-> ActivityOf(chain, epoch, v).assurances + One(FALSE)]
  <2> DEFINE in == Epoch(entry.slot) = epoch
  <2>1. ActivityOf(Append(chain, entry), epoch, v) =
          [blocks     |-> ActivityOf(chain, epoch, v).blocks + One(in /\ entry.author = v),
           guarantees |-> ActivityOf(chain, epoch, v).guarantees
                            + One(in /\ v \in entry.guarantors),
           assurances |-> ActivityOf(chain, epoch, v).assurances
                            + One(in /\ v \in entry.assurers)]
    BY ActivityGrows
  <2>2. /\ One(in /\ entry.author = v) = One(FALSE)
        /\ One(in /\ v \in entry.guarantors) = One(FALSE)
        /\ One(in /\ v \in entry.assurers) = One(FALSE)
    BY DEF One
  <2> QED
    BY <2>1, <2>2
<1> QED
  BY <1>1, ActivityType, ActivityShape DEF One

LEMMA RecordsStep ==
  ASSUME RInv, NEW slot \in Nat, NEW reports \in Extrinsics, NEW assurers \in AssurerSets,
         NEW refusing \in SUBSET {"safrole", "reports"},
         ImportBlock(slot, reports, assurers, refusing)
  PROVE  RInv'
<1> DEFINE author == Author(slot)
           entry == [slot |-> slot, author |-> author, refusing |-> refusing,
                     guarantors |-> Guarantors(reports), assurers |-> assurers]
           base == IF Rotates(slot) THEN NoActivity ELSE curr
<1>1. entry \in Entries
  <2>1. Guarantors(reports) \subseteq Validators /\ assurers \subseteq Validators
    BY BlockRecordsConstants DEF Guarantors
  <2> QED
    BY <2>1 DEF Entries
<1>2. /\ log' = Append(log, entry)
      /\ tau' = IF "safrole" \in refusing THEN tau ELSE slot
      /\ last' = IF Rotates(slot) THEN curr ELSE last
      /\ curr' = [v \in Validators |->
           [blocks     |-> base[v].blocks + One(v = author),
            guarantees |-> base[v].guarantees + One(v \in Guarantors(reports)),
            assurances |-> base[v].assurances + One(v \in assurers)]]
  BY DEF ImportBlock, NextStatistics, Record
<1>3. log \in Seq(Entries) /\ tau \in Nat
  BY DEF RInv
<1>4. /\ entry.slot = slot /\ entry.author = author /\ entry.refusing = refusing
      /\ entry.guarantors = Guarantors(reports) /\ entry.assurers = assurers
  OBVIOUS
<1> HIDE DEF entry, author, base
<1>5. /\ log' \in Seq(Entries) /\ tau' \in Nat /\ log' # <<>>
      /\ DOMAIN log = 1..Len(log) /\ Len(log') = Len(log) + 1 /\ log'[Len(log) + 1] = entry
      /\ DOMAIN log' = DOMAIN log \cup {Len(log) + 1}
      /\ \A i \in DOMAIN log : log'[i] = log[i]
  BY <1>1, <1>2, <1>3
<1>6. ASSUME Accepted'
      PROVE  /\ \A i \in DOMAIN log' : log'[i].slot <= tau'
             /\ log'[Len(log')].slot = tau'
             /\ curr' = [v \in Validators |-> ActivityOf(log', Epoch(tau'), v)]
             /\ LastMatches'
  <2>1. Accepted /\ "safrole" \notin refusing
    BY <1>4, <1>5, <1>6 DEF Accepted
  <2>2. slot > tau /\ tau' = slot
    BY <1>2, <2>1 DEF ImportBlock, MayAccept
  <2>3. /\ \A i \in DOMAIN log : log[i].slot \in Nat /\ log[i].slot <= tau
        /\ log = <<>> => curr = NoActivity /\ last = NoActivity
        /\ log # <<>> => /\ log[Len(log)].slot = tau /\ Len(log) \in DOMAIN log
                         /\ curr = [v \in Validators |-> ActivityOf(log, Epoch(tau), v)]
                         /\ LastMatches
    <3>1. \A i \in DOMAIN log : log[i] \in Entries
      BY <1>3
    <3>2. \A i \in DOMAIN log : log[i].slot \in Nat
      BY <3>1 DEF Entries
    <3>3. log # <<>> => Len(log) \in DOMAIN log
      BY <1>3
    <3> QED
      BY <2>1, <3>2, <3>3 DEF RInv
  <2>4. /\ \A i \in DOMAIN log' : log'[i].slot <= tau'
        /\ log'[Len(log')].slot = tau'
    BY <1>3, <1>4, <1>5, <2>2, <2>3
  <2>5. /\ Epoch(slot) \in Nat /\ Epoch(tau) \in Nat /\ Epoch(tau) <= Epoch(slot)
        /\ \A i \in DOMAIN log : Epoch(log[i].slot) \in Nat /\ Epoch(log[i].slot) <= Epoch(tau)
    <3>1. /\ Epoch(slot) \in Nat /\ Epoch(tau) \in Nat /\ Epoch(tau) <= Epoch(slot)
      BY <1>3, <2>2, EpochGrows
    <3>2. ASSUME NEW i \in DOMAIN log
          PROVE  Epoch(log[i].slot) \in Nat /\ Epoch(log[i].slot) <= Epoch(tau)
      BY <1>3, <2>3, EpochGrows
    <3> QED
      BY <3>1, <3>2
  <2>6. ASSUME NEW v \in Validators
        PROVE  base[v] = ActivityOf(log, Epoch(slot), v)
    <3>1. CASE log = <<>>
      <4>1. ActivityOf(log, Epoch(slot), v) = NoActivity[v]
        BY <3>1, NoneActive
      <4> QED
        BY <2>3, <3>1, <4>1 DEF base
    <3>2. CASE log # <<>> /\ Rotates(slot)
      <4>1. \A i \in DOMAIN log : Epoch(log[i].slot) # Epoch(slot)
        BY <2>5, <3>2 DEF Rotates
      <4>2. ActivityOf(log, Epoch(slot), v) = NoActivity[v]
        BY <4>1, NoneActive
      <4> QED
        BY <3>2, <4>2 DEF base
    <3>3. CASE log # <<>> /\ ~ Rotates(slot)
      <4>1. Epoch(slot) = Epoch(tau)
        BY <2>5, <3>3 DEF Rotates
      <4> QED
        BY <2>3, <3>3, <4>1 DEF base
    <3> QED
      BY <3>1, <3>2, <3>3
  <2>7. curr' = [v \in Validators |-> ActivityOf(log', Epoch(tau'), v)]
    <3>1. ASSUME NEW v \in Validators
          PROVE  ActivityOf(log', Epoch(slot), v) = curr'[v]
      <4>1. ActivityOf(log', Epoch(slot), v) =
              [blocks     |-> ActivityOf(log, Epoch(slot), v).blocks + One(author = v),
               guarantees |-> ActivityOf(log, Epoch(slot), v).guarantees + One(v \in Guarantors(reports)),
               assurances |-> ActivityOf(log, Epoch(slot), v).assurances + One(v \in assurers)]
        BY <1>1, <1>2, <1>3, <1>4, ActivityGrows
      <4>2. One(author = v) = One(v = author)
        BY DEF One
      <4> QED
        BY <1>2, <2>6, <4>1, <4>2
    <3> QED
      BY <1>2, <2>2, <3>1
  <2>8. Earlier' = Epochs \ {Epoch(slot)}
    BY <1>4, <1>5, <2>2 DEF Earlier, Epochs
  <2>9. ASSUME NEW epoch, epoch # Epoch(slot), NEW v \in Validators
        PROVE  ActivityOf(log', epoch, v) = ActivityOf(log, epoch, v)
    BY <1>1, <1>2, <1>3, <1>4, <2>9, ActivityElsewhere
  <2>10. LastMatches'
    <3>1. CASE log = <<>>
      <4>1. Earlier' = {}
        BY <2>8, <3>1 DEF Epochs
      <4> QED
        BY <1>2, <2>3, <3>1, <4>1 DEF LastMatches
    <3>2. CASE log # <<>> /\ Rotates(slot)
      <4>1. Epoch(tau) \in Epochs /\ Epochs \subseteq Nat /\ \A e \in Epochs : e <= Epoch(tau)
        BY <2>3, <2>5, <3>2 DEF Epochs
      <4>2. Earlier' = Epochs /\ Epoch(tau) # Epoch(slot)
        BY <2>5, <2>8, <3>2, <4>1 DEF Rotates
      <4>3. Max(Earlier') = Epoch(tau) /\ Earlier' # {}
        BY <4>1, <4>2, GreatestIs
      <4>4. \A v \in Validators : ActivityOf(log', Epoch(tau), v) = ActivityOf(log, Epoch(tau), v)
        BY <2>9, <4>2
      <4> QED
        BY <1>2, <2>3, <3>2, <4>3, <4>4 DEF LastMatches
    <3>3. CASE log # <<>> /\ ~ Rotates(slot)
      <4>1. Epoch(slot) = Epoch(tau)
        BY <2>5, <3>3 DEF Rotates
      <4>2. Earlier' = Earlier /\ last' = last
        BY <1>2, <2>8, <3>3, <4>1 DEF Earlier
      <4>3. CASE Earlier = {}
        BY <2>3, <3>3, <4>2, <4>3 DEF LastMatches
      <4>4. CASE Earlier # {}
        <5>1. Max(Earlier) \in Earlier
          <6>1. Earlier \subseteq Nat /\ \A e \in Earlier : e <= Epoch(tau)
            BY <2>5 DEF Earlier, Epochs
          <6> QED
            BY <2>5, <4>4, <6>1, GreatestExists
        <5>2. Max(Earlier) # Epoch(slot)
          BY <4>1, <5>1 DEF Earlier
        <5> QED
          BY <2>3, <2>9, <3>3, <4>2, <4>4, <5>2 DEF LastMatches
      <4> QED
        BY <4>3, <4>4
    <3> QED
      BY <3>1, <3>2, <3>3
  <2> QED
    BY <2>4, <2>7, <2>10
<1> QED
  BY <1>5, <1>6 DEF RInv

LEMMA RInvStep == RInv /\ [Next]_vars => RInv'
<1> SUFFICES ASSUME RInv, [Next]_vars PROVE RInv'
  OBVIOUS
<1>1. CASE \E gap \in Gaps, reports \in Extrinsics, assurers \in AssurerSets :
             \E refusing \in SUBSET {"safrole", "reports"} :
               /\ tau + gap >= 0
               /\ ImportBlock(tau + gap, reports, assurers, refusing)
  <2>1. PICK gap \in Gaps, reports \in Extrinsics, assurers \in AssurerSets,
             refusing \in SUBSET {"safrole", "reports"} :
               /\ tau + gap >= 0
               /\ ImportBlock(tau + gap, reports, assurers, refusing)
    BY <1>1
  <2>2. tau + gap \in Nat
    BY <2>1, BlockRecordsConstants DEF RInv
  <2> QED
    BY <2>1, <2>2, RecordsStep
<1>2. CASE UNCHANGED vars
  <2>1. UNCHANGED <<tau, log, curr, last>>
    BY <1>2 DEF vars
  <2>2. Accepted' <=> Accepted
    BY <2>1 DEF Accepted
  <2>3. LastMatches' <=> LastMatches
    BY <2>1 DEF LastMatches, Earlier, Epochs
  <2> QED
    BY <2>1, <2>2, <2>3 DEF RInv
<1> QED
  BY <1>1, <1>2 DEF Next, AtBound

\* The activity records are those of the epoch of the last block and of the
\* last epoch before it that had blocks, however many epochs are skipped, on
\* every chain that safrole accepts (block_import.rs 83-122).
THEOREM RecordsAreOfTheirEpochs == Spec => []RecordsMatchLog
<1>1. Init => RInv
  BY DEF Init, RInv
<1>2. RInv => RecordsMatchLog
  <2> SUFFICES ASSUME RInv, log # <<>>, Accepted
               PROVE  LET now == Epoch(log[Len(log)].slot)
                          earlier == {Epoch(log[i].slot) : i \in DOMAIN log} \ {now}
                      IN  /\ curr = [v \in Validators |-> Activity(now, v)]
                          /\ last = IF earlier = {} THEN NoActivity
                                    ELSE [v \in Validators |-> Activity(Max(earlier), v)]
    BY DEF RecordsMatchLog, Accepted
  <2>1. /\ log[Len(log)].slot = tau /\ LastMatches
        /\ curr = [v \in Validators |-> ActivityOf(log, Epoch(tau), v)]
    BY DEF RInv
  <2>2. \A epoch, v : Activity(epoch, v) = ActivityOf(log, epoch, v)
    BY DEF Activity, ActivityOf
  <2> QED
    BY <2>1, <2>2 DEF LastMatches, Earlier, Epochs
<1> QED
  BY <1>1, <1>2, RInvStep, PTL DEF Spec

-----------------------------------------------------------------------------
(* The mountain range: what the recursive functions of SuperPeak and       *)
(* AppendPeak compute, by induction over the peaks.                        *)

\* Induction over the numbers up to n: a set that holds 0 and the successors of
\* its members holds all of them.
LEMMA InductionUpTo ==
  ASSUME NEW n \in Nat, NEW T, 0 \in T,
         \A i \in 1..n : i - 1 \in T => i \in T
  PROVE  \A i \in 0..n : i \in T
<1> SUFFICES ASSUME NEW k \in 0..n, k \notin T PROVE FALSE
  OBVIOUS
<1> DEFINE Out == {i \in 0..n : i \notin T}
           x == Min(Out)
<1>1. x \in Out /\ \A y \in Out : x <= y
  <2>1. Out \subseteq Nat /\ Out # {}
    OBVIOUS
  <2> HIDE DEF Out
  <2> QED
    BY <2>1, LeastPlace
<1> HIDE DEF x
<1>2. x \in 1..n /\ x - 1 \in 0..n /\ x \notin T
  BY <1>1
<1>3. x - 1 \in T
  BY <1>1, <1>2
<1> QED
  BY <1>2, <1>3

\* f is defined by recursion over 0..n: f[0] is x0 and step[i] leads to f[i].
Recursion(f, n, X, x0, step) ==
  f \in [0..n -> X] /\ f[0] = x0 /\ \A i \in 1..n : f[i] = step[i][f[i - 1]]

LEMMA RecursionExists ==
  ASSUME NEW X, NEW n \in Nat, NEW x0 \in X, NEW step \in [1..n -> [X -> X]]
  PROVE  \E f : Recursion(f, n, X, x0, step)
<1> DEFINE T == {k \in 0..n : \E f : Recursion(f, k, X, x0, step)}
<1>1. 0 \in T
  <2>1. Recursion([i \in 0..0 |-> x0], 0, X, x0, step)
    BY DEF Recursion
  <2> QED
    BY <2>1
<1>2. ASSUME NEW k \in 1..n, k - 1 \in T PROVE k \in T
  <2>1. PICK f : Recursion(f, k - 1, X, x0, step)
    BY <1>2
  <2> DEFINE g == [i \in 0..k |-> IF i = k THEN step[k][f[k - 1]] ELSE f[i]]
  <2>2. f[k - 1] \in X /\ step[k] \in [X -> X]
    BY <2>1 DEF Recursion
  <2>3. g \in [0..k -> X] /\ g[0] = x0
    BY <2>1, <2>2 DEF Recursion
  <2>4. \A i \in 1..k : g[i] = step[i][g[i - 1]]
    BY <2>1 DEF Recursion
  <2> HIDE DEF g
  <2>5. Recursion(g, k, X, x0, step)
    BY <2>3, <2>4 DEF Recursion
  <2> QED
    BY <2>5
<1>3. n \in T
  <2> HIDE DEF T
  <2>1. \A i \in 0..n : i \in T
    BY <1>1, <1>2, InductionUpTo
  <2> QED
    BY <2>1
<1> QED
  BY <1>3

Roots == Seq(Nat)

\* F[k] joins the first k peaks, the low ones first.
JoinsUp(F, range) ==
  /\ F \in [0..Len(range) -> Roots] /\ F[0] = <<>>
  /\ \A i \in 1..Len(range) : F[i] = F[i - 1] \o range[i]

\* C[k] joins the item to the first k peaks, the low ones last.
Carries(C, range, item, n) ==
  /\ C \in [0..n -> Roots] /\ C[0] = item
  /\ \A i \in 1..n : C[i] = range[i] \o C[i - 1]

LEMMA JoinsUpExist ==
  ASSUME NEW range \in Seq(Roots)
  PROVE  \E F : JoinsUp(F, range)
<1> DEFINE step == [i \in 1..Len(range) |-> [x \in Roots |-> x \o range[i]]]
<1>1. step \in [1..Len(range) -> [Roots -> Roots]] /\ <<>> \in Roots /\ Len(range) \in Nat
  BY DEF Roots
<1>2. \A i \in 1..Len(range), x \in Roots : step[i][x] = x \o range[i]
  OBVIOUS
<1> HIDE DEF step
<1>3. PICK F : Recursion(F, Len(range), Roots, <<>>, step)
  BY <1>1, RecursionExists
<1>4. F \in [0..Len(range) -> Roots] /\ F[0] = <<>>
  BY <1>3 DEF Recursion
<1>5. ASSUME NEW i \in 1..Len(range) PROVE F[i] = F[i - 1] \o range[i]
  <2>1. F[i - 1] \in Roots
    BY <1>1, <1>4
  <2> QED
    BY <1>2, <1>3, <2>1 DEF Recursion
<1> QED
  BY <1>4, <1>5 DEF JoinsUp

LEMMA CarriesExist ==
  ASSUME NEW range \in Seq(Roots), NEW item \in Roots, NEW n \in 0..Len(range)
  PROVE  \E C : Carries(C, range, item, n)
<1> DEFINE step == [i \in 1..n |-> [x \in Roots |-> range[i] \o x]]
<1>1. step \in [1..n -> [Roots -> Roots]] /\ n \in Nat
  <2>1. \A i \in 1..n : range[i] \in Roots
    OBVIOUS
  <2> QED
    BY <2>1 DEF Roots
<1>2. \A i \in 1..n, x \in Roots : step[i][x] = range[i] \o x
  OBVIOUS
<1> HIDE DEF step
<1>3. PICK C : Recursion(C, n, Roots, item, step)
  BY <1>1, RecursionExists
<1>4. C \in [0..n -> Roots] /\ C[0] = item
  BY <1>3 DEF Recursion
<1>5. ASSUME NEW i \in 1..n PROVE C[i] = range[i] \o C[i - 1]
  <2>1. C[i - 1] \in Roots
    BY <1>1, <1>4
  <2> QED
    BY <1>2, <1>3, <2>1 DEF Recursion
<1> QED
  BY <1>4, <1>5 DEF Carries

\* The super-peak joins all peaks.
LEMMA SuperPeakIs ==
  ASSUME NEW range \in Seq(Roots), NEW F, JoinsUp(F, range)
  PROVE  SuperPeak(range) = F[Len(range)]
<1> DEFINE n == Len(range)
           Def(f) == f = [i \in 1..n |-> IF i = 1 THEN range[i] ELSE f[i - 1] \o range[i]]
           flatten == CHOOSE f : Def(f)
<1>1. n \in Nat
  OBVIOUS
<1>2. CASE n = 0
  <2>1. range = <<>>
    BY <1>2
  <2>2. SuperPeak(range) = range
    BY <1>2 DEF SuperPeak, FlattenSeq
  <2> QED
    BY <1>2, <2>1, <2>2 DEF JoinsUp
<1>3. CASE n # 0
  <2>1. SuperPeak(range) = flatten[n]
    BY <1>3 DEF SuperPeak, FlattenSeq
  <2>2. \A i \in 1..n : range[i] \in Roots
    OBVIOUS
  <2>3. F[1] = range[1]
    <3>0. 1 \in 1..n /\ 1 - 1 = 0
      BY <1>1, <1>3
    <3>1. F[1] = F[0] \o range[1] /\ F[0] = <<>> /\ range[1] \in Seq(Nat)
      BY <2>2, <3>0 DEF JoinsUp, Roots
    <3> QED
      BY <3>1
  <2>4. Def([i \in 1..n |-> F[i]])
    <3> DEFINE g == [i \in 1..n |-> F[i]]
    <3>1. \A i \in 1..n : i # 1 => i - 1 \in 1..n
      BY <1>1
    <3>2. \A i \in 1..n : F[i] = IF i = 1 THEN range[i] ELSE g[i - 1] \o range[i]
      BY <2>3, <3>1 DEF JoinsUp
    <3> QED
      BY <3>2
  <2>5. Def(flatten)
    BY <2>4
  <2> DEFINE T == {i \in 0..n : i # 0 => flatten[i] = F[i]}
  <2>6. 0 \in T
    BY <1>1
  <2>7. ASSUME NEW i \in 1..n, i - 1 \in T PROVE i \in T
    <3>1. flatten[i] = IF i = 1 THEN range[i] ELSE flatten[i - 1] \o range[i]
      <4> HIDE DEF flatten
      <4> QED
        BY <2>5
    <3> HIDE DEF flatten
    <3>2. F[i] = F[i - 1] \o range[i]
      BY DEF JoinsUp
    <3>3. CASE i = 1
      BY <2>3, <3>1, <3>3
    <3>4. CASE i # 1
      <4>1. flatten[i - 1] = F[i - 1]
        BY <2>7, <3>4
      <4>2. flatten[i] = F[i]
        BY <3>1, <3>2, <3>4, <4>1
      <4> QED
        BY <4>2
    <3> QED
      BY <3>3, <3>4
  <2>8. \A i \in 0..n : i \in T
    <3> HIDE DEF T
    <3> QED
      BY <1>1, <2>6, <2>7, InductionUpTo
  <2>9. flatten[n] = F[n]
    <3> HIDE DEF flatten
    <3> QED
      BY <1>1, <1>3, <2>8
  <2> QED
    BY <2>1, <2>9
<1> QED
  BY <1>2, <1>3

\* The lowest place without a peak.
FreePlace(range) ==
  Min({k \in 1..Len(range) + 1 : k > Len(range) \/ range[k] = NoPeak})

LEMMA FreePlaceIs ==
  ASSUME NEW range \in Seq(Roots)
  PROVE  /\ FreePlace(range) \in 1..Len(range) + 1
         /\ FreePlace(range) <= Len(range) => range[FreePlace(range)] = <<>>
<1> DEFINE T == {k \in 1..Len(range) + 1 : k > Len(range) \/ range[k] = NoPeak}
<1>1. T \subseteq Nat /\ Len(range) + 1 \in T
  OBVIOUS
<1> HIDE DEF T
<1>2. Min(T) \in T
  BY <1>1, LeastPlace
<1>3. FreePlace(range) \in T
  BY <1>2 DEF FreePlace, T
<1> QED
  BY <1>3 DEF T, NoPeak

LEMMA AppendPeakIs ==
  ASSUME NEW range \in Seq(Roots), NEW item \in Roots, NEW C,
         Carries(C, range, item, FreePlace(range) - 1)
  PROVE  AppendPeak(range, item) =
           [k \in 1..Max({FreePlace(range), Len(range)}) |->
              IF k < FreePlace(range) THEN NoPeak
              ELSE IF k = FreePlace(range) THEN C[FreePlace(range) - 1] ELSE range[k]]
<1> DEFINE free == FreePlace(range)
           n == free - 1
           Def(f) == f = [k \in 0..free - 1 |-> IF k = 0 THEN item ELSE range[k] \o f[k - 1]]
           carry == CHOOSE f : Def(f)
<1>1. free \in Nat \ {0} /\ n \in Nat /\ free = n + 1
  <2>1. free \in 1..Len(range) + 1
    BY FreePlaceIs
  <2> HIDE DEF free
  <2> QED
    BY <2>1
<1>2. AppendPeak(range, item) =
        [k \in 1..Max({free, Len(range)}) |->
           IF k < free THEN NoPeak
           ELSE IF k = free THEN carry[free - 1] ELSE range[k]]
  BY DEF AppendPeak, FreePlace
<1>3. Def(C)
  <2>1. /\ C \in [0..n -> Roots] /\ C[0] = item
        /\ \A i \in 1..n : C[i] = range[i] \o C[i - 1]
    BY DEF Carries
  <2> HIDE DEF free
  <2>2. \A k \in 0..n : C[k] = IF k = 0 THEN item ELSE range[k] \o C[k - 1]
    BY <1>1, <2>1
  <2> QED
    BY <2>1, <2>2
<1>4. Def(carry)
  BY <1>3
<1> HIDE DEF free, carry
<1>5. \A k \in 0..n : carry[k] = IF k = 0 THEN item ELSE range[k] \o carry[k - 1]
  BY <1>4
<1>6. \A k \in 0..n : C[k] = IF k = 0 THEN item ELSE range[k] \o C[k - 1]
  BY <1>3
<1> DEFINE T == {i \in 0..n : carry[i] = C[i]}
<1>7. 0 \in T
  BY <1>1, <1>5, <1>6
<1>8. ASSUME NEW i \in 1..n, i - 1 \in T PROVE i \in T
  <2>1. carry[i - 1] = C[i - 1] /\ i \in 0..n /\ i # 0
    BY <1>1, <1>8
  <2>2. carry[i] = C[i]
    BY <1>5, <1>6, <2>1
  <2> QED
    BY <2>1, <2>2
<1>9. \A i \in 0..n : i \in T
  <2> HIDE DEF T, n
  <2> QED
    BY <1>1, <1>7, <1>8, InductionUpTo
<1>10. carry[free - 1] = C[free - 1]
  BY <1>1, <1>9
<1> QED
  BY <1>2, <1>10 DEF free

\* t holds one root more than s does: x.
HoldsMore(t, s, x) ==
  /\ t \in Roots /\ s \in Roots
  /\ Len(t) = Len(s) + 1 /\ Range(t) = Range(s) \cup {x}

LEMMA JoinedRoots ==
  ASSUME NEW u \in Roots, NEW w \in Roots
  PROVE  /\ u \o w \in Roots /\ Len(u \o w) = Len(u) + Len(w)
         /\ Range(u \o w) = Range(u) \cup Range(w)
<1>1. /\ u \o w \in Roots /\ Len(u \o w) = Len(u) + Len(w)
      /\ \A i \in 1..Len(u) : (u \o w)[i] = u[i]
      /\ \A i \in (Len(u) + 1)..(Len(u) + Len(w)) : (u \o w)[i] = w[i - Len(u)]
  BY Joined DEF Roots
<1>2. \A s \in Roots : \A y : y \in Range(s) <=> \E i \in 1..Len(s) : y = s[i]
  BY DEF Range, Roots
<1>3. Len(u) \in Nat /\ Len(w) \in Nat
  BY DEF Roots
<1>4. ASSUME NEW y \in Range(u) PROVE y \in Range(u \o w)
  <2>1. PICK i \in 1..Len(u) : y = u[i]
    BY <1>2
  <2>2. i \in 1..Len(u \o w) /\ y = (u \o w)[i]
    BY <1>1, <1>3, <2>1
  <2> QED
    BY <1>1, <1>2, <2>2
<1>5. ASSUME NEW y \in Range(w) PROVE y \in Range(u \o w)
  <2>1. PICK i \in 1..Len(w) : y = w[i]
    BY <1>2
  <2> DEFINE j == Len(u) + i
  <2>2. j \in (Len(u) + 1)..(Len(u) + Len(w)) /\ j - Len(u) = i /\ j \in 1..Len(u \o w)
    BY <1>1, <1>3
  <2> HIDE DEF j
  <2>3. y = (u \o w)[j]
    BY <1>1, <2>1, <2>2
  <2> QED
    BY <1>1, <1>2, <2>2, <2>3
<1>6. ASSUME NEW y \in Range(u \o w) PROVE y \in Range(u) \cup Range(w)
  <2>0. \A s \in Roots : y \in Range(s) => \E i \in 1..Len(s) : y = s[i]
    BY <1>2
  <2>1. PICK i \in 1..Len(u \o w) : y = (u \o w)[i]
    <3>1. u \o w \in Roots
      BY <1>1
    <3>2. y \in Range(u \o w)
      BY <1>6
    <3> QED
      BY <2>0, <3>1, <3>2, Zenon
  <2>2. CASE i <= Len(u)
    BY <1>1, <1>2, <1>3, <2>1, <2>2
  <2>3. CASE i > Len(u)
    <3>1. i \in (Len(u) + 1)..(Len(u) + Len(w)) /\ i - Len(u) \in 1..Len(w)
      BY <1>1, <1>3, <2>3
    <3>2. y = w[i - Len(u)]
      BY <1>1, <2>1, <3>1
    <3> QED
      BY <1>2, <3>1, <3>2
  <2> QED
    BY <1>1, <1>3, <2>2, <2>3
<1> QED
  BY <1>1, <1>4, <1>5, <1>6

LEMMA HoldsMoreJoined ==
  ASSUME NEW t, NEW s, NEW x, HoldsMore(t, s, x), NEW u \in Roots
  PROVE  HoldsMore(u \o t, s \o u, x) /\ HoldsMore(t \o u, s \o u, x)
<1>1. /\ u \o t \in Roots /\ Len(u \o t) = Len(u) + Len(t) /\ Range(u \o t) = Range(u) \cup Range(t)
      /\ t \o u \in Roots /\ Len(t \o u) = Len(t) + Len(u) /\ Range(t \o u) = Range(t) \cup Range(u)
      /\ s \o u \in Roots /\ Len(s \o u) = Len(s) + Len(u) /\ Range(s \o u) = Range(s) \cup Range(u)
  BY JoinedRoots DEF HoldsMore
<1>2. Len(s) \in Nat /\ Len(t) \in Nat /\ Len(u) \in Nat /\ Len(t) = Len(s) + 1
  BY DEF HoldsMore, Roots
<1>3. Len(u \o t) = Len(s \o u) + 1 /\ Len(t \o u) = Len(s \o u) + 1
  BY <1>1, <1>2
<1>4. Range(u \o t) = Range(s \o u) \cup {x} /\ Range(t \o u) = Range(s \o u) \cup {x}
  BY <1>1 DEF HoldsMore
<1> QED
  BY <1>1, <1>3, <1>4 DEF HoldsMore

\* However the range is carried, one more root is in it.
LEMMA AppendPeakHolds ==
  ASSUME NEW range \in Seq(Roots), NEW x \in Nat
  PROVE  /\ AppendPeak(range, <<x>>) \in Seq(Roots)
         /\ HoldsMore(SuperPeak(AppendPeak(range, <<x>>)), SuperPeak(range), x)
<1> DEFINE free == FreePlace(range)
           n == Len(range)
           new == AppendPeak(range, <<x>>)
           m == Max({free, n})
<1>1. /\ free \in 1..n + 1 /\ n \in Nat
      /\ free <= n => range[free] = <<>>
  BY FreePlaceIs
<1>2. <<x>> \in Roots
  BY DEF Roots
<1> HIDE DEF free
<1>3. free - 1 \in 0..n
  BY <1>1
<1>4. PICK C : Carries(C, range, <<x>>, free - 1)
  BY <1>2, <1>3, CarriesExist
<1>5. new = [k \in 1..m |-> IF k < free THEN NoPeak
                            ELSE IF k = free THEN C[free - 1] ELSE range[k]]
  BY <1>2, <1>4, AppendPeakIs DEF free
<1>6. m \in Nat /\ (m = IF free = n + 1 THEN n + 1 ELSE n)
  <2>1. \A a, b \in Nat : Max({a, b}) = IF a > b THEN a ELSE b
    <3>1. ASSUME NEW a \in Nat, NEW b \in Nat PROVE Max({a, b}) = IF a > b THEN a ELSE b
      BY DEF Max
    <3> QED
      BY <3>1
  <2>2. free \in Nat
    BY <1>1
  <2>3. m = IF free > n THEN free ELSE n
    BY <1>1, <2>1, <2>2
  <2> HIDE DEF m
  <2> QED
    BY <1>1, <2>3
<1> HIDE DEF m
<1>7. /\ C \in [0..free - 1 -> Roots] /\ C[0] = <<x>>
      /\ \A i \in 1..free - 1 : C[i] = range[i] \o C[i - 1]
  BY <1>4 DEF Carries
<1>8. C[free - 1] \in Roots
  BY <1>1, <1>7
<1>9. \A k \in 1..n : range[k] \in Roots
  OBVIOUS
<1>10. new \in Seq(Roots) /\ Len(new) = m
  <2>1. \A k \in 1..m : k < free \/ k = free \/ k \in 1..n
    BY <1>1, <1>6
  <2>2. NoPeak \in Roots
    BY DEF NoPeak, Roots
  <2>3. new \in [1..m -> Roots]
    BY <1>5, <1>8, <1>9, <2>1, <2>2
  <2> HIDE DEF new
  <2> QED
    BY <1>6, <2>3
<1>11. PICK F : JoinsUp(F, range)
  BY JoinsUpExist
<1>12. PICK G : JoinsUp(G, new)
  BY <1>10, JoinsUpExist
<1>13. SuperPeak(range) = F[n] /\ SuperPeak(new) = G[m]
  <2> HIDE DEF new
  <2> QED
    BY <1>10, <1>11, <1>12, SuperPeakIs
<1>14. /\ F \in [0..n -> Roots] /\ F[0] = <<>>
       /\ \A i \in 1..n : F[i] = F[i - 1] \o range[i]
  BY <1>11 DEF JoinsUp
<1>15. /\ G \in [0..m -> Roots] /\ G[0] = <<>>
       /\ \A i \in 1..m : G[i] = G[i - 1] \o new[i]
  BY <1>10, <1>12 DEF JoinsUp
<1>16. /\ \A k \in 1..m : k < free => new[k] = <<>>
       /\ \A k \in 1..m : k > free => new[k] = range[k]
       /\ free \in 1..m => new[free] = C[free - 1]
  BY <1>1, <1>5, <1>6 DEF NoPeak
<1> HIDE DEF new, n
\* Nothing is left below the free place.
<1>17. G[free - 1] = <<>>
  <2> DEFINE T == {k \in 0..free - 1 : G[k] = <<>>}
  <2>1. 0 \in T
    BY <1>1, <1>15
  <2>2. ASSUME NEW k \in 1..free - 1, k - 1 \in T PROVE k \in T
    <3>1. k \in 1..m /\ k < free
      BY <1>1, <1>6
    <3>2. G[k] = <<>> \o <<>>
      BY <1>15, <1>16, <2>2, <3>1
    <3> QED
      BY <1>1, <3>1, <3>2
  <2> HIDE DEF T
  <2>3. \A k \in 0..free - 1 : k \in T
    <3>1. free - 1 \in Nat
      BY <1>1
    <3> QED
      BY <2>1, <2>2, <3>1, InductionUpTo
  <2> QED
    BY <1>1, <2>3 DEF T
\* What is carried to the free place is what was below it, and x.
<1>18. HoldsMore(C[free - 1], F[free - 1], x)
  <2> DEFINE T == {k \in 0..free - 1 : HoldsMore(C[k], F[k], x)}
  <2>1. 0 \in T
    <3>1. Range(<<x>>) = {x} /\ Range(<<>>) = {} /\ <<>> \in Roots
      BY DEF Range, Roots
    <3>2. HoldsMore(<<x>>, <<>>, x)
      BY <1>2, <3>1 DEF HoldsMore
    <3> QED
      BY <1>1, <1>7, <1>14, <3>2
  <2>2. ASSUME NEW k \in 1..free - 1, k - 1 \in T PROVE k \in T
    <3>1. k \in 1..n
      BY <1>1
    <3>2. /\ C[k] = range[k] \o C[k - 1] /\ F[k] = F[k - 1] \o range[k]
          /\ range[k] \in Roots
      BY <1>7, <1>9, <1>14, <3>1
    <3>3. HoldsMore(C[k - 1], F[k - 1], x)
      BY <2>2
    <3>4. HoldsMore(range[k] \o C[k - 1], F[k - 1] \o range[k], x)
      BY <3>2, <3>3, HoldsMoreJoined
    <3>5. HoldsMore(C[k], F[k], x)
      BY <3>2, <3>4
    <3> QED
      BY <1>1, <3>5
  <2> HIDE DEF T
  <2>3. \A k \in 0..free - 1 : k \in T
    <3>1. free - 1 \in Nat
      BY <1>1
    <3> QED
      BY <2>1, <2>2, <3>1, InductionUpTo
  <2> QED
    BY <1>1, <2>3 DEF T
<1>19. G[free] = C[free - 1]
  <2>1. free \in 1..m
    BY <1>1, <1>6
  <2>2. G[free] = <<>> \o C[free - 1]
    BY <1>15, <1>16, <1>17, <2>1
  <2> QED
    BY <1>8, <2>2 DEF Roots
<1>20. CASE free = n + 1
  <2>1. m = free /\ n = free - 1
    BY <1>1, <1>6, <1>20
  <2> QED
    BY <1>10, <1>13, <1>18, <1>19, <2>1 DEF new
\* Above it the peaks are the same, and behind the same roots but for x.
<1>21. CASE free # n + 1
  <2>1. m = n /\ free \in 1..n
    BY <1>1, <1>6, <1>21
  <2>2. F[free] = F[free - 1]
    <3>1. range[free] = <<>>
      BY <1>1, <2>1
    <3>2. F[free] = F[free - 1] \o range[free]
      BY <1>14, <2>1
    <3>3. F[free - 1] \in Seq(Nat)
      BY <1>3, <1>14 DEF Roots
    <3> QED
      BY <3>1, <3>2, <3>3
  <2> DEFINE T == {k \in 0..n : k >= free => HoldsMore(G[k], F[k], x)}
  <2>3. 0 \in T
    BY <1>1, <2>1
  <2>4. ASSUME NEW k \in 1..n, k - 1 \in T PROVE k \in T
    <3>1. CASE k = free
      BY <1>18, <1>19, <2>2, <3>1
    <3>2. CASE k > free
      <4>1. HoldsMore(G[k - 1], F[k - 1], x)
        BY <2>1, <2>4, <3>2
      <4>2. /\ G[k] = G[k - 1] \o range[k] /\ F[k] = F[k - 1] \o range[k]
            /\ range[k] \in Roots
        BY <1>9, <1>14, <1>15, <1>16, <2>1, <3>2
      <4>3. HoldsMore(G[k - 1] \o range[k], F[k - 1] \o range[k], x)
        BY <4>1, <4>2, HoldsMoreJoined
      <4>4. HoldsMore(G[k], F[k], x)
        BY <4>2, <4>3
      <4> QED
        BY <4>4
    <3>3. CASE k < free
      BY <2>1, <3>3
    <3> QED
      BY <2>1, <3>1, <3>2, <3>3
  <2> HIDE DEF T
  <2>5. n \in T
    <3>1. \A k \in 0..n : k \in T
      BY <1>1, <2>3, <2>4, InductionUpTo
    <3> QED
      BY <1>1, <3>1
  <2>6. HoldsMore(G[n], F[n], x)
    BY <1>1, <2>1, <2>5 DEF T
  <2> QED
    BY <1>10, <1>13, <2>1, <2>6 DEF new
<1> QED
  BY <1>20, <1>21

-----------------------------------------------------------------------------
(* The recent blocks.                                                      *)

RecentBlock == [block : Nat, beefy : Roots, root : Nat]

\* Entry i of this many, after so many blocks.
IsEntry(entry, i, length, blocks) ==
  /\ entry.block = blocks - length + i
  /\ Len(entry.beefy) = entry.block
  /\ Range(entry.beefy) = 1..entry.block
  /\ entry.root = IF i = length THEN Zero ELSE entry.block

\* The mountain range holds the root of every block.
HoldsAll == Len(SuperPeak(peaks)) = Len(log) /\ Range(SuperPeak(peaks)) = 1..Len(log)

BInv ==
  /\ peaks \in Seq(Roots) /\ HoldsAll
  /\ history \in Seq(RecentBlock) /\ Len(history) <= Len(log)
  /\ \A i \in 1..Len(history) : IsEntry(history[i], i, Len(history), Len(log))

LEMMA BInvImplies == BInv => BeefyCommitsAll
  BY DEF BInv, IsEntry, BeefyCommitsAll

LEMMA InitBlocks == Init => BInv
<1> SUFFICES ASSUME Init PROVE BInv
  OBVIOUS
<1>1. history = <<>> /\ peaks = <<>> /\ log = <<>>
  BY DEF Init
<1>2. SuperPeak(peaks) = <<>>
  BY <1>1 DEF SuperPeak, FlattenSeq
<1>3. Range(<<>>) = {} /\ 1..0 = {}
  BY DEF Range
<1>4. HoldsAll
  BY <1>1, <1>2, <1>3 DEF HoldsAll
<1> QED
  BY <1>1, <1>4 DEF BInv

\* The newest n are the last ones.
LEMMA NewestAreLast ==
  ASSUME NEW S, NEW s \in Seq(S), s # <<>>, NEW n \in Nat \ {0}
  PROVE  LET t == Newest(s, n)
         IN  /\ t \in Seq(S) /\ Len(t) \in 1..Len(s)
             /\ \A i \in 1..Len(t) : t[i] = s[Len(s) - Len(t) + i]
<1> DEFINE m == Max({1, Len(s) - n + 1})
<1>1. m \in 1..Len(s)
  <2>1. Len(s) \in Nat /\ Len(s) >= 1
    OBVIOUS
  <2>2. m = IF Len(s) - n + 1 > 1 THEN Len(s) - n + 1 ELSE 1
    BY <2>1 DEF Max
  <2> QED
    BY <2>1, <2>2
<1> HIDE DEF m
<1>2. Newest(s, n) = SubSeq(s, m, Len(s))
  BY DEF Newest, m
<1>3. /\ Newest(s, n) \in Seq(S)
      /\ Len(Newest(s, n)) = Len(s) - m + 1
      /\ \A i \in 1..(Len(s) - m + 1) : Newest(s, n)[i] = s[m + i - 1]
  BY <1>1, <1>2
<1>4. Len(s) - (Len(s) - m + 1) = m - 1
  BY <1>1
<1>5. \A i \in 1..(Len(s) - m + 1) : (m - 1) + i = m + i - 1
  BY <1>1
<1> QED
  BY <1>1, <1>3, <1>4, <1>5

\* The block's parent learns its state root, nothing else changes.
LEMMA BackFilledEntries ==
  ASSUME BInv, log \in Seq(Entries)
  PROVE  LET e == BackFilled(history, Len(log))
         IN  /\ e \in Seq(RecentBlock) /\ Len(e) = Len(history)
             /\ \A i \in 1..Len(history) :
                  /\ e[i].block = history[i].block /\ e[i].beefy = history[i].beefy
                  /\ e[i].root = history[i].block
<1> DEFINE e == BackFilled(history, Len(log))
           n == Len(history)
<1>1. /\ history \in Seq(RecentBlock) /\ n \in Nat /\ Len(log) \in Nat
      /\ \A i \in 1..n : IsEntry(history[i], i, n, Len(log))
  BY DEF BInv
<1>2. CASE history = <<>>
  <2>1. e = history /\ n = 0
    BY <1>2 DEF BackFilled
  <2> QED
    BY <1>1, <2>1
<1>3. CASE history # <<>>
  <2>1. e = [history EXCEPT ![n].root = Len(log)] /\ n \in 1..n
    BY <1>1, <1>3 DEF BackFilled
  <2>2. history[n] \in RecentBlock
    BY <1>1, <2>1
  <2>3. [history[n] EXCEPT !.root = Len(log)] \in RecentBlock
    BY <1>1, <2>2 DEF RecentBlock
  <2>4. e = [history EXCEPT ![n] = [history[n] EXCEPT !.root = Len(log)]]
    BY <2>1
  <2>5. e \in Seq(RecentBlock) /\ Len(e) = n
    BY <1>1, <2>1, <2>3, <2>4
  <2>6. ASSUME NEW i \in 1..n
        PROVE  /\ e[i].block = history[i].block /\ e[i].beefy = history[i].beefy
               /\ e[i].root = history[i].block
    <3>1. history[i] \in RecentBlock /\ IsEntry(history[i], i, n, Len(log))
      BY <1>1
    <3>2. CASE i = n
      <4>1. e[i] = [history[n] EXCEPT !.root = Len(log)]
        BY <1>1, <2>4, <3>2
      <4>2. history[n].block = Len(log)
        BY <1>1, <3>1, <3>2 DEF IsEntry
      <4> QED
        BY <2>2, <3>2, <4>1, <4>2 DEF RecentBlock
    <3>3. CASE i # n
      <4>1. e[i] = history[i]
        BY <1>1, <2>4, <3>3
      <4> QED
        BY <3>1, <3>3, <4>1 DEF IsEntry
    <3> QED
      BY <3>2, <3>3
  <2> QED
    BY <2>5, <2>6
<1> QED
  BY <1>2, <1>3

LEMMA Appended ==
  ASSUME NEW S, NEW q \in Seq(S), NEW x \in S
  PROVE  /\ Append(q, x) \in Seq(S) /\ Len(Append(q, x)) = Len(q) + 1
         /\ Append(q, x) # <<>> /\ Append(q, x)[Len(q) + 1] = x
         /\ \A i \in 1..Len(q) : Append(q, x)[i] = q[i]
<1>1. Append(q, x) \in Seq(S) /\ Len(Append(q, x)) = Len(q) + 1 /\ Len(q) \in Nat
  OBVIOUS
<1>2. Append(q, x)[Len(q) + 1] = x
  OBVIOUS
<1>3. \A i \in 1..Len(q) : Append(q, x)[i] = q[i]
  OBVIOUS
<1>4. Append(q, x) # <<>>
  <2> DEFINE a == Append(q, x)
  <2>1. a \in Seq(S) /\ Len(a) # 0
    BY <1>1
  <2> HIDE DEF a
  <2>2. a # <<>>
    BY <2>1
  <2> QED
    BY <2>2 DEF a
<1> QED
  BY <1>1, <1>2, <1>3, <1>4

LEMMA BlocksStep ==
  ASSUME BInv, log \in Seq(Entries), NEW entry, log' = Append(log, entry),
         peaks' = AppendPeak(peaks, <<Len(log) + 1>>),
         history' = NextRecentBlocks(Len(log) + 1, peaks')
  PROVE  BInv'
<1> DEFINE n == Len(log)
           block == n + 1
           e == BackFilled(history, n)
           super == SuperPeak(peaks')
           head == [block |-> block, beefy |-> super, root |-> Zero]
           s == Append(e, head)
           t == Newest(s, MaxHistory)
<1>1. n \in Nat /\ block \in Nat /\ Len(log') = block /\ block - 1 = n
  OBVIOUS
<1>2. peaks \in Seq(Roots) /\ Len(SuperPeak(peaks)) = n /\ Range(SuperPeak(peaks)) = 1..n
  BY DEF BInv, HoldsAll
<1>3. peaks' \in Seq(Roots) /\ HoldsMore(super, SuperPeak(peaks), block)
  BY <1>1, <1>2, AppendPeakHolds
<1>4. 1..block = 1..n \cup {block}
  BY <1>1
<1>5. super \in Roots /\ Len(super) = block /\ Range(super) = 1..block
  <2> HIDE DEF block, super
  <2>1. super \in Roots /\ Len(super) = n + 1 /\ Range(super) = 1..n \cup {block}
    BY <1>2, <1>3 DEF HoldsMore
  <2> QED
    BY <1>4, <2>1 DEF block
<1>6. HoldsAll'
  BY <1>1, <1>5 DEF HoldsAll
<1>7. /\ e \in Seq(RecentBlock) /\ Len(e) = Len(history)
      /\ \A i \in 1..Len(history) :
           /\ e[i].block = history[i].block /\ e[i].beefy = history[i].beefy
           /\ e[i].root = history[i].block
  BY BackFilledEntries
<1>8. history' = t
  BY <1>1 DEF NextRecentBlocks
<1>9. head \in RecentBlock
  BY <1>1, <1>5 DEF RecentBlock, Zero
<1>10. Len(history) \in Nat /\ Len(history) <= n
  BY DEF BInv
<1> HIDE DEF e, head, block, super
<1>11. /\ s \in Seq(RecentBlock) /\ Len(s) = Len(history) + 1 /\ s # <<>>
       /\ s[Len(history) + 1] = head
       /\ \A i \in 1..Len(history) : s[i] = e[i]
  <2>1. e \in Seq(RecentBlock) /\ Len(e) = Len(history)
    BY <1>7
  <2>2. /\ s \in Seq(RecentBlock) /\ Len(s) = Len(e) + 1 /\ s # <<>>
        /\ s[Len(e) + 1] = head
        /\ \A i \in 1..Len(e) : s[i] = e[i]
    BY <1>9, <2>1, Appended
  <2> QED
    BY <2>1, <2>2
<1> HIDE DEF s
<1>12. ASSUME NEW i \in 1..Len(s) PROVE IsEntry(s[i], i, Len(s), block)
  <2>1. CASE i = Len(s)
    <3>1. s[i] = head
      BY <1>11, <2>1
    <3>2. block - Len(s) + Len(s) = block
      BY <1>1, <1>10, <1>11
    <3>3. head.block = block /\ head.beefy = super /\ head.root = Zero
      BY DEF head
    <3> QED
      BY <1>5, <2>1, <3>1, <3>2, <3>3 DEF IsEntry
  <2>2. CASE i # Len(s)
    <3>1. i \in 1..Len(history)
      BY <1>10, <1>11, <2>2
    <3>2. s[i] = e[i]
      BY <1>11, <3>1
    <3>3. IsEntry(history[i], i, Len(history), n)
      BY <3>1 DEF BInv
    <3>4. n - Len(history) + i = block - Len(s) + i
      <4>1. \A a, h, k \in Int : a - h + k = (a + 1) - (h + 1) + k
        OBVIOUS
      <4>2. block = n + 1
        BY DEF block
      <4> QED
        BY <1>1, <1>10, <1>11, <4>1, <4>2
    <3> QED
      BY <1>7, <2>2, <3>1, <3>2, <3>3, <3>4 DEF IsEntry
  <2> QED
    BY <2>1, <2>2
<1>13. /\ t \in Seq(RecentBlock) /\ Len(t) \in 1..Len(s)
       /\ \A i \in 1..Len(t) : t[i] = s[Len(s) - Len(t) + i]
  <2>1. MaxHistory \in Nat \ {0}
    BY BlockRecordsConstants
  <2>2. s \in Seq(RecentBlock) /\ s # <<>>
    BY <1>11
  <2> QED
    BY <2>1, <2>2, NewestAreLast
<1> HIDE DEF t
<1>14. ASSUME NEW i \in 1..Len(t) PROVE IsEntry(t[i], i, Len(t), block)
  <2> DEFINE j == Len(s) - Len(t) + i
  <2>1. /\ j \in 1..Len(s) /\ t[i] = s[j]
        /\ block - Len(s) + j = block - Len(t) + i
        /\ j = Len(s) <=> i = Len(t)
    <3>1. \A b, l, m, k \in Int :
            /\ b - l + (l - m + k) = b - m + k
            /\ l - m + k = l <=> k = m
            /\ m \in 1..l /\ k \in 1..m => l - m + k \in 1..l
      OBVIOUS
    <3>2. Len(s) \in Int /\ Len(t) \in Int /\ i \in Int /\ block \in Int
      BY <1>1, <1>10, <1>11, <1>13
    <3>3. Len(t) \in 1..Len(s) /\ i \in 1..Len(t) /\ t[i] = s[j]
      BY <1>13
    <3>4. j \in 1..Len(s)
      BY <3>1, <3>2, <3>3
    <3>5. block - Len(s) + j = block - Len(t) + i
      BY <3>1, <3>2
    <3>6. j = Len(s) <=> i = Len(t)
      <4>1. ASSUME j = Len(s) PROVE i = Len(t)
        BY <3>2, <4>1
      <4>2. ASSUME i = Len(t) PROVE j = Len(s)
        BY <3>2, <4>2
      <4> QED
        BY <4>1, <4>2
    <3> QED
      BY <3>3, <3>4, <3>5, <3>6
  <2> HIDE DEF j
  <2>2. IsEntry(s[j], j, Len(s), block)
    BY <1>12, <2>1
  <2> QED
    BY <2>1, <2>2 DEF IsEntry
<1>15. Len(t) <= block
  BY <1>1, <1>10, <1>11, <1>13 DEF block
<1> QED
  BY <1>1, <1>3, <1>6, <1>8, <1>13, <1>14, <1>15 DEF BInv

LEMMA NextBlocks == RInv /\ BInv /\ [Next]_vars => BInv'
<1> SUFFICES ASSUME RInv, BInv, [Next]_vars PROVE BInv'
  OBVIOUS
<1>1. log \in Seq(Entries)
  BY DEF RInv
<1>2. CASE \E gap \in Gaps, reports \in Extrinsics, assurers \in AssurerSets :
             \E refusing \in SUBSET {"safrole", "reports"} :
               ImportBlock(tau + gap, reports, assurers, refusing)
  <2>1. /\ peaks' = AppendPeak(peaks, <<Len(log) + 1>>)
        /\ history' = NextRecentBlocks(Len(log) + 1, peaks')
        /\ \E entry : log' = Append(log, entry)
    BY <1>2 DEF ImportBlock, Record
  <2> QED
    BY <1>1, <2>1, BlocksStep
<1>3. CASE UNCHANGED vars
  <2>1. UNCHANGED <<peaks, history, log>>
    BY <1>3 DEF vars
  <2> QED
    BY <2>1 DEF BInv, HoldsAll
<1> QED
  BY <1>2, <1>3 DEF Next, AtBound

\* The beefy root of every block in beta commits to each accumulation root up to
\* it exactly once, however the mountain range carried, and beta holds the
\* newest blocks, refused ones too, each but the newest with the state root it
\* left: for chains of any length (block_import.rs 166-204, crypto.rs 50-97).
THEOREM BeefyRootsCommitToAll == Spec => []BeefyCommitsAll
<1>1. Init => RInv
  BY DEF Init, RInv
<1>2. Init => BInv
  BY InitBlocks
<1>3. RInv /\ BInv /\ [Next]_vars => BInv'
  BY NextBlocks
<1>4. BInv => BeefyCommitsAll
  BY BInvImplies
<1> QED
  BY <1>1, <1>2, <1>3, <1>4, RInvStep, PTL DEF Spec
=============================================================================
