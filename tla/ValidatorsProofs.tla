-------------------------- MODULE ValidatorsProofs --------------------------
(***************************************************************************)
(* Proofs about Safrole and, on top of it, Guarantors.                     *)
(*                                                                         *)
(* Safrole: sorting by id is a permutation that orders, the outside-in     *)
(* order loses no ticket, and the invariants of the epoch changes hold for *)
(* every epoch length, tail, validator set and extrinsic.                  *)
(*                                                                         *)
(* Guarantors: for every rotation period that divides the epoch, every     *)
(* shuffle and every sequence of blocks, with the tickets that safrole     *)
(* refuses among them, a guarantee is judged by the assignment that was in *)
(* force when it was made, in a rotation a validator guarantees for one    *)
(* core, and every core has its full group.                                *)
(***************************************************************************)
EXTENDS Guarantors, FiniteSetTheorems, WellFoundedInduction, TLAPS

-----------------------------------------------------------------------------
(* Sorting.                                                                *)

\* s[i] comes before s[j] in the stable order by id.
Before(s, i, j) == s[i].id < s[j].id \/ (s[i].id = s[j].id /\ i < j)

\* The elements that come no later than s[i].
Upto(s, i) == {j \in DOMAIN s : s[j].id < s[i].id \/ (s[j].id = s[i].id /\ j <= i)}

\* Ranks are the places of a sequence, and follow the order.
LEMMA RankOrder ==
  ASSUME NEW s, NEW n \in Nat, DOMAIN s = 1..n, \A i \in 1..n : s[i].id \in Int
  PROVE  /\ \A i \in 1..n : Rank(s, i) \in 1..n
         /\ \A i, j \in 1..n : Before(s, i, j) => Rank(s, i) < Rank(s, j)
<1>1. \A i : Rank(s, i) = Cardinality(Upto(s, i))
  BY DEF Rank, Upto
<1>2. IsFiniteSet(1..n) /\ Cardinality(1..n) = n
  BY FS_Interval
<1>3. ASSUME NEW i \in 1..n
      PROVE  /\ IsFiniteSet(Upto(s, i)) /\ Cardinality(Upto(s, i)) \in 1..n
             /\ i \in Upto(s, i)
  <2>1. Upto(s, i) \in SUBSET (1..n) /\ i \in Upto(s, i)
    BY DEF Upto
  <2>2. IsFiniteSet(Upto(s, i)) /\ Cardinality(Upto(s, i)) <= n
    BY <1>2, <2>1, FS_Subset
  <2>3. Cardinality(Upto(s, i)) \in Nat
    BY <2>2, FS_CardinalityType
  <2>4. Cardinality(Upto(s, i)) # 0
    BY <2>1, <2>2, FS_EmptySet
  <2> QED
    BY <2>1, <2>2, <2>3, <2>4
<1>4. ASSUME NEW i \in 1..n, NEW j \in 1..n, Before(s, i, j)
      PROVE  Cardinality(Upto(s, i)) < Cardinality(Upto(s, j))
  <2>1. Upto(s, i) \in SUBSET Upto(s, j) /\ j \notin Upto(s, i)
    BY <1>4 DEF Before, Upto
  <2>2. Upto(s, i) # Upto(s, j) /\ IsFiniteSet(Upto(s, j))
    BY <1>3, <2>1
  <2>3. Cardinality(Upto(s, i)) <= Cardinality(Upto(s, j))
        /\ Cardinality(Upto(s, i)) # Cardinality(Upto(s, j))
    BY <2>1, <2>2, FS_Subset
  <2>4. Cardinality(Upto(s, i)) \in 1..n /\ Cardinality(Upto(s, j)) \in 1..n
    BY <1>3
  <2> QED
    BY <2>3, <2>4
<1> QED
  BY <1>1, <1>3, <1>4

\* Every place of a sequence is the rank of one of its elements.
LEMMA RankOnto ==
  ASSUME NEW s, NEW n \in Nat, DOMAIN s = 1..n, \A i \in 1..n : s[i].id \in Int,
         NEW k \in 1..n
  PROVE  \E i \in 1..n : Rank(s, i) = k
<1> DEFINE rank == [i \in 1..n |-> Rank(s, i)]
<1>1. rank \in Injection(1..n, 1..n)
  <2>1. rank \in [1..n -> 1..n]
    BY RankOrder
  <2>2. ASSUME NEW i \in 1..n, NEW j \in 1..n, rank[i] = rank[j]
        PROVE  i = j
    <3>1. Rank(s, i) = Rank(s, j) /\ Rank(s, i) \in 1..n
      BY <2>2, RankOrder
    <3>2. Before(s, i, j) => Rank(s, i) < Rank(s, j)
      BY RankOrder
    <3>3. Before(s, j, i) => Rank(s, j) < Rank(s, i)
      BY RankOrder
    <3>4. ~ Before(s, i, j) /\ ~ Before(s, j, i)
      BY <3>1, <3>2, <3>3
    <3> QED
      BY <3>4 DEF Before
  <2> QED
    BY <2>1, <2>2 DEF Injection, IsInjective
<1>2. IsFiniteSet(1..n)
  BY FS_Interval
<1>3. rank \in Surjection(1..n, 1..n)
  BY <1>1, <1>2, FS_Injection
<1> QED
  BY <1>3 DEF Surjection

\* An element greater than each of the first e has a later place than all of them.
LEMMA RankAbove ==
  ASSUME NEW s, NEW n \in Nat, DOMAIN s = 1..n, \A i \in 1..n : s[i].id \in Int,
         NEW e \in 0..n, NEW j \in 1..n, \A i \in 1..e : s[i].id < s[j].id
  PROVE  e < Rank(s, j)
<1>1. j \notin 1..e
  OBVIOUS
<1>2. ((1..e) \cup {j}) \in SUBSET Upto(s, j) /\ Upto(s, j) \in SUBSET (1..n)
  BY DEF Upto
<1>3. IsFiniteSet(1..n) /\ IsFiniteSet(1..e) /\ Cardinality(1..e) = e
  BY FS_Interval
<1>4. Cardinality((1..e) \cup {j}) = e + 1
  BY <1>1, <1>3, FS_AddElement
<1>5. IsFiniteSet(Upto(s, j))
  BY <1>2, <1>3, FS_Subset
<1>6. Cardinality(Upto(s, j)) \in Nat /\ e + 1 <= Cardinality(Upto(s, j))
  BY <1>2, <1>4, <1>5, FS_Subset, FS_CardinalityType
<1>7. Rank(s, j) = Cardinality(Upto(s, j))
  BY DEF Rank, Upto
<1> QED
  BY <1>6, <1>7

\* SortById keeps the length, holds exactly the elements of the sequence, and
\* if no id is repeated its ids ascend strictly (gamma_a.sort_by).
LEMMA Sorting ==
  ASSUME NEW T, NEW s \in Seq(T), \A t \in T : t.id \in Int
  PROVE  /\ SortById(s) \in Seq(T) /\ Len(SortById(s)) = Len(s)
         /\ \A k \in 1..Len(s) : \E i \in 1..Len(s) : SortById(s)[k] = s[i]
         /\ \A i \in 1..Len(s) : Rank(s, i) \in 1..Len(s) /\ SortById(s)[Rank(s, i)] = s[i]
         /\ (\A i, j \in 1..Len(s) : s[i].id = s[j].id => i = j)
              => \A k, l \in 1..Len(s) : k < l => SortById(s)[k].id < SortById(s)[l].id
<1> DEFINE n == Len(s)
           At(k) == CHOOSE i \in 1..n : Rank(s, i) = k
<1>1. n \in Nat /\ DOMAIN s = 1..n /\ \A i \in 1..n : s[i] \in T /\ s[i].id \in Int
  OBVIOUS
<1>2. \A k \in 1..n : At(k) \in 1..n /\ Rank(s, At(k)) = k
  BY <1>1, RankOnto
<1>3. \A k \in 1..n : SortById(s)[k] = s[At(k)]
  BY <1>1 DEF SortById
<1>4. DOMAIN SortById(s) = 1..n
  BY <1>1 DEF SortById
<1>5. SortById(s) = [k \in 1..n |-> s[At(k)]]
  BY <1>1 DEF SortById
<1>6. SortById(s) \in Seq(T) /\ Len(SortById(s)) = n
  <2>1. \A k \in 1..n : s[At(k)] \in T
    BY <1>1, <1>2
  <2> HIDE DEF At
  <2> QED
    BY <1>1, <1>5, <2>1
<1>7. \A i \in 1..n : SortById(s)[Rank(s, i)] = s[i] /\ Rank(s, i) \in 1..n
  <2>1. TAKE i \in 1..n
  <2>2. Rank(s, i) \in 1..n
    BY <1>1, RankOrder
  <2>3. At(Rank(s, i)) = i
    <3>1. DEFINE j == At(Rank(s, i))
    <3>2. j \in 1..n /\ Rank(s, j) = Rank(s, i)
      BY <1>2, <2>2
    <3> HIDE DEF j
    <3>3. Before(s, i, j) => Rank(s, i) < Rank(s, j)
      BY <1>1, <3>2, RankOrder
    <3>4. Before(s, j, i) => Rank(s, j) < Rank(s, i)
      BY <1>1, <3>2, RankOrder
    <3>5. ~ Before(s, i, j) /\ ~ Before(s, j, i)
      BY <2>2, <3>2, <3>3, <3>4
    <3> QED
      BY <1>1, <3>2, <3>5 DEF Before, j
  <2> QED
    BY <1>3, <2>2, <2>3
<1>8. ASSUME \A i, j \in 1..n : s[i].id = s[j].id => i = j,
             NEW k \in 1..n, NEW l \in 1..n, k < l
      PROVE  SortById(s)[k].id < SortById(s)[l].id
  <2> DEFINE i == At(k)
             j == At(l)
  <2>1. i \in 1..n /\ j \in 1..n /\ Rank(s, i) = k /\ Rank(s, j) = l
    BY <1>2
  <2> HIDE DEF i, j
  <2>2. ~ Before(s, j, i)
    <3>1. Before(s, j, i) => Rank(s, j) < Rank(s, i)
      BY <1>1, <2>1, RankOrder
    <3> QED
      BY <1>8, <2>1, <3>1
  <2>3. i # j
    BY <1>8, <2>1
  <2>4. s[i].id < s[j].id
    BY <1>1, <1>8, <2>1, <2>2, <2>3 DEF Before
  <2> QED
    BY <1>3, <2>4 DEF i, j
<1> QED
  BY <1>2, <1>3, <1>6, <1>7, <1>8

-----------------------------------------------------------------------------
(* The contest.                                                            *)

\* The ids of a contest are integers.
LEMMA TicketIds == ASSUME NEW s \in Seq(Ticket) PROVE \A i \in DOMAIN s : s[i].id \in Int
<1>1. \A i \in DOMAIN s : s[i] \in Ticket
  OBVIOUS
<1> QED
  BY <1>1 DEF Ticket

\* The contest is the sorted sequence of the old and the new tickets, cut.
LEMMA EnteredPlaces ==
  ASSUME NEW old \in Seq(Ticket), NEW new \in Seq(Ticket)
  PROVE  LET both == old \o new
             after == Entered(old, new)
         IN  /\ both \in Seq(Ticket) /\ Len(both) = Len(old) + Len(new)
             /\ \A i \in 1..Len(both) :
                  both[i] = IF i <= Len(old) THEN old[i] ELSE new[i - Len(old)]
             /\ after \in Seq(Ticket) /\ Len(after) <= Len(both)
             /\ Len(after) = IF Len(both) <= EpochLength THEN Len(both) ELSE EpochLength
             /\ \A k \in 1..Len(after) : after[k] = SortById(both)[k]
<1> DEFINE both == old \o new
           sorted == SortById(both)
<1>1. both \in Seq(Ticket) /\ Len(both) = Len(old) + Len(new)
      /\ \A i \in 1..Len(both) : both[i] = IF i <= Len(old) THEN old[i] ELSE new[i - Len(old)]
  OBVIOUS
<1>2. \A t \in Ticket : t.id \in Int
  BY DEF Ticket
<1>3. Entered(old, new) = Truncate(sorted)
  BY DEF Entered
<1> HIDE DEF both
<1>4. sorted \in Seq(Ticket) /\ Len(sorted) = Len(both) /\ Len(both) \in Nat
  BY <1>1, <1>2, Sorting
<1> HIDE DEF sorted
<1>5. /\ Truncate(sorted) \in Seq(Ticket) /\ Len(Truncate(sorted)) <= Len(both)
      /\ Len(Truncate(sorted)) = IF Len(both) <= EpochLength THEN Len(both) ELSE EpochLength
      /\ \A k \in 1..Len(Truncate(sorted)) : Truncate(sorted)[k] = sorted[k]
  <2>1. CASE Len(both) <= EpochLength
    BY <1>4, <2>1 DEF Truncate
  <2>2. CASE ~ (Len(both) <= EpochLength)
    <3>1. EpochLength \in 1..Len(sorted) /\ EpochLength <= Len(both)
      BY <1>4, <2>2, SafroleConstants
    <3>2. Truncate(sorted) = SubSeq(sorted, 1, EpochLength)
      BY <1>4, <2>2 DEF Truncate
    <3>3. /\ SubSeq(sorted, 1, EpochLength) \in Seq(Ticket)
          /\ Len(SubSeq(sorted, 1, EpochLength)) = EpochLength
          /\ \A k \in 1..EpochLength : SubSeq(sorted, 1, EpochLength)[k] = sorted[k]
      BY <1>4, <3>1
    <3> QED
      BY <2>2, <3>1, <3>2, <3>3
  <2> QED
    BY <2>1, <2>2
<1> QED
  BY <1>1, <1>3, <1>5 DEF both, sorted

\* Tickets in strict order that join a contest in strict order, none of which
\* it holds, leave no id twice.
LEMMA NoIdTwice ==
  ASSUME NEW old \in Seq(Ticket), NEW new \in Seq(Ticket),
         \A i, j \in DOMAIN old : i < j => old[i].id < old[j].id,
         \A i, j \in DOMAIN new : i < j => new[i].id < new[j].id,
         Ids(new) \cap Ids(old) = {}
  PROVE  \A i, j \in 1..Len(old \o new) :
           (old \o new)[i].id = (old \o new)[j].id => i = j
<1> DEFINE both == old \o new
<1>1. both \in Seq(Ticket) /\ Len(both) = Len(old) + Len(new)
      /\ \A i \in 1..Len(both) : both[i] = IF i <= Len(old) THEN old[i] ELSE new[i - Len(old)]
  OBVIOUS
<1>2. \A t \in Ticket : t.id \in Int
  BY DEF Ticket
<1> HIDE DEF both
<1>3. ASSUME NEW i \in 1..Len(both), NEW j \in 1..Len(both), i < j
      PROVE  both[i].id # both[j].id
  <2>1. CASE j <= Len(old)
    <3>1. both[i] = old[i] /\ both[j] = old[j] /\ i \in DOMAIN old /\ j \in DOMAIN old
      BY <1>1, <1>3, <2>1
    <3>2. old[i].id \in Int /\ old[j].id \in Int /\ old[i].id < old[j].id
      BY <1>2, <1>3, <3>1
    <3> QED
      BY <3>1, <3>2
  <2>2. CASE ~ (j <= Len(old)) /\ i <= Len(old)
    <3>1. /\ both[i] = old[i] /\ both[j] = new[j - Len(old)]
          /\ i \in DOMAIN old /\ j - Len(old) \in DOMAIN new
      BY <1>1, <1>3, <2>2
    <3>2. old[i].id \in Ids(old) /\ new[j - Len(old)].id \in Ids(new)
      BY <3>1 DEF Ids
    <3> QED
      BY <3>1, <3>2
  <2>3. CASE ~ (j <= Len(old)) /\ ~ (i <= Len(old))
    <3> DEFINE x == i - Len(old)
               y == j - Len(old)
    <3>1. both[i] = new[x] /\ both[j] = new[y] /\ x \in DOMAIN new /\ y \in DOMAIN new /\ x < y
      BY <1>1, <1>3, <2>3
    <3> HIDE DEF x, y
    <3>2. new[x].id \in Int /\ new[y].id \in Int /\ new[x].id < new[y].id
      BY <1>2, <3>1
    <3> QED
      BY <3>1, <3>2
  <2> QED
    BY <2>1, <2>2, <2>3
<1>4. ASSUME NEW i \in 1..Len(both), NEW j \in 1..Len(both), both[i].id = both[j].id
      PROVE  i = j
  <2>1. i < j \/ j < i \/ i = j
    OBVIOUS
  <2> QED
    BY <1>3, <1>4, <2>1
<1> QED
  BY <1>4 DEF both

\* A ticket enters the contest from the extrinsic or was in it before; the
\* contest is never longer than the epoch and stays in strict order.
LEMMA Entering ==
  ASSUME NEW old \in Seq(Ticket), NEW new \in Seq(Ticket)
  PROVE  /\ Entered(old, new) \in Seq(Ticket) /\ Len(Entered(old, new)) <= EpochLength
         /\ \A k \in DOMAIN Entered(old, new) :
              \/ \E i \in DOMAIN old : Entered(old, new)[k] = old[i]
              \/ \E i \in DOMAIN new : Entered(old, new)[k] = new[i]
         /\ (/\ \A i, j \in DOMAIN old : i < j => old[i].id < old[j].id
             /\ \A i, j \in DOMAIN new : i < j => new[i].id < new[j].id
             /\ Ids(new) \cap Ids(old) = {})
            => \A k, l \in DOMAIN Entered(old, new) :
                 k < l => Entered(old, new)[k].id < Entered(old, new)[l].id
<1> DEFINE both == old \o new
           sorted == SortById(both)
           after == Entered(old, new)
<1>1. /\ both \in Seq(Ticket) /\ Len(both) = Len(old) + Len(new)
      /\ \A i \in 1..Len(both) : both[i] = IF i <= Len(old) THEN old[i] ELSE new[i - Len(old)]
      /\ after \in Seq(Ticket) /\ Len(after) <= Len(both)
      /\ Len(after) = IF Len(both) <= EpochLength THEN Len(both) ELSE EpochLength
      /\ \A k \in 1..Len(after) : after[k] = sorted[k]
  BY EnteredPlaces
<1>2. \A t \in Ticket : t.id \in Int
  BY DEF Ticket
<1>3. (/\ \A i, j \in DOMAIN old : i < j => old[i].id < old[j].id
       /\ \A i, j \in DOMAIN new : i < j => new[i].id < new[j].id
       /\ Ids(new) \cap Ids(old) = {})
        => \A i, j \in 1..Len(both) : both[i].id = both[j].id => i = j
  BY NoIdTwice
<1> HIDE DEF both, after
<1>4. /\ \A k \in 1..Len(both) : \E i \in 1..Len(both) : sorted[k] = both[i]
      /\ (\A i, j \in 1..Len(both) : both[i].id = both[j].id => i = j)
           => \A k, l \in 1..Len(both) : k < l => sorted[k].id < sorted[l].id
  BY <1>1, <1>2, Sorting
<1> HIDE DEF sorted
<1>5. \A k \in DOMAIN after : k \in 1..Len(both) /\ after[k] = sorted[k]
  <2>1. DOMAIN after = 1..Len(after) /\ Len(after) \in Nat /\ Len(both) \in Nat
    BY <1>1
  <2>2. Len(after) <= Len(both) /\ \A k \in 1..Len(after) : after[k] = sorted[k]
    BY <1>1
  <2> QED
    BY <2>1, <2>2
<1>6. Len(after) <= EpochLength
  BY <1>1, SafroleConstants
<1>7. ASSUME NEW k \in DOMAIN after
      PROVE  \/ \E i \in DOMAIN old : after[k] = old[i]
             \/ \E i \in DOMAIN new : after[k] = new[i]
  <2>1. PICK i \in 1..Len(both) : sorted[k] = both[i]
    <3>1. k \in 1..Len(both)
      BY <1>5
    <3> QED
      BY <1>4, <3>1
  <2>4. /\ after[k] = IF i <= Len(old) THEN old[i] ELSE new[i - Len(old)]
        /\ i \in 1..(Len(old) + Len(new))
    BY <1>1, <1>5, <2>1
  <2>2. CASE i <= Len(old)
    <3>1. i \in DOMAIN old
      BY <2>2, <2>4
    <3> QED
      BY <2>2, <2>4, <3>1
  <2>3. CASE ~ (i <= Len(old))
    <3>1. i - Len(old) \in DOMAIN new
      BY <2>3, <2>4
    <3> QED
      BY <2>3, <2>4, <3>1
  <2> QED
    BY <2>2, <2>3
<1> QED
  BY <1>1, <1>3, <1>4, <1>5, <1>6, <1>7 DEF after

\* The contest new is the best of the contest old and of the tickets with ids:
\* what is dropped is worse than all that is kept, and a full contest only
\* improves, for each of its tickets is no worse than one it held before.
BestOf(old, ids, new) ==
  /\ Ids(new) \subseteq Ids(old) \cup ids
  /\ \A id \in (Ids(old) \cup ids) \ Ids(new) :
       Len(new) = EpochLength /\ \A k \in DOMAIN new : new[k].id < id
  /\ Len(old) = EpochLength =>
       /\ Len(new) = EpochLength
       /\ \A k \in DOMAIN new : \E i \in DOMAIN old : new[k].id <= old[i].id

LEMMA BestEnter ==
  ASSUME NEW old \in Seq(Ticket), NEW new \in Seq(Ticket),
         \A i, j \in DOMAIN old : i < j => old[i].id < old[j].id,
         \A i, j \in DOMAIN new : i < j => new[i].id < new[j].id,
         Ids(new) \cap Ids(old) = {}
  PROVE  BestOf(old, Ids(new), Entered(old, new))
<1> DEFINE both == old \o new
           sorted == SortById(both)
           after == Entered(old, new)
<1>1. /\ both \in Seq(Ticket) /\ Len(both) = Len(old) + Len(new)
      /\ \A i \in 1..Len(both) : both[i] = IF i <= Len(old) THEN old[i] ELSE new[i - Len(old)]
      /\ after \in Seq(Ticket) /\ Len(after) <= Len(both)
      /\ Len(after) = IF Len(both) <= EpochLength THEN Len(both) ELSE EpochLength
      /\ \A k \in 1..Len(after) : after[k] = sorted[k]
  BY EnteredPlaces
<1>2. \A t \in Ticket : t.id \in Int
  BY DEF Ticket
<1>3. \A i, j \in 1..Len(both) : both[i].id = both[j].id => i = j
  BY NoIdTwice
<1>4. Ids(after) \subseteq Ids(old) \cup Ids(new)
  BY Entering DEF Ids
<1> HIDE DEF both, after
<1>5. /\ \A i \in 1..Len(both) : Rank(both, i) \in 1..Len(both) /\ sorted[Rank(both, i)] = both[i]
      /\ \A k, l \in 1..Len(both) : k < l => sorted[k].id < sorted[l].id
  BY <1>1, <1>2, <1>3, Sorting
<1> HIDE DEF sorted
<1>6. DOMAIN after = 1..Len(after) /\ Len(after) \in Nat /\ Len(both) \in Nat
  BY <1>1
<1>7. ASSUME NEW i \in 1..Len(both), both[i].id \notin Ids(after)
      PROVE  Len(after) = EpochLength /\ \A k \in DOMAIN after : after[k].id < both[i].id
  <2> DEFINE place == Rank(both, i)
  <2>1. place \in 1..Len(both) /\ sorted[place] = both[i]
    BY <1>5
  <2> HIDE DEF place
  <2>2. ~ (place <= Len(after))
    <3>1. SUFFICES ASSUME place \in 1..Len(after) PROVE FALSE
      BY <1>6, <2>1
    <3>2. after[place] = both[i]
      BY <1>1, <2>1, <3>1
    <3> QED
      BY <1>6, <1>7, <3>1, <3>2 DEF Ids
  <2>3. Len(after) = EpochLength
    BY <1>1, <1>6, <2>1, <2>2
  <2>4. ASSUME NEW k \in DOMAIN after
        PROVE  after[k].id < both[i].id
    <3>1. k \in 1..Len(both) /\ k < place
      BY <1>1, <1>6, <2>1, <2>2
    <3> QED
      BY <1>1, <1>5, <1>6, <2>1, <3>1
  <2> QED
    BY <2>3, <2>4
<1>8. \A id \in Ids(old) \cup Ids(new) : \E i \in 1..Len(both) : both[i].id = id
  <2>1. ASSUME NEW i \in DOMAIN old PROVE i \in 1..Len(both) /\ both[i] = old[i]
    BY <1>1
  <2>2. ASSUME NEW i \in DOMAIN new
        PROVE  Len(old) + i \in 1..Len(both) /\ both[Len(old) + i] = new[i]
    BY <1>1
  <2> QED
    BY <2>1, <2>2 DEF Ids
<1>9. ASSUME Len(old) = EpochLength, NEW k \in DOMAIN after,
             \A i \in DOMAIN old : ~ (after[k].id <= old[i].id)
      PROVE  FALSE
  <2> DEFINE n == Len(both)
  <2>1. /\ n \in Nat /\ DOMAIN both = 1..n /\ \A i \in 1..n : both[i].id \in Int
        /\ k \in 1..n
    BY <1>1, <1>2, <1>6
  <2>2. PICK j \in 1..n : Rank(both, j) = k
    BY <2>1, RankOnto
  <2>3. after[k] = both[j] /\ both[j].id \in Int
    BY <1>1, <1>5, <1>6, <2>1, <2>2
  <2>4. EpochLength \in 0..n /\ k <= EpochLength
    BY <1>1, <1>6, <1>9, <2>1, SafroleConstants
  <2>5. \A i \in 1..EpochLength : both[i].id < both[j].id
    <3>1. TAKE i \in 1..EpochLength
    <3>2. i \in DOMAIN old /\ i \in 1..n /\ both[i] = old[i]
      BY <1>1, <1>9
    <3>3. both[i].id \in Int /\ ~ (both[j].id <= both[i].id)
      BY <1>9, <2>1, <2>3, <3>2
    <3> QED
      BY <2>3, <3>3
  <2> HIDE DEF n
  <2>6. EpochLength < Rank(both, j)
    BY <2>1, <2>4, <2>5, RankAbove
  <2> QED
    BY <2>1, <2>2, <2>4, <2>6
<1>10. ASSUME NEW id \in (Ids(old) \cup Ids(new)) \ Ids(after)
       PROVE  Len(after) = EpochLength /\ \A k \in DOMAIN after : after[k].id < id
  <2>1. PICK i \in 1..Len(both) : both[i].id = id
    BY <1>8
  <2> QED
    BY <1>7, <2>1
<1>11. ASSUME Len(old) = EpochLength PROVE Len(after) = EpochLength
  <2>1. Len(both) = EpochLength + Len(new) /\ Len(new) \in Nat /\ EpochLength \in Nat
    BY <1>1, <1>11
  <2>2. Len(after) = IF Len(both) <= EpochLength THEN Len(both) ELSE EpochLength
    BY <1>1
  <2> QED
    BY <2>1, <2>2
<1> QED
  BY <1>4, <1>9, <1>10, <1>11 DEF after, BestOf

\* Outside-in, every ticket of the contest keeps a place and no place repeats
\* one: position i holds the place Outside(n, i), a permutation of 1..n.
Outside(n, i) == IF i % 2 = 1 THEN (i + 1) \div 2 ELSE n + 1 - i \div 2

LEMMA OutsideIn ==
  ASSUME NEW n \in Nat
  PROVE  /\ \A i \in 1..n : Outside(n, i) \in 1..n
         /\ \A i, j \in 1..n : Outside(n, i) = Outside(n, j) => i = j
  BY DEF Outside

LEMMA ZSequencePlaces ==
  ASSUME NEW T, NEW s \in Seq(T)
  PROVE  /\ ZSequence(s) \in Seq(T) /\ Len(ZSequence(s)) = Len(s)
         /\ \A i \in 1..Len(s) : ZSequence(s)[i] = s[Outside(Len(s), i)]
<1>1. Len(s) \in Nat /\ DOMAIN s = 1..Len(s)
  OBVIOUS
<1>2. \A i \in 1..Len(s) : Outside(Len(s), i) \in 1..Len(s)
  BY <1>1, OutsideIn
<1>3. ZSequence(s) = [i \in 1..Len(s) |-> s[Outside(Len(s), i)]]
  BY <1>1 DEF ZSequence, Outside
<1>4. \A i \in 1..Len(s) : s[Outside(Len(s), i)] \in T
  BY <1>1, <1>2
<1> QED
  BY <1>1, <1>3, <1>4

-----------------------------------------------------------------------------
(* The inductive invariant.                                                *)

\* The history variables are well formed, and the marker is what the contest says.
Shape ==
  /\ barred \in Seq(SUBSET Keys) /\ Len(barred) = 2
  /\ submitted \subseteq Int
  /\ mark = IF Phase(tau) >= TailStart /\ Saturated
              THEN WinningTickets(ZSequence(gamma_a)) ELSE NoMark

IInv == /\ TypeOK /\ Shape /\ ContestIsCurrent /\ BestTicketsKept
        /\ SealedByActiveSet /\ OffendersLeave

LEMMA InitInv == Init => IInv
<1> SUFFICES ASSUME Init PROVE IInv
  OBVIOUS
<1>1. kappa \in KeySeqs
  BY SafroleConstants DEF Init, KeySeqs
<1>2. TypeOK
  BY <1>1, SafroleConstants DEF Init, TypeOK
<1>3. Phase(tau) < TailStart
  BY SafroleConstants DEF Init, Phase
<1>4. Shape
  BY <1>3, SafroleConstants DEF Init, Shape, Phase, Saturated
<1>5. ContestIsCurrent /\ SealedByActiveSet /\ OffendersLeave
  BY DEF Init, ContestIsCurrent, SealedByActiveSet, OffendersLeave
<1>6. BestTicketsKept
  BY DEF Init, BestTicketsKept, Ids
<1> QED
  BY <1>2, <1>4, <1>5, <1>6 DEF IInv

\* The tickets of an extrinsic, verified against a ring and an entropy.
AreBodies(bodies, ext, ring, entropy) ==
  /\ bodies \in Seq(Ticket)
  /\ \A i \in DOMAIN bodies : bodies[i].ring = ring /\ bodies[i].entropy = entropy
  /\ Ids(bodies) = Ids(ext) /\ Ids(ext) \subseteq Int
  /\ (\A i, j \in DOMAIN ext : i < j => ext[i].id < ext[j].id)
       => \A i, j \in DOMAIN bodies : i < j => bodies[i].id < bodies[j].id

LEMMA BodyTypes ==
  ASSUME NEW ext \in TicketExtrinsics, NEW ring \in KeySeqs, NEW entropy \in Int
  PROVE  AreBodies(Bodies(ext, ring, entropy), ext, ring, entropy)
<1>1. ext \in Seq(Envelope) /\ DOMAIN ext = 1..Len(ext)
  BY SafroleConstants
<1>2. \A i \in 1..Len(ext) : ext[i].id \in Int /\ ext[i].attempt \in Nat
  <2>1. \A i \in 1..Len(ext) : ext[i] \in Envelope
    BY <1>1
  <2> QED
    BY <2>1 DEF Envelope
<1> QED
  BY <1>1, <1>2 DEF AreBodies, Bodies, Ticket, Ids

\* The tickets of an admitted extrinsic, as the contest takes them in.
LEMMA BodiesEnter ==
  ASSUME NEW ext \in TicketExtrinsics, NEW slot \in Nat, NEW ring \in KeySeqs,
         NEW entropy \in Int, NEW old, Admitted(slot, ext, old), ext # <<>>
  PROVE  LET bodies == Bodies(ext, ring, entropy)
         IN  /\ bodies \in Seq(Ticket)
             /\ \A i \in DOMAIN bodies : bodies[i].ring = ring /\ bodies[i].entropy = entropy
             /\ \A i, j \in DOMAIN bodies : i < j => bodies[i].id < bodies[j].id
             /\ Ids(bodies) \cap Ids(old) = {} /\ Ids(bodies) = Ids(ext)
<1> DEFINE bodies == Bodies(ext, ring, entropy)
<1>1. /\ \A i, j \in DOMAIN ext : i < j => ext[i].id < ext[j].id
      /\ Ids(ext) \cap Ids(old) = {}
  BY DEF Admitted, TicketsOK
<1>2. AreBodies(bodies, ext, ring, entropy)
  BY BodyTypes
<1> HIDE DEF bodies
<1>3. /\ bodies \in Seq(Ticket)
      /\ \A i \in DOMAIN bodies : bodies[i].ring = ring /\ bodies[i].entropy = entropy
      /\ Ids(bodies) = Ids(ext)
      /\ \A i, j \in DOMAIN bodies : i < j => bodies[i].id < bodies[j].id
  BY <1>1, <1>2 DEF AreBodies
<1>4. Ids(bodies) \cap Ids(old) = {}
  BY <1>1, <1>3
<1> QED
  BY <1>3, <1>4 DEF bodies

\* A contest after a block, whether or not the block carried tickets.
LEMMA ContestAfter ==
  ASSUME NEW ext \in TicketExtrinsics, NEW slot \in Nat, NEW ring \in KeySeqs,
         NEW entropy \in Int, NEW old \in Seq(Ticket), Admitted(slot, ext, old),
         \A i \in DOMAIN old : old[i].ring = ring /\ old[i].entropy = entropy,
         \A i, j \in DOMAIN old : i < j => old[i].id < old[j].id,
         Len(old) <= EpochLength
  PROVE  LET new == IF ext = <<>> THEN old ELSE Entered(old, Bodies(ext, ring, entropy))
         IN  /\ new \in Seq(Ticket) /\ Len(new) <= EpochLength
             /\ \A i \in DOMAIN new : new[i].ring = ring /\ new[i].entropy = entropy
             /\ \A i, j \in DOMAIN new : i < j => new[i].id < new[j].id
<1>1. CASE ext = <<>>
  BY <1>1
<1>2. CASE ext # <<>>
  <2> DEFINE bodies == Bodies(ext, ring, entropy)
             after == Entered(old, bodies)
  <2>1. /\ bodies \in Seq(Ticket)
        /\ \A i \in DOMAIN bodies : bodies[i].ring = ring /\ bodies[i].entropy = entropy
        /\ \A i, j \in DOMAIN bodies : i < j => bodies[i].id < bodies[j].id
        /\ Ids(bodies) \cap Ids(old) = {}
    <3>1. \A i \in DOMAIN bodies : bodies[i].ring = ring /\ bodies[i].entropy = entropy
      BY BodyTypes DEF AreBodies
    <3>2. /\ bodies \in Seq(Ticket)
          /\ \A i, j \in DOMAIN bodies : i < j => bodies[i].id < bodies[j].id
          /\ Ids(bodies) \cap Ids(old) = {}
      BY <1>2, BodiesEnter
    <3> HIDE DEF bodies
    <3> QED
      BY <3>1, <3>2
  <2> HIDE DEF bodies
  <2>2. /\ after \in Seq(Ticket) /\ Len(after) <= EpochLength
        /\ \A k \in DOMAIN after : \/ \E i \in DOMAIN old : after[k] = old[i]
                                   \/ \E i \in DOMAIN bodies : after[k] = bodies[i]
        /\ \A k, l \in DOMAIN after : k < l => after[k].id < after[l].id
    BY <2>1, Entering
  <2> HIDE DEF after
  <2>3. \A k \in DOMAIN after : after[k].ring = ring /\ after[k].entropy = entropy
    BY <2>1, <2>2
  <2> QED
    BY <1>2, <2>2, <2>3 DEF after, bodies
<1> QED
  BY <1>1, <1>2

\* The same contest is the best of what it was and of the block's tickets.
LEMMA BestAfter ==
  ASSUME NEW ext \in TicketExtrinsics, NEW slot \in Nat, NEW ring \in KeySeqs,
         NEW entropy \in Int, NEW old \in Seq(Ticket), Admitted(slot, ext, old),
         \A i, j \in DOMAIN old : i < j => old[i].id < old[j].id
  PROVE  /\ ext = <<>> => BestOf(old, Ids(ext), old)
         /\ ext # <<>> => BestOf(old, Ids(ext), Entered(old, Bodies(ext, ring, entropy)))
<1>1. CASE ext = <<>>
  <2>1. Ids(ext) = {}
    BY <1>1 DEF Ids
  <2>2. \A i \in DOMAIN old : old[i].id \in Int /\ old[i].id <= old[i].id
    BY TicketIds
  <2>3. BestOf(old, Ids(ext), old)
    BY <2>1, <2>2 DEF BestOf
  <2> QED
    BY <1>1, <2>3
<1>2. CASE ext # <<>>
  <2> DEFINE bodies == Bodies(ext, ring, entropy)
  <2>1. /\ bodies \in Seq(Ticket)
        /\ \A i, j \in DOMAIN bodies : i < j => bodies[i].id < bodies[j].id
        /\ Ids(bodies) \cap Ids(old) = {} /\ Ids(bodies) = Ids(ext)
    BY <1>2, BodiesEnter
  <2> HIDE DEF bodies
  <2>2. BestOf(old, Ids(bodies), Entered(old, bodies))
    BY <2>1, BestEnter
  <2> QED
    BY <1>2, <2>1, <2>2 DEF bodies
<1> QED
  BY <1>1, <1>2

-----------------------------------------------------------------------------
(* Preservation, one lemma for each kind of block.                         *)

\* Later in the same epoch is a later phase.
LEMMA PhaseGrows ==
  ASSUME NEW a \in Nat, NEW b \in Nat, a < b, Epoch(a) = Epoch(b)
  PROVE  Phase(a) < Phase(b)
<1>1. EpochLength \in Nat \ {0}
  BY SafroleConstants
<1>2. a = EpochLength * (a \div EpochLength) + (a % EpochLength)
  BY <1>1
<1>3. b = EpochLength * (b \div EpochLength) + (b % EpochLength)
  BY <1>1
<1> QED
  BY <1>1, <1>2, <1>3 DEF Epoch, Phase

LEMMA AdvanceInv ==
  ASSUME IInv, NEW slot \in Nat, NEW ext \in TicketExtrinsics,
         Advance(slot, ext), offenders' \subseteq Keys, iota' \in KeySeqs
  PROVE  IInv'
<1> USE DEF IInv
<1>1. /\ gamma_z \in KeySeqs /\ eta[2] \in Int /\ gamma_a \in Seq(Ticket)
      /\ Admitted(slot, ext, gamma_a) /\ Len(gamma_a) <= EpochLength /\ gamma_z = gamma_k
  BY DEF TypeOK, Advance, ContestIsCurrent
<1>2. /\ \A i \in DOMAIN gamma_a : gamma_a[i].ring = gamma_z /\ gamma_a[i].entropy = eta[2]
      /\ \A i, j \in DOMAIN gamma_a : i < j => gamma_a[i].id < gamma_a[j].id
  BY DEF ContestIsCurrent
<1>3. /\ gamma_a' \in Seq(Ticket) /\ Len(gamma_a') <= EpochLength
      /\ \A i \in DOMAIN gamma_a' : gamma_a'[i].ring = gamma_z /\ gamma_a'[i].entropy = eta[2]
      /\ \A i, j \in DOMAIN gamma_a' : i < j => gamma_a'[i].id < gamma_a'[j].id
  BY <1>1, <1>2, ContestAfter DEF Advance
<1>4. /\ eta' \in [0..3 -> Int] /\ \A i \in 1..3 : eta'[i] = eta[i]
      /\ tau' \in Nat /\ tau' = slot
  BY DEF TypeOK, Advance
<1>5. UNCHANGED <<lambda, kappa, gamma_k, gamma_s, gamma_z, barred>>
  BY DEF Advance
<1>6. TypeOK'
  BY <1>3, <1>4, <1>5 DEF TypeOK
<1>7. ContestIsCurrent'
  BY <1>1, <1>3, <1>4, <1>5 DEF ContestIsCurrent
<1>8. SealedByActiveSet'
  BY <1>4, <1>5 DEF SealedByActiveSet, FallbackKeys
<1>9. OffendersLeave'
  BY <1>5 DEF OffendersLeave
<1>10. BestTicketsKept'
  <2>1. BestOf(gamma_a, Ids(ext), gamma_a')
    BY <1>1, <1>2, BestAfter DEF Advance
  <2>2. submitted' = submitted \cup Ids(ext) /\ Ids(gamma_a) \subseteq submitted
    BY DEF Advance, BestTicketsKept
  <2>3. Ids(gamma_a') \subseteq submitted'
    BY <2>1, <2>2 DEF BestOf
  <2>4. ASSUME NEW id \in submitted' \ Ids(gamma_a')
        PROVE  Len(gamma_a') = EpochLength /\ \A k \in DOMAIN gamma_a' : gamma_a'[k].id < id
    <3>1. CASE id \in Ids(gamma_a) \cup Ids(ext)
      BY <2>1, <2>4, <3>1 DEF BestOf
    <3>2. CASE id \notin Ids(gamma_a) \cup Ids(ext)
      <4>1. id \in submitted \ Ids(gamma_a) /\ id \in Int
        BY <2>2, <2>4, <3>2 DEF Shape
      <4>2. Len(gamma_a) = EpochLength /\ \A i \in DOMAIN gamma_a : gamma_a[i].id < id
        BY <4>1 DEF BestTicketsKept, Saturated
      <4>3. \A i \in DOMAIN gamma_a : gamma_a[i].id \in Int
        BY <1>1, TicketIds
      <4>4. \A k \in DOMAIN gamma_a' : gamma_a'[k].id \in Int
        BY <1>3, TicketIds
      <4>5. ASSUME NEW k \in DOMAIN gamma_a' PROVE gamma_a'[k].id < id
        <5>1. PICK i \in DOMAIN gamma_a : gamma_a'[k].id <= gamma_a[i].id
          BY <2>1, <4>2 DEF BestOf
        <5> QED
          BY <4>1, <4>2, <4>3, <4>4, <5>1
      <4> QED
        BY <2>1, <4>2, <4>5 DEF BestOf
    <3> QED
      BY <3>1, <3>2
  <2> QED
    BY <2>3, <2>4 DEF BestTicketsKept, Saturated
<1>11. Shape'
  <2>1. barred' \in Seq(SUBSET Keys) /\ Len(barred') = 2 /\ submitted' \subseteq Int
    <3>1. Ids(ext) \subseteq Int
      BY <1>1, BodyTypes DEF AreBodies
    <3> QED
      BY <1>5, <3>1 DEF Shape, Advance
  <2>2. mark' = IF Phase(tau') >= TailStart /\ Saturated'
                  THEN WinningTickets(ZSequence(gamma_a')) ELSE NoMark
    <3>1. CASE Phase(slot) < TailStart
      <4>1. tau < slot /\ Epoch(tau) = Epoch(slot) /\ tau \in Nat
        BY DEF Advance, SameEpoch, TypeOK
      <4>2. Phase(tau) < Phase(slot)
        BY <4>1, PhaseGrows
      <4>3. Phase(tau) \in Nat /\ Phase(slot) \in Nat /\ TailStart \in Nat
        BY <4>1, SafroleConstants DEF Phase
      <4>4. ~ (Phase(tau) >= TailStart) /\ ~ (Phase(slot) >= TailStart)
        BY <3>1, <4>2, <4>3
      <4> QED
        BY <1>4, <4>4 DEF Shape, Advance
    <3>2. CASE ~ (Phase(slot) < TailStart)
      <4>1. Phase(slot) >= TailStart
        BY <3>2, SafroleConstants DEF Phase
      <4>2. ext = <<>> /\ gamma_a' = gamma_a
        BY <1>1, <3>2 DEF Admitted, Advance
      <4>3. CASE Phase(tau) < TailStart
        <5>1. ~ (Phase(tau) >= TailStart)
          BY <4>3, SafroleConstants DEF Phase, TypeOK
        <5> QED
          BY <1>4, <4>1, <4>2, <4>3, <5>1 DEF Shape, Advance, Saturated
      <4>4. CASE ~ (Phase(tau) < TailStart)
        <5>1. Phase(tau) >= TailStart
          BY <4>4, SafroleConstants DEF Phase, TypeOK
        <5> QED
          BY <1>4, <4>1, <4>2, <4>4, <5>1 DEF Shape, Advance, Saturated
      <4> QED
        BY <4>3, <4>4
    <3> QED
      BY <3>1, <3>2
  <2> QED
    BY <2>1, <2>2 DEF Shape
<1> QED
  BY <1>6, <1>7, <1>8, <1>9, <1>10, <1>11

LEMMA EnterEpochInv ==
  ASSUME IInv, NEW slot \in Nat, NEW ext \in TicketExtrinsics,
         EnterEpoch(slot, ext), offenders' \subseteq Keys, iota' \in KeySeqs
  PROVE  IInv'
<1> USE DEF IInv
<1> DEFINE next == NullifyOffenders(iota)
<1>1. /\ next \in KeySeqs /\ DOMAIN next = DOMAIN iota
      /\ \A i \in DOMAIN next : next[i] \notin offenders
  <2>1. iota \in Seq(Keys \cup {NullKey}) /\ offenders \subseteq Keys
    BY DEF TypeOK, KeySeqs
  <2>2. NullKey \notin offenders
    BY <2>1, SafroleConstants
  <2> QED
    BY <2>1, <2>2 DEF NullifyOffenders, KeySeqs
<1> HIDE DEF next
<1>2. eta[1] \in Int /\ eta[2] \in Int /\ <<>> \in Seq(Ticket) /\ Len(<<>>) <= EpochLength
  BY SafroleConstants DEF TypeOK
<1>3. Admitted(slot, ext, <<>>)
  BY DEF EnterEpoch
<1>4. gamma_a' = IF ext = <<>> THEN <<>> ELSE Entered(<<>>, Bodies(ext, next, eta[1]))
  BY DEF EnterEpoch, next
<1>5. /\ gamma_a' \in Seq(Ticket) /\ Len(gamma_a') <= EpochLength
      /\ \A i \in DOMAIN gamma_a' : gamma_a'[i].ring = next /\ gamma_a'[i].entropy = eta[1]
      /\ \A i, j \in DOMAIN gamma_a' : i < j => gamma_a'[i].id < gamma_a'[j].id
  <2> DEFINE none == <<>>
  <2>1. none \in Seq(Ticket) /\ Len(none) <= EpochLength /\ \A i \in DOMAIN none : FALSE
    BY <1>2
  <2>2. Admitted(slot, ext, none)
        /\ gamma_a' = IF ext = <<>> THEN none ELSE Entered(none, Bodies(ext, next, eta[1]))
    BY <1>3, <1>4
  <2> HIDE DEF none
  <2> QED
    BY <1>1, <1>2, <2>1, <2>2, ContestAfter
<1>6. /\ tau' = slot /\ lambda' = kappa /\ kappa' = gamma_k /\ gamma_k' = next
      /\ gamma_z' = next /\ gamma_s' = SealingKeys(slot) /\ mark' = NoMark
      /\ barred' = <<offenders, barred[1]>>
  BY DEF EnterEpoch, next
<1>7. eta' \in [0..3 -> Int] /\ eta'[1] = eta[0] /\ eta'[2] = eta[1] /\ eta'[3] = eta[2]
  BY DEF EnterEpoch, TypeOK
<1>8. TypeOK'
  BY <1>1, <1>5, <1>6, <1>7 DEF TypeOK
<1>9. ContestIsCurrent'
  BY <1>5, <1>6, <1>7 DEF ContestIsCurrent
<1>10. OffendersLeave'
  <2>1. barred'[1] = offenders /\ barred'[2] = barred[1]
    BY <1>6
  <2> QED
    BY <1>1, <1>6, <2>1 DEF OffendersLeave
<1>11. SealedByActiveSet'
  <2>1. CASE Saturated /\ SealingKeys(slot) = WinningTickets(ZSequence(gamma_a))
    <3> DEFINE z == ZSequence(gamma_a)
    <3>1. gamma_a \in Seq(Ticket) /\ Len(gamma_a) = EpochLength
          /\ EpochLength \in Nat /\ DOMAIN gamma_a = 1..EpochLength
      BY <2>1, SafroleConstants DEF TypeOK, Saturated
    <3>2. /\ Len(z) = EpochLength /\ z \in Seq(Ticket)
          /\ \A i \in 1..EpochLength : z[i] = gamma_a[Outside(EpochLength, i)]
      BY <3>1, ZSequencePlaces
    <3>3. /\ \A i \in 1..EpochLength : Outside(EpochLength, i) \in 1..EpochLength
          /\ \A i, j \in 1..EpochLength :
               Outside(EpochLength, i) = Outside(EpochLength, j) => i = j
      BY <3>1, OutsideIn
    <3> HIDE DEF z
    <3>4. DOMAIN z = 1..EpochLength
      BY <3>2
    <3>5. \A i \in DOMAIN z : z[i].ring = gamma_k /\ z[i].entropy = eta[2]
      BY <3>1, <3>2, <3>3, <3>4 DEF ContestIsCurrent
    <3>6. ASSUME NEW i \in DOMAIN z, NEW j \in DOMAIN z, z[i].id = z[j].id
          PROVE  i = j
      <4> DEFINE a == Outside(EpochLength, i)
                 b == Outside(EpochLength, j)
      <4>1. /\ a \in DOMAIN gamma_a /\ b \in DOMAIN gamma_a /\ a \in Int /\ b \in Int
            /\ gamma_a[a].id = gamma_a[b].id
        <5>1. i \in 1..EpochLength /\ j \in 1..EpochLength
          BY <3>4
        <5>2. a \in 1..EpochLength /\ b \in 1..EpochLength
          BY <3>3, <5>1
        <5>3. z[i] = gamma_a[a] /\ z[j] = gamma_a[b]
          BY <3>2, <5>1
        <5>4. gamma_a[a].id = gamma_a[b].id
          BY <3>6, <5>3
        <5> HIDE DEF a, b
        <5> QED
          BY <3>1, <5>2, <5>4
      <4>2. a = b => i = j
        BY <3>3, <3>4
      <4> HIDE DEF a, b
      <4>3. gamma_a[a].id \in Int
        <5>1. gamma_a[a] \in Ticket
          BY <3>1, <4>1
        <5> QED
          BY <5>1 DEF Ticket
      <4>4. /\ a < b => gamma_a[a].id < gamma_a[b].id
            /\ b < a => gamma_a[b].id < gamma_a[a].id
        BY <4>1 DEF ContestIsCurrent
      <4> QED
        BY <4>1, <4>2, <4>3, <4>4
    <3>7. gamma_s'.kind = "tickets" /\ gamma_s'.tickets = z
      BY <1>6, <2>1 DEF WinningTickets, z
    <3> QED
      BY <1>6, <1>7, <3>2, <3>5, <3>6, <3>7 DEF SealedByActiveSet
  <2>2. CASE SealingKeys(slot) = FallbackKeys(eta[1], gamma_k)
    BY <1>6, <1>7, <2>2 DEF SealedByActiveSet, FallbackKeys
  <2> QED
    BY <2>1, <2>2 DEF SealingKeys
<1>12. BestTicketsKept'
  <2>1. submitted' = Ids(ext) /\ Ids(<<>>) = {}
    BY DEF EnterEpoch, Ids
  <2>2. BestOf(<<>>, Ids(ext), gamma_a')
    <3> DEFINE none == <<>>
    <3>1. none \in Seq(Ticket) /\ (\A i \in DOMAIN none : FALSE) /\ Admitted(slot, ext, none)
          /\ gamma_a' = IF ext = <<>> THEN none ELSE Entered(none, Bodies(ext, next, eta[1]))
      BY <1>2, <1>3, <1>4
    <3> HIDE DEF none
    <3>2. BestOf(none, Ids(ext), gamma_a')
      BY <1>1, <1>2, <3>1, BestAfter
    <3> QED
      BY <3>2 DEF none
  <2> QED
    BY <2>1, <2>2 DEF BestOf, BestTicketsKept, Saturated
<1>13. Shape'
  <2>1. barred' \in Seq(SUBSET Keys) /\ Len(barred') = 2 /\ submitted' \subseteq Int
    <3>1. Ids(ext) \subseteq Int
      BY <1>1, <1>2, BodyTypes DEF AreBodies
    <3> QED
      BY <1>6, <3>1 DEF Shape, TypeOK, EnterEpoch
  <2>2. CASE ext = <<>>
    <3>1. ~ Saturated'
      BY <1>4, <2>2, SafroleConstants DEF Saturated
    <3> QED
      BY <1>6, <2>1, <3>1 DEF Shape
  <2>3. CASE ext # <<>>
    <3>1. ~ (Phase(slot) >= TailStart)
      BY <1>3, <2>3, SafroleConstants DEF Admitted, Phase
    <3> QED
      BY <1>6, <2>1, <3>1 DEF Shape
  <2> QED
    BY <2>2, <2>3
<1> QED
  BY <1>8, <1>9, <1>10, <1>11, <1>12, <1>13

LEMMA NextInv == IInv /\ [Next]_vars => IInv'
<1> SUFFICES ASSUME IInv, [Next]_vars PROVE IInv'
  OBVIOUS
<1>1. CASE Next
  <2>1. PICK gap \in Gaps, ext \in TicketExtrinsics,
             convicted \in Convictions, staged \in {iota} \cup ValidatorSets :
          /\ Advance(tau + gap, ext) \/ EnterEpoch(tau + gap, ext) \/ Refuse(tau + gap, ext)
          /\ Rest(convicted, staged)
    BY <1>1 DEF Next, Block
  <2>2. tau + gap \in Nat
    BY SafroleConstants DEF IInv, TypeOK
  <2>3. offenders' \subseteq Keys /\ iota' \in KeySeqs
    <3>1. offenders' \subseteq Keys
      BY <2>1, SafroleConstants DEF Rest, IInv, TypeOK
    <3>2. staged \in KeySeqs
      BY <2>1, SafroleConstants DEF IInv, TypeOK, KeySeqs
    <3> QED
      BY <2>1, <3>1, <3>2 DEF Rest
  <2>4. CASE Advance(tau + gap, ext)
    BY <2>2, <2>3, <2>4, AdvanceInv
  <2>5. CASE EnterEpoch(tau + gap, ext)
    BY <2>2, <2>3, <2>5, EnterEpochInv
  <2>6. CASE Refuse(tau + gap, ext)
    <3>1. UNCHANGED <<tau, eta, lambda, kappa, gamma_k, gamma_a, gamma_s, gamma_z, mark, submitted,
                    barred>>
      BY <2>6 DEF Refuse
    <3> QED
      BY <2>3, <3>1 DEF IInv, TypeOK, Shape, Saturated, ContestIsCurrent, BestTicketsKept,
                        SealedByActiveSet, OffendersLeave
  <2> QED
    BY <2>1, <2>4, <2>5, <2>6
<1>2. CASE UNCHANGED vars
  BY <1>2 DEF vars, IInv, TypeOK, Shape, Saturated, ContestIsCurrent, BestTicketsKept,
              SealedByActiveSet, OffendersLeave
<1> QED
  BY <1>1, <1>2

\* The invariant of every run of Safrole.
THEOREM Invariance == Spec => []IInv
  BY InitInv, NextInv, PTL DEF Spec

-----------------------------------------------------------------------------
(* The properties.                                                         *)

\* Type correctness of the safrole state.
THEOREM TypeCorrect == Spec => []TypeOK
<1>1. IInv => TypeOK
  BY DEF IInv
<1> QED
  BY <1>1, Invariance, PTL

\* The ticket contest never holds a ticket of another epoch or ring, or one
\* ticket twice (gamma_a is reset and re-sorted by every epoch change).
THEOREM ContestStaysCurrent == Spec => []ContestIsCurrent
<1>1. IInv => ContestIsCurrent
  BY DEF IInv
<1> QED
  BY <1>1, Invariance, PTL

\* Of all the tickets accepted in an epoch the contest keeps those with the
\* least ids, in however many blocks they came: one that the cut dropped can
\* not have been among the best, for what replaced it was better.
THEOREM TheContestKeepsTheBest == Spec => []BestTicketsKept
<1>1. IInv => BestTicketsKept
  BY DEF IInv
<1> QED
  BY <1>1, Invariance, PTL

\* Whatever epochs are skipped, an epoch is sealed by tickets that the ring
\* which is now active proved, or by fallback keys drawn from the active set.
THEOREM EpochsAreSealedByTheActiveSet == Spec => []SealedByActiveSet
<1>1. IInv => SealedByActiveSet
  BY DEF IInv
<1> QED
  BY <1>1, Invariance, PTL

\* A convicted validator is out of the active set two epoch changes later.
THEOREM OffendersLoseTheirPlace == Spec => []OffendersLeave
<1>1. IInv => OffendersLeave
  BY DEF IInv
<1> QED
  BY <1>1, Invariance, PTL

\* The tickets marker of an epoch announces exactly what seals the next one.
THEOREM MarkersAreKept == Spec => MarkedTicketsSeal
<1>1. IInv /\ [Next]_vars =>
        [Epoch(tau') = Epoch(tau) + 1 =>
           IF mark = NoMark THEN gamma_s'.kind = "keys" ELSE gamma_s' = mark]_vars
  <2> SUFFICES ASSUME IInv, Next, Epoch(tau') = Epoch(tau) + 1
               PROVE  IF mark = NoMark THEN gamma_s'.kind = "keys" ELSE gamma_s' = mark
    OBVIOUS
  <2>1. PICK gap \in Gaps, ext \in TicketExtrinsics :
          Advance(tau + gap, ext) \/ EnterEpoch(tau + gap, ext) \/ Refuse(tau + gap, ext)
    BY DEF Next, Block
  <2>2. Epoch(tau) \in Int
    BY SafroleConstants DEF IInv, TypeOK, Epoch
  <2>3. Epoch(tau') # Epoch(tau)
    BY <2>2
  <2>4. EnterEpoch(tau + gap, ext)
    BY <2>1, <2>3 DEF Advance, Refuse, SameEpoch
  <2>5. gamma_s' = SealingKeys(tau') /\ tau' = tau + gap
    BY <2>4 DEF EnterEpoch
  <2>6. WinningTickets(ZSequence(gamma_a)) # NoMark
    BY DEF WinningTickets, NoMark
  <2>7. mark = IF Phase(tau) >= TailStart /\ Saturated
                THEN WinningTickets(ZSequence(gamma_a)) ELSE NoMark
    BY DEF IInv, Shape
  <2>8. CASE Phase(tau) >= TailStart /\ Saturated
    BY <2>5, <2>6, <2>7, <2>8 DEF SealingKeys
  <2>9. CASE ~ (Phase(tau) >= TailStart /\ Saturated)
    BY <2>5, <2>7, <2>9 DEF SealingKeys, FallbackKeys
  <2> QED
    BY <2>8, <2>9
<1> QED
  BY <1>1, Invariance, PTL DEF Spec, MarkedTicketsSeal

-----------------------------------------------------------------------------
(* Slots, rotations and epochs.                                            *)

\* A quotient and a remainder that fit are the quotient and the remainder.
LEMMA Quotient ==
  ASSUME NEW n \in Nat \ {0}, NEW q \in Int, NEW r \in 0..(n - 1)
  PROVE  (n * q + r) \div n = q /\ (n * q + r) % n = r
<1> DEFINE x == n * q + r
           p == x \div n
           s == x % n
<1>1. /\ x \in Int /\ p \in Int /\ s \in 0..(n - 1)
      /\ x = n * p + s
  <2>1. x \in Int
    OBVIOUS
  <2>2. \A y \in Int : /\ y % n \in 0..(n - 1) /\ (y \div n) \in Int
                       /\ y = n * (y \div n) + (y % n)
    OBVIOUS
  <2> HIDE DEF x
  <2> QED
    BY <2>1, <2>2
<1>2. n * (p - q) = r - s
  <2> DEFINE np == n * p
             nq == n * q
  <2>1. np \in Int /\ nq \in Int /\ np + s = nq + r
    <3>1. x = np + s
      BY <1>1
    <3>2. x = nq + r
      OBVIOUS
    <3>3. np \in Int /\ nq \in Int
      BY <1>1
    <3> HIDE DEF x, np, nq, s
    <3> QED
      BY <3>1, <3>2, <3>3
  <2>2. n * (p - q) = np - nq
    <3>1. \A a, b \in Int : n * (a - b) = n * a - n * b
      OBVIOUS
    <3> HIDE DEF p
    <3> QED
      BY <1>1, <3>1
  <2> HIDE DEF np, nq, p, s
  <2> QED
    BY <1>1, <2>1, <2>2
<1>3. \A d \in Int : n * d < n /\ -(n * d) < n => d = 0
  OBVIOUS
<1> HIDE DEF p, s, x
<1>4. p - q \in Int /\ n * (p - q) < n /\ -(n * (p - q)) < n
  BY <1>1, <1>2
<1>5. p - q = 0
  BY <1>3, <1>4
<1> QED
  BY <1>1, <1>2, <1>5 DEF p, s, x

\* The rotations of an epoch.
Rotations == EpochLength \div RotationPeriod

LEMMA WholeRotations ==
  /\ EpochLength \in Nat \ {0} /\ RotationPeriod \in Nat \ {0}
  /\ Rotations \in Nat \ {0} /\ EpochLength = RotationPeriod * Rotations
<1>1. /\ EpochLength \in Nat \ {0} /\ RotationPeriod \in Nat \ {0}
      /\ EpochLength % RotationPeriod = 0
  BY SafroleConstants, GuarantorConstants
<1>2. Rotations \in Int /\ EpochLength = RotationPeriod * Rotations + (EpochLength % RotationPeriod)
  <2>1. ASSUME NEW n \in Nat \ {0}
        PROVE  \A y \in Int : (y \div n) \in Int /\ y = n * (y \div n) + (y % n)
    OBVIOUS
  <2>2. EpochLength \in Int
    BY <1>1
  <2> QED
    BY <1>1, <2>1, <2>2 DEF Rotations
<1>3. EpochLength = RotationPeriod * Rotations
  BY <1>1, <1>2
<1>4. Rotations > 0
  <2>1. \A k \in Int : k <= 0 => RotationPeriod * k <= 0
    BY <1>1
  <2> QED
    BY <1>1, <1>2, <1>3, <2>1
<1> QED
  BY <1>1, <1>2, <1>3, <1>4

\* The epoch of a slot and its turn within the epoch are those of its rotation.
LEMMA EpochOfRotation ==
  ASSUME NEW t \in Nat
  PROVE  /\ Rotation(t) \in Nat
         /\ Epoch(t) = Rotation(t) \div Rotations
         /\ (t % EpochLength) \div RotationPeriod = Rotation(t) % Rotations
<1> DEFINE q == Rotation(t)
           r == t % RotationPeriod
           a == q \div Rotations
           b == q % Rotations
<1>1. /\ EpochLength \in Nat \ {0} /\ RotationPeriod \in Nat \ {0}
      /\ Rotations \in Nat \ {0} /\ EpochLength = RotationPeriod * Rotations
  BY WholeRotations
<1>2. q \in Nat /\ r \in 0..(RotationPeriod - 1) /\ t = RotationPeriod * q + r
  BY <1>1 DEF Rotation
<1> HIDE DEF q, r
<1>3. a \in Int /\ b \in 0..(Rotations - 1) /\ q = Rotations * a + b
  BY <1>1, <1>2
<1> HIDE DEF a, b
<1> DEFINE s == RotationPeriod * b + r
<1>4. s \in 0..(EpochLength - 1)
  <2>1. \A c \in Int : c >= 0 => RotationPeriod * c >= 0
    BY <1>1
  <2>2. RotationPeriod * b \in Int /\ RotationPeriod * b >= 0
    BY <1>1, <1>3, <2>1
  <2>3. RotationPeriod * (Rotations - 1 - b) >= 0
    BY <1>1, <1>3, <2>1
  <2>4. RotationPeriod * (Rotations - 1 - b)
          = RotationPeriod * Rotations - RotationPeriod - RotationPeriod * b
    <3>1. \A c, d \in Int : RotationPeriod * (c - 1 - d)
             = RotationPeriod * c - RotationPeriod - RotationPeriod * d
      BY <1>1
    <3> QED
      BY <1>1, <1>3, <3>1
  <2> QED
    BY <1>1, <1>2, <2>2, <2>3, <2>4
<1>5. t = EpochLength * a + s
  <2>1. RotationPeriod * (Rotations * a + b)
          = (RotationPeriod * Rotations) * a + RotationPeriod * b
    <3>1. \A c, d, e \in Int : RotationPeriod * (c * d + e)
                                = (RotationPeriod * c) * d + RotationPeriod * e
      BY <1>1
    <3> QED
      BY <1>1, <1>3, <3>1
  <2>2. t = (EpochLength * a + RotationPeriod * b) + r
    BY <1>1, <1>2, <1>3, <2>1
  <2>3. EpochLength * a \in Int /\ RotationPeriod * b \in Int
    BY <1>1, <1>3
  <2> QED
    BY <1>2, <2>2, <2>3
<1>6. t \div EpochLength = a /\ t % EpochLength = s
  <2> HIDE DEF s
  <2> QED
    BY <1>1, <1>3, <1>4, <1>5, Quotient
<1>7. s \div RotationPeriod = b
  BY <1>1, <1>2, <1>3, Quotient
<1> QED
  BY <1>2, <1>6, <1>7 DEF Epoch, q, a, b

\* A larger number has the larger quotient, and the next one at most the next.
LEMMA QuotientGrows ==
  ASSUME NEW n \in Nat \ {0}, NEW x \in Nat, NEW y \in Nat, x <= y
  PROVE  /\ x \div n \in Nat /\ y \div n \in Nat /\ x \div n <= y \div n
         /\ y <= x + 1 => y \div n <= (x \div n) + 1
<1> DEFINE p == x \div n
           q == y \div n
           r == x % n
           s == y % n
<1>1. /\ p \in Nat /\ q \in Nat /\ r \in 0..(n - 1) /\ s \in 0..(n - 1)
      /\ x = n * p + r /\ y = n * q + s
  OBVIOUS
<1> HIDE DEF p, q, r, s
<1> DEFINE d == q - p
<1>2. d \in Int /\ n * d = (y - s) - (x - r)
  <2>1. \A a, b \in Int : n * (b - a) = n * b - n * a
    OBVIOUS
  <2>2. n * (q - p) = n * q - n * p
    BY <1>1, <2>1
  <2>3. n * q \in Int /\ n * p \in Int
    BY <1>1
  <2> QED
    BY <1>1, <2>2, <2>3
<1> HIDE DEF d
<1>3. n * d > -n
  BY <1>1, <1>2
<1>4. \A e \in Int : n * e > -n => e >= 0
  OBVIOUS
<1>5. d >= 0
  BY <1>2, <1>3, <1>4
<1>6. ASSUME y <= x + 1  PROVE d <= 1
  <2>1. n * d <= n
    BY <1>1, <1>2, <1>6
  <2>2. \A e \in Int : n * e <= n => e <= 1
    OBVIOUS
  <2> QED
    BY <1>2, <2>1, <2>2
<1> QED
  BY <1>1, <1>5, <1>6 DEF d, p, q
\* The slots of a rotation have one epoch and one assignment.
LEMMA OneAssignment ==
  ASSUME NEW s \in Nat, NEW t \in Nat, Rotation(s) = Rotation(t)
  PROVE  /\ Epoch(s) = Epoch(t)
         /\ \A n, e : Assignment(n, e, s) = Assignment(n, e, t)
<1>1. /\ Epoch(s) = Epoch(t)
      /\ (s % EpochLength) \div RotationPeriod = (t % EpochLength) \div RotationPeriod
  BY EpochOfRotation
<1> QED
  BY <1>1 DEF Assignment

\* What is in the window of a block is of its epoch or of the one before; in
\* the rotation before the block's is the slot one period back.
LEMMA Window ==
  ASSUME NEW s \in Nat, NEW t \in Nat, InWindow(s, t)
  PROVE  /\ Epoch(s) \in Nat /\ Epoch(t) \in Nat
         /\ Epoch(t) <= Epoch(s) /\ Epoch(s) <= Epoch(t) + 1
         /\ Rotation(s) # Rotation(t) =>
              s >= RotationPeriod /\ Rotation(s - RotationPeriod) = Rotation(t)
<1>1. /\ EpochLength \in Nat \ {0} /\ RotationPeriod \in Nat \ {0} /\ Rotations \in Nat \ {0}
  BY WholeRotations
<1>2. t <= s /\ Rotation(t) + 1 >= Rotation(s)
  BY DEF InWindow
<1>3. Rotation(s) \in Nat /\ Rotation(t) \in Nat /\ Rotation(t) <= Rotation(s)
  BY <1>1, <1>2, QuotientGrows DEF Rotation
<1>4. Epoch(s) = Rotation(s) \div Rotations /\ Epoch(t) = Rotation(t) \div Rotations
  BY EpochOfRotation
<1>5. /\ Epoch(s) \in Nat /\ Epoch(t) \in Nat
      /\ Epoch(t) <= Epoch(s) /\ Epoch(s) <= Epoch(t) + 1
  BY <1>1, <1>2, <1>3, <1>4, QuotientGrows
<1>6. ASSUME Rotation(s) # Rotation(t)
      PROVE  s >= RotationPeriod /\ Rotation(s - RotationPeriod) = Rotation(t)
  <2> DEFINE q == Rotation(t)
             r == s % RotationPeriod
  <2>1. q \in Nat /\ Rotation(s) = q + 1
    BY <1>2, <1>3, <1>6
  <2>2. r \in 0..(RotationPeriod - 1) /\ s = RotationPeriod * Rotation(s) + r
    BY <1>1 DEF Rotation
  <2> HIDE DEF q, r
  <2>3. \A k \in Nat : /\ RotationPeriod * (k + 1) = RotationPeriod * k + RotationPeriod
                       /\ RotationPeriod * k \in Nat
    BY <1>1
  <2>4. s - RotationPeriod = RotationPeriod * q + r /\ s >= RotationPeriod
    BY <1>1, <2>1, <2>2, <2>3
  <2>5. (RotationPeriod * q + r) \div RotationPeriod = q
    <3>1. RotationPeriod \in Nat \ {0} /\ q \in Int /\ r \in 0..(RotationPeriod - 1)
      BY <1>1, <2>1, <2>2
    <3> QED
      BY <3>1, Quotient
  <2>6. Rotation(s - RotationPeriod) = q
    BY <2>4, <2>5 DEF Rotation
  <2> QED
    BY <2>4, <2>6 DEF q
<1> QED
  BY <1>5, <1>6

-----------------------------------------------------------------------------
(* What the state remembers of the assignment at a slot of the window: it  *)
(* is that of the active set in the epoch of tau, and before it that of    *)
(* the previous set.                                                       *)

Kept(t) ==
  IF Epoch(t) = Epoch(tau)
    THEN [cores |-> Assignment(Len(kappa), eta[2], t), keys |-> kappa]
    ELSE [cores |-> Assignment(Len(lambda), eta[3], t), keys |-> lambda]

JudgedByKept ==
  \A t \in Nat : tau \in Nat /\ InWindow(tau, t) => AssignmentFor(tau, t) = Kept(t)

LEMMA JudgesByKept == JudgedByKept
<1> SUFFICES ASSUME NEW t \in Nat, tau \in Nat, InWindow(tau, t)
             PROVE  AssignmentFor(tau, t) = Kept(t)
  BY DEF JudgedByKept
<1>1. RotationPeriod \in Nat \ {0}
  BY WholeRotations
<1>2. CASE Rotation(tau) = Rotation(t)
  <2>1. /\ Epoch(tau) = Epoch(t)
        /\ Assignment(Len(kappa), eta[2], tau) = Assignment(Len(kappa), eta[2], t)
    BY <1>2, OneAssignment
  <2> QED
    BY <1>2, <2>1 DEF Kept, AssignmentFor
<1>3. CASE Rotation(tau) # Rotation(t)
  <2> DEFINE previous == IF tau < RotationPeriod THEN 0 ELSE tau - RotationPeriod
  <2>1. /\ previous \in Nat /\ Rotation(previous) = Rotation(t)
    BY <1>1, <1>3, Window
  <2> HIDE DEF previous
  <2>2. /\ Epoch(previous) = Epoch(t)
        /\ \A n, e : Assignment(n, e, previous) = Assignment(n, e, t)
    BY <2>1, OneAssignment
  <2>3. CASE Epoch(previous) = Epoch(tau)
    <3>1. AssignmentFor(tau, t)
            = [cores |-> Assignment(Len(kappa), eta[2], previous), keys |-> kappa]
      BY <1>3, <2>3 DEF AssignmentFor, previous
    <3> QED
      BY <2>2, <2>3, <3>1 DEF Kept
  <2>4. CASE Epoch(previous) # Epoch(tau)
    <3>1. AssignmentFor(tau, t)
            = [cores |-> Assignment(Len(lambda), eta[3], previous), keys |-> lambda]
      BY <1>3, <2>4 DEF AssignmentFor, previous
    <3> QED
      BY <2>2, <2>4, <3>1 DEF Kept
  <2> QED
    BY <2>3, <2>4
<1> QED
  BY <1>2, <1>3

LEMMA JudgesByKeptNext == JudgedByKept'
  BY JudgesByKept, PTL

\* What a rotation has, each of its slots has.
LEMMA KeptOfRotation ==
  ASSUME NEW t \in Nat, NEW u \in Nat, Rotation(t) = Rotation(u)
  PROVE  Kept(t) = Kept(u)
BY OneAssignment DEF Kept

-----------------------------------------------------------------------------
(* Every block keeps what is in the window.                                *)

Clock == tau \in Nat /\ DOMAIN eta = 0..3

LEMMA BlockKeeps ==
  ASSUME Clock, NEW slot \in Nat, NEW ext, NEW convicted, NEW staged,
         Block(slot, ext, convicted, staged)
  PROVE  /\ Clock' /\ tau <= tau'
         /\ \A t \in Nat : InWindow(tau, t) /\ InWindow(tau', t) => Kept(t)' = Kept(t)
<1>1. CASE Advance(slot, ext)
  <2>1. /\ tau' = slot /\ tau < slot /\ Epoch(tau') = Epoch(tau) /\ UNCHANGED <<kappa, lambda>>
        /\ eta' = [eta EXCEPT ![0] = slot]
    BY <1>1 DEF Advance, SameEpoch
  <2>2. DOMAIN eta' = 0..3 /\ eta'[2] = eta[2] /\ eta'[3] = eta[3]
    BY <2>1 DEF Clock
  <2> QED
    BY <2>1, <2>2 DEF Kept, Clock
<1>2. CASE EnterEpoch(slot, ext)
  <2>1. /\ tau' = slot /\ tau < slot /\ Epoch(tau') # Epoch(tau) /\ lambda' = kappa
        /\ eta' = [i \in 0..3 |-> IF i = 0 THEN slot ELSE eta[i - 1]]
    BY <1>2 DEF EnterEpoch, SameEpoch
  <2>2. DOMAIN eta' = 0..3 /\ eta'[3] = eta[2]
    BY <2>1
  <2>3. ASSUME NEW t \in Nat, InWindow(tau, t), InWindow(tau', t)
        PROVE  Kept(t)' = Kept(t)
    <3>1. tau \in Nat /\ tau' \in Nat
      BY <2>1 DEF Clock
    <3>2. /\ Epoch(t) \in Nat /\ Epoch(tau) \in Nat /\ Epoch(tau') \in Nat
          /\ Epoch(t) <= Epoch(tau) /\ Epoch(tau') <= Epoch(t) + 1
      BY <2>3, <3>1, Window
    <3>3. Epoch(tau) <= Epoch(tau')
      BY <2>1, <3>1, WholeRotations, QuotientGrows DEF Epoch
    <3>4. Epoch(t) = Epoch(tau) /\ Epoch(t) # Epoch(tau')
      BY <2>1, <3>2, <3>3
    <3> QED
      BY <2>1, <2>2, <3>4 DEF Kept
  <2> QED
    BY <2>1, <2>2, <2>3 DEF Clock
<1>3. CASE Refuse(slot, ext)
  <2>1. UNCHANGED <<tau, eta, kappa, lambda>>
    BY <1>3 DEF Refuse
  <2> QED
    BY <2>1 DEF Kept, Clock
<1> QED
  BY <1>1, <1>2, <1>3 DEF Block

-----------------------------------------------------------------------------
(* The first invariant: an assignment that is remembered is kept.          *)

AInv ==
  /\ Clock
  /\ \A a \in assigned :
       a.slot \in Nat /\ InWindow(tau, a.slot)
         /\ Kept(a.slot) = [cores |-> a.cores, keys |-> a.keys]

LEMMA KeptIsJudged == AInv => JudgedAsAssigned
  BY JudgesByKept DEF AInv, Clock, JudgedByKept, JudgedAsAssigned

LEMMA ReportKeeps ==
  ASSUME AInv, NEW slot \in Nat, NEW ext, NEW convicted, NEW staged, NEW accepted,
         Block(slot, ext, convicted, staged), Report(slot, accepted)
  PROVE  AInv'
<1>1. /\ Clock /\ Clock'
      /\ \A t \in Nat : InWindow(tau, t) /\ InWindow(tau', t) => Kept(t)' = Kept(t)
  BY BlockKeeps DEF AInv
<1>2. ASSUME NEW a \in assigned'
      PROVE  /\ a.slot \in Nat /\ InWindow(tau', a.slot)
             /\ Kept(a.slot)' = [cores |-> a.cores, keys |-> a.keys]
  <2> DEFINE current == AssignmentFor(slot, slot)'
             made == [slot |-> slot, cores |-> current.cores, keys |-> current.keys]
  <2>1. \/ a \in assigned /\ InWindow(tau', a.slot)
        \/ a = made /\ tau' = slot
    BY <1>2 DEF Report
  <2>2. CASE a \in assigned /\ InWindow(tau', a.slot)
    <3>1. /\ a.slot \in Nat /\ InWindow(tau, a.slot)
          /\ Kept(a.slot) = [cores |-> a.cores, keys |-> a.keys]
      BY <2>2 DEF AInv
    <3>2. Kept(a.slot)' = Kept(a.slot)
      BY <1>1, <2>2, <3>1
    <3> QED
      BY <2>2, <3>1, <3>2
  <2>3. CASE a = made /\ tau' = slot
    <3>1. current = [cores |-> Assignment(Len(kappa'), eta'[2], slot), keys |-> kappa']
      BY DEF AssignmentFor
    <3>2. /\ a.slot = slot /\ a.keys = kappa'
          /\ a.cores = Assignment(Len(kappa'), eta'[2], slot)
      <4> HIDE DEF current
      <4> QED
        BY <2>3, <3>1
    <3>3. Rotation(slot) \in Nat
      BY EpochOfRotation
    <3> QED
      BY <2>3, <3>2, <3>3 DEF Kept, InWindow
  <2> QED
    BY <2>1, <2>2, <2>3
<1> QED
  BY <1>1, <1>2 DEF AInv

\* A step is a block with its guarantees, or changes nothing.
LEMMA Steps ==
  ASSUME tau \in Nat, [GuarantorsNext]_guarantorVars
  PROVE  \/ UNCHANGED guarantorVars
         \/ \E slot \in Nat, ext \in TicketExtrinsics, convicted \in Convictions,
               staged \in ValidatorSets : \E accepted :
              /\ slot <= MaxSlot /\ Block(slot, ext, convicted, staged)
              /\ \A g \in accepted :
                   /\ g \in Offers(slot, kappa') \cup Offers(slot, lambda')
                   /\ tau' = slot /\ GuaranteeOK(g, slot)'
              /\ Report(slot, accepted)
<1>1. CASE AtBound
  BY <1>1 DEF AtBound
<1>2. ASSUME NEW slot \in {tau + gap : gap \in Gaps}, NEW ext \in TicketExtrinsics,
             NEW convicted \in Convictions, NEW staged \in ValidatorSets,
             NEW offers, offers = Offers(slot, kappa') \cup Offers(slot, lambda'),
             NEW accepted \in {{}} \cup
               {{g} : g \in {h \in offers : tau' = slot /\ GuaranteeOK(h, slot)'}},
             slot <= MaxSlot, Block(slot, ext, convicted, staged), Report(slot, accepted)
      PROVE  /\ slot \in Nat
             /\ \A g \in accepted :
                  /\ g \in Offers(slot, kappa') \cup Offers(slot, lambda')
                  /\ tau' = slot /\ GuaranteeOK(g, slot)'
  <2>1. slot \in Nat
    <3>1. PICK gap \in Gaps : slot = tau + gap
      OBVIOUS
    <3>2. gap \in Nat
      BY SafroleConstants
    <3> QED
      BY <3>1, <3>2
  <2>2. ASSUME NEW g \in accepted
        PROVE  g \in {h \in offers : tau' = slot /\ GuaranteeOK(h, slot)'}
    OBVIOUS
  <2> QED
    BY <1>2, <2>1, <2>2
<1> QED
  BY <1>1, <1>2 DEF GuarantorsNext

LEMMA AInvStep == AInv /\ [GuarantorsNext]_guarantorVars => AInv'
<1> SUFFICES ASSUME AInv, [GuarantorsNext]_guarantorVars
             PROVE  AInv'
  OBVIOUS
<1>1. CASE UNCHANGED guarantorVars
  BY <1>1 DEF AInv, Clock, Kept, guarantorVars, vars
<1>2. tau \in Nat
  BY DEF AInv, Clock
<1> QED
  BY <1>1, <1>2, Steps, ReportKeeps

LEMMA AInvInit == GuarantorsInit => AInv
  BY DEF GuarantorsInit, Init, AInv, Clock

\* A guarantee is judged by the assignment and the keys that were in force when
\* it was made, for every shuffle, rotation period and sequence of blocks.
THEOREM GuaranteesAreJudgedAsMade == GuarantorsSpec => []JudgedAsAssigned
  BY AInvInit, AInvStep, KeptIsJudged, PTL DEF GuarantorsSpec

-----------------------------------------------------------------------------
(* The second invariant: no validator set has a key twice but the null     *)
(* key, and who signed is on the core it signed for.                       *)

Staffing(keys) ==
  /\ keys \in KeySeqs
  /\ \A v \in ValidatorSets : Len(keys) = Len(v)
  /\ \A i, j \in DOMAIN keys : keys[i] = keys[j] /\ keys[i] # NullKey => i = j

Places(s, t) ==
  {i \in DOMAIN Kept(t).keys : Kept(t).keys[i] = s.key /\ Kept(t).cores[i] = s.core}

Placed(s, t) ==
  /\ InWindow(tau, t) /\ Rotation(t) = s.rotation
  /\ s.key # NullKey /\ Places(s, t) # {}

Sets == Staffing(kappa) /\ Staffing(lambda) /\ Staffing(gamma_k) /\ Staffing(iota)

SInv ==
  /\ Clock /\ Sets
  /\ \A s \in signed : \E t \in Nat : Placed(s, t)

LEMMA StagedSets == \A v \in ValidatorSets : Staffing(v)
  BY SafroleConstants, DistinctValidators DEF Staffing, KeySeqs

LEMMA NullifiedSet ==
  ASSUME NEW keys, Staffing(keys)
  PROVE  Staffing(NullifyOffenders(keys))
<1> DEFINE new == NullifyOffenders(keys)
<1>1. keys \in Seq(Keys \cup {NullKey}) /\ DOMAIN keys = 1..Len(keys)
  BY DEF Staffing, KeySeqs
<1>2. /\ DOMAIN new = DOMAIN keys
      /\ \A i \in DOMAIN keys : new[i] = NullKey \/ new[i] = keys[i]
  BY DEF NullifyOffenders
<1>3. \A i \in DOMAIN keys : new[i] \in Keys \cup {NullKey}
  BY <1>1, <1>2
<1>4. new = [i \in 1..Len(keys) |-> new[i]] /\ Len(keys) \in Nat
  BY <1>1 DEF NullifyOffenders
<1> HIDE DEF new
<1>5. new \in Seq(Keys \cup {NullKey}) /\ Len(new) = Len(keys)
  BY <1>1, <1>2, <1>3, <1>4
<1>6. \A i, j \in DOMAIN new : new[i] = new[j] /\ new[i] # NullKey => i = j
  BY <1>2 DEF Staffing
<1> QED
  BY <1>5, <1>6 DEF Staffing, KeySeqs, new

LEMMA BlockKeepsSets ==
  ASSUME Sets, NEW slot, NEW ext, NEW convicted, NEW staged \in ValidatorSets,
         Block(slot, ext, convicted, staged)
  PROVE  Sets'
<1>1. Staffing(iota')
  BY StagedSets DEF Block, Rest
<1>2. CASE Advance(slot, ext) \/ Refuse(slot, ext)
  <2>1. UNCHANGED <<kappa, lambda, gamma_k>>
    BY <1>2 DEF Advance, Refuse
  <2> QED
    BY <1>1, <2>1 DEF Sets, Staffing
<1>3. CASE EnterEpoch(slot, ext)
  <2>1. lambda' = kappa /\ kappa' = gamma_k /\ gamma_k' = NullifyOffenders(iota)
    BY <1>3 DEF EnterEpoch
  <2>2. Staffing(NullifyOffenders(iota))
    BY NullifiedSet DEF Sets
  <2> QED
    BY <1>1, <2>1, <2>2 DEF Sets, Staffing
<1> QED
  BY <1>2, <1>3 DEF Block

\* Who signs an accepted guarantee is on its core.
LEMMA SignersArePlaced ==
  ASSUME tau' \in Nat, Sets', NEW slot \in Nat, tau' = slot, NEW g,
         g \in Offers(slot, kappa') \cup Offers(slot, lambda'), GuaranteeOK(g, slot)',
         NEW s \in Signatures(g)
  PROVE  \E t \in Nat : Placed(s, t)'
<1>1. PICK keys \in {kappa', lambda'}, places \in Signers, core, t \in Nat :
        /\ \A i \in DOMAIN places : keys[places[i]] # NullKey
        /\ g = [core |-> core, slot |-> t,
                credentials |-> [i \in DOMAIN places |->
                                  [index |-> places[i] - 1, signer |-> keys[places[i]]]]]
  BY DEF Offers
<1>2. /\ g.core = core /\ g.slot = t /\ DOMAIN g.credentials = DOMAIN places
      /\ \A i \in DOMAIN places : /\ g.credentials[i].index = places[i] - 1
                                  /\ g.credentials[i].signer = keys[places[i]]
  BY <1>1
<1>3. PICK i \in DOMAIN places :
        s = [rotation |-> Rotation(t), core |-> core, key |-> g.credentials[i].signer]
  BY <1>2 DEF Signatures
<1>4. s.rotation = Rotation(t) /\ s.core = core /\ s.key = g.credentials[i].signer
  BY <1>3
<1>5. s.key # NullKey
  BY <1>1, <1>2, <1>4
<1>6. InWindow(tau', t)
  BY <1>2 DEF GuaranteeOK
<1>7. /\ CredentialOK(g.credentials[i], core, AssignmentFor(slot, t))'
  BY <1>2 DEF GuaranteeOK
<1>8. AssignmentFor(slot, t)' = Kept(t)'
  BY <1>6, JudgesByKeptNext DEF JudgedByKept
<1>9. /\ places[i] \in Nat \ {0} /\ places[i] - 1 < Len(kappa')
      /\ Kept(t)'.cores[places[i]] = core
      /\ Kept(t)'.keys[places[i]] = s.key
  <2>1. places[i] \in Nat \ {0}
    BY GuarantorConstants
  <2>2. g.credentials[i].index + 1 = places[i] /\ g.credentials[i].index = places[i] - 1
    BY <1>2, <2>1
  <2> QED
    BY <1>4, <1>7, <1>8, <2>1, <2>2 DEF CredentialOK
<1>10. places[i] \in DOMAIN Kept(t)'.keys
  <2>1. Kept(t)'.keys = kappa' \/ Kept(t)'.keys = lambda'
    BY DEF Kept
  <2>2. /\ DOMAIN kappa' = 1..Len(kappa') /\ DOMAIN lambda' = 1..Len(lambda')
        /\ Len(kappa') = Len(lambda') /\ Len(kappa') \in Nat
    BY SafroleConstants DEF Sets, Staffing, KeySeqs
  <2>3. places[i] \in 1..Len(kappa')
    BY <1>9, <2>2
  <2> QED
    BY <2>1, <2>2, <2>3
<1>11. Places(s, t)' # {}
  BY <1>4, <1>9, <1>10 DEF Places
<1> QED
  BY <1>4, <1>5, <1>6, <1>11 DEF Placed

LEMMA SInvStep == SInv /\ [GuarantorsNext]_guarantorVars => SInv'
<1> SUFFICES ASSUME SInv, [GuarantorsNext]_guarantorVars
             PROVE  SInv'
  OBVIOUS
<1>1. CASE UNCHANGED guarantorVars
  BY <1>1 DEF SInv, Sets, Staffing, Clock, Placed, Places, Kept, guarantorVars, vars
<1>2. ASSUME NEW slot \in Nat, NEW ext, NEW convicted, NEW staged \in ValidatorSets,
             NEW accepted, Block(slot, ext, convicted, staged), Report(slot, accepted),
             \A g \in accepted : /\ g \in Offers(slot, kappa') \cup Offers(slot, lambda')
                                 /\ tau' = slot /\ GuaranteeOK(g, slot)'
      PROVE  SInv'
  <2>1. /\ Clock /\ Clock' /\ tau <= tau'
        /\ \A t \in Nat : InWindow(tau, t) /\ InWindow(tau', t) => Kept(t)' = Kept(t)
    BY <1>2, BlockKeeps DEF SInv
  <2>2. Sets'
    BY <1>2, BlockKeepsSets DEF SInv
  <2>3. ASSUME NEW s \in signed'
        PROVE  \E t \in Nat : Placed(s, t)'
    <3>1. CASE s \in signed /\ s.rotation + 1 >= Rotation(tau')
      <4>1. PICK t \in Nat : Placed(s, t)
        BY <3>1 DEF SInv
      <4>2. InWindow(tau', t)
        BY <2>1, <3>1, <4>1 DEF Placed, InWindow, Clock
      <4>3. Kept(t)' = Kept(t)
        BY <2>1, <4>1, <4>2 DEF Placed
      <4> QED
        BY <4>1, <4>2, <4>3 DEF Placed, Places
    <3>2. CASE \E g \in accepted : s \in Signatures(g)
      <4>1. PICK g \in accepted : s \in Signatures(g)
        BY <3>2
      <4> QED
        BY <1>2, <2>1, <2>2, <4>1, SignersArePlaced DEF Clock
    <3> QED
      BY <1>2, <2>3, <3>1, <3>2 DEF Report
  <2> QED
    BY <2>1, <2>2, <2>3 DEF SInv
<1> QED
  BY <1>1, <1>2, Steps DEF SInv, Clock

LEMMA SInvInit == GuarantorsInit => SInv
<1> SUFFICES ASSUME GuarantorsInit PROVE SInv
  OBVIOUS
<1>1. Clock /\ signed = {}
  BY DEF GuarantorsInit, Init, Clock
<1>2. Sets
  BY StagedSets DEF GuarantorsInit, Init, Sets
<1> QED
  BY <1>1, <1>2 DEF SInv

LEMMA PlacedOnOneCore == SInv => OneCorePerRotation
<1> SUFFICES ASSUME SInv, NEW s \in signed, NEW u \in signed,
                    s.rotation = u.rotation, s.key = u.key
             PROVE  s.core = u.core
  BY DEF OneCorePerRotation
<1>1. PICK t \in Nat : Placed(s, t)
  BY DEF SInv
<1>2. PICK w \in Nat : Placed(u, w)
  BY DEF SInv
<1>3. Kept(t) = Kept(w)
  BY <1>1, <1>2, KeptOfRotation DEF Placed
<1>4. PICK i \in DOMAIN Kept(t).keys : Kept(t).keys[i] = s.key /\ Kept(t).cores[i] = s.core
  BY <1>1 DEF Placed, Places
<1>5. PICK j \in DOMAIN Kept(t).keys : Kept(t).keys[j] = s.key /\ Kept(t).cores[j] = u.core
  BY <1>2, <1>3 DEF Placed, Places
<1>6. Kept(t).keys = kappa \/ Kept(t).keys = lambda
  BY DEF Kept
<1>7. Staffing(Kept(t).keys)
  BY <1>6 DEF SInv, Sets
<1>8. i = j
  BY <1>1, <1>4, <1>5, <1>7 DEF Placed, Staffing
<1> QED
  BY <1>4, <1>5, <1>8

\* In a rotation a validator guarantees for one core, whatever the shuffle and
\* however rotations, epochs and sets change between the blocks that carry its
\* guarantees, if no set that a service stages has a key twice
\* (reports.rs 210-262, 402-436).
THEOREM OneCoreForEachRotation == GuarantorsSpec => []OneCorePerRotation
  BY SInvInit, SInvStep, PlacedOnOneCore, PTL DEF GuarantorsSpec

-----------------------------------------------------------------------------
(* The third invariant: the shuffle leaves every core its guarantors.      *)

\* A set of numbers has a least one.
LEMMA LeastNumber ==
  ASSUME NEW T, T \subseteq Nat, T # {}
  PROVE  \E x \in T : \A y \in T : x <= y
<1> DEFINE R == OpToRel(<, Nat)
<1>1. IsWellFoundedOn(R, Nat)
  BY NatLessThanWellFounded
<1>2. \A x, y \in Nat : <<y, x>> \in R <=> y < x
  BY DEF OpToRel
<1> HIDE DEF R
<1>3. PICK x \in T : \A y \in T : ~ (<<y, x>> \in R)
  BY <1>1, WFMin
<1>4. ASSUME NEW y \in T PROVE x <= y
  <2>1. x \in Nat /\ y \in Nat /\ ~ (<<y, x>> \in R)
    BY <1>3
  <2>2. ~ (y < x)
    BY <1>2, <2>1
  <2> QED
    BY <2>1, <2>2
<1> QED
  BY <1>4

\* Induction over the numbers up to n: a set that holds 0 and the successors of
\* its members holds all of them.
LEMMA InductionUpTo ==
  ASSUME NEW n \in Nat, NEW T, 0 \in T,
         \A i \in 1..n : i - 1 \in T => i \in T
  PROVE  \A i \in 0..n : i \in T
<1> SUFFICES ASSUME NEW k \in 0..n, k \notin T PROVE FALSE
  OBVIOUS
<1> DEFINE Out == {i \in 0..n : i \notin T}
<1>1. PICK x \in Out : \A y \in Out : x <= y
  <2>1. Out \subseteq Nat /\ Out # {}
    OBVIOUS
  <2> QED
    BY <2>1, LeastNumber
<1>2. x \in 1..n /\ x - 1 \in 0..n /\ x \notin T
  BY <1>1
<1>3. x - 1 \in T
  BY <1>1, <1>2
<1> QED
  BY <1>2, <1>3

\* f is defined by recursion over 0..n: f[0] is x0 and step[i] leads to f[i].
Recursion(f, n, X, x0, step) ==
  f \in [0..n -> X] /\ f[0] = x0 /\ \A i \in 1..n : f[i] = step[i][f[i - 1]]

LEMMA RecursionExists ==
  ASSUME NEW X, NEW n \in Nat, NEW x0 \in X, NEW step \in [1..n -> [X -> X]]
  PROVE  \E f : Recursion(f, n, X, x0, step)
<1> DEFINE T == {k \in 0..n : \E f : Recursion(f, k, X, x0, step)}
<1>1. 0 \in T
  <2>1. Recursion([i \in 0..0 |-> x0], 0, X, x0, step)
    BY DEF Recursion
  <2> QED
    BY <2>1
<1>2. ASSUME NEW k \in 1..n, k - 1 \in T PROVE k \in T
  <2>1. PICK f : Recursion(f, k - 1, X, x0, step)
    BY <1>2
  <2> DEFINE g == [i \in 0..k |-> IF i = k THEN step[k][f[k - 1]] ELSE f[i]]
  <2>2. f[k - 1] \in X /\ step[k] \in [X -> X]
    BY <2>1 DEF Recursion
  <2>3. g \in [0..k -> X] /\ g[0] = x0
    BY <2>1, <2>2 DEF Recursion
  <2>4. \A i \in 1..k : g[i] = step[i][g[i - 1]]
    BY <2>1 DEF Recursion
  <2> HIDE DEF g
  <2>5. Recursion(g, k, X, x0, step)
    BY <2>3, <2>4 DEF Recursion
  <2> QED
    BY <2>5
<1>3. n \in T
  <2> HIDE DEF T
  <2>1. \A i \in 0..n : i \in T
    BY <1>1, <1>2, InductionUpTo
  <2> QED
    BY <2>1
<1> QED
  BY <1>3

\* What draw k picks, what it does to what is left, and what is left after it.
Pick(n, r, k) == (r[k] % (n - k + 1)) + 1

Drawn(x, a, z) == [x EXCEPT ![a] = x[z]]

PickStep(n, r, X) ==
  [k \in 1..n |-> [x \in X |-> Drawn(x, Pick(n, r, k), n - k + 1)]]

Picking(left, s, r, n) ==
  /\ left[0] = s
  /\ \A k \in 1..n : /\ left[k - 1] \in [1..n -> Nat]
                     /\ left[k] = Drawn(left[k - 1], Pick(n, r, k), n - k + 1)

LEMMA DrawnIs ==
  ASSUME NEW n \in Nat, NEW x \in [1..n -> Nat], NEW a \in 1..n, NEW z \in 1..n
  PROVE  /\ Drawn(x, a, z) \in [1..n -> Nat] /\ Drawn(x, a, z)[a] = x[z]
         /\ \A i \in 1..n : i # a => Drawn(x, a, z)[i] = x[i]
BY DEF Drawn

LEMMA PickInRange ==
  ASSUME NEW n \in Nat, NEW r, \A k \in 1..n : r[k] \in Nat
  PROVE  \A k \in 1..n : /\ Pick(n, r, k) \in 1..n - k + 1 /\ Pick(n, r, k) \in 1..n
                         /\ n - k + 1 \in 1..n
<1> TAKE k \in 1..n
<1>1. r[k] \in Nat /\ n - k + 1 \in Nat \ {0} /\ n - k + 1 \in 1..n
  OBVIOUS
<1>2. \A x \in Nat, m \in Nat \ {0} : x % m \in 0..m - 1
  OBVIOUS
<1>3. r[k] % (n - k + 1) \in 0..(n - k + 1) - 1
  BY <1>1, <1>2
<1> QED
  BY <1>1, <1>3 DEF Pick

LEMMA ShufflePicks ==
  ASSUME NEW n \in Nat, NEW s \in [1..n -> Nat], Len(s) = n,
         NEW r, \A k \in 1..n : r[k] \in Nat
  PROVE  \E left : /\ Picking(left, s, r, n)
                   /\ Shuffle(s, r) = [k \in 1..n |-> left[k - 1][Pick(n, r, k)]]
<1> DEFINE X == [1..n -> Nat]
           step == PickStep(n, r, X)
           Body(f) == [k \in 0..n |->
                         IF k = 0 THEN s ELSE Drawn(f[k - 1], Pick(n, r, k), n - k + 1)]
           h == CHOOSE f : f = Body(f)
<1>1. step \in [1..n -> [X -> X]]
  <2>1. \A k \in 1..n, x \in X : Drawn(x, Pick(n, r, k), n - k + 1) \in X
    BY PickInRange, DrawnIs
  <2> HIDE DEF X
  <2> QED
    BY <2>1 DEF PickStep
<1>2. \A k \in 1..n, x \in X : step[k][x] = Drawn(x, Pick(n, r, k), n - k + 1)
  BY DEF PickStep
<1>3. \A f : Body(f)[0] = s /\ Body(f) = [k \in 0..n |-> Body(f)[k]]
  OBVIOUS
<1>4. ASSUME NEW f, NEW k \in 1..n
      PROVE  Body(f)[k] = Drawn(f[k - 1], Pick(n, r, k), n - k + 1)
  <2>1. k \in 0..n /\ k # 0
    OBVIOUS
  <2> QED
    BY <2>1
<1>5. Shuffle(s, r) = [k \in 1..n |-> h[k - 1][Pick(n, r, k)]]
  BY DEF Shuffle, Pick, Drawn
<1> HIDE DEF X, step, Body, h
<1>6. PICK g : Recursion(g, n, X, s, step)
  <2>1. s \in X
    BY DEF X
  <2> QED
    BY <1>1, <2>1, RecursionExists, Zenon
<1>7. g = Body(g)
  <2>1. \A k \in 1..n : g[k] = Body(g)[k]
    <3> TAKE k \in 1..n
    <3>1. k - 1 \in 0..n
      OBVIOUS
    <3>2. g[k - 1] \in X /\ g[k] = step[k][g[k - 1]]
      BY <1>6, <3>1 DEF Recursion
    <3> QED
      BY <1>2, <1>4, <3>2
  <2>2. g[0] = Body(g)[0]
    BY <1>3, <1>6 DEF Recursion
  <2>3. g = [k \in 0..n |-> g[k]] /\ \A k \in 0..n : k = 0 \/ k \in 1..n
    BY <1>6 DEF Recursion
  <2> QED
    BY <1>3, <2>1, <2>2, <2>3
<1>8. h = Body(h)
  BY <1>7 DEF h
<1>9. h[0] = s /\ \A k \in 1..n : h[k] = Drawn(h[k - 1], Pick(n, r, k), n - k + 1)
  <2>1. h[0] = Body(h)[0] /\ \A k \in 1..n : h[k] = Body(h)[k]
    BY <1>8
  <2> QED
    BY <1>3, <1>4, <2>1
<1>10. \A k \in 0..n : h[k] \in X
  <2> DEFINE T == {k \in 0..n : h[k] \in X}
  <2>1. 0 \in T
    BY <1>9 DEF X
  <2>2. ASSUME NEW k \in 1..n, k - 1 \in T PROVE k \in T
    <3>1. h[k - 1] \in X
      BY <2>2
    <3>2. h[k] = Drawn(h[k - 1], Pick(n, r, k), n - k + 1)
      BY <1>9
    <3>3. h[k] \in X
      <4>1. Pick(n, r, k) \in 1..n /\ n - k + 1 \in 1..n
        BY PickInRange
      <4>2. Drawn(h[k - 1], Pick(n, r, k), n - k + 1) \in X
        BY <3>1, <4>1, DrawnIs, Zenon DEF X
      <4> QED
        BY <3>2, <4>2
    <3> QED
      BY <3>3
  <2> HIDE DEF T
  <2>3. \A k \in 0..n : k \in T
    BY <2>1, <2>2, InductionUpTo
  <2> QED
    BY <2>3 DEF T
<1>11. Picking(h, s, r, n)
  <2>1. \A k \in 1..n : k - 1 \in 0..n
    OBVIOUS
  <2> QED
    BY <1>9, <1>10, <2>1 DEF Picking, X
<1> QED
  BY <1>5, <1>11

\* p is a permutation of the places 1..n.
Permutes(p, n) ==
  /\ p \in [1..n -> 1..n]
  /\ \A i, j \in 1..n : p[i] = p[j] => i = j
  /\ \A j \in 1..n : \E i \in 1..n : p[i] = j

\* After k draws, what is left and what was picked is s, permuted by p.
Permuted(p, left, s, r, n, k) ==
  /\ Permutes(p, n)
  /\ \A i \in 1..n - k : left[k][i] = s[p[i]]
  /\ \A j \in 1..k : left[j - 1][Pick(n, r, j)] = s[p[n - j + 1]]

LEMMA PermutedMore ==
  ASSUME NEW n \in Nat, NEW s \in [1..n -> Nat], NEW r, \A k \in 1..n : r[k] \in Nat,
         NEW left, Picking(left, s, r, n),
         NEW k \in 1..n, NEW p, Permuted(p, left, s, r, n, k - 1)
  PROVE  \E q : Permuted(q, left, s, r, n, k)
<1> DEFINE a == Pick(n, r, k)
           z == n - k + 1
           q == [i \in 1..n |-> IF i = a THEN p[z] ELSE IF i = z THEN p[a] ELSE p[i]]
<1>1. a \in 1..z /\ z \in 1..n /\ a \in 1..n
  <2>1. a \in 1..z /\ z \in 1..n
    BY PickInRange
  <2> HIDE DEF a, z
  <2> QED
    BY <2>1
<1>2. /\ left[k - 1] \in [1..n -> Nat]
      /\ left[k][a] = left[k - 1][z]
      /\ \A i \in 1..n : i # a => left[k][i] = left[k - 1][i]
  <2>1. left[k - 1] \in [1..n -> Nat] /\ left[k] = Drawn(left[k - 1], a, z)
    BY DEF Picking
  <2> HIDE DEF a, z
  <2> QED
    <3> DEFINE x == left[k - 1]
    <3>1. x \in [1..n -> Nat] /\ left[k] = Drawn(x, a, z)
      BY <2>1
    <3> HIDE DEF x
    <3>2. a \in 1..n /\ z \in 1..n
      BY <1>1
    <3>3. Drawn(x, a, z)[a] = x[z] /\ \A i \in 1..n : i # a => Drawn(x, a, z)[i] = x[i]
      BY <3>1, <3>2, DrawnIs, Zenon
    <3> QED
      BY <3>1, <3>3 DEF x
<1>3. /\ p \in [1..n -> 1..n]
      /\ \A i, j \in 1..n : p[i] = p[j] => i = j
      /\ \A j \in 1..n : \E i \in 1..n : p[i] = j
      /\ \A i \in 1..z : left[k - 1][i] = s[p[i]]
      /\ \A j \in 1..k - 1 : left[j - 1][Pick(n, r, j)] = s[p[n - j + 1]]
  <2>1. n - (k - 1) = z
    OBVIOUS
  <2> QED
    BY <2>1 DEF Permuted, Permutes
<1>4. z = n - k + 1 /\ a = Pick(n, r, k)
  OBVIOUS
<1> HIDE DEF a, z
<1>5. /\ q[a] = p[z] /\ q[z] = p[a]
      /\ \A i \in 1..n : i # a /\ i # z => q[i] = p[i]
  BY <1>1
<1>6. Permutes(q, n)
  <2>1. q \in [1..n -> 1..n]
    BY <1>1, <1>3
  <2> DEFINE w(i) == IF i = a THEN z ELSE IF i = z THEN a ELSE i
  <2>2. \A i, j \in 1..n : q[i] = q[j] => i = j
    <3>1. \A i \in 1..n : w(i) \in 1..n /\ q[i] = p[w(i)]
      BY <1>1, <1>5
    <3>2. \A i, j \in 1..n : w(i) = w(j) => i = j
      OBVIOUS
    <3> HIDE DEF w, q
    <3> TAKE i, j \in 1..n
    <3>3. p[w(i)] = p[w(j)] => w(i) = w(j)
      BY <1>3, <3>1
    <3> QED
      BY <3>1, <3>2, <3>3
  <2> HIDE DEF q
  <2>3. ASSUME NEW j \in 1..n PROVE \E i \in 1..n : q[i] = j
    <3>1. PICK i \in 1..n : p[i] = j
      BY <1>3
    <3> QED
      BY <1>1, <1>5, <3>1
  <2> QED
    BY <2>1, <2>2, <2>3 DEF Permutes
<1> HIDE DEF q
<1>7. ASSUME NEW i \in 1..n - k PROVE left[k][i] = s[q[i]]
  <2>1. i \in 1..n /\ i \in 1..z /\ i # z /\ z \in 1..z
    BY <1>1, <1>4
  <2>2. CASE i = a
    <3>1. left[k][i] = left[k - 1][z] /\ left[k - 1][z] = s[p[z]]
      BY <1>2, <1>3, <2>1, <2>2
    <3> QED
      BY <1>5, <2>2, <3>1
  <2>3. CASE i # a
    BY <1>2, <1>3, <1>5, <2>1, <2>3
  <2> QED
    BY <2>2, <2>3
<1>8. ASSUME NEW j \in 1..k PROVE left[j - 1][Pick(n, r, j)] = s[q[n - j + 1]]
  <2>1. CASE j = k
    <3>1. left[k - 1][a] = s[p[a]]
      BY <1>1, <1>3
    <3> QED
      BY <1>4, <1>5, <2>1, <3>1
  <2>2. CASE j # k
    <3>1. j \in 1..k - 1 /\ n - j + 1 \in 1..n /\ n - j + 1 > z
      BY <1>4, <2>2
    <3>2. q[n - j + 1] = p[n - j + 1]
      BY <1>1, <1>5, <3>1
    <3> QED
      BY <1>3, <3>1, <3>2
  <2> QED
    BY <2>1, <2>2
<1> QED
  BY <1>6, <1>7, <1>8 DEF Permuted

\* out is s in another order.
IsShuffle(out, s, n) == \E p : Permutes(p, n) /\ \A k \in 1..n : out[k] = s[p[k]]

\* The shuffle is a permutation, whatever the draws.
LEMMA ShufflePermutes ==
  ASSUME NEW n \in Nat, NEW s \in [1..n -> Nat], Len(s) = n,
         NEW r, \A k \in 1..n : r[k] \in Nat
  PROVE  IsShuffle(Shuffle(s, r), s, n)
<1>1. PICK left : /\ Picking(left, s, r, n)
                  /\ Shuffle(s, r) = [k \in 1..n |-> left[k - 1][Pick(n, r, k)]]
  BY ShufflePicks
<1> DEFINE T == {k \in 0..n : \E p : Permuted(p, left, s, r, n, k)}
<1>2. 0 \in T
  <2> DEFINE p == [i \in 1..n |-> i]
  <2>1. Permutes(p, n)
    BY DEF Permutes
  <2>2. \A i \in 1..n - 0 : left[0][i] = s[p[i]]
    BY <1>1 DEF Picking
  <2> HIDE DEF p
  <2>3. Permuted(p, left, s, r, n, 0)
    BY <2>1, <2>2 DEF Permuted
  <2> QED
    BY <2>3
<1>3. ASSUME NEW k \in 1..n, k - 1 \in T PROVE k \in T
  <2>1. PICK p : Permuted(p, left, s, r, n, k - 1)
    BY <1>3
  <2>2. \E q : Permuted(q, left, s, r, n, k)
    BY <1>1, <2>1, PermutedMore, Zenon
  <2>3. k \in 0..n
    OBVIOUS
  <2> QED
    BY <2>2, <2>3
<1> HIDE DEF T
<1>4. n \in T
  <2>1. \A k \in 0..n : k \in T
    BY <1>2, <1>3, InductionUpTo
  <2> QED
    BY <2>1
<1>5. PICK p : Permuted(p, left, s, r, n, n)
  BY <1>4 DEF T
<1> DEFINE q == [k \in 1..n |-> p[n - k + 1]]
<1>6. \A k \in 1..n : n - k + 1 \in 1..n
  OBVIOUS
<1>7. Permutes(q, n)
  <2>1. Permutes(p, n)
    BY <1>5 DEF Permuted
  <2>2. q \in [1..n -> 1..n]
    BY <1>6, <2>1 DEF Permutes
  <2>3. \A i, j \in 1..n : q[i] = q[j] => i = j
    <3> TAKE i, j \in 1..n
    <3>1. n - i + 1 = n - j + 1 => i = j
      OBVIOUS
    <3> QED
      BY <1>6, <2>1, <3>1 DEF Permutes
  <2>4. ASSUME NEW j \in 1..n PROVE \E i \in 1..n : q[i] = j
    <3>1. PICK i \in 1..n : p[i] = j
      BY <2>1 DEF Permutes
    <3>2. n - i + 1 \in 1..n /\ n - (n - i + 1) + 1 = i
      OBVIOUS
    <3> QED
      BY <3>1, <3>2
  <2> HIDE DEF q
  <2> QED
    BY <2>2, <2>3, <2>4 DEF Permutes
<1>8. \A k \in 1..n : Shuffle(s, r)[k] = s[q[k]]
  BY <1>1, <1>5 DEF Permuted
<1> HIDE DEF q
<1> QED
  BY <1>7, <1>8 DEF IsShuffle

\* Validators in groups: the places of group b.
GroupOf(b, g, c) == {j \in 1..g * c : (j - 1) \div g = b}

LEMMA GroupPlaces ==
  ASSUME NEW c \in Nat, NEW g \in Nat \ {0}, NEW b \in 0..c - 1
  PROVE  /\ \A j \in 1..g * c : (j - 1) \div g \in 0..c - 1
         /\ Cardinality(GroupOf(b, g, c)) = g
<1>1. ASSUME NEW j \in 1..g * c
      PROVE  /\ (j - 1) \div g \in 0..c - 1
             /\ (j - 1) \div g = b => j \in g * b + 1..g * b + g
  <2> DEFINE x == j - 1
             q == x \div g
             r == x % g
  <2>1. x \in Nat /\ x < g * c
    <3>1. g * c \in Nat
      OBVIOUS
    <3> QED
      BY <3>1
  <2>2. q \in Int /\ r \in 0..g - 1 /\ x = g * q + r
    <3>1. \A y \in Int : y % g \in 0..g - 1 /\ (y \div g) \in Int /\ y = g * (y \div g) + (y % g)
      OBVIOUS
    <3> HIDE DEF x
    <3> QED
      BY <2>1, <3>1
  <2>3. x = j - 1
    OBVIOUS
  <2> HIDE DEF x, q, r
  <2>4. q \in 0..c - 1
    <3>1. q >= 0
      <4> SUFFICES ASSUME q <= -1 PROVE FALSE
        BY <2>2
      <4>1. g * q <= g * (-1)
        BY <2>2
      <4> QED
        BY <2>1, <2>2, <4>1
    <3>2. q < c
      <4> SUFFICES ASSUME q >= c PROVE FALSE
        BY <2>2
      <4>1. g * q >= g * c
        BY <2>2
      <4> QED
        BY <2>1, <2>2, <4>1
    <3> QED
      BY <2>2, <3>1, <3>2
  <2>5. ASSUME q = b PROVE j \in g * b + 1..g * b + g
    <3>1. g * b \in Int /\ j = g * b + r + 1
      BY <2>2, <2>3, <2>5
    <3> QED
      BY <2>2, <3>1
  <2> QED
    BY <2>3, <2>4, <2>5 DEF q, x
<1>2. ASSUME NEW j \in g * b + 1..g * b + g
      PROVE  j \in 1..g * c /\ (j - 1) \div g = b
  <2> DEFINE r == j - 1 - g * b
  <2>1. g * b \in Nat /\ g * b + g <= g * c
    <3>1. g * (b + 1) <= g * c /\ g * (b + 1) = g * b + g
      OBVIOUS
    <3> QED
      BY <3>1
  <2>2. r \in 0..g - 1 /\ j - 1 = g * b + r
    BY <2>1
  <2> HIDE DEF r
  <2>3. (g * b + r) \div g = b
    BY <2>2, Quotient
  <2>4. g * c \in Nat
    OBVIOUS
  <2> QED
    BY <2>1, <2>2, <2>3, <2>4
<1>3. GroupOf(b, g, c) = g * b + 1..g * b + g
  BY <1>1, <1>2 DEF GroupOf
<1>4. Cardinality(g * b + 1..g * b + g) = g
  <2> DEFINE x == g * b + 1
             y == g * b + g
  <2>1. x \in Int /\ y \in Int /\ ~ (x > y) /\ y - x + 1 = g
    <3>1. g * b \in Int
      OBVIOUS
    <3> QED
      BY <3>1
  <2> HIDE DEF x, y
  <2>2. Cardinality(x..y) = g
    BY <2>1, FS_Interval
  <2> QED
    BY <2>2 DEF x, y
<1> QED
  BY <1>1, <1>3, <1>4

\* b is the core that a shift takes to core.
Shifted(b, c, shift, core) ==
  b \in 0..c - 1 /\ \A x \in 0..c - 1 : (x + shift) % c = core <=> x = b

\* A rotation permutes the cores.
LEMMA RotationIsShift ==
  ASSUME NEW c \in Nat \ {0}, NEW shift \in Nat, NEW core \in 0..c - 1
  PROVE  \E b : Shifted(b, c, shift, core)
<1> DEFINE b == (core - shift) % c
           q == (core - shift) \div c
<1>0. \A y \in Int : y % c \in 0..c - 1 /\ (y \div c) \in Int /\ y = c * (y \div c) + (y % c)
  OBVIOUS
<1>1. b \in 0..c - 1 /\ q \in Int /\ core - shift = c * q + b
  <2> DEFINE y == core - shift
  <2>1. y \in Int
    OBVIOUS
  <2> HIDE DEF y
  <2>2. y % c \in 0..c - 1 /\ (y \div c) \in Int /\ y = c * (y \div c) + (y % c)
    BY <1>0, <2>1
  <2> QED
    BY <2>2 DEF y
<1> HIDE DEF b, q
<1>2. ASSUME NEW x \in 0..c - 1, (x + shift) % c = core PROVE x = b
  <2>1. PICK p \in Int : x + shift = c * p + core
    <3> DEFINE y == x + shift
    <3>1. y \in Int /\ y % c = core
      BY <1>2
    <3> HIDE DEF y
    <3>2. (y \div c) \in Int /\ y = c * (y \div c) + core
      BY <1>0, <3>1
    <3> QED
      BY <3>2 DEF y
  <2>2. x = c * (p + q) + b
    <3>1. c * p \in Int /\ c * q \in Int /\ c * (p + q) = c * p + c * q
      BY <1>1
    <3> QED
      BY <1>1, <2>1, <3>1
  <2>3. x = c * 0 + x /\ p + q \in Int
    BY <1>1
  <2>4. (c * (p + q) + b) % c = b /\ (c * 0 + x) % c = x
    BY <1>1, <2>3, Quotient
  <2> QED
    BY <2>2, <2>3, <2>4
<1>3. (b + shift) % c = core
  <2>1. b + shift = c * (-q) + core /\ -q \in Int
    <3>1. c * q \in Int /\ c * (-q) = -(c * q)
      BY <1>1
    <3> QED
      BY <1>1, <3>1
  <2>2. (c * (-q) + core) % c = core
    BY <2>1, Quotient
  <2> QED
    BY <2>1, <2>2
<1>4. Shifted(b, c, shift, core)
  BY <1>1, <1>2, <1>3 DEF Shifted
<1> QED
  BY <1>4

\* The shuffled and rotated groups have GroupSize validators on every core.
\* An entropy that draws a number for each of the n seats, and an assignment of n validators that
\* leaves every core its group: the premise and the conclusion of AssignmentStaffs, under names.
FullDraws(n, entropy) ==
  n \in Nat /\ n % GroupSize = 0 /\ \A k \in 1..n : Draws(entropy)[k] \in Nat
FullCores(a, n) ==
  \A core \in 0..n \div GroupSize - 1 : Cardinality({i \in DOMAIN a : a[i] = core}) = GroupSize

LEMMA AssignmentStaffs ==
  \A n, entropy : \A t \in Nat :
    FullDraws(n, entropy) => FullCores(Assignment(n, entropy, t), n)
<1> SUFFICES ASSUME NEW n, NEW entropy, NEW t \in Nat, FullDraws(n, entropy)
             PROVE  FullCores(Assignment(n, entropy, t), n)
  OBVIOUS
<1> DEFINE a == Assignment(n, entropy, t)
<1>0. a = Assignment(n, entropy, t)
  OBVIOUS
<1> HIDE DEF a
<1> SUFFICES ASSUME NEW core \in 0..n \div GroupSize - 1
             PROVE  Cardinality({i \in DOMAIN a : a[i] = core}) = GroupSize
  BY DEF a, FullCores
<1> n \in Nat /\ n % GroupSize = 0 /\ \A k \in 1..n : Draws(entropy)[k] \in Nat
  BY DEF FullDraws
<1> DEFINE g == GroupSize
           c == n \div g
           base == [i \in 1..n |-> (i - 1) \div g]
           shift == (t % EpochLength) \div RotationPeriod
           out == Shuffle(base, Draws(entropy))
           S == {i \in 1..n : a[i] = core}
<1>1. g \in Nat \ {0} /\ c \in Nat \ {0} /\ n = g * c /\ core \in 0..c - 1
  <2>1. g \in Nat \ {0}
    BY GuarantorConstants
  <2>2. \A d \in Nat \ {0} : n \div d \in Nat /\ n = d * (n \div d) + (n % d)
    OBVIOUS
  <2>3. c \in Nat /\ n = g * c + 0
    BY <2>1, <2>2
  <2>4. core \in 0..c - 1
    OBVIOUS
  <2> HIDE DEF c, g
  <2> QED
    BY <2>1, <2>3, <2>4
<1>2. shift \in Nat
  <2>1. EpochLength \in Nat \ {0} /\ RotationPeriod \in Nat \ {0}
    BY SafroleConstants, GuarantorConstants
  <2>2. t % EpochLength \in Nat
    BY <2>1
  <2> QED
    BY <2>1, <2>2
<1>3. a = [i \in 1..n |-> (out[i] + shift) % c]
  BY <1>0 DEF Assignment
<1> HIDE DEF g, c, shift, out
<1>4. base \in [1..n -> Nat] /\ Len(base) = n /\ \A j \in 1..n : base[j] \in 0..c - 1
  <2>1. \A j \in 1..n : (j - 1) \div g \in 0..c - 1
    BY <1>1, GroupPlaces
  <2> QED
    BY <1>1, <2>1
<1>5. PICK b : Shifted(b, c, shift, core)
  BY <1>1, <1>2, RotationIsShift, Zenon
<1> DEFINE T == {j \in 1..n : base[j] = b}
<1>6. Cardinality(T) = g
  <2>1. T = GroupOf(b, g, c)
    BY <1>1 DEF GroupOf
  <2> HIDE DEF T
  <2>2. b \in 0..c - 1
    BY <1>5 DEF Shifted
  <2> QED
    BY <1>1, <2>1, <2>2, GroupPlaces
<1> HIDE DEF base
<1>7. PICK p : Permutes(p, n) /\ \A k \in 1..n : out[k] = base[p[k]]
  <2> DEFINE r == Draws(entropy)
  <2>1. \A k \in 1..n : r[k] \in Nat
    OBVIOUS
  <2>2. out = Shuffle(base, r)
    BY DEF out
  <2> HIDE DEF r
  <2> QED
    <3>1. IsShuffle(out, base, n)
      BY <1>4, <2>1, <2>2, ShufflePermutes
    <3> QED
      BY <3>1 DEF IsShuffle
<1>8. \A i \in 1..n : p[i] \in 1..n /\ (i \in S <=> base[p[i]] = b)
  <2> TAKE i \in 1..n
  <2>1. p[i] \in 1..n /\ a[i] = (base[p[i]] + shift) % c
    <3>1. a[i] = (out[i] + shift) % c
      BY <1>3
    <3>2. p[i] \in 1..n /\ out[i] = base[p[i]]
      BY <1>7 DEF Permutes
    <3> QED
      BY <3>1, <3>2
  <2>2. base[p[i]] \in 0..c - 1
    BY <1>4, <2>1
  <2>3. a[i] = core <=> base[p[i]] = b
    BY <1>5, <2>1, <2>2 DEF Shifted
  <2> QED
    BY <2>1, <2>3
<1> DEFINE f == [i \in S |-> p[i]]
<1>9. f \in [S -> T] /\ \A i, j \in S : f[i] = f[j] => i = j
  BY <1>7, <1>8 DEF Permutes
<1>10. \A j \in T : \E i \in S : f[i] = j
  <2> TAKE j \in T
  <2>1. PICK i \in 1..n : p[i] = j
    BY <1>7 DEF Permutes
  <2> QED
    BY <1>8, <2>1
<1>11. IsFiniteSet(S)
  <2>1. IsFiniteSet(1..n) /\ S \in SUBSET (1..n)
    BY FS_Interval
  <2> QED
    BY <2>1, FS_Subset
<1>12. f \in Bijection(S, T)
  <2> HIDE DEF f, S, T
  <2> QED
    BY <1>9, <1>10 DEF Bijection, Injection, Surjection, IsInjective
<1>13. Cardinality(S) = g
  <2> HIDE DEF f, S, T
  <2>1. ExistsBijection(S, T)
    BY <1>12 DEF ExistsBijection
  <2> QED
    BY <1>6, <1>11, <2>1, FS_Bijection
<1> QED
  BY <1>3, <1>13 DEF g

Entropies == (0 - 3)..MaxSlot

EInv ==
  /\ tau \in Nat /\ eta \in [0..3 -> Entropies] /\ Sets
  /\ EveryCoreStaffed

LEMMA BlockKeepsEntropies ==
  ASSUME tau \in Nat, eta \in [0..3 -> Entropies], NEW slot \in Nat, slot <= MaxSlot,
         NEW ext, NEW convicted, NEW staged, Block(slot, ext, convicted, staged)
  PROVE  tau' \in Nat /\ eta' \in [0..3 -> Entropies]
<1>1. slot \in Entropies
  BY GuarantorConstants DEF Entropies
<1>2. CASE Advance(slot, ext)
  BY <1>1, <1>2 DEF Advance
<1>3. CASE EnterEpoch(slot, ext)
  <2>1. tau' = slot /\ eta' = [i \in 0..3 |-> IF i = 0 THEN slot ELSE eta[i - 1]]
    BY <1>3 DEF EnterEpoch
  <2>2. \A i \in 0..3 : i # 0 => i - 1 \in 0..3
    OBVIOUS
  <2> QED
    BY <1>1, <2>1, <2>2
<1>4. CASE Refuse(slot, ext)
  BY <1>4 DEF Refuse
<1> QED
  BY <1>2, <1>3, <1>4 DEF Block

LEMMA EInvStep == EInv /\ [GuarantorsNext]_guarantorVars => EInv'
<1> SUFFICES ASSUME EInv, [GuarantorsNext]_guarantorVars
             PROVE  EInv'
  OBVIOUS
<1>1. CASE UNCHANGED guarantorVars
  BY <1>1 DEF EInv, Sets, Staffing, EveryCoreStaffed, guarantorVars, vars
<1>2. ASSUME NEW slot \in Nat, slot <= MaxSlot, NEW ext, NEW convicted, NEW staged \in ValidatorSets,
             NEW accepted, Block(slot, ext, convicted, staged), Report(slot, accepted)
      PROVE  EInv'
  <2>1. tau' \in Nat /\ eta' \in [0..3 -> Entropies] /\ Sets'
    BY <1>2, BlockKeepsEntropies, BlockKeepsSets DEF EInv
  <2>2. ASSUME NEW a \in assigned', NEW core \in 0..Len(a.keys) \div GroupSize - 1
        PROVE  Cardinality({i \in DOMAIN a.cores : a.cores[i] = core}) = GroupSize
    <3> DEFINE current == AssignmentFor(slot, slot)'
               made == [slot |-> slot, cores |-> current.cores, keys |-> current.keys]
    <3>1. a \in assigned \/ a = made
      BY <1>2 DEF Report
    <3>2. CASE a \in assigned
      BY <3>2 DEF EInv, EveryCoreStaffed
    <3>3. CASE a = made
      <4>1. current = [cores |-> Assignment(Len(kappa'), eta'[2], slot), keys |-> kappa']
        BY DEF AssignmentFor
      <4>2. a.keys = kappa' /\ a.cores = Assignment(Len(kappa'), eta'[2], slot)
        <5> HIDE DEF current
        <5> QED
          BY <3>3, <4>1
      <4> DEFINE n == Len(kappa')
                 e == eta'[2]
      <4>3. n \in Nat /\ n % GroupSize = 0 /\ e \in Entropies
            /\ \A k \in 1..n : Draws(e)[k] \in Nat
        <5>1. PICK v \in ValidatorSets : v \in Seq(Keys) /\ Len(kappa') = Len(v)
          BY <2>1, SafroleConstants DEF Sets, Staffing
        <5>2. e \in Entropies
          BY <2>1
        <5> HIDE DEF e
        <5>3. n % GroupSize = 0 /\ \A k \in DOMAIN v : Draws(e)[k] \in Nat
          BY <5>1, <5>2, DrawConstants DEF Entropies
        <5> QED
          BY <5>1, <5>2, <5>3
      <4> HIDE DEF n, e
      <4>4. core \in 0..n \div GroupSize - 1
        BY <4>2 DEF n
      <4>5. a.cores = Assignment(n, e, slot)
        BY <4>2 DEF n, e
      <4>6. FullDraws(n, e) /\ slot \in Nat
        BY <4>3 DEF FullDraws
      <4>7. FullCores(a.cores, n)
        BY <4>5, <4>6, AssignmentStaffs, Zenon
      <4> QED
        BY <4>4, <4>7 DEF FullCores
    <3> QED
      BY <3>1, <3>2, <3>3
  <2> QED
    BY <2>1, <2>2 DEF EInv, EveryCoreStaffed
<1>3. tau \in Nat
  BY DEF EInv
<1> QED
  BY <1>1, <1>2, <1>3, Steps

LEMMA EInvInit == GuarantorsInit => EInv
<1> SUFFICES ASSUME GuarantorsInit PROVE EInv
  OBVIOUS
<1>1. tau \in Nat /\ assigned = {}
  BY DEF GuarantorsInit, Init
<1>2. eta \in [0..3 -> Entropies]
  <2>1. \A i \in 0..3 : 0 - i \in Entropies
    BY GuarantorConstants DEF Entropies
  <2> QED
    BY <2>1 DEF GuarantorsInit, Init
<1>3. Sets
  BY StagedSets DEF GuarantorsInit, Init, Sets
<1> QED
  BY <1>1, <1>2, <1>3 DEF EInv, EveryCoreStaffed

\* The shuffle and the rotation leave every core exactly GroupSize validators,
\* for every number of cores, every draw and every slot (reports.rs 128-163).
THEOREM CoresAreStaffed == GuarantorsSpec => []EveryCoreStaffed
<1>1. EInv => EveryCoreStaffed
  BY DEF EInv
<1> QED
  BY <1>1, EInvInit, EInvStep, PTL DEF GuarantorsSpec
=============================================================================
