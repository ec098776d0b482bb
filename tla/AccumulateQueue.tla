--------------------------- MODULE AccumulateQueue ---------------------------
(***************************************************************************)
(* The queue half of the accumulate transition (src/accumulate.rs): the    *)
(* ready queue theta and the accumulated set xi, the queue-editing         *)
(* function E, the priority queue Q, the gas bound of a block and the      *)
(* shift of the two ring buffers.                                          *)
(*                                                                         *)
(* A report is its package; the queue functions read nothing of it but its *)
(* dependencies and its gas.  An entry of theta is [pkg, deps].  Both      *)
(* rings are indexed from 0, theta by slot and xi by block, newest last.   *)
(***************************************************************************)
EXTENDS Integers, SequencesExt, FiniteSetsExt

CONSTANTS
  Packages,      \* work-package hashes
  Deps,          \* prerequisites and segment lookups: [Packages -> SUBSET Packages]
  Gas,           \* accumulation gas of a report: [Packages -> Nat]
  EpochLength,   \* length of both rings (12 in the code)
  BlockGas       \* gas a block may accumulate (20,000,000)

ASSUME QueueConstants ==
  /\ Deps \in [Packages -> SUBSET Packages]
  /\ Gas \in [Packages -> Nat]
  /\ EpochLength \in Nat \ {0} /\ BlockGas \in Nat

Slots == 0..EpochLength - 1

PackageOf(entries) == {entries[i].pkg : i \in DOMAIN entries}

\* The members of s that are in S, in their order: SelectSeq, as a recursive
\* function, which the provers can expand.
Keep(s, S) ==
  LET keep[n \in 0..Len(s)] == IF n = 0 THEN <<>>
                               ELSE IF s[n] \in S THEN Append(keep[n - 1], s[n])
                               ELSE keep[n - 1]
  IN  keep[Len(s)]

\* E: drop what was accumulated and what was waited for.
Edit(entries, acc) ==
  LET left == Keep(entries, {e \in ToSet(entries) : e.pkg \notin acc})
  IN  [i \in DOMAIN left |-> [pkg |-> left[i].pkg, deps |-> left[i].deps \ acc]]

\* Bug: what waits for a single report is let through.
UnblockedButOne(entries) ==
  Keep(entries, {e \in ToSet(entries) : Cardinality(e.deps) <= 1})

Unblocked(entries) == Keep(entries, {e \in ToSet(entries) : e.deps = {}})

\* Bug: what an unblocked report unblocks is put before it.
PriorityStepReversed(q) ==
  LET first == Unblocked(q.rest)
  IN  [out  |-> [i \in DOMAIN first |-> first[i].pkg] \o q.out,
       rest |-> Edit(q.rest, PackageOf(first))]

\* One call of the recursion: out is what the calls have returned so far.
PriorityStep(q) ==
  LET first == Unblocked(q.rest)
  IN  [out  |-> q.out \o [i \in DOMAIN first |-> first[i].pkg],
       rest |-> Edit(q.rest, PackageOf(first))]

\* Q: the reports of the entries that can be accumulated, dependencies first.
\* A call that finds none ends the recursion; before it every call takes an
\* entry, so there are no more calls than entries.
Priority(entries) ==
  LET q[n \in 0..Len(entries)] == IF n = 0 THEN [out |-> <<>>, rest |-> entries]
                                           ELSE PriorityStep(q[n - 1])
  IN  q[Len(entries)].out

Xi(accumulated) == UNION {accumulated[i] : i \in Slots}

\* The newly available reports without and with dependencies, in core order.
Immediate(reports) == Keep(reports, {p \in Packages : Deps[p] = {}})

Queued(reports, accumulated) ==
  LET waiting == Keep(reports, {p \in Packages : Deps[p] # {}})
  IN  Edit([i \in DOMAIN waiting |-> [pkg |-> waiting[i], deps |-> Deps[waiting[i]]]],
           Xi(accumulated))

\* theta read from this slot's index on, which is oldest first.
FromSlot(ready, m) == FlattenSeq([i \in 1..EpochLength |-> ready[(m + i - 1) % EpochLength]])

\* Bug: the ready queue goes before the reports without dependencies.
AccumulatableQueueFirst(reports, ready, accumulated, m) ==
  LET immediate == Immediate(reports)
      entries == Edit(FromSlot(ready, m) \o Queued(reports, accumulated), ToSet(immediate))
  IN  Priority(entries) \o immediate

\* Bug: the queue is not edited for the reports without dependencies.
AccumulatableUnedited(reports, ready, accumulated, m) ==
  Immediate(reports) \o Priority(FromSlot(ready, m) \o Queued(reports, accumulated))

\* W*: the candidates of a block, in the order they would be accumulated.
Accumulatable(reports, ready, accumulated, m) ==
  LET immediate == Immediate(reports)
      entries == Edit(FromSlot(ready, m) \o Queued(reports, accumulated), ToSet(immediate))
  IN  immediate \o Priority(entries)

GasOf(pkgs) ==
  LET sum[n \in 0..Len(pkgs)] == IF n = 0 THEN 0 ELSE sum[n - 1] + Gas[pkgs[n]]
  IN  sum[Len(pkgs)]

\* The candidates before the first that does not fit.
WithinGas(pkgs) ==
  SubSeq(pkgs, 1, Max({n \in 0..Len(pkgs) : GasOf(SubSeq(pkgs, 1, n)) <= BlockGas}))

\* xi': every block pushes a bucket, even an empty one.
ShiftAccumulated(accumulated, acc) ==
  [i \in Slots |-> IF i = EpochLength - 1 THEN acc ELSE accumulated[i + 1]]

\* Bug: the newly queued reports go to the index of the next slot.
SlotAgeOffByOne(i, m) == (m + 1 + EpochLength - i) % EpochLength

\* How many slots ago index i of theta was this slot's.
SlotAge(i, m) == (m + EpochLength - i) % EpochLength

\* Bug: the parent block's index is emptied too.
ShiftReadyWideGap(ready, queued, acc, m, gap) ==
  [i \in Slots |-> CASE SlotAge(i, m) = 0                              -> Edit(queued, acc)
                     [] SlotAge(i, m) # 0 /\ SlotAge(i, m) <= gap       -> <<>>
                     [] SlotAge(i, m) # 0 /\ ~ (SlotAge(i, m) <= gap)   -> Edit(ready[i], acc)]

\* theta': this slot's index takes the newly queued reports, the indices of
\* slots without a block are emptied, the others are edited.
ShiftReady(ready, queued, acc, m, gap) ==
  [i \in Slots |->
     CASE SlotAge(i, m) = 0                             -> Edit(queued, acc)
       [] SlotAge(i, m) # 0 /\ SlotAge(i, m) < gap       -> <<>>
       [] SlotAge(i, m) # 0 /\ ~ (SlotAge(i, m) < gap)   -> Edit(ready[i], acc)]
=============================================================================
