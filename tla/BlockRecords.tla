---------------------------- MODULE BlockRecords ----------------------------
(***************************************************************************)
(* What block import keeps about the blocks themselves: the authorizer     *)
(* pools alpha and queues phi, the recent blocks beta with the Merkle      *)
(* mountain range of the accumulation roots, and the validators' activity  *)
(* records pi.  One step is one block (src/block_import.rs), of which      *)
(* safrole and reports may refuse their parts: the records look at neither *)
(* outcome, and only tau, which safrole advances, stays behind.            *)
(* src/authorizations.rs and src/history.rs do the same as stand-alone     *)
(* transitions; src/statistics.rs too, but that it counts a guarantor once *)
(* for every signature.                                                    *)
(*                                                                         *)
(* Blocks are numbered; the state root and the accumulation root of block  *)
(* n are n.  A node of the mountain range is the sequence of the roots it  *)
(* commits to.                                                             *)
(***************************************************************************)
EXTENDS Integers, SequencesExt, FiniteSetsExt

CONSTANTS
  Cores,
  Validators,   \* indices of the validators
  Authorizers,
  FirstPools,   \* pools before the first block: [Cores -> Seq(Authorizers)]
  Queues,       \* authorizer queues: a set of non-empty sequences
  Author(_),    \* index of the validator whose key seals a slot
  Signers,      \* guarantors of a core's reports: [Cores -> SUBSET Validators]
  Extrinsics,   \* reports a block may hold: functions from some cores to authorizers
  AssurerSets,  \* sets of validators whose assurances a block may hold
  MaxPool,      \* length of a pool (8)
  MaxHistory,   \* blocks in beta (8)
  EpochLength,  \* slots of an epoch (12)
  Gaps,         \* slots from the last block to the next, which may be old
  MaxRefused,   \* bound: blocks that some stage refuses its part of
  MaxBlocks     \* bound: number of blocks

ASSUME BlockRecordsConstants ==
  /\ FirstPools \in [Cores -> Seq(Authorizers)]
  /\ \A c \in Cores : Len(FirstPools[c]) <= MaxPool
  /\ Queues \subseteq Seq(Authorizers) \ {<<>>}
  /\ Signers \in [Cores -> SUBSET Validators]
  /\ Extrinsics \subseteq UNION {[cores -> Authorizers] : cores \in SUBSET Cores}
  /\ AssurerSets \subseteq SUBSET Validators
  /\ {MaxPool, MaxHistory, EpochLength} \subseteq Nat \ {0}
  /\ Gaps \subseteq Int /\ {MaxRefused, MaxBlocks} \subseteq Nat

VARIABLES
  tau,      \* slot of the last block
  alpha,    \* authorizer pools, newest last
  phi,      \* authorizer queues
  history,  \* recent blocks, newest last: [block, beefy, root]
  peaks,    \* the mountain range: peaks[k] commits to 2^(k-1) roots
  curr,     \* activity records of the epoch
  last,     \* activity records of the epoch before
  issued,   \* history: times an authorizer entered the pool of a core
  used,     \* history: times a report that was accepted used it there
  log       \* history: slot, author, guarantors and assurers of every block,
            \* and the stages that refused their part

vars == <<tau, alpha, phi, history, peaks, curr, last, issued, used, log>>

Zero == 0
NoPeak == <<>>
NoActivity == [v \in Validators |-> [blocks |-> 0, guarantees |-> 0, assurances |-> 0]]

Occurrences(seq, x) == Cardinality({i \in DOMAIN seq : seq[i] = x})
Newest(seq, n) == SubSeq(seq, Max({1, Len(seq) - n + 1}), Len(seq))

Init ==
  /\ tau = 0
  /\ alpha = FirstPools
  /\ \E q \in Queues : phi = [c \in Cores |-> q]
  /\ history = <<>> /\ peaks = <<>>
  /\ curr = NoActivity /\ last = NoActivity
  /\ issued = [c \in Cores |-> [a \in Authorizers |-> Occurrences(FirstPools[c], a)]]
  /\ used = [c \in Cores |-> [a \in Authorizers |-> 0]]
  /\ log = <<>>

-----------------------------------------------------------------------------
(* Authorizer pools.  A block's reports are a function from some cores to  *)
(* authorizers.                                                            *)

\* Bug: the authorizer stays in the pool.
ConsumeNothing(pool, a) == pool

Consume(pool, a) ==
  IF Contains(pool, a) THEN RemoveFirst(pool, a) ELSE pool

Scheduled(c, slot) == phi[c][(slot % Len(phi[c])) + 1]

NextAuthPools(reports, slot) ==
  [c \in Cores |->
     LET left == IF c \in DOMAIN reports THEN Consume(alpha[c], reports[c])
                                         ELSE alpha[c]
     IN  Newest(Append(left, Scheduled(c, slot)), MaxPool)]

\* The authorizers of the reports are in the pools before the block.
Authorized(reports) ==
  \A c \in DOMAIN reports : Contains(alpha[c], reports[c])

-----------------------------------------------------------------------------
(* Recent blocks.                                                          *)

\* Bug: the peaks that were combined stay.
AppendPeakKeeping(range, item) ==
  LET free == Min({k \in 1..Len(range) + 1 : k > Len(range) \/ range[k] = NoPeak})
      carry[k \in 0..free - 1] == IF k = 0 THEN item ELSE range[k] \o carry[k - 1]
  IN  [k \in 1..Max({free, Len(range)}) |->
         IF k = free THEN carry[free - 1] ELSE range[k]]

\* mmr_append: the item is combined with one peak after the other, each of
\* which goes, until there is a free place.
AppendPeak(range, item) ==
  LET free == Min({k \in 1..Len(range) + 1 : k > Len(range) \/ range[k] = NoPeak})
      carry[k \in 0..free - 1] == IF k = 0 THEN item ELSE range[k] \o carry[k - 1]
  IN  [k \in 1..Max({free, Len(range)}) |->
         IF k < free THEN NoPeak
         ELSE IF k = free THEN carry[free - 1] ELSE range[k]]

\* mmr_super_peak: all peaks that are there, the low ones first.
SuperPeak(range) == FlattenSeq(range)

BackFilled(entries, root) ==
  IF entries = <<>> THEN entries ELSE [entries EXCEPT ![Len(entries)].root = root]

\* The block's header tells the state root its parent left.
NextRecentBlocks(block, range) ==
  Newest(Append(BackFilled(history, block - 1),
                [block |-> block, beefy |-> SuperPeak(range), root |-> Zero]),
         MaxHistory)

-----------------------------------------------------------------------------
(* Activity records.                                                       *)

Epoch(slot) == slot \div EpochLength
One(b) == IF b THEN 1 ELSE 0

Guarantors(reports) == UNION {Signers[c] : c \in DOMAIN reports}

\* Bug: the records rotate only into the epoch that follows.
RotatesOneEpoch(slot) == Epoch(slot) = Epoch(tau) + 1

Rotates(slot) == Epoch(slot) > Epoch(tau)

\* A guarantor is credited once for a block, an author for its block.
NextStatistics(slot, author, reports, assurers) ==
  LET base == IF Rotates(slot) THEN NoActivity ELSE curr
  IN  /\ last' = IF Rotates(slot) THEN curr ELSE last
      /\ curr' = [v \in Validators |->
           [blocks     |-> base[v].blocks + One(v = author),
            guarantees |-> base[v].guarantees + One(v \in Guarantors(reports)),
            assurances |-> base[v].assurances + One(v \in assurers)]]

-----------------------------------------------------------------------------
(* The block.                                                              *)

\* A service may assign a new queue to a core while the block accumulates,
\* after the pools have taken from the old one.
Assigned(queues) == \E c \in Cores, q \in Queues : queues = [phi EXCEPT ![c] = q]

Record(slot, author, reports, assurers, refusing) ==
  /\ issued' = [c \in Cores |->
       [issued[c] EXCEPT ![Scheduled(c, slot)] = @ + 1]]
  /\ used' = [c \in Cores |->
       IF "reports" \notin refusing /\ c \in DOMAIN reports
         THEN [used[c] EXCEPT ![reports[c]] = @ + 1] ELSE used[c]]
  /\ log' = Append(log, [slot |-> slot, author |-> author, refusing |-> refusing,
                         guarantors |-> Guarantors(reports), assurers |-> assurers])

\* What a stage refuses, it refuses with a reason: an old slot, an authorizer
\* that is not in the pool, or another that is not modelled here.
MayAccept(slot, reports, refusing) ==
  /\ "safrole" \notin refusing => slot > tau
  /\ "reports" \notin refusing => Authorized(reports)
  /\ "reports" \in refusing => DOMAIN reports # {}

MayRefuse == Cardinality({i \in DOMAIN log : log[i].refusing # {}}) < MaxRefused

ImportBlock(slot, reports, assurers, refusing) ==
  LET author == Author(slot)
      block == Len(log) + 1
  IN  /\ MayAccept(slot, reports, refusing)
      /\ NextStatistics(slot, author, reports, assurers)
      /\ alpha' = NextAuthPools(reports, slot)
      /\ \E q \in [Cores -> Queues] : (Assigned(q) \/ q = phi) /\ phi' = q
      /\ peaks' = AppendPeak(peaks, <<block>>)
      /\ history' = NextRecentBlocks(block, peaks')
      /\ tau' = IF "safrole" \in refusing THEN tau ELSE slot
      /\ Record(slot, author, reports, assurers, refusing)

AtBound == Len(log) = MaxBlocks /\ UNCHANGED vars

Next ==
  \/ /\ Len(log) < MaxBlocks
     /\ \E gap \in Gaps, reports \in Extrinsics, assurers \in AssurerSets :
        \E refusing \in SUBSET {"safrole", "reports"} :
          /\ tau + gap >= 0
          /\ refusing # {} => MayRefuse
          /\ ImportBlock(tau + gap, reports, assurers, refusing)
  \/ AtBound

Spec == Init /\ [][Next]_vars

-----------------------------------------------------------------------------
(* What it promises.                                                       *)

\* No report that is accepted is authorized by an entry that never came or was
\* used already: per core, what they used and what the pool still holds came
\* from the first pool or from the queue, through every trim, every new queue
\* and every refused block, and the pool never outgrows its limit
\* (block_import.rs 129-155, reports.rs 266-270).
AuthorizedOnce ==
  \A c \in Cores :
    /\ Len(alpha[c]) <= MaxPool
    /\ \A a \in Authorizers :
         used[c][a] + Occurrences(alpha[c], a) <= issued[c][a]

\* Every beefy root in beta commits to each accumulation root up to its
\* block exactly once, however the mountain range was carried; beta holds the
\* newest blocks, refused ones too, without a hole, and each but the newest
\* knows its own state root (block_import.rs 166-204, crypto.rs 50-97).
BeefyCommitsAll ==
  \A i \in DOMAIN history :
    LET entry == history[i]
    IN  /\ entry.block = Len(log) - Len(history) + i
        /\ Len(entry.beefy) = entry.block
        /\ Range(entry.beefy) = 1..entry.block
        /\ entry.root = IF i = Len(history) THEN Zero ELSE entry.block

\* What the log has of validator v in an epoch.
Activity(epoch, v) ==
  LET Blocks == {i \in DOMAIN log : Epoch(log[i].slot) = epoch}
  IN  [blocks     |-> Cardinality({i \in Blocks : log[i].author = v}),
       guarantees |-> Cardinality({i \in Blocks : v \in log[i].guarantors}),
       assurances |-> Cardinality({i \in Blocks : v \in log[i].assurers})]

\* The records are those of the epoch of the last block and of the epoch
\* before it that had blocks, also when epochs are skipped; a guarantor is
\* credited once for several reports of a block ("the guarantors form a set",
\* block_import.rs 103-106), and also for reports that are refused.  A block
\* that safrole refuses leaves tau behind, and the records rotate again.
RecordsMatchLog ==
  (log # <<>> /\ \A i \in DOMAIN log : "safrole" \notin log[i].refusing) =>
    LET now == Epoch(log[Len(log)].slot)
        earlier == {Epoch(log[i].slot) : i \in DOMAIN log} \ {now}
    IN  /\ curr = [v \in Validators |-> Activity(now, v)]
        /\ last = IF earlier = {} THEN NoActivity
                  ELSE [v \in Validators |-> Activity(Max(earlier), v)]
=============================================================================
