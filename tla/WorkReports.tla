----------------------------- MODULE WorkReports -----------------------------
(***************************************************************************)
(* The life of a work report through block import (src/block_import.rs):   *)
(* disputes clear rho, assurances take available and stale reports off it, *)
(* guarantees put new ones on it, accumulation moves the available ones    *)
(* through the ready queue theta into the accumulated set xi, and the      *)
(* block's guarantees enter the recent history beta.  One block is one     *)
(* step.  What is judged in a block comes from Disputes; credentials,      *)
(* anchor and service checks of a guarantee are one flag, `sound`, and so  *)
(* is what safrole makes of the block's tickets.                           *)
(*                                                                         *)
(* import_block looks at no stage's outcome: a block that safrole,         *)
(* assurances or reports refuse is imported all the same, without what     *)
(* that stage would have done.  MaxRefused = 0 leaves only valid blocks.   *)
(***************************************************************************)
EXTENDS Assurances, AccumulateQueue

CONSTANTS
  ReportGas,            \* gas a report may ask for (10,000,000)
  MaxDependencies,      \* prerequisites and lookups of a report (8)
  MaxHistory,           \* blocks in beta (8)
  SlotRange,            \* slots are counted modulo this (2^32)
  Gaps,                 \* slots from the last block to the next, which may be old
  AssuranceExtrinsics,  \* assurances a block may carry
  GuaranteeExtrinsics,  \* guarantees a block may carry
  MaxRefused,           \* bound: blocks of which a stage refuses its part
  MaxHeight             \* bound on height, for model checking

ASSUME ReportsConstants ==
  /\ NoReport \notin Packages \cup [pkg : Packages, timeout : Nat]
  /\ ReportGas \in Nat /\ MaxDependencies \in Nat /\ MaxHistory \in Nat \ {0}
  /\ Gaps \subseteq Int /\ SlotRange \in Nat \ {0} /\ {MaxRefused, MaxHeight} \subseteq Nat
  /\ AssuranceExtrinsics \subseteq Seq([index : Nat, bits : SUBSET Nat, sound : BOOLEAN])
  /\ GuaranteeExtrinsics \subseteq Seq([core : Nat, pkg : Packages, sound : BOOLEAN])

\* What the code's constants satisfy (5 <= 8 and 2 * 10,000,000 <= 20,000,000):
\* beta holds a report for as long as it waits on its core, and the reports of
\* all cores fit in a block.
ASSUME ReportsFit ==
  /\ AssuranceTimeout <= MaxHistory
  /\ CoreCount * ReportGas <= BlockGas

VARIABLES            \* of the program
  tau,               \* slot of the last block
  rho,               \* assignment of each core: NoReport or [pkg, timeout]
  ready,             \* theta: [Slots -> Seq([pkg, deps])]
  accumulated,       \* xi: [Slots -> SUBSET Packages]
  history            \* the packages reported in each block of beta, newest last

VARIABLES            \* history variables, read only by properties
  height,            \* blocks imported
  arrived,           \* packages that became available in the last block
  batch,             \* packages the last block accumulated, in order
  queuedAt,          \* slot at which a package last entered theta
  reportedAt,        \* block at which a package was last put on a core
  accumulatedAt,     \* block at which a package was last accumulated
  refused            \* blocks that each stage refused its part of

vars == <<tau, rho, ready, accumulated, history,
          height, arrived, batch, queuedAt, reportedAt, accumulatedAt, refused>>

InHistory(p) == \E i \in DOMAIN history : p \in history[i]

\* Bug: the duplicate check forgets the accumulated set.
KnownPackagesOnlyReady == UNION {PackageOf(ready[i]) : i \in Slots}

ReadyPackages == UNION {PackageOf(ready[i]) : i \in Slots}

\* xi and theta of the state before the block.
KnownPackages == Xi(accumulated) \cup ReadyPackages

-----------------------------------------------------------------------------
(* The stages of a block.                                                  *)

\* Disputes: reports found bad or wonky leave their cores.
RhoDagger(judged) ==
  [c \in Cores |-> IF rho[c] # NoReport /\ rho[c].pkg \in judged THEN NoReport ELSE rho[c]]

Incoming(ext) == {ext[i].pkg : i \in DOMAIN ext}

\* Reports: rhoDD is rho after assurances; ext is a sequence of [core, pkg, sound].
GuaranteeOK(g, rhoDD, ext) ==
  /\ g.sound
  /\ rhoDD[g.core] = NoReport
  /\ Cardinality(Deps[g.pkg]) <= MaxDependencies
  /\ Gas[g.pkg] <= ReportGas
  /\ \A q \in Deps[g.pkg] : q \in Incoming(ext) \/ InHistory(q)

GuaranteesOK(rhoDD, ext) ==
  /\ \A i \in DOMAIN ext : ext[i].core \in Cores
  /\ \A i, j \in DOMAIN ext : i < j => ext[i].core < ext[j].core
  /\ \A i \in DOMAIN ext : GuaranteeOK(ext[i], rhoDD, ext)
  /\ \A i, j \in DOMAIN ext : ext[i].pkg = ext[j].pkg => i = j
  /\ \A i \in DOMAIN ext : ext[i].pkg \notin KnownPackages /\ ~ InHistory(ext[i].pkg)

\* rho': accepted guarantees take their cores for AssuranceTimeout slots.
RhoPrime(rhoDD, ext, slot) ==
  IF GuaranteesOK(rhoDD, ext)
    THEN [c \in Cores |->
            IF \E i \in DOMAIN ext : ext[i].core = c
              THEN [pkg |-> (CHOOSE g \in ToSet(ext) : g.core = c).pkg, timeout |-> slot]
              ELSE rhoDD[c]]
    ELSE rhoDD

\* The reports of the given cores, in core order.
ReportsOn(r, cores) ==
  LET order == Keep([i \in 1..CoreCount |-> i - 1], cores)
  IN  [i \in DOMAIN order |-> r[order[i]].pkg]

\* Bug: beta keeps one block too many.
PushHistoryOneMore(ext) ==
  LET longer == Append(history, Incoming(ext))
  IN  SubSeq(longer, Max({1, Len(longer) - MaxHistory}), Len(longer))

\* beta': the block's guarantees are pushed whether or not they were accepted.
PushHistory(ext) ==
  LET longer == Append(history, Incoming(ext))
  IN  SubSeq(longer, Max({1, Len(longer) - MaxHistory + 1}), Len(longer))

\* What each stage makes of its part of the block; safrole takes no old slot.
Stages == {"safrole", "assurances", "guarantees"}

Accepts(stage, slot, tickets, rhoD, rhoDD, assurances, guarantees) ==
  CASE stage = "safrole"    -> tickets /\ slot > tau
    [] stage = "assurances" -> AssurancesOK(rhoD, assurances)
    [] stage = "guarantees" -> GuaranteesOK(rhoDD, guarantees)

-----------------------------------------------------------------------------
Never == 0 - (EpochLength + MaxHistory)

Init ==
  /\ tau = 0
  /\ rho = [c \in Cores |-> NoReport]
  /\ ready = [i \in Slots |-> <<>>]
  /\ accumulated = [i \in Slots |-> {}]
  /\ history = <<>>
  /\ height = 0
  /\ arrived = {}
  /\ batch = <<>>
  /\ queuedAt = [p \in Packages |-> Never]
  /\ reportedAt = [p \in Packages |-> Never]
  /\ accumulatedAt = [p \in Packages |-> Never]
  /\ refused = [stage \in Stages |-> 0]

\* The bound on refused blocks.
MayRefuse == refused["safrole"] + refused["assurances"] + refused["guarantees"] < MaxRefused

\* import_block: judged are the reports the disputes extrinsic found bad or
\* wonky.  A stage that meets an error changes nothing and the import goes on;
\* safrole is one of them, and it is safrole that advances tau.
ImportBlock(slot, tickets, judged, assurances, guarantees) ==
  LET rhoD      == RhoDagger(judged)
      rhoDD     == RhoDoubleDagger(rhoD, assurances, slot)
      refusing  == {stage \in Stages : ~ Accepts(stage, slot, tickets, rhoD, rhoDD,
                                                assurances, guarantees)}
      available == ReportsOn(rhoD, NowAvailable(rhoD, assurances))
      m         == slot % EpochLength
      queued    == Queued(available, accumulated)
      acc       == WithinGas(Accumulatable(available, ready, accumulated, m))
  IN  /\ refusing # {} => MayRefuse
      /\ refused' = [stage \in Stages |-> refused[stage] + (IF stage \in refusing THEN 1 ELSE 0)]
      /\ tau' = IF "safrole" \in refusing THEN tau ELSE slot
      /\ rho' = RhoPrime(rhoDD, guarantees, slot)
      /\ ready' = ShiftReady(ready, queued, ToSet(acc), m, (slot - tau) % SlotRange)
      /\ accumulated' = ShiftAccumulated(accumulated, ToSet(acc))
      /\ history' = PushHistory(guarantees)
      /\ height' = height + 1
      /\ arrived' = ToSet(available)
      /\ batch' = acc
      /\ queuedAt' = [p \in Packages |-> IF p \in PackageOf(queued) THEN slot ELSE queuedAt[p]]
      /\ reportedAt' = [p \in Packages |->
                          IF "guarantees" \notin refusing /\ p \in Incoming(guarantees)
                            THEN height + 1 ELSE reportedAt[p]]
      /\ accumulatedAt' = [p \in Packages |->
                             IF p \in ToSet(acc) THEN height + 1 ELSE accumulatedAt[p]]

AtBound == height = MaxHeight /\ UNCHANGED vars

Next ==
  \/ AtBound
  \/ /\ height < MaxHeight
     /\ \E gap \in Gaps, tickets \in BOOLEAN :
          /\ tau + gap \in 0..SlotRange - 1
          /\ gap > 0 \/ tickets   \* an old slot is refused whatever its tickets
          /\ MayRefuse \/ (tickets /\ gap > 0)
          /\ \E judged \in SUBSET {rho[c].pkg : c \in Engaged(rho)} :
             \E assurances \in AssuranceExtrinsics, guarantees \in GuaranteeExtrinsics :
               ImportBlock(tau + gap, tickets, judged, assurances, guarantees)

Spec == Init /\ [][Next]_vars

-----------------------------------------------------------------------------
(* Properties.                                                             *)

\* The state that ReportPipeline speaks of: rings forgotten, windows from stamps.
PackagesOnCores == [c \in Cores |-> IF rho[c] = NoReport THEN NoReport ELSE rho[c].pkg]
Entries == UNION {ToSet(ready[i]) : i \in Slots}

\* No block of the chain was refused by the stage.
Accepted(stage) == refused[stage] = 0

\* The rings hold a package once: in one entry of theta or in one bucket of
\* xi, and the block that accumulated it did so once.  Refused guarantees do
\* not change that; refused assurances do, and so does an old slot: both let a
\* report outlast beta on its core (block_import.rs 312-324, assurances.rs).
PackagesHeldOnce ==
  Accepted("assurances") /\ Accepted("safrole") =>
    /\ \A i, j \in Slots : i # j => accumulated[i] \cap accumulated[j] = {}
    /\ Xi(accumulated) \cap ReadyPackages = {}
    /\ \A i, j \in Slots : \A k \in DOMAIN ready[i], l \in DOMAIN ready[j] :
         ready[i][k].pkg = ready[j][l].pkg => i = j /\ k = l
    /\ \A k, l \in DOMAIN batch : batch[k] = batch[l] => k = l

\* A report that becomes available is accumulated by the block, in the ready
\* queue after it or one that xi already held, whatever the stages refused: the
\* gas bound, which forgets the candidates it cuts off, cuts none without
\* dependencies because those of all cores fit in a block.
AvailableIsKept ==
  [][arrived' \subseteq ReadyPackages' \cup Xi(accumulated') \cup Xi(accumulated)]_vars

\* Whatever the stages refused, a report is accumulated only after everything
\* it depends on, in an earlier block or before it in its own: what an entry of
\* theta no longer waits for has run, however long ago it was struck off.
DependenciesInOrder ==
  [][\A k \in DOMAIN batch' : \A q \in Deps[batch'[k]] :
       accumulatedAt[q] # Never \/ \E l \in 1..k - 1 : batch'[l] = q]_vars

\* Only gas keeps a report that lacks nothing in the ready queue, whatever the
\* stages refused.
OnlyGasDelays ==
  (\E e \in Entries : e.deps = {}) => GasOf(batch) + ReportGas > BlockGas

\* A package in theta was last queued less than EpochLength slots ago, and is
\* at the index of that slot: no index is reused before it was emptied.  Refused
\* assurances do not change that, although they let a package be queued twice;
\* a refused slot does, since theta is rotated for it and tau stays.
QueueLifetime ==
  Accepted("safrole") =>
    \A p \in ReadyPackages :
      /\ tau - queuedAt[p] < EpochLength
      /\ p \in PackageOf(ready[queuedAt[p] % EpochLength])

\* A package leaves theta only accumulated or EpochLength slots after it was
\* queued: emptying the indices of skipped slots takes no live one with them.
\* A block that safrole refuses does not advance tau, and the skipped slots are
\* counted again by the next (accumulate.rs 355, block_import.rs 282).
NoEarlyEviction ==
  [][Accepted("safrole")' =>
       \A p \in ReadyPackages : p \notin ReadyPackages' =>
         p \in ToSet(batch') \/ tau' - queuedAt[p] >= EpochLength]_vars
=============================================================================
