--------------------------- MODULE ReportPipeline ---------------------------
(***************************************************************************)
(* What block import promises about a work package: guaranteed on a core,  *)
(* made available, queued until its dependencies are in, accumulated once. *)
(*                                                                         *)
(* This is the abstract specification WorkReports implements.  It has no   *)
(* ring buffers: the recent history beta and the accumulated set xi are    *)
(* windows over the blocks at which a package was last reported and last   *)
(* accumulated, and which of the ready reports fit in a block is left      *)
(* open.  A block whose extrinsics are all valid is one step.              *)
(***************************************************************************)
EXTENDS Integers

CONSTANTS
  Packages,          \* work-package hashes
  CoreCount,         \* number of cores (2)
  NoReport,          \* rho[c] of a free core
  Deps,              \* prerequisites and segment lookups: [Packages -> SUBSET Packages]
  EpochLength,       \* blocks xi remembers (12 in the code)
  MaxHistory,        \* blocks beta remembers (8)
  AssuranceTimeout,  \* slots a report may wait on its core (5)
  MaxHeight          \* bound on height, for model checking

VARIABLES
  height,            \* blocks imported
  rho,               \* the package each core waits to become available
  pending,           \* reports in the ready queue with the dependencies they lack
  reportedAt,        \* block at which a package was last guaranteed
  accumulatedAt      \* block at which a package was last accumulated

Cores == 0..CoreCount - 1

vars == <<height, rho, pending, reportedAt, accumulatedAt>>

\* The windows must fit: while a report waits on its core beta still rejects
\* its package, and when it leaves the core xi still holds every dependency
\* that was reported late enough to be in beta when it was guaranteed.
\* The code's constants meet both: 5 <= 8 and, exactly, 8 + 5 = 12 + 1.
ASSUME WindowsFit ==
  /\ EpochLength \in Nat \ {0} /\ MaxHistory \in Nat /\ AssuranceTimeout \in Nat \ {0}
  /\ AssuranceTimeout <= MaxHistory
  /\ MaxHistory + AssuranceTimeout <= EpochLength + 1

ASSUME PackageData ==
  /\ NoReport \notin Packages
  /\ Deps \in [Packages -> SUBSET Packages]

\* Stamp of what never happened, outside every window.
Never == 0 - (EpochLength + MaxHistory)

\* p is in one of the blocks of beta; p is in one of the buckets of xi.
InHistory(p) == reportedAt[p] > height - MaxHistory
InAccumulated(p) == accumulatedAt[p] > height - EpochLength

\* The last report of p has been accumulated.
Done(p) == accumulatedAt[p] > reportedAt[p]

PendingPackages == {e.pkg : e \in pending}

Init ==
  /\ height = 0
  /\ rho = [c \in Cores |-> NoReport]
  /\ pending = {}
  /\ reportedAt = [p \in Packages |-> Never]
  /\ accumulatedAt = [p \in Packages |-> Never]

-----------------------------------------------------------------------------
(* One block.                                                              *)

\* Cores whose report has waited AssuranceTimeout blocks at this block.
TimedOut == {c \in Cores : rho[c] # NoReport /\ reportedAt[rho[c]] + AssuranceTimeout <= height + 1}

\* leaving: the cores that lose their report in this block, to availability,
\* to a verdict or to the timeout; the timeout spares none.
Leaves(available, leaving) ==
  /\ available \subseteq leaving
  /\ TimedOut \subseteq leaving
  /\ \A c \in leaving : rho[c] # NoReport

\* new: the package guaranteed on each core.
Guaranteed(new) == {new[c] : c \in Cores} \ {NoReport}

\* The guarantees of a block: on free cores, of packages that beta, xi and
\* the ready queue do not hold, no package twice, dependencies resolvable.
Guarantees(new, leaving) ==
  /\ \A c \in Cores : new[c] # NoReport => rho[c] = NoReport \/ c \in leaving
  /\ \A c, d \in Cores : new[c] # NoReport /\ new[c] = new[d] => c = d
  /\ \A p \in Guaranteed(new) :
       /\ ~ InHistory(p) /\ ~ InAccumulated(p) /\ p \notin PendingPackages
       /\ \A q \in Deps[p] : InHistory(q) \/ q \in Guaranteed(new)

\* The available reports that have dependencies, with those xi does not hold.
Queued(available) ==
  {[pkg |-> p, deps |-> {q \in Deps[p] : ~ InAccumulated(q)}] :
     p \in {rho[c] : c \in {d \in available :
                             Deps[rho[d]] # {} /\ ~ InAccumulated(rho[d])}}}

\* acc: the packages the block accumulates.  Reports without dependencies are
\* among them at once, and a report is only if everything it lacks is too.
Accumulable(acc, available) ==
  /\ \A c \in available : Deps[rho[c]] = {} => rho[c] \in acc
  /\ \A p \in acc :
       \/ \E c \in available : rho[c] = p /\ Deps[p] = {}
       \/ \E e \in pending \cup Queued(available) : e.pkg = p /\ e.deps \subseteq acc

\* The ready queue forgets what was accumulated and what was waited for.
Edit(entries, acc) ==
  {[pkg |-> e.pkg, deps |-> e.deps \ acc] : e \in {f \in entries : f.pkg \notin acc}}

\* kept: the entries that have not yet been evicted from the ready queue.
ImportBlock(new, available, leaving, acc, kept) ==
  /\ height < MaxHeight
  /\ Leaves(available, leaving)
  /\ Guarantees(new, leaving)
  /\ Accumulable(acc, available)
  /\ height' = height + 1
  /\ rho' = [c \in Cores |-> IF new[c] # NoReport THEN new[c]
                             ELSE IF c \in leaving THEN NoReport ELSE rho[c]]
  /\ pending' = Edit(kept \cup Queued(available), acc)
  /\ reportedAt' = [p \in Packages |->
                      IF p \in Guaranteed(new) THEN height + 1 ELSE reportedAt[p]]
  /\ accumulatedAt' = [p \in Packages |->
                         IF p \in acc THEN height + 1 ELSE accumulatedAt[p]]

\* The bound of the model ends the chain, not the program.
AtBound == height = MaxHeight /\ UNCHANGED vars

Next ==
  \/ AtBound
  \/ \E new \in [Cores -> Packages \cup {NoReport}], available \in SUBSET Cores :
     \E leaving \in SUBSET Cores, acc \in SUBSET Packages, kept \in SUBSET pending :
       ImportBlock(new, available, leaving, acc, kept)

Spec == Init /\ [][Next]_vars

-----------------------------------------------------------------------------
(* Properties.                                                             *)

\* Types of the abstract state.
TypeOK ==
  /\ height \in Nat
  /\ rho \in [Cores -> Packages \cup {NoReport}]
  /\ pending \subseteq [pkg : Packages, deps : SUBSET Packages]
  /\ reportedAt \in [Packages -> Int]
  /\ accumulatedAt \in [Packages -> Int]

\* A package is in one place: on one core, or in one entry of the ready
\* queue, or among the accumulated.  Guarantees are not checked against rho
\* itself; that beta outlasts the timeout is what keeps rho free of duplicates.
OneStage ==
  /\ \A c, d \in Cores : rho[c] # NoReport /\ rho[c] = rho[d] => c = d
  /\ \A c \in Cores : rho[c] # NoReport =>
       rho[c] \notin PendingPackages /\ ~ InAccumulated(rho[c])
  /\ \A e, f \in pending : e.pkg = f.pkg => e = f
  /\ \A p \in PendingPackages : ~ InAccumulated(p)

\* No entry of the ready queue waits for a package whose last report has been
\* accumulated: xi does not forget a dependency before its dependent is queued.
NoForgottenDependency == \A e \in pending : \A p \in e.deps : ~ Done(p)

\* A package is accumulated only if it was reported since it was last
\* accumulated, and not again while xi remembers it.
OncePerReport ==
  [][\A p \in Packages : accumulatedAt'[p] # accumulatedAt[p] =>
       /\ accumulatedAt[p] < reportedAt[p]
       /\ accumulatedAt'[p] - accumulatedAt[p] > EpochLength]_vars

\* A package is accumulated only in or after the block that accumulated its
\* dependencies, however long ago each of them was struck off its entry.
DependenciesFirst ==
  [][\A p \in Packages : accumulatedAt'[p] # accumulatedAt[p] =>
       \A q \in Deps[p] : accumulatedAt'[q] # Never]_vars
=============================================================================
