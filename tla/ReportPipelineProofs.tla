------------------------ MODULE ReportPipelineProofs ------------------------
(***************************************************************************)
(* Proofs about ReportPipeline, for every set of packages and cores, every *)
(* dependency relation and all windows that fit (WindowsFit).              *)
(***************************************************************************)
EXTENDS ReportPipeline, TLAPS

\* A package is on its way: on a core or in the ready queue.
OnItsWay(p) == p \in {rho[c] : c \in Cores} \cup PendingPackages

\* Stamps lie in the past, and a report on a core is younger than the timeout.
StampsInv ==
  /\ \A p \in Packages : reportedAt[p] <= height
  /\ \A p \in Packages : accumulatedAt[p] <= height /\ accumulatedAt[p] >= Never
  /\ \A c \in Cores : rho[c] # NoReport => reportedAt[rho[c]] > height - AssuranceTimeout

\* A package on its way has not been accumulated since it was reported.
FreshInv ==
  \A p \in Packages : OnItsWay(p) => accumulatedAt[p] < reportedAt[p]

\* What a report on a core depends on was in beta when it was guaranteed.
RecentDepsInv ==
  \A c \in Cores : rho[c] # NoReport =>
    \A q \in Deps[rho[c]] : reportedAt[q] >= reportedAt[rho[c]] - MaxHistory

\* What an entry lacks is among its dependencies; the rest was accumulated.
StruckOffInv ==
  \A e \in pending :
    /\ e.deps \subseteq Deps[e.pkg]
    /\ \A q \in Deps[e.pkg] \ e.deps : accumulatedAt[q] # Never

\* The inductive invariant.
Inv ==
  /\ TypeOK /\ StampsInv /\ OneStage /\ FreshInv /\ RecentDepsInv
  /\ StruckOffInv /\ NoForgottenDependency

LEMMA NeverType == Never \in Int /\ Never < 1 /\ Never <= 0 - EpochLength
BY WindowsFit DEF Never

\* The initial state satisfies the invariant.
LEMMA InitInv == Init => Inv
<1> SUFFICES ASSUME Init PROVE Inv
  OBVIOUS
<1>1. TypeOK
  BY PackageData, NeverType DEF Init, TypeOK
<1>2. PendingPackages = {} /\ \A c \in Cores : rho[c] = NoReport
  BY DEF Init, PendingPackages
<1>3. StampsInv
  BY <1>2, NeverType DEF Init, StampsInv
<1>4. \A p \in Packages : ~ OnItsWay(p)
  BY <1>2, PackageData DEF OnItsWay
<1>. QED
  BY <1>1, <1>2, <1>3, <1>4
  DEF Init, Inv, OneStage, FreshInv, RecentDepsInv, StruckOffInv, NoForgottenDependency

-----------------------------------------------------------------------------
(* What a block does, in terms of the packages it moves.                   *)

\* beta still holds every package that waits on a core, because the timeout
\* is not longer than beta.
LEMMA RhoInHistory ==
  ASSUME Inv, NEW c \in Cores, rho[c] # NoReport
  PROVE  rho[c] \in Packages /\ InHistory(rho[c])
<1>1. rho[c] \in Packages /\ reportedAt[rho[c]] \in Int /\ height \in Nat
  BY DEF Inv, TypeOK
<1>. QED
  BY <1>1, WindowsFit DEF Inv, StampsInv, InHistory

\* A guaranteed package is not on its way.
LEMMA GuaranteedIsNew ==
  ASSUME Inv, NEW new \in [Cores -> Packages \cup {NoReport}], NEW leaving \in SUBSET Cores,
         Guarantees(new, leaving), NEW p \in Guaranteed(new)
  PROVE  /\ p \in Packages /\ ~ InHistory(p) /\ ~ InAccumulated(p) /\ p \notin PendingPackages
         /\ \A c \in Cores : rho[c] # p
<1>1. p \in Packages /\ p # NoReport
  BY PackageData DEF Guaranteed
<1>2. ~ InHistory(p) /\ ~ InAccumulated(p) /\ p \notin PendingPackages
  BY DEF Guarantees
<1>. QED
  BY <1>1, <1>2, RhoInHistory

\* An entry queued by the block is an available report that xi lacks.
LEMMA QueuedEntry ==
  ASSUME Inv, NEW available \in SUBSET Cores, \A c \in available : rho[c] # NoReport,
         NEW e \in Queued(available)
  PROVE  \E c \in available :
           /\ rho[c] \in Packages
           /\ e = [pkg |-> rho[c], deps |-> {q \in Deps[rho[c]] : ~ InAccumulated(q)}]
BY DEF Queued, Inv, TypeOK

\* Only packages that are available or queued are accumulated.
LEMMA AccumulatedWasOnItsWay ==
  ASSUME Inv, NEW available \in SUBSET Cores, \A c \in available : rho[c] # NoReport,
         NEW acc \in SUBSET Packages, Accumulable(acc, available), NEW p \in acc
  PROVE  p \in PendingPackages \/ \E c \in available : rho[c] = p
<1>1. CASE \E c \in available : rho[c] = p /\ Deps[p] = {}
  BY <1>1
<1>2. CASE \E e \in pending \cup Queued(available) : e.pkg = p /\ e.deps \subseteq acc
  <2>1. PICK e \in pending \cup Queued(available) : e.pkg = p
    BY <1>2
  <2>2. CASE e \in pending
    BY <2>1, <2>2 DEF PendingPackages
  <2>3. CASE e \in Queued(available)
    BY <2>1, <2>3, QueuedEntry
  <2>. QED
    BY <2>2, <2>3
<1>. QED
  BY <1>1, <1>2 DEF Accumulable

\* An entry of the edited queue keeps its package and loses what was accumulated.
LEMMA EditedEntry ==
  ASSUME NEW entries, NEW acc, NEW e \in Edit(entries, acc)
  PROVE  \E f \in entries : /\ e = [pkg |-> f.pkg, deps |-> f.deps \ acc]
                            /\ f.pkg \notin acc
BY DEF Edit

-----------------------------------------------------------------------------
(* A block preserves the invariant.                                        *)

LEMMA BlockPreservesInv ==
  ASSUME Inv, NEW new \in [Cores -> Packages \cup {NoReport}], NEW available \in SUBSET Cores,
         NEW leaving \in SUBSET Cores, NEW acc \in SUBSET Packages, NEW kept \in SUBSET pending,
         ImportBlock(new, available, leaving, acc, kept)
  PROVE  Inv'
\* What the block does, in terms of the packages it moves.
<1> DEFINE fresh == Guaranteed(new)
           entries == pending \cup Queued(available)
<1>a. /\ TypeOK /\ StampsInv /\ OneStage /\ FreshInv /\ RecentDepsInv
      /\ StruckOffInv /\ NoForgottenDependency
  BY DEF Inv
<1>b. \A c \in available : c \in leaving /\ c \in Cores /\ rho[c] # NoReport
  BY DEF ImportBlock, Leaves
<1>c. ASSUME NEW p \in fresh
      PROVE  /\ p \in Packages /\ ~ InHistory(p) /\ ~ InAccumulated(p)
             /\ p \notin PendingPackages /\ \A c \in Cores : rho[c] # p
  BY GuaranteedIsNew DEF ImportBlock
<1>d. height' = height + 1 /\ height \in Nat
  BY <1>a DEF ImportBlock, TypeOK
<1>e. ASSUME NEW c \in Cores, rho'[c] # NoReport
      PROVE  \/ rho'[c] = new[c] /\ new[c] \in fresh
             \/ rho'[c] = rho[c] /\ c \notin leaving /\ rho[c] \notin fresh
  BY <1>c, <1>e DEF ImportBlock, Guaranteed
<1>f. ASSUME NEW e \in Queued(available)
      PROVE  \E c \in available :
               /\ rho[c] \in Packages
               /\ e = [pkg |-> rho[c], deps |-> {q \in Deps[rho[c]] : ~ InAccumulated(q)}]
  BY <1>b, QueuedEntry
<1>g. ASSUME NEW e \in pending'
      PROVE  \E f \in entries : e = [pkg |-> f.pkg, deps |-> f.deps \ acc] /\ f.pkg \notin acc
  BY <1>g, EditedEntry DEF ImportBlock
<1>h. ASSUME NEW f \in entries
      PROVE  /\ f.pkg \in Packages /\ f.deps \subseteq Deps[f.pkg]
             /\ f.pkg \notin fresh /\ ~ InAccumulated(f.pkg) /\ OnItsWay(f.pkg)
             /\ \A c \in Cores : rho[c] = f.pkg => c \in available
  <2>1. CASE f \in pending
    <3>1. f.pkg \in PendingPackages
      BY <2>1 DEF PendingPackages
    <3>2. f.pkg \in Packages /\ f.deps \subseteq Deps[f.pkg]
      BY <1>a, <2>1 DEF TypeOK, StruckOffInv
    <3>. QED
      BY <1>a, <1>c, <3>1, <3>2, PackageData DEF OneStage, OnItsWay
  <2>2. CASE f \in Queued(available)
    <3>1. PICK c \in available :
            /\ rho[c] \in Packages
            /\ f = [pkg |-> rho[c], deps |-> {q \in Deps[rho[c]] : ~ InAccumulated(q)}]
      BY <1>f, <2>2
    <3>2. f.pkg = rho[c] /\ c \in Cores /\ rho[c] # NoReport /\ f.deps \subseteq Deps[f.pkg]
      BY <3>1, <1>b
    <3>. QED
      BY <1>a, <1>c, <3>1, <3>2 DEF OneStage, OnItsWay
  <2>. QED
    BY <2>1, <2>2
<1>i. ASSUME NEW p \in Packages
      PROVE  /\ reportedAt'[p] = IF p \in fresh THEN height + 1 ELSE reportedAt[p]
             /\ accumulatedAt'[p] = IF p \in acc THEN height + 1 ELSE accumulatedAt[p]
  BY DEF ImportBlock
<1>j. ASSUME NEW p \in acc
      PROVE  /\ p \in PendingPackages \/ \E c \in available : rho[c] = p
             /\ p \notin fresh
  BY <1>b, <1>c, AccumulatedWasOnItsWay DEF ImportBlock
<1> HIDE DEF fresh, entries

<1>1. TypeOK'
  <2>1. rho' \in [Cores -> Packages \cup {NoReport}]
    BY <1>a DEF ImportBlock, TypeOK
  <2>2. reportedAt' \in [Packages -> Int] /\ accumulatedAt' \in [Packages -> Int] /\ height' \in Nat
    BY <1>a DEF ImportBlock, TypeOK
  <2>3. ASSUME NEW e \in pending' PROVE e \in [pkg : Packages, deps : SUBSET Packages]
    <3>1. PICK f \in entries : e = [pkg |-> f.pkg, deps |-> f.deps \ acc]
      BY <1>g
    <3>2. f.pkg \in Packages /\ f.deps \in SUBSET Packages
      BY <1>h, PackageData
    <3>. QED
      BY <3>1, <3>2
  <2>. QED
    BY <2>1, <2>2, <2>3 DEF TypeOK

\* The block takes every timed-out report off its core.
<1>2. StampsInv'
  <2>1. ASSUME NEW p \in Packages
        PROVE  /\ reportedAt'[p] <= height' /\ accumulatedAt'[p] <= height'
               /\ accumulatedAt'[p] >= Never
    <3>1. /\ reportedAt[p] \in Int /\ reportedAt[p] <= height
          /\ accumulatedAt[p] \in Int /\ accumulatedAt[p] <= height /\ accumulatedAt[p] >= Never
      BY <1>a DEF TypeOK, StampsInv
    <3>. QED
      BY <3>1, <1>d, <1>i, NeverType
  <2>2. ASSUME NEW c \in Cores, rho'[c] # NoReport
        PROVE  reportedAt'[rho'[c]] > height' - AssuranceTimeout
    <3>1. CASE rho'[c] = new[c] /\ new[c] \in fresh
      <4>1. reportedAt'[rho'[c]] = height + 1
        BY <3>1, <1>c, <1>i
      <4>. QED
        BY <4>1, <1>d, WindowsFit
    <3>2. CASE rho'[c] = rho[c] /\ c \notin leaving /\ rho[c] \notin fresh
      <4>1. rho[c] \in Packages /\ rho[c] # NoReport /\ reportedAt[rho[c]] \in Int
        BY <3>2, <1>a, <2>2 DEF TypeOK
      <4>2. ~ (reportedAt[rho[c]] + AssuranceTimeout <= height + 1)
        BY <3>2, <4>1 DEF ImportBlock, Leaves, TimedOut
      <4>3. reportedAt'[rho'[c]] = reportedAt[rho[c]]
        BY <4>1, <3>2, <1>i
      <4>. QED
        BY <4>1, <4>2, <4>3, <1>d, WindowsFit
    <3>. QED
      BY <2>2, <3>1, <3>2, <1>e
  <2>. QED
    BY <2>1, <2>2 DEF StampsInv

\* Guarantees are of packages nowhere on their way, and what leaves a core or
\* the queue goes to one place.
<1>3. OneStage'
  <2> DEFINE OutOfXi(p) == ~ (accumulatedAt'[p] > height' - EpochLength)
  <2>1. ASSUME NEW c \in Cores, NEW d \in Cores, rho'[c] # NoReport, rho'[c] = rho'[d]
        PROVE  c = d
    <3>1. CASE rho'[c] = new[c] /\ new[c] \in fresh /\ rho'[d] = new[d]
      BY <2>1, <3>1 DEF ImportBlock, Guarantees
    <3>2. CASE rho'[c] = rho[c] /\ rho'[d] = rho[d]
      BY <2>1, <3>2, <1>a DEF OneStage
    <3>. QED
      BY <2>1, <3>1, <3>2, <1>e, <1>c
  <2>2. ASSUME NEW p \in Packages, ~ InAccumulated(p), p \notin acc
        PROVE  OutOfXi(p)
    <3>1. accumulatedAt'[p] = accumulatedAt[p] /\ accumulatedAt[p] \in Int
      BY <2>2, <1>a, <1>i DEF TypeOK
    <3>. QED
      BY <2>2, <3>1, <1>d, WindowsFit DEF InAccumulated
  <2>3. ASSUME NEW e \in pending' PROVE e.pkg \in Packages /\ OutOfXi(e.pkg)
    <3>1. PICK f \in entries : e = [pkg |-> f.pkg, deps |-> f.deps \ acc] /\ f.pkg \notin acc
      BY <1>g
    <3>2. e.pkg = f.pkg /\ f.pkg \in Packages /\ ~ InAccumulated(f.pkg)
      BY <3>1, <1>h
    <3>. QED
      BY <3>1, <3>2, <2>2
  <2>4. ASSUME NEW c \in Cores, rho'[c] # NoReport
        PROVE  rho'[c] \notin PendingPackages' /\ OutOfXi(rho'[c])
    <3>1. rho'[c] \in Packages /\ rho'[c] \notin acc /\ ~ InAccumulated(rho'[c])
      <4>1. CASE rho'[c] = new[c] /\ new[c] \in fresh
        BY <4>1, <1>c, <1>j
      <4>2. CASE rho'[c] = rho[c] /\ c \notin leaving
        <5>1. rho[c] \in Packages /\ ~ InAccumulated(rho[c]) /\ rho[c] \notin PendingPackages
          BY <2>4, <4>2, <1>a DEF TypeOK, OneStage
        <5>2. \A d \in available : rho[d] # rho[c]
          BY <2>4, <4>2, <1>a, <1>b DEF OneStage
        <5>. QED
          BY <4>2, <5>1, <5>2, <1>j
      <4>. QED
        BY <2>4, <4>1, <4>2, <1>e
    <3>2. ASSUME NEW e \in pending' PROVE e.pkg # rho'[c]
      <4>1. PICK f \in entries : e = [pkg |-> f.pkg, deps |-> f.deps \ acc]
        BY <1>g
      <4>2. e.pkg = f.pkg /\ f.pkg \notin fresh /\ (rho[c] = f.pkg => c \in leaving)
        BY <4>1, <1>b, <1>h
      <4>. QED
        BY <2>4, <4>2, <1>e
    <3>3. rho'[c] \notin PendingPackages'
      BY <3>2 DEF PendingPackages
    <3>. QED
      BY <2>2, <3>1, <3>3
  <2>5. ASSUME NEW f \in entries, NEW g \in entries, f.pkg = g.pkg PROVE f = g
    <3>1. CASE f \in pending /\ g \in pending
      BY <2>5, <3>1, <1>a DEF OneStage
    <3>2. ASSUME NEW x \in pending, NEW y \in Queued(available) PROVE x.pkg # y.pkg
      <4>1. PICK c \in available :
              y = [pkg |-> rho[c], deps |-> {q \in Deps[rho[c]] : ~ InAccumulated(q)}]
        BY <1>f
      <4>2. y.pkg = rho[c] /\ c \in Cores /\ rho[c] # NoReport /\ x.pkg \in PendingPackages
        BY <4>1, <1>b DEF PendingPackages
      <4>. QED
        BY <4>2, <1>a DEF OneStage
    <3>3. CASE f \in Queued(available) /\ g \in Queued(available)
      <4>1. PICK c \in available :
              f = [pkg |-> rho[c], deps |-> {q \in Deps[rho[c]] : ~ InAccumulated(q)}]
        BY <3>3, <1>f
      <4>2. PICK d \in available :
              g = [pkg |-> rho[d], deps |-> {q \in Deps[rho[d]] : ~ InAccumulated(q)}]
        BY <3>3, <1>f
      <4>3. rho[c] = rho[d]
        BY <2>5, <4>1, <4>2
      <4>. QED
        BY <4>1, <4>2, <4>3
    <3>. QED
      BY <2>5, <3>1, <3>2, <3>3 DEF entries
  <2>6. ASSUME NEW e \in pending', NEW f \in pending', e.pkg = f.pkg PROVE e = f
    <3>1. PICK x \in entries : e = [pkg |-> x.pkg, deps |-> x.deps \ acc]
      BY <1>g
    <3>2. PICK y \in entries : f = [pkg |-> y.pkg, deps |-> y.deps \ acc]
      BY <1>g
    <3>3. x.pkg = y.pkg
      BY <2>6, <3>1, <3>2
    <3>. QED
      BY <3>1, <3>2, <3>3, <2>5
  <2>7. \A p \in PendingPackages' : OutOfXi(p)
    BY <2>3 DEF PendingPackages
  <2>. QED
    BY <2>1, <2>4, <2>6, <2>7 DEF OneStage, InAccumulated

\* A package on its way was reported in this block, or it was on its way
\* before and this block did not accumulate it.
<1>4. FreshInv'
  <2> SUFFICES ASSUME NEW p \in Packages, OnItsWay(p)'
               PROVE  accumulatedAt'[p] < reportedAt'[p]
    BY DEF FreshInv
  <2>1. accumulatedAt[p] \in Int /\ reportedAt[p] \in Int /\ accumulatedAt[p] <= height
    BY <1>a DEF TypeOK, StampsInv
  <2>2. CASE p \in fresh
    BY <2>1, <2>2, <1>d, <1>i, <1>j
  <2>3. CASE p \notin fresh /\ OnItsWay(p) /\ p \notin acc
    BY <2>1, <2>3, <1>a, <1>i DEF FreshInv
  <2>4. CASE \E c \in Cores : p = rho'[c]
    <3>1. PICK c \in Cores : p = rho'[c] /\ rho'[c] # NoReport
      BY <2>4, PackageData
    <3>2. CASE rho'[c] = rho[c] /\ c \notin leaving /\ rho[c] \notin fresh
      <4>1. \A d \in available : rho[d] # p
        BY <3>1, <3>2, <1>a, <1>b DEF OneStage
      <4>2. p \notin PendingPackages
        BY <3>1, <3>2, <1>a DEF OneStage
      <4>3. OnItsWay(p)
        BY <3>1, <3>2 DEF OnItsWay
      <4>. QED
        BY <2>3, <3>1, <3>2, <4>1, <4>2, <4>3, <1>j
    <3>. QED
      BY <2>2, <3>1, <3>2, <1>e
  <2>5. CASE p \in PendingPackages'
    <3>1. PICK e \in pending' : e.pkg = p
      BY <2>5 DEF PendingPackages
    <3>2. PICK f \in entries : e = [pkg |-> f.pkg, deps |-> f.deps \ acc] /\ f.pkg \notin acc
      BY <1>g
    <3>3. f.pkg = p
      BY <3>1, <3>2
    <3>. QED
      BY <2>3, <3>2, <3>3, <1>h
  <2>. QED
    BY <2>4, <2>5 DEF OnItsWay

\* A dependency of a guarantee is in beta or in the same block; stamps only grow.
<1>5. RecentDepsInv'
  <2> SUFFICES ASSUME NEW c \in Cores, rho'[c] # NoReport, NEW q \in Deps[rho'[c]]
               PROVE  reportedAt'[q] >= reportedAt'[rho'[c]] - MaxHistory
    BY DEF RecentDepsInv
  <2>1. rho'[c] \in Packages /\ q \in Packages
    BY <1>1, PackageData DEF TypeOK
  <2>2. /\ reportedAt[q] \in Int /\ reportedAt[q] <= height
        /\ reportedAt[rho'[c]] \in Int
    BY <2>1, <1>a DEF TypeOK, StampsInv
  <2>3. CASE rho'[c] = new[c] /\ new[c] \in fresh
    <3>1. reportedAt'[rho'[c]] = height + 1
      BY <2>1, <2>3, <1>i
    <3>2. InHistory(q) \/ q \in fresh
      BY <2>3 DEF ImportBlock, Guarantees, fresh
    <3>3. CASE q \in fresh
      BY <2>1, <2>2, <3>1, <3>3, <1>d, <1>i, WindowsFit
    <3>4. CASE InHistory(q) /\ q \notin fresh
      <4>1. reportedAt'[q] = reportedAt[q] /\ reportedAt[q] > height - MaxHistory
        BY <2>1, <3>4, <1>i DEF InHistory
      <4>. QED
        BY <2>2, <3>1, <4>1, <1>d, WindowsFit
    <3>. QED
      BY <3>2, <3>3, <3>4
  <2>4. CASE rho'[c] = rho[c] /\ rho[c] \notin fresh
    <3>1. reportedAt[q] >= reportedAt[rho'[c]] - MaxHistory
      BY <2>4, <1>a DEF RecentDepsInv
    <3>2. reportedAt'[rho'[c]] = reportedAt[rho'[c]]
      BY <2>1, <2>4, <1>i
    <3>. QED
      BY <2>1, <2>2, <3>1, <3>2, <1>d, <1>i, WindowsFit
  <2>. QED
    BY <2>3, <2>4, <1>e

\* What is struck off an entry is in xi or accumulated by the block.
<1>6. StruckOffInv'
  <2> SUFFICES ASSUME NEW e \in pending'
               PROVE  /\ e.deps \subseteq Deps[e.pkg]
                      /\ \A q \in Deps[e.pkg] \ e.deps : accumulatedAt'[q] # Never
    BY DEF StruckOffInv
  <2>1. PICK f \in entries : e = [pkg |-> f.pkg, deps |-> f.deps \ acc]
    BY <1>g
  <2>2. /\ e.pkg = f.pkg /\ e.deps = f.deps \ acc
        /\ f.pkg \in Packages /\ f.deps \subseteq Deps[f.pkg]
    BY <2>1, <1>h
  <2>3. ASSUME NEW q \in Deps[f.pkg], q \notin e.deps PROVE accumulatedAt'[q] # Never
    <3>1. q \in Packages /\ accumulatedAt[q] \in Int
      BY <2>2, <1>a, PackageData DEF TypeOK
    <3>2. CASE q \in acc
      BY <3>1, <3>2, <1>d, <1>i, NeverType
    <3>3. CASE q \notin f.deps
      <4>1. accumulatedAt[q] # Never
        <5>1. CASE f \in pending
          BY <3>3, <5>1, <1>a DEF StruckOffInv
        <5>2. CASE f \in Queued(available)
          <6>1. PICK d \in available :
                  f = [pkg |-> rho[d], deps |-> {x \in Deps[rho[d]] : ~ InAccumulated(x)}]
            BY <5>2, <1>f
          <6>2. InAccumulated(q)
            BY <2>3, <3>3, <6>1
          <6>. QED
            BY <3>1, <6>2, <1>d, NeverType, WindowsFit DEF InAccumulated
        <5>. QED
          BY <5>1, <5>2 DEF entries
      <4>. QED
        BY <3>1, <4>1, <1>d, <1>i, NeverType
    <3>. QED
      BY <2>2, <2>3, <3>2, <3>3
  <2>. QED
    BY <2>2, <2>3

\* A dependency of a report that leaves its core was reported at most
\* MaxHistory + AssuranceTimeout blocks ago: if it has been accumulated since,
\* xi still holds it and the new entry does not wait for it.
<1>7. NoForgottenDependency'
  <2> SUFFICES ASSUME NEW e \in pending', NEW q \in e.deps, accumulatedAt'[q] > reportedAt'[q]
               PROVE  FALSE
    BY DEF NoForgottenDependency, Done
  <2>1. PICK f \in entries : e = [pkg |-> f.pkg, deps |-> f.deps \ acc]
    BY <1>g
  <2>2. q \in f.deps /\ q \notin acc /\ q \in Packages
    BY <2>1, <1>h, PackageData
  <2>3. /\ accumulatedAt[q] \in Int /\ reportedAt[q] \in Int /\ reportedAt[q] <= height
        /\ accumulatedAt[q] > reportedAt[q]
    BY <2>2, <1>a, <1>d, <1>i DEF TypeOK, StampsInv
  <2>4. CASE f \in pending
    BY <2>2, <2>3, <2>4, <1>a DEF NoForgottenDependency, Done
  <2>5. CASE f \in Queued(available)
    <3>1. PICK d \in available :
            /\ rho[d] \in Packages
            /\ f = [pkg |-> rho[d], deps |-> {x \in Deps[rho[d]] : ~ InAccumulated(x)}]
      BY <2>5, <1>f
    <3>2. d \in Cores /\ rho[d] # NoReport /\ q \in Deps[rho[d]] /\ ~ InAccumulated(q)
      BY <2>2, <3>1, <1>b
    <3>3. reportedAt[q] >= reportedAt[rho[d]] - MaxHistory
      BY <3>2, <1>a DEF RecentDepsInv
    <3>4. reportedAt[rho[d]] \in Int /\ reportedAt[rho[d]] > height - AssuranceTimeout
      BY <3>1, <3>2, <1>a DEF TypeOK, StampsInv
    <3>5. ~ (accumulatedAt[q] > height - EpochLength)
      BY <3>2 DEF InAccumulated
    <3>. QED
      BY <2>3, <3>3, <3>4, <3>5, <1>d, WindowsFit
  <2>. QED
    BY <2>4, <2>5 DEF entries
<1>. QED
  BY <1>1, <1>2, <1>3, <1>4, <1>5, <1>6, <1>7 DEF Inv

\* Every step preserves the invariant.
LEMMA NextInv == Inv /\ [Next]_vars => Inv'
<1> SUFFICES ASSUME Inv, [Next]_vars PROVE Inv'
  OBVIOUS
<1>1. CASE UNCHANGED vars
  BY <1>1
  DEF vars, Inv, TypeOK, StampsInv, OneStage, FreshInv, RecentDepsInv, StruckOffInv,
      NoForgottenDependency, OnItsWay, PendingPackages, InAccumulated, Done
<1>2. CASE Next
  BY <1>1, <1>2, BlockPreservesInv DEF Next, AtBound
<1>. QED
  BY <1>1, <1>2

\* The invariant holds throughout.
THEOREM Invariance == Spec => []Inv
BY InitInv, NextInv, PTL DEF Spec

-----------------------------------------------------------------------------
(* What a reader should know of.                                           *)

\* The abstract state is always well typed.
THEOREM TypeCorrect == Spec => []TypeOK
<1>1. Inv => TypeOK
  BY DEF Inv
<1>. QED
  BY <1>1, Invariance, PTL

\* A package is on one core, or in one queue entry, or accumulated, never two
\* of these, although guarantees are not checked against rho.
THEOREM StagesAreExclusive == Spec => []OneStage
<1>1. Inv => OneStage
  BY DEF Inv
<1>. QED
  BY <1>1, Invariance, PTL

\* xi remembers long enough: no queued report waits for an accumulated one.
THEOREM DependenciesRemembered == Spec => []NoForgottenDependency
<1>1. Inv => NoForgottenDependency
  BY DEF Inv
<1>. QED
  BY <1>1, Invariance, PTL

\* A report is accumulated at most once, and its package not again within xi.
THEOREM AccumulatedOncePerReport == Spec => OncePerReport
<1> DEFINE Step == \A p \in Packages : accumulatedAt'[p] # accumulatedAt[p] =>
                     /\ accumulatedAt[p] < reportedAt[p]
                     /\ accumulatedAt'[p] - accumulatedAt[p] > EpochLength
<1>1. Inv /\ [Next]_vars => [Step]_vars
  <2> SUFFICES ASSUME Inv, Next PROVE [Step]_vars
    OBVIOUS
  <2>1. ASSUME NEW new \in [Cores -> Packages \cup {NoReport}], NEW available \in SUBSET Cores,
               NEW leaving \in SUBSET Cores, NEW acc \in SUBSET Packages,
               NEW kept \in SUBSET pending,
               ImportBlock(new, available, leaving, acc, kept)
        PROVE  Step
    <3> SUFFICES ASSUME NEW p \in Packages, accumulatedAt'[p] # accumulatedAt[p]
                 PROVE  /\ accumulatedAt[p] < reportedAt[p]
                        /\ accumulatedAt'[p] - accumulatedAt[p] > EpochLength
      OBVIOUS
    <3>1. p \in acc /\ accumulatedAt'[p] = height + 1
      BY <2>1 DEF ImportBlock
    <3>2. \A c \in available : rho[c] # NoReport
      BY <2>1 DEF ImportBlock, Leaves
    <3>3. p \in PendingPackages \/ \E c \in available : rho[c] = p
      BY <2>1, <3>1, <3>2, AccumulatedWasOnItsWay DEF ImportBlock
    <3>4. OnItsWay(p) /\ ~ InAccumulated(p)
      BY <3>2, <3>3 DEF OnItsWay, Inv, OneStage
    <3>5. accumulatedAt[p] < reportedAt[p]
      BY <3>4 DEF Inv, FreshInv
    <3>6. accumulatedAt[p] \in Int /\ height \in Nat
      BY DEF Inv, TypeOK
    <3>. QED
      BY <3>1, <3>4, <3>5, <3>6, WindowsFit DEF InAccumulated
  <2>. QED
    BY <2>1 DEF Next, AtBound
<1>. QED
  BY <1>1, Invariance, PTL DEF Spec, OncePerReport

\* Dependencies are accumulated first.
THEOREM DependencyOrder == Spec => DependenciesFirst
<1> DEFINE Step == \A p \in Packages : accumulatedAt'[p] # accumulatedAt[p] =>
                     \A q \in Deps[p] : accumulatedAt'[q] # Never
<1>1. Inv /\ [Next]_vars => [Step]_vars
  <2> SUFFICES ASSUME Inv, Next PROVE [Step]_vars
    OBVIOUS
  <2>1. ASSUME NEW new \in [Cores -> Packages \cup {NoReport}], NEW available \in SUBSET Cores,
               NEW leaving \in SUBSET Cores, NEW acc \in SUBSET Packages,
               NEW kept \in SUBSET pending,
               ImportBlock(new, available, leaving, acc, kept)
        PROVE  Step
    <3> SUFFICES ASSUME NEW p \in Packages, accumulatedAt'[p] # accumulatedAt[p],
                        NEW q \in Deps[p]
                 PROVE  accumulatedAt'[q] # Never
      OBVIOUS
    <3>1. p \in acc /\ q \in Packages /\ height \in Nat /\ accumulatedAt[q] \in Int
      BY <2>1, PackageData DEF ImportBlock, Inv, TypeOK
    <3>2. accumulatedAt'[q] = IF q \in acc THEN height + 1 ELSE accumulatedAt[q]
      BY <2>1, <3>1 DEF ImportBlock
    <3>3. PICK e \in pending \cup Queued(available) : e.pkg = p /\ e.deps \subseteq acc
      BY <2>1, <3>1 DEF ImportBlock, Accumulable
    <3>4. CASE q \in acc
      BY <3>1, <3>2, <3>4, NeverType
    <3>5. CASE q \notin e.deps /\ q \notin acc
      <4>1. CASE e \in pending
        BY <3>2, <3>3, <3>5, <4>1 DEF Inv, StruckOffInv
      <4>2. CASE e \in Queued(available)
        <5>1. \A c \in available : rho[c] # NoReport
          BY <2>1 DEF ImportBlock, Leaves
        <5>2. PICK c \in available :
                e = [pkg |-> rho[c], deps |-> {x \in Deps[rho[c]] : ~ InAccumulated(x)}]
          BY <4>2, <5>1, QueuedEntry
        <5>3. InAccumulated(q)
          BY <3>3, <3>5, <5>2
        <5>. QED
          BY <3>1, <3>2, <3>5, <5>3, NeverType, WindowsFit DEF InAccumulated
      <4>. QED
        BY <3>3, <4>1, <4>2
    <3>. QED
      BY <3>3, <3>4, <3>5
  <2>. QED
    BY <2>1 DEF Next, AtBound
<1>. QED
  BY <1>1, Invariance, PTL DEF Spec, DependenciesFirst
=============================================================================
