--------------------------- MODULE DisputesProofs ---------------------------
(***************************************************************************)
(* Proofs about Disputes, for every set of reports, keys and extrinsics.   *)
(***************************************************************************)
EXTENDS Disputes, FiniteSetTheorems, TLAPS

\* A set whose elements are all equal has at most one: how often a strictly
\* ascending sequence can hold a value.
LEMMA AtMostOneElement ==
  ASSUME NEW S, \A x, y \in S : x = y
  PROVE  Cardinality(S) = IF S = {} THEN 0 ELSE 1
<1>1. CASE S = {}
  BY <1>1, FS_EmptySet
<1>2. CASE S # {}
  <2>1. PICK x \in S : TRUE
    BY <1>2
  <2>2. S = {x}
    BY <2>1
  <2>. QED
    BY <2>2, FS_Singleton, <1>2
<1>. QED
  BY <1>1, <1>2

\* A set of positions of a sequence can be counted.
LEMMA CountOfPositions ==
  ASSUME NEW T, NEW s \in Seq(T), NEW P \in SUBSET DOMAIN s
  PROVE  Cardinality(P) \in Nat
<1>1. DOMAIN s = 1..Len(s) /\ Len(s) \in Nat
  OBVIOUS
<1>2. IsFiniteSet(DOMAIN s)
  BY <1>1, FS_Interval
<1>. QED
  BY <1>2, FS_Subset, FS_CardinalityType

\* The vectors of psi' count hashes: Judged has the type of psi.
LEMMA JudgedType ==
  ASSUME TypeOK, NEW ext \in Extrinsics
  PROVE  Judged(ext) \in [Kinds -> [Reports -> Nat]]
<1>1. ext.verdicts \in Seq(Verdict)
  BY DisputesConstants DEF DisputesExtrinsic
<1>2. ASSUME NEW k \in Kinds, NEW r \in Reports
      PROVE  verdicts[k][r] + Cardinality(Findings(ext, k, r)) \in Nat
  <2>1. Cardinality(Findings(ext, k, r)) \in Nat
    BY <1>1, CountOfPositions DEF Findings
  <2>2. verdicts[k][r] \in Nat
    BY DEF TypeOK
  <2>. QED
    BY <2>1, <2>2
<1>. QED
  BY <1>2 DEF Judged

\* So has Offending the type of psi.offenders.
LEMMA OffendingType ==
  ASSUME TypeOK, NEW ext \in Extrinsics
  PROVE  Offending(ext) \in [Keys -> Nat]
<1>1. ext.culprits \in Seq(Culprit) /\ ext.faults \in Seq(Fault)
  BY DisputesConstants DEF DisputesExtrinsic
<1>2. ASSUME NEW k \in Keys
      PROVE  offenders[k] + Cardinality(Naming(ext.culprits, k))
               + Cardinality(Naming(ext.faults, k)) \in Nat
  <2>1. Cardinality(Naming(ext.culprits, k)) \in Nat
    BY <1>1, CountOfPositions DEF Naming
  <2>2. Cardinality(Naming(ext.faults, k)) \in Nat
    BY <1>1, CountOfPositions DEF Naming
  <2>3. offenders[k] \in Nat
    BY DEF TypeOK
  <2>. QED
    BY <2>1, <2>2, <2>3
<1>. QED
  BY <1>2 DEF Offending

\* Every reachable state of the disputes transition is well typed.
THEOREM TypeCorrect == Spec => []TypeOK
<1>1. Init => TypeOK
  BY DisputesConstants DEF Init, TypeOK
<1>2. TypeOK /\ [Next]_vars => TypeOK'
  <2> SUFFICES ASSUME TypeOK, [Next]_vars PROVE TypeOK'
    OBVIOUS
  <2>1. ASSUME NEW ext \in Extrinsics, Transition(ext) PROVE TypeOK'
    <3>1. RhoDagger(ext) \in [Cores -> Reports \cup {NoReport}]
      BY DEF RhoDagger, TypeOK
    <3>. QED
      BY <2>1, <3>1, JudgedType, OffendingType DEF Transition, TypeOK
  <2>2. ASSUME NEW slot \in 1..MaxSlot, NEW next \in ValidatorSets, Advance(slot, next)
        PROVE  TypeOK'
    <3>1. slot \in Nat
      OBVIOUS
    <3>2. next \in Seq(Keys)
      BY DisputesConstants
    <3>. QED
      BY <2>2, <3>1, <3>2 DEF Advance, TypeOK
  <2>3. ASSUME NEW c \in Cores, NEW r \in Reports, AssignReport(c, r) PROVE TypeOK'
    BY <2>3 DEF AssignReport, TypeOK
  <2>4. ASSUME NEW c \in Cores, ClearCore(c) PROVE TypeOK'
    BY <2>4 DEF ClearCore, TypeOK
  <2>5. CASE UNCHANGED vars
    BY <2>5 DEF vars, TypeOK
  <2>. QED
    BY <2>1, <2>2, <2>3, <2>4, <2>5 DEF Next
<1>. QED
  BY <1>1, <1>2, PTL DEF Spec

-----------------------------------------------------------------------------
(* One verdict per report.                                                 *)

\* An accepted extrinsic finds a report at most once, whatever the kinds.
LEMMA OneFinding ==
  ASSUME NEW ext \in Extrinsics, VerdictsOK(ext), NEW r \in Reports,
         NEW k \in Kinds, NEW l \in Kinds,
         NEW i \in Findings(ext, k, r), NEW j \in Findings(ext, l, r)
  PROVE  i = j /\ k = l
<1>1. ext.verdicts \in Seq(Verdict)
  BY DisputesConstants DEF DisputesExtrinsic
<1>2. /\ i \in 1..Len(ext.verdicts) /\ j \in 1..Len(ext.verdicts)
      /\ ext.verdicts[i].target = r /\ ext.verdicts[j].target = r
      /\ VoteKind(ext.verdicts[i]) = k /\ VoteKind(ext.verdicts[j]) = l
  BY <1>1 DEF Findings
<1>3. \A x, y \in 1..Len(ext.verdicts) :
        x < y => ext.verdicts[x].target < ext.verdicts[y].target
  <2> DEFINE targets == [x \in DOMAIN ext.verdicts |-> ext.verdicts[x].target]
  <2>1. StrictlyAscending(targets)
    BY DEF VerdictsOK
  <2>2. DOMAIN targets = 1..Len(ext.verdicts)
    BY <1>1
  <2>3. \A x, y \in 1..Len(ext.verdicts) : x < y => targets[x] < targets[y]
    BY <2>1, <2>2 DEF StrictlyAscending
  <2>. QED
    BY <2>2, <2>3
<1>4. r \in Int
  BY DisputesConstants
<1>5. ~ (i < j) /\ ~ (j < i)
  BY <1>2, <1>3, <1>4
<1>6. i = j
  BY <1>2, <1>5
<1>. QED
  BY <1>2, <1>6

\* An accepted extrinsic finds nothing about a report already judged.
LEMMA NoFindingOnJudged ==
  ASSUME NEW ext \in Extrinsics, VerdictsOK(ext), NEW r \in Reports, IsJudged(r),
         NEW k \in Kinds
  PROVE  Findings(ext, k, r) = {}
BY DEF VerdictsOK, VerdictOK, Findings

\* Over the whole chain a report gets at most one verdict: the AlreadyJudged
\* test and the strict order of the verdicts leave no other way in.
THEOREM AtMostOneVerdict == Spec => []OneVerdict
<1>1. Init => OneVerdict
  BY DEF Init, OneVerdict, Kinds
<1>2. TypeOK /\ OneVerdict /\ [Next]_vars => OneVerdict'
  <2> SUFFICES ASSUME TypeOK, OneVerdict, [Next]_vars PROVE OneVerdict'
    OBVIOUS
  <2>1. ASSUME NEW ext \in Extrinsics, Transition(ext), DisputesOK(ext) PROVE OneVerdict'
    <3> SUFFICES ASSUME NEW r \in Reports
                 PROVE  verdicts'["good"][r] + verdicts'["bad"][r]
                          + verdicts'["wonky"][r] <= 1
      BY DEF OneVerdict
    <3> DEFINE found(k) == Cardinality(Findings(ext, k, r))
    <3>1. VerdictsOK(ext)
      BY <2>1 DEF DisputesOK
    <3>2. \A k \in Kinds : verdicts'[k][r] = verdicts[k][r] + found(k)
      BY <2>1 DEF Transition, Judged
    <3>3. \A k \in Kinds : verdicts[k][r] \in Nat
      BY DEF TypeOK
    <3>4. \A k \in Kinds : found(k) = IF Findings(ext, k, r) = {} THEN 0 ELSE 1
      BY <3>1, OneFinding, AtMostOneElement
    <3>5. CASE IsJudged(r)
      <4>1. \A k \in Kinds : found(k) = 0
        BY <3>1, <3>4, <3>5, NoFindingOnJudged
      <4> HIDE DEF found
      <4>2. \A k \in Kinds : verdicts'[k][r] = verdicts[k][r]
        BY <4>1, <3>2, <3>3
      <4>. QED
        BY <4>2, OneVerdict DEF OneVerdict, Kinds
    <3>6. CASE ~ IsJudged(r)
      <4>1. \A k \in Kinds : verdicts[k][r] = 0
        BY <3>6, <3>3 DEF IsJudged
      <4>2. \A k, l \in Kinds : found(k) = 0 \/ found(l) = 0 \/ k = l
        BY <3>1, <3>4, OneFinding
      <4>3. \A k \in Kinds : found(k) \in {0, 1}
        BY <3>4
      <4> HIDE DEF found
      <4>4. \A k \in Kinds : verdicts'[k][r] = found(k)
        BY <4>1, <4>3, <3>2
      <4>. QED
        BY <4>2, <4>3, <4>4 DEF Kinds
    <3>. QED
      BY <3>5, <3>6
  <2>2. ASSUME NEW ext \in Extrinsics, Transition(ext), ~ DisputesOK(ext) PROVE OneVerdict'
    BY <2>2 DEF Transition, OneVerdict
  <2>3. ASSUME NEW slot \in 1..MaxSlot, NEW next \in ValidatorSets, Advance(slot, next)
        PROVE  OneVerdict'
    BY <2>3 DEF Advance, OneVerdict
  <2>4. ASSUME NEW c \in Cores, NEW r \in Reports, AssignReport(c, r) PROVE OneVerdict'
    BY <2>4 DEF AssignReport, OneVerdict
  <2>5. ASSUME NEW c \in Cores, ClearCore(c) PROVE OneVerdict'
    BY <2>5 DEF ClearCore, OneVerdict
  <2>6. CASE UNCHANGED vars
    BY <2>6 DEF vars, OneVerdict
  <2>. QED
    BY <2>1, <2>2, <2>3, <2>4, <2>5, <2>6 DEF Next
<1>. QED
  BY <1>1, <1>2, TypeCorrect, PTL DEF Spec

-----------------------------------------------------------------------------
(* No second conviction.                                                   *)

\* An accepted extrinsic names no key that psi.offenders already holds.
LEMMA OffendersNotNamed ==
  ASSUME TypeOK, NEW ext \in Extrinsics, DisputesOK(ext), NEW k \in Keys, offenders[k] > 0
  PROVE  Naming(ext.culprits, k) = {} /\ Naming(ext.faults, k) = {}
<1>1. offenders[k] # 0
  BY DEF TypeOK
<1>2. \A i \in DOMAIN ext.culprits : offenders[ext.culprits[i].key] = 0
  BY DEF DisputesOK, CulpritsOK, CulpritOK
<1>3. \A i \in DOMAIN ext.faults : offenders[ext.faults[i].key] = 0
  BY DEF DisputesOK, FaultsOK, FaultOK
<1>. QED
  BY <1>1, <1>2, <1>3 DEF Naming

\* A validator convicted by an earlier block is never convicted again.
THEOREM NeverConvictedTwice == Spec => ConvictedOnce
<1> DEFINE Step == \A k \in Keys : offenders[k] > 0 => offenders'[k] = offenders[k]
<1>1. TypeOK /\ [Next]_vars => [Step]_vars
  <2> SUFFICES ASSUME TypeOK, Next PROVE Step
    OBVIOUS
  <2>1. ASSUME NEW ext \in Extrinsics, Transition(ext) PROVE Step
    <3> SUFFICES ASSUME NEW k \in Keys, offenders[k] > 0
                 PROVE  offenders'[k] = offenders[k]
      OBVIOUS
    <3>1. CASE DisputesOK(ext)
      <4>1. Naming(ext.culprits, k) = {} /\ Naming(ext.faults, k) = {}
        BY <3>1, OffendersNotNamed
      <4>2. offenders'[k] = offenders[k] + Cardinality({}) + Cardinality({})
        BY <2>1, <3>1, <4>1 DEF Transition, Offending
      <4>3. Cardinality({}) = 0 /\ offenders[k] \in Nat
        BY FS_EmptySet DEF TypeOK
      <4>. QED
        BY <4>2, <4>3
    <3>2. CASE ~ DisputesOK(ext)
      BY <2>1, <3>2 DEF Transition
    <3>. QED
      BY <3>1, <3>2
  <2>. QED
    BY <2>1 DEF Next, Advance, AssignReport, ClearCore
<1>. QED
  BY <1>1, TypeCorrect, PTL DEF Spec, ConvictedOnce

-----------------------------------------------------------------------------
(* Verdicts and availability.                                              *)

\* A vector that grew was pushed on: the extrinsic holds the finding.
LEMMA GrowthHasFinding ==
  ASSUME TypeOK, NEW ext \in Extrinsics, Transition(ext), NEW k \in Kinds,
         NEW r \in Reports, verdicts'[k][r] # verdicts[k][r]
  PROVE  DisputesOK(ext) /\ Findings(ext, k, r) # {}
<1>1. DisputesOK(ext)
  BY DEF Transition
<1>2. verdicts'[k][r] = verdicts[k][r] + Cardinality(Findings(ext, k, r))
  BY <1>1 DEF Transition, Judged
<1>3. verdicts[k][r] \in Nat /\ Cardinality({}) = 0
  BY FS_EmptySet DEF TypeOK
<1>. QED
  BY <1>1, <1>2, <1>3

\* The block that finds a report bad or wonky frees every core that holds it,
\* and finding it good frees none: no later stage of the import can make a
\* condemned report available.
THEOREM VerdictsClearCores == Spec => VerdictClearsRho
<1> DEFINE Cleared(r) ==
             /\ verdicts'["bad"][r] + verdicts'["wonky"][r]
                  > verdicts["bad"][r] + verdicts["wonky"][r]
                => \A c \in Cores : rho'[c] # r
             /\ verdicts'["good"][r] > verdicts["good"][r]
                => \A c \in Cores : rho[c] = r => rho'[c] = r
           Step == \A r \in Reports : Cleared(r)
<1>1. TypeOK /\ [Next]_vars => [Step]_vars
  <2> SUFFICES ASSUME TypeOK, Next, NEW r \in Reports PROVE Cleared(r)
    OBVIOUS
  <2>1. ASSUME verdicts' = verdicts PROVE Cleared(r)
    <3>1. \A k \in Kinds : verdicts[k][r] \in Nat /\ verdicts'[k][r] = verdicts[k][r]
      BY <2>1 DEF TypeOK
    <3>. QED
      BY <3>1 DEF Kinds
  <2>2. ASSUME NEW ext \in Extrinsics, Transition(ext) PROVE Cleared(r)
    <3>1. CASE DisputesOK(ext)
      <4>1. /\ rho' = RhoDagger(ext)
            /\ rho \in [Cores -> Reports \cup {NoReport}]
        BY <2>2, <3>1 DEF Transition, TypeOK
      <4>2. r # NoReport
        BY DisputesConstants
      <4>3. VerdictsOK(ext)
        BY <3>1 DEF DisputesOK
      <4>4. ASSUME verdicts'["bad"][r] + verdicts'["wonky"][r]
                     > verdicts["bad"][r] + verdicts["wonky"][r]
            PROVE  \A c \in Cores : rho'[c] # r
        <5>1. \/ verdicts'["bad"][r] # verdicts["bad"][r]
              \/ verdicts'["wonky"][r] # verdicts["wonky"][r]
          <6>1. /\ verdicts["bad"][r] \in Nat /\ verdicts["wonky"][r] \in Nat
            BY DEF TypeOK, Kinds
          <6>. QED
            BY <4>4, <6>1
        <5>2. Findings(ext, "bad", r) # {} \/ Findings(ext, "wonky", r) # {}
          BY <2>2, <5>1, GrowthHasFinding DEF Kinds
        <5>3. r \in ClearedReports(ext)
          BY <5>2 DEF Findings, ClearedReports
        <5>. QED
          BY <4>1, <4>2, <5>3 DEF RhoDagger
      <4>5. ASSUME verdicts'["good"][r] > verdicts["good"][r],
                   NEW c \in Cores, rho[c] = r
            PROVE  rho'[c] = r
        <5>1. Findings(ext, "good", r) # {}
          <6>1. verdicts["good"][r] \in Nat
            BY DEF TypeOK, Kinds
          <6>. QED
            BY <2>2, <4>5, <6>1, GrowthHasFinding DEF Kinds
        <5>2. Findings(ext, "bad", r) = {} /\ Findings(ext, "wonky", r) = {}
          BY <4>3, <5>1, OneFinding DEF Kinds
        <5>3. r \notin ClearedReports(ext)
          BY <5>2 DEF Findings, ClearedReports
        <5>. QED
          BY <4>1, <4>5, <5>3 DEF RhoDagger
      <4>. QED
        BY <4>4, <4>5
    <3>2. CASE ~ DisputesOK(ext)
      BY <2>1, <2>2, <3>2 DEF Transition
    <3>. QED
      BY <3>1, <3>2
  <2>. QED
    BY <2>1, <2>2 DEF Next, Advance, AssignReport, ClearCore
<1>. QED
  BY <1>1, TypeCorrect, PTL DEF Spec, VerdictClearsRho

-----------------------------------------------------------------------------
(* What verdicts cost.                                                     *)

\* If n elements of T, at least, belong to each element of S, and none to two,
\* then T has n times as many elements as S.
LEMMA ShareOfEach ==
  ASSUME NEW S, IsFiniteSet(S), NEW T, IsFiniteSet(T), NEW n \in Nat,
         NEW F \in [S -> SUBSET T], \A x \in S : Cardinality(F[x]) >= n,
         \A x, y \in S : \A t \in F[x] \cap F[y] : x = y
  PROVE  Cardinality(T) >= n * Cardinality(S)
<1> DEFINE f == [x \in S |-> CHOOSE b : b \in Bijection(1..Cardinality(F[x]), F[x])]
           g == [p \in S \X (1..n) |-> f[p[1]][p[2]]]
<1>1. ASSUME NEW x \in S
      PROVE  /\ Cardinality(F[x]) \in Nat
             /\ f[x] \in Bijection(1..Cardinality(F[x]), F[x])
  <2>1. IsFiniteSet(F[x])
    <3>1. F[x] \in SUBSET T
      OBVIOUS
    <3> QED
      BY <3>1, FS_Subset
  <2>2. Cardinality(F[x]) \in Nat /\ ExistsBijection(1..Cardinality(F[x]), F[x])
    BY <2>1, FS_CardinalityType
  <2>3. \E b : b \in Bijection(1..Cardinality(F[x]), F[x])
    BY <2>2 DEF ExistsBijection
  <2> QED
    BY <2>2, <2>3
<1> HIDE DEF f
<1>2. ASSUME NEW x \in S, NEW i \in 1..n
      PROVE  i \in 1..Cardinality(F[x]) /\ f[x][i] \in F[x]
  <2>1. i \in 1..Cardinality(F[x])
    BY <1>1
  <2>2. f[x] \in [1..Cardinality(F[x]) -> F[x]]
    BY <1>1 DEF Bijection, Injection
  <2> QED
    BY <2>1, <2>2
<1>3. ASSUME NEW x \in S, NEW y \in S, NEW i \in 1..n, NEW j \in 1..n, f[x][i] = f[y][j]
      PROVE  x = y /\ i = j
  <2>1. f[x][i] \in F[x] \cap F[y]
    BY <1>2, <1>3
  <2>2. x = y
    BY <2>1
  <2>3. \A a, b \in 1..Cardinality(F[x]) : f[x][a] = f[x][b] => a = b
    BY <1>1 DEF Bijection, Injection, IsInjective
  <2> QED
    BY <1>2, <1>3, <2>2, <2>3
<1>4. g \in Injection(S \X (1..n), T)
  <2>1. g \in [S \X (1..n) -> T]
    <3>1. ASSUME NEW p \in S \X (1..n) PROVE f[p[1]][p[2]] \in T
      <4>1. p[1] \in S /\ p[2] \in 1..n
        OBVIOUS
      <4>2. f[p[1]][p[2]] \in F[p[1]]
        BY <1>2, <4>1
      <4> QED
        BY <4>1, <4>2
    <3> QED
      BY <3>1
  <2>2. ASSUME NEW p \in S \X (1..n), NEW q \in S \X (1..n), g[p] = g[q]
        PROVE  p = q
    <3>1. /\ p[1] \in S /\ q[1] \in S /\ p[2] \in 1..n /\ q[2] \in 1..n
          /\ p = <<p[1], p[2]>> /\ q = <<q[1], q[2]>>
      OBVIOUS
    <3>2. f[p[1]][p[2]] = f[q[1]][q[2]]
      BY <2>2
    <3>3. p[1] = q[1] /\ p[2] = q[2]
      BY <1>3, <3>1, <3>2
    <3> QED
      BY <3>1, <3>3
  <2> HIDE DEF g
  <2> QED
    BY <2>1, <2>2 DEF Injection, IsInjective
<1>5. Cardinality(S \X (1..n)) <= Cardinality(T)
  BY <1>4, FS_Injection
<1>6. IsFiniteSet(1..n) /\ Cardinality(1..n) = n
  BY FS_Interval
<1>7. Cardinality(S \X (1..n)) = Cardinality(S) * n
  BY <1>6, FS_Product
<1>8. Cardinality(S) \in Nat /\ Cardinality(T) \in Nat
  BY FS_CardinalityType
<1> QED
  BY <1>5, <1>7, <1>8

\* The keys that culprits or faults name, and those they name for one report.
KeysOf(s) == {s[i].key : i \in DOMAIN s}
KeysAgainst(s, r) == {s[i].key : i \in {j \in DOMAIN s : s[j].target = r}}

\* A set of the keys at some places of a sequence is finite; if the keys ascend
\* strictly it has as many elements as there are places.
LEMMA KeysAtPlaces ==
  ASSUME NEW R, NEW s \in Seq(R), NEW P \in SUBSET DOMAIN s,
         \A i \in DOMAIN s : s[i].key \in Int,
         \A i, j \in DOMAIN s : i < j => s[i].key < s[j].key,
         NEW names, names = {s[i].key : i \in P}
  PROVE  IsFiniteSet(names) /\ Cardinality(names) = Cardinality(P)
<1> DEFINE f == [i \in P |-> s[i].key]
<1>1. DOMAIN s = 1..Len(s) /\ Len(s) \in Nat
  OBVIOUS
<1>2. IsFiniteSet(P)
  <2>1. IsFiniteSet(DOMAIN s)
    BY <1>1, FS_Interval
  <2> QED
    BY <2>1, FS_Subset
<1>3. f \in Surjection(P, names)
  BY DEF Surjection
<1>4. f \in Injection(P, names)
  <2>1. ASSUME NEW i \in P, NEW j \in P, f[i] = f[j] PROVE i = j
    <3>1. i \in DOMAIN s /\ j \in DOMAIN s /\ i \in Int /\ j \in Int
      BY <1>1
    <3>2. s[i].key = s[j].key /\ s[i].key \in Int
      BY <2>1, <3>1
    <3>3. ~ (i < j) /\ ~ (j < i)
      BY <3>1, <3>2
    <3> QED
      BY <3>1, <3>3
  <2>2. f \in [P -> names]
    OBVIOUS
  <2> HIDE DEF f
  <2> QED
    BY <2>1, <2>2 DEF Injection, IsInjective
<1> HIDE DEF f
<1> QED
  BY <1>2, <1>3, <1>4, FS_Surjection

\* Where n names stand against each report of B, the names are n for each.
LEMMA NamesForEach ==
  ASSUME NEW R, NEW s \in Seq(R), NEW B, IsFiniteSet(B), NEW n \in Nat,
         \A i \in DOMAIN s : s[i].key \in Int,
         \A i, j \in DOMAIN s : i < j => s[i].key < s[j].key,
         \A r \in B : Cardinality({i \in DOMAIN s : s[i].target = r}) >= n
  PROVE  Cardinality(KeysOf(s)) >= n * Cardinality(B)
<1> DEFINE F == [r \in B |-> KeysAgainst(s, r)]
<1>1. IsFiniteSet(KeysOf(s))
  BY KeysAtPlaces DEF KeysOf
<1>2. F \in [B -> SUBSET KeysOf(s)]
  BY DEF KeysOf, KeysAgainst
<1>3. ASSUME NEW r \in B PROVE Cardinality(F[r]) >= n
  <2> DEFINE P == {i \in DOMAIN s : s[i].target = r}
  <2>1. P \in SUBSET DOMAIN s /\ Cardinality(P) >= n
    OBVIOUS
  <2>2. F[r] = {s[i].key : i \in P}
    BY DEF KeysAgainst
  <2> HIDE DEF P, F
  <2> QED
    BY <2>1, <2>2, KeysAtPlaces
<1>4. ASSUME NEW r \in B, NEW q \in B, NEW k \in F[r] \cap F[q] PROVE r = q
  <2>1. PICK i \in DOMAIN s : s[i].target = r /\ s[i].key = k
    BY <1>4 DEF KeysAgainst
  <2>2. PICK j \in DOMAIN s : s[j].target = q /\ s[j].key = k
    BY <1>4 DEF KeysAgainst
  <2>3. s[i].key \in Int /\ i \in Int /\ j \in Int
    BY <2>1, <2>2
  <2>4. ~ (i < j) /\ ~ (j < i)
    BY <2>1, <2>2, <2>3
  <2> QED
    BY <2>1, <2>2, <2>3, <2>4
<1> HIDE DEF F
<1> QED
  BY <1>1, <1>2, <1>3, <1>4, ShareOfEach

\* The reports that hold a verdict of kind k, and those an extrinsic gives one.
JudgedTo(k) == {r \in Reports : verdicts[k][r] > 0}
NewlyJudged(ext, k) ==
  {ext.verdicts[i].target : i \in {j \in DOMAIN ext.verdicts : VoteKind(ext.verdicts[j]) = k}}

\* What an accepted extrinsic adds to psi, as sets.
LEMMA WhatIsAdded ==
  ASSUME TypeOK, NEW ext \in Extrinsics, Transition(ext), DisputesOK(ext)
  PROVE  /\ \A k \in Kinds : /\ JudgedTo(k)' = JudgedTo(k) \cup NewlyJudged(ext, k)
                             /\ IsFiniteSet(NewlyJudged(ext, k))
         /\ Offenders' = Offenders \cup (KeysOf(ext.culprits) \cup KeysOf(ext.faults))
         /\ Offenders \cap (KeysOf(ext.culprits) \cup KeysOf(ext.faults)) = {}
<1>1. /\ ext.verdicts \in Seq(Verdict) /\ ext.culprits \in Seq(Culprit)
      /\ ext.faults \in Seq(Fault)
  BY DisputesConstants DEF DisputesExtrinsic
<1>2. ASSUME NEW k \in Kinds
      PROVE  /\ JudgedTo(k)' = JudgedTo(k) \cup NewlyJudged(ext, k)
             /\ IsFiniteSet(NewlyJudged(ext, k))
  <2>1. NewlyJudged(ext, k) \subseteq Reports
    <3>1. \A j \in DOMAIN ext.verdicts : ext.verdicts[j] \in Verdict
      BY <1>1
    <3>2. \A j \in DOMAIN ext.verdicts : ext.verdicts[j].target \in Reports
      BY <3>1 DEF Verdict
    <3> QED
      BY <3>2 DEF NewlyJudged
  <2>2. ASSUME NEW r \in Reports
        PROVE  verdicts'[k][r] > 0 <=> verdicts[k][r] > 0 \/ r \in NewlyJudged(ext, k)
    <3> DEFINE found == Findings(ext, k, r)
    <3>1. verdicts'[k][r] = verdicts[k][r] + Cardinality(found) /\ verdicts[k][r] \in Nat
      BY DEF Transition, Judged, TypeOK
    <3>2. Cardinality(found) = IF found = {} THEN 0 ELSE 1
      BY OneFinding, AtMostOneElement DEF DisputesOK
    <3>3. found # {} <=> r \in NewlyJudged(ext, k)
      BY DEF Findings, NewlyJudged
    <3> HIDE DEF found
    <3> QED
      BY <3>1, <3>2, <3>3
  <2>3. JudgedTo(k)' = JudgedTo(k) \cup NewlyJudged(ext, k)
    BY <2>1, <2>2 DEF JudgedTo
  <2>4. IsFiniteSet(NewlyJudged(ext, k))
    <3> DEFINE P == {j \in DOMAIN ext.verdicts : VoteKind(ext.verdicts[j]) = k}
               f == [i \in P |-> ext.verdicts[i].target]
    <3>1. f \in Surjection(P, NewlyJudged(ext, k))
      BY DEF Surjection, NewlyJudged
    <3>2. IsFiniteSet(DOMAIN ext.verdicts) /\ P \in SUBSET DOMAIN ext.verdicts
      <4>1. DOMAIN ext.verdicts = 1..Len(ext.verdicts) /\ Len(ext.verdicts) \in Nat
        BY <1>1
      <4> QED
        BY <4>1, FS_Interval
    <3> HIDE DEF P, f
    <3>3. IsFiniteSet(P)
      BY <3>2, FS_Subset
    <3> QED
      BY <3>1, <3>3, FS_Surjection
  <2> QED
    BY <2>3, <2>4
<1>3. KeysOf(ext.culprits) \subseteq Keys /\ KeysOf(ext.faults) \subseteq Keys
  <2>1. /\ \A i \in DOMAIN ext.culprits : ext.culprits[i] \in Culprit
        /\ \A i \in DOMAIN ext.faults : ext.faults[i] \in Fault
    BY <1>1
  <2>2. /\ \A i \in DOMAIN ext.culprits : ext.culprits[i].key \in Keys
        /\ \A i \in DOMAIN ext.faults : ext.faults[i].key \in Keys
    BY <2>1 DEF Culprit, Fault
  <2> QED
    BY <2>2 DEF KeysOf
<1>4. ASSUME NEW k \in Keys
      PROVE  /\ offenders'[k] > 0 <=> \/ offenders[k] > 0
                                      \/ k \in KeysOf(ext.culprits) \cup KeysOf(ext.faults)
             /\ offenders[k] > 0 => k \notin KeysOf(ext.culprits) \cup KeysOf(ext.faults)
  <2> DEFINE c == Cardinality(Naming(ext.culprits, k))
             f == Cardinality(Naming(ext.faults, k))
  <2>1. /\ IsFiniteSet(Naming(ext.culprits, k)) /\ IsFiniteSet(Naming(ext.faults, k))
    <3>1. /\ IsFiniteSet(DOMAIN ext.culprits) /\ IsFiniteSet(DOMAIN ext.faults)
      <4>1. /\ DOMAIN ext.culprits = 1..Len(ext.culprits) /\ Len(ext.culprits) \in Nat
            /\ DOMAIN ext.faults = 1..Len(ext.faults) /\ Len(ext.faults) \in Nat
        BY <1>1
      <4> QED
        BY <4>1, FS_Interval
    <3>2. /\ Naming(ext.culprits, k) \in SUBSET DOMAIN ext.culprits
          /\ Naming(ext.faults, k) \in SUBSET DOMAIN ext.faults
      BY DEF Naming
    <3> QED
      BY <3>1, <3>2, FS_Subset
  <2>2. /\ c \in Nat /\ (c = 0 <=> Naming(ext.culprits, k) = {})
        /\ f \in Nat /\ (f = 0 <=> Naming(ext.faults, k) = {})
    BY <2>1, FS_CardinalityType, FS_EmptySet
  <2>3. /\ Naming(ext.culprits, k) # {} <=> k \in KeysOf(ext.culprits)
        /\ Naming(ext.faults, k) # {} <=> k \in KeysOf(ext.faults)
    BY DEF Naming, KeysOf
  <2>4. offenders'[k] = offenders[k] + c + f /\ offenders[k] \in Nat
    BY DEF Transition, Offending, TypeOK
  <2>5. offenders[k] > 0 => Naming(ext.culprits, k) = {} /\ Naming(ext.faults, k) = {}
    BY OffendersNotNamed
  <2> HIDE DEF c, f
  <2> QED
    BY <2>2, <2>3, <2>4, <2>5
<1>5. Offenders' = Offenders \cup (KeysOf(ext.culprits) \cup KeysOf(ext.faults))
  BY <1>3, <1>4 DEF Offenders
<1>6. Offenders \cap (KeysOf(ext.culprits) \cup KeysOf(ext.faults)) = {}
  BY <1>4 DEF Offenders
<1> QED
  BY <1>2, <1>5, <1>6

\* The culprits and the faults of an accepted extrinsic pay for its verdicts.
LEMMA Paid ==
  ASSUME NEW ext \in Extrinsics, DisputesOK(ext),
         \A k \in Kinds : IsFiniteSet(NewlyJudged(ext, k))
  PROVE  /\ IsFiniteSet(KeysOf(ext.culprits)) /\ IsFiniteSet(KeysOf(ext.faults))
         /\ Cardinality(KeysOf(ext.culprits)) >= MinCulprits * Cardinality(NewlyJudged(ext, "bad"))
         /\ Cardinality(KeysOf(ext.faults)) >= Cardinality(NewlyJudged(ext, "good"))
<1> DEFINE cs == ext.culprits
           fs == ext.faults
<1>1. cs \in Seq(Culprit) /\ fs \in Seq(Fault) /\ Keys \subseteq Int /\ MinCulprits \in Nat
  BY DisputesConstants DEF DisputesExtrinsic
<1>2. /\ \A i \in DOMAIN cs : cs[i].key \in Int
      /\ \A i \in DOMAIN fs : fs[i].key \in Int
  <2>1. /\ \A i \in DOMAIN cs : cs[i] \in Culprit
        /\ \A i \in DOMAIN fs : fs[i] \in Fault
    BY <1>1
  <2> QED
    BY <1>1, <2>1 DEF Culprit, Fault
<1>3. /\ \A i, j \in DOMAIN cs : i < j => cs[i].key < cs[j].key
      /\ \A i, j \in DOMAIN fs : i < j => fs[i].key < fs[j].key
  BY DEF DisputesOK, CulpritsOK, FaultsOK, StrictlyAscending
<1>4. \A r \in NewlyJudged(ext, "bad") :
        Cardinality({i \in DOMAIN cs : cs[i].target = r}) >= MinCulprits
  BY DEF NewlyJudged, DisputesOK, VerdictsJustified
<1>5. ASSUME NEW r \in NewlyJudged(ext, "good")
      PROVE  Cardinality({i \in DOMAIN fs : fs[i].target = r}) >= 1
  <2> DEFINE P == {i \in DOMAIN fs : fs[i].target = r}
  <2>1. P # {} /\ P \in SUBSET DOMAIN fs
    BY <1>5 DEF NewlyJudged, DisputesOK, VerdictsJustified
  <2>2. IsFiniteSet(DOMAIN fs)
    <3>1. DOMAIN fs = 1..Len(fs) /\ Len(fs) \in Nat
      BY <1>1
    <3> QED
      BY <3>1, FS_Interval
  <2> HIDE DEF P
  <2>3. IsFiniteSet(P)
    BY <2>1, <2>2, FS_Subset
  <2>4. Cardinality(P) \in Nat /\ Cardinality(P) # 0
    BY <2>1, <2>3, FS_CardinalityType, FS_EmptySet
  <2> QED
    BY <2>4 DEF P
<1>6. "bad" \in Kinds /\ "good" \in Kinds
  BY DEF Kinds
<1> HIDE DEF cs, fs
<1>7. IsFiniteSet(KeysOf(cs)) /\ IsFiniteSet(KeysOf(fs))
  BY <1>1, <1>2, <1>3, KeysAtPlaces DEF KeysOf
<1>8. Cardinality(KeysOf(cs)) >= MinCulprits * Cardinality(NewlyJudged(ext, "bad"))
  BY <1>1, <1>2, <1>3, <1>4, <1>6, NamesForEach
<1>9. Cardinality(KeysOf(fs)) >= 1 * Cardinality(NewlyJudged(ext, "good"))
  BY <1>1, <1>2, <1>3, <1>5, <1>6, NamesForEach
<1>10. Cardinality(NewlyJudged(ext, "good")) \in Nat
  BY <1>6, FS_CardinalityType
<1>11. Cardinality(KeysOf(fs)) >= Cardinality(NewlyJudged(ext, "good"))
  BY <1>9, <1>10
<1> QED
  BY <1>7, <1>8, <1>11 DEF cs, fs

\* Counting the offenders needs them, and the judged reports, to be finitely
\* many.
Costs ==
  /\ IsFiniteSet(Offenders) /\ IsFiniteSet(JudgedTo("bad")) /\ IsFiniteSet(JudgedTo("good"))
  /\ Cardinality(Offenders) >= MinCulprits * Cardinality(JudgedTo("bad"))
  /\ Cardinality(Offenders) >= Cardinality(JudgedTo("good"))

\* Every bad verdict of the chain has cost MinCulprits validators their place,
\* and every good one a validator: the culprits and the faults of a block are
\* fresh keys, each named once and for one report.
THEOREM EveryVerdictCosts == Spec => []VerdictsCostOffenders
<1>1. Init => Costs
  <2> SUFFICES ASSUME Init PROVE Costs
    OBVIOUS
  <2>1. Offenders = {} /\ JudgedTo("bad") = {} /\ JudgedTo("good") = {}
    BY DEF Init, Offenders, JudgedTo, Kinds
  <2>2. MinCulprits * 0 = 0
    BY DisputesConstants
  <2> QED
    BY <2>1, <2>2, FS_EmptySet DEF Costs
<1>2. TypeOK /\ Costs /\ [Next]_vars => Costs'
  <2> SUFFICES ASSUME TypeOK, Costs, [Next]_vars PROVE Costs'
    OBVIOUS
  <2>1. ASSUME verdicts' = verdicts, offenders' = offenders PROVE Costs'
    <3>1. Offenders' = Offenders /\ \A k : JudgedTo(k)' = JudgedTo(k)
      BY <2>1 DEF Offenders, JudgedTo
    <3> QED
      BY <3>1 DEF Costs
  <2>2. ASSUME NEW ext \in Extrinsics, Transition(ext), DisputesOK(ext) PROVE Costs'
    <3> DEFINE cs == KeysOf(ext.culprits)
               fs == KeysOf(ext.faults)
               newBad == NewlyJudged(ext, "bad")
               newGood == NewlyJudged(ext, "good")
    <3>1. /\ JudgedTo("bad")' = JudgedTo("bad") \cup newBad
          /\ JudgedTo("good")' = JudgedTo("good") \cup newGood
          /\ IsFiniteSet(newBad) /\ IsFiniteSet(newGood)
          /\ Offenders' = Offenders \cup (cs \cup fs) /\ Offenders \cap (cs \cup fs) = {}
      BY <2>2, WhatIsAdded DEF Kinds
    <3>2. /\ IsFiniteSet(cs) /\ IsFiniteSet(fs)
          /\ Cardinality(cs) >= MinCulprits * Cardinality(newBad)
          /\ Cardinality(fs) >= Cardinality(newGood)
      BY <2>2, WhatIsAdded, Paid
    <3> HIDE DEF cs, fs, newBad, newGood
    <3>3. IsFiniteSet(cs \cup fs) /\ cs \in SUBSET (cs \cup fs) /\ fs \in SUBSET (cs \cup fs)
      BY <3>2, FS_Union
    <3>4. /\ Cardinality(cs) <= Cardinality(cs \cup fs)
          /\ Cardinality(fs) <= Cardinality(cs \cup fs)
      BY <3>3, FS_Subset
    <3>5. /\ IsFiniteSet(Offenders')
          /\ Cardinality(Offenders') = Cardinality(Offenders) + Cardinality(cs \cup fs)
      <4>1. /\ IsFiniteSet(Offenders \cup (cs \cup fs))
            /\ Cardinality(Offenders \cup (cs \cup fs))
                 = Cardinality(Offenders) + Cardinality(cs \cup fs) - Cardinality({})
        BY <3>1, <3>3, FS_Union DEF Costs
      <4>2. /\ Cardinality({}) = 0 /\ Cardinality(Offenders) \in Nat
            /\ Cardinality(cs \cup fs) \in Nat
        BY <3>3, FS_EmptySet, FS_CardinalityType DEF Costs
      <4> QED
        BY <3>1, <4>1, <4>2
    <3>6. ASSUME NEW A, NEW B, IsFiniteSet(A), IsFiniteSet(B)
          PROVE  IsFiniteSet(A \cup B) /\ Cardinality(A \cup B) <= Cardinality(A) + Cardinality(B)
      <4>1. /\ IsFiniteSet(A \cup B) /\ IsFiniteSet(A \cap B)
            /\ Cardinality(A \cup B) = Cardinality(A) + Cardinality(B) - Cardinality(A \cap B)
        BY <3>6, FS_Union, FS_Intersection
      <4>2. Cardinality(A) \in Nat /\ Cardinality(B) \in Nat /\ Cardinality(A \cap B) \in Nat
        BY <3>6, <4>1, FS_CardinalityType
      <4> QED
        BY <4>1, <4>2
    <3>7. /\ IsFiniteSet(JudgedTo("bad")') /\ IsFiniteSet(JudgedTo("good")')
          /\ Cardinality(JudgedTo("bad")') <= Cardinality(JudgedTo("bad")) + Cardinality(newBad)
          /\ Cardinality(JudgedTo("good")') <= Cardinality(JudgedTo("good")) + Cardinality(newGood)
      BY <3>1, <3>6 DEF Costs
    <3> DEFINE o == Cardinality(Offenders)
               o1 == Cardinality(Offenders')
               b == Cardinality(JudgedTo("bad"))
               b1 == Cardinality(JudgedTo("bad")')
               g == Cardinality(JudgedTo("good"))
               g1 == Cardinality(JudgedTo("good")')
               x == Cardinality(newBad)
               y == Cardinality(newGood)
               z == Cardinality(cs \cup fs)
               c == Cardinality(cs)
               f == Cardinality(fs)
    <3>8. /\ o \in Nat /\ o1 \in Nat /\ b \in Nat /\ b1 \in Nat /\ g \in Nat /\ g1 \in Nat
          /\ x \in Nat /\ y \in Nat /\ z \in Nat /\ c \in Nat /\ f \in Nat /\ MinCulprits \in Nat
      BY <3>1, <3>2, <3>3, <3>5, <3>7, FS_CardinalityType, DisputesConstants DEF Costs
    <3>9. /\ o1 = o + z /\ c <= z /\ f <= z /\ b1 <= b + x /\ g1 <= g + y
          /\ c >= MinCulprits * x /\ f >= y /\ o >= MinCulprits * b /\ o >= g
      BY <3>2, <3>4, <3>5, <3>7 DEF Costs
    <3> HIDE DEF o, o1, b, b1, g, g1, x, y, z, c, f
    <3>10. g1 <= o1
      BY <3>8, <3>9
    <3>11. MinCulprits * b1 <= o1
      <4>1. MinCulprits * b1 <= MinCulprits * (b + x)
        BY <3>8, <3>9
      <4>2. MinCulprits * (b + x) = MinCulprits * b + MinCulprits * x
        BY <3>8
      <4>3. MinCulprits * b \in Nat /\ MinCulprits * x \in Nat /\ MinCulprits * b1 \in Nat
        BY <3>8
      <4> QED
        BY <3>8, <3>9, <4>1, <4>2, <4>3
    <3>12. MinCulprits * b1 \in Nat
      BY <3>8
    <3> QED
      BY <3>5, <3>7, <3>8, <3>10, <3>11, <3>12 DEF Costs, o1, b1, g1
  <2>3. ASSUME NEW ext \in Extrinsics, Transition(ext), ~ DisputesOK(ext) PROVE Costs'
    BY <2>1, <2>3 DEF Transition
  <2> QED
    BY <2>1, <2>2, <2>3 DEF Next, Advance, AssignReport, ClearCore, vars
<1>3. Costs => VerdictsCostOffenders
  BY DEF Costs, VerdictsCostOffenders, JudgedTo
<1> QED
  BY <1>1, <1>2, <1>3, TypeCorrect, PTL DEF Spec
=============================================================================
