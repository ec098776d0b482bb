-------------------------- MODULE WorkReportsProofs --------------------------
(***************************************************************************)
(* Proofs about WorkReports: what block import does to a work report, for  *)
(* every set of packages, dependencies and gas, every window and timeout,  *)
(* every choice of extrinsics and gaps, and however many blocks a stage    *)
(* refuses unless a theorem says otherwise; and that without refused       *)
(* blocks it implements ReportPipeline.                                    *)
(*                                                                         *)
(* First what the recursive functions of AccumulateQueue compute, by       *)
(* induction over prefixes and over the calls of the priority queue; then  *)
(* the arithmetic of the ring theta; then one block, and what it does to   *)
(* each invariant.                                                         *)
(***************************************************************************)
EXTENDS WorkReports, WellFoundedInduction, SequenceTheorems, TLAPS

\* A set of numbers has a least one.
LEMMA LeastNumber ==
  ASSUME NEW T, T \subseteq Nat, T # {}
  PROVE  \E x \in T : \A y \in T : x <= y
<1> DEFINE R == OpToRel(<, Nat)
<1>1. IsWellFoundedOn(R, Nat)
  BY NatLessThanWellFounded
<1>2. \A x, y \in Nat : <<y, x>> \in R <=> y < x
  BY DEF OpToRel
<1> HIDE DEF R
<1>3. PICK x \in T : \A y \in T : ~ (<<y, x>> \in R)
  BY <1>1, WFMin
<1>4. ASSUME NEW y \in T PROVE x <= y
  <2>1. x \in Nat /\ y \in Nat /\ ~ (<<y, x>> \in R)
    BY <1>3
  <2>2. ~ (y < x)
    BY <1>2, <2>1
  <2> QED
    BY <2>1, <2>2
<1> QED
  BY <1>4

\* Induction over the numbers up to n: a set that holds 0 and the successors of
\* its members holds all of them.
LEMMA InductionUpTo ==
  ASSUME NEW n \in Nat, NEW T, 0 \in T,
         \A i \in 1..n : i - 1 \in T => i \in T
  PROVE  \A i \in 0..n : i \in T
<1> SUFFICES ASSUME NEW k \in 0..n, k \notin T PROVE FALSE
  OBVIOUS
<1> DEFINE Out == {i \in 0..n : i \notin T}
<1>1. PICK x \in Out : \A y \in Out : x <= y
  <2>1. Out \subseteq Nat /\ Out # {}
    OBVIOUS
  <2> QED
    BY <2>1, LeastNumber
<1>2. x \in 1..n /\ x - 1 \in 0..n /\ x \notin T
  BY <1>1
<1>3. x - 1 \in T
  BY <1>1, <1>2
<1> QED
  BY <1>2, <1>3

\* Two functions that follow the same recursion agree.
Agree(f, g, n) == \A i \in 0..n : f[i] = g[i]
AgreeSteps(f, g, n) == f[0] = g[0] /\ \A i \in 1..n : f[i - 1] = g[i - 1] => f[i] = g[i]

LEMMA SameRecursion ==
  ASSUME NEW n \in Nat, NEW f, NEW g, AgreeSteps(f, g, n)
  PROVE  Agree(f, g, n)
<1> USE DEF Agree, AgreeSteps
<1> DEFINE T == {i \in 0..n : f[i] = g[i]}
<1>1. 0 \in T
  OBVIOUS
<1>2. \A i \in 1..n : i - 1 \in T => i \in T
  OBVIOUS
<1> HIDE DEF T
<1>3. \A i \in 0..n : i \in T
  BY <1>1, <1>2, InductionUpTo
<1> QED
  BY <1>3 DEF T

\* f is defined by recursion over 0..n: f[0] is x0 and step[i] leads to f[i].
Recursion(f, n, X, x0, step) ==
  f \in [0..n -> X] /\ f[0] = x0 /\ \A i \in 1..n : f[i] = step[i][f[i - 1]]

LEMMA RecursionExists ==
  ASSUME NEW X, NEW n \in Nat, NEW x0 \in X, NEW step \in [1..n -> [X -> X]]
  PROVE  \E f : Recursion(f, n, X, x0, step)
<1> DEFINE T == {k \in 0..n : \E f : Recursion(f, k, X, x0, step)}
<1>1. 0 \in T
  <2>1. Recursion([i \in 0..0 |-> x0], 0, X, x0, step)
    BY DEF Recursion
  <2> QED
    BY <2>1
<1>2. ASSUME NEW k \in 1..n, k - 1 \in T PROVE k \in T
  <2>1. PICK f : Recursion(f, k - 1, X, x0, step)
    BY <1>2
  <2> DEFINE g == [i \in 0..k |-> IF i = k THEN step[k][f[k - 1]] ELSE f[i]]
  <2>2. f[k - 1] \in X /\ step[k] \in [X -> X]
    BY <2>1 DEF Recursion
  <2>3. g \in [0..k -> X] /\ g[0] = x0
    BY <2>1, <2>2 DEF Recursion
  <2>4. \A i \in 1..k : g[i] = step[i][g[i - 1]]
    BY <2>1 DEF Recursion
  <2> HIDE DEF g
  <2>5. Recursion(g, k, X, x0, step)
    BY <2>3, <2>4 DEF Recursion
  <2> QED
    BY <2>5
<1>3. n \in T
  <2> HIDE DEF T
  <2>1. \A i \in 0..n : i \in T
    BY <1>1, <1>2, InductionUpTo
  <2> QED
    BY <2>1
<1> QED
  BY <1>3

-----------------------------------------------------------------------------
(* The filter.                                                             *)

KeepStep(s, S, A) ==
  [i \in 1..Len(s) |-> [x \in Seq(A) |-> IF s[i] \in S THEN Append(x, s[i]) ELSE x]]

LEMMA KeepStepType ==
  ASSUME NEW A, NEW s \in Seq(A), NEW S
  PROVE  /\ Len(s) \in Nat /\ <<>> \in Seq(A)
         /\ KeepStep(s, S, A) \in [1..Len(s) -> [Seq(A) -> Seq(A)]]
         /\ \A i \in 1..Len(s), x \in Seq(A) :
              KeepStep(s, S, A)[i][x] = IF s[i] \in S THEN Append(x, s[i]) ELSE x
BY DEF KeepStep

LEMMA KeepDef ==
  ASSUME NEW A, NEW s \in Seq(A), NEW S
  PROVE  \E f : /\ Recursion(f, Len(s), Seq(A), <<>>, KeepStep(s, S, A))
                /\ Keep(s, S) = f[Len(s)]
<1> DEFINE n == Len(s)
           step == KeepStep(s, S, A)
           Body(f) == [i \in 0..n |-> IF i = 0 THEN <<>>
                                      ELSE IF s[i] \in S THEN Append(f[i - 1], s[i])
                                      ELSE f[i - 1]]
           h == CHOOSE f : f = Body(f)
<1>1. n \in Nat /\ <<>> \in Seq(A) /\ step \in [1..n -> [Seq(A) -> Seq(A)]]
  BY KeepStepType
<1>2. ASSUME NEW f, NEW i \in 1..n
      PROVE  Body(f)[i] = IF s[i] \in S THEN Append(f[i - 1], s[i]) ELSE f[i - 1]
  <2>1. n \in Nat /\ i \in 0..n /\ i # 0
    BY <1>1
  <2> QED
    BY <2>1
<1>3. \A f : Body(f)[0] = <<>> /\ Body(f) = [i \in 0..n |-> Body(f)[i]]
  <2> HIDE DEF n
  <2> QED
    BY <1>1
<1>4. Keep(s, S) = h[n]
  BY DEF Keep
<1>5. \A i \in 1..n, x \in Seq(A) : step[i][x] = IF s[i] \in S THEN Append(x, s[i]) ELSE x
  BY KeepStepType
<1>6. \A i \in 1..n, x \in Seq(A) : step[i][x] \in Seq(A) /\ i - 1 \in 0..n
  BY <1>1
<1> HIDE DEF step, n, Body, h
<1>7. PICK g : Recursion(g, n, Seq(A), <<>>, step)
  BY <1>1, RecursionExists, Zenon
<1>8. g = Body(g)
  <2>1. ASSUME NEW i \in 1..n PROVE g[i] = Body(g)[i]
    <3>1. g[i - 1] \in Seq(A) /\ g[i] = step[i][g[i - 1]]
      BY <1>6, <1>7, <1>1 DEF Recursion
    <3> QED
      BY <1>2, <1>5, <3>1
  <2>2. g[0] = Body(g)[0]
    BY <1>3, <1>7 DEF Recursion
  <2>3. g = [i \in 0..n |-> g[i]] /\ \A i \in 0..n : i = 0 \/ i \in 1..n
    BY <1>7, <1>1 DEF Recursion
  <2> QED
    BY <1>3, <2>1, <2>2, <2>3
<1>9. h = Body(h)
  BY <1>8 DEF h
<1>10. h[0] = <<>>
  BY <1>3, <1>9
<1>11. \A i \in 1..n : h[i] = IF s[i] \in S THEN Append(h[i - 1], s[i]) ELSE h[i - 1]
  BY <1>2, <1>9
<1>12. \A i \in 1..n : g[i] = IF s[i] \in S THEN Append(g[i - 1], s[i]) ELSE g[i - 1]
  BY <1>2, <1>8
<1>13. AgreeSteps(h, g, n)
  <2>1. h[0] = g[0]
    BY <1>7, <1>10 DEF Recursion
  <2> QED
    BY <1>11, <1>12, <2>1 DEF AgreeSteps
<1>14. h[n] = g[n]
  BY <1>1, <1>13, SameRecursion DEF Agree
<1> QED
  BY <1>4, <1>7, <1>14 DEF n, step

\* t holds the members of s up to place n that are in S, each place of s once.
Kept(t, s, S, n) ==
  /\ \A k \in 1..Len(t) : t[k] \in S /\ \E i \in 1..n : s[i] = t[k]
  /\ \A i \in 1..n : s[i] \in S => \E k \in 1..Len(t) : t[k] = s[i]
  /\ \A k, l \in 1..Len(t) : k # l => \E i, j \in 1..n : i # j /\ s[i] = t[k] /\ s[j] = t[l]
  /\ Len(t) <= n
  /\ (\E i \in 1..n : s[i] \notin S) => Len(t) < n

LEMMA KeptMore ==
  ASSUME NEW A, NEW s \in Seq(A), NEW S, NEW n \in 1..Len(s), NEW t \in Seq(A),
         Kept(t, s, S, n - 1)
  PROVE  Kept(IF s[n] \in S THEN Append(t, s[n]) ELSE t, s, S, n)
<1>0. Len(s) \in Nat /\ Len(t) \in Nat /\ s[n] \in A
  OBVIOUS
<1>1. /\ n \in 1..n /\ \A i \in 1..n - 1 : i \in 1..n /\ i # n
      /\ \A i \in 1..n : i = n \/ i \in 1..n - 1
  OBVIOUS
<1>2. CASE s[n] \notin S
  BY <1>0, <1>1, <1>2 DEF Kept
<1>3. CASE s[n] \in S
  <2> DEFINE u == Append(t, s[n])
  <2>1. /\ u \in Seq(A) /\ Len(u) = Len(t) + 1 /\ u[Len(t) + 1] = s[n]
        /\ \A k \in 1..Len(t) : u[k] = t[k]
    BY <1>0
  <2> HIDE DEF u
  <2>2. /\ Len(t) + 1 \in 1..Len(u) /\ \A k \in 1..Len(t) : k \in 1..Len(u)
        /\ \A k \in 1..Len(u) : k = Len(t) + 1 \/ k \in 1..Len(t)
    BY <1>0, <2>1
  <2>3. ASSUME NEW k \in 1..Len(u)
        PROVE  u[k] \in S /\ \E i \in 1..n : s[i] = u[k]
    <3>1. CASE k = Len(t) + 1
      BY <1>1, <1>3, <2>1, <3>1
    <3>2. CASE k \in 1..Len(t)
      <4>1. t[k] \in S /\ \E i \in 1..n - 1 : s[i] = t[k]
        BY <3>2 DEF Kept
      <4> QED
        BY <1>1, <2>1, <3>2, <4>1
    <3> QED
      BY <2>2, <3>1, <3>2
  <2>4. ASSUME NEW i \in 1..n, s[i] \in S
        PROVE  \E k \in 1..Len(u) : u[k] = s[i]
    <3>1. CASE i = n
      BY <2>1, <2>2, <3>1
    <3>2. CASE i \in 1..n - 1
      <4>1. PICK k \in 1..Len(t) : t[k] = s[i]
        BY <2>4, <3>2 DEF Kept
      <4> QED
        BY <2>1, <2>2, <4>1
    <3> QED
      BY <1>1, <3>1, <3>2
  <2>5. ASSUME NEW k \in 1..Len(u), NEW l \in 1..Len(u), k # l
        PROVE  \E i, j \in 1..n : i # j /\ s[i] = u[k] /\ s[j] = u[l]
    <3>1. CASE k \in 1..Len(t) /\ l \in 1..Len(t)
      <4>1. PICK i \in 1..n - 1, j \in 1..n - 1 : i # j /\ s[i] = t[k] /\ s[j] = t[l]
        BY <2>5, <3>1 DEF Kept
      <4> QED
        BY <1>1, <2>1, <3>1, <4>1
    <3>2. CASE k = Len(t) + 1 /\ l \in 1..Len(t)
      <4>1. PICK j \in 1..n - 1 : s[j] = t[l]
        BY <3>2 DEF Kept
      <4> QED
        BY <1>1, <2>1, <3>2, <4>1
    <3>3. CASE k \in 1..Len(t) /\ l = Len(t) + 1
      <4>1. PICK j \in 1..n - 1 : s[j] = t[k]
        BY <3>3 DEF Kept
      <4> QED
        BY <1>1, <2>1, <3>3, <4>1
    <3> QED
      BY <2>2, <2>5, <3>1, <3>2, <3>3
  <2>6. Len(u) <= n
    BY <1>0, <2>1 DEF Kept
  <2>7. (\E i \in 1..n : s[i] \notin S) => Len(u) < n
    BY <1>0, <1>1, <1>3, <2>1 DEF Kept
  <2>8. Kept(u, s, S, n)
    BY <2>3, <2>4, <2>5, <2>6, <2>7 DEF Kept
  <2> QED
    BY <1>3, <2>8 DEF u
<1> QED
  BY <1>2, <1>3

LEMMA KeepKeeps ==
  ASSUME NEW A, NEW s \in Seq(A), NEW S
  PROVE  Keep(s, S) \in Seq(A) /\ Kept(Keep(s, S), s, S, Len(s))
<1> DEFINE n == Len(s)
<1>0. n \in Nat
  OBVIOUS
<1>1. PICK f : /\ Recursion(f, n, Seq(A), <<>>, KeepStep(s, S, A))
               /\ Keep(s, S) = f[n]
  BY KeepDef
<1> DEFINE T == {i \in 0..n : Kept(f[i], s, S, i)}
<1>2. 0 \in T
  <2>1. f[0] = <<>>
    BY <1>1 DEF Recursion
  <2>2. Kept(f[0], s, S, 0)
    BY <2>1 DEF Kept
  <2> QED
    BY <1>0, <2>2
<1>3. ASSUME NEW i \in 1..n, i - 1 \in T PROVE i \in T
  <2>1. f[i - 1] \in Seq(A) /\ f[i] = KeepStep(s, S, A)[i][f[i - 1]]
    BY <1>0, <1>1 DEF Recursion
  <2>2. f[i] = IF s[i] \in S THEN Append(f[i - 1], s[i]) ELSE f[i - 1]
    BY <2>1, KeepStepType
  <2>3. Kept(f[i - 1], s, S, i - 1)
    BY <1>3
  <2>4. Kept(f[i], s, S, i)
    BY <2>1, <2>2, <2>3, KeptMore
  <2> QED
    BY <1>0, <2>4
<1>4. n \in T
  <2> HIDE DEF T, n
  <2>1. \A i \in 0..n : i \in T
    BY <1>0, <1>2, <1>3, InductionUpTo
  <2> QED
    BY <1>0, <2>1
<1> QED
  BY <1>0, <1>1, <1>4 DEF Recursion

-----------------------------------------------------------------------------
(* The gas bound.                                                          *)

\* f gives the gas of every prefix of pkgs.
Sums(f, pkgs) ==
  /\ f \in [0..Len(pkgs) -> Nat] /\ f[0] = 0
  /\ \A i \in 1..Len(pkgs) : f[i] = f[i - 1] + Gas[pkgs[i]]

LEMMA GasOfSums ==
  ASSUME NEW pkgs \in Seq(Packages)
  PROVE  \E f : Sums(f, pkgs) /\ GasOf(pkgs) = f[Len(pkgs)]
<1> DEFINE n == Len(pkgs)
           step == [i \in 1..n |-> [x \in Nat |-> x + Gas[pkgs[i]]]]
           Body(f) == [i \in 0..n |-> IF i = 0 THEN 0 ELSE f[i - 1] + Gas[pkgs[i]]]
           h == CHOOSE f : f = Body(f)
<1>0. n \in Nat /\ \A i \in 1..n : Gas[pkgs[i]] \in Nat
  BY QueueConstants
<1>1. step \in [1..n -> [Nat -> Nat]] /\ \A i \in 1..n, x \in Nat : step[i][x] = x + Gas[pkgs[i]]
  BY <1>0
<1>2. ASSUME NEW f, NEW i \in 1..n
      PROVE  Body(f)[i] = f[i - 1] + Gas[pkgs[i]]
  <2>1. n \in Nat /\ i \in 0..n /\ i # 0
    BY <1>0
  <2> QED
    BY <2>1
<1>3. \A f : Body(f)[0] = 0 /\ Body(f) = [i \in 0..n |-> Body(f)[i]]
  <2> HIDE DEF n
  <2> QED
    BY <1>0
<1>4. GasOf(pkgs) = h[n]
  BY DEF GasOf
<1> HIDE DEF step, n, Body, h
<1>5. PICK g : Recursion(g, n, Nat, 0, step)
  <2>1. 0 \in Nat
    OBVIOUS
  <2> QED
    BY <1>0, <1>1, <2>1, RecursionExists, Zenon
<1>6. \A i \in 1..n : g[i] = g[i - 1] + Gas[pkgs[i]]
  <2> TAKE i \in 1..n
  <2>1. i - 1 \in 0..n
    BY <1>0
  <2>2. g[i - 1] \in Nat /\ g[i] = step[i][g[i - 1]]
    BY <1>5, <2>1 DEF Recursion
  <2> QED
    BY <1>1, <2>2
<1>7. g = Body(g)
  <2>1. \A i \in 1..n : g[i] = Body(g)[i]
    BY <1>2, <1>6
  <2>2. g[0] = Body(g)[0]
    BY <1>3, <1>5 DEF Recursion
  <2>3. g = [i \in 0..n |-> g[i]] /\ \A i \in 0..n : i = 0 \/ i \in 1..n
    BY <1>5, <1>0 DEF Recursion
  <2> QED
    BY <1>3, <2>1, <2>2, <2>3
<1>8. h = Body(h)
  BY <1>7 DEF h
<1>9. AgreeSteps(h, g, n)
  <2>1. h[0] = g[0]
    BY <1>3, <1>5, <1>8 DEF Recursion
  <2>2. \A i \in 1..n : h[i] = h[i - 1] + Gas[pkgs[i]]
    BY <1>2, <1>8
  <2> QED
    BY <1>6, <2>1, <2>2 DEF AgreeSteps
<1>10. h[n] = g[n]
  BY <1>0, <1>9, SameRecursion DEF Agree
<1>11. Sums(g, pkgs)
  BY <1>5, <1>6 DEF Recursion, Sums, n
<1> QED
  BY <1>4, <1>10, <1>11 DEF n

\* The gas of a prefix is a partial sum.
LEMMA GasOfPrefix ==
  ASSUME NEW pkgs \in Seq(Packages), NEW f, Sums(f, pkgs), NEW m \in 0..Len(pkgs)
  PROVE  GasOf(SubSeq(pkgs, 1, m)) = f[m]
<1> DEFINE t == SubSeq(pkgs, 1, m)
<1>1. t \in Seq(Packages) /\ Len(t) = m /\ m \in Nat /\ \A i \in 1..m : t[i] = pkgs[i] /\ i \in 1..Len(pkgs)
  OBVIOUS
<1> HIDE DEF t
<1>2. PICK g : Sums(g, t) /\ GasOf(t) = g[m]
  BY <1>1, GasOfSums
<1>3. AgreeSteps(g, f, m)
  BY <1>1, <1>2 DEF AgreeSteps, Sums
<1>4. g[m] = f[m]
  BY <1>1, <1>3, SameRecursion DEF Agree
<1> QED
  BY <1>2, <1>4 DEF t

\* A bounded set of numbers has a greatest one.
LEMMA GreatestNumber ==
  ASSUME NEW n \in Nat, NEW T, T \subseteq 0..n, T # {}
  PROVE  Max(T) \in T /\ \A y \in T : y <= Max(T)
<1> DEFINE D == {n - y : y \in T}
<1>0. \A y \in T : y \in Nat /\ n - y \in Nat /\ n - y \in D
  OBVIOUS
<1>1. D \subseteq Nat /\ D # {}
  <2>1. \A d \in D : \E y \in T : d = n - y
    OBVIOUS
  <2> HIDE DEF D
  <2> QED
    BY <1>0, <2>1
<1>2. PICK d \in D : \A y \in D : d <= y
  BY <1>1, LeastNumber
<1>3. PICK x \in T : d = n - x
  BY <1>2
<1> HIDE DEF D
<1>4. \A y \in T : x >= y
  <2> TAKE y \in T
  <2>1. n - x <= n - y
    BY <1>0, <1>2, <1>3
  <2> QED
    BY <1>0, <2>1
<1> QED
  BY <1>0, <1>4 DEF Max

\* WithinGas returns the longest prefix that fits: what comes next does not.
LEMMA WithinGasFits ==
  ASSUME NEW pkgs \in Seq(Packages), NEW f, Sums(f, pkgs)
  PROVE  \E n \in 0..Len(pkgs) :
           /\ WithinGas(pkgs) = SubSeq(pkgs, 1, n)
           /\ GasOf(WithinGas(pkgs)) = f[n]
           /\ \A m \in 0..Len(pkgs) : f[m] <= BlockGas => m <= n
           /\ n < Len(pkgs) => f[n] + Gas[pkgs[n + 1]] > BlockGas
<1> DEFINE T == {n \in 0..Len(pkgs) : GasOf(SubSeq(pkgs, 1, n)) <= BlockGas}
           n == Max(T)
<1>1. Len(pkgs) \in Nat /\ f \in [0..Len(pkgs) -> Nat] /\ BlockGas \in Nat
  BY QueueConstants DEF Sums
<1>2. \A m \in 0..Len(pkgs) : GasOf(SubSeq(pkgs, 1, m)) = f[m]
  BY GasOfPrefix
<1>3. 0 \in T
  BY <1>1, <1>2 DEF Sums
<1>4. n \in T /\ \A y \in T : y <= n
  <2> HIDE DEF T
  <2>1. T \subseteq 0..Len(pkgs)
    BY DEF T
  <2> QED
    BY <1>1, <1>3, <2>1, GreatestNumber
<1>5. WithinGas(pkgs) = SubSeq(pkgs, 1, n)
  BY DEF WithinGas
<1> HIDE DEF n
<1>6. n \in 0..Len(pkgs) /\ \A m \in 0..Len(pkgs) : f[m] <= BlockGas => m <= n
  BY <1>2, <1>4
<1>7. ASSUME n < Len(pkgs) PROVE f[n] + Gas[pkgs[n + 1]] > BlockGas
  <2>1. n + 1 \in 1..Len(pkgs) /\ n + 1 \in 0..Len(pkgs) /\ ~ (n + 1 <= n)
    BY <1>1, <1>6, <1>7
  <2>2. f[n + 1] = f[n] + Gas[pkgs[n + 1]]
    BY <1>1, <1>6, <2>1 DEF Sums
  <2>3. ~ (f[n + 1] <= BlockGas) /\ f[n + 1] \in Nat
    BY <1>1, <1>6, <2>1
  <2> QED
    BY <1>1, <2>2, <2>3
<1> QED
  BY <1>2, <1>5, <1>6, <1>7

-----------------------------------------------------------------------------
(* The queue-editing function and the priority queue.                      *)

Entry == [pkg : Packages, deps : SUBSET Packages]

\* What is left of an entry when acc has been accumulated.
Cut(e, acc) == [pkg |-> e.pkg, deps |-> e.deps \ acc]

\* No package is in two entries.
OnceEach(es) == \A i, j \in 1..Len(es) : es[i].pkg = es[j].pkg => i = j

\* t is es without the entries of acc and without what they waited for in it.
Edited(t, es, acc) ==
  /\ \A k \in 1..Len(t) : \E i \in 1..Len(es) : t[k] = Cut(es[i], acc) /\ es[i].pkg \notin acc
  /\ \A i \in 1..Len(es) : es[i].pkg \notin acc => \E k \in 1..Len(t) : t[k] = Cut(es[i], acc)
  /\ OnceEach(es) => OnceEach(t)
  /\ Len(t) <= Len(es)
  /\ (\E i \in 1..Len(es) : es[i].pkg \in acc) => Len(t) < Len(es)

LEMMA EntryFields ==
  /\ \A e \in Entry : e.pkg \in Packages /\ e.deps \subseteq Packages
  /\ \A e \in Entry : \A acc : /\ Cut(e, acc) \in Entry /\ Cut(e, acc).pkg = e.pkg
                               /\ Cut(e, acc).deps = e.deps \ acc
BY DEF Entry, Cut

LEMMA MembersOf ==
  ASSUME NEW A, NEW s \in Seq(A)
  PROVE  /\ \A i \in 1..Len(s) : s[i] \in ToSet(s) /\ s[i] \in A
         /\ \A x \in ToSet(s) : \E i \in 1..Len(s) : s[i] = x
         /\ ToSet(s) \subseteq A
BY DEF ToSet

LEMMA EditEdits ==
  ASSUME NEW es \in Seq(Entry), NEW acc
  PROVE  Edit(es, acc) \in Seq(Entry) /\ Edited(Edit(es, acc), es, acc)
<1> DEFINE S == {e \in ToSet(es) : e.pkg \notin acc}
           left == Keep(es, S)
           t == Edit(es, acc)
<1>1. left \in Seq(Entry) /\ Kept(left, es, S, Len(es))
  BY KeepKeeps
<1>2. \A i \in 1..Len(es) : es[i] \in S <=> es[i].pkg \notin acc
  BY MembersOf
<1>3. t = [i \in DOMAIN left |-> Cut(left[i], acc)]
  BY DEF Edit, Cut
<1> HIDE DEF S, left, t
<1>4. /\ t \in Seq(Entry) /\ Len(t) = Len(left) /\ Len(left) \in Nat
      /\ \A k \in 1..Len(left) : t[k] = Cut(left[k], acc)
  <2>1. \A k \in 1..Len(left) : Cut(left[k], acc) \in Entry
    BY <1>1, EntryFields
  <2> QED
    BY <1>1, <1>3, <2>1
<1>5. ASSUME NEW k \in 1..Len(t)
      PROVE  \E i \in 1..Len(es) : t[k] = Cut(es[i], acc) /\ es[i].pkg \notin acc
  <2>1. k \in 1..Len(left)
    BY <1>4
  <2>2. PICK i \in 1..Len(es) : es[i] = left[k] /\ es[i] \in S
    BY <1>1, <2>1 DEF Kept
  <2> QED
    BY <1>2, <1>4, <2>1, <2>2
<1>6. ASSUME NEW i \in 1..Len(es), es[i].pkg \notin acc
      PROVE  \E k \in 1..Len(t) : t[k] = Cut(es[i], acc)
  <2>1. PICK k \in 1..Len(left) : left[k] = es[i]
    BY <1>1, <1>2, <1>6 DEF Kept
  <2> QED
    BY <1>4, <2>1
<1>7. ASSUME OnceEach(es), NEW k \in 1..Len(t), NEW l \in 1..Len(t), t[k].pkg = t[l].pkg
      PROVE  k = l
  <2> SUFFICES ASSUME k # l PROVE FALSE
    OBVIOUS
  <2>1. PICK i \in 1..Len(es), j \in 1..Len(es) : i # j /\ es[i] = left[k] /\ es[j] = left[l]
    BY <1>1, <1>4 DEF Kept
  <2>2. es[i] \in Entry /\ es[j] \in Entry /\ t[k] = Cut(es[i], acc) /\ t[l] = Cut(es[j], acc)
    BY <1>4, <2>1
  <2>3. es[i].pkg = es[j].pkg
    BY <1>7, <2>2, EntryFields
  <2> QED
    BY <1>7, <2>1, <2>3 DEF OnceEach
<1>8. OnceEach(es) => OnceEach(t)
  BY <1>7 DEF OnceEach
<1>9. Len(t) <= Len(es) /\ ((\E i \in 1..Len(es) : es[i].pkg \in acc) => Len(t) < Len(es))
  BY <1>1, <1>2, <1>4 DEF Kept
<1> QED
  BY <1>4, <1>5, <1>6, <1>8, <1>9 DEF t, Edited

LEMMA EditPackages ==
  ASSUME NEW es \in Seq(Entry), NEW acc
  PROVE  PackageOf(Edit(es, acc)) = PackageOf(es) \ acc
<1> DEFINE t == Edit(es, acc)
<1>1. t \in Seq(Entry) /\ Edited(t, es, acc)
  BY EditEdits
<1> HIDE DEF t
<1>2. \A i \in 1..Len(es) : es[i] \in Entry /\ Cut(es[i], acc).pkg = es[i].pkg
  BY EntryFields
<1>3. DOMAIN t = 1..Len(t) /\ DOMAIN es = 1..Len(es)
  BY <1>1
<1>4. ASSUME NEW k \in 1..Len(t) PROVE t[k].pkg \in PackageOf(es) \ acc
  <2>1. PICK i \in 1..Len(es) : t[k] = Cut(es[i], acc) /\ es[i].pkg \notin acc
    BY <1>1 DEF Edited
  <2> QED
    BY <1>2, <1>3, <2>1 DEF PackageOf
<1>5. ASSUME NEW i \in 1..Len(es), es[i].pkg \notin acc PROVE es[i].pkg \in PackageOf(t)
  <2>1. PICK k \in 1..Len(t) : t[k] = Cut(es[i], acc)
    BY <1>1, <1>5 DEF Edited
  <2> QED
    BY <1>2, <1>3, <2>1 DEF PackageOf
<1> QED
  BY <1>3, <1>4, <1>5 DEF PackageOf, t

\* The entries that lack nothing, each once.
LEMMA UnblockedEntries ==
  ASSUME NEW es \in Seq(Entry)
  PROVE  /\ Unblocked(es) \in Seq(Entry)
         /\ \A k \in 1..Len(Unblocked(es)) :
              Unblocked(es)[k].deps = {} /\ \E i \in 1..Len(es) : es[i] = Unblocked(es)[k]
         /\ \A i \in 1..Len(es) : es[i].deps = {} => \E k \in 1..Len(Unblocked(es)) :
                                                       Unblocked(es)[k] = es[i]
         /\ OnceEach(es) => OnceEach(Unblocked(es))
<1> DEFINE S == {e \in ToSet(es) : e.deps = {}}
           t == Keep(es, S)
<1>1. t \in Seq(Entry) /\ Kept(t, es, S, Len(es))
  BY KeepKeeps
<1>2. \A i \in 1..Len(es) : es[i] \in S <=> es[i].deps = {}
  BY MembersOf
<1>3. \A k \in 1..Len(t) : t[k] \in S /\ t[k].deps = {} /\ \E i \in 1..Len(es) : es[i] = t[k]
  BY <1>1 DEF Kept
<1>4. t = Unblocked(es)
  BY DEF Unblocked
<1> HIDE DEF t, S
<1>5. \A i \in 1..Len(es) : es[i].deps = {} => \E k \in 1..Len(t) : t[k] = es[i]
  BY <1>1, <1>2 DEF Kept
<1>6. ASSUME OnceEach(es), NEW k \in 1..Len(t), NEW l \in 1..Len(t), t[k].pkg = t[l].pkg
      PROVE  k = l
  <2> SUFFICES ASSUME k # l PROVE FALSE
    OBVIOUS
  <2>1. PICK i \in 1..Len(es), j \in 1..Len(es) : i # j /\ es[i] = t[k] /\ es[j] = t[l]
    BY <1>1 DEF Kept
  <2> QED
    BY <1>6, <2>1 DEF OnceEach
<1>7. OnceEach(es) => OnceEach(t)
  BY <1>6 DEF OnceEach
<1> QED
  BY <1>1, <1>3, <1>4, <1>5, <1>7

\* The state between two calls of the recursion.
Call == [out : Seq(Packages), rest : Seq(Entry)]

\* No package twice.
Once(pkgs) == \A k, l \in 1..Len(pkgs) : pkgs[k] = pkgs[l] => k = l

\* The k-th report has an entry of es whose dependencies come before it.
HasEntry(out, k, es) ==
  \E i \in 1..Len(es) : /\ es[i].pkg = out[k]
                        /\ \A q \in es[i].deps : \E l \in 1..k - 1 : out[l] = q

\* After n calls: x.rest is what is left of es when x.out is accumulated, and
\* there is a call left for every entry of it or nothing can be accumulated.
Called(x, es, n) ==
  /\ \A j \in 1..Len(x.rest) : \E i \in 1..Len(es) :
       x.rest[j] = Cut(es[i], ToSet(x.out)) /\ es[i].pkg \notin ToSet(x.out)
  /\ \A i \in 1..Len(es) : es[i].pkg \notin ToSet(x.out) =>
       \E j \in 1..Len(x.rest) : x.rest[j] = Cut(es[i], ToSet(x.out))
  /\ \A k \in 1..Len(x.out) : HasEntry(x.out, k, es)
  /\ OnceEach(es) => OnceEach(x.rest) /\ Once(x.out)
  /\ (\E j \in 1..Len(x.rest) : x.rest[j].deps = {}) => Len(x.rest) + n <= Len(es)

LEMMA CallStart ==
  ASSUME NEW es \in Seq(Entry)
  PROVE  /\ [out |-> <<>>, rest |-> es] \in Call
         /\ Called([out |-> <<>>, rest |-> es], es, 0)
<1> DEFINE x == [out |-> <<>>, rest |-> es]
<1>1. x \in Call /\ x.out = <<>> /\ x.rest = es /\ ToSet(x.out) = {} /\ Len(x.out) = 0
  BY DEF Call, ToSet
<1> HIDE DEF x
<1>2. \A i \in 1..Len(es) : es[i] \in Entry /\ Cut(es[i], {}) = es[i]
  <2>1. \A e \in Entry : e.deps \ {} = e.deps /\ e = [pkg |-> e.pkg, deps |-> e.deps]
    BY DEF Entry
  <2> QED
    BY <2>1 DEF Cut
<1>3. Once(x.out) /\ Len(es) \in Nat
  BY <1>1 DEF Once
<1>4. \A k \in 1..Len(x.out) : HasEntry(x.out, k, es)
  BY <1>1
<1>5. \A j \in 1..Len(x.rest) : \E i \in 1..Len(es) :
        x.rest[j] = Cut(es[i], ToSet(x.out)) /\ es[i].pkg \notin ToSet(x.out)
  BY <1>1, <1>2
<1>6. \A i \in 1..Len(es) : \E j \in 1..Len(x.rest) : x.rest[j] = Cut(es[i], ToSet(x.out))
  BY <1>1, <1>2
<1>7. Called(x, es, 0)
  BY <1>1, <1>3, <1>4, <1>5, <1>6 DEF Called
<1> QED
  BY <1>1, <1>7 DEF x

\* What a call returns before it calls itself.
FirstOut(x) == [i \in DOMAIN Unblocked(x.rest) |-> Unblocked(x.rest)[i].pkg]

LEMMA FirstOutPackages ==
  ASSUME NEW x \in Call
  PROVE  /\ FirstOut(x) \in Seq(Packages)
         /\ ToSet(FirstOut(x)) = PackageOf(Unblocked(x.rest))
         /\ \A k \in 1..Len(FirstOut(x)) : \E j \in 1..Len(x.rest) :
              x.rest[j].pkg = FirstOut(x)[k] /\ x.rest[j].deps = {}
         /\ \A j \in 1..Len(x.rest) : x.rest[j].deps = {} => x.rest[j].pkg \in ToSet(FirstOut(x))
         /\ OnceEach(x.rest) => Once(FirstOut(x))
<1> DEFINE u == Unblocked(x.rest)
           t == FirstOut(x)
<1>1. x.rest \in Seq(Entry)
  BY DEF Call
<1>2. u \in Seq(Entry) /\ \A k \in 1..Len(u) : u[k].pkg \in Packages
  BY <1>1, UnblockedEntries, EntryFields
<1> HIDE DEF u
<1>3. /\ t \in Seq(Packages) /\ Len(t) = Len(u) /\ DOMAIN t = 1..Len(u) /\ DOMAIN u = 1..Len(u)
      /\ \A k \in 1..Len(u) : t[k] = u[k].pkg
  BY <1>2 DEF FirstOut, u
<1> HIDE DEF t
<1>4. ToSet(t) = PackageOf(u)
  BY <1>3 DEF ToSet, PackageOf
<1>5. ASSUME NEW k \in 1..Len(t)
      PROVE  \E j \in 1..Len(x.rest) : x.rest[j].pkg = t[k] /\ x.rest[j].deps = {}
  <2>1. u[k].deps = {} /\ \E j \in 1..Len(x.rest) : x.rest[j] = u[k]
    BY <1>1, <1>3, UnblockedEntries DEF u
  <2> QED
    BY <1>3, <2>1
<1>6. ASSUME NEW j \in 1..Len(x.rest), x.rest[j].deps = {} PROVE x.rest[j].pkg \in ToSet(t)
  <2>1. PICK k \in 1..Len(u) : u[k] = x.rest[j]
    BY <1>1, <1>6, UnblockedEntries DEF u
  <2> QED
    BY <1>3, <2>1 DEF ToSet
<1>7. OnceEach(x.rest) => Once(t)
  BY <1>1, <1>3, UnblockedEntries DEF u, OnceEach, Once
<1> QED
  BY <1>3, <1>4, <1>5, <1>6, <1>7 DEF t, u

LEMMA ConcatMembers ==
  ASSUME NEW A, NEW s \in Seq(A), NEW t \in Seq(A)
  PROVE  /\ s \o t \in Seq(A) /\ Len(s \o t) = Len(s) + Len(t)
         /\ \A k \in 1..Len(s) : (s \o t)[k] = s[k] /\ k \in 1..Len(s \o t)
         /\ \A k \in 1..Len(t) : (s \o t)[Len(s) + k] = t[k] /\ Len(s) + k \in 1..Len(s \o t)
         /\ \A k \in 1..Len(s \o t) : k \in 1..Len(s) \/ \E l \in 1..Len(t) : k = Len(s) + l
         /\ ToSet(s \o t) = ToSet(s) \cup ToSet(t)
<1> DEFINE u == s \o t
<1>1. /\ u \in Seq(A) /\ Len(u) = Len(s) + Len(t) /\ Len(s) \in Nat /\ Len(t) \in Nat
      /\ DOMAIN u = 1..Len(u) /\ DOMAIN s = 1..Len(s) /\ DOMAIN t = 1..Len(t)
  OBVIOUS
<1>2. \A k \in 1..Len(s) : u[k] = s[k]
  OBVIOUS
<1>3. \A k \in 1..Len(t) : u[Len(s) + k] = t[k]
  OBVIOUS
<1> HIDE DEF u
<1>4. ASSUME NEW k \in 1..Len(u) PROVE k \in 1..Len(s) \/ \E l \in 1..Len(t) : k = Len(s) + l
  <2>1. k \in 1..Len(s) \/ (k - Len(s) \in 1..Len(t) /\ k = Len(s) + (k - Len(s)))
    BY <1>1
  <2> QED
    BY <2>1
<1>5. /\ \A k \in 1..Len(s) : k \in 1..Len(u)
      /\ \A k \in 1..Len(t) : Len(s) + k \in 1..Len(u)
  BY <1>1
<1>6. ToSet(u) \subseteq ToSet(s) \cup ToSet(t)
  <2> SUFFICES ASSUME NEW k \in 1..Len(u) PROVE u[k] \in ToSet(s) \cup ToSet(t)
    BY <1>1 DEF ToSet
  <2>1. CASE k \in 1..Len(s)
    BY <1>1, <1>2, <2>1 DEF ToSet
  <2>2. CASE \E l \in 1..Len(t) : k = Len(s) + l
    BY <1>1, <1>3, <2>2 DEF ToSet
  <2> QED
    BY <1>4, <2>1, <2>2
<1>7. ToSet(s) \subseteq ToSet(u)
  BY <1>1, <1>2, <1>5 DEF ToSet
<1>8. ToSet(t) \subseteq ToSet(u)
  <2> SUFFICES ASSUME NEW k \in 1..Len(t) PROVE t[k] \in ToSet(u)
    BY <1>1 DEF ToSet
  <2>1. Len(s) + k \in DOMAIN u /\ u[Len(s) + k] = t[k]
    BY <1>1, <1>3, <1>5
  <2> QED
    BY <2>1 DEF ToSet
<1> QED
  BY <1>1, <1>2, <1>3, <1>4, <1>5, <1>6, <1>7, <1>8 DEF u

LEMMA CallNext ==
  ASSUME NEW es \in Seq(Entry), NEW x \in Call, NEW n \in Nat, Called(x, es, n)
  PROVE  PriorityStep(x) \in Call /\ Called(PriorityStep(x), es, n + 1)
<1> DEFINE f == FirstOut(x)
           r == x.rest
           acc == PackageOf(Unblocked(r))
           y == PriorityStep(x)
           O == ToSet(x.out)
           W == ToSet(y.out)
<1>0. r \in Seq(Entry) /\ x.out \in Seq(Packages) /\ Len(r) \in Nat /\ Len(es) \in Nat
  BY DEF Call
<1>1. /\ f \in Seq(Packages) /\ ToSet(f) = acc
      /\ \A k \in 1..Len(f) : \E j \in 1..Len(r) : r[j].pkg = f[k] /\ r[j].deps = {}
      /\ \A j \in 1..Len(r) : r[j].deps = {} => r[j].pkg \in acc
      /\ OnceEach(r) => Once(f)
  BY FirstOutPackages
<1>2. y.out = x.out \o f /\ y.rest = Edit(r, acc) /\ y = [out |-> y.out, rest |-> y.rest]
  BY DEF PriorityStep, FirstOut
<1>3. y.rest \in Seq(Entry) /\ Edited(y.rest, r, acc)
  BY <1>0, <1>2, EditEdits
<1> HIDE DEF f, acc, y, r
<1>4. /\ y.out \in Seq(Packages) /\ Len(y.out) = Len(x.out) + Len(f)
      /\ \A k \in 1..Len(x.out) : y.out[k] = x.out[k]
      /\ \A k \in 1..Len(f) : y.out[Len(x.out) + k] = f[k]
      /\ \A k \in 1..Len(y.out) : k \in 1..Len(x.out) \/ \E l \in 1..Len(f) : k = Len(x.out) + l
      /\ W = O \cup acc
  <2> DEFINE b == x.out
             u == b \o f
  <2>1. b \in Seq(Packages) /\ f \in Seq(Packages) /\ y.out = u
    BY <1>0, <1>1, <1>2
  <2> HIDE DEF b
  <2>2. /\ u \in Seq(Packages) /\ Len(u) = Len(b) + Len(f)
        /\ \A k \in 1..Len(b) : u[k] = b[k]
        /\ \A k \in 1..Len(f) : u[Len(b) + k] = f[k]
        /\ \A k \in 1..Len(u) : k \in 1..Len(b) \/ \E l \in 1..Len(f) : k = Len(b) + l
        /\ ToSet(u) = ToSet(b) \cup ToSet(f)
    BY <2>1, ConcatMembers
  <2> HIDE DEF u
  <2> QED
    BY <1>1, <2>1, <2>2 DEF b
<1>5. y \in Call
  BY <1>2, <1>3, <1>4 DEF Call
<1>6. /\ \A j \in 1..Len(r) : \E i \in 1..Len(es) : r[j] = Cut(es[i], O) /\ es[i].pkg \notin O
      /\ \A i \in 1..Len(es) : es[i].pkg \notin O => \E j \in 1..Len(r) : r[j] = Cut(es[i], O)
  BY DEF Called, r
<1>7. \A i \in 1..Len(es) : /\ es[i] \in Entry /\ Cut(es[i], O).pkg = es[i].pkg
                            /\ Cut(es[i], O).deps = es[i].deps \ O
                            /\ Cut(Cut(es[i], O), acc) = Cut(es[i], W)
  <2> TAKE i \in 1..Len(es)
  <2>1. es[i] \in Entry /\ Cut(es[i], O).pkg = es[i].pkg /\ Cut(es[i], O).deps = es[i].deps \ O
    BY EntryFields
  <2>2. (es[i].deps \ O) \ acc = es[i].deps \ W
    BY <1>4
  <2>3. Cut(Cut(es[i], O), acc) = Cut(es[i], W)
    BY <2>1, <2>2 DEF Cut
  <2> QED
    BY <2>1, <2>3
<1> HIDE DEF O, W
<1>8. ASSUME NEW j \in 1..Len(y.rest)
      PROVE  \E i \in 1..Len(es) : y.rest[j] = Cut(es[i], W) /\ es[i].pkg \notin W
  <2>1. PICK k \in 1..Len(r) : y.rest[j] = Cut(r[k], acc) /\ r[k].pkg \notin acc
    BY <1>3 DEF Edited
  <2>2. PICK i \in 1..Len(es) : r[k] = Cut(es[i], O) /\ es[i].pkg \notin O
    BY <1>6
  <2>3. y.rest[j] = Cut(es[i], W)
    BY <1>7, <2>1, <2>2
  <2>4. es[i].pkg \notin W
    BY <1>4, <1>7, <2>1, <2>2
  <2> QED
    BY <2>3, <2>4
<1>9. ASSUME NEW i \in 1..Len(es), es[i].pkg \notin W
      PROVE  \E j \in 1..Len(y.rest) : y.rest[j] = Cut(es[i], W)
  <2>1. es[i].pkg \notin O /\ es[i].pkg \notin acc
    BY <1>4, <1>9
  <2>2. PICK k \in 1..Len(r) : r[k] = Cut(es[i], O)
    BY <1>6, <2>1
  <2>3. r[k].pkg \notin acc
    BY <1>7, <2>1, <2>2
  <2>4. PICK j \in 1..Len(y.rest) : y.rest[j] = Cut(r[k], acc)
    BY <1>3, <2>3 DEF Edited
  <2> QED
    BY <1>7, <2>2, <2>4
<1>10. ASSUME NEW k \in 1..Len(y.out) PROVE HasEntry(y.out, k, es)
  <2>0. Len(x.out) \in Nat
    BY <1>0
  <2>1. CASE k \in 1..Len(x.out)
    <3>1. PICK i \in 1..Len(es) : /\ es[i].pkg = x.out[k]
                                  /\ \A q \in es[i].deps : \E l \in 1..k - 1 : x.out[l] = q
      BY <2>1 DEF Called, HasEntry
    <3>2. \A l \in 1..k - 1 : y.out[l] = x.out[l]
      BY <1>4, <2>0, <2>1
    <3>3. es[i].pkg = y.out[k]
      BY <1>4, <2>1, <3>1
    <3>4. \A q \in es[i].deps : \E l \in 1..k - 1 : y.out[l] = q
      BY <3>1, <3>2
    <3> QED
      BY <3>3, <3>4 DEF HasEntry
  <2>2. CASE \E l \in 1..Len(f) : k = Len(x.out) + l
    <3>1. PICK m \in 1..Len(f) : k = Len(x.out) + m
      BY <2>2
    <3>2. PICK j \in 1..Len(r) : r[j].pkg = f[m] /\ r[j].deps = {}
      BY <1>1
    <3>3. PICK i \in 1..Len(es) : r[j] = Cut(es[i], O)
      BY <1>6
    <3>4. es[i].pkg = y.out[k] /\ es[i].deps \subseteq O
      BY <1>4, <1>7, <3>1, <3>2, <3>3
    <3>5. ASSUME NEW q \in O PROVE \E l \in 1..k - 1 : y.out[l] = q
      <4>1. PICK l \in 1..Len(x.out) : x.out[l] = q
        BY <1>0 DEF O, ToSet
      <4>2. l \in 1..k - 1
        BY <2>0, <3>1
      <4> QED
        BY <1>4, <4>1, <4>2
    <3> QED
      BY <3>4, <3>5 DEF HasEntry
  <2> QED
    BY <1>4, <2>1, <2>2
<1>11. ASSUME OnceEach(es) PROVE OnceEach(y.rest) /\ Once(y.out)
  <2>1. OnceEach(r) /\ Once(x.out) /\ Once(f) /\ OnceEach(y.rest)
    BY <1>1, <1>3, <1>11 DEF Called, Edited, r
  <2>2. ASSUME NEW k \in 1..Len(x.out), NEW m \in 1..Len(f) PROVE x.out[k] # f[m]
    <3>1. PICK j \in 1..Len(r) : r[j].pkg = f[m]
      BY <1>1
    <3>2. f[m] \notin O
      BY <1>6, <1>7, <3>1
    <3>3. x.out[k] \in O
      BY <1>0 DEF O, ToSet
    <3> QED
      BY <3>2, <3>3
  <2>3. ASSUME NEW k \in 1..Len(y.out), NEW l \in 1..Len(y.out), y.out[k] = y.out[l]
        PROVE  k = l
    <3>1. CASE k \in 1..Len(x.out) /\ l \in 1..Len(x.out)
      BY <1>4, <2>1, <2>3, <3>1 DEF Once
    <3>2. CASE k \in 1..Len(x.out) /\ l \notin 1..Len(x.out)
      <4>1. PICK m \in 1..Len(f) : l = Len(x.out) + m
        BY <1>4, <3>2
      <4>2. y.out[k] = x.out[k] /\ y.out[l] = f[m]
        BY <1>4, <3>2, <4>1
      <4> QED
        BY <2>2, <2>3, <3>2, <4>2
    <3>3. CASE k \notin 1..Len(x.out) /\ l \in 1..Len(x.out)
      <4>1. PICK m \in 1..Len(f) : k = Len(x.out) + m
        BY <1>4, <3>3
      <4>2. y.out[l] = x.out[l] /\ y.out[k] = f[m]
        BY <1>4, <3>3, <4>1
      <4> QED
        BY <2>2, <2>3, <3>3, <4>2
    <3>4. CASE k \notin 1..Len(x.out) /\ l \notin 1..Len(x.out)
      <4>1. PICK a \in 1..Len(f), b \in 1..Len(f) : k = Len(x.out) + a /\ l = Len(x.out) + b
        BY <1>4, <3>4
      <4>2. a = b
        BY <1>4, <2>1, <2>3, <4>1 DEF Once
      <4> QED
        BY <4>1, <4>2
    <3> QED
      BY <3>1, <3>2, <3>3, <3>4
  <2> QED
    BY <2>1, <2>3 DEF Once
<1>12. ASSUME NEW j \in 1..Len(y.rest), y.rest[j].deps = {}
       PROVE  Len(y.rest) + (n + 1) <= Len(es)
  <2>0. Len(y.rest) \in Nat
    BY <1>3
  <2>1. PICK k \in 1..Len(r) : y.rest[j] = Cut(r[k], acc) /\ r[k].pkg \notin acc
    BY <1>3 DEF Edited
  <2>2. CASE acc = {}
    <3>1. r[k] \in Entry /\ r[k].deps = {}
      <4>1. r[k] \in Entry
        BY <1>0
      <4>2. Cut(r[k], acc).deps = r[k].deps \ acc
        BY <4>1, EntryFields
      <4> QED
        BY <1>12, <2>1, <2>2, <4>1, <4>2
    <3> QED
      BY <1>1, <2>2, <3>1
  <2>3. CASE acc # {}
    <3>1. PICK q \in acc : TRUE
      BY <2>3
    <3>2. PICK i \in 1..Len(r) : r[i].pkg = q /\ r[i].deps = {}
      <4>1. PICK m \in 1..Len(f) : f[m] = q
        BY <1>1, <3>1, MembersOf
      <4> QED
        BY <1>1, <4>1
    <3>3. Len(y.rest) < Len(r)
      BY <1>3, <3>1, <3>2 DEF Edited
    <3>4. Len(r) + n <= Len(es)
      BY <3>2 DEF Called, r
    <3>5. Len(r) \in Nat /\ Len(es) \in Nat /\ n \in Nat
      BY <1>0
    <3>6. \A a, b, c, d \in Nat : a < b /\ b + d <= c => a + (d + 1) <= c
      OBVIOUS
    <3> QED
      BY <2>0, <3>3, <3>4, <3>5, <3>6
  <2> QED
    BY <2>2, <2>3
<1>13. Called(y, es, n + 1)
  BY <1>8, <1>9, <1>10, <1>11, <1>12 DEF Called, W
<1> QED
  BY <1>5, <1>13 DEF y

CallStep(es) == [i \in 1..Len(es) |-> [x \in Call |-> PriorityStep(x)]]

LEMMA CallStepType ==
  ASSUME NEW es \in Seq(Entry)
  PROVE  /\ CallStep(es) \in [1..Len(es) -> [Call -> Call]]
         /\ \A i \in 1..Len(es), x \in Call : CallStep(es)[i][x] = PriorityStep(x)
<1>1. ASSUME NEW x \in Call PROVE PriorityStep(x) \in Call
  <2>1. /\ x.rest \in Seq(Entry) /\ x.out \in Seq(Packages) /\ FirstOut(x) \in Seq(Packages)
    BY FirstOutPackages DEF Call
  <2>2. PriorityStep(x) = [out |-> x.out \o FirstOut(x),
                           rest |-> Edit(x.rest, PackageOf(Unblocked(x.rest)))]
    BY DEF PriorityStep, FirstOut
  <2>3. x.out \o FirstOut(x) \in Seq(Packages)
    BY <2>1
  <2>4. Edit(x.rest, PackageOf(Unblocked(x.rest))) \in Seq(Entry)
    BY <2>1, EditEdits
  <2> QED
    BY <2>2, <2>3, <2>4 DEF Call
<1> QED
  BY <1>1 DEF CallStep

\* Priority is what the calls return when none is left to be made.
LEMMA PriorityCalls ==
  ASSUME NEW es \in Seq(Entry)
  PROVE  \E x \in Call : Priority(es) = x.out /\ Called(x, es, Len(es))
<1> DEFINE n == Len(es)
           x0 == [out |-> <<>>, rest |-> es]
           step == CallStep(es)
           Body(f) == [i \in 0..n |-> IF i = 0 THEN x0 ELSE PriorityStep(f[i - 1])]
           h == CHOOSE f : f = Body(f)
<1>0. n \in Nat /\ x0 \in Call /\ Called(x0, es, 0)
  BY CallStart
<1>1. /\ step \in [1..n -> [Call -> Call]]
      /\ \A i \in 1..n, x \in Call : step[i][x] = PriorityStep(x)
  BY CallStepType
<1>2. ASSUME NEW f, NEW i \in 1..n
      PROVE  Body(f)[i] = PriorityStep(f[i - 1])
  <2>1. n \in Nat /\ i \in 0..n /\ i # 0
    BY <1>0
  <2> QED
    BY <2>1
<1>3. \A f : Body(f)[0] = x0 /\ Body(f) = [i \in 0..n |-> Body(f)[i]]
  <2> HIDE DEF n, x0
  <2> QED
    BY <1>0
<1>4. Priority(es) = h[n].out
  BY DEF Priority
<1> HIDE DEF step, n, Body, h, x0
<1>5. PICK g : Recursion(g, n, Call, x0, step)
  BY <1>0, <1>1, RecursionExists, Zenon
<1>6. \A i \in 0..n : g[i] \in Call
  BY <1>5 DEF Recursion
<1>7. ASSUME NEW i \in 1..n
      PROVE  i - 1 \in 0..n /\ g[i - 1] \in Call /\ g[i] = PriorityStep(g[i - 1])
  <2>1. i - 1 \in 0..n
    BY <1>0
  <2>2. g[i - 1] \in Call /\ g[i] = step[i][g[i - 1]]
    BY <1>5, <1>6, <2>1 DEF Recursion
  <2> QED
    BY <1>1, <2>1, <2>2
<1>8. g = Body(g)
  <2>1. \A i \in 1..n : g[i] = Body(g)[i]
    BY <1>2, <1>7
  <2>2. g[0] = Body(g)[0]
    BY <1>3, <1>5 DEF Recursion
  <2>3. g = [i \in 0..n |-> g[i]] /\ \A i \in 0..n : i = 0 \/ i \in 1..n
    BY <1>5, <1>0 DEF Recursion
  <2> QED
    BY <1>3, <2>1, <2>2, <2>3
<1>9. h = Body(h)
  BY <1>8 DEF h
<1>10. AgreeSteps(h, g, n)
  <2>1. h[0] = g[0]
    BY <1>3, <1>5, <1>9 DEF Recursion
  <2>2. \A i \in 1..n : h[i] = PriorityStep(h[i - 1])
    BY <1>2, <1>9
  <2> QED
    BY <1>7, <2>1, <2>2 DEF AgreeSteps
<1>11. h[n] = g[n]
  BY <1>0, <1>10, SameRecursion DEF Agree
<1>12. Called(g[n], es, n)
  <2> DEFINE T == {i \in 0..n : Called(g[i], es, i)}
  <2>1. 0 \in T
    BY <1>0, <1>5 DEF Recursion
  <2>2. ASSUME NEW i \in 1..n, i - 1 \in T PROVE i \in T
    <3>1. Called(g[i - 1], es, i - 1) /\ i - 1 \in Nat /\ (i - 1) + 1 = i /\ i \in 0..n
      BY <1>0, <2>2
    <3>2. Called(PriorityStep(g[i - 1]), es, (i - 1) + 1)
      BY <1>7, <3>1, CallNext
    <3> QED
      BY <1>7, <3>1, <3>2
  <2> HIDE DEF T
  <2>3. \A i \in 0..n : i \in T
    BY <1>0, <2>1, <2>2, InductionUpTo
  <2> QED
    BY <1>0, <2>3 DEF T
<1> QED
  BY <1>0, <1>4, <1>6, <1>11, <1>12 DEF n

\* What Priority returns: reports of entries, each after everything its entry
\* waits for, no package twice, and none is left out that could be there.
LEMMA PriorityOrder ==
  ASSUME NEW es \in Seq(Entry)
  PROVE  /\ Priority(es) \in Seq(Packages)
         /\ \A k \in 1..Len(Priority(es)) : HasEntry(Priority(es), k, es)
         /\ OnceEach(es) => Once(Priority(es))
         /\ \A i \in 1..Len(es) : /\ es[i].pkg \notin ToSet(Priority(es))
                                  => \E q \in es[i].deps : q \notin ToSet(Priority(es))
<1>1. PICK x \in Call : Priority(es) = x.out /\ Called(x, es, Len(es))
  BY PriorityCalls
<1>2. x.out \in Seq(Packages) /\ x.rest \in Seq(Entry) /\ Len(es) \in Nat /\ Len(x.rest) \in Nat
  BY DEF Call
<1>3. ASSUME NEW i \in 1..Len(es), es[i].pkg \notin ToSet(x.out)
      PROVE  \E q \in es[i].deps : q \notin ToSet(x.out)
  <2>1. PICK j \in 1..Len(x.rest) : x.rest[j] = Cut(es[i], ToSet(x.out))
    BY <1>1, <1>3 DEF Called
  <2>2. Len(x.rest) # 0
    BY <1>2, <2>1
  <2>3. ~ (Len(x.rest) + Len(es) <= Len(es))
    BY <1>2, <2>2
  <2>4. x.rest[j].deps # {}
    BY <1>1, <2>3 DEF Called
  <2>5. x.rest[j].deps = es[i].deps \ ToSet(x.out)
    BY <2>1, EntryFields
  <2> QED
    BY <2>4, <2>5
<1> QED
  BY <1>1, <1>2, <1>3 DEF Called

-----------------------------------------------------------------------------
(* Slots and ring indices.                                                 *)

LEMMA Remainder ==
  ASSUME NEW n \in Nat \ {0}, NEW q \in Int, NEW r \in 0..n - 1
  PROVE  (n * q + r) % n = r
<1> DEFINE a == n * q + r
<1>1. a \in Int
  OBVIOUS
<1> QED
  BY <1>1

LEMMA Division ==
  ASSUME NEW n \in Nat \ {0}, NEW a \in Int
  PROVE  \E q \in Int, r \in 0..n - 1 : a = n * q + r /\ a % n = r
<1>1. \A y \in Int : /\ y % n \in 0..n - 1 /\ (y \div n) \in Int
                     /\ y = n * (y \div n) + (y % n)
  OBVIOUS
<1> QED
  BY <1>1

\* Numbers less than n apart with the same remainder are the same.
LEMMA SameRemainder ==
  ASSUME NEW n \in Nat \ {0}, NEW a \in Int, NEW b \in Int, a % n = b % n, a - b < n, b - a < n
  PROVE  a = b
<1>1. PICK q \in Int, r \in 0..n - 1 : a = n * q + r /\ a % n = r
  BY Division
<1>2. PICK p \in Int, s \in 0..n - 1 : b = n * p + s /\ b % n = s
  BY Division
<1>3. \A x, y \in Int : n * (x - y) = n * x - n * y /\ n * x \in Int
  OBVIOUS
<1>4. n * (q - p) = a - b
  <2> DEFINE u == n * q
             v == n * p
  <2>1. u - v = n * (q - p) /\ u \in Int /\ v \in Int
    BY <1>3
  <2>2. a = u + r /\ b = v + r
    BY <1>1, <1>2
  <2> HIDE DEF u, v
  <2> QED
    BY <2>1, <2>2
<1>5. \A d \in Int : n * d < n /\ -(n * d) < n => d = 0
  OBVIOUS
<1>6. q - p = 0
  <2>1. q - p \in Int /\ n * (q - p) < n /\ -(n * (q - p)) < n
    BY <1>4
  <2> QED
    BY <1>5, <2>1
<1> QED
  BY <1>1, <1>2, <1>6

LEMMA Congruent ==
  ASSUME NEW n \in Nat \ {0}, NEW a \in Int, NEW b \in Int, NEW q \in Int, a = b + n * q
  PROVE  a % n = b % n
<1>1. PICK p \in Int, r \in 0..n - 1 : b = n * p + r /\ b % n = r
  BY Division
<1> DEFINE u == n * p
           v == n * q
           w == n * (p + q)
<1>2. w = u + v /\ u \in Int /\ v \in Int /\ b = u + r /\ a = b + v
  BY <1>1
<1> HIDE DEF u, v, w
<1>3. a = w + r
  BY <1>2
<1>4. p + q \in Int
  OBVIOUS
<1>5. (n * (p + q) + r) % n = r
  BY <1>4, Remainder
<1> QED
  BY <1>1, <1>3, <1>5 DEF w

\* The age of the index of slot s at slot t.
LEMMA AgeOfSlot ==
  ASSUME NEW s \in Int, NEW t \in Int, NEW i \in Int, NEW m \in Int,
         i = s % EpochLength, m = t % EpochLength
  PROVE  SlotAge(i, m) = (t - s) % EpochLength
<1> DEFINE n == EpochLength
<1>0. n \in Nat \ {0}
  BY QueueConstants
<1> HIDE DEF n
<1>1. PICK p \in Int : s = n * p + i
  BY <1>0, Division DEF n
<1>2. PICK q \in Int : t = n * q + m
  BY <1>0, Division DEF n
<1> DEFINE u == n * p
           v == n * q
           w == n * ((p - q) + 1)
           a == m + n - i
           b == t - s
<1>3. w = (u - v) + n /\ u \in Int /\ v \in Int /\ s = u + i /\ t = v + m /\ n \in Int
  BY <1>0, <1>1, <1>2
<1> HIDE DEF u, v, w
<1>4. a = b + w /\ a \in Int /\ b \in Int
  BY <1>3
<1>5. (p - q) + 1 \in Int
  OBVIOUS
<1> HIDE DEF a, b
<1>6. a = b + n * ((p - q) + 1)
  BY <1>4 DEF w
<1>7. a % n = b % n
  BY <1>0, <1>4, <1>5, <1>6, Congruent
<1> QED
  BY <1>7 DEF a, b, n, SlotAge

\* Going round the ring from any index meets every index once.
LEMMA RoundTheRing ==
  ASSUME NEW m \in Slots
  PROVE  /\ \A k \in 1..EpochLength : (m + k - 1) % EpochLength \in Slots
         /\ \A k, l \in 1..EpochLength :
              (m + k - 1) % EpochLength = (m + l - 1) % EpochLength => k = l
         /\ \A i \in Slots : \E k \in 1..EpochLength : (m + k - 1) % EpochLength = i
<1> DEFINE n == EpochLength
<1>0. n \in Nat \ {0} /\ m \in 0..n - 1 /\ Slots = 0..n - 1
  BY QueueConstants DEF Slots
<1> HIDE DEF n
<1>1. \A a \in Int : a % n \in 0..n - 1
  BY <1>0
<1>2. ASSUME NEW k \in 1..n
      PROVE  m + k - 1 \in Int /\ (m + k - 1) % n \in 0..n - 1
  <2>1. m + k - 1 \in Int
    BY <1>0
  <2> QED
    BY <1>1, <2>1
<1>3. ASSUME NEW k \in 1..n, NEW l \in 1..n, (m + k - 1) % n = (m + l - 1) % n
      PROVE  k = l
  <2> DEFINE a == m + k - 1
             b == m + l - 1
  <2>1. a \in Int /\ b \in Int /\ a - b < n /\ b - a < n /\ (a = b => k = l)
    BY <1>0
  <2>2. a % n = b % n
    BY <1>3
  <2> HIDE DEF a, b
  <2> QED
    BY <1>0, <2>1, <2>2, SameRemainder
<1>4. ASSUME NEW i \in 0..n - 1
      PROVE  \E k \in 1..n : (m + k - 1) % n = i
  <2>1. CASE i >= m
    <3>1. (i - m) + 1 \in 1..n /\ m + ((i - m) + 1) - 1 = i /\ i % n = i
      BY <1>0, <2>1
    <3> QED
      BY <3>1
  <2>2. CASE i < m
    <3> DEFINE k == ((n + i) - m) + 1
               a == m + k - 1
    <3>0. PICK q \in Int : q = 1
      OBVIOUS
    <3>1. k \in 1..n /\ a = i + n * q /\ a \in Int /\ i \in Int /\ i % n = i
      BY <1>0, <2>2, <3>0
    <3> HIDE DEF a
    <3>2. a % n = i % n
      BY <1>0, <3>1, Congruent
    <3> QED
      BY <3>1, <3>2 DEF a
  <2> QED
    BY <1>0, <2>1, <2>2
<1> QED
  BY <1>0, <1>2, <1>3, <1>4 DEF n

-----------------------------------------------------------------------------
(* The ready queue in the order of its slots.                              *)

FlattenStep(ss, A) == [i \in 1..Len(ss) - 1 |-> [x \in Seq(A) |-> x \o ss[i + 1]]]

\* x and y are in two places of the first n sequences of ss.
TwoPlaces(x, y, ss, n) ==
  \E a, b \in 1..n : \E c \in 1..Len(ss[a]), d \in 1..Len(ss[b]) :
    x = ss[a][c] /\ y = ss[b][d] /\ (a # b \/ c # d)

\* u holds the members of the first n sequences of ss, each place once.
Flattened(u, ss, n) ==
  /\ \A k \in 1..Len(u) : \E i \in 1..n : \E j \in 1..Len(ss[i]) : u[k] = ss[i][j]
  /\ \A i \in 1..n : \A j \in 1..Len(ss[i]) : \E k \in 1..Len(u) : u[k] = ss[i][j]
  /\ \A k, l \in 1..Len(u) : k # l => TwoPlaces(u[k], u[l], ss, n)

LEMMA FlattenedMore ==
  ASSUME NEW A, NEW ss \in Seq(Seq(A)), NEW n \in 2..Len(ss), NEW u \in Seq(A),
         Flattened(u, ss, n - 1)
  PROVE  Flattened(u \o ss[n], ss, n)
<1> DEFINE t == ss[n]
           v == u \o t
<1>0. t \in Seq(A) /\ n \in Nat /\ n \in 1..n /\ n \notin 1..n - 1
      /\ (\A i \in 1..n - 1 : i \in 1..n) /\ (\A i \in 1..n : i = n \/ i \in 1..n - 1)
  OBVIOUS
<1> HIDE DEF t
<1>1. /\ v \in Seq(A) /\ Len(v) = Len(u) + Len(t)
      /\ \A k \in 1..Len(u) : v[k] = u[k] /\ k \in 1..Len(v)
      /\ \A k \in 1..Len(t) : v[Len(u) + k] = t[k] /\ Len(u) + k \in 1..Len(v)
      /\ \A k \in 1..Len(v) : k \in 1..Len(u) \/ \E l \in 1..Len(t) : k = Len(u) + l
  BY <1>0, ConcatMembers
<1> HIDE DEF v
<1>2. ASSUME NEW k \in 1..Len(v)
      PROVE  \E i \in 1..n : \E j \in 1..Len(ss[i]) : v[k] = ss[i][j]
  <2>1. CASE k \in 1..Len(u)
    <3>1. PICK i \in 1..n - 1 : \E j \in 1..Len(ss[i]) : u[k] = ss[i][j]
      BY <2>1 DEF Flattened
    <3> QED
      BY <1>0, <1>1, <2>1, <3>1
  <2>2. CASE \E l \in 1..Len(t) : k = Len(u) + l
    BY <1>0, <1>1, <2>2 DEF t
  <2> QED
    BY <1>1, <2>1, <2>2
<1>3. ASSUME NEW i \in 1..n, NEW j \in 1..Len(ss[i])
      PROVE  \E k \in 1..Len(v) : v[k] = ss[i][j]
  <2>1. CASE i = n
    <3>1. v[Len(u) + j] = ss[i][j] /\ Len(u) + j \in 1..Len(v)
      BY <1>1, <2>1 DEF t
    <3> QED
      BY <3>1
  <2>2. CASE i \in 1..n - 1
    <3>1. PICK k \in 1..Len(u) : u[k] = ss[i][j]
      BY <2>2 DEF Flattened
    <3> QED
      BY <1>1, <3>1
  <2> QED
    BY <1>0, <2>1, <2>2
<1>4. ASSUME NEW k \in 1..Len(v), NEW l \in 1..Len(v), k # l
      PROVE  TwoPlaces(v[k], v[l], ss, n)
  <2>0. ASSUME NEW a \in 1..n, NEW b \in 1..n, NEW c \in 1..Len(ss[a]), NEW d \in 1..Len(ss[b]),
               a # b \/ c # d
        PROVE  TwoPlaces(ss[a][c], ss[b][d], ss, n)
    BY <2>0 DEF TwoPlaces
  <2>1. CASE k \in 1..Len(u) /\ l \in 1..Len(u)
    <3>1. TwoPlaces(u[k], u[l], ss, n - 1)
      BY <1>4, <2>1 DEF Flattened
    <3>2. PICK a \in 1..n - 1, b \in 1..n - 1 :
            \E c \in 1..Len(ss[a]), d \in 1..Len(ss[b]) :
              u[k] = ss[a][c] /\ u[l] = ss[b][d] /\ (a # b \/ c # d)
      BY <3>1 DEF TwoPlaces
    <3>3. PICK c \in 1..Len(ss[a]), d \in 1..Len(ss[b]) :
            u[k] = ss[a][c] /\ u[l] = ss[b][d] /\ (a # b \/ c # d)
      BY <3>2
    <3>4. v[k] = u[k] /\ v[l] = u[l] /\ a \in 1..n /\ b \in 1..n
      BY <1>0, <1>1, <2>1
    <3>5. TwoPlaces(ss[a][c], ss[b][d], ss, n)
      BY <2>0, <3>3, <3>4
    <3> QED
      BY <3>3, <3>4, <3>5
  <2>2. CASE k \in 1..Len(u) /\ l \notin 1..Len(u)
    <3>1. PICK d \in 1..Len(t) : l = Len(u) + d
      BY <1>1, <2>2
    <3>2. PICK a \in 1..n - 1 : \E c \in 1..Len(ss[a]) : u[k] = ss[a][c]
      BY <2>2 DEF Flattened
    <3>3. PICK c \in 1..Len(ss[a]) : u[k] = ss[a][c]
      BY <3>2
    <3>4. v[k] = u[k] /\ v[l] = ss[n][d] /\ a \in 1..n /\ a # n /\ d \in 1..Len(ss[n])
      BY <1>0, <1>1, <2>2, <3>1 DEF t
    <3>5. TwoPlaces(ss[a][c], ss[n][d], ss, n)
      BY <1>0, <2>0, <3>4
    <3> QED
      BY <3>3, <3>4, <3>5
  <2>3. CASE k \notin 1..Len(u) /\ l \in 1..Len(u)
    <3>1. PICK c \in 1..Len(t) : k = Len(u) + c
      BY <1>1, <2>3
    <3>2. PICK b \in 1..n - 1 : \E d \in 1..Len(ss[b]) : u[l] = ss[b][d]
      BY <2>3 DEF Flattened
    <3>3. PICK d \in 1..Len(ss[b]) : u[l] = ss[b][d]
      BY <3>2
    <3>4. v[l] = u[l] /\ v[k] = ss[n][c] /\ b \in 1..n /\ b # n /\ c \in 1..Len(ss[n])
      BY <1>0, <1>1, <2>3, <3>1 DEF t
    <3>5. TwoPlaces(ss[n][c], ss[b][d], ss, n)
      BY <1>0, <2>0, <3>4
    <3> QED
      BY <3>3, <3>4, <3>5
  <2>4. CASE k \notin 1..Len(u) /\ l \notin 1..Len(u)
    <3>1. PICK c \in 1..Len(t), d \in 1..Len(t) : k = Len(u) + c /\ l = Len(u) + d
      BY <1>1, <2>4
    <3>2. v[k] = ss[n][c] /\ v[l] = ss[n][d] /\ c # d
      BY <1>1, <1>4, <3>1 DEF t
    <3>3. c \in 1..Len(ss[n]) /\ d \in 1..Len(ss[n])
      BY DEF t
    <3>4. TwoPlaces(ss[n][c], ss[n][d], ss, n)
      BY <1>0, <2>0, <3>2, <3>3
    <3> QED
      BY <3>2, <3>4
  <2> QED
    BY <2>1, <2>2, <2>3, <2>4
<1>5. Flattened(v, ss, n)
  BY <1>2, <1>3, <1>4 DEF Flattened
<1> QED
  BY <1>5 DEF v, t

LEMMA FlattenFlattens ==
  ASSUME NEW A, NEW ss \in Seq(Seq(A)), Len(ss) # 0
  PROVE  FlattenSeq(ss) \in Seq(A) /\ Flattened(FlattenSeq(ss), ss, Len(ss))
<1> DEFINE n == Len(ss)
           step == FlattenStep(ss, A)
           Body(f) == [i \in 1..n |-> IF i = 1 THEN ss[i] ELSE f[i - 1] \o ss[i]]
           h == CHOOSE f : f = Body(f)
<1>0. n \in Nat /\ n - 1 \in Nat /\ ss[1] \in Seq(A) /\ \A i \in 1..n : ss[i] \in Seq(A)
  OBVIOUS
<1>1. /\ step \in [1..n - 1 -> [Seq(A) -> Seq(A)]]
      /\ \A i \in 1..n - 1, x \in Seq(A) : step[i][x] = x \o ss[i + 1]
  <2>1. \A i \in 1..n - 1, x \in Seq(A) : x \o ss[i + 1] \in Seq(A)
    BY <1>0
  <2> QED
    BY <2>1 DEF FlattenStep
<1>2. ASSUME NEW f, NEW i \in 2..n
      PROVE  Body(f)[i] = f[i - 1] \o ss[i]
  <2>1. n \in Nat /\ i \in 1..n /\ i # 1
    BY <1>0
  <2> QED
    BY <2>1
<1>3. \A f : Body(f)[1] = ss[1] /\ Body(f) = [i \in 1..n |-> Body(f)[i]]
  <2>1. 1 \in 1..n
    BY <1>0
  <2> HIDE DEF n
  <2> QED
    BY <2>1
<1>4. FlattenSeq(ss) = h[n]
  BY DEF FlattenSeq
<1> HIDE DEF step, n, Body, h
<1>5. PICK e : Recursion(e, n - 1, Seq(A), ss[1], step)
  BY <1>0, <1>1, RecursionExists, Zenon
<1> DEFINE g == [i \in 1..n |-> e[i - 1]]
<1>6. g \in [1..n -> Seq(A)] /\ g[1] = ss[1]
  BY <1>0, <1>5 DEF Recursion
<1>7. ASSUME NEW i \in 2..n
      PROVE  g[i - 1] \in Seq(A) /\ g[i] = g[i - 1] \o ss[i]
  <2>1. i - 1 \in 1..n /\ i - 1 \in 1..n - 1 /\ (i - 1) + 1 = i /\ i \in 1..n
        /\ (i - 1) - 1 \in 0..n - 1
    BY <1>0
  <2>2. e[i - 1] = step[i - 1][e[(i - 1) - 1]] /\ e[(i - 1) - 1] \in Seq(A)
    BY <1>5, <2>1 DEF Recursion
  <2>3. g[i] = e[i - 1] /\ g[i - 1] = e[(i - 1) - 1]
    BY <2>1
  <2> HIDE DEF g
  <2>4. step[i - 1][e[(i - 1) - 1]] = e[(i - 1) - 1] \o ss[(i - 1) + 1]
    BY <1>1, <2>1, <2>2
  <2> QED
    BY <2>1, <2>2, <2>3, <2>4
<1> HIDE DEF g
<1>8. g = Body(g)
  <2>1. \A i \in 2..n : g[i] = Body(g)[i]
    BY <1>2, <1>7
  <2>2. g[1] = Body(g)[1]
    BY <1>3, <1>6
  <2>3. g = [i \in 1..n |-> g[i]] /\ \A i \in 1..n : i = 1 \/ i \in 2..n
    BY <1>6, <1>0
  <2> QED
    BY <1>3, <2>1, <2>2, <2>3
<1>9. h = Body(h)
  BY <1>8 DEF h
<1>10. ASSUME NEW i \in 2..n PROVE h[i] = h[i - 1] \o ss[i]
  BY <1>2, <1>9
<1> DEFINE T == {k \in 0..n - 1 : h[k + 1] = g[k + 1] /\ Flattened(g[k + 1], ss, k + 1)}
<1>11. 0 \in T
  <2>1. h[1] = ss[1]
    BY <1>3, <1>9
  <2>2. Flattened(ss[1], ss, 1)
    <3>1. ASSUME NEW k \in 1..Len(ss[1]), NEW l \in 1..Len(ss[1]), k # l
          PROVE  TwoPlaces(ss[1][k], ss[1][l], ss, 1)
      <4>1. 1 \in 1..1
        OBVIOUS
      <4> QED
        BY <3>1, <4>1 DEF TwoPlaces
    <3>2. 1 \in 1..1 /\ \A i \in 1..1 : i = 1
      OBVIOUS
    <3> QED
      BY <3>1, <3>2 DEF Flattened
  <2>3. 0 \in 0..n - 1 /\ 0 + 1 = 1
    BY <1>0
  <2> QED
    BY <1>6, <2>1, <2>2, <2>3
<1>12. ASSUME NEW k \in 1..n - 1, k - 1 \in T PROVE k \in T
  <2>1. h[k] = g[k] /\ Flattened(g[k], ss, k)
    <3>1. (k - 1) + 1 = k
      OBVIOUS
    <3> QED
      BY <1>12, <3>1
  <2>2. k + 1 \in 2..n /\ (k + 1) - 1 = k /\ k \in 0..n - 1
    BY <1>0
  <2>3. h[k + 1] = h[k] \o ss[k + 1] /\ g[k + 1] = g[k] \o ss[k + 1] /\ g[k] \in Seq(A)
    BY <1>7, <1>10, <2>2
  <2>4. Flattened(g[k] \o ss[k + 1], ss, k + 1)
    BY <2>1, <2>2, <2>3, FlattenedMore DEF n
  <2> QED
    BY <2>1, <2>2, <2>3, <2>4
<1>13. n - 1 \in T
  <2> HIDE DEF T
  <2>1. \A i \in 0..n - 1 : i \in T
    BY <1>0, <1>11, <1>12, InductionUpTo
  <2> QED
    BY <1>0, <2>1
<1>14. (n - 1) + 1 = n
  BY <1>0
<1>15. h[n] = g[n] /\ Flattened(g[n], ss, n)
  BY <1>13, <1>14
<1>16. g[n] \in Seq(A)
  <2>1. n \in 1..n
    BY <1>0
  <2> QED
    BY <1>6, <2>1
<1> QED
  BY <1>4, <1>15, <1>16 DEF n

\* No package is in two entries of the ring.
OnceInRing(r) ==
  \A i, j \in Slots : \A k \in 1..Len(r[i]), l \in 1..Len(r[j]) :
    r[i][k].pkg = r[j][l].pkg => i = j /\ k = l

\* FromSlot has the entries of the ring, each once, from whatever index on.
LEMMA FromSlotEntries ==
  ASSUME NEW r \in [Slots -> Seq(Entry)], NEW m \in Slots
  PROVE  /\ FromSlot(r, m) \in Seq(Entry)
         /\ \A k \in 1..Len(FromSlot(r, m)) :
              \E i \in Slots : \E j \in 1..Len(r[i]) : FromSlot(r, m)[k] = r[i][j]
         /\ \A i \in Slots : \A j \in 1..Len(r[i]) :
              \E k \in 1..Len(FromSlot(r, m)) : FromSlot(r, m)[k] = r[i][j]
         /\ OnceInRing(r) => OnceEach(FromSlot(r, m))
<1> DEFINE n == EpochLength
           at(k) == (m + k - 1) % EpochLength
           ss == [k \in 1..n |-> r[at(k)]]
           u == FromSlot(r, m)
<1>0. n \in Nat \ {0}
  BY QueueConstants
<1>1. /\ \A k \in 1..n : at(k) \in Slots
      /\ \A k, l \in 1..n : at(k) = at(l) => k = l
      /\ \A i \in Slots : \E k \in 1..n : at(k) = i
  BY RoundTheRing
<1> HIDE DEF at
<1>2. /\ ss \in Seq(Seq(Entry)) /\ Len(ss) = n
      /\ \A k \in 1..n : ss[k] = r[at(k)]
  BY <1>0, <1>1
<1>3. u = FlattenSeq(ss)
  BY DEF FromSlot, at
<1> HIDE DEF ss, u, n
<1>4. u \in Seq(Entry) /\ Flattened(u, ss, n)
  BY <1>0, <1>2, <1>3, FlattenFlattens
<1>5. ASSUME NEW k \in 1..Len(u)
      PROVE  \E i \in Slots : \E j \in 1..Len(r[i]) : u[k] = r[i][j]
  <2>1. PICK a \in 1..n : \E j \in 1..Len(ss[a]) : u[k] = ss[a][j]
    BY <1>4 DEF Flattened
  <2>2. ss[a] = r[at(a)] /\ at(a) \in Slots
    BY <1>1, <1>2
  <2> QED
    BY <2>1, <2>2
<1>6. ASSUME NEW i \in Slots, NEW j \in 1..Len(r[i])
      PROVE  \E k \in 1..Len(u) : u[k] = r[i][j]
  <2>1. PICK a \in 1..n : at(a) = i
    BY <1>1
  <2>2. ss[a] = r[i]
    BY <1>2, <2>1
  <2>3. \E k \in 1..Len(u) : u[k] = ss[a][j]
    BY <1>4, <2>2 DEF Flattened
  <2> QED
    BY <2>2, <2>3
<1>7. ASSUME OnceInRing(r), NEW k \in 1..Len(u), NEW l \in 1..Len(u), u[k].pkg = u[l].pkg
      PROVE  k = l
  <2>1. SUFFICES ASSUME k # l PROVE FALSE
    OBVIOUS
  <2>2. TwoPlaces(u[k], u[l], ss, n)
    BY <1>4, <2>1 DEF Flattened
  <2>3. PICK a \in 1..n, b \in 1..n :
          \E c \in 1..Len(ss[a]), d \in 1..Len(ss[b]) :
            u[k] = ss[a][c] /\ u[l] = ss[b][d] /\ (a # b \/ c # d)
    BY <2>2 DEF TwoPlaces
  <2>4. PICK c \in 1..Len(r[at(a)]), d \in 1..Len(r[at(b)]) :
            u[k] = r[at(a)][c] /\ u[l] = r[at(b)][d] /\ (a # b \/ c # d)
    BY <1>2, <2>3
  <2>5. at(a) = at(b) /\ c = d
    BY <1>1, <1>7, <2>4 DEF OnceInRing
  <2>6. a = b
    BY <1>1, <2>5
  <2> QED
    BY <2>4, <2>5, <2>6
<1>8. OnceInRing(r) => OnceEach(u)
  BY <1>7 DEF OnceEach
<1> QED
  BY <1>4, <1>5, <1>6, <1>8 DEF u

-----------------------------------------------------------------------------
(* The candidates of a block.                                              *)

Assignment == [pkg : Packages, timeout : Nat]

\* The reports of the cores, each core's once.
LEMMA ReportsOnCores ==
  ASSUME NEW r \in [Cores -> {NoReport} \cup Assignment], NEW cores, cores \subseteq Engaged(r)
  PROVE  /\ ReportsOn(r, cores) \in Seq(Packages)
         /\ Len(ReportsOn(r, cores)) <= CoreCount
         /\ \A k \in 1..Len(ReportsOn(r, cores)) : \E c \in cores : ReportsOn(r, cores)[k] = r[c].pkg
         /\ \A c \in cores : \E k \in 1..Len(ReportsOn(r, cores)) : ReportsOn(r, cores)[k] = r[c].pkg
         /\ (\A c, d \in cores : r[c].pkg = r[d].pkg => c = d) => Once(ReportsOn(r, cores))
<1> DEFINE id == [i \in 1..CoreCount |-> i - 1]
           order == Keep(id, cores)
           t == ReportsOn(r, cores)
<1>0. CoreCount \in Nat /\ cores \subseteq Cores /\ \A c \in cores : r[c] \in Assignment
  BY AssurancesConstants DEF Engaged
<1>1. /\ id \in Seq(Int) /\ Len(id) = CoreCount
      /\ \A i \in 1..CoreCount : id[i] = i - 1
  BY <1>0
<1>2. t = [i \in DOMAIN order |-> r[order[i]].pkg]
  BY DEF ReportsOn
<1> HIDE DEF id
<1>3. order \in Seq(Int) /\ Kept(order, id, cores, CoreCount)
  BY <1>1, KeepKeeps
<1> HIDE DEF order, t
<1>4. DOMAIN order = 1..Len(order) /\ Len(order) \in Nat /\ \A k \in 1..Len(order) : order[k] \in cores
  BY <1>3 DEF Kept
<1>5. \A k \in 1..Len(order) : r[order[k]].pkg \in Packages
  BY <1>0, <1>4 DEF Assignment
<1>6. t \in Seq(Packages) /\ Len(t) = Len(order) /\ \A k \in 1..Len(order) : t[k] = r[order[k]].pkg
  BY <1>2, <1>4, <1>5
<1>7. ASSUME NEW c \in cores
      PROVE  \E k \in 1..Len(t) : t[k] = r[c].pkg
  <2>1. c + 1 \in 1..CoreCount /\ (c + 1) - 1 = c
    BY <1>0 DEF Cores
  <2>2. PICK i \in 1..CoreCount : id[i] = c
    BY <1>1, <2>1
  <2>3. PICK k \in 1..Len(order) : order[k] = c
    BY <1>3, <2>2 DEF Kept
  <2> QED
    BY <1>6, <2>3
<1>8. ASSUME \A c, d \in cores : r[c].pkg = r[d].pkg => c = d,
             NEW k \in 1..Len(t), NEW l \in 1..Len(t), t[k] = t[l]
      PROVE  k = l
  <2>1. SUFFICES ASSUME k # l PROVE FALSE
    OBVIOUS
  <2>2. order[k] = order[l] /\ k \in 1..Len(order) /\ l \in 1..Len(order)
    BY <1>4, <1>6, <1>8
  <2>3. PICK i \in 1..CoreCount, j \in 1..CoreCount : i # j /\ id[i] = order[k] /\ id[j] = order[l]
    BY <1>3, <2>1, <2>2 DEF Kept
  <2> QED
    BY <1>1, <2>2, <2>3
<1>9. Len(t) <= CoreCount
  BY <1>3, <1>6 DEF Kept
<1>10. (\A c, d \in cores : r[c].pkg = r[d].pkg => c = d) => Once(t)
  BY <1>8 DEF Once
<1> QED
  BY <1>4, <1>6, <1>7, <1>9, <1>10 DEF t

\* The reports without dependencies, in their order.
LEMMA ImmediateReports ==
  ASSUME NEW reports \in Seq(Packages)
  PROVE  /\ Immediate(reports) \in Seq(Packages)
         /\ Len(Immediate(reports)) <= Len(reports)
         /\ \A k \in 1..Len(Immediate(reports)) :
              /\ Deps[Immediate(reports)[k]] = {}
              /\ \E i \in 1..Len(reports) : reports[i] = Immediate(reports)[k]
         /\ \A i \in 1..Len(reports) : Deps[reports[i]] = {} =>
              \E k \in 1..Len(Immediate(reports)) : Immediate(reports)[k] = reports[i]
         /\ Once(reports) => Once(Immediate(reports))
<1> DEFINE S == {p \in Packages : Deps[p] = {}}
           t == Immediate(reports)
<1>1. t \in Seq(Packages) /\ Kept(t, reports, S, Len(reports))
  BY KeepKeeps DEF Immediate
<1> HIDE DEF t
<1>2. \A i \in 1..Len(reports) : reports[i] \in S <=> Deps[reports[i]] = {}
  OBVIOUS
<1>3. ASSUME Once(reports), NEW k \in 1..Len(t), NEW l \in 1..Len(t), t[k] = t[l]
      PROVE  k = l
  <2>1. SUFFICES ASSUME k # l PROVE FALSE
    OBVIOUS
  <2>2. PICK i \in 1..Len(reports), j \in 1..Len(reports) : i # j /\ reports[i] = t[k] /\ reports[j] = t[l]
    BY <1>1, <2>1 DEF Kept
  <2> QED
    BY <1>3, <2>2 DEF Once
<1>4. Once(reports) => Once(t)
  BY <1>3 DEF Once
<1> QED
  BY <1>1, <1>2, <1>4 DEF t, Kept

\* The entry of a newly available report with dependencies.
NewEntry(p, xi) == [pkg |-> p, deps |-> Deps[p] \ Xi(xi)]

LEMMA QueuedEntries ==
  ASSUME NEW reports \in Seq(Packages), NEW xi
  PROVE  /\ Queued(reports, xi) \in Seq(Entry)
         /\ \A k \in 1..Len(Queued(reports, xi)) : \E i \in 1..Len(reports) :
              /\ Queued(reports, xi)[k] = NewEntry(reports[i], xi)
              /\ Deps[reports[i]] # {} /\ reports[i] \notin Xi(xi)
         /\ \A i \in 1..Len(reports) : Deps[reports[i]] # {} /\ reports[i] \notin Xi(xi) =>
              \E k \in 1..Len(Queued(reports, xi)) : Queued(reports, xi)[k] = NewEntry(reports[i], xi)
         /\ Once(reports) => OnceEach(Queued(reports, xi))
<1> DEFINE S == {p \in Packages : Deps[p] # {}}
           w == Keep(reports, S)
           es == [i \in DOMAIN w |-> [pkg |-> w[i], deps |-> Deps[w[i]]]]
           t == Queued(reports, xi)
<1>1. w \in Seq(Packages) /\ Kept(w, reports, S, Len(reports))
  BY KeepKeeps
<1>2. t = Edit(es, Xi(xi))
  BY DEF Queued
<1>3. \A i \in 1..Len(reports) : reports[i] \in S <=> Deps[reports[i]] # {}
  OBVIOUS
<1>4. \A p \in Packages : [pkg |-> p, deps |-> Deps[p]] \in Entry
  BY QueueConstants DEF Entry
<1> HIDE DEF w, S
<1>5. /\ es \in Seq(Entry) /\ Len(es) = Len(w)
      /\ \A k \in 1..Len(w) : es[k] = [pkg |-> w[k], deps |-> Deps[w[k]]]
  BY <1>1, <1>4
<1> HIDE DEF es, t
<1>6. t \in Seq(Entry) /\ Edited(t, es, Xi(xi))
  BY <1>2, <1>5, EditEdits
<1>7. ASSUME NEW k \in 1..Len(w)
      PROVE  es[k].pkg = w[k] /\ Cut(es[k], Xi(xi)) = NewEntry(w[k], xi)
  <2>1. \A e, p, d : e = [pkg |-> p, deps |-> d] => e.pkg = p /\ e.deps = d
    OBVIOUS
  <2>2. es[k] = [pkg |-> w[k], deps |-> Deps[w[k]]]
    BY <1>5
  <2>3. es[k].pkg = w[k] /\ es[k].deps = Deps[w[k]]
    BY <2>1, <2>2, Zenon
  <2> QED
    BY <2>3 DEF Cut, NewEntry
<1>8. ASSUME NEW k \in 1..Len(t)
      PROVE  \E i \in 1..Len(reports) :
               t[k] = NewEntry(reports[i], xi) /\ Deps[reports[i]] # {} /\ reports[i] \notin Xi(xi)
  <2>1. PICK j \in 1..Len(w) : t[k] = NewEntry(w[j], xi) /\ w[j] \notin Xi(xi)
    BY <1>5, <1>6, <1>7 DEF Edited
  <2>2. PICK i \in 1..Len(reports) : reports[i] = w[j] /\ w[j] \in S
    BY <1>1 DEF Kept
  <2> QED
    BY <1>3, <2>1, <2>2
<1>9. ASSUME NEW i \in 1..Len(reports), Deps[reports[i]] # {}, reports[i] \notin Xi(xi)
      PROVE  \E k \in 1..Len(t) : t[k] = NewEntry(reports[i], xi)
  <2>1. PICK j \in 1..Len(w) : w[j] = reports[i]
    BY <1>1, <1>3, <1>9 DEF Kept
  <2>2. \E k \in 1..Len(t) : t[k] = Cut(es[j], Xi(xi))
    BY <1>5, <1>6, <1>7, <1>9, <2>1 DEF Edited
  <2> QED
    BY <1>7, <2>1, <2>2
<1>10. ASSUME Once(reports) PROVE OnceEach(t)
  <2>1. ASSUME NEW k \in 1..Len(w), NEW l \in 1..Len(w), w[k] = w[l], k # l
        PROVE  FALSE
    <3>1. PICK i \in 1..Len(reports), j \in 1..Len(reports) : i # j /\ reports[i] = w[k] /\ reports[j] = w[l]
      BY <1>1, <2>1 DEF Kept
    <3> QED
      BY <1>10, <2>1, <3>1 DEF Once
  <2>2. OnceEach(es)
    BY <1>5, <1>7, <2>1 DEF OnceEach
  <2> QED
    BY <1>6, <2>2 DEF Edited
<1> QED
  BY <1>6, <1>8, <1>9, <1>10 DEF t

\* e is an entry of the ring or of the new ones.
Held(e, r, new) ==
  \/ \E i \in Slots : \E j \in 1..Len(r[i]) : e = r[i][j]
  \/ \E j \in 1..Len(new) : e = new[j]

\* The entries that Q is called with.
CandidateEntries(reports, r, xi, m) ==
  Edit(FromSlot(r, m) \o Queued(reports, xi), ToSet(Immediate(reports)))

\* The reports are of packages that the ring has no entry of.
NotInRing(reports, r) ==
  \A i \in 1..Len(reports) : \A k \in Slots : \A j \in 1..Len(r[k]) : r[k][j].pkg # reports[i]

LEMMA EntriesOfCandidates ==
  ASSUME NEW reports \in Seq(Packages), NEW r \in [Slots -> Seq(Entry)], NEW xi, NEW m \in Slots,
         NEW new, new = Queued(reports, xi), NEW out, out = ToSet(Immediate(reports)),
         NEW es, es = CandidateEntries(reports, r, xi, m)
  PROVE  /\ es \in Seq(Entry)
         /\ \A k \in 1..Len(es) :
              \E e \in Entry : Held(e, r, new) /\ es[k] = Cut(e, out) /\ e.pkg \notin out
         /\ \A e : Held(e, r, new) /\ e.pkg \notin out => \E k \in 1..Len(es) : es[k] = Cut(e, out)
         /\ OnceInRing(r) /\ Once(reports) /\ NotInRing(reports, r) => OnceEach(es)
<1> DEFINE u == FromSlot(r, m)
           v == u \o new
<1>1. /\ u \in Seq(Entry)
      /\ \A k \in 1..Len(u) : \E i \in Slots : \E j \in 1..Len(r[i]) : u[k] = r[i][j]
      /\ \A i \in Slots : \A j \in 1..Len(r[i]) : \E k \in 1..Len(u) : u[k] = r[i][j]
      /\ OnceInRing(r) => OnceEach(u)
  BY FromSlotEntries
<1> HIDE DEF u
<1>2. /\ new \in Seq(Entry)
      /\ \A k \in 1..Len(new) : \E i \in 1..Len(reports) : new[k] = NewEntry(reports[i], xi)
      /\ Once(reports) => OnceEach(new)
  BY QueuedEntries
<1>3. /\ v \in Seq(Entry) /\ Len(v) = Len(u) + Len(new)
      /\ \A k \in 1..Len(u) : v[k] = u[k] /\ k \in 1..Len(v)
      /\ \A k \in 1..Len(new) : v[Len(u) + k] = new[k] /\ Len(u) + k \in 1..Len(v)
      /\ \A k \in 1..Len(v) : k \in 1..Len(u) \/ \E l \in 1..Len(new) : k = Len(u) + l
  <2>1. v = u \o new
    OBVIOUS
  <2>2. u \in Seq(Entry) /\ new \in Seq(Entry)
    BY <1>1, <1>2
  <2> HIDE DEF v
  <2> QED
    BY <2>1, <2>2, ConcatMembers
<1>4. es = Edit(v, out)
  BY DEF CandidateEntries, u
<1> HIDE DEF v
<1>5. es \in Seq(Entry) /\ Edited(es, v, out)
  BY <1>3, <1>4, EditEdits
<1>6. ASSUME NEW k \in 1..Len(v) PROVE v[k] \in Entry /\ Held(v[k], r, new)
  <2>1. CASE k \in 1..Len(u)
    <3>1. v[k] = u[k] /\ \E i \in Slots : \E j \in 1..Len(r[i]) : u[k] = r[i][j]
      BY <1>1, <1>3, <2>1
    <3>2. u[k] \in Entry
      BY <1>1, <2>1
    <3> QED
      BY <3>1, <3>2 DEF Held
  <2>2. CASE \E l \in 1..Len(new) : k = Len(u) + l
    BY <1>3, <2>2 DEF Held
  <2> QED
    BY <1>3, <2>1, <2>2
<1>7. ASSUME NEW e, Held(e, r, new) PROVE \E k \in 1..Len(v) : v[k] = e
  <2>1. CASE \E i \in Slots : \E j \in 1..Len(r[i]) : e = r[i][j]
    <3>1. PICK k \in 1..Len(u) : u[k] = e
      BY <1>1, <2>1
    <3> QED
      BY <1>3, <3>1
  <2>2. CASE \E j \in 1..Len(new) : e = new[j]
    <3>1. PICK j \in 1..Len(new) : e = new[j]
      BY <2>2
    <3>2. v[Len(u) + j] = e /\ Len(u) + j \in 1..Len(v)
      BY <1>3, <3>1
    <3> QED
      BY <3>2
  <2> QED
    BY <1>7, <2>1, <2>2 DEF Held
<1>8. ASSUME NEW k \in 1..Len(es)
      PROVE  \E e \in Entry : Held(e, r, new) /\ es[k] = Cut(e, out) /\ e.pkg \notin out
  BY <1>5, <1>6 DEF Edited
<1>9. ASSUME NEW e, Held(e, r, new), e.pkg \notin out
      PROVE  \E k \in 1..Len(es) : es[k] = Cut(e, out)
  <2>1. PICK k \in 1..Len(v) : v[k] = e
    BY <1>7, <1>9
  <2> QED
    BY <1>5, <1>9, <2>1 DEF Edited
<1>10. ASSUME OnceInRing(r), Once(reports), NotInRing(reports, r) PROVE OnceEach(es)
  <2>1. ASSUME NEW k \in 1..Len(u), NEW l \in 1..Len(new) PROVE u[k].pkg # new[l].pkg
    <3>1. PICK i \in 1..Len(reports) : new[l] = NewEntry(reports[i], xi)
      BY <1>2
    <3>2. new[l].pkg = reports[i]
      BY <3>1 DEF NewEntry
    <3>3. PICK a \in Slots : \E j \in 1..Len(r[a]) : u[k] = r[a][j]
      BY <1>1
    <3> QED
      BY <1>10, <3>2, <3>3 DEF NotInRing
  <2>2. ASSUME NEW k \in 1..Len(v), NEW l \in 1..Len(v), v[k].pkg = v[l].pkg PROVE k = l
    <3>1. CASE k \in 1..Len(u) /\ l \in 1..Len(u)
      BY <1>1, <1>3, <1>10, <2>2, <3>1 DEF OnceEach
    <3>2. CASE k \in 1..Len(u) /\ l \notin 1..Len(u)
      <4>1. PICK b \in 1..Len(new) : l = Len(u) + b
        BY <1>3, <3>2
      <4>2. v[k] = u[k] /\ v[l] = new[b]
        BY <1>3, <3>2, <4>1
      <4> QED
        BY <2>1, <2>2, <3>2, <4>2
    <3>3. CASE k \notin 1..Len(u) /\ l \in 1..Len(u)
      <4>1. PICK b \in 1..Len(new) : k = Len(u) + b
        BY <1>3, <3>3
      <4>2. v[l] = u[l] /\ v[k] = new[b]
        BY <1>3, <3>3, <4>1
      <4> QED
        BY <2>1, <2>2, <3>3, <4>2
    <3>4. CASE k \notin 1..Len(u) /\ l \notin 1..Len(u)
      <4>1. PICK a \in 1..Len(new), b \in 1..Len(new) : k = Len(u) + a /\ l = Len(u) + b
        BY <1>3, <3>4
      <4>2. new[a].pkg = new[b].pkg
        BY <1>3, <2>2, <4>1
      <4>3. a = b
        BY <1>2, <1>10, <4>2 DEF OnceEach
      <4> QED
        BY <4>1, <4>3
    <3> QED
      BY <3>1, <3>2, <3>3, <3>4
  <2>3. OnceEach(v)
    BY <2>2 DEF OnceEach
  <2> QED
    BY <1>5, <2>3 DEF Edited
<1> QED
  BY <1>5, <1>8, <1>9, <1>10

\* The k-th candidate is a report without dependencies or has an entry, whose
\* dependencies come before it.
ComesFrom(c, k, reports, r, new) ==
  \/ Deps[c[k]] = {} /\ \E i \in 1..Len(reports) : reports[i] = c[k]
  \/ \E e \in Entry : /\ Held(e, r, new) /\ e.pkg = c[k]
                      /\ \A q \in e.deps : \E l \in 1..k - 1 : c[l] = q

\* The reports without dependencies are among the first candidates.
ImmediateFirst(c, reports) ==
  \A i \in 1..Len(reports) : Deps[reports[i]] = {} =>
    \E k \in 1..Len(c) : k <= Len(reports) /\ c[k] = reports[i]

\* The candidates of a block: the reports without dependencies come first, then
\* reports of entries, each after what its entry waits for; an entry is left
\* out only if it waits for something that is; and no package is in them twice
\* when the ring and the reports hold none twice.
LEMMA Candidates ==
  ASSUME NEW reports \in Seq(Packages), NEW r \in [Slots -> Seq(Entry)], NEW xi, NEW m \in Slots,
         NEW new, new = Queued(reports, xi), NEW c, c = Accumulatable(reports, r, xi, m)
  PROVE  /\ c \in Seq(Packages)
         /\ \A k \in 1..Len(c) : ComesFrom(c, k, reports, r, new)
         /\ ImmediateFirst(c, reports)
         /\ \A e \in Entry : Held(e, r, new) /\ e.pkg \notin ToSet(c) =>
              \E q \in e.deps : q \notin ToSet(c)
         /\ OnceInRing(r) /\ Once(reports) /\ NotInRing(reports, r) => Once(c)
<1> DEFINE im == Immediate(reports)
           out == ToSet(im)
           es == CandidateEntries(reports, r, xi, m)
           pr == Priority(es)
<1>1. c = im \o pr
  BY DEF Accumulatable, CandidateEntries
<1>2. /\ im \in Seq(Packages) /\ Len(im) <= Len(reports)
      /\ \A k \in 1..Len(im) : /\ Deps[im[k]] = {}
                               /\ \E i \in 1..Len(reports) : reports[i] = im[k]
      /\ \A i \in 1..Len(reports) : Deps[reports[i]] = {} =>
           \E k \in 1..Len(im) : im[k] = reports[i]
      /\ Once(reports) => Once(im)
  BY ImmediateReports, Zenon
<1>3. /\ es \in Seq(Entry)
      /\ \A k \in 1..Len(es) :
           \E e \in Entry : Held(e, r, new) /\ es[k] = Cut(e, out) /\ e.pkg \notin out
      /\ \A e : Held(e, r, new) /\ e.pkg \notin out => \E k \in 1..Len(es) : es[k] = Cut(e, out)
      /\ OnceInRing(r) /\ Once(reports) /\ NotInRing(reports, r) => OnceEach(es)
  BY EntriesOfCandidates
<1> HIDE DEF im, es
<1>4. /\ pr \in Seq(Packages)
      /\ \A k \in 1..Len(pr) : HasEntry(pr, k, es)
      /\ OnceEach(es) => Once(pr)
      /\ \A i \in 1..Len(es) : es[i].pkg \notin ToSet(pr) => \E q \in es[i].deps : q \notin ToSet(pr)
  BY <1>3, PriorityOrder
<1> HIDE DEF pr
<1>5. /\ c \in Seq(Packages) /\ Len(c) = Len(im) + Len(pr)
      /\ \A k \in 1..Len(im) : c[k] = im[k] /\ k \in 1..Len(c)
      /\ \A k \in 1..Len(pr) : c[Len(im) + k] = pr[k] /\ Len(im) + k \in 1..Len(c)
      /\ \A k \in 1..Len(c) : k \in 1..Len(im) \/ \E l \in 1..Len(pr) : k = Len(im) + l
  BY <1>1, <1>2, <1>4, ConcatMembers
<1>6. \A p : p \in out <=> \E k \in 1..Len(im) : im[k] = p
  BY <1>2 DEF ToSet
<1>7. ToSet(c) = out \cup ToSet(pr)
  BY <1>1, <1>2, <1>4, ConcatMembers
<1> HIDE DEF out
<1>8. ASSUME NEW k \in 1..Len(pr)
      PROVE  \E e \in Entry : /\ Held(e, r, new) /\ e.pkg = pr[k] /\ e.pkg \notin out
                              /\ \A q \in e.deps : \E l \in 1..Len(im) + k - 1 : c[l] = q
  <2>1. PICK i \in 1..Len(es) : /\ es[i].pkg = pr[k]
                                /\ \A q \in es[i].deps : \E l \in 1..k - 1 : pr[l] = q
    BY <1>4 DEF HasEntry
  <2>2. PICK e \in Entry : Held(e, r, new) /\ es[i] = Cut(e, out) /\ e.pkg \notin out
    BY <1>3
  <2>3. es[i].pkg = e.pkg /\ es[i].deps = e.deps \ out
    BY <2>2, EntryFields
  <2>4. ASSUME NEW q \in e.deps PROVE \E l \in 1..Len(im) + k - 1 : c[l] = q
    <3>1. CASE q \in out
      <4>1. PICK l \in 1..Len(im) : im[l] = q
        BY <1>6, <3>1
      <4>2. l \in 1..Len(im) + k - 1 /\ c[l] = q
        BY <1>2, <1>5, <4>1
      <4> QED
        BY <4>2
    <3>2. CASE q \notin out
      <4>1. PICK l \in 1..k - 1 : pr[l] = q
        BY <2>1, <2>3, <3>2
      <4>2. l \in 1..Len(pr) /\ Len(im) + l \in 1..Len(im) + k - 1
        BY <1>2, <1>4
      <4>3. c[Len(im) + l] = q
        BY <1>5, <4>1, <4>2
      <4> QED
        BY <4>2, <4>3
    <3> QED
      BY <3>1, <3>2
  <2> QED
    BY <2>1, <2>2, <2>3, <2>4
<1>9. ASSUME NEW k \in 1..Len(c)
      PROVE  ComesFrom(c, k, reports, r, new)
  <2>1. CASE k \in 1..Len(im)
    <3>1. c[k] = im[k] /\ Deps[im[k]] = {} /\ \E i \in 1..Len(reports) : reports[i] = im[k]
      BY <1>2, <1>5, <2>1
    <3> QED
      BY <3>1 DEF ComesFrom
  <2>2. CASE \E l \in 1..Len(pr) : k = Len(im) + l
    <3>1. PICK l \in 1..Len(pr) : k = Len(im) + l
      BY <2>2
    <3>2. c[k] = pr[l]
      BY <1>5, <3>1
    <3>3. PICK e \in Entry : /\ Held(e, r, new) /\ e.pkg = pr[l]
                             /\ \A q \in e.deps : \E a \in 1..Len(im) + l - 1 : c[a] = q
      BY <1>8
    <3>4. \A q \in e.deps : \E a \in 1..k - 1 : c[a] = q
      BY <3>1, <3>3
    <3> QED
      BY <3>2, <3>3, <3>4 DEF ComesFrom
  <2> QED
    BY <1>5, <2>1, <2>2
<1>10. ASSUME NEW i \in 1..Len(reports), Deps[reports[i]] = {}
       PROVE  \E k \in 1..Len(c) : k <= Len(reports) /\ c[k] = reports[i]
  <2>1. PICK k \in 1..Len(im) : im[k] = reports[i]
    BY <1>2, <1>10
  <2>2. k <= Len(reports) /\ k \in 1..Len(c) /\ c[k] = reports[i]
    BY <1>2, <1>5, <2>1
  <2> QED
    BY <2>2
<1>11. ASSUME NEW e \in Entry, Held(e, r, new), e.pkg \notin ToSet(c)
       PROVE  \E q \in e.deps : q \notin ToSet(c)
  <2>1. PICK k \in 1..Len(es) : es[k] = Cut(e, out)
    BY <1>3, <1>7, <1>11
  <2>2. es[k].pkg = e.pkg /\ es[k].deps = e.deps \ out
    BY <2>1, EntryFields
  <2> QED
    BY <1>4, <1>7, <1>11, <2>2
<1>12. ASSUME OnceInRing(r), Once(reports), NotInRing(reports, r),
              NEW k \in 1..Len(c), NEW l \in 1..Len(c), c[k] = c[l]
       PROVE  k = l
  <2>1. Once(im) /\ Once(pr)
    BY <1>2, <1>3, <1>4, <1>12
  <2>2. ASSUME NEW a \in 1..Len(im), NEW b \in 1..Len(pr) PROVE im[a] # pr[b]
    BY <1>6, <1>8
  <2>3. CASE k \in 1..Len(im) /\ l \in 1..Len(im)
    BY <1>5, <1>12, <2>1, <2>3 DEF Once
  <2>4. CASE k \in 1..Len(im) /\ l \notin 1..Len(im)
    BY <1>5, <1>12, <2>2, <2>4
  <2>5. CASE k \notin 1..Len(im) /\ l \in 1..Len(im)
    BY <1>5, <1>12, <2>2, <2>5
  <2>6. CASE k \notin 1..Len(im) /\ l \notin 1..Len(im)
    <3>1. PICK a \in 1..Len(pr), b \in 1..Len(pr) : k = Len(im) + a /\ l = Len(im) + b
      BY <1>5, <2>6
    <3>2. pr[a] = pr[b]
      BY <1>5, <1>12, <3>1
    <3>3. a = b
      BY <2>1, <3>2 DEF Once
    <3> QED
      BY <3>1, <3>3
  <2> QED
    BY <2>3, <2>4, <2>5, <2>6
<1>13. OnceInRing(r) /\ Once(reports) /\ NotInRing(reports, r) => Once(c)
  BY <1>12 DEF Once
<1>14. ImmediateFirst(c, reports)
  BY <1>10 DEF ImmediateFirst
<1> QED
  BY <1>5, <1>9, <1>11, <1>13, <1>14

-----------------------------------------------------------------------------
(* The inductive invariants.                                               *)

TypeOK ==
  /\ tau \in 0..SlotRange - 1
  /\ rho \in [Cores -> {NoReport} \cup Assignment]
  /\ ready \in [Slots -> Seq(Entry)]
  /\ accumulated \in [Slots -> SUBSET Packages]
  /\ history \in Seq(SUBSET Packages) /\ Len(history) <= MaxHistory
  /\ height \in Nat
  /\ arrived \subseteq Packages
  /\ batch \in Seq(Packages)
  /\ queuedAt \in [Packages -> Int]
  /\ reportedAt \in [Packages -> Int]
  /\ accumulatedAt \in [Packages -> Int]
  /\ refused \in [Stages -> Nat]

\* What reports checked of the gas of a report still holds of it in theta.
GasBounded ==
  /\ \A c \in Engaged(rho) : Gas[rho[c].pkg] <= ReportGas
  /\ \A i \in Slots : \A j \in 1..Len(ready[i]) : Gas[ready[i][j].pkg] <= ReportGas

\* The packages that were ever accumulated.
Done == {p \in Packages : accumulatedAt[p] # Never}

\* An entry no longer waits only for what was accumulated, and xi holds nothing
\* else.
StruckOff ==
  /\ Xi(accumulated) \subseteq Done
  /\ \A i \in Slots : \A j \in 1..Len(ready[i]) :
       Deps[ready[i][j].pkg] \ ready[i][j].deps \subseteq Done

\* Index i of theta is that of a slot s of the last EpochLength; a package in
\* it was last queued then or since, and is also where it was last queued.
QueuedSince(p, i) ==
  \E s \in tau - EpochLength + 1..tau :
    /\ s % EpochLength = i
    /\ queuedAt[p] \in s..tau
    /\ p \in PackageOf(ready[queuedAt[p] % EpochLength])

Lifetimes ==
  Accepted("safrole") => \A i \in Slots : \A p \in PackageOf(ready[i]) : QueuedSince(p, i)

\* A report waits on one core, was not accumulated or queued before, and the
\* block that put it there is still in beta.
InBeta(p, slots) ==
  \E d \in 0..slots : d < Len(history) /\ p \in history[Len(history) - d]

OnCores ==
  /\ \A c, d \in Engaged(rho) : rho[c].pkg = rho[d].pkg => c = d
  /\ \A c \in Engaged(rho) :
       /\ rho[c].pkg \notin KnownPackages
       /\ rho[c].timeout <= tau /\ tau - rho[c].timeout < AssuranceTimeout
       /\ InBeta(rho[c].pkg, tau - rho[c].timeout)

InRings ==
  /\ \A i, j \in Slots : i # j => accumulated[i] \cap accumulated[j] = {}
  /\ Xi(accumulated) \cap ReadyPackages = {}
  /\ OnceInRing(ready)

HeldOnce ==
  Accepted("assurances") /\ Accepted("safrole") => OnCores /\ InRings /\ Once(batch)

-----------------------------------------------------------------------------
(* One block.                                                              *)

Blocks ==
  [slot : 0..SlotRange - 1, tickets : BOOLEAN, judged : SUBSET Packages,
   assurances : AssuranceExtrinsics, guarantees : GuaranteeExtrinsics]

Import(b) == ImportBlock(b.slot, b.tickets, b.judged, b.assurances, b.guarantees)

RhoD(b)  == RhoDagger(b.judged)
RhoDD(b) == RhoDoubleDagger(RhoD(b), b.assurances, b.slot)

SafroleOK(b)  == b.tickets /\ b.slot > tau
AssuredOK(b)  == AssurancesOK(RhoD(b), b.assurances)
ReportedOK(b) == GuaranteesOK(RhoDD(b), b.guarantees)

Index(b)      == b.slot % EpochLength
Available(b)  == ReportsOn(RhoD(b), NowAvailable(RhoD(b), b.assurances))
NewEntries(b) == Queued(Available(b), accumulated)
Ordered(b)    == Accumulatable(Available(b), ready, accumulated, Index(b))
Taken(b)      == WithinGas(Ordered(b))
Gap(b)        == (b.slot - tau) % SlotRange

\* What a block does to each variable.
LEMMA ImportStep ==
  ASSUME NEW b \in Blocks, Import(b)
  PROVE  /\ tau' = IF SafroleOK(b) THEN b.slot ELSE tau
         /\ rho' = RhoPrime(RhoDD(b), b.guarantees, b.slot)
         /\ ready' = ShiftReady(ready, NewEntries(b), ToSet(Taken(b)), Index(b), Gap(b))
         /\ accumulated' = ShiftAccumulated(accumulated, ToSet(Taken(b)))
         /\ history' = PushHistory(b.guarantees)
         /\ height' = height + 1
         /\ arrived' = ToSet(Available(b))
         /\ batch' = Taken(b)
         /\ queuedAt' = [p \in Packages |-> IF p \in PackageOf(NewEntries(b)) THEN b.slot ELSE queuedAt[p]]
         /\ accumulatedAt' = [p \in Packages |-> IF p \in ToSet(Taken(b)) THEN height + 1
                                                                          ELSE accumulatedAt[p]]
<1>1. \A stage \in Stages :
        Accepts(stage, b.slot, b.tickets, RhoD(b), RhoDD(b), b.assurances, b.guarantees)
          <=> CASE stage = "safrole"    -> SafroleOK(b)
                [] stage = "assurances" -> AssuredOK(b)
                [] stage = "guarantees" -> ReportedOK(b)
  BY DEF Accepts, Stages, SafroleOK, AssuredOK, ReportedOK
<1>2. "safrole" \in Stages
  BY DEF Stages
<1>3. "safrole" \in {stage \in Stages : ~ Accepts(stage, b.slot, b.tickets, RhoD(b), RhoDD(b),
                                                 b.assurances, b.guarantees)}
        <=> ~ SafroleOK(b)
  BY <1>1, <1>2
<1> QED
  BY <1>3 DEF Import, ImportBlock, RhoD, RhoDD, Index, Available, NewEntries, Ordered, Taken, Gap

\* A stage that has accepted its part of every block accepts this one's.
LEMMA AcceptedStep ==
  ASSUME TypeOK, NEW b \in Blocks, Import(b)
  PROVE  /\ refused' \in [Stages -> Nat]
         /\ reportedAt' \in [Packages -> Int]
         /\ Accepted("safrole")' => Accepted("safrole") /\ SafroleOK(b)
         /\ Accepted("assurances")' => Accepted("assurances") /\ AssuredOK(b)
<1> DEFINE bad == {stage \in Stages : ~ Accepts(stage, b.slot, b.tickets, RhoD(b), RhoDD(b),
                                               b.assurances, b.guarantees)}
<1>1. /\ refused' = [stage \in Stages |-> refused[stage] + (IF stage \in bad THEN 1 ELSE 0)]
      /\ reportedAt' = [p \in Packages |->
                          IF "guarantees" \notin bad /\ p \in Incoming(b.guarantees)
                            THEN height + 1 ELSE reportedAt[p]]
  BY DEF Import, ImportBlock, RhoD, RhoDD
<1>2. "safrole" \in Stages /\ "assurances" \in Stages
  BY DEF Stages
<1>3. ("safrole" \in bad <=> ~ SafroleOK(b)) /\ ("assurances" \in bad <=> ~ AssuredOK(b))
  BY <1>2 DEF Accepts, SafroleOK, AssuredOK
<1> HIDE DEF bad
<1>4. refused \in [Stages -> Nat] /\ height \in Nat /\ reportedAt \in [Packages -> Int]
  BY DEF TypeOK
<1>5. reportedAt' \in [Packages -> Int] /\ refused' \in [Stages -> Nat]
  BY <1>1, <1>4
<1>6. \A stage \in Stages : refused'[stage] = 0 => refused[stage] = 0 /\ stage \notin bad
  BY <1>1, <1>4
<1> QED
  BY <1>2, <1>3, <1>5, <1>6 DEF Accepted

\* Every step that changes something imports a block.
LEMMA NextImports ==
  ASSUME TypeOK, Next
  PROVE  UNCHANGED vars \/ (height < MaxHeight /\ \E b \in Blocks : Import(b))
<1>1. CASE AtBound
  BY <1>1 DEF AtBound
<1>2. CASE ~ AtBound
  <2>0. height < MaxHeight
    BY <1>2 DEF Next
  <2>1. PICK gap \in Gaps, tickets \in BOOLEAN :
          /\ tau + gap \in 0..SlotRange - 1
          /\ \E judged \in SUBSET {rho[c].pkg : c \in Engaged(rho)} :
             \E assurances \in AssuranceExtrinsics, guarantees \in GuaranteeExtrinsics :
               ImportBlock(tau + gap, tickets, judged, assurances, guarantees)
    BY <1>2 DEF Next
  <2>2. PICK judged \in SUBSET {rho[c].pkg : c \in Engaged(rho)},
             assurances \in AssuranceExtrinsics, guarantees \in GuaranteeExtrinsics :
               ImportBlock(tau + gap, tickets, judged, assurances, guarantees)
    BY <2>1
  <2>3. judged \subseteq Packages
    BY DEF TypeOK, Engaged, Assignment
  <2> DEFINE slot == tau + gap
             b == [slot |-> slot, tickets |-> tickets, judged |-> judged,
                   assurances |-> assurances, guarantees |-> guarantees]
  <2>4. slot \in 0..SlotRange - 1 /\ ImportBlock(slot, tickets, judged, assurances, guarantees)
    BY <2>1, <2>2
  <2> HIDE DEF slot
  <2>5. b \in Blocks /\ b.slot = slot /\ b.tickets = tickets /\ b.judged = judged
        /\ b.assurances = assurances /\ b.guarantees = guarantees
    BY <2>3, <2>4 DEF Blocks
  <2> HIDE DEF b
  <2>6. Import(b)
    BY <2>4, <2>5 DEF Import
  <2> QED
    BY <2>0, <2>5, <2>6
<1> QED
  BY <1>1, <1>2

Guarantee == [core : Nat, pkg : Packages, sound : BOOLEAN]

LEMMA GuaranteeFields == \A g \in Guarantee : g.core \in Nat /\ g.pkg \in Packages
BY DEF Guarantee

\* What the stages work on.
LEMMA BlockParts ==
  ASSUME TypeOK, NEW b \in Blocks
  PROVE  /\ b.slot \in 0..SlotRange - 1 /\ Index(b) \in Slots
         /\ b.guarantees \in Seq(Guarantee)
         /\ RhoD(b) \in [Cores -> {NoReport} \cup Assignment]
         /\ \A c \in Engaged(RhoD(b)) : c \in Engaged(rho) /\ RhoD(b)[c] = rho[c]
         /\ RhoDD(b) \in [Cores -> {NoReport} \cup Assignment]
         /\ \A c \in Engaged(RhoDD(b)) : c \in Engaged(RhoD(b)) /\ RhoDD(b)[c] = rho[c]
         /\ NowAvailable(RhoD(b), b.assurances) \subseteq Engaged(RhoD(b))
<1>1. /\ b.slot \in 0..SlotRange - 1 /\ b.judged \subseteq Packages
      /\ b.guarantees \in Seq(Guarantee)
  BY ReportsConstants DEF Blocks, Guarantee
<1>2. Index(b) \in Slots
  <2>1. EpochLength \in Nat \ {0} /\ b.slot \in Nat
    BY <1>1, QueueConstants, ReportsConstants
  <2> QED
    BY <2>1 DEF Index, Slots
<1>3. /\ RhoD(b) \in [Cores -> {NoReport} \cup Assignment]
      /\ \A c \in Engaged(RhoD(b)) : c \in Engaged(rho) /\ RhoD(b)[c] = rho[c]
  BY DEF TypeOK, RhoD, RhoDagger, Engaged
<1>4. /\ RhoDD(b) \in [Cores -> {NoReport} \cup Assignment]
      /\ \A c \in Engaged(RhoDD(b)) : c \in Engaged(RhoD(b)) /\ RhoDD(b)[c] = RhoD(b)[c]
  <2> DEFINE r == RhoD(b)
  <2> HIDE DEF r
  <2>1. CASE AssurancesOK(r, b.assurances)
    BY <1>3, <2>1 DEF RhoDD, RhoDoubleDagger, Engaged, r
  <2>2. CASE ~ AssurancesOK(r, b.assurances)
    BY <1>3, <2>2 DEF RhoDD, RhoDoubleDagger, r
  <2> QED
    BY <2>1, <2>2
<1>5. NowAvailable(RhoD(b), b.assurances) \subseteq Engaged(RhoD(b))
  BY DEF NowAvailable, AvailableCores
<1> QED
  BY <1>1, <1>2, <1>3, <1>4, <1>5

LEMMA QueueParts ==
  ASSUME TypeOK, NEW b \in Blocks
  PROVE  /\ Available(b) \in Seq(Packages) /\ Len(Available(b)) <= CoreCount
         /\ \A k \in 1..Len(Available(b)) : \E c \in NowAvailable(RhoD(b), b.assurances) :
              c \in Engaged(rho) /\ Available(b)[k] = rho[c].pkg
         /\ NewEntries(b) \in Seq(Entry)
         /\ Ordered(b) \in Seq(Packages)
         /\ Taken(b) \in Seq(Packages)
         /\ \E n \in 0..Len(Ordered(b)) : Taken(b) = SubSeq(Ordered(b), 1, n)
         /\ ToSet(Taken(b)) \subseteq Packages
<1> DEFINE avail == Available(b)
           cores == NowAvailable(RhoD(b), b.assurances)
<1>1. /\ RhoD(b) \in [Cores -> {NoReport} \cup Assignment] /\ Index(b) \in Slots
      /\ \A c \in Engaged(RhoD(b)) : c \in Engaged(rho) /\ RhoD(b)[c] = rho[c]
      /\ cores \subseteq Engaged(RhoD(b))
  BY BlockParts
<1>2. /\ avail \in Seq(Packages) /\ Len(avail) <= CoreCount
      /\ \A k \in 1..Len(avail) : \E c \in cores : avail[k] = RhoD(b)[c].pkg
  BY <1>1, ReportsOnCores DEF Available
<1> HIDE DEF avail, cores
<1>3. \A k \in 1..Len(avail) : \E c \in cores : c \in Engaged(rho) /\ avail[k] = rho[c].pkg
  <2> TAKE k \in 1..Len(avail)
  <2>1. PICK c \in cores : avail[k] = RhoD(b)[c].pkg
    BY <1>2
  <2> QED
    BY <1>1, <2>1
<1>4. NewEntries(b) \in Seq(Entry)
  BY <1>2, QueuedEntries DEF NewEntries, avail
<1>5. Ordered(b) \in Seq(Packages)
  BY <1>1, <1>2, Candidates DEF Ordered, TypeOK, avail
<1>6. PICK f : Sums(f, Ordered(b))
  BY <1>5, GasOfSums
<1>7. PICK n \in 0..Len(Ordered(b)) : Taken(b) = SubSeq(Ordered(b), 1, n)
  BY <1>5, <1>6, WithinGasFits DEF Taken
<1>8. Taken(b) \in Seq(Packages)
  BY <1>5, <1>7
<1>9. ToSet(Taken(b)) \subseteq Packages
  BY <1>8, MembersOf
<1> QED
  BY <1>2, <1>3, <1>4, <1>5, <1>7, <1>8, <1>9 DEF avail, cores

\* Whatever a block takes was available or in theta.
LEMMA TakenFrom ==
  ASSUME TypeOK, NEW b \in Blocks
  PROVE  /\ \A k \in 1..Len(Ordered(b)) :
              Ordered(b)[k] \in ToSet(Available(b)) \cup ReadyPackages
         /\ ToSet(Taken(b)) \subseteq ToSet(Available(b)) \cup ReadyPackages
         /\ PackageOf(NewEntries(b)) \subseteq ToSet(Available(b)) \ Xi(accumulated)
<1> DEFINE avail == Available(b)
           new == NewEntries(b)
           c == Ordered(b)
<1>1. /\ avail \in Seq(Packages) /\ new \in Seq(Entry) /\ c \in Seq(Packages) /\ Index(b) \in Slots
      /\ ready \in [Slots -> Seq(Entry)]
  BY BlockParts, QueueParts DEF TypeOK
<1>2. new = Queued(avail, accumulated) /\ c = Accumulatable(avail, ready, accumulated, Index(b))
  BY DEF NewEntries, Ordered
<1> HIDE DEF avail, new, c
<1>3. \A k \in 1..Len(new) : \E i \in 1..Len(avail) :
        new[k] = NewEntry(avail[i], accumulated) /\ avail[i] \notin Xi(accumulated)
  BY <1>1, <1>2, QueuedEntries
<1>4. \A i \in 1..Len(avail) : avail[i] \in ToSet(avail)
  BY <1>1, MembersOf
<1>5. ASSUME NEW k \in 1..Len(new) PROVE new[k].pkg \in ToSet(avail) \ Xi(accumulated)
  <2>1. PICK i \in 1..Len(avail) :
          new[k] = NewEntry(avail[i], accumulated) /\ avail[i] \notin Xi(accumulated)
    BY <1>3
  <2>2. new[k].pkg = avail[i]
    BY <2>1 DEF NewEntry
  <2> QED
    BY <1>4, <2>1, <2>2
<1>6. \A k \in 1..Len(c) : ComesFrom(c, k, avail, ready, new)
  BY <1>1, <1>2, Candidates
<1>7. ASSUME NEW e, Held(e, ready, new) PROVE e.pkg \in ToSet(avail) \cup ReadyPackages
  <2>1. CASE \E i \in Slots : \E j \in 1..Len(ready[i]) : e = ready[i][j]
    <3>1. PICK i \in Slots : \E j \in 1..Len(ready[i]) : e = ready[i][j]
      BY <2>1
    <3>2. DOMAIN ready[i] = 1..Len(ready[i])
      BY <1>1
    <3>3. e.pkg \in PackageOf(ready[i])
      BY <3>1, <3>2 DEF PackageOf
    <3> QED
      BY <3>3 DEF ReadyPackages
  <2>2. CASE \E j \in 1..Len(new) : e = new[j]
    BY <1>5, <2>2
  <2> QED
    BY <1>7, <2>1, <2>2 DEF Held
<1>8. ASSUME NEW k \in 1..Len(c) PROVE c[k] \in ToSet(avail) \cup ReadyPackages
  <2>1. CASE \E i \in 1..Len(avail) : avail[i] = c[k]
    BY <1>4, <2>1
  <2>2. CASE \E e \in Entry : Held(e, ready, new) /\ e.pkg = c[k]
    BY <1>7, <2>2
  <2> QED
    BY <1>6, <2>1, <2>2 DEF ComesFrom
<1>9. ToSet(Taken(b)) \subseteq ToSet(avail) \cup ReadyPackages
  <2>1. PICK n \in 0..Len(c) : Taken(b) = SubSeq(c, 1, n)
    BY QueueParts DEF c
  <2>2. Taken(b) \in Seq(Packages) /\ Len(Taken(b)) = n
        /\ \A k \in 1..n : k \in 1..Len(c) /\ Taken(b)[k] = c[k]
    BY <1>1, <2>1
  <2> QED
    BY <1>8, <2>2, MembersOf
<1>10. PackageOf(new) \subseteq ToSet(avail) \ Xi(accumulated)
  <2>1. DOMAIN new = 1..Len(new)
    BY <1>1
  <2> QED
    BY <1>5, <2>1 DEF PackageOf
<1> QED
  BY <1>8, <1>9, <1>10 DEF avail, new, c

LEMMA AgeZero ==
  ASSUME NEW i \in Slots, NEW m \in Slots
  PROVE  SlotAge(i, m) \in Slots /\ (SlotAge(i, m) = 0 <=> i = m)
<1> DEFINE n == EpochLength
           a == m + n - i
<1>0. n \in Nat \ {0} /\ m \in 0..n - 1 /\ i \in 0..n - 1
  BY QueueConstants DEF Slots
<1> HIDE DEF n
<1>1. SlotAge(i, m) = a % n
  BY DEF SlotAge, n
<1>2. a \in Int /\ a % n \in 0..n - 1
  <2>1. \A x \in Int : x % n \in 0..n - 1
    BY <1>0
  <2>2. a \in Int
    BY <1>0
  <2> HIDE DEF a
  <2> QED
    BY <2>1, <2>2
<1>3. CASE i = m
  <2>1. a = n * 1 + 0
    BY <1>0, <1>3
  <2>2. PICK q \in Int : q = 1
    OBVIOUS
  <2> HIDE DEF a
  <2>3. a % n = 0
    BY <1>0, <2>1, <2>2, Remainder
  <2> QED
    BY <1>1, <1>2, <1>3, <2>3 DEF Slots, n
<1>4. CASE i # m
  <2>1. a # 0 /\ a # n /\ a > 0 /\ a < 2 * n
    BY <1>0, <1>4
  <2>2. PICK p \in Int : a = n * p + (a % n)
    BY <1>0, <1>2, Division
  <2> HIDE DEF a
  <2>3. a % n # 0
    <3>1. SUFFICES ASSUME a = n * p PROVE FALSE
      BY <1>0, <1>2, <2>2
    <3>2. CASE p <= 0
      <4>1. \A x \in Nat, y \in Int : y <= 0 => x * y <= 0
        OBVIOUS
      <4>2. n * p <= 0
        BY <1>0, <3>2, <4>1
      <4> QED
        BY <1>0, <1>2, <2>1, <3>1, <4>2
    <3>3. CASE p = 1
      BY <1>0, <2>1, <3>1, <3>3
    <3>4. CASE p >= 2
      <4>1. \A x \in Nat, y \in Int : y >= 0 => x * y >= 0
        OBVIOUS
      <4>2. n * (p - 2) >= 0
        BY <1>0, <3>4, <4>1
      <4>3. n * (p - 2) = n * p - 2 * n
        BY <1>0
      <4> QED
        BY <1>0, <1>2, <2>1, <3>1, <4>2, <4>3
    <3> QED
      BY <3>2, <3>3, <3>4
  <2> QED
    BY <1>1, <1>2, <1>4, <2>3 DEF Slots, n
<1> QED
  BY <1>3, <1>4

\* The index of this block's slot takes the new entries, skipped slots are
\* emptied, and the others are edited.
LEMMA ReadyStep ==
  ASSUME TypeOK, NEW b \in Blocks, Import(b), NEW i \in Slots
  PROVE  /\ ready' = [k \in Slots |-> ready'[k]]
         /\ SlotAge(i, Index(b)) \in Slots
         /\ i = Index(b) =>
              SlotAge(i, Index(b)) = 0 /\ ready'[i] = Edit(NewEntries(b), ToSet(Taken(b)))
         /\ i # Index(b) => SlotAge(i, Index(b)) # 0
         /\ i # Index(b) /\ SlotAge(i, Index(b)) < Gap(b) => ready'[i] = <<>>
         /\ i # Index(b) /\ ~ (SlotAge(i, Index(b)) < Gap(b)) =>
              ready'[i] = Edit(ready[i], ToSet(Taken(b)))
<1>1. ready' = ShiftReady(ready, NewEntries(b), ToSet(Taken(b)), Index(b), Gap(b))
  BY ImportStep
<1>2. Index(b) \in Slots
  BY BlockParts
<1>3. SlotAge(i, Index(b)) \in Slots /\ (SlotAge(i, Index(b)) = 0 <=> i = Index(b))
  BY <1>2, AgeZero
<1> QED
  BY <1>1, <1>3 DEF ShiftReady

\* Every entry is what is left of a new or of an old one of the same index.
LEMMA EntryStep ==
  ASSUME TypeOK, NEW b \in Blocks, Import(b), NEW i \in Slots, NEW acc, acc = ToSet(Taken(b)),
         NEW es, es = IF i = Index(b) THEN NewEntries(b) ELSE ready[i]
  PROVE  /\ es \in Seq(Entry) /\ ready'[i] \in Seq(Entry)
         /\ ready'[i] # <<>> => ready'[i] = Edit(es, acc)
         /\ \A j \in 1..Len(ready'[i]) :
              \E k \in 1..Len(es) : ready'[i][j] = Cut(es[k], acc) /\ es[k].pkg \notin acc
         /\ PackageOf(ready'[i]) \subseteq PackageOf(es) \ acc
         /\ OnceEach(es) => OnceEach(ready'[i])
<1>1. es \in Seq(Entry)
  BY QueueParts DEF TypeOK
<1>2. Edit(es, acc) \in Seq(Entry) /\ Edited(Edit(es, acc), es, acc)
  BY <1>1, EditEdits
<1>3. PackageOf(Edit(es, acc)) = PackageOf(es) \ acc
  BY <1>1, EditPackages
<1>4. ready'[i] = <<>> \/ ready'[i] = Edit(es, acc)
  BY ReadyStep
<1>5. CASE ready'[i] = <<>>
  <2>1. PackageOf(ready'[i]) = {}
    BY <1>5 DEF PackageOf
  <2>2. Len(ready'[i]) = 0 /\ ready'[i] \in Seq(Entry)
    BY <1>5
  <2> QED
    BY <1>1, <1>5, <2>1, <2>2 DEF OnceEach
<1>6. CASE ready'[i] = Edit(es, acc)
  <2> DEFINE t == Edit(es, acc)
  <2> HIDE DEF t
  <2>1. t = ready'[i] /\ t \in Seq(Entry) /\ Edited(t, es, acc) /\ PackageOf(t) = PackageOf(es) \ acc
    BY <1>2, <1>3, <1>6 DEF t
  <2>2. \A j \in 1..Len(t) : \E k \in 1..Len(es) : t[j] = Cut(es[k], acc) /\ es[k].pkg \notin acc
    BY <2>1 DEF Edited
  <2>3. OnceEach(es) => OnceEach(t)
    BY <2>1 DEF Edited
  <2> QED
    BY <1>1, <1>6, <2>1, <2>2, <2>3
<1> QED
  BY <1>4, <1>5, <1>6

LEMMA MaxOfTwo ==
  ASSUME NEW x \in Int, NEW y \in Int
  PROVE  Max({x, y}) = IF x >= y THEN x ELSE y
<1> DEFINE S == {x, y}
           z == IF x >= y THEN x ELSE y
<1>1. z \in S /\ \A w \in S : z >= w
  OBVIOUS
<1>2. ASSUME NEW u \in S, \A w \in S : u >= w PROVE u = z
  BY <1>1, <1>2
<1>3. Max(S) = CHOOSE u \in S : \A w \in S : u >= w
  BY DEF Max
<1> QED
  BY <1>1, <1>2, <1>3

\* beta keeps its newest blocks.
LEMMA HistoryStep ==
  ASSUME TypeOK, NEW ext, Incoming(ext) \subseteq Packages, NEW h, h = PushHistory(ext)
  PROVE  /\ h \in Seq(SUBSET Packages) /\ Len(h) <= MaxHistory /\ Len(h) >= 1
         /\ Len(h) <= Len(history) + 1 /\ h[Len(h)] = Incoming(ext)
         /\ \A d \in Nat : d < Len(history) /\ d + 1 < MaxHistory =>
              d + 1 < Len(h) /\ h[Len(h) - (d + 1)] = history[Len(history) - d]
<1> DEFINE n == Len(history)
           in == Incoming(ext)
           longer == Append(history, in)
           first == (n + 1) - MaxHistory + 1
<1>0. /\ history \in Seq(SUBSET Packages) /\ n \in Nat /\ MaxHistory \in Nat \ {0} /\ n <= MaxHistory
      /\ in \in SUBSET Packages
  BY ReportsConstants DEF TypeOK
<1>1. /\ longer \in Seq(SUBSET Packages) /\ Len(longer) = n + 1
      /\ \A k \in 1..n : longer[k] = history[k]
      /\ longer[n + 1] = in
  BY <1>0
<1> HIDE DEF in
<1>2. h = SubSeq(longer, Max({1, first}), n + 1)
  BY <1>1 DEF PushHistory, in
<1> HIDE DEF longer
<1>3. first \in Int /\ Max({1, first}) = IF 1 >= first THEN 1 ELSE first
  BY <1>0, MaxOfTwo
<1>4. CASE n < MaxHistory
  <2>1. Max({1, first}) = 1
    BY <1>0, <1>3, <1>4
  <2>2. h = SubSeq(longer, 1, n + 1)
    BY <1>2, <2>1
  <2>3. h \in Seq(SUBSET Packages) /\ Len(h) = n + 1 /\ \A k \in 1..n + 1 : h[k] = longer[k]
    BY <1>0, <1>1, <2>2
  <2>4. ASSUME NEW d \in Nat, d < n
        PROVE  d + 1 < n + 1 /\ h[(n + 1) - (d + 1)] = history[n - d]
    <3>1. n - d \in 1..n /\ (n + 1) - (d + 1) = n - d /\ n - d \in 1..n + 1
      BY <1>0, <2>4
    <3> QED
      BY <1>0, <1>1, <2>3, <2>4, <3>1
  <2> QED
    BY <1>0, <1>1, <1>4, <2>3, <2>4 DEF in
<1>5. CASE n = MaxHistory
  <2>1. Max({1, first}) = 2
    BY <1>0, <1>3, <1>5
  <2>2. h = SubSeq(longer, 2, n + 1)
    BY <1>2, <2>1
  <2>3. h \in Seq(SUBSET Packages) /\ Len(h) = n /\ \A k \in 1..n : h[k] = longer[k + 1]
    BY <1>0, <1>1, <2>2
  <2>4. ASSUME NEW d \in Nat, d + 1 < n
        PROVE  h[n - (d + 1)] = history[n - d]
    <3>1. n - (d + 1) \in 1..n /\ (n - (d + 1)) + 1 = n - d /\ n - d \in 1..n
      BY <1>0, <2>4
    <3> QED
      BY <1>1, <2>3, <3>1
  <2>5. h[n] = in
    BY <1>0, <1>1, <1>5, <2>3
  <2> QED
    BY <1>0, <1>5, <2>3, <2>4, <2>5 DEF in
<1> QED
  BY <1>0, <1>4, <1>5

\* A core has a guarantee of the block or what it had before.
LEMMA RhoStep ==
  ASSUME TypeOK, NEW b \in Blocks, Import(b), NEW ext, ext = b.guarantees
  PROVE  /\ rho' \in [Cores -> {NoReport} \cup Assignment]
         /\ \A c \in Engaged(rho') :
              \/ c \in Engaged(RhoDD(b)) /\ rho'[c] = rho[c]
              \/ /\ ReportedOK(b)
                 /\ \E i \in 1..Len(ext) : /\ ext[i].core = c /\ rho'[c].pkg = ext[i].pkg
                                           /\ rho'[c].timeout = b.slot
<1> DEFINE r == RhoDD(b)
<1>1. /\ r \in [Cores -> {NoReport} \cup Assignment]
      /\ \A c \in Engaged(r) : r[c] = rho[c]
      /\ ext \in Seq(Guarantee)
      /\ b.slot \in Nat
  <2>1. /\ r \in [Cores -> {NoReport} \cup Assignment]
        /\ \A c \in Engaged(r) : r[c] = rho[c]
        /\ ext \in Seq(Guarantee) /\ b.slot \in 0..SlotRange - 1
    BY BlockParts
  <2>2. b.slot \in Nat
    BY <2>1, ReportsConstants
  <2> QED
    BY <2>1, <2>2
<1>2. rho' = RhoPrime(r, ext, b.slot) /\ (ReportedOK(b) <=> GuaranteesOK(r, ext))
  BY ImportStep DEF ReportedOK
<1> HIDE DEF r
<1>3. CASE GuaranteesOK(r, ext)
  <2>1. rho' = [c \in Cores |->
            IF \E i \in DOMAIN ext : ext[i].core = c
              THEN [pkg |-> (CHOOSE g \in ToSet(ext) : g.core = c).pkg, timeout |-> b.slot]
              ELSE r[c]]
    BY <1>2, <1>3 DEF RhoPrime
  <2>2. DOMAIN ext = 1..Len(ext)
    BY <1>1
  <2>3. ASSUME NEW c \in Cores, \E i \in DOMAIN ext : ext[i].core = c
        PROVE  \E i \in 1..Len(ext) : ext[i].core = c /\ rho'[c] = [pkg |-> ext[i].pkg, timeout |-> b.slot]
    <3> DEFINE g == CHOOSE g \in ToSet(ext) : g.core = c
    <3>1. \E x \in ToSet(ext) : x.core = c
      BY <1>1, <2>2, <2>3, MembersOf
    <3>2. g \in ToSet(ext) /\ g.core = c
      BY <3>1
    <3>3. rho'[c] = [pkg |-> g.pkg, timeout |-> b.slot]
      BY <2>1, <2>3
    <3> HIDE DEF g
    <3>4. PICK i \in 1..Len(ext) : ext[i] = g
      BY <1>1, <3>2, MembersOf
    <3> QED
      BY <3>2, <3>3, <3>4
  <2>4. \A c \in Cores : ~ (\E i \in DOMAIN ext : ext[i].core = c) => rho'[c] = r[c]
    BY <2>1
  <2>5. ASSUME NEW c \in Cores
        PROVE  /\ rho'[c] \in {NoReport} \cup Assignment
               /\ \/ rho'[c] = r[c]
                  \/ \E i \in 1..Len(ext) : /\ ext[i].core = c /\ rho'[c].pkg = ext[i].pkg
                                            /\ rho'[c].timeout = b.slot
    <3>1. CASE \E i \in DOMAIN ext : ext[i].core = c
      <4>1. PICK i \in 1..Len(ext) :
              ext[i].core = c /\ rho'[c] = [pkg |-> ext[i].pkg, timeout |-> b.slot]
        BY <2>3, <3>1
      <4>2. ext[i].pkg \in Packages
        BY <1>1, GuaranteeFields
      <4>3. rho'[c].pkg = ext[i].pkg /\ rho'[c].timeout = b.slot /\ rho'[c] \in Assignment
        BY <1>1, <4>1, <4>2 DEF Assignment
      <4> QED
        BY <4>1, <4>3
    <3>2. CASE ~ \E i \in DOMAIN ext : ext[i].core = c
      BY <1>1, <2>4, <3>2
    <3> QED
      BY <3>1, <3>2
  <2>6. rho' \in [Cores -> {NoReport} \cup Assignment]
    BY <2>1, <2>5
  <2> QED
    BY <1>1, <1>2, <1>3, <2>5, <2>6 DEF Engaged, r
<1>4. CASE ~ GuaranteesOK(r, ext)
  <2>1. rho' = r
    BY <1>2, <1>4 DEF RhoPrime
  <2> QED
    BY <1>1, <2>1 DEF Engaged, r
<1> QED
  BY <1>3, <1>4

LEMMA AccumulatedStep ==
  ASSUME TypeOK, NEW b \in Blocks, Import(b)
  PROVE  /\ accumulated' \in [Slots -> SUBSET Packages]
         /\ EpochLength - 1 \in Slots /\ accumulated'[EpochLength - 1] = ToSet(Taken(b))
         /\ \A i \in Slots : i # EpochLength - 1 =>
              i + 1 \in Slots /\ accumulated'[i] = accumulated[i + 1]
         /\ Xi(accumulated') \subseteq Xi(accumulated) \cup ToSet(Taken(b))
         /\ ToSet(Taken(b)) \subseteq Xi(accumulated')
<1> DEFINE acc == ToSet(Taken(b))
<1>1. acc \subseteq Packages /\ accumulated \in [Slots -> SUBSET Packages]
  BY QueueParts DEF TypeOK
<1> HIDE DEF acc
<1>2. EpochLength - 1 \in Slots /\ \A i \in Slots : i # EpochLength - 1 => i + 1 \in Slots
  BY QueueConstants DEF Slots
<1>3. accumulated' = [i \in Slots |-> IF i = EpochLength - 1 THEN acc ELSE accumulated[i + 1]]
  BY ImportStep DEF ShiftAccumulated, acc
<1>4. /\ accumulated'[EpochLength - 1] = acc
      /\ \A i \in Slots : i # EpochLength - 1 => accumulated'[i] = accumulated[i + 1]
  BY <1>2, <1>3
<1>5. accumulated' \in [Slots -> SUBSET Packages]
  BY <1>1, <1>2, <1>3
<1>6. \A i \in Slots : accumulated[i] \subseteq Xi(accumulated) /\ accumulated'[i] \subseteq Xi(accumulated')
  BY DEF Xi
<1>7. ASSUME NEW p \in Xi(accumulated') PROVE p \in Xi(accumulated) \cup acc
  <2>1. PICK i \in Slots : p \in accumulated'[i]
    BY <1>7 DEF Xi
  <2> QED
    BY <1>2, <1>4, <1>6, <2>1
<1> QED
  BY <1>2, <1>4, <1>5, <1>6, <1>7 DEF acc

LEMMA TypeStep ==
  ASSUME TypeOK, NEW b \in Blocks, Import(b)
  PROVE  TypeOK'
<1>1. tau' \in 0..SlotRange - 1
  BY BlockParts, ImportStep DEF TypeOK
<1>2. rho' \in [Cores -> {NoReport} \cup Assignment]
  BY RhoStep
<1>3. ready' \in [Slots -> Seq(Entry)]
  <2>1. \A i \in Slots : ready'[i] \in Seq(Entry)
    BY EntryStep
  <2>2. ready' = [k \in Slots |-> ready'[k]]
    <3>1. ready' = ShiftReady(ready, NewEntries(b), ToSet(Taken(b)), Index(b), Gap(b))
      BY ImportStep
    <3> QED
      BY <3>1 DEF ShiftReady
  <2> QED
    BY <2>1, <2>2
<1>4. accumulated' \in [Slots -> SUBSET Packages]
  BY AccumulatedStep
<1>5. history' \in Seq(SUBSET Packages) /\ Len(history') <= MaxHistory
  <2>1. b.guarantees \in Seq(Guarantee)
    BY BlockParts
  <2>2. Incoming(b.guarantees) \subseteq Packages
    <3>1. DOMAIN b.guarantees = 1..Len(b.guarantees) /\ \A i \in 1..Len(b.guarantees) : b.guarantees[i] \in Guarantee
      BY <2>1
    <3> QED
      BY <3>1, GuaranteeFields DEF Incoming
  <2> QED
    BY <2>2, ImportStep, HistoryStep
<1>6. height' \in Nat
  BY ImportStep DEF TypeOK
<1>7. arrived' \subseteq Packages
  BY ImportStep, QueueParts, MembersOf
<1>8. batch' \in Seq(Packages)
  BY ImportStep, QueueParts
<1>9. queuedAt' \in [Packages -> Int]
  <2>1. b.slot \in Int
    BY BlockParts, ReportsConstants
  <2> QED
    BY <2>1, ImportStep DEF TypeOK
<1>10. accumulatedAt' \in [Packages -> Int]
  <2>1. height + 1 \in Int /\ accumulatedAt \in [Packages -> Int]
    BY DEF TypeOK
  <2> QED
    BY <2>1, ImportStep
<1>11. reportedAt' \in [Packages -> Int] /\ refused' \in [Stages -> Nat]
  BY AcceptedStep
<1> QED
  BY <1>1, <1>2, <1>3, <1>4, <1>5, <1>6, <1>7, <1>8, <1>9, <1>10, <1>11 DEF TypeOK

LEMMA TypeInit == Init => TypeOK
<1> SUFFICES ASSUME Init PROVE TypeOK
  OBVIOUS
<1>1. tau \in 0..SlotRange - 1 /\ height \in Nat
  BY ReportsConstants DEF Init
<1>2. rho \in [Cores -> {NoReport} \cup Assignment]
  BY DEF Init
<1>3. ready \in [Slots -> Seq(Entry)] /\ accumulated \in [Slots -> SUBSET Packages]
  BY DEF Init
<1>4. history \in Seq(SUBSET Packages) /\ Len(history) <= MaxHistory
  BY ReportsConstants DEF Init
<1>5. arrived \subseteq Packages /\ batch \in Seq(Packages) /\ refused \in [Stages -> Nat]
  BY DEF Init
<1>6. Never \in Int
  BY QueueConstants, ReportsConstants DEF Never
<1>7. /\ queuedAt \in [Packages -> Int] /\ reportedAt \in [Packages -> Int]
      /\ accumulatedAt \in [Packages -> Int]
  BY <1>6 DEF Init
<1> QED
  BY <1>1, <1>2, <1>3, <1>4, <1>5, <1>7 DEF TypeOK

\* The variables have their types.
THEOREM TypeCorrect == Spec => []TypeOK
<1>1. TypeOK /\ [Next]_vars => TypeOK'
  <2> SUFFICES ASSUME TypeOK, [Next]_vars PROVE TypeOK'
    OBVIOUS
  <2>1. CASE UNCHANGED vars
    BY <2>1 DEF vars, TypeOK
  <2>2. CASE \E b \in Blocks : Import(b)
    BY <2>2, TypeStep
  <2> QED
    BY <2>1, <2>2, NextImports
<1> QED
  BY <1>1, TypeInit, PTL DEF Spec

-----------------------------------------------------------------------------
(* A report runs after everything it depends on.                           *)

\* The new entries are struck off too.
LEMMA HeldStruckOff ==
  ASSUME TypeOK, StruckOff, NEW b \in Blocks, NEW e, Held(e, ready, NewEntries(b))
  PROVE  Deps[e.pkg] \ e.deps \subseteq Done
<1>1. CASE \E i \in Slots : \E j \in 1..Len(ready[i]) : e = ready[i][j]
  BY <1>1 DEF StruckOff
<1>2. CASE \E j \in 1..Len(NewEntries(b)) : e = NewEntries(b)[j]
  <2>1. Available(b) \in Seq(Packages)
    BY QueueParts
  <2>2. PICK i \in 1..Len(Available(b)) : e = NewEntry(Available(b)[i], accumulated)
    BY <1>2, <2>1, QueuedEntries DEF NewEntries
  <2> DEFINE p == Available(b)[i]
  <2>3. e.pkg = p /\ e.deps = Deps[p] \ Xi(accumulated)
    BY <2>2 DEF NewEntry
  <2> HIDE DEF p
  <2> QED
    BY <2>3 DEF StruckOff
<1> QED
  BY <1>1, <1>2 DEF Held

LEMMA DoneStep ==
  ASSUME TypeOK, NEW b \in Blocks, Import(b)
  PROVE  Done \subseteq Done' /\ ToSet(Taken(b)) \subseteq Done'
<1>1. height + 1 # Never
  <2>1. height \in Nat /\ EpochLength \in Nat /\ MaxHistory \in Nat
    BY QueueConstants, ReportsConstants DEF TypeOK
  <2> QED
    BY <2>1 DEF Never
<1>2. \A p \in Packages : accumulatedAt'[p] = IF p \in ToSet(Taken(b)) THEN height + 1
                                                                     ELSE accumulatedAt[p]
  BY ImportStep
<1>3. ToSet(Taken(b)) \subseteq Packages
  BY QueueParts
<1>4. Never' = Never
  BY DEF Never
<1>5. Done' = {p \in Packages : accumulatedAt'[p] # Never}
  BY DEF Done, Never
<1> QED
  BY <1>1, <1>2, <1>3, <1>5 DEF Done

LEMMA StruckOffStep ==
  ASSUME TypeOK, StruckOff, NEW b \in Blocks, Import(b)
  PROVE  StruckOff'
<1> DEFINE acc == ToSet(Taken(b))
<1>1. Done \subseteq Done' /\ acc \subseteq Done'
  BY DoneStep
<1>2. Xi(accumulated') \subseteq Xi(accumulated) \cup acc
  BY AccumulatedStep
<1> HIDE DEF acc
<1>3. Xi(accumulated') \subseteq Done'
  BY <1>1, <1>2 DEF StruckOff
<1>4. ASSUME NEW i \in Slots, NEW j \in 1..Len(ready'[i])
      PROVE  Deps[ready'[i][j].pkg] \ ready'[i][j].deps \subseteq Done'
  <2> DEFINE es == IF i = Index(b) THEN NewEntries(b) ELSE ready[i]
  <2>1. /\ es \in Seq(Entry)
        /\ \E k \in 1..Len(es) : ready'[i][j] = Cut(es[k], acc)
    BY EntryStep DEF acc
  <2>2. \A k \in 1..Len(es) : Held(es[k], ready, NewEntries(b))
    BY DEF Held
  <2> HIDE DEF es
  <2>3. PICK e \in Entry : Held(e, ready, NewEntries(b)) /\ ready'[i][j] = Cut(e, acc)
    BY <2>1, <2>2
  <2>4. Deps[e.pkg] \ e.deps \subseteq Done
    BY <2>3, HeldStruckOff
  <2>5. ready'[i][j].pkg = e.pkg /\ ready'[i][j].deps = e.deps \ acc
    BY <2>3, EntryFields
  <2> QED
    BY <1>1, <2>4, <2>5
<1> QED
  BY <1>3, <1>4 DEF StruckOff, Xi

LEMMA StruckOffInit == Init => StruckOff
<1> SUFFICES ASSUME Init PROVE StruckOff
  OBVIOUS
<1>1. \A i \in Slots : accumulated[i] = {} /\ Len(ready[i]) = 0
  BY DEF Init
<1> QED
  BY <1>1 DEF StruckOff, Xi

\* What no entry of theta waits for has been accumulated, and so has all of xi.
THEOREM DependenciesStruckOff == Spec => []StruckOff
<1>1. TypeOK /\ StruckOff /\ [Next]_vars => StruckOff'
  <2> SUFFICES ASSUME TypeOK, StruckOff, [Next]_vars PROVE StruckOff'
    OBVIOUS
  <2>1. CASE UNCHANGED vars
    BY <2>1 DEF vars, StruckOff, Done, Never
  <2>2. CASE \E b \in Blocks : Import(b)
    BY <2>2, StruckOffStep
  <2> QED
    BY <2>1, <2>2, NextImports
<1> QED
  BY <1>1, StruckOffInit, TypeCorrect, PTL DEF Spec

\* A report is accumulated only after everything it depends on, for any
\* dependency graph, and whatever the stages refuse.
THEOREM AfterDependencies == Spec => DependenciesInOrder
<1> DEFINE InOrder == \A k \in DOMAIN batch' : \A q \in Deps[batch'[k]] :
                        accumulatedAt[q] # Never \/ \E l \in 1..k - 1 : batch'[l] = q
<1>1. TypeOK /\ StruckOff /\ [Next]_vars => [InOrder]_vars
  <2> SUFFICES ASSUME TypeOK, StruckOff, NEW b \in Blocks, Import(b) PROVE InOrder
    BY NextImports
  <2> DEFINE c == Ordered(b)
  <2>1. /\ c \in Seq(Packages) /\ batch' = Taken(b)
        /\ \E n \in 0..Len(c) : Taken(b) = SubSeq(c, 1, n)
    BY QueueParts, ImportStep
  <2>2. \A k \in 1..Len(c) : ComesFrom(c, k, Available(b), ready, NewEntries(b))
    <3>1. /\ Available(b) \in Seq(Packages) /\ ready \in [Slots -> Seq(Entry)] /\ Index(b) \in Slots
      BY QueueParts, BlockParts DEF TypeOK
    <3> QED
      BY <3>1, Candidates DEF Ordered, NewEntries
  <2> HIDE DEF c
  <2>3. PICK n \in 0..Len(c) : batch' = SubSeq(c, 1, n)
    BY <2>1
  <2>4. /\ DOMAIN batch' = 1..n /\ \A k \in 1..n : k \in 1..Len(c) /\ batch'[k] = c[k]
    BY <2>1, <2>3
  <2>5. ASSUME NEW k \in 1..n, NEW q \in Deps[batch'[k]]
        PROVE  accumulatedAt[q] # Never \/ \E l \in 1..k - 1 : batch'[l] = q
    <3>1. PICK e \in Entry : /\ Held(e, ready, NewEntries(b)) /\ e.pkg = c[k]
                             /\ \A x \in e.deps : \E l \in 1..k - 1 : c[l] = x
      BY <2>2, <2>4, <2>5 DEF ComesFrom
    <3>2. Deps[e.pkg] \ e.deps \subseteq Done
      BY <3>1, HeldStruckOff
    <3>3. CASE q \in Done
      BY <3>3 DEF Done
    <3>4. CASE q \in e.deps
      <4>1. PICK l \in 1..k - 1 : c[l] = q
        BY <3>1, <3>4
      <4>2. l \in 1..n
        OBVIOUS
      <4> QED
        BY <2>4, <4>1, <4>2
    <3> QED
      BY <2>4, <2>5, <3>1, <3>2, <3>3, <3>4
  <2> QED
    BY <2>4, <2>5
<1>2. Spec => [][InOrder]_vars
  <2> HIDE DEF InOrder
  <2> QED
    BY <1>1, TypeCorrect, DependenciesStruckOff, PTL DEF Spec
<1> QED
  BY <1>2 DEF DependenciesInOrder

-----------------------------------------------------------------------------
(* The gas of a block.                                                     *)

\* n reports that each may ask for g ask for no more than n * g together.
LEMMA SumsBounded ==
  ASSUME NEW pkgs \in Seq(Packages), NEW f, Sums(f, pkgs), NEW g \in Nat,
         \A i \in 1..Len(pkgs) : Gas[pkgs[i]] <= g
  PROVE  \A i \in 0..Len(pkgs) : f[i] <= i * g
<1> DEFINE n == Len(pkgs)
           T == {i \in 0..n : f[i] <= i * g}
<1>1. n \in Nat /\ f \in [0..n -> Nat] /\ f[0] = 0
      /\ \A i \in 1..n : f[i] = f[i - 1] + Gas[pkgs[i]]
  BY DEF Sums
<1> HIDE DEF n
<1>2. 0 \in T
  BY <1>1
<1>3. ASSUME NEW i \in 1..n, i - 1 \in T PROVE i \in T
  <2>1. i \in Nat /\ i - 1 \in 0..n /\ i \in 0..n
    BY <1>1
  <2>2. f[i - 1] <= (i - 1) * g /\ f[i - 1] \in Nat /\ f[i] = f[i - 1] + Gas[pkgs[i]]
    BY <1>1, <1>3, <2>1
  <2>3. Gas[pkgs[i]] \in Nat /\ Gas[pkgs[i]] <= g
    BY QueueConstants DEF n
  <2>4. (i - 1) * g + g = i * g /\ (i - 1) * g \in Int /\ i * g \in Int
    BY <2>1
  <2>5. f[i] <= i * g
    <3>1. \A w, x, y, z, u \in Int : w <= x /\ z <= u /\ y = x + u => w + z <= y
      OBVIOUS
    <3> QED
      BY <2>2, <2>3, <2>4, <3>1
  <2> QED
    BY <2>1, <2>5
<1>4. \A i \in 0..n : i \in T
  <2> HIDE DEF T
  <2> QED
    BY <1>1, <1>2, <1>3, InductionUpTo
<1> QED
  BY <1>4 DEF n

\* The bound holds of the new entries and of all candidates.
LEMMA HeldGas ==
  ASSUME TypeOK, GasBounded, NEW b \in Blocks
  PROVE  /\ \A k \in 1..Len(Available(b)) : Gas[Available(b)[k]] <= ReportGas
         /\ \A e : Held(e, ready, NewEntries(b)) => Gas[e.pkg] <= ReportGas
         /\ \A k \in 1..Len(Ordered(b)) : Gas[Ordered(b)[k]] <= ReportGas
<1>0. /\ Available(b) \in Seq(Packages) /\ ready \in [Slots -> Seq(Entry)] /\ Index(b) \in Slots
  BY QueueParts, BlockParts DEF TypeOK
<1>1. \A k \in 1..Len(Available(b)) : Gas[Available(b)[k]] <= ReportGas
  BY QueueParts DEF GasBounded
<1>2. ASSUME NEW e, Held(e, ready, NewEntries(b)) PROVE Gas[e.pkg] <= ReportGas
  <2>1. CASE \E i \in Slots : \E j \in 1..Len(ready[i]) : e = ready[i][j]
    BY <2>1 DEF GasBounded
  <2>2. CASE \E j \in 1..Len(NewEntries(b)) : e = NewEntries(b)[j]
    <3>1. PICK i \in 1..Len(Available(b)) : e = NewEntry(Available(b)[i], accumulated)
      BY <1>0, <2>2, QueuedEntries DEF NewEntries
    <3>2. e.pkg = Available(b)[i]
      BY <3>1 DEF NewEntry
    <3> QED
      BY <1>1, <3>2
  <2> QED
    BY <1>2, <2>1, <2>2 DEF Held
<1>3. \A k \in 1..Len(Ordered(b)) : ComesFrom(Ordered(b), k, Available(b), ready, NewEntries(b))
  BY <1>0, Candidates DEF Ordered, NewEntries
<1>4. \A k \in 1..Len(Ordered(b)) : Gas[Ordered(b)[k]] <= ReportGas
  BY <1>1, <1>2, <1>3 DEF ComesFrom
<1> QED
  BY <1>1, <1>2, <1>4

LEMMA GasBoundedStep ==
  ASSUME TypeOK, GasBounded, NEW b \in Blocks, Import(b)
  PROVE  GasBounded'
<1>1. ASSUME NEW c \in Engaged(rho') PROVE Gas[rho'[c].pkg] <= ReportGas
  <2> DEFINE ext == b.guarantees
  <2>1. CASE c \in Engaged(RhoDD(b)) /\ rho'[c] = rho[c]
    BY <2>1, BlockParts DEF GasBounded
  <2>2. CASE ReportedOK(b) /\ \E i \in 1..Len(ext) : rho'[c].pkg = ext[i].pkg
    <3>1. PICK i \in 1..Len(ext) : rho'[c].pkg = ext[i].pkg
      BY <2>2
    <3>2. DOMAIN ext = 1..Len(ext)
      BY BlockParts
    <3> QED
      BY <2>2, <3>1, <3>2 DEF ReportedOK, GuaranteesOK, GuaranteeOK
  <2> QED
    BY <2>1, <2>2, RhoStep
<1>2. ASSUME NEW i \in Slots, NEW j \in 1..Len(ready'[i])
      PROVE  Gas[ready'[i][j].pkg] <= ReportGas
  <2> DEFINE es == IF i = Index(b) THEN NewEntries(b) ELSE ready[i]
             acc == ToSet(Taken(b))
  <2>1. /\ es \in Seq(Entry)
        /\ \E k \in 1..Len(es) : ready'[i][j] = Cut(es[k], acc)
    BY EntryStep
  <2>2. \A k \in 1..Len(es) : Held(es[k], ready, NewEntries(b))
    BY DEF Held
  <2> HIDE DEF es, acc
  <2>3. PICK e \in Entry : Held(e, ready, NewEntries(b)) /\ ready'[i][j] = Cut(e, acc)
    BY <2>1, <2>2
  <2>4. ready'[i][j].pkg = e.pkg
    BY <2>3, EntryFields
  <2> QED
    BY <2>3, <2>4, HeldGas
<1> QED
  BY <1>1, <1>2 DEF GasBounded, Engaged

LEMMA GasBoundedInit == Init => GasBounded
<1> SUFFICES ASSUME Init PROVE GasBounded
  OBVIOUS
<1>1. Engaged(rho) = {} /\ \A i \in Slots : Len(ready[i]) = 0
  BY DEF Init, Engaged
<1> QED
  BY <1>1 DEF GasBounded

\* Every report on a core or in theta asks for no more gas than a report may.
THEOREM ReportGasBounded == Spec => []GasBounded
<1>1. TypeOK /\ GasBounded /\ [Next]_vars => GasBounded'
  <2> SUFFICES ASSUME TypeOK, GasBounded, [Next]_vars PROVE GasBounded'
    OBVIOUS
  <2>1. CASE UNCHANGED vars
    BY <2>1 DEF vars, GasBounded, Engaged
  <2>2. CASE \E b \in Blocks : Import(b)
    BY <2>2, GasBoundedStep
  <2> QED
    BY <2>1, <2>2, NextImports
<1> QED
  BY <1>1, GasBoundedInit, TypeCorrect, PTL DEF Spec

\* An entry that waits for nothing is still there only if the block was full.
LEMMA DelayStep ==
  ASSUME TypeOK, GasBounded, NEW b \in Blocks, Import(b)
  PROVE  OnlyGasDelays'
<1> DEFINE c == Ordered(b)
           new == NewEntries(b)
           acc == ToSet(Taken(b))
<1>0. /\ Available(b) \in Seq(Packages) /\ ready \in [Slots -> Seq(Entry)] /\ Index(b) \in Slots
      /\ c \in Seq(Packages) /\ batch' = Taken(b)
  BY QueueParts, BlockParts, ImportStep DEF TypeOK
<1>1. \A e \in Entry : Held(e, ready, new) /\ e.pkg \notin ToSet(c) =>
        \E q \in e.deps : q \notin ToSet(c)
  BY <1>0, Candidates DEF Ordered, NewEntries
<1>2. PICK f : Sums(f, c)
  BY <1>0, GasOfSums
<1>3. PICK n \in 0..Len(c) :
        /\ Taken(b) = SubSeq(c, 1, n)
        /\ GasOf(Taken(b)) = f[n]
        /\ n < Len(c) => f[n] + Gas[c[n + 1]] > BlockGas
  BY <1>0, <1>2, WithinGasFits DEF Taken
<1> HIDE DEF c, new
<1>4. CASE n < Len(c)
  <2>1. n + 1 \in 1..Len(c) /\ f[n] \in Nat
    BY <1>0, <1>2, <1>4 DEF Sums
  <2>2. Gas[c[n + 1]] <= ReportGas
    BY <2>1, HeldGas DEF c
  <2>3. Gas[c[n + 1]] \in Nat /\ ReportGas \in Nat /\ BlockGas \in Nat
    <3>1. c[n + 1] \in Packages
      BY <1>0, <2>1
    <3>2. ReportGas \in Nat
      BY ReportsConstants
    <3> QED
      BY <3>1, <3>2, QueueConstants
  <2>4. f[n] + ReportGas > BlockGas
    BY <1>3, <1>4, <2>1, <2>2, <2>3
  <2> QED
    BY <1>0, <1>3, <2>4 DEF OnlyGasDelays
<1>5. CASE n = Len(c)
  <2>1. acc = ToSet(c)
    <3>1. Taken(b) = c
      BY <1>0, <1>3, <1>5
    <3> QED
      BY <3>1
  <2> HIDE DEF acc
  <2>2. ASSUME NEW e \in Entries', e.deps = {} PROVE FALSE
    <3>1. PICK i \in Slots : e \in ToSet(ready'[i])
      BY <2>2 DEF Entries, Slots
    <3> DEFINE es == IF i = Index(b) THEN NewEntries(b) ELSE ready[i]
    <3>2. /\ es \in Seq(Entry) /\ ready'[i] \in Seq(Entry)
          /\ \A j \in 1..Len(ready'[i]) :
               \E k \in 1..Len(es) : ready'[i][j] = Cut(es[k], acc) /\ es[k].pkg \notin acc
      <4>1. acc = ToSet(Taken(b)) /\ es = IF i = Index(b) THEN NewEntries(b) ELSE ready[i]
        BY DEF acc
      <4> HIDE DEF es
      <4> QED
        BY <4>1, EntryStep
    <3>3. \A k \in 1..Len(es) : Held(es[k], ready, new)
      BY DEF Held, new
    <3> HIDE DEF es
    <3>4. PICK j \in 1..Len(ready'[i]) : ready'[i][j] = e
      BY <3>1, <3>2, MembersOf
    <3>5. PICK k \in 1..Len(es) : e = Cut(es[k], acc) /\ es[k].pkg \notin acc
      BY <3>2, <3>4
    <3>6. es[k] \in Entry /\ Held(es[k], ready, new)
      BY <3>2, <3>3
    <3>7. e.deps = es[k].deps \ acc
      BY <3>5, <3>6, EntryFields
    <3> QED
      BY <1>1, <2>1, <2>2, <3>5, <3>6, <3>7
  <2> QED
    BY <2>2 DEF OnlyGasDelays
<1> QED
  BY <1>0, <1>3, <1>4, <1>5

\* A report that waits for nothing stays in theta only when another report of
\* the largest gas might not have fit in the block.
THEOREM GasDelays == Spec => []OnlyGasDelays
<1>1. Init => OnlyGasDelays
  <2> SUFFICES ASSUME Init PROVE Entries = {}
    BY DEF OnlyGasDelays
  <2>1. \A i \in Slots : ready[i] = <<>>
    BY DEF Init
  <2>2. ToSet(<<>>) = {}
    BY DEF ToSet
  <2> QED
    BY <2>1, <2>2 DEF Entries
<1>2. TypeOK /\ GasBounded /\ OnlyGasDelays /\ [Next]_vars => OnlyGasDelays'
  <2> SUFFICES ASSUME TypeOK, GasBounded, OnlyGasDelays, [Next]_vars PROVE OnlyGasDelays'
    OBVIOUS
  <2>1. CASE UNCHANGED vars
    BY <2>1 DEF vars, OnlyGasDelays, Entries
  <2>2. CASE \E b \in Blocks : Import(b)
    BY <2>2, DelayStep
  <2> QED
    BY <2>1, <2>2, NextImports
<1> QED
  BY <1>1, <1>2, TypeCorrect, ReportGasBounded, PTL DEF Spec

\* Among the candidates that one report per core comes to, each fits.
LEMMA FirstFit ==
  ASSUME TypeOK, GasBounded, NEW b \in Blocks, NEW k \in 1..Len(Ordered(b)), k <= CoreCount
  PROVE  Ordered(b)[k] \in ToSet(Taken(b))
<1> DEFINE c == Ordered(b)
<1>0. c \in Seq(Packages) /\ Taken(b) \in Seq(Packages) /\ k \in Nat
  BY QueueParts
<1>1. PICK f : Sums(f, c)
  BY <1>0, GasOfSums
<1>2. PICK n \in 0..Len(c) :
        /\ Taken(b) = SubSeq(c, 1, n)
        /\ \A m \in 0..Len(c) : f[m] <= BlockGas => m <= n
  BY <1>0, <1>1, WithinGasFits DEF Taken
<1>3. ReportGas \in Nat /\ CoreCount \in Nat /\ BlockGas \in Nat /\ CoreCount * ReportGas <= BlockGas
  BY AssurancesConstants, QueueConstants, ReportsConstants, ReportsFit
<1>4. f[k] <= k * ReportGas /\ f[k] \in Nat
  <2>1. \A i \in 1..Len(c) : Gas[c[i]] <= ReportGas
    BY HeldGas
  <2>2. k \in 0..Len(c)
    BY <1>0
  <2> HIDE DEF c
  <2> QED
    BY <1>0, <1>1, <1>3, <2>1, <2>2, SumsBounded DEF Sums
<1>5. k * ReportGas <= CoreCount * ReportGas
  <2>1. \A d, g \in Nat : d * g \in Nat
    OBVIOUS
  <2>2. CoreCount - k \in Nat
    BY <1>0, <1>3
  <2>3. (CoreCount - k) * ReportGas \in Nat
    BY <1>3, <2>1, <2>2
  <2>4. (CoreCount - k) * ReportGas = CoreCount * ReportGas - k * ReportGas
    BY <1>0, <1>3
  <2>5. k * ReportGas \in Nat /\ CoreCount * ReportGas \in Nat
    BY <1>0, <1>3, <2>1
  <2> QED
    BY <2>3, <2>4, <2>5
<1>6. k * ReportGas \in Nat /\ CoreCount * ReportGas \in Nat
  <2>1. \A d, g \in Nat : d * g \in Nat
    OBVIOUS
  <2> QED
    BY <1>0, <1>3, <2>1
<1>7. f[k] <= BlockGas
  <2>1. \A w, x, y, z \in Nat : w <= x /\ x <= y /\ y <= z => w <= z
    OBVIOUS
  <2> QED
    BY <1>3, <1>4, <1>5, <1>6, <2>1
<1>8. k <= n
  BY <1>0, <1>2, <1>7
<1> HIDE DEF c
<1>9. Taken(b)[k] = c[k] /\ k \in 1..Len(Taken(b))
  BY <1>0, <1>2, <1>8 DEF c
<1> QED
  BY <1>0, <1>9, MembersOf DEF c

\* Every report that becomes available is accumulated, queued, or was in xi:
\* the gas bound cuts off no report that it was the last chance of.
THEOREM AvailableKept == Spec => AvailableIsKept
<1> DEFINE IsKept == arrived' \subseteq ReadyPackages' \cup Xi(accumulated') \cup Xi(accumulated)
<1>1. TypeOK /\ GasBounded /\ [Next]_vars => [IsKept]_vars
  <2> SUFFICES ASSUME TypeOK, GasBounded, NEW b \in Blocks, Import(b) PROVE IsKept
    BY NextImports
  <2> DEFINE avail == Available(b)
             new == NewEntries(b)
             acc == ToSet(Taken(b))
             m == Index(b)
  <2>0. /\ avail \in Seq(Packages) /\ Len(avail) <= CoreCount /\ ready \in [Slots -> Seq(Entry)]
        /\ m \in Slots /\ arrived' = ToSet(avail) /\ new \in Seq(Entry) /\ Len(avail) \in Nat
        /\ CoreCount \in Nat
    <3>1. avail \in Seq(Packages) /\ m \in Slots /\ new \in Seq(Entry)
      BY QueueParts, BlockParts
    <3> QED
      BY <3>1, QueueParts, ImportStep, AssurancesConstants DEF TypeOK
  <2>1. acc \subseteq Xi(accumulated')
    BY AccumulatedStep
  <2>2. ImmediateFirst(Ordered(b), avail)
    <3>1. new = Queued(avail, accumulated) /\ Ordered(b) = Accumulatable(avail, ready, accumulated, m)
      BY DEF NewEntries, Ordered
    <3> HIDE DEF avail, new, m
    <3> QED
      BY <2>0, <3>1, Candidates
  <2>3. \A i \in 1..Len(avail) : Deps[avail[i]] # {} /\ avail[i] \notin Xi(accumulated) =>
          \E k \in 1..Len(new) : new[k] = NewEntry(avail[i], accumulated)
    BY <2>0, QueuedEntries DEF NewEntries
  <2>4. PackageOf(ready'[m]) = PackageOf(new) \ acc
    BY <2>0, ReadyStep, EditPackages
  <2>5. PackageOf(ready'[m]) \subseteq ReadyPackages'
    BY <2>0 DEF ReadyPackages, Slots
  <2> HIDE DEF avail, new, acc, m
  <2>6. ASSUME NEW i \in 1..Len(avail)
        PROVE  avail[i] \in ReadyPackages' \cup Xi(accumulated') \cup Xi(accumulated)
    <3>1. CASE Deps[avail[i]] = {}
      <4>1. PICK k \in 1..Len(Ordered(b)) : k <= Len(avail) /\ Ordered(b)[k] = avail[i]
        BY <2>2, <3>1 DEF ImmediateFirst
      <4>2. k <= CoreCount
        BY <2>0, <4>1
      <4> QED
        BY <2>1, <4>1, <4>2, FirstFit DEF acc
    <3>2. CASE Deps[avail[i]] # {} /\ avail[i] \notin Xi(accumulated)
      <4>1. PICK k \in 1..Len(new) : new[k] = NewEntry(avail[i], accumulated)
        BY <2>3, <3>2
      <4>2. new[k].pkg = avail[i] /\ DOMAIN new = 1..Len(new)
        BY <2>0, <4>1 DEF NewEntry
      <4>3. avail[i] \in PackageOf(new)
        BY <4>2 DEF PackageOf
      <4> QED
        BY <2>1, <2>4, <2>5, <4>3
    <3> QED
      BY <3>1, <3>2
  <2> QED
    BY <2>0, <2>6, MembersOf
<1>2. Spec => [][IsKept]_vars
  <2> HIDE DEF IsKept
  <2> QED
    BY <1>1, TypeCorrect, ReportGasBounded, PTL DEF Spec
<1> QED
  BY <1>2 DEF AvailableIsKept

-----------------------------------------------------------------------------
(* How long an entry stays in theta.                                       *)

LEMMA OneTurn ==
  ASSUME NEW n \in Nat \ {0}, NEW x \in Nat
  PROVE  /\ x % n \in 0..n - 1
         /\ x < n => x % n = x
         /\ x >= n /\ x < 2 * n => x % n = x - n
<1>1. x % n \in 0..n - 1
  OBVIOUS
<1>2. ASSUME x < n PROVE x % n = x
  BY <1>2
<1>3. ASSUME x >= n, x < 2 * n PROVE x % n = x - n
  <2>1. PICK q \in Int : q = 1
    OBVIOUS
  <2> DEFINE r == x - n
  <2>2. r \in 0..n - 1 /\ x = n * q + r
    BY <1>3, <2>1
  <2> HIDE DEF r
  <2>3. (n * q + r) % n = r
    BY <2>2, Remainder
  <2> QED
    BY <2>2, <2>3 DEF r
<1> QED
  BY <1>1, <1>2, <1>3

\* The index of slot s, one of the last EpochLength, survives a block exactly
\* when s is still one of the last EpochLength after it.
LEMMA SlotSurvives ==
  ASSUME TypeOK, NEW b \in Blocks, Import(b), SafroleOK(b),
         NEW s \in tau - EpochLength + 1..tau, NEW i \in Slots, i = s % EpochLength
  PROVE  /\ b.slot - s < EpochLength =>
              i # Index(b) /\ ready'[i] = Edit(ready[i], ToSet(Taken(b)))
         /\ ~ (b.slot - s < EpochLength) => i = Index(b) \/ ready'[i] = <<>>
<1> DEFINE n == EpochLength
           slot == b.slot
           x == slot - s
           age == SlotAge(i, Index(b))
<1>0. /\ n \in Nat \ {0} /\ tau \in Nat /\ slot \in Nat /\ slot > tau /\ tau < SlotRange
      /\ slot < SlotRange /\ SlotRange \in Nat \ {0} /\ s \in Int
  <2>1. slot \in 0..SlotRange - 1 /\ tau \in 0..SlotRange - 1
    BY BlockParts DEF TypeOK
  <2>2. n \in Nat \ {0} /\ SlotRange \in Nat \ {0}
    BY QueueConstants, ReportsConstants
  <2> QED
    BY <2>1, <2>2 DEF SafroleOK
<1>1. Gap(b) = slot - tau
  <2> DEFINE g == slot - tau
  <2>1. g \in Nat /\ g < SlotRange
    BY <1>0
  <2> HIDE DEF g
  <2>2. g % SlotRange = g
    BY <1>0, <2>1, OneTurn
  <2> QED
    BY <2>2 DEF Gap, g
<1>2. age = x % n
  BY <1>0, AgeOfSlot DEF Index, Slots
<1>3. x \in Nat /\ s > tau - n /\ s <= tau
  BY <1>0
<1>4. /\ i = Index(b) => age = 0
      /\ i # Index(b) => age # 0
      /\ i # Index(b) /\ age < Gap(b) => ready'[i] = <<>>
      /\ i # Index(b) /\ ~ (age < Gap(b)) => ready'[i] = Edit(ready[i], ToSet(Taken(b)))
  BY ReadyStep
<1> HIDE DEF age
<1>5. CASE x < n
  <2>1. age = x
    BY <1>0, <1>2, <1>3, <1>5, OneTurn
  <2>2. age # 0 /\ ~ (age < Gap(b))
    BY <1>0, <1>1, <1>3, <2>1
  <2> QED
    BY <1>4, <1>5, <2>2
<1>6. CASE ~ (x < n)
  <2>1. age < Gap(b)
    <3>1. CASE x < 2 * n
      <4>1. age = x - n
        <5>1. x \in Nat /\ x >= n /\ x < 2 * n
          BY <1>0, <1>3, <1>6, <3>1
        <5> HIDE DEF x
        <5>2. x % n = x - n
          BY <1>0, <5>1, OneTurn
        <5> QED
          BY <1>2, <5>2
      <4> QED
        BY <1>0, <1>1, <1>3, <4>1
    <3>2. CASE ~ (x < 2 * n)
      <4>1. age \in 0..n - 1
        BY <1>0, <1>2, <1>3, OneTurn
      <4> QED
        BY <1>0, <1>1, <1>3, <3>2, <4>1
    <3> QED
      BY <3>1, <3>2
  <2> QED
    BY <1>4, <1>6, <2>1
<1> QED
  BY <1>5, <1>6

LEMMA QueuedAtStep ==
  ASSUME TypeOK, NEW b \in Blocks, Import(b), NEW p \in Packages
  PROVE  queuedAt'[p] = IF p \in PackageOf(NewEntries(b)) THEN b.slot ELSE queuedAt[p]
BY ImportStep

LEMMA LifetimesStep ==
  ASSUME TypeOK, Lifetimes, NEW b \in Blocks, Import(b)
  PROVE  Lifetimes'
<1> SUFFICES ASSUME Accepted("safrole")', NEW i \in Slots, NEW p \in PackageOf(ready'[i])
             PROVE  QueuedSince(p, i)'
  BY DEF Lifetimes, Slots
<1> DEFINE new == NewEntries(b)
           acc == ToSet(Taken(b))
           slot == b.slot
           n == EpochLength
<1>0. /\ n \in Nat \ {0} /\ tau \in Int /\ slot \in Int /\ slot > tau /\ tau' = slot
      /\ Accepted("safrole") /\ SafroleOK(b)
  <2>1. slot \in 0..SlotRange - 1 /\ tau \in 0..SlotRange - 1 /\ SlotRange \in Nat
    BY BlockParts, ReportsConstants DEF TypeOK
  <2>2. Accepted("safrole") /\ SafroleOK(b)
    BY AcceptedStep
  <2>3. slot > tau /\ tau' = slot
    BY <2>2, ImportStep DEF SafroleOK
  <2> QED
    BY <2>1, <2>2, <2>3, QueueConstants
<1>1. /\ p \notin acc
      /\ p \in PackageOf(IF i = Index(b) THEN new ELSE ready[i])
  BY EntryStep
<1>2. Index(b) \in Slots /\ new \in Seq(Entry) /\ ready'[Index(b)] = Edit(new, acc)
  BY BlockParts, QueueParts, ReadyStep
<1>3. PackageOf(ready'[Index(b)]) = PackageOf(new) \ acc
  BY <1>2, EditPackages
<1>4. p \in Packages
  <2>1. ready'[i] \in Seq(Entry)
    BY EntryStep
  <2> QED
    BY <2>1, EntryFields DEF PackageOf
<1>5. queuedAt'[p] = IF p \in PackageOf(new) THEN slot ELSE queuedAt[p]
  BY <1>4, QueuedAtStep
<1> HIDE DEF new, acc
<1>6. CASE i = Index(b)
  <2>1. queuedAt'[p] = slot
    BY <1>1, <1>5, <1>6
  <2>2. slot \in slot - n + 1..slot /\ slot \in slot..slot
    BY <1>0
  <2>3. slot % n = i
    BY <1>6 DEF Index
  <2>4. p \in PackageOf(ready'[slot % n])
    BY <1>6, <2>3
  <2> QED
    BY <1>0, <2>1, <2>2, <2>3, <2>4 DEF QueuedSince
<1>7. CASE i # Index(b)
  <2>1. p \in PackageOf(ready[i])
    BY <1>1, <1>7
  <2>2. PICK s \in tau - n + 1..tau : /\ s % n = i /\ queuedAt[p] \in s..tau
                                      /\ p \in PackageOf(ready[queuedAt[p] % n])
    BY <1>0, <2>1 DEF Lifetimes, QueuedSince
  <2>3. slot - s < n
    <3>1. ready'[i] # <<>>
      BY DEF PackageOf
    <3> QED
      BY <1>0, <1>7, <2>2, <3>1, SlotSurvives
  <2>4. s \in slot - n + 1..slot
    BY <1>0, <2>2, <2>3
  <2>5. CASE p \in PackageOf(new)
    <3>1. queuedAt'[p] = slot /\ slot \in s..slot
      BY <1>0, <1>5, <2>2, <2>5
    <3>2. p \in PackageOf(ready'[slot % n])
      BY <1>1, <1>3, <2>5 DEF Index
    <3> QED
      BY <1>0, <2>2, <2>4, <3>1, <3>2 DEF QueuedSince
  <2>6. CASE p \notin PackageOf(new)
    <3> DEFINE t == queuedAt[p]
               j == t % n
    <3>1. queuedAt'[p] = t /\ t \in Int /\ s <= t /\ t <= tau
      BY <1>0, <1>5, <2>2, <2>6
    <3>2. t \in tau - n + 1..tau /\ slot - t < n /\ t \in s..slot
      BY <1>0, <2>2, <2>3, <3>1
    <3> HIDE DEF t
    <3>3. j \in Slots
      BY <1>0, <3>1 DEF Slots
    <3>4. p \in PackageOf(ready[j])
      BY <2>2 DEF t
    <3>5. PICK k \in Slots : k = j
      BY <3>3
    <3>6. ready'[k] = Edit(ready[k], ToSet(Taken(b)))
      BY <1>0, <3>2, <3>5, SlotSurvives
    <3>7. PackageOf(ready'[k]) = PackageOf(ready[k]) \ acc
      BY <3>6, EditPackages DEF TypeOK, acc
    <3>8. p \in PackageOf(ready'[t % n])
      BY <1>1, <3>4, <3>5, <3>7
    <3> QED
      BY <1>0, <2>2, <2>4, <3>1, <3>2, <3>8 DEF QueuedSince
  <2> QED
    BY <2>5, <2>6
<1> QED
  BY <1>6, <1>7

\* Every index of theta is that of a slot of the last EpochLength.
THEOREM ReadyLifetimes == Spec => []Lifetimes
<1>1. Init => Lifetimes
  <2> SUFFICES ASSUME Init, NEW i \in Slots PROVE PackageOf(ready[i]) = {}
    BY DEF Lifetimes
  <2>1. ready[i] = <<>>
    BY DEF Init
  <2> QED
    BY <2>1 DEF PackageOf
<1>2. TypeOK /\ Lifetimes /\ [Next]_vars => Lifetimes'
  <2> SUFFICES ASSUME TypeOK, Lifetimes, [Next]_vars PROVE Lifetimes'
    OBVIOUS
  <2>1. CASE UNCHANGED vars
    BY <2>1 DEF vars, Lifetimes, Accepted, QueuedSince
  <2>2. CASE \E b \in Blocks : Import(b)
    BY <2>2, LifetimesStep
  <2> QED
    BY <2>1, <2>2, NextImports
<1> QED
  BY <1>1, <1>2, TypeCorrect, PTL DEF Spec

\* While no block's slot was refused, a package in theta was last queued less
\* than EpochLength slots ago and is where it was queued then.
THEOREM QueueLifetimes == Spec => []QueueLifetime
<1>1. TypeOK /\ Lifetimes => QueueLifetime
  <2> SUFFICES ASSUME TypeOK, Lifetimes, Accepted("safrole"), NEW p \in ReadyPackages
               PROVE  /\ tau - queuedAt[p] < EpochLength
                      /\ p \in PackageOf(ready[queuedAt[p] % EpochLength])
    BY DEF QueueLifetime
  <2>1. PICK i \in Slots : p \in PackageOf(ready[i])
    BY DEF ReadyPackages
  <2>2. PICK s \in tau - EpochLength + 1..tau :
          queuedAt[p] \in s..tau /\ p \in PackageOf(ready[queuedAt[p] % EpochLength])
    BY <2>1 DEF Lifetimes, QueuedSince
  <2>3. tau \in Int /\ EpochLength \in Nat
    BY QueueConstants, ReportsConstants DEF TypeOK
  <2> QED
    BY <2>2, <2>3
<1> QED
  BY <1>1, TypeCorrect, ReadyLifetimes, PTL

\* A package leaves theta only accumulated or EpochLength slots after it was
\* queued, whatever slots are skipped.
THEOREM EvictionInTime == Spec => NoEarlyEviction
<1> DEFINE NotEarly == Accepted("safrole")' =>
                         \A p \in ReadyPackages : p \notin ReadyPackages' =>
                           p \in ToSet(batch') \/ tau' - queuedAt[p] >= EpochLength
<1>1. TypeOK /\ Lifetimes /\ [Next]_vars => [NotEarly]_vars
  <2> SUFFICES ASSUME TypeOK, Lifetimes, NEW b \in Blocks, Import(b), Accepted("safrole")',
                      NEW p \in ReadyPackages, p \notin ReadyPackages', p \notin ToSet(batch')
               PROVE  tau' - queuedAt[p] >= EpochLength
    BY NextImports
  <2> DEFINE t == queuedAt[p]
             n == EpochLength
  <2>1. PICK i \in Slots : p \in PackageOf(ready[i])
    BY DEF ReadyPackages
  <2>2. Accepted("safrole") /\ SafroleOK(b) /\ tau' = b.slot /\ batch' = Taken(b)
    BY AcceptedStep, ImportStep
  <2>3. PICK s \in tau - n + 1..tau : t \in s..tau /\ p \in PackageOf(ready[t % n])
    BY <2>1, <2>2 DEF Lifetimes, QueuedSince
  <2>4. tau \in Int /\ n \in Nat \ {0} /\ b.slot \in Int
    <3>1. tau \in 0..SlotRange - 1 /\ b.slot \in 0..SlotRange - 1
      BY BlockParts DEF TypeOK
    <3> QED
      BY <3>1, QueueConstants, ReportsConstants
  <2>5. t \in tau - n + 1..tau
    BY <2>3, <2>4
  <2> HIDE DEF t
  <2>6. t % n \in Slots
    BY <2>4, <2>5 DEF Slots
  <2>7. PICK k \in Slots : k = t % n
    BY <2>6
  <2>8. CASE b.slot - t < n
    <3>1. ready'[k] = Edit(ready[k], ToSet(Taken(b)))
      BY <2>2, <2>5, <2>7, <2>8, SlotSurvives
    <3>2. PackageOf(ready'[k]) = PackageOf(ready[k]) \ ToSet(Taken(b))
      BY <3>1, EditPackages DEF TypeOK
    <3>3. p \in PackageOf(ready'[k])
      BY <2>2, <2>3, <2>7, <3>2
    <3>4. p \in ReadyPackages'
      BY <3>3 DEF ReadyPackages, Slots
    <3> QED
      BY <3>4
  <2>9. CASE ~ (b.slot - t < n)
    BY <2>2, <2>4, <2>5, <2>9 DEF t
  <2> QED
    BY <2>8, <2>9
<1>2. Spec => [][NotEarly]_vars
  <2> HIDE DEF NotEarly
  <2> QED
    BY <1>1, TypeCorrect, ReadyLifetimes, PTL DEF Spec
<1> QED
  BY <1>2 DEF NoEarlyEviction

-----------------------------------------------------------------------------
(* The rings hold a package once.                                          *)

LEMMA OnceInRingIff ==
  ASSUME NEW r, \A i \in Slots : r[i] \in Seq(Entry)
  PROVE  OnceInRing(r) <=> /\ \A i \in Slots : OnceEach(r[i])
                           /\ \A i, j \in Slots : i # j => PackageOf(r[i]) \cap PackageOf(r[j]) = {}
<1>1. \A i \in Slots : DOMAIN r[i] = 1..Len(r[i])
  OBVIOUS
<1>2. ASSUME OnceInRing(r), NEW i \in Slots PROVE OnceEach(r[i])
  BY <1>2 DEF OnceInRing, OnceEach
<1>3. ASSUME OnceInRing(r), NEW i \in Slots, NEW j \in Slots, i # j
      PROVE  PackageOf(r[i]) \cap PackageOf(r[j]) = {}
  BY <1>1, <1>3 DEF OnceInRing, PackageOf
<1>4. ASSUME \A i \in Slots : OnceEach(r[i]),
             \A i, j \in Slots : i # j => PackageOf(r[i]) \cap PackageOf(r[j]) = {},
             NEW i \in Slots, NEW j \in Slots, NEW k \in 1..Len(r[i]), NEW l \in 1..Len(r[j]),
             r[i][k].pkg = r[j][l].pkg
      PROVE  i = j /\ k = l
  <2>1. r[i][k].pkg \in PackageOf(r[i]) /\ r[j][l].pkg \in PackageOf(r[j])
    BY <1>1 DEF PackageOf
  <2>2. i = j
    BY <1>4, <2>1
  <2> QED
    BY <1>4, <2>2 DEF OnceEach
<1> QED
  BY <1>2, <1>3, <1>4 DEF OnceInRing

\* When the assurances are in order, a core that keeps its report is neither
\* available nor stale.
LEMMA KeptCores ==
  ASSUME TypeOK, NEW b \in Blocks, AssuredOK(b), NEW c \in Engaged(RhoDD(b))
  PROVE  /\ c \notin NowAvailable(RhoD(b), b.assurances)
         /\ b.slot < rho[c].timeout + AssuranceTimeout
<1> DEFINE r == RhoD(b)
<1>1. /\ r \in [Cores -> {NoReport} \cup Assignment]
      /\ c \in Engaged(r) /\ \A d \in Engaged(r) : r[d] = rho[d] /\ d \in Engaged(rho)
  BY BlockParts
<1>2. RhoDD(b) = RhoDoubleDagger(r, b.assurances, b.slot) /\ AssurancesOK(r, b.assurances)
  BY DEF RhoDD, AssuredOK
<1> HIDE DEF r
<1>3. c \notin AvailableCores(r, b.assurances) \cup StaleCores(r, b.slot)
  BY <1>1, <1>2 DEF RhoDoubleDagger, Engaged
<1>4. c \notin NowAvailable(r, b.assurances)
  BY <1>2, <1>3 DEF NowAvailable
<1>5. ~ (b.slot >= rho[c].timeout + AssuranceTimeout)
  BY <1>1, <1>3 DEF StaleCores
<1>6. rho[c].timeout \in Nat /\ AssuranceTimeout \in Nat /\ b.slot \in Int
  <2>1. rho[c] \in Assignment
    BY <1>1 DEF TypeOK, Engaged
  <2>2. b.slot \in 0..SlotRange - 1 /\ SlotRange \in Nat
    BY BlockParts, ReportsConstants
  <2> QED
    BY <2>1, <2>2, AssurancesConstants DEF Assignment
<1> QED
  BY <1>4, <1>5, <1>6 DEF r

\* The newly available reports: each once, and none that the rings hold.
LEMMA AvailableOnce ==
  ASSUME TypeOK, OnCores, NEW b \in Blocks
  PROVE  /\ Once(Available(b)) /\ NotInRing(Available(b), ready)
         /\ ToSet(Available(b)) \cap KnownPackages = {}
         /\ \A p \in ToSet(Available(b)) : \E c \in NowAvailable(RhoD(b), b.assurances) :
              c \in Engaged(rho) /\ rho[c].pkg = p
<1> DEFINE avail == Available(b)
           cores == NowAvailable(RhoD(b), b.assurances)
<1>1. /\ RhoD(b) \in [Cores -> {NoReport} \cup Assignment]
      /\ \A c \in Engaged(RhoD(b)) : c \in Engaged(rho) /\ RhoD(b)[c] = rho[c]
      /\ cores \subseteq Engaged(RhoD(b))
  BY BlockParts
<1>2. \A c, d \in cores : RhoD(b)[c].pkg = RhoD(b)[d].pkg => c = d
  BY <1>1 DEF OnCores
<1>3. Once(avail)
  BY <1>1, <1>2, ReportsOnCores DEF Available
<1>4. /\ avail \in Seq(Packages)
      /\ \A k \in 1..Len(avail) : \E c \in cores : c \in Engaged(rho) /\ avail[k] = rho[c].pkg
  BY QueueParts
<1> HIDE DEF avail, cores
<1>5. \A p \in ToSet(avail) : \E c \in cores : c \in Engaged(rho) /\ rho[c].pkg = p
  BY <1>4, MembersOf
<1>6. ToSet(avail) \cap KnownPackages = {}
  BY <1>5 DEF OnCores
<1>7. ASSUME NEW i \in 1..Len(avail), NEW k \in Slots, NEW j \in 1..Len(ready[k])
      PROVE  ready[k][j].pkg # avail[i]
  <2>1. avail[i] \notin ReadyPackages
    BY <1>4, <1>6, MembersOf DEF KnownPackages
  <2>2. DOMAIN ready[k] = 1..Len(ready[k])
    BY DEF TypeOK
  <2>3. ready[k][j].pkg \in ReadyPackages
    BY <2>2 DEF ReadyPackages, PackageOf
  <2> QED
    BY <2>1, <2>3
<1> QED
  BY <1>3, <1>5, <1>6, <1>7 DEF NotInRing, avail, cores

\* Where the packages of the rings come from.
LEMMA RingsFrom ==
  ASSUME TypeOK, NEW b \in Blocks, Import(b)
  PROVE  /\ ReadyPackages' \subseteq (ReadyPackages \cup PackageOf(NewEntries(b))) \ ToSet(Taken(b))
         /\ Xi(accumulated') \subseteq Xi(accumulated) \cup ToSet(Taken(b))
         /\ KnownPackages' \subseteq KnownPackages \cup ToSet(Available(b))
<1> DEFINE new == NewEntries(b)
           acc == ToSet(Taken(b))
<1>1. ASSUME NEW p \in ReadyPackages' PROVE p \in (ReadyPackages \cup PackageOf(new)) \ acc
  <2>1. PICK i \in Slots : p \in PackageOf(ready'[i])
    BY <1>1 DEF ReadyPackages, Slots
  <2>2. p \in PackageOf(IF i = Index(b) THEN new ELSE ready[i]) \ acc
    BY <2>1, EntryStep
  <2>3. PackageOf(ready[i]) \subseteq ReadyPackages
    BY DEF ReadyPackages
  <2> QED
    BY <2>2, <2>3
<1>2. Xi(accumulated') \subseteq Xi(accumulated) \cup acc
  BY AccumulatedStep
<1>3. acc \subseteq ToSet(Available(b)) \cup ReadyPackages
  BY TakenFrom
<1>4. PackageOf(new) \subseteq ToSet(Available(b))
  BY TakenFrom
<1>5. KnownPackages' = Xi(accumulated') \cup ReadyPackages'
  BY DEF KnownPackages, Xi, Slots
<1> HIDE DEF new, acc
<1>6. KnownPackages' \subseteq KnownPackages \cup ToSet(Available(b))
  BY <1>1, <1>2, <1>3, <1>4, <1>5 DEF KnownPackages
<1> QED
  BY <1>1, <1>2, <1>6 DEF new, acc

LEMMA InRingsStep ==
  ASSUME TypeOK, OnCores, InRings, NEW b \in Blocks, Import(b)
  PROVE  InRings' /\ Once(batch)'
<1> DEFINE avail == Available(b)
           new == NewEntries(b)
           acc == ToSet(Taken(b))
<1>1. /\ Once(avail) /\ NotInRing(avail, ready) /\ ToSet(avail) \cap KnownPackages = {}
  BY AvailableOnce
<1>2. /\ avail \in Seq(Packages) /\ ready \in [Slots -> Seq(Entry)] /\ Index(b) \in Slots
      /\ new \in Seq(Entry)
  BY QueueParts, BlockParts DEF TypeOK
<1>3. acc \subseteq ToSet(avail) \cup ReadyPackages
      /\ PackageOf(new) \subseteq ToSet(avail) \ Xi(accumulated)
  BY TakenFrom
<1>4. /\ ReadyPackages' \subseteq (ReadyPackages \cup PackageOf(new)) \ acc
      /\ Xi(accumulated') \subseteq Xi(accumulated) \cup acc
  BY RingsFrom
<1>5. OnceEach(new)
  BY <1>1, <1>2, QueuedEntries DEF NewEntries
<1> HIDE DEF avail, new
<1>6. acc \cap Xi(accumulated) = {}
  BY <1>1, <1>3 DEF KnownPackages, InRings
<1>7. Xi(accumulated') \cap ReadyPackages' = {}
  BY <1>3, <1>4, <1>6 DEF InRings
<1>8. ASSUME NEW i \in Slots, NEW j \in Slots, i # j
      PROVE  accumulated'[i] \cap accumulated'[j] = {}
  <2>1. /\ \A k \in Slots : accumulated[k] \subseteq Xi(accumulated)
        /\ \A k, l \in Slots : k # l => accumulated[k] \cap accumulated[l] = {}
    BY DEF Xi, InRings
  <2>2. /\ accumulated'[EpochLength - 1] = acc
        /\ \A k \in Slots : k # EpochLength - 1 => k + 1 \in Slots /\ accumulated'[k] = accumulated[k + 1]
    BY AccumulatedStep DEF acc
  <2> HIDE DEF acc
  <2>3. CASE i = EpochLength - 1
    BY <1>6, <1>8, <2>1, <2>2, <2>3
  <2>4. CASE j = EpochLength - 1
    BY <1>6, <1>8, <2>1, <2>2, <2>4
  <2>5. CASE i # EpochLength - 1 /\ j # EpochLength - 1
    <3>1. i + 1 # j + 1
      BY <1>8 DEF Slots
    <3> QED
      BY <2>1, <2>2, <2>5, <3>1
  <2> QED
    BY <2>3, <2>4, <2>5
<1>9. OnceInRing(ready')
  <2> DEFINE es(i) == IF i = Index(b) THEN new ELSE ready[i]
  <2>1. \A i \in Slots : /\ ready'[i] \in Seq(Entry)
                         /\ PackageOf(ready'[i]) \subseteq PackageOf(es(i))
                         /\ OnceEach(es(i)) => OnceEach(ready'[i])
    <3> TAKE i \in Slots
    <3>1. es(i) = IF i = Index(b) THEN NewEntries(b) ELSE ready[i]
      BY DEF new
    <3> HIDE DEF es
    <3>2. /\ ready'[i] \in Seq(Entry)
          /\ PackageOf(ready'[i]) \subseteq PackageOf(es(i)) \ acc
          /\ OnceEach(es(i)) => OnceEach(ready'[i])
      BY <3>1, EntryStep
    <3> QED
      BY <3>2
  <2>2. /\ \A i \in Slots : OnceEach(ready[i])
        /\ \A i, j \in Slots : i # j => PackageOf(ready[i]) \cap PackageOf(ready[j]) = {}
    BY <1>2, OnceInRingIff DEF InRings
  <2>3. \A i \in Slots : PackageOf(ready[i]) \subseteq ReadyPackages
    BY DEF ReadyPackages
  <2>4. PackageOf(new) \cap ReadyPackages = {}
    BY <1>1, <1>3 DEF KnownPackages
  <2>5. \A i \in Slots : OnceEach(es(i))
    BY <1>5, <2>2
  <2>6. \A i, j \in Slots : i # j => PackageOf(es(i)) \cap PackageOf(es(j)) = {}
    <3> TAKE i \in Slots, j \in Slots
    <3> HAVE i # j
    <3>1. CASE i = Index(b)
      <4>1. PackageOf(es(i)) = PackageOf(new) /\ PackageOf(es(j)) = PackageOf(ready[j])
        BY <3>1
      <4> QED
        BY <2>3, <2>4, <4>1
    <3>2. CASE j = Index(b)
      <4>1. PackageOf(es(j)) = PackageOf(new) /\ PackageOf(es(i)) = PackageOf(ready[i])
        BY <3>2
      <4> QED
        BY <2>3, <2>4, <4>1
    <3>3. CASE i # Index(b) /\ j # Index(b)
      BY <2>2, <3>3
    <3> QED
      BY <3>1, <3>2, <3>3
  <2> HIDE DEF es
  <2>7. \A i \in Slots : OnceEach(ready'[i])
    BY <2>1, <2>5
  <2>8. \A i, j \in Slots : i # j => PackageOf(ready'[i]) \cap PackageOf(ready'[j]) = {}
    BY <2>1, <2>6
  <2> QED
    BY <2>1, <2>7, <2>8, OnceInRingIff
<1>10. Once(batch')
  <2>1. Once(Ordered(b)) /\ Ordered(b) \in Seq(Packages)
    <3>1. OnceInRing(ready)
      BY DEF InRings
    <3> QED
      BY <1>1, <1>2, <3>1, Candidates DEF Ordered, avail
  <2>2. PICK n \in 0..Len(Ordered(b)) : Taken(b) = SubSeq(Ordered(b), 1, n)
    BY QueueParts
  <2>3. batch' = Taken(b)
    BY ImportStep
  <2>4. Len(batch') = n /\ \A k \in 1..n : k \in 1..Len(Ordered(b)) /\ batch'[k] = Ordered(b)[k]
    BY <2>1, <2>2, <2>3
  <2> QED
    BY <2>1, <2>4 DEF Once
<1>11. InRings'
  <2>1. /\ InRings' <=> /\ \A i, j \in Slots : i # j => accumulated'[i] \cap accumulated'[j] = {}
                        /\ Xi(accumulated') \cap ReadyPackages' = {}
                        /\ OnceInRing(ready')
    BY DEF InRings, OnceInRing, Xi, Slots
  <2> QED
    BY <1>7, <1>8, <1>9, <2>1
<1> QED
  BY <1>10, <1>11 DEF Once

\* What OnCores says of a core that keeps its report.
LEMMA KeptOnCore ==
  ASSUME TypeOK, OnCores, NEW b \in Blocks, Import(b), SafroleOK(b), AssuredOK(b),
         NEW c \in Engaged(RhoDD(b)), rho'[c] = rho[c]
  PROVE  /\ c \in Engaged(rho)
         /\ rho'[c].pkg \notin KnownPackages'
         /\ rho'[c].timeout <= tau' /\ tau' - rho'[c].timeout < AssuranceTimeout
         /\ InBeta(rho[c].pkg, tau - rho[c].timeout)'
<1> DEFINE p == rho[c].pkg
           w == rho[c].timeout
<1>1. c \in Engaged(rho) /\ c \in Engaged(RhoD(b))
  BY BlockParts
<1>2. rho[c] \in Assignment
  BY <1>1 DEF TypeOK, Engaged
<1>3. w \in Nat /\ w <= tau /\ tau - w < AssuranceTimeout /\ InBeta(p, tau - w) /\ p \notin KnownPackages
  BY <1>1, <1>2 DEF OnCores, Assignment
<1>4. c \notin NowAvailable(RhoD(b), b.assurances) /\ b.slot < w + AssuranceTimeout
  BY KeptCores
<1>5. p \notin ToSet(Available(b))
  BY <1>1, <1>4, AvailableOnce DEF OnCores
<1>6. p \notin KnownPackages'
  BY <1>3, <1>5, RingsFrom
<1>7. tau' = b.slot /\ b.slot > tau /\ tau \in Int /\ b.slot \in Int /\ AssuranceTimeout \in Nat
      /\ MaxHistory \in Nat /\ AssuranceTimeout <= MaxHistory
  <2>1. b.slot \in 0..SlotRange - 1 /\ tau \in 0..SlotRange - 1 /\ SlotRange \in Nat
    BY BlockParts, ReportsConstants DEF TypeOK
  <2> QED
    BY <2>1, ImportStep, AssurancesConstants, ReportsConstants, ReportsFit DEF SafroleOK
<1> HIDE DEF p, w
<1>8. PICK d \in 0..tau - w : d < Len(history) /\ p \in history[Len(history) - d]
  BY <1>3 DEF InBeta
<1>9. d \in Nat /\ d + 1 \in 0..b.slot - w /\ d + 1 < MaxHistory
  BY <1>3, <1>4, <1>7, <1>8
<1>10. d + 1 < Len(history') /\ p \in history'[Len(history') - (d + 1)]
  <2>1. Incoming(b.guarantees) \subseteq Packages /\ history' = PushHistory(b.guarantees)
    <3>1. b.guarantees \in Seq(Guarantee)
      BY BlockParts
    <3>2. DOMAIN b.guarantees = 1..Len(b.guarantees) /\ \A i \in 1..Len(b.guarantees) : b.guarantees[i] \in Guarantee
      BY <3>1
    <3> QED
      BY <3>2, GuaranteeFields, ImportStep DEF Incoming
  <2>2. d + 1 < Len(history') /\ history'[Len(history') - (d + 1)] = history[Len(history) - d]
    BY <1>8, <1>9, <2>1, HistoryStep
  <2> QED
    BY <1>8, <2>2
<1>11. \E x \in 0..b.slot - w : x < Len(history') /\ p \in history'[Len(history') - x]
  <2> DEFINE x == d + 1
  <2>1. x \in 0..b.slot - w /\ x < Len(history') /\ p \in history'[Len(history') - x]
    BY <1>9, <1>10
  <2> HIDE DEF x
  <2> QED
    BY <2>1
<1>12. rho'[c].pkg = p /\ rho'[c].timeout = w
  BY DEF p, w
<1>13. InBeta(rho[c].pkg, tau - rho[c].timeout)'
  BY <1>7, <1>11, <1>12 DEF InBeta
<1> QED
  BY <1>1, <1>3, <1>4, <1>6, <1>7, <1>12, <1>13

\* What OnCores says of a core that takes a guarantee of the block.
LEMMA TakenCore ==
  ASSUME TypeOK, OnCores, NEW b \in Blocks, Import(b), SafroleOK(b), ReportedOK(b),
         NEW c, NEW i \in 1..Len(b.guarantees),
         rho'[c].pkg = b.guarantees[i].pkg, rho'[c].timeout = b.slot
  PROVE  /\ rho'[c].pkg \notin KnownPackages'
         /\ \A d \in Engaged(rho) : rho[d].pkg # rho'[c].pkg
         /\ rho'[c].timeout <= tau' /\ tau' - rho'[c].timeout < AssuranceTimeout
         /\ InBeta(rho[c].pkg, tau - rho[c].timeout)'
<1> DEFINE p == b.guarantees[i].pkg
           ext == b.guarantees
<1>1. ext \in Seq(Guarantee) /\ DOMAIN ext = 1..Len(ext)
  BY BlockParts
<1>2. p \notin KnownPackages /\ ~ InHistory(p)
  BY <1>1 DEF ReportedOK, GuaranteesOK
<1>3. tau' = b.slot /\ b.slot \in Int /\ AssuranceTimeout \in Nat \ {0}
  <2>1. b.slot \in 0..SlotRange - 1 /\ SlotRange \in Nat
    BY BlockParts, ReportsConstants
  <2> QED
    BY <2>1, ImportStep, AssurancesConstants
<1>4. ASSUME NEW d \in Engaged(rho) PROVE rho[d].pkg # p
  <2>1. PICK x \in 0..tau - rho[d].timeout : x < Len(history) /\ rho[d].pkg \in history[Len(history) - x]
    BY <1>4 DEF OnCores, InBeta
  <2>2. x \in Nat /\ history \in Seq(SUBSET Packages)
    BY <2>1 DEF TypeOK
  <2>3. Len(history) - x \in DOMAIN history
    BY <2>1, <2>2
  <2> QED
    BY <1>2, <2>1, <2>3 DEF InHistory
<1>5. p \notin ToSet(Available(b))
  BY <1>4, AvailableOnce
<1>6. p \notin KnownPackages'
  BY <1>2, <1>5, RingsFrom
<1>7. 0 < Len(history') /\ p \in history'[Len(history')] /\ Len(history') \in Nat
  <2>1. Incoming(ext) \subseteq Packages /\ p \in Incoming(ext)
    BY <1>1, GuaranteeFields DEF Incoming
  <2>2. /\ history' \in Seq(SUBSET Packages) /\ Len(history') >= 1
        /\ history'[Len(history')] = Incoming(ext)
    BY <2>1, ImportStep, HistoryStep
  <2> QED
    BY <2>1, <2>2
<1> HIDE DEF p
<1>8. rho'[c].pkg = p /\ rho'[c].timeout = b.slot
  BY DEF p
<1>9. \E x \in 0..b.slot - b.slot : x < Len(history') /\ p \in history'[Len(history') - x]
  <2>1. 0 \in 0..b.slot - b.slot /\ Len(history') - 0 = Len(history')
    BY <1>3, <1>7
  <2> QED
    BY <1>7, <2>1
<1>10. InBeta(rho[c].pkg, tau - rho[c].timeout)'
  BY <1>3, <1>8, <1>9 DEF InBeta
<1> QED
  BY <1>3, <1>4, <1>6, <1>8, <1>10

LEMMA OnCoresStep ==
  ASSUME TypeOK, OnCores, NEW b \in Blocks, Import(b), SafroleOK(b), AssuredOK(b)
  PROVE  OnCores'
<1> DEFINE ext == b.guarantees
           Keeps(c) == c \in Engaged(RhoDD(b)) /\ rho'[c] = rho[c]
           Takes(c, i) == /\ ReportedOK(b) /\ ext[i].core = c
                          /\ rho'[c].pkg = ext[i].pkg /\ rho'[c].timeout = b.slot
<1>1. ASSUME NEW c \in Engaged(rho') PROVE Keeps(c) \/ \E i \in 1..Len(ext) : Takes(c, i)
  BY RhoStep
<1>2. ASSUME NEW c \in Engaged(rho'), NEW d \in Engaged(rho'), rho'[c].pkg = rho'[d].pkg
      PROVE  c = d
  <2>1. CASE Keeps(c) /\ Keeps(d)
    <3>1. c \in Engaged(rho) /\ d \in Engaged(rho)
      BY <2>1, BlockParts
    <3> QED
      BY <1>2, <2>1, <3>1 DEF OnCores
  <2>2. CASE Keeps(c) /\ ~ Keeps(d)
    <3>1. PICK i \in 1..Len(ext) : Takes(d, i)
      BY <1>1, <2>2
    <3>2. c \in Engaged(rho) /\ rho'[c] = rho[c]
      BY <2>2, BlockParts
    <3> QED
      BY <1>2, <3>1, <3>2, TakenCore
  <2>3. CASE ~ Keeps(c) /\ Keeps(d)
    <3>1. PICK i \in 1..Len(ext) : Takes(c, i)
      BY <1>1, <2>3
    <3>2. d \in Engaged(rho) /\ rho'[d] = rho[d]
      BY <2>3, BlockParts
    <3> QED
      BY <1>2, <3>1, <3>2, TakenCore
  <2>4. CASE ~ Keeps(c) /\ ~ Keeps(d)
    <3>1. PICK i \in 1..Len(ext) : Takes(c, i)
      BY <1>1, <2>4
    <3>2. PICK j \in 1..Len(ext) : Takes(d, j)
      BY <1>1, <2>4
    <3>3. DOMAIN ext = 1..Len(ext) /\ ext[i].pkg = ext[j].pkg
      <4>1. ext \in Seq(Guarantee)
        BY BlockParts
      <4>2. DOMAIN ext = 1..Len(ext)
        BY <4>1
      <4> HIDE DEF ext
      <4> QED
        BY <1>2, <3>1, <3>2, <4>2
    <3>4. i = j
      BY <3>1, <3>3 DEF ReportedOK, GuaranteesOK
    <3> QED
      BY <3>1, <3>2, <3>4
  <2> QED
    BY <2>1, <2>2, <2>3, <2>4
<1>3. ASSUME NEW c \in Engaged(rho')
      PROVE  /\ rho'[c].pkg \notin KnownPackages'
             /\ rho'[c].timeout <= tau' /\ tau' - rho'[c].timeout < AssuranceTimeout
             /\ InBeta(rho[c].pkg, tau - rho[c].timeout)'
  <2>1. CASE Keeps(c)
    BY <2>1, KeptOnCore
  <2>2. CASE \E i \in 1..Len(ext) : Takes(c, i)
    <3>1. PICK i \in 1..Len(ext) : Takes(c, i)
      BY <2>2
    <3> QED
      BY <3>1, TakenCore
  <2> QED
    BY <1>1, <2>1, <2>2
<1>4. OnCores' <=>
        /\ \A c, d \in Engaged(rho') : rho'[c].pkg = rho'[d].pkg => c = d
        /\ \A c \in Engaged(rho') :
             /\ rho'[c].pkg \notin KnownPackages'
             /\ rho'[c].timeout <= tau' /\ tau' - rho'[c].timeout < AssuranceTimeout
             /\ InBeta(rho[c].pkg, tau - rho[c].timeout)'
  BY DEF OnCores, Engaged, InBeta
<1> QED
  BY <1>2, <1>3, <1>4

\* The inductive invariant of PackagesHeldOnce.
THEOREM ReportsHeldOnce == Spec => []HeldOnce
<1>1. Init => HeldOnce
  <2> SUFFICES ASSUME Init PROVE OnCores /\ InRings /\ Once(batch)
    BY DEF HeldOnce
  <2>1. /\ Engaged(rho) = {} /\ batch = <<>>
        /\ \A i \in Slots : ready[i] = <<>> /\ accumulated[i] = {}
    BY DEF Init, Engaged
  <2>2. OnCores /\ Once(batch)
    BY <2>1 DEF OnCores, Once
  <2>3. PackageOf(<<>>) = {} /\ Len(<<>>) = 0
    BY DEF PackageOf
  <2>4. InRings
    BY <2>1, <2>3 DEF InRings, OnceInRing, ReadyPackages
  <2> QED
    BY <2>2, <2>4
<1>2. TypeOK /\ HeldOnce /\ [Next]_vars => HeldOnce'
  <2> SUFFICES ASSUME TypeOK, HeldOnce, [Next]_vars PROVE HeldOnce'
    OBVIOUS
  <2>1. CASE UNCHANGED vars
    BY <2>1 DEF vars, HeldOnce, Accepted, OnCores, InRings, Once, OnceInRing, InBeta, Engaged,
                KnownPackages, ReadyPackages, Xi
  <2>2. ASSUME NEW b \in Blocks, Import(b) PROVE HeldOnce'
    <3> SUFFICES ASSUME Accepted("assurances")', Accepted("safrole")'
                 PROVE  OnCores' /\ InRings' /\ Once(batch)'
      BY DEF HeldOnce
    <3>1. OnCores /\ InRings /\ SafroleOK(b) /\ AssuredOK(b)
      BY <2>2, AcceptedStep DEF HeldOnce
    <3> QED
      BY <2>2, <3>1, OnCoresStep, InRingsStep
  <2> QED
    BY <2>1, <2>2, NextImports
<1> QED
  BY <1>1, <1>2, TypeCorrect, PTL DEF Spec

\* While no block's assurances or slot were refused, the rings hold a package
\* once and a block accumulates it once: beta reaches back as far as a report
\* can wait on its core, so it is reported again only once it is known.
THEOREM PackagesOnce == Spec => []PackagesHeldOnce
<1>1. TypeOK /\ HeldOnce => PackagesHeldOnce
  <2> SUFFICES ASSUME TypeOK, InRings, Once(batch) PROVE PackagesHeldOnce
    BY DEF HeldOnce, PackagesHeldOnce
  <2>1. DOMAIN batch = 1..Len(batch) /\ \A i \in Slots : DOMAIN ready[i] = 1..Len(ready[i])
    BY DEF TypeOK
  <2>2. \A k, l \in DOMAIN batch : batch[k] = batch[l] => k = l
    BY <2>1 DEF Once
  <2>3. \A i, j \in Slots : \A k \in DOMAIN ready[i], l \in DOMAIN ready[j] :
          ready[i][k].pkg = ready[j][l].pkg => i = j /\ k = l
    BY <2>1 DEF InRings, OnceInRing
  <2> QED
    BY <2>2, <2>3 DEF InRings, PackagesHeldOnce
<1> QED
  BY <1>1, TypeCorrect, ReportsHeldOnce, PTL

-----------------------------------------------------------------------------
(* With valid blocks, block import implements ReportPipeline.              *)

Pipeline == INSTANCE ReportPipeline WITH rho <- PackagesOnCores, pending <- Entries

NoneRefused == \A stage \in Stages : Accepted(stage)

\* A stamp is Never or a block of the chain.
Stamped(at, n) == \A p \in Packages : at[p] = Never \/ at[p] \in 1..n

\* beta is the window over the blocks at which packages were last reported.
HistoryWindow ==
  /\ Len(history) <= height /\ (Len(history) = height \/ Len(history) = MaxHistory)
  /\ Stamped(reportedAt, height)
  /\ \A d \in 0..Len(history) - 1 : \A p \in history[Len(history) - d] : reportedAt[p] >= height - d
  /\ \A p \in Packages : reportedAt[p] > height - Len(history) =>
       p \in history[Len(history) - (height - reportedAt[p])]

\* xi is the window over the blocks at which packages were last accumulated.
AccumulatedWindow ==
  /\ Stamped(accumulatedAt, height)
  /\ \A i \in Slots : \A p \in accumulated[i] : accumulatedAt[p] >= height - (EpochLength - 1 - i)
  /\ \A p \in Packages : accumulatedAt[p] > height - EpochLength =>
       p \in accumulated[EpochLength - 1 - (height - accumulatedAt[p])]

\* A report has been on its core for no fewer slots than blocks.
SlotsPassed ==
  \A c \in Engaged(rho) : height - reportedAt[rho[c].pkg] <= tau - rho[c].timeout

Windows == NoneRefused => HistoryWindow /\ AccumulatedWindow /\ SlotsPassed

\* What no stage refuses, all of them do.
LEMMA AllAccept ==
  ASSUME TypeOK, NEW b \in Blocks, Import(b), NoneRefused'
  PROVE  /\ NoneRefused /\ SafroleOK(b) /\ AssuredOK(b) /\ ReportedOK(b)
         /\ reportedAt' = [p \in Packages |-> IF p \in Incoming(b.guarantees) THEN height + 1
                                                                             ELSE reportedAt[p]]
<1> DEFINE bad == {stage \in Stages : ~ Accepts(stage, b.slot, b.tickets, RhoD(b), RhoDD(b),
                                               b.assurances, b.guarantees)}
<1>1. /\ refused' = [stage \in Stages |-> refused[stage] + (IF stage \in bad THEN 1 ELSE 0)]
      /\ reportedAt' = [p \in Packages |->
                          IF "guarantees" \notin bad /\ p \in Incoming(b.guarantees)
                            THEN height + 1 ELSE reportedAt[p]]
  BY DEF Import, ImportBlock, RhoD, RhoDD
<1>2. "safrole" \in Stages /\ "assurances" \in Stages /\ "guarantees" \in Stages
  BY DEF Stages
<1>3. /\ "safrole" \in bad <=> ~ SafroleOK(b)
      /\ "assurances" \in bad <=> ~ AssuredOK(b)
      /\ "guarantees" \in bad <=> ~ ReportedOK(b)
  BY <1>2 DEF Accepts, SafroleOK, AssuredOK, ReportedOK
<1> HIDE DEF bad
<1>4. \A stage \in Stages : refused'[stage] = 0 => refused[stage] = 0 /\ stage \notin bad
  BY <1>1 DEF TypeOK
<1>5. NoneRefused /\ \A stage \in Stages : stage \notin bad
  BY <1>4 DEF NoneRefused, Accepted
<1> QED
  BY <1>1, <1>2, <1>3, <1>5

LEMMA WindowConstants ==
  /\ EpochLength \in Nat \ {0} /\ MaxHistory \in Nat \ {0} /\ Never \in Int
  /\ Never = 0 - (EpochLength + MaxHistory)
  /\ TypeOK => height \in Nat /\ Len(history) \in Nat /\ Len(history) <= MaxHistory
               /\ \A p \in Packages : reportedAt[p] \in Int /\ accumulatedAt[p] \in Int
BY QueueConstants, ReportsConstants DEF Never, TypeOK

\* A stamp is below every window or inside the chain.
LEMMA StampsPast ==
  ASSUME TypeOK, NEW at \in [Packages -> Int], Stamped(at, height), NEW p \in Packages
  PROVE  /\ at[p] \in Int /\ at[p] <= height
         /\ at[p] > height - EpochLength => at[p] \in 1..height
         /\ at[p] > height - MaxHistory => at[p] \in 1..height
<1>1. at[p] \in Int /\ (at[p] = Never \/ at[p] \in 1..height)
  BY DEF Stamped
<1> QED
  BY <1>1, WindowConstants

LEMMA StampedStep ==
  ASSUME NEW n \in Nat, NEW at \in [Packages -> Int], Stamped(at, n), NEW S
  PROVE  Stamped([p \in Packages |-> IF p \in S THEN n + 1 ELSE at[p]], n + 1)
BY DEF Stamped

\* The block pushed to beta takes the window one block on.
LEMMA HistoryWindowStep ==
  ASSUME TypeOK, HistoryWindow, NEW b \in Blocks, Import(b),
         reportedAt' = [p \in Packages |-> IF p \in Incoming(b.guarantees) THEN height + 1
                                                                          ELSE reportedAt[p]]
  PROVE  HistoryWindow'
<1> DEFINE in == Incoming(b.guarantees)
           h  == history'
           n  == Len(history)
<1>1. in \subseteq Packages
  <2>1. b.guarantees \in Seq(Guarantee) /\ DOMAIN b.guarantees = 1..Len(b.guarantees)
    BY BlockParts
  <2> QED
    BY <2>1, GuaranteeFields DEF Incoming
<1>2. h = PushHistory(b.guarantees) /\ height' = height + 1
  BY ImportStep
<1>3. /\ h \in Seq(SUBSET Packages) /\ Len(h) <= MaxHistory /\ Len(h) >= 1
      /\ Len(h) <= n + 1 /\ h[Len(h)] = in
      /\ \A d \in Nat : d < n /\ d + 1 < MaxHistory =>
           d + 1 < Len(h) /\ h[Len(h) - (d + 1)] = history[n - d]
  BY <1>1, <1>2, HistoryStep
<1>4. /\ height \in Nat /\ n \in Nat /\ MaxHistory \in Nat \ {0} /\ n <= MaxHistory
      /\ n <= height /\ (n = height \/ n = MaxHistory) /\ Len(h) \in Nat
      /\ reportedAt \in [Packages -> Int] /\ Stamped(reportedAt, height)
  BY <1>3, WindowConstants DEF HistoryWindow, TypeOK
<1>5. /\ \A d \in 0..n - 1 : \A p \in history[n - d] : reportedAt[p] >= height - d
      /\ \A p \in Packages : reportedAt[p] > height - n => p \in history[n - (height - reportedAt[p])]
  BY DEF HistoryWindow
<1>6. \A p \in Packages : /\ reportedAt[p] \in Int /\ reportedAt[p] <= height
                          /\ reportedAt'[p] = IF p \in in THEN height + 1 ELSE reportedAt[p]
  BY <1>4, StampsPast
<1>7. Stamped(reportedAt', height + 1)
  BY <1>4, StampedStep
<1> HIDE DEF in, h, n
<1>8. Len(h) = n + 1 \/ Len(h) = MaxHistory
  <2>0. Len(h) \in Nat /\ n \in Nat /\ MaxHistory \in Nat \ {0}
        /\ Len(h) <= MaxHistory /\ Len(h) >= 1 /\ Len(h) <= n + 1
    BY <1>3, <1>4
  <2>1. CASE n = MaxHistory /\ MaxHistory > 1
    <3>1. n - 2 \in Nat /\ n - 2 < n /\ (n - 2) + 1 < MaxHistory
      BY <1>4, <2>1
    <3>2. (n - 2) + 1 < Len(h)
      BY <1>3, <3>1
    <3> QED
      BY <1>3, <1>4, <2>1, <3>2
  <2>2. CASE MaxHistory = 1
    <3>1. \A k \in Nat : k <= 1 /\ k >= 1 => k = 1
      OBVIOUS
    <3> QED
      BY <2>0, <2>2, <3>1
  <2>3. CASE n < MaxHistory /\ n > 0
    <3>1. n - 1 \in Nat /\ n - 1 < n /\ (n - 1) + 1 < MaxHistory
      BY <1>4, <2>3
    <3>2. (n - 1) + 1 < Len(h)
      BY <1>3, <3>1
    <3> QED
      BY <1>3, <1>4, <2>3, <3>2
  <2>4. CASE n = 0
    BY <2>0, <2>4
  <2> QED
    BY <1>4, <2>1, <2>2, <2>3, <2>4
<1>9. ASSUME NEW d \in 0..Len(h) - 1, NEW p \in h[Len(h) - d], p \in Packages
      PROVE  reportedAt'[p] >= (height + 1) - d
  <2>1. CASE d = 0
    <3>1. p \in in
      BY <1>3, <1>4, <1>9, <2>1
    <3> QED
      BY <1>4, <1>6, <1>9, <2>1, <3>1
  <2>2. CASE d > 0
    <3>1. d - 1 \in Nat /\ d - 1 < n /\ (d - 1) + 1 < MaxHistory /\ (d - 1) + 1 = d /\ d - 1 \in 0..n - 1
      BY <1>3, <1>4, <1>9, <2>2
    <3>2. h[Len(h) - d] = history[n - (d - 1)]
      BY <1>3, <3>1
    <3>3. reportedAt[p] >= height - (d - 1)
      BY <1>5, <1>9, <3>1, <3>2
    <3> QED
      BY <1>4, <1>6, <1>9, <2>2, <3>3
  <2> QED
    BY <1>4, <1>9, <2>1, <2>2
<1>10. ASSUME NEW p \in Packages, reportedAt'[p] > (height + 1) - Len(h)
       PROVE  p \in h[Len(h) - ((height + 1) - reportedAt'[p])]
  <2>1. CASE p \in in
    <3>1. Len(h) - ((height + 1) - reportedAt'[p]) = Len(h)
      BY <1>4, <1>6, <2>1
    <3> QED
      BY <1>3, <2>1, <3>1
  <2>2. CASE p \notin in
    <3> DEFINE d == height - reportedAt[p]
    <3>1. d \in Nat /\ d < n /\ d + 1 < MaxHistory /\ (height + 1) - reportedAt'[p] = d + 1
          /\ reportedAt[p] > height - n
      BY <1>3, <1>4, <1>6, <1>10, <2>2
    <3>2. p \in history[n - d]
      BY <1>5, <3>1
    <3> HIDE DEF d
    <3> QED
      BY <1>3, <3>1, <3>2
  <2> QED
    BY <2>1, <2>2
<1>11. \A d \in 0..Len(h) - 1 : Len(h) - d \in 1..Len(h) /\ h[Len(h) - d] \subseteq Packages
  BY <1>3, <1>4
<1>12. Len(h) <= height + 1 /\ (Len(h) = height + 1 \/ Len(h) = MaxHistory)
  BY <1>3, <1>4, <1>8
<1> QED
  BY <1>2, <1>7, <1>9, <1>10, <1>11, <1>12 DEF HistoryWindow, h

\* The bucket pushed to xi takes the window one block on.
LEMMA AccumulatedWindowStep ==
  ASSUME TypeOK, AccumulatedWindow, NEW b \in Blocks, Import(b)
  PROVE  AccumulatedWindow'
<1> DEFINE acc == ToSet(Taken(b))
           n == EpochLength
           x == accumulated'
<1>1. /\ x \in [Slots -> SUBSET Packages]
      /\ n - 1 \in Slots /\ x[n - 1] = acc
      /\ \A i \in Slots : i # n - 1 => i + 1 \in Slots /\ x[i] = accumulated[i + 1]
  BY AccumulatedStep
<1>2. /\ height \in Nat /\ n \in Nat \ {0} /\ accumulatedAt \in [Packages -> Int]
      /\ Stamped(accumulatedAt, height)
  BY WindowConstants DEF AccumulatedWindow, TypeOK
<1>3. height' = height + 1 /\ accumulatedAt' = [p \in Packages |-> IF p \in acc THEN height + 1
                                                                               ELSE accumulatedAt[p]]
  BY ImportStep
<1>4. Stamped(accumulatedAt', height + 1)
  BY <1>2, <1>3, StampedStep
<1>5. \A p \in Packages : /\ accumulatedAt[p] \in Int /\ accumulatedAt[p] <= height
                          /\ accumulatedAt'[p] = IF p \in acc THEN height + 1 ELSE accumulatedAt[p]
  BY <1>2, <1>3, StampsPast
<1>6. /\ \A i \in Slots : \A p \in accumulated[i] : accumulatedAt[p] >= height - (n - 1 - i)
      /\ \A p \in Packages : accumulatedAt[p] > height - n =>
           p \in accumulated[n - 1 - (height - accumulatedAt[p])]
  BY DEF AccumulatedWindow
<1> HIDE DEF acc, x
<1>7. ASSUME NEW i \in Slots, NEW p \in x[i]
      PROVE  accumulatedAt'[p] >= (height + 1) - (n - 1 - i)
  <2>1. p \in Packages /\ i \in 0..n - 1
    BY <1>1, <1>7 DEF Slots
  <2>2. CASE i = n - 1
    BY <1>1, <1>2, <1>5, <1>7, <2>1, <2>2
  <2>3. CASE i # n - 1
    <3>1. i + 1 \in Slots /\ p \in accumulated[i + 1]
      BY <1>1, <1>7, <2>3
    <3>2. accumulatedAt[p] >= height - (n - 1 - (i + 1))
      BY <1>6, <3>1
    <3> QED
      BY <1>2, <1>5, <2>1, <3>2
  <2> QED
    BY <2>2, <2>3
<1>8. ASSUME NEW p \in Packages, accumulatedAt'[p] > (height + 1) - n
      PROVE  p \in x[n - 1 - ((height + 1) - accumulatedAt'[p])]
  <2>1. CASE p \in acc
    <3>1. n - 1 - ((height + 1) - accumulatedAt'[p]) = n - 1
      BY <1>2, <1>5, <2>1
    <3> QED
      BY <1>1, <2>1, <3>1
  <2>2. CASE p \notin acc
    <3> DEFINE j == n - 1 - ((height + 1) - accumulatedAt'[p])
    <3>1. /\ j \in 0..n - 1 /\ j # n - 1 /\ accumulatedAt[p] > height - n
          /\ n - 1 - (height - accumulatedAt[p]) = j + 1
      BY <1>2, <1>5, <1>8, <2>2
    <3>2. p \in accumulated[j + 1]
      BY <1>6, <3>1
    <3> HIDE DEF j
    <3>3. j \in Slots /\ x[j] = accumulated[j + 1]
      BY <1>1, <3>1 DEF Slots
    <3> QED
      BY <3>2, <3>3 DEF j
  <2> QED
    BY <2>1, <2>2
<1> QED
  BY <1>3, <1>4, <1>7, <1>8 DEF AccumulatedWindow, x

\* A report that stays on its core ages by a block and by at least a slot.
LEMMA SlotsPassedStep ==
  ASSUME TypeOK, HistoryWindow, SlotsPassed, NEW b \in Blocks, Import(b), SafroleOK(b),
         reportedAt' = [p \in Packages |-> IF p \in Incoming(b.guarantees) THEN height + 1
                                                                          ELSE reportedAt[p]]
  PROVE  SlotsPassed'
<1> DEFINE ext == b.guarantees
<1>1. /\ height \in Nat /\ height' = height + 1 /\ tau \in Int /\ b.slot \in Int
      /\ tau' = b.slot /\ b.slot > tau
  <2>1. tau \in 0..SlotRange - 1 /\ b.slot \in 0..SlotRange - 1 /\ SlotRange \in Nat
    BY BlockParts, ReportsConstants DEF TypeOK
  <2>2. tau' = b.slot /\ height' = height + 1
    BY ImportStep
  <2> QED
    BY <2>1, <2>2, WindowConstants DEF SafroleOK
<1>2. /\ rho' \in [Cores -> {NoReport} \cup Assignment]
      /\ \A c \in Engaged(rho') :
           \/ c \in Engaged(RhoDD(b)) /\ rho'[c] = rho[c]
           \/ \E i \in 1..Len(ext) : /\ ext[i].core = c /\ rho'[c].pkg = ext[i].pkg
                                     /\ rho'[c].timeout = b.slot
  BY RhoStep
<1>3. /\ ext \in Seq(Guarantee) /\ DOMAIN ext = 1..Len(ext)
      /\ \A c \in Engaged(RhoDD(b)) : c \in Engaged(rho)
  BY BlockParts
<1>4. \A p \in Packages : /\ reportedAt[p] \in Int /\ reportedAt[p] <= height
                          /\ reportedAt'[p] = IF p \in Incoming(ext) THEN height + 1
                                                                     ELSE reportedAt[p]
  BY StampsPast DEF TypeOK, HistoryWindow
<1> HIDE DEF ext
<1>5. ASSUME NEW c \in Engaged(rho')
      PROVE  (height + 1) - reportedAt'[rho'[c].pkg] <= b.slot - rho'[c].timeout
  <2>1. CASE c \in Engaged(RhoDD(b)) /\ rho'[c] = rho[c]
    <3>1. c \in Engaged(rho)
      BY <1>3, <2>1
    <3>2. rho[c].pkg \in Packages /\ rho[c].timeout \in Nat
      BY <3>1 DEF TypeOK, Engaged, Assignment
    <3>3. height - reportedAt[rho[c].pkg] <= tau - rho[c].timeout
      BY <3>1 DEF SlotsPassed
    <3> QED
      BY <1>1, <1>4, <2>1, <3>2, <3>3
  <2>2. ASSUME NEW i \in 1..Len(ext), rho'[c].pkg = ext[i].pkg, rho'[c].timeout = b.slot
        PROVE  (height + 1) - reportedAt'[rho'[c].pkg] <= b.slot - rho'[c].timeout
    <3>1. ext[i].pkg \in Packages /\ ext[i].pkg \in Incoming(ext)
      BY <1>3, GuaranteeFields DEF Incoming
    <3> QED
      BY <1>1, <1>4, <2>2, <3>1
  <2> QED
    BY <1>2, <2>1, <2>2
<1> QED
  BY <1>1, <1>5 DEF SlotsPassed

\* Without refused blocks, beta and xi are the windows over past blocks that
\* the abstract specification reads, and a report does not outstay its slots.
THEOREM RingsAreWindows == Spec => []Windows
<1>1. Init => Windows
  <2> SUFFICES ASSUME Init PROVE HistoryWindow /\ AccumulatedWindow /\ SlotsPassed
    BY DEF Windows
  <2>1. /\ height = 0 /\ history = <<>> /\ Len(history) = 0
        /\ \A p \in Packages : reportedAt[p] = Never /\ accumulatedAt[p] = Never
        /\ \A i \in Slots : accumulated[i] = {}
        /\ Engaged(rho) = {}
    BY DEF Init, Engaged
  <2>2. HistoryWindow
    BY <2>1, WindowConstants DEF HistoryWindow, Stamped
  <2>3. AccumulatedWindow
    BY <2>1, WindowConstants DEF AccumulatedWindow, Stamped
  <2> QED
    BY <2>1, <2>2, <2>3 DEF SlotsPassed
<1>2. TypeOK /\ Windows /\ [Next]_vars => Windows'
  <2> SUFFICES ASSUME TypeOK, Windows, [Next]_vars PROVE Windows'
    OBVIOUS
  <2>1. CASE UNCHANGED vars
    BY <2>1 DEF vars, Windows, NoneRefused, Accepted, HistoryWindow, AccumulatedWindow, SlotsPassed,
                Stamped, Engaged
  <2>2. ASSUME NEW b \in Blocks, Import(b) PROVE Windows'
    <3> SUFFICES ASSUME NoneRefused' PROVE HistoryWindow' /\ AccumulatedWindow' /\ SlotsPassed'
      BY DEF Windows
    <3>1. /\ NoneRefused /\ SafroleOK(b)
          /\ reportedAt' = [p \in Packages |-> IF p \in Incoming(b.guarantees) THEN height + 1
                                                                              ELSE reportedAt[p]]
      BY <2>2, AllAccept
    <3>2. HistoryWindow /\ AccumulatedWindow /\ SlotsPassed
      BY <3>1 DEF Windows
    <3> QED
      BY <2>2, <3>1, <3>2, HistoryWindowStep, AccumulatedWindowStep, SlotsPassedStep
  <2> QED
    BY <2>1, <2>2, NextImports
<1> QED
  BY <1>1, <1>2, TypeCorrect, PTL DEF Spec

-----------------------------------------------------------------------------
(* Every block is a step of the abstract specification.                    *)

\* The package that a block puts on each core, the cores that lose their report
\* to it, and the entries that it does not evict.
New(b) ==
  [c \in Cores |->
     IF \E i \in DOMAIN b.guarantees : b.guarantees[i].core = c
       THEN (CHOOSE g \in ToSet(b.guarantees) : g.core = c).pkg ELSE NoReport]
Ready(b)   == NowAvailable(RhoD(b), b.assurances)
Leaving(b) == {c \in Engaged(rho) : RhoDD(b)[c] = NoReport}
Live(b)    == {i \in Slots : i # Index(b) /\ ~ (SlotAge(i, Index(b)) < Gap(b))}
Unevicted(b) == UNION {ToSet(ready[i]) : i \in Live(b)}

LEMMA WindowsRead ==
  ASSUME TypeOK, HistoryWindow, AccumulatedWindow, NEW p \in Packages
  PROVE  /\ InHistory(p) <=> Pipeline!InHistory(p)
         /\ p \in Xi(accumulated) <=> Pipeline!InAccumulated(p)
<1> DEFINE n == Len(history)
           r == reportedAt[p]
           a == accumulatedAt[p]
<1>1. /\ height \in Nat /\ n \in Nat /\ n <= MaxHistory /\ n <= height
      /\ n = height \/ n = MaxHistory
      /\ EpochLength \in Nat \ {0} /\ MaxHistory \in Nat \ {0}
      /\ DOMAIN history = 1..n
  BY WindowConstants DEF HistoryWindow, TypeOK
<1>2. /\ r \in Int /\ r <= height /\ (r > height - MaxHistory => r \in 1..height)
      /\ a \in Int /\ a <= height
  BY StampsPast DEF TypeOK, HistoryWindow, AccumulatedWindow
<1>3. /\ \A d \in 0..n - 1 : \A q \in history[n - d] : reportedAt[q] >= height - d
      /\ r > height - n => p \in history[n - (height - r)]
      /\ \A i \in Slots : \A q \in accumulated[i] : accumulatedAt[q] >= height - (EpochLength - 1 - i)
      /\ a > height - EpochLength => p \in accumulated[EpochLength - 1 - (height - a)]
  BY DEF HistoryWindow, AccumulatedWindow
<1> HIDE DEF n
<1>4. ASSUME NEW i \in DOMAIN history, p \in history[i] PROVE r > height - MaxHistory
  <2>1. n - i \in 0..n - 1 /\ n - (n - i) = i
    BY <1>1
  <2>2. r >= height - (n - i)
    BY <1>3, <1>4, <2>1
  <2> QED
    BY <1>1, <1>2, <2>1, <2>2
<1>5. ASSUME r > height - MaxHistory PROVE \E i \in DOMAIN history : p \in history[i]
  <2>1. n - (height - r) \in 1..n /\ r > height - n
    BY <1>1, <1>2, <1>5
  <2> QED
    BY <1>1, <1>3, <2>1
<1>6. ASSUME NEW i \in Slots, p \in accumulated[i] PROVE a > height - EpochLength
  <2>1. a >= height - (EpochLength - 1 - i) /\ i \in 0..EpochLength - 1
    BY <1>3, <1>6 DEF Slots
  <2> QED
    BY <1>1, <1>2, <2>1
<1>7. ASSUME a > height - EpochLength PROVE \E i \in Slots : p \in accumulated[i]
  <2>1. EpochLength - 1 - (height - a) \in Slots
    BY <1>1, <1>2, <1>7 DEF Slots
  <2> QED
    BY <1>3, <1>7, <2>1
<1> QED
  BY <1>4, <1>5, <1>6, <1>7 DEF InHistory, Xi, Pipeline!InHistory, Pipeline!InAccumulated

\* Guarantees name their cores in order, so no core twice.
LEMMA NewReports ==
  ASSUME TypeOK, NEW b \in Blocks, Import(b), ReportedOK(b), NEW ext, ext = b.guarantees
  PROVE  /\ New(b) \in [Cores -> Packages \cup {NoReport}]
         /\ \A i \in 1..Len(ext) : ext[i].core \in Cores /\ New(b)[ext[i].core] = ext[i].pkg
         /\ \A c \in Cores : New(b)[c] # NoReport =>
              \E i \in 1..Len(ext) : ext[i].core = c /\ New(b)[c] = ext[i].pkg
         /\ \A c \in Cores : rho'[c] = IF New(b)[c] # NoReport
                                         THEN [pkg |-> New(b)[c], timeout |-> b.slot]
                                         ELSE RhoDD(b)[c]
<1>1. /\ ext \in Seq(Guarantee) /\ DOMAIN ext = 1..Len(ext)
      /\ \A i \in 1..Len(ext) : ext[i].core \in Cores
      /\ \A i, j \in 1..Len(ext) : i < j => ext[i].core < ext[j].core
  BY BlockParts DEF ReportedOK, GuaranteesOK
<1>2. \A i \in 1..Len(ext) : ext[i].core \in Int /\ ext[i].pkg \in Packages
  BY <1>1, GuaranteeFields
<1>3. \A i, j \in 1..Len(ext) : ext[i].core = ext[j].core => i = j
  BY <1>1, <1>2
<1>4. rho' = [c \in Cores |->
            IF \E i \in DOMAIN ext : ext[i].core = c
              THEN [pkg |-> (CHOOSE g \in ToSet(ext) : g.core = c).pkg, timeout |-> b.slot]
              ELSE RhoDD(b)[c]]
  BY ImportStep DEF ReportedOK, RhoPrime
<1>5. ASSUME NEW i \in 1..Len(ext)
      PROVE  (CHOOSE g \in ToSet(ext) : g.core = ext[i].core).pkg = ext[i].pkg
  <2> DEFINE g == CHOOSE g \in ToSet(ext) : g.core = ext[i].core
  <2>1. ext[i] \in ToSet(ext)
    BY <1>1, MembersOf
  <2>2. g \in ToSet(ext) /\ g.core = ext[i].core
    BY <2>1
  <2> HIDE DEF g
  <2>3. PICK j \in 1..Len(ext) : ext[j] = g
    BY <1>1, <2>2, MembersOf
  <2>4. i = j
    BY <1>3, <2>2, <2>3
  <2>5. g.pkg = ext[i].pkg
    BY <2>3, <2>4
  <2> QED
    BY <2>5 DEF g
<1>6. ASSUME NEW i \in 1..Len(ext)
      PROVE  /\ New(b)[ext[i].core] = ext[i].pkg
             /\ rho'[ext[i].core] = [pkg |-> ext[i].pkg, timeout |-> b.slot]
  <2>1. ext[i].core \in Cores /\ \E j \in DOMAIN ext : ext[j].core = ext[i].core
    BY <1>1
  <2> QED
    BY <1>4, <1>5, <2>1 DEF New
<1>7. ASSUME NEW c \in Cores, ~ \E i \in 1..Len(ext) : ext[i].core = c
      PROVE  New(b)[c] = NoReport /\ rho'[c] = RhoDD(b)[c]
  BY <1>1, <1>4, <1>7 DEF New
<1>8. NoReport \notin Packages
  BY ReportsConstants
<1>9. ASSUME NEW c \in Cores
      PROVE  /\ New(b)[c] \in Packages \cup {NoReport}
             /\ New(b)[c] # NoReport => \E i \in 1..Len(ext) : ext[i].core = c /\ New(b)[c] = ext[i].pkg
             /\ rho'[c] = IF New(b)[c] # NoReport THEN [pkg |-> New(b)[c], timeout |-> b.slot]
                                                  ELSE RhoDD(b)[c]
  <2>1. CASE \E i \in 1..Len(ext) : ext[i].core = c
    <3>1. PICK i \in 1..Len(ext) : ext[i].core = c
      BY <2>1
    <3>2. New(b)[c] = ext[i].pkg /\ rho'[c] = [pkg |-> ext[i].pkg, timeout |-> b.slot]
      BY <1>6, <3>1
    <3> QED
      BY <1>2, <1>8, <3>1, <3>2
  <2>2. CASE ~ \E i \in 1..Len(ext) : ext[i].core = c
    BY <1>7, <2>2
  <2> QED
    BY <2>1, <2>2
<1>10. New(b) \in [Cores -> Packages \cup {NoReport}]
  <2>1. New(b) = [c \in Cores |-> New(b)[c]]
    BY DEF New
  <2> QED
    BY <1>9, <2>1
<1> QED
  BY <1>1, <1>6, <1>9, <1>10

\* The packages on cores, as the abstract specification names them.
LEMMA OnCore ==
  ASSUME TypeOK, NEW c \in Cores
  PROVE  /\ PackagesOnCores[c] = IF c \in Engaged(rho) THEN rho[c].pkg ELSE NoReport
         /\ c \in Engaged(rho) => rho[c].pkg \in Packages
         /\ NoReport \notin Packages
         /\ PackagesOnCores[c] # NoReport <=> c \in Engaged(rho)
<1>1. NoReport \notin Packages
  BY ReportsConstants
<1>2. c \in Engaged(rho) => rho[c].pkg \in Packages
  BY DEF TypeOK, Engaged, Assignment
<1> QED
  BY <1>1, <1>2 DEF PackagesOnCores, Engaged

LEMMA PendingIsReady == TypeOK => Pipeline!PendingPackages = ReadyPackages
<1> SUFFICES ASSUME TypeOK PROVE {e.pkg : e \in Entries} = ReadyPackages
  BY DEF Pipeline!PendingPackages
<1>1. \A i \in Slots : PackageOf(ready[i]) = {e.pkg : e \in ToSet(ready[i])}
  BY DEF PackageOf, ToSet
<1> QED
  BY <1>1 DEF Entries, ReadyPackages

\* A report leaves its core in time: it has been there for a slot per block.
LEMMA LeavesStep ==
  ASSUME TypeOK, HistoryWindow, SlotsPassed, NEW b \in Blocks, SafroleOK(b), AssuredOK(b)
  PROVE  Pipeline!Leaves(Ready(b), Leaving(b))
<1>1. Ready(b) \subseteq Engaged(rho)
  BY BlockParts DEF Ready
<1>2. ASSUME NEW c \in Engaged(rho), RhoDD(b)[c] # NoReport
      PROVE  /\ c \notin Ready(b)
             /\ reportedAt[rho[c].pkg] + AssuranceTimeout > height + 1
  <2>1. c \in Engaged(RhoDD(b))
    BY <1>2 DEF Engaged
  <2>2. c \notin Ready(b) /\ b.slot < rho[c].timeout + AssuranceTimeout
    BY <2>1, KeptCores DEF Ready
  <2>3. /\ rho[c].pkg \in Packages /\ rho[c].timeout \in Nat
        /\ height - reportedAt[rho[c].pkg] <= tau - rho[c].timeout
    BY DEF TypeOK, SlotsPassed, Engaged, Assignment
  <2>4. reportedAt[rho[c].pkg] \in Int /\ height \in Nat
    BY <2>3, WindowConstants
  <2>5. tau \in Int /\ b.slot \in Int /\ tau < b.slot /\ AssuranceTimeout \in Nat
    <3>1. tau \in 0..SlotRange - 1 /\ b.slot \in 0..SlotRange - 1 /\ SlotRange \in Nat
      BY BlockParts, ReportsConstants DEF TypeOK
    <3> QED
      BY <3>1, AssurancesConstants DEF SafroleOK
  <2> HIDE DEF Ready
  <2> QED
    BY <2>2, <2>3, <2>4, <2>5
<1>3. Ready(b) \subseteq Leaving(b)
  BY <1>1, <1>2 DEF Leaving
<1>4. ASSUME NEW c \in Cores, PackagesOnCores[c] # NoReport,
             reportedAt[PackagesOnCores[c]] + AssuranceTimeout <= height + 1
      PROVE  c \in Leaving(b)
  <2>1. c \in Engaged(rho) /\ PackagesOnCores[c] = rho[c].pkg
    BY <1>4, OnCore
  <2>2. reportedAt[rho[c].pkg] + AssuranceTimeout <= height + 1
    BY <1>4, <2>1
  <2>3. rho[c].pkg \in Packages /\ reportedAt[rho[c].pkg] \in Int /\ height \in Nat /\ AssuranceTimeout \in Nat
    BY <2>1, OnCore, WindowConstants, AssurancesConstants
  <2>4. ~ (reportedAt[rho[c].pkg] + AssuranceTimeout > height + 1)
    BY <2>2, <2>3
  <2> QED
    BY <1>2, <2>1, <2>4 DEF Leaving
<1>5. \A c \in Leaving(b) : c \in Cores /\ PackagesOnCores[c] # NoReport
  BY OnCore DEF Leaving, Engaged
<1> QED
  BY <1>3, <1>4, <1>5 DEF Pipeline!Leaves, Pipeline!TimedOut, Cores, Pipeline!Cores

\* The guarantees of a block, seen by the core they take.
LEMMA GuaranteesStep ==
  ASSUME TypeOK, HistoryWindow, AccumulatedWindow, NEW b \in Blocks, Import(b), ReportedOK(b)
  PROVE  /\ Pipeline!Guaranteed(New(b)) = Incoming(b.guarantees)
         /\ Pipeline!Guarantees(New(b), Leaving(b))
<1> DEFINE ext == b.guarantees
           new == New(b)
<1>1. /\ new \in [Cores -> Packages \cup {NoReport}]
      /\ \A i \in 1..Len(ext) : ext[i].core \in Cores /\ new[ext[i].core] = ext[i].pkg
      /\ \A c \in Cores : new[c] # NoReport =>
           \E i \in 1..Len(ext) : ext[i].core = c /\ new[c] = ext[i].pkg
  BY NewReports
<1>2. /\ ext \in Seq(Guarantee) /\ DOMAIN ext = 1..Len(ext)
      /\ \A i \in 1..Len(ext) : ext[i].pkg \in Packages
      /\ \A i, j \in 1..Len(ext) : ext[i].pkg = ext[j].pkg => i = j
      /\ \A i \in 1..Len(ext) : ext[i].pkg \notin KnownPackages /\ ~ InHistory(ext[i].pkg)
      /\ \A i \in 1..Len(ext) :
           /\ RhoDD(b)[ext[i].core] = NoReport
           /\ \A q \in Deps[ext[i].pkg] : q \in Incoming(ext) \/ InHistory(q)
  BY BlockParts, GuaranteeFields DEF ReportedOK, GuaranteesOK, GuaranteeOK
<1>3. NoReport \notin Packages /\ Deps \in [Packages -> SUBSET Packages] /\ Pipeline!Cores = Cores
  BY ReportsConstants, QueueConstants DEF Cores, Pipeline!Cores
<1>4. Incoming(ext) = {ext[i].pkg : i \in 1..Len(ext)}
  BY <1>2 DEF Incoming
<1> HIDE DEF ext, new
<1>5. Pipeline!Guaranteed(new) = Incoming(ext)
  <2>1. ASSUME NEW c \in Cores, new[c] # NoReport PROVE new[c] \in Incoming(ext)
    BY <1>1, <1>4, <2>1
  <2>2. ASSUME NEW i \in 1..Len(ext) PROVE ext[i].pkg \in {new[c] : c \in Cores} \ {NoReport}
    BY <1>1, <1>2, <1>3
  <2> QED
    BY <1>3, <1>4, <2>1, <2>2 DEF Pipeline!Guaranteed
<1>6. ASSUME NEW c \in Cores, new[c] # NoReport PROVE PackagesOnCores[c] = NoReport \/ c \in Leaving(b)
  <2>1. PICK i \in 1..Len(ext) : ext[i].core = c
    BY <1>1, <1>6
  <2>2. RhoDD(b)[c] = NoReport
    BY <1>2, <2>1
  <2> QED
    BY <2>2, OnCore DEF Leaving
<1>7. ASSUME NEW c \in Cores, NEW d \in Cores, new[c] # NoReport, new[c] = new[d] PROVE c = d
  <2>1. PICK i \in 1..Len(ext) : ext[i].core = c /\ new[c] = ext[i].pkg
    BY <1>1, <1>7
  <2>2. PICK j \in 1..Len(ext) : ext[j].core = d /\ new[d] = ext[j].pkg
    BY <1>1, <1>7
  <2> QED
    BY <1>2, <1>7, <2>1, <2>2
<1>8. ASSUME NEW p \in Incoming(ext)
      PROVE  /\ ~ Pipeline!InHistory(p) /\ ~ Pipeline!InAccumulated(p)
             /\ p \notin Pipeline!PendingPackages
             /\ \A q \in Deps[p] : Pipeline!InHistory(q) \/ q \in Incoming(ext)
  <2>1. PICK i \in 1..Len(ext) : p = ext[i].pkg
    BY <1>4
  <2>2. /\ p \in Packages /\ p \notin KnownPackages /\ ~ InHistory(p)
        /\ \A q \in Deps[p] : q \in Incoming(ext) \/ InHistory(q)
    BY <1>2, <2>1
  <2>3. ~ Pipeline!InHistory(p) /\ ~ Pipeline!InAccumulated(p)
    BY <2>2, WindowsRead DEF KnownPackages
  <2>4. p \notin Pipeline!PendingPackages
    BY <2>2, PendingIsReady DEF KnownPackages
  <2>5. ASSUME NEW q \in Deps[p] PROVE Pipeline!InHistory(q) \/ q \in Incoming(ext)
    <3>1. q \in Packages
      BY <1>3, <2>2
    <3> QED
      BY <2>2, <3>1, WindowsRead
  <2> QED
    BY <2>3, <2>4, <2>5
<1> QED
  BY <1>3, <1>5, <1>6, <1>7, <1>8 DEF Pipeline!Guarantees, ext, new

LEMMA AvailableOnCores ==
  ASSUME TypeOK, NEW b \in Blocks
  PROVE  /\ Ready(b) \subseteq Engaged(rho) /\ Available(b) \in Seq(Packages)
         /\ \A k \in 1..Len(Available(b)) : \E c \in Ready(b) : Available(b)[k] = PackagesOnCores[c]
         /\ \A c \in Ready(b) : \E k \in 1..Len(Available(b)) : Available(b)[k] = PackagesOnCores[c]
<1> DEFINE r == RhoD(b)
           a == Available(b)
<1>1. /\ r \in [Cores -> {NoReport} \cup Assignment] /\ Ready(b) \subseteq Engaged(r)
      /\ \A c \in Engaged(r) : c \in Engaged(rho) /\ r[c] = rho[c]
  BY BlockParts DEF Ready
<1>2. a = ReportsOn(r, Ready(b))
  BY DEF Available, Ready
<1> HIDE DEF r, a
<1>3. /\ a \in Seq(Packages)
      /\ \A k \in 1..Len(a) : \E c \in Ready(b) : a[k] = r[c].pkg
      /\ \A c \in Ready(b) : \E k \in 1..Len(a) : a[k] = r[c].pkg
  BY <1>1, <1>2, ReportsOnCores
<1>4. \A c \in Ready(b) : c \in Engaged(rho) /\ r[c].pkg = PackagesOnCores[c]
  BY <1>1, OnCore DEF Engaged
<1> QED
  BY <1>3, <1>4 DEF a

\* The entries that a block adds to theta.
LEMMA QueuedStep ==
  ASSUME TypeOK, HistoryWindow, AccumulatedWindow, NEW b \in Blocks
  PROVE  Pipeline!Queued(Ready(b)) = ToSet(NewEntries(b))
<1> DEFINE a == Available(b)
           new == NewEntries(b)
           rest(p) == {q \in Deps[p] : ~ Pipeline!InAccumulated(q)}
<1>1. /\ Ready(b) \subseteq Engaged(rho) /\ a \in Seq(Packages)
      /\ \A k \in 1..Len(a) : \E c \in Ready(b) : a[k] = PackagesOnCores[c]
      /\ \A c \in Ready(b) : \E k \in 1..Len(a) : a[k] = PackagesOnCores[c]
  BY AvailableOnCores
<1>2. new = Queued(a, accumulated)
  BY DEF NewEntries
<1> HIDE DEF a, new
<1>3. /\ new \in Seq(Entry)
      /\ \A k \in 1..Len(new) : \E i \in 1..Len(a) :
           /\ new[k] = NewEntry(a[i], accumulated)
           /\ Deps[a[i]] # {} /\ a[i] \notin Xi(accumulated)
      /\ \A i \in 1..Len(a) : Deps[a[i]] # {} /\ a[i] \notin Xi(accumulated) =>
           \E k \in 1..Len(new) : new[k] = NewEntry(a[i], accumulated)
  <2>1. a \in Seq(Packages)
    BY <1>1
  <2> QED
    BY <1>2, <2>1, QueuedEntries
<1>4. \A p \in Packages : p \in Xi(accumulated) <=> Pipeline!InAccumulated(p)
  BY WindowsRead
<1>5. ASSUME NEW p \in Packages PROVE NewEntry(p, accumulated) = [pkg |-> p, deps |-> rest(p)]
  <2>1. Deps[p] \subseteq Packages
    BY QueueConstants
  <2>2. rest(p) = Deps[p] \ Xi(accumulated)
    BY <1>4, <2>1
  <2> QED
    BY <2>2 DEF NewEntry
<1>6. Pipeline!Queued(Ready(b)) =
        {[pkg |-> p, deps |-> rest(p)] :
           p \in {PackagesOnCores[c] : c \in {d \in Ready(b) :
                    Deps[PackagesOnCores[d]] # {} /\ ~ Pipeline!InAccumulated(PackagesOnCores[d])}}}
  BY DEF Pipeline!Queued
<1> HIDE DEF rest
<1>7. ASSUME NEW k \in 1..Len(new) PROVE new[k] \in Pipeline!Queued(Ready(b))
  <2>1. PICK i \in 1..Len(a) : /\ new[k] = NewEntry(a[i], accumulated)
                               /\ Deps[a[i]] # {} /\ a[i] \notin Xi(accumulated)
    BY <1>3
  <2>2. PICK c \in Ready(b) : a[i] = PackagesOnCores[c]
    BY <1>1
  <2>3. a[i] \in Packages
    BY <1>1
  <2>4. new[k] = [pkg |-> a[i], deps |-> rest(a[i])] /\ ~ Pipeline!InAccumulated(a[i])
    BY <1>4, <1>5, <2>1, <2>3
  <2> QED
    BY <1>6, <2>1, <2>2, <2>4
<1>8. ASSUME NEW e \in Pipeline!Queued(Ready(b)) PROVE \E k \in 1..Len(new) : new[k] = e
  <2>1. PICK c \in Ready(b) :
          /\ e = [pkg |-> PackagesOnCores[c], deps |-> rest(PackagesOnCores[c])]
          /\ Deps[PackagesOnCores[c]] # {} /\ ~ Pipeline!InAccumulated(PackagesOnCores[c])
    BY <1>6
  <2>2. PICK i \in 1..Len(a) : a[i] = PackagesOnCores[c]
    BY <1>1
  <2>3. a[i] \in Packages
    BY <1>1
  <2>4. Deps[a[i]] # {} /\ a[i] \notin Xi(accumulated) /\ e = NewEntry(a[i], accumulated)
    BY <1>4, <1>5, <2>1, <2>2, <2>3
  <2> QED
    BY <1>3, <2>4
<1>9. /\ \A k \in 1..Len(new) : new[k] \in ToSet(new)
      /\ \A e \in ToSet(new) : \E k \in 1..Len(new) : new[k] = e
  <2>1. new \in Seq(Entry)
    BY <1>3
  <2> QED
    BY <2>1, MembersOf
<1>10. ToSet(new) = Pipeline!Queued(Ready(b))
  BY <1>7, <1>8, <1>9
<1> QED
  BY <1>10 DEF new

\* What a block accumulates could be: its dependencies are with it.
LEMMA AccumulableStep ==
  ASSUME TypeOK, GasBounded, HistoryWindow, AccumulatedWindow, NEW b \in Blocks
  PROVE  Pipeline!Accumulable(ToSet(Taken(b)), Ready(b))
<1> DEFINE a == Available(b)
           new == NewEntries(b)
           c == Ordered(b)
           t == Taken(b)
<1>1. /\ Ready(b) \subseteq Engaged(rho) /\ a \in Seq(Packages) /\ Len(a) <= CoreCount
      /\ \A k \in 1..Len(a) : \E d \in Ready(b) : a[k] = PackagesOnCores[d]
      /\ \A d \in Ready(b) : \E k \in 1..Len(a) : a[k] = PackagesOnCores[d]
  BY AvailableOnCores, QueueParts
<1>2. /\ new = Queued(a, accumulated) /\ c = Accumulatable(a, ready, accumulated, Index(b))
      /\ c \in Seq(Packages) /\ t \in Seq(Packages) /\ new \in Seq(Entry) /\ Index(b) \in Slots
      /\ \E n \in 0..Len(c) : t = SubSeq(c, 1, n)
  BY BlockParts, QueueParts DEF NewEntries, Ordered
<1>3. \A k \in 1..Len(c) : k <= CoreCount => c[k] \in ToSet(t)
  BY FirstFit
<1> HIDE DEF a, new, c, t
<1>4. (\A k \in 1..Len(c) : ComesFrom(c, k, a, ready, new)) /\ ImmediateFirst(c, a)
  BY <1>1, <1>2, Candidates DEF TypeOK
<1>5. PICK n \in 0..Len(c) : t = SubSeq(c, 1, n)
  BY <1>2
<1>6. Len(t) = n /\ \A k \in 1..n : t[k] = c[k] /\ k \in 1..Len(c)
  BY <1>2, <1>5
<1>7. /\ \A k \in 1..n : t[k] \in ToSet(t)
      /\ \A p \in ToSet(t) : \E k \in 1..n : t[k] = p
  <2>1. t \in Seq(Packages) /\ Len(t) = n
    BY <1>2, <1>6
  <2> QED
    BY <2>1, MembersOf
<1>8. ASSUME NEW d \in Ready(b), Deps[PackagesOnCores[d]] = {} PROVE PackagesOnCores[d] \in ToSet(t)
  <2>1. PICK i \in 1..Len(a) : a[i] = PackagesOnCores[d]
    BY <1>1
  <2>2. PICK k \in 1..Len(c) : k <= Len(a) /\ c[k] = a[i]
    BY <1>4, <1>8, <2>1 DEF ImmediateFirst
  <2>3. k <= CoreCount
    <3>1. CoreCount \in Nat /\ Len(a) \in Nat /\ k \in Int
      BY <1>1, AssurancesConstants
    <3> QED
      BY <1>1, <2>2, <3>1
  <2> QED
    BY <1>3, <2>1, <2>2, <2>3
<1>9. ASSUME NEW p \in ToSet(t)
      PROVE  \/ \E d \in Ready(b) : PackagesOnCores[d] = p /\ Deps[p] = {}
             \/ \E e \in Entries \cup ToSet(new) : e.pkg = p /\ e.deps \subseteq ToSet(t)
  <2>1. PICK k \in 1..n : t[k] = p /\ c[k] = p
    BY <1>6, <1>7
  <2>2. ComesFrom(c, k, a, ready, new)
    BY <1>4, <1>6
  <2>3. CASE Deps[c[k]] = {} /\ \E i \in 1..Len(a) : a[i] = c[k]
    BY <1>1, <2>1, <2>3
  <2>4. ASSUME NEW e \in Entry, Held(e, ready, new), e.pkg = c[k],
               \A q \in e.deps : \E l \in 1..k - 1 : c[l] = q
        PROVE  \E f \in Entries \cup ToSet(new) : f.pkg = p /\ f.deps \subseteq ToSet(t)
    <3>1. e \in Entries \cup ToSet(new)
      <4>1. CASE \E j \in 1..Len(new) : e = new[j]
        <5>1. new \in Seq(Entry)
          BY <1>2
        <5> QED
          BY <4>1, <5>1, MembersOf
      <4>2. ASSUME NEW i \in Slots, NEW j \in 1..Len(ready[i]), e = ready[i][j]
            PROVE  e \in Entries
        <5>1. ready[i] \in Seq(Entry)
          BY DEF TypeOK
        <5>2. e \in ToSet(ready[i])
          BY <4>2, <5>1, MembersOf
        <5> QED
          BY <5>2 DEF Entries
      <4> QED
        BY <2>4, <4>1, <4>2 DEF Held
    <3>2. ASSUME NEW q \in e.deps PROVE q \in ToSet(t)
      <4>1. PICK l \in 1..k - 1 : c[l] = q
        BY <2>4
      <4>2. l \in 1..n
        OBVIOUS
      <4> QED
        BY <1>6, <1>7, <4>1, <4>2
    <3> QED
      BY <2>1, <2>4, <3>1, <3>2
  <2> QED
    BY <2>2, <2>3, <2>4 DEF ComesFrom
<1> QED
  BY <1>8, <1>9, QueuedStep DEF Pipeline!Accumulable, t, new

LEMMA SurvivingSlots ==
  ASSUME TypeOK, NEW b \in Blocks, Import(b)
  PROVE  /\ ready' \in [Slots -> Seq(Entry)] /\ Index(b) \in Slots
         /\ \A i \in Live(b) : ready'[i] = Edit(ready[i], ToSet(Taken(b)))
         /\ ready'[Index(b)] = Edit(NewEntries(b), ToSet(Taken(b)))
         /\ \A i \in Slots : i # Index(b) /\ i \notin Live(b) => ready'[i] = <<>>
<1>1. Index(b) \in Slots
  BY BlockParts
<1>2. \A i \in Slots :
        /\ i = Index(b) => ready'[i] = Edit(NewEntries(b), ToSet(Taken(b)))
        /\ i # Index(b) /\ SlotAge(i, Index(b)) < Gap(b) => ready'[i] = <<>>
        /\ i # Index(b) /\ ~ (SlotAge(i, Index(b)) < Gap(b)) =>
             ready'[i] = Edit(ready[i], ToSet(Taken(b)))
  BY ReadyStep
<1>3. ready' \in [Slots -> Seq(Entry)]
  BY TypeStep DEF TypeOK
<1> QED
  BY <1>1, <1>2, <1>3 DEF Live

LEMMA EditMembers ==
  ASSUME NEW es \in Seq(Entry), NEW acc
  PROVE  \A x : x \in ToSet(Edit(es, acc)) <=> \E e \in ToSet(es) : e.pkg \notin acc /\ x = Cut(e, acc)
<1> DEFINE t == Edit(es, acc)
<1>1. /\ t \in Seq(Entry)
      /\ \A k \in 1..Len(t) : \E i \in 1..Len(es) : t[k] = Cut(es[i], acc) /\ es[i].pkg \notin acc
      /\ \A i \in 1..Len(es) : es[i].pkg \notin acc => \E k \in 1..Len(t) : t[k] = Cut(es[i], acc)
  BY EditEdits DEF Edited
<1> HIDE DEF t
<1>2. /\ \A k \in 1..Len(t) : t[k] \in ToSet(t)
      /\ \A x \in ToSet(t) : \E k \in 1..Len(t) : t[k] = x
  BY <1>1, MembersOf
<1>3. /\ \A i \in 1..Len(es) : es[i] \in ToSet(es)
      /\ \A e \in ToSet(es) : \E i \in 1..Len(es) : es[i] = e
  BY MembersOf
<1>4. ASSUME NEW x \in ToSet(t) PROVE \E e \in ToSet(es) : e.pkg \notin acc /\ x = Cut(e, acc)
  <2>1. PICK k \in 1..Len(t) : t[k] = x
    BY <1>2
  <2>2. PICK i \in 1..Len(es) : t[k] = Cut(es[i], acc) /\ es[i].pkg \notin acc
    BY <1>1
  <2>3. es[i] \in ToSet(es) /\ x = Cut(es[i], acc)
    BY <1>3, <2>1, <2>2
  <2> QED
    BY <2>2, <2>3
<1>5. ASSUME NEW e \in ToSet(es), e.pkg \notin acc PROVE Cut(e, acc) \in ToSet(t)
  <2>1. PICK i \in 1..Len(es) : es[i] = e
    BY <1>3
  <2>2. PICK k \in 1..Len(t) : t[k] = Cut(e, acc)
    BY <1>1, <1>5, <2>1
  <2> QED
    BY <1>2, <2>2
<1> QED
  BY <1>4, <1>5 DEF t

\* The entries of theta after a block: those that it keeps and those it adds.
LEMMA EntriesStep ==
  ASSUME TypeOK, NEW b \in Blocks, Import(b)
  PROVE  /\ Unevicted(b) \subseteq Entries
         /\ Entries' = Pipeline!Edit(Unevicted(b) \cup ToSet(NewEntries(b)), ToSet(Taken(b)))
<1> DEFINE acc == ToSet(Taken(b))
           new == NewEntries(b)
           m == Index(b)
<1>1. /\ ready' \in [Slots -> Seq(Entry)] /\ m \in Slots
      /\ \A i \in Live(b) : ready'[i] = Edit(ready[i], acc)
      /\ ready'[m] = Edit(new, acc)
      /\ \A i \in Slots : i # m /\ i \notin Live(b) => ready'[i] = <<>>
  BY SurvivingSlots
<1>2. new \in Seq(Entry) /\ ready \in [Slots -> Seq(Entry)]
  BY QueueParts DEF TypeOK
<1>3. Live(b) \subseteq Slots
  BY DEF Live
<1> HIDE DEF acc, new, m
<1>4. \A x : x \in ToSet(ready'[m]) <=> \E e \in ToSet(new) : e.pkg \notin acc /\ x = Cut(e, acc)
  BY <1>1, <1>2, EditMembers
<1>5. ASSUME NEW i \in Live(b)
      PROVE  \A x : x \in ToSet(ready'[i]) <=>
                      \E e \in ToSet(ready[i]) : e.pkg \notin acc /\ x = Cut(e, acc)
  <2>1. ready[i] \in Seq(Entry) /\ ready'[i] = Edit(ready[i], acc)
    BY <1>1, <1>2, <1>3
  <2> QED
    BY <2>1, EditMembers
<1>6. Pipeline!Edit(Unevicted(b) \cup ToSet(new), acc) =
        {Cut(e, acc) : e \in {f \in Unevicted(b) \cup ToSet(new) : f.pkg \notin acc}}
  BY DEF Pipeline!Edit, Cut
<1>7. \A x : x \in Entries' <=> \E i \in Slots : x \in ToSet(ready'[i])
  BY DEF Entries, Slots
<1>8. ToSet(<<>>) = {}
  BY DEF ToSet
<1>9. ASSUME NEW x, NEW i \in Slots, x \in ToSet(ready'[i])
      PROVE  \E e \in Unevicted(b) \cup ToSet(new) : e.pkg \notin acc /\ x = Cut(e, acc)
  <2>1. CASE i = m
    BY <1>4, <1>9, <2>1
  <2>2. CASE i \in Live(b)
    BY <1>5, <1>9, <2>2 DEF Unevicted
  <2> QED
    BY <1>1, <1>8, <1>9, <2>1, <2>2
<1>10. ASSUME NEW e \in Unevicted(b) \cup ToSet(new), e.pkg \notin acc
       PROVE  \E i \in Slots : Cut(e, acc) \in ToSet(ready'[i])
  <2>1. CASE e \in ToSet(new)
    BY <1>1, <1>4, <1>10, <2>1
  <2>2. CASE e \in Unevicted(b)
    <3>1. PICK i \in Live(b) : e \in ToSet(ready[i])
      BY <2>2 DEF Unevicted
    <3>2. Cut(e, acc) \in ToSet(ready'[i])
      BY <1>5, <1>10, <3>1
    <3> QED
      BY <1>3, <3>2
  <2> QED
    BY <2>1, <2>2
<1>11. Entries' = Pipeline!Edit(Unevicted(b) \cup ToSet(new), acc)
  BY <1>6, <1>7, <1>9, <1>10
<1>12. Unevicted(b) \subseteq Entries
  BY <1>3 DEF Unevicted, Entries
<1> QED
  BY <1>11, <1>12 DEF acc, new

LEMMA CoresStep ==
  ASSUME TypeOK, NEW b \in Blocks, Import(b), ReportedOK(b)
  PROVE  PackagesOnCores' = [c \in Cores |-> IF New(b)[c] # NoReport THEN New(b)[c]
                                             ELSE IF c \in Leaving(b) THEN NoReport
                                             ELSE PackagesOnCores[c]]
<1> DEFINE new == New(b)
<1>1. /\ new \in [Cores -> Packages \cup {NoReport}]
      /\ \A c \in Cores : rho'[c] = IF new[c] # NoReport THEN [pkg |-> new[c], timeout |-> b.slot]
                                                         ELSE RhoDD(b)[c]
  BY NewReports
<1>2. b.slot \in Nat
  <2>1. b.slot \in 0..SlotRange - 1 /\ SlotRange \in Nat
    BY BlockParts, ReportsConstants
  <2> QED
    BY <2>1
<1> HIDE DEF new
<1>3. ASSUME NEW c \in Cores
      PROVE  (IF rho'[c] = NoReport THEN NoReport ELSE rho'[c].pkg) =
               IF new[c] # NoReport THEN new[c]
               ELSE IF c \in Leaving(b) THEN NoReport ELSE PackagesOnCores[c]
  <2>1. CASE new[c] # NoReport
    <3>1. rho'[c] = [pkg |-> new[c], timeout |-> b.slot] /\ new[c] \in Packages
      BY <1>1, <2>1
    <3>2. rho'[c] # NoReport /\ rho'[c].pkg = new[c]
      BY <1>2, <3>1, ReportsConstants
    <3> QED
      BY <2>1, <3>2
  <2>2. CASE new[c] = NoReport
    <3>1. rho'[c] = RhoDD(b)[c]
      BY <1>1, <2>2
    <3>2. CASE RhoDD(b)[c] = NoReport
      <4>1. c \in Engaged(rho) => c \in Leaving(b)
        BY <3>2 DEF Leaving
      <4>2. c \notin Engaged(rho) => PackagesOnCores[c] = NoReport
        BY OnCore
      <4> QED
        BY <2>2, <3>1, <3>2, <4>1, <4>2
    <3>3. CASE RhoDD(b)[c] # NoReport
      <4>1. c \in Engaged(rho) /\ RhoDD(b)[c] = rho[c] /\ c \notin Leaving(b)
        BY <3>3, BlockParts DEF Engaged, Leaving
      <4>2. PackagesOnCores[c] = rho[c].pkg
        BY <4>1, OnCore
      <4> QED
        BY <2>2, <3>1, <3>3, <4>1, <4>2
    <3> QED
      BY <3>2, <3>3
  <2> QED
    BY <2>1, <2>2
<1>4. PackagesOnCores' = [c \in Cores |-> IF rho'[c] = NoReport THEN NoReport ELSE rho'[c].pkg]
  BY DEF PackagesOnCores, Cores
<1> QED
  BY <1>3, <1>4 DEF new

\* A block of which every stage accepts its part is a step of ReportPipeline.
LEMMA BlockIsStep ==
  ASSUME TypeOK, GasBounded, Windows, NEW b \in Blocks, Import(b), height < MaxHeight, NoneRefused'
  PROVE  Pipeline!Next
<1>1. /\ NoneRefused /\ SafroleOK(b) /\ AssuredOK(b) /\ ReportedOK(b)
      /\ reportedAt' = [p \in Packages |-> IF p \in Incoming(b.guarantees) THEN height + 1
                                                                          ELSE reportedAt[p]]
  BY AllAccept
<1>2. HistoryWindow /\ AccumulatedWindow /\ SlotsPassed
  BY <1>1 DEF Windows
<1> DEFINE new == New(b)
           acc == ToSet(Taken(b))
<1>3. /\ Pipeline!Leaves(Ready(b), Leaving(b))
      /\ Pipeline!Guaranteed(new) = Incoming(b.guarantees)
      /\ Pipeline!Guarantees(new, Leaving(b))
      /\ Pipeline!Accumulable(acc, Ready(b))
      /\ Pipeline!Queued(Ready(b)) = ToSet(NewEntries(b))
  BY <1>1, <1>2, LeavesStep, GuaranteesStep, AccumulableStep, QueuedStep
<1>4. /\ height' = height + 1
      /\ accumulatedAt' = [p \in Packages |-> IF p \in acc THEN height + 1 ELSE accumulatedAt[p]]
  BY ImportStep
<1>5. /\ Unevicted(b) \subseteq Entries
      /\ Entries' = Pipeline!Edit(Unevicted(b) \cup Pipeline!Queued(Ready(b)), acc)
  BY <1>3, EntriesStep
<1>6. PackagesOnCores' = [c \in Cores |-> IF new[c] # NoReport THEN new[c]
                                          ELSE IF c \in Leaving(b) THEN NoReport
                                          ELSE PackagesOnCores[c]]
  BY <1>1, CoresStep
<1>7. reportedAt' = [p \in Packages |-> IF p \in Pipeline!Guaranteed(new) THEN height + 1
                                                                         ELSE reportedAt[p]]
  BY <1>1, <1>3
<1>8. /\ new \in [Cores -> Packages \cup {NoReport}] /\ acc \subseteq Packages
      /\ Ready(b) \subseteq Cores /\ Leaving(b) \subseteq Cores
  BY <1>1, NewReports, QueueParts, AvailableOnCores DEF Engaged, Leaving
<1>9. Pipeline!Cores = Cores
  BY DEF Cores, Pipeline!Cores
<1> HIDE DEF new, acc
<1>10. Pipeline!ImportBlock(new, Ready(b), Leaving(b), acc, Unevicted(b))
  BY <1>3, <1>4, <1>5, <1>6, <1>7, <1>9 DEF Pipeline!ImportBlock
<1> QED
  BY <1>5, <1>8, <1>9, <1>10 DEF Pipeline!Next

\* Block import without refused blocks implements ReportPipeline, whatever the
\* packages, gas, gaps and extrinsics: its rings and queues are the windows over
\* past blocks and the set of entries that the abstract specification reads.
THEOREM ImplementsPipeline == Spec /\ []NoneRefused => Pipeline!Spec
<1>1. Init => Pipeline!Init
  <2> SUFFICES ASSUME Init PROVE Pipeline!Init
    OBVIOUS
  <2>1. PackagesOnCores = [c \in Cores |-> NoReport]
    BY DEF Init, PackagesOnCores
  <2>2. Entries = {}
    <3>1. \A i \in Slots : ToSet(ready[i]) = {}
      BY DEF Init, ToSet
    <3> QED
      BY <3>1 DEF Entries
  <2> QED
    BY <2>1, <2>2 DEF Init, Pipeline!Init, Pipeline!Cores, Cores, Never, Pipeline!Never
<1>2. TypeOK /\ GasBounded /\ Windows /\ NoneRefused' /\ [Next]_vars => [Pipeline!Next]_Pipeline!vars
  <2> SUFFICES ASSUME TypeOK, GasBounded, Windows, NoneRefused', [Next]_vars
               PROVE  Pipeline!Next \/ UNCHANGED Pipeline!vars
    OBVIOUS
  <2>1. CASE UNCHANGED vars
    BY <2>1 DEF vars, Pipeline!vars, PackagesOnCores, Entries
  <2>2. CASE Next /\ ~ UNCHANGED vars
    BY <2>2, NextImports, BlockIsStep
  <2> QED
    BY <2>1, <2>2
<1> QED
  BY <1>1, <1>2, TypeCorrect, ReportGasBounded, RingsAreWindows, PTL DEF Spec, Pipeline!Spec

\* With the bound on refused blocks at zero no stage refuses anything.
THEOREM ValidBlocks == MaxRefused = 0 => (Spec => Pipeline!Spec)
<1> SUFFICES ASSUME MaxRefused = 0 PROVE Spec => Pipeline!Spec
  OBVIOUS
<1>1. Init => NoneRefused
  BY DEF Init, NoneRefused, Accepted
<1>2. TypeOK /\ NoneRefused /\ [Next]_vars => NoneRefused'
  <2> SUFFICES ASSUME TypeOK, NoneRefused, [Next]_vars PROVE NoneRefused'
    OBVIOUS
  <2>1. CASE UNCHANGED vars
    BY <2>1 DEF vars, NoneRefused, Accepted
  <2>2. ASSUME NEW b \in Blocks, Import(b) PROVE NoneRefused'
    <3> DEFINE bad == {stage \in Stages : ~ Accepts(stage, b.slot, b.tickets, RhoD(b), RhoDD(b),
                                                   b.assurances, b.guarantees)}
    <3>1. /\ refused' = [stage \in Stages |-> refused[stage] + (IF stage \in bad THEN 1 ELSE 0)]
          /\ bad # {} => MayRefuse
      BY <2>2 DEF Import, ImportBlock, RhoD, RhoDD
    <3>2. ~ MayRefuse
      BY DEF MayRefuse, NoneRefused, Accepted, Stages
    <3> HIDE DEF bad
    <3>3. \A stage \in Stages : refused'[stage] = refused[stage] + 0
      BY <3>1, <3>2
    <3> QED
      BY <3>3 DEF NoneRefused, Accepted
  <2> QED
    BY <2>1, <2>2, NextImports
<1>3. Spec => []NoneRefused
  BY <1>1, <1>2, TypeCorrect, PTL DEF Spec
<1> QED
  BY <1>3, ImplementsPipeline, PTL

=============================================================================
