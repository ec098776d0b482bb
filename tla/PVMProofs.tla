----------------------------- MODULE PVMProofs -----------------------------
(* Theorems about the virtual machine (PVM): gas, control flow and memory.  *)
EXTENDS PVM, FiniteSetTheorems, WellFoundedInduction, TLAPS

-----------------------------------------------------------------------------
(* Gas wraps: a number and what it is as an i64 differ by whole words.      *)

LEMMA WordFacts ==
  /\ HalfWord \in Nat \ {0} /\ Word \in Nat \ {0} /\ Word = HalfWord + HalfWord
  /\ Signed \subseteq Int /\ 0 \in Signed
BY PVMConstants DEF Word, Signed

\* Two numbers that differ by whole words, but by less than one, are the same.
LEMMA SameWord ==
  ASSUME NEW x \in Int, NEW y \in Int, NEW k \in Int,
         x = y + Word * k, x - y < Word, y - x < Word
  PROVE  x = y
<1>1. Word \in Nat \ {0}
  BY WordFacts
<1>2. \A n \in Nat \ {0}, j \in Int :
        /\ n * j \in Int /\ (j >= 1 => n * j >= n) /\ (j <= -1 => n * j <= -n)
  OBVIOUS
<1> DEFINE w == Word
           wk == Word * k
<1>3. wk \in Int /\ (k >= 1 => wk >= w) /\ (k <= -1 => wk <= -w) /\ w \in Nat
  BY <1>1, <1>2
<1>4. k = 0 => wk = 0
  BY <1>1
<1>5. x = y + wk /\ x - y < w /\ y - x < w
  OBVIOUS
<1> HIDE DEF w, wk
<1> QED
  BY <1>3, <1>4, <1>5

LEMMA DivisionFacts ==
  \A n \in Nat \ {0}, z \in Int :
    LET q == z \div n
        r == z % n
    IN  r \in 0..(n - 1) /\ q \in Int /\ n * q + r = z
OBVIOUS

LEMMA WrapFacts ==
  ASSUME NEW x \in Int
  PROVE  Wrap(x) \in Signed /\ \E k \in Int : x = Wrap(x) + Word * k
<1>1. HalfWord \in Nat \ {0} /\ Word \in Nat \ {0} /\ Word = HalfWord + HalfWord
  BY WordFacts
<1> DEFINE y == x + HalfWord
           r == y % Word
           q == y \div Word
<1>3. y \in Int
  BY <1>1
<1>4. r \in 0..(Word - 1) /\ q \in Int /\ y = Word * q + r
  BY <1>1, <1>3, DivisionFacts
<1>5. Wrap(x) = r - HalfWord
  BY DEF Wrap
<1>6. Word * q \in Int
  BY <1>1, <1>4
<1>7. x = Wrap(x) + Word * q
  <2> DEFINE wq == Word * q
  <2>1. x + HalfWord = wq + r /\ wq \in Int /\ r \in Int
    BY <1>1, <1>4, <1>6
  <2> HIDE DEF wq, r, q, y
  <2>2. x = (r - HalfWord) + wq
    BY <1>1, <2>1
  <2> QED
    BY <1>5, <2>2 DEF wq
<1>8. Wrap(x) \in Signed
  <2> HIDE DEF r
  <2> QED
    BY <1>1, <1>4, <1>5 DEF Signed
<1> HIDE DEF q
<1> QED
  BY <1>4, <1>7, <1>8

LEMMA WrapType == \A x \in Int : Wrap(x) \in Signed /\ Wrap(x) \in Int
<1>1. \A x \in Int : Wrap(x) \in Signed
  BY WrapFacts
<1> HIDE DEF Wrap
<1> QED
  BY <1>1, WordFacts

LEMMA WrapIs ==
  ASSUME NEW x \in Int, NEW y \in Signed, NEW k \in Int, x = y + Word * k
  PROVE  Wrap(x) = y
<1>1. PICK j \in Int : x = Wrap(x) + Word * j
  BY WrapFacts
<1>2. Wrap(x) \in Signed
  BY WrapFacts
<1>3. /\ Word \in Nat \ {0} /\ HalfWord \in Nat /\ Word = HalfWord + HalfWord
      /\ Wrap(x) \in Int /\ y \in Int
  BY <1>2, WordFacts
<1>4. Wrap(x) = y + Word * (k - j)
  <2>1. \A n, a, b \in Int : n * (a - b) = n * a - n * b /\ n * a \in Int
    OBVIOUS
  <2> DEFINE wk == Word * k
             wj == Word * j
             d == Word * (k - j)
             v == Wrap(x)
  <2>2. d = wk - wj /\ wk \in Int /\ wj \in Int
    BY <1>3, <2>1
  <2>3. x = y + wk /\ x = v + wj /\ v \in Int
    BY <1>1, <1>3
  <2> HIDE DEF wk, wj, d, v
  <2>4. v = y + d
    BY <1>3, <2>2, <2>3
  <2> QED
    BY <2>4 DEF v, d
<1>5. Wrap(x) - y < Word /\ y - Wrap(x) < Word
  BY <1>2, <1>3 DEF Signed
<1>6. k - j \in Int
  OBVIOUS
<1> HIDE DEF Wrap
<1> QED
  BY <1>3, <1>4, <1>5, <1>6, SameWord

LEMMA WrapOf ==
  ASSUME NEW y \in Signed
  PROVE  Wrap(y) = y
<1>1. y \in Int /\ Word \in Nat
  BY WordFacts
<1>2. y = y + Word * 0 /\ 0 \in Int
  <2>1. \A n \in Nat : n * 0 = 0
    OBVIOUS
  <2> QED
    BY <1>1, <2>1
<1> HIDE DEF Wrap
<1> QED
  BY <1>1, <1>2, WrapIs

\* What is taken off a number may be taken off what it wraps to.
LEMMA WrapAgain ==
  ASSUME NEW a \in Int, NEW b \in Int
  PROVE  Wrap(Wrap(a) + b) = Wrap(a + b)
<1>1. PICK j \in Int : a = Wrap(a) + Word * j
  BY WrapFacts
<1>2. PICK k \in Int : a + b = Wrap(a + b) + Word * k
  BY WrapFacts
<1>3. /\ Wrap(a) \in Int /\ Wrap(a + b) \in Signed /\ Wrap(a + b) \in Int
      /\ Word \in Nat
  BY WrapType, WordFacts
<1>4. Wrap(a) + b = Wrap(a + b) + Word * (k - j)
  <2>1. \A n, c, d \in Int : n * (c - d) = n * c - n * d /\ n * c \in Int
    OBVIOUS
  <2> DEFINE wk == Word * k
             wj == Word * j
             d == Word * (k - j)
             u == Wrap(a)
             v == Wrap(a + b)
  <2>2. d = wk - wj /\ wk \in Int /\ wj \in Int
    BY <1>3, <2>1
  <2>3. a = u + wj /\ a + b = v + wk /\ u \in Int /\ v \in Int
    BY <1>1, <1>2, <1>3
  <2> HIDE DEF wk, wj, d, u, v
  <2>4. u + b = v + d
    BY <2>2, <2>3
  <2> QED
    BY <2>4 DEF u, v, d
<1> DEFINE x == Wrap(a) + b
           y == Wrap(a + b)
           d == k - j
<1>5. x \in Int /\ y \in Signed /\ d \in Int /\ x = y + Word * d
  BY <1>3, <1>4
<1> HIDE DEF x, y, d
<1>6. Wrap(x) = y
  BY <1>5, WrapIs
<1> QED
  BY <1>6 DEF x, y

LEMMA WrapTwice ==
  ASSUME NEW g \in Int, NEW a \in Int, NEW b \in Int
  PROVE  Wrap(Wrap(g - a) - b) = Wrap(g - (a + b))
<1>1. g - a \in Int /\ -b \in Int /\ Wrap(g - a) \in Int
  BY WrapType, WordFacts
<1>2. Wrap(Wrap(g - a) + (-b)) = Wrap((g - a) + (-b))
  BY <1>1, WrapAgain
<1>3. Wrap(g - a) + (-b) = Wrap(g - a) - b /\ (g - a) + (-b) = g - (a + b)
  BY <1>1
<1> QED
  BY <1>2, <1>3

-----------------------------------------------------------------------------
(* Basic blocks.                                                            *)

\* A set of numbers has a least one.
LEMMA LeastOf ==
  ASSUME NEW T \in SUBSET Nat, T # {}
  PROVE  Min(T) \in T /\ \A y \in T : Min(T) <= y
<1> DEFINE R == OpToRel(<, Nat)
<1>1. IsWellFoundedOn(R, Nat)
  BY NatLessThanWellFounded
<1>2. \A x, y \in Nat : <<y, x>> \in R <=> y < x
  BY DEF OpToRel
<1> HIDE DEF R
<1>3. PICK x \in T : \A y \in T : ~ (<<y, x>> \in R)
  BY <1>1, WFMin
<1>4. ASSUME NEW y \in T PROVE x <= y
  <2>1. x \in Nat /\ y \in Nat /\ ~ (<<y, x>> \in R)
    BY <1>3
  <2>2. ~ (y < x)
    BY <1>2, <2>1
  <2> QED
    BY <2>1, <2>2
<1> QED
  BY <1>4 DEF Min

LEMMA PlaceFacts ==
  ASSUME NEW p \in Programs, NEW i \in Places(p)
  PROVE  /\ PastEnd(p) \in Nat \ {0} /\ i \in Nat \ {0} /\ i <= PastEnd(p)
         /\ Op(p, i) \in Classes
         /\ ~IsTerminator(Op(p, i)) => i # PastEnd(p)
         /\ Op(p, i) = "trap" => IsTerminator(Op(p, i))
<1>1. p.code \in Seq(Instructions)
  BY ProgramConstants
<1>2. Len(p.code) \in Nat /\ PastEnd(p) = Len(p.code) + 1
  BY <1>1 DEF PastEnd
<1>3. i \in Nat \ {0} /\ i <= PastEnd(p)
  BY <1>2 DEF Places
<1>4. Op(p, i) \in Classes
  <2>1. CASE i = PastEnd(p)
    BY <2>1 DEF Op, Classes
  <2>2. CASE i # PastEnd(p)
    <3>1. i \in 1..Len(p.code)
      BY <1>2, <1>3, <2>2
    <3>2. p.code[i] \in Instructions
      BY <1>1, <3>1
    <3> QED  BY <2>2, <3>2 DEF Op, Instructions
  <2> QED  BY <2>1, <2>2
<1>5. ~IsTerminator(Op(p, i)) => i # PastEnd(p)
  BY DEF Op, IsTerminator
<1> QED  BY <1>2, <1>3, <1>4, <1>5 DEF IsTerminator

\* The next instruction lies further on, and at the end at the latest.
LEMMA NextIsOn ==
  ASSUME NEW p \in Programs, NEW i \in Places(p), i # PastEnd(p)
  PROVE  NextPlace(p, i) \in Places(p) /\ i < NextPlace(p, i)
<1>1. PastEnd(p) \in Nat /\ i \in Nat \ {0} /\ i < PastEnd(p) /\ MaxSkip \in Nat
  BY PlaceFacts, ProgramConstants
<1> DEFINE S == {i + 1 + MaxSkip}
                  \cup {k \in (i + 1)..PastEnd(p) : k = PastEnd(p) \/ p.code[k].bit}
<1>2. PastEnd(p) \in S /\ S \in SUBSET Nat /\ \A k \in S : i < k
  BY <1>1
<1> HIDE DEF S
<1>3. Min(S) \in S /\ Min(S) <= PastEnd(p)
  BY <1>2, LeastOf
<1>4. NextPlace(p, i) = Min(S)
  BY DEF NextPlace, S
<1>5. i < Min(S) /\ Min(S) \in Nat
  BY <1>2, <1>3
<1> HIDE DEF S
<1> QED
  BY <1>1, <1>3, <1>4, <1>5 DEF Places

\* count is the number of instructions to the next terminator, at the places
\* from i on.
CountsFrom(count, p, i) ==
  /\ count \in [i..PastEnd(p) -> Nat \ {0}]
  /\ \A j \in i..PastEnd(p) :
       count[j] = IF IsTerminator(Op(p, j)) THEN 1 ELSE 1 + count[NextPlace(p, j)]

LEMMA CountExists ==
  ASSUME NEW p \in Programs
  PROVE  \E count : CountsFrom(count, p, 1)
<1> DEFINE n == PastEnd(p)
           Bad == {i \in 0..n : ~ \E count : CountsFrom(count, p, n - i)}
<1>1. n \in Nat \ {0} /\ n \in Places(p)
  <2>1. p.code \in Seq(Instructions)
    BY ProgramConstants
  <2> QED
    BY <2>1 DEF PastEnd, Places
<1>2. \E count : CountsFrom(count, p, n)
  <2> DEFINE f == [j \in n..n |-> 1]
  <2>1. n..n = {n}
    BY <1>1
  <2>2. Op(p, n) = "trap" /\ IsTerminator(Op(p, n))
    BY DEF Op, IsTerminator
  <2>3. f \in [n..n -> Nat \ {0}] /\ f[n] = 1
    BY <2>1
  <2> HIDE DEF n, f
  <2>4. \A j \in n..n : f[j] = 1 /\ IsTerminator(Op(p, j))
    BY <2>1, <2>2, <2>3
  <2>5. n = PastEnd(p)
    BY DEF n
  <2>6. CountsFrom(f, p, n)
    BY <2>3, <2>4, <2>5 DEF CountsFrom
  <2> QED
    BY <2>6
<1>3. ASSUME NEW i \in 1..(n - 1), NEW g, CountsFrom(g, p, i + 1)
      PROVE  \E count : CountsFrom(count, p, i)
  <2>1. i \in Places(p) /\ i # PastEnd(p) /\ i \in Nat
    BY <1>1, <1>3 DEF Places
  <2> DEFINE next == NextPlace(p, i)
             f == [j \in i..n |-> IF j # i THEN g[j]
                                  ELSE IF IsTerminator(Op(p, i)) THEN 1 ELSE 1 + g[next]]
  <2>2. next \in (i + 1)..n
    BY <1>1, <2>1, NextIsOn DEF Places
  <2>3. /\ g \in [(i + 1)..n -> Nat \ {0}]
        /\ \A j \in (i + 1)..n :
             g[j] = IF IsTerminator(Op(p, j)) THEN 1 ELSE 1 + g[NextPlace(p, j)]
    BY <1>3 DEF CountsFrom
  <2>4. g[next] \in Nat \ {0}
    BY <2>2, <2>3
  <2>5. \A j \in i..n : j = i \/ j \in (i + 1)..n
    BY <1>1, <2>1
  <2>6. f \in [i..n -> Nat \ {0}]
    <3> HIDE DEF next, n
    <3> QED
      BY <2>3, <2>4, <2>5
  <2>7. i \in i..n /\ \A j \in (i + 1)..n : j \in i..n /\ j # i
    BY <1>1, <2>1
  <2>8. \A j \in (i + 1)..n : f[j] = g[j]
    BY <2>7
  <2>9. f[i] = IF IsTerminator(Op(p, i)) THEN 1 ELSE 1 + f[next]
    BY <2>2, <2>7, <2>8
  <2>10. ASSUME NEW j \in (i + 1)..n
         PROVE  f[j] = IF IsTerminator(Op(p, j)) THEN 1 ELSE 1 + f[NextPlace(p, j)]
    <3>1. CASE IsTerminator(Op(p, j))
      BY <2>3, <2>8, <3>1
    <3>2. CASE ~IsTerminator(Op(p, j))
      <4>1. j \in Places(p) /\ j # PastEnd(p) /\ j \in Nat
        <5>1. j \in Places(p) /\ j \in Nat
          BY <1>1, <2>1 DEF Places
        <5> QED
          BY <3>2, <5>1, PlaceFacts
      <4>2. NextPlace(p, j) \in Places(p) /\ j < NextPlace(p, j)
        BY <4>1, NextIsOn
      <4>3. NextPlace(p, j) \in (i + 1)..n
        BY <1>1, <2>1, <4>1, <4>2 DEF Places
      <4> HIDE DEF f
      <4> QED
        BY <2>3, <2>8, <3>2, <4>3
    <3> QED
      BY <3>1, <3>2
  <2> HIDE DEF f
  <2>11. \A j \in i..n : f[j] = IF IsTerminator(Op(p, j)) THEN 1 ELSE 1 + f[NextPlace(p, j)]
    BY <2>5, <2>9, <2>10
  <2>12. CountsFrom(f, p, i)
    BY <2>6, <2>11 DEF CountsFrom
  <2> QED
    BY <2>12
<1>4. SUFFICES ASSUME ~ \E count : CountsFrom(count, p, 1)  PROVE FALSE
  OBVIOUS
<1>5. n - 1 \in Bad
  <2>1. n - (n - 1) = 1 /\ n - 1 \in 0..n
    BY <1>1
  <2> HIDE DEF n
  <2> QED
    BY <1>4, <2>1
<1>6. Bad \in SUBSET Nat /\ Bad # {}
  BY <1>1, <1>5
<1> DEFINE m == Min(Bad)
<1>7. m \in Bad /\ \A y \in Bad : m <= y
  <2> HIDE DEF Bad
  <2> QED
    BY <1>6, LeastOf
<1> HIDE DEF m
<1>8. m \in 0..n /\ ~ \E count : CountsFrom(count, p, n - m)
  BY <1>7
<1>9. m # 0
  <2>1. n - 0 = n
    BY <1>1
  <2> HIDE DEF n
  <2> QED
    BY <1>2, <1>8, <2>1
<1>10. m # n
  <2>1. m # n \/ n - 1 < m
    BY <1>1
  <2>2. n - 1 >= m
    BY <1>5, <1>7
  <2> QED
    BY <1>1, <1>8, <2>1, <2>2
<1>11. m - 1 \in 0..n /\ m - 1 \notin Bad
  <2>1. m - 1 \in 0..n /\ ~ (m <= m - 1)
    BY <1>1, <1>8, <1>9
  <2> HIDE DEF Bad, n
  <2> QED
    BY <1>7, <2>1
<1>12. PICK g : CountsFrom(g, p, n - (m - 1))
  BY <1>11
<1>13. n - m \in 1..(n - 1) /\ n - (m - 1) = (n - m) + 1
  BY <1>1, <1>8, <1>9, <1>10
<1> HIDE DEF n
<1> QED
  BY <1>3, <1>8, <1>12, <1>13

\* What is left to run of a block from a place on.
Left(p, i) == BlockLength(p)[i]

LEMMA LengthFacts ==
  ASSUME NEW p \in Programs, NEW i \in Places(p)
  PROVE  /\ Left(p, i) \in Nat \ {0}
         /\ IsTerminator(Op(p, i)) => Left(p, i) = 1
         /\ ~IsTerminator(Op(p, i)) => Left(p, i) = 1 + Left(p, NextPlace(p, i))
<1> DEFINE Def(f) == f = [j \in Places(p) |-> IF IsTerminator(Op(p, j)) THEN 1
                                              ELSE 1 + f[NextPlace(p, j)]]
<1>1. PICK count : CountsFrom(count, p, 1)
  BY CountExists
<1>2. 1..PastEnd(p) = Places(p)
  BY DEF Places
<1>3. /\ count \in [Places(p) -> Nat \ {0}]
      /\ \A j \in Places(p) :
           count[j] = IF IsTerminator(Op(p, j)) THEN 1 ELSE 1 + count[NextPlace(p, j)]
  BY <1>1, <1>2 DEF CountsFrom
<1>4. Def(count)
  BY <1>3
<1>5. BlockLength(p) = CHOOSE f : Def(f)
  BY DEF BlockLength
<1> DEFINE L == BlockLength(p)
<1>6. Def(L)
  <2> HIDE DEF Def
  <2> QED
    BY <1>4, <1>5
<1>7. \A j \in Places(p) :
        L[j] = IF IsTerminator(Op(p, j)) THEN 1 ELSE 1 + L[NextPlace(p, j)]
  BY <1>6
<1> HIDE DEF L, Def
<1>8. \A j \in Places(p) : L[j] = count[j]
  <2> DEFINE Bad == {k \in 0..PastEnd(p) : /\ PastEnd(p) - k \in Places(p)
                                           /\ L[PastEnd(p) - k] # count[PastEnd(p) - k]}
  <2>0. PastEnd(p) \in Nat
    BY PlaceFacts
  <2>1. SUFFICES ASSUME NEW j \in Places(p), L[j] # count[j]  PROVE FALSE
    OBVIOUS
  <2>2. j \in Nat /\ j <= PastEnd(p)
    BY PlaceFacts
  <2>3. PastEnd(p) - j \in Bad
    <3>1. PastEnd(p) - (PastEnd(p) - j) = j /\ PastEnd(p) - j \in 0..PastEnd(p)
      BY <2>0, <2>2
    <3> QED
      BY <2>1, <3>1
  <2>4. Bad \in SUBSET Nat /\ Bad # {}
    BY <2>3
  <2> DEFINE m == Min(Bad)
  <2>5. m \in Bad /\ \A y \in Bad : m <= y
    <3> HIDE DEF Bad
    <3> QED
      BY <2>4, LeastOf
  <2> HIDE DEF m
  <2> DEFINE x == PastEnd(p) - m
             y == NextPlace(p, x)
  <2>6. m \in Nat /\ x \in Places(p) /\ L[x] # count[x]
    BY <2>5
  <2>7. ~IsTerminator(Op(p, x)) /\ L[x] = 1 + L[y] /\ count[x] = 1 + count[y]
    <3> HIDE DEF x
    <3> QED
      BY <1>3, <1>7, <2>6
  <2>8. y \in Places(p) /\ x < y
    <3> HIDE DEF x
    <3> QED
      BY <2>6, <2>7, PlaceFacts, NextIsOn
  <2>9. x \in Nat /\ y \in Nat /\ y <= PastEnd(p)
    <3> HIDE DEF x, y
    <3> QED
      BY <2>6, <2>8, PlaceFacts
  <2> DEFINE k == PastEnd(p) - y
  <2>10. k \in 0..PastEnd(p) /\ k < m /\ PastEnd(p) - k = y
    <3> HIDE DEF y
    <3> QED
      BY <2>0, <2>6, <2>8, <2>9
  <2>11. L[y] # count[y]
    BY <2>6, <2>7
  <2>12. k \in Bad
    <3> HIDE DEF k, y
    <3> QED
      BY <2>8, <2>10, <2>11
  <2> HIDE DEF k, Bad
  <2> QED
    BY <2>5, <2>6, <2>10, <2>12
<1>9. i = PastEnd(p) \/ NextPlace(p, i) \in Places(p)
  BY NextIsOn
<1>10. IsTerminator(Op(p, i)) \/ NextPlace(p, i) \in Places(p)
  BY <1>9, PlaceFacts
<1>11. L[i] \in Nat \ {0}
  BY <1>3, <1>8
<1> QED
  BY <1>7, <1>10, <1>11 DEF Left, L

LEMMA BlocksArePlaces ==
  ASSUME NEW p \in Programs
  PROVE  Blocks(p) \subseteq Places(p) /\ PastEnd(p) \in Nat \ {0}
<1>1. p.code \in Seq(Instructions)
  BY ProgramConstants
<1> QED
  BY <1>1 DEF Blocks, PastEnd

\* A set of places has a greatest one.
LEMMA GreatestPlace ==
  ASSUME NEW n \in Nat, NEW S \in SUBSET (0..n), S # {}
  PROVE  Max(S) \in S /\ \A y \in S : Max(S) >= y
<1> DEFINE T == {n - x : x \in S}
<1>1. T \in SUBSET Nat /\ T # {}
  <2>1. \A x \in S : x \in 0..n /\ n - x \in Nat
    OBVIOUS
  <2>2. PICK x \in S : TRUE
    OBVIOUS
  <2>3. n - x \in T
    OBVIOUS
  <2> QED
    BY <2>1, <2>3
<1> DEFINE m == Min(T)
<1>2. m \in T /\ \A y \in T : m <= y
  <2> HIDE DEF T
  <2> QED
    BY <1>1, LeastOf
<1> HIDE DEF m
<1>3. PICK x \in S : m = n - x
  BY <1>2
<1>4. \A y \in S : n - y \in T
  OBVIOUS
<1>5. \A y \in S : x >= y
  <2> TAKE y \in S
  <2>1. m <= n - y
    BY <1>2, <1>4
  <2> QED
    BY <1>3, <2>1
<1> QED
  BY <1>5 DEF Max

LEMMA StartFacts ==
  ASSUME NEW p \in Programs, NEW i \in Places(p)
  PROVE  /\ BlockStartOf(p, i) \in Places(p)
         /\ i \in Blocks(p) => BlockStartOf(p, i) = i
<1>1. i \in Nat \ {0} /\ PastEnd(p) \in Nat \ {0} /\ i <= PastEnd(p)
      /\ Blocks(p) \subseteq Places(p)
  BY PlaceFacts, BlocksArePlaces
<1> DEFINE S == {1} \cup {b \in Blocks(p) : b <= i}
<1>2. S \in SUBSET (0..PastEnd(p)) /\ S # {} /\ S \subseteq Places(p) /\ S \subseteq Nat
      /\ \A y \in S : y <= i
  BY <1>1 DEF Places
<1>3. Max(S) \in S /\ \A y \in S : Max(S) >= y
  <2> HIDE DEF S
  <2> QED
    BY <1>1, <1>2, GreatestPlace
<1>4. i \in Blocks(p) => i \in S
  BY <1>1
<1>5. BlockStartOf(p, i) = Max(S)
  BY DEF BlockStartOf
<1> HIDE DEF S
<1>6. Max(S) \in Places(p)
  BY <1>2, <1>3
<1>7. i \in Blocks(p) => Max(S) = i
  <2> DEFINE m == Max(S)
  <2>1. m \in Nat /\ m <= i /\ (i \in Blocks(p) => m >= i)
    BY <1>2, <1>3, <1>4
  <2> HIDE DEF m
  <2>2. i \in Blocks(p) => m = i
    BY <1>1, <2>1
  <2> QED
    BY <2>2 DEF m
<1> QED
  BY <1>5, <1>6, <1>7

\* The gate asks for something, and for all of a block that was counted.
LEMMA CostFacts ==
  ASSUME NEW p \in Programs, NEW i \in Places(p)
  PROVE  /\ GateCost(p, i) \in Nat \ {0}
         /\ Counted(p, i) => GateCost(p, i) = Left(p, i)
<1> DEFINE b == BlockStartOf(p, i)
           S == {Left(p, b), CostCap + 1}
<1>1. b \in Places(p) /\ Left(p, b) \in Nat \ {0} /\ CostCap \in Nat
  BY StartFacts, LengthFacts, ProgramConstants
<1>2. S \in SUBSET Nat /\ S # {}
  BY <1>1
<1>3. Min(S) \in S /\ \A y \in S : Min(S) <= y
  <2> HIDE DEF S
  <2> QED
    BY <1>2, LeastOf
<1>4. GateCost(p, i) = Min(S)
  BY DEF GateCost, BlockGasCost, Left
<1> DEFINE m == Min(S)
           l == Left(p, b)
<1>5. l \in Nat \ {0} /\ m \in {l, CostCap + 1} /\ m <= l /\ m <= CostCap + 1
  BY <1>1, <1>3
<1>6. Counted(p, i) => b = i /\ l <= CostCap + 1
  BY StartFacts DEF Counted, Left
<1> HIDE DEF m, l, b
<1>7. m \in Nat \ {0} /\ (l <= CostCap + 1 => m = l)
  BY <1>1, <1>5
<1> QED
  BY <1>4, <1>6, <1>7 DEF m, l
-----------------------------------------------------------------------------
(* The steps.                                                               *)

\* Where the block was entered, what it was charged for, and how many of its
\* instructions can have run.
Placed ==
  gas_charged =>
    /\ blk_spent >= 1 /\ blk_cost = GateCost(program, gate)
    /\ status = "Running" => gate + blk_spent <= pc
    /\ status = "HostCall" => gate + blk_spent <= pc + 1

\* In a block that was counted to its end the part of its cost not charged yet
\* is what is left to run.
Metered ==
  gas_charged /\ Counted(program, gate) =>
    /\ status = "Running" => blk_cost - blk_spent = Left(program, pc)
    /\ status = "HostCall" => blk_cost - blk_spent = Left(program, pc) - 1

\* What remains covers it, unless host calls were made.
Covered ==
  blk_spent # 0 /\ ~hosted /\ Counted(program, gate) =>
    IF gas_charged /\ status \in {"Running", "HostCall"}
    THEN gas >= blk_cost - blk_spent
    ELSE gas >= 0

AtCall ==
  status = "HostCall" => gas_charged /\ ~IsTerminator(Op(program, pc))

Inv == TypeOK /\ GateAtStarts /\ Placed /\ Metered /\ Covered /\ AtCall

\* Every step is one of seven.
Ready == status = "Running" /\ Affordable
MidBlock == Ready /\ ~IsTerminator(Op(program, pc))
AtEnd == Ready /\ IsTerminator(Op(program, pc))
Halting == Charge(1, TRUE) /\ pc' = pc /\ status' = "Halt"
Calling == Charge(1, TRUE) /\ pc' = pc /\ status' = "HostCall"

LEMMA StepKinds ==
  ASSUME Next
  PROVE  \/ OutOfGas
         \/ MidBlock /\ Proceed
         \/ AtEnd /\ \E i \in Blocks(program) : GoTo(i)
         \/ Ready /\ \E exit \in {"Panic", "PageFault"} : Stop(exit)
         \/ AtEnd /\ Halting
         \/ MidBlock /\ Calling
         \/ Host
<1> USE DEF Runs, Ready, MidBlock, AtEnd, IsTerminator
<1>1. ASSUME NEW target, Jump(target)
      PROVE  (\E i \in Blocks(program) : GoTo(i)) \/ Stop("Panic")
  BY <1>1 DEF Jump
<1>2. CASE Plain
  BY <1>2 DEF Plain
<1>3. CASE Trap
  BY <1>3 DEF Trap
<1>4. CASE Access
  <2>1. Ready /\ ~IsTerminator(Op(program, pc))
    BY <1>4 DEF Access
  <2>2. PICK address \in 0..AddrSpace - 1, len \in Widths :
          LET found == Check(memory, address, len, Op(program, pc) = "store")
          IN  IF found = "Ok" THEN Proceed ELSE Stop(found)
    BY <1>4 DEF Access
  <2>3. Check(memory, address, len, Op(program, pc) = "store")
          \in {"Ok", "Panic", "PageFault"}
    BY DEF Check
  <2> QED  BY <2>1, <2>2, <2>3
<1>5. CASE SbrkCall
  BY <1>5 DEF SbrkCall
<1>6. CASE Fallthrough
  BY <1>1, <1>6 DEF Fallthrough
<1>7. CASE StaticJump
  BY <1>1, <1>7 DEF StaticJump
<1>8. CASE Branch
  BY <1>8 DEF Branch
<1>9. CASE DynamicJump
  BY <1>1, <1>9 DEF DynamicJump, Halting
<1>10. CASE Ecalli
  BY <1>10 DEF Ecalli, Calling
<1> QED  BY <1>2, <1>3, <1>4, <1>5, <1>6, <1>7, <1>8, <1>9, <1>10 DEF Next

\* What the types and the code say of a state.
LEMMA StateFacts ==
  ASSUME Inv
  PROVE  /\ program \in Programs /\ pc \in Places(program) /\ gate \in Places(program)
         /\ gas \in Signed /\ gas \in Int /\ blk_cost \in Nat /\ blk_spent \in Nat
         /\ gas_charged \in BOOLEAN /\ hosted \in BOOLEAN
         /\ pc \in Nat \ {0} /\ gate \in Nat \ {0} /\ PastEnd(program) \in Nat \ {0}
         /\ pc <= PastEnd(program)
         /\ MeterBlock \in Places(program) /\ MeterBlock \in Nat \ {0}
         /\ Left(program, pc) \in Nat \ {0}
<1>1. /\ program \in Programs /\ pc \in Places(program) /\ gate \in Places(program)
      /\ gas \in Signed /\ blk_cost \in Nat /\ blk_spent \in Nat
      /\ gas_charged \in BOOLEAN /\ hosted \in BOOLEAN
  BY DEF Inv, TypeOK
<1>2. gas \in Int
  BY <1>1, WordFacts
<1> QED
  BY <1>1, <1>2, PlaceFacts, LengthFacts DEF MeterBlock

\* What the gate and the charge come to, for the block entered at MeterBlock.
LEMMA ChargeFacts ==
  ASSUME Inv, Ready
  PROVE  /\ Cost = GateCost(program, MeterBlock)
         /\ Cost \in Nat \ {0} /\ Spent \in Nat \ {0}
         /\ MeterBlock + Spent <= pc + 1
         /\ Counted(program, MeterBlock) => Cost - Spent + 1 = Left(program, pc)
         /\ Counted(program, MeterBlock) /\ ~(gas_charged /\ hosted)
              => gas >= Left(program, pc)
         /\ ~gas_charged => gas >= Cost /\ Spent = 1
<1> DEFINE cost == GateCost(program, MeterBlock)
           left == Left(program, pc)
<1>1. /\ program \in Programs /\ pc \in Places(program) /\ gas \in Int
      /\ blk_cost \in Nat /\ blk_spent \in Nat /\ gas_charged \in BOOLEAN
      /\ pc \in Nat \ {0} /\ gate \in Nat \ {0} /\ MeterBlock \in Places(program)
      /\ left \in Nat \ {0}
  BY StateFacts
<1>2. cost \in Nat \ {0} /\ (Counted(program, MeterBlock) => cost = Left(program, MeterBlock))
  BY <1>1, CostFacts
<1>3. CASE gas_charged
  <2>1. MeterBlock = gate /\ Cost = blk_cost /\ Spent = blk_spent + 1
    BY <1>3 DEF MeterBlock, Cost, Spent
  <2>2. /\ blk_spent >= 1 /\ blk_cost = GateCost(program, gate) /\ gate + blk_spent <= pc
        /\ Counted(program, gate) => blk_cost - blk_spent = left
        /\ Counted(program, gate) /\ ~hosted => gas >= blk_cost - blk_spent
    BY <1>1, <1>3 DEF Inv, Ready, Placed, Metered, Covered
  <2> HIDE DEF left, cost
  <2>3. Cost = cost
    BY <2>1, <2>2 DEF cost
  <2> QED
    BY <1>1, <1>2, <1>3, <2>1, <2>2, <2>3 DEF left, cost
<1>4. CASE ~gas_charged
  <2>1. MeterBlock = pc /\ Cost = EntryCost /\ Spent = 1 /\ EntryCost = cost
    BY <1>4 DEF MeterBlock, Cost, Spent, EntryCost
  <2>2. gas >= cost
    BY <1>4, <2>1 DEF Ready, Affordable
  <2>3. Counted(program, MeterBlock) => cost = left
    BY <1>2, <2>1
  <2> HIDE DEF left, cost
  <2> QED
    BY <1>1, <1>2, <1>4, <2>1, <2>2, <2>3 DEF left, cost
<1> QED  BY <1>1, <1>3, <1>4

\* Small amounts come off without wrapping.
LEMMA PaidExactly ==
  ASSUME NEW g \in Signed, NEW d \in Nat, d <= g
  PROVE  g - d \in Signed /\ Wrap(g - d) = g - d
<1>1. g - d \in Signed
  BY WordFacts DEF Signed
<1> QED
  BY <1>1, WrapOf

LEMMA Initially == Init => Inv
<1> SUFFICES ASSUME Init  PROVE Inv
  OBVIOUS
<1>1. program \in Programs /\ pc \in Places(program) /\ gate = pc /\ pc = Entry(program)
  BY ProgramConstants DEF Init
<1>2. gas \in Signed
  BY PVMConstants DEF Init
<1>3. gas_charged = FALSE /\ hosted = FALSE /\ blk_spent = 0 /\ status = "Running"
      /\ gas_charged \in BOOLEAN /\ hosted \in BOOLEAN
  BY DEF Init
<1>4. TypeOK
  BY <1>1, <1>2, <1>3 DEF Init, TypeOK, Exits
<1> QED  BY <1>1, <1>3, <1>4 DEF Inv, GateAtStarts, Placed, Metered, Covered, AtCall

\* What is left of the gas after a charge is an i64.
LEMMA Charged ==
  ASSUME Inv, NEW total \in Int
  PROVE  Wrap(gas - total) \in Signed
<1>1. gas - total \in Int
  BY StateFacts
<1> QED
  BY <1>1, WrapType

LEMMA Preserved == Inv /\ [Next]_vars => Inv'
<1> SUFFICES ASSUME Inv, [Next]_vars  PROVE Inv'
  OBVIOUS
<1> DEFINE left == Left(program, pc)
           start == MeterBlock
           counted == Counted(program, start)
           unhosted == ~(gas_charged /\ hosted)
<1>1. /\ program \in Programs /\ pc \in Places(program) /\ gate \in Places(program)
      /\ gas \in Signed /\ gas \in Int /\ blk_cost \in Nat /\ blk_spent \in Nat
      /\ gas_charged \in BOOLEAN /\ hosted \in BOOLEAN
      /\ pc \in Nat \ {0} /\ start \in Nat \ {0} /\ left \in Nat \ {0}
  BY StateFacts
<1>2. ASSUME Ready
      PROVE  /\ Cost = GateCost(program, start)
             /\ Cost \in Nat \ {0} /\ Spent \in Nat \ {0} /\ start + Spent <= pc + 1
             /\ counted => Cost - Spent + 1 = left
             /\ counted /\ unhosted => gas >= left
             /\ ~gas_charged => gas >= Cost /\ Spent = 1
  BY <1>2, ChargeFacts
<1>3. CASE UNCHANGED vars
  BY <1>3 DEF Inv, TypeOK, GateAtStarts, Placed, Metered, Covered, AtCall, vars, meter, Left
<1>4. CASE OutOfGas
  <2>1. /\ ~gas_charged /\ status = "Running" /\ status' = "OutOfGas"
        /\ UNCHANGED <<program, pc, gas, gas_charged, blk_cost, blk_spent, gate, hosted>>
    BY <1>4 DEF OutOfGas, Affordable, meter
  <2> QED
    BY <2>1 DEF Inv, TypeOK, GateAtStarts, Placed, Metered, Covered, AtCall, Exits
<1>5. CASE MidBlock /\ Proceed
  <2>1. Ready /\ Charge(1, TRUE) /\ pc' = NextPlace(program, pc) /\ status' = "Running"
        /\ ~IsTerminator(Op(program, pc))
    BY <1>5 DEF MidBlock, Proceed, After
  <2>2. /\ program' = program /\ gate' = start /\ gas_charged' = TRUE
        /\ blk_cost' = Cost /\ blk_spent' = Spent /\ hosted' = (gas_charged /\ hosted)
        /\ gas' = Wrap(gas - 1) /\ gas' \in Signed /\ hosted' \in BOOLEAN
        /\ gate' \in Places(program')
    <3>1. Wrap(gas - 1) \in Signed
      BY Charged
    <3>2. MeterBlock \in Places(program)
      BY StateFacts
    <3> QED
      BY <1>1, <2>1, <3>1, <3>2 DEF Charge, MeterBlock
  <2>3. pc' \in Places(program) /\ pc < pc' /\ pc' \in Nat
    BY <1>1, <2>1, PlaceFacts, NextIsOn
  <2> DEFINE after == Left(program, pc')
  <2>4. left = 1 + after /\ after \in Nat \ {0}
    BY <1>1, <2>1, <2>3, LengthFacts
  <2>5. TypeOK'
    BY <1>1, <1>2, <2>1, <2>2, <2>3 DEF TypeOK, Exits
  <2>6. GateAtStarts' /\ AtCall'
    BY <2>1, <2>2 DEF GateAtStarts, AtCall
  <2>7. Placed'
    <3>1. Spent >= 1 /\ start + Spent <= pc'
      BY <1>1, <1>2, <2>1, <2>3
    <3> QED
      BY <1>2, <2>1, <2>2, <3>1 DEF Placed
  <2>8. Left(program, pc)' = after
    BY <2>2 DEF Left
  <2>9. Counted(program, gate)' = counted
    BY <2>2 DEF Counted
  <2>10. counted => Cost - Spent = after
    <3> HIDE DEF left, after, counted
    <3> QED
      BY <1>1, <1>2, <2>1, <2>4
  <2>11. Metered'
    <3> HIDE DEF after, counted
    <3> QED
      BY <2>1, <2>2, <2>8, <2>9, <2>10 DEF Metered
  <2>12. counted /\ unhosted => gas' >= Cost - Spent
    <3> HIDE DEF left, after, counted, unhosted
    <3>1. SUFFICES ASSUME counted, unhosted  PROVE gas' >= Cost - Spent
      OBVIOUS
    <3>2. gas >= left /\ 1 \in Nat /\ 1 <= gas
      BY <1>1, <1>2, <2>1, <3>1
    <3>3. gas' = gas - 1
      BY <1>1, <2>2, <3>2, PaidExactly
    <3> QED
      BY <1>1, <2>4, <2>10, <3>1, <3>2, <3>3
  <2>13. Covered'
    <3> HIDE DEF counted
    <3> QED
      BY <2>1, <2>2, <2>9, <2>12 DEF Covered
  <2> QED  BY <2>5, <2>6, <2>7, <2>11, <2>13 DEF Inv
<1>6. ASSUME AtEnd, NEW i \in Blocks(program), GoTo(i)  PROVE Inv'
  <2>1. Ready /\ Charge(1, FALSE) /\ pc' = i /\ status' = "Running"
        /\ IsTerminator(Op(program, pc))
    BY <1>6 DEF AtEnd, GoTo
  <2>2. /\ program' = program /\ gate' = start /\ gas_charged' = FALSE
        /\ blk_cost' = Cost /\ blk_spent' = Spent /\ hosted' = (gas_charged /\ hosted)
        /\ gas' = Wrap(gas - 1) /\ gas' \in Signed /\ hosted' \in BOOLEAN
        /\ gate' \in Places(program')
    <3>1. Wrap(gas - 1) \in Signed
      BY Charged
    <3>2. MeterBlock \in Places(program)
      BY StateFacts
    <3> QED
      BY <1>1, <2>1, <3>1, <3>2 DEF Charge, MeterBlock
  <2>3. pc' \in Places(program) /\ left = 1
    BY <1>1, <2>1, BlocksArePlaces, LengthFacts
  <2>4. TypeOK'
    BY <1>1, <1>2, <2>1, <2>2, <2>3 DEF TypeOK, Exits
  <2>5. GateAtStarts' /\ AtCall' /\ Placed' /\ Metered'
    BY <2>1, <2>2 DEF GateAtStarts, AtCall, Placed, Metered
  <2>6. Counted(program, gate)' = counted
    BY <2>2 DEF Counted
  <2>7. counted /\ unhosted => gas' >= 0
    <3>1. SUFFICES ASSUME counted, unhosted  PROVE gas' >= 0
      OBVIOUS
    <3> HIDE DEF left, counted, unhosted
    <3>2. 1 \in Nat /\ 1 <= gas
      BY <1>1, <1>2, <2>1, <3>1
    <3>3. gas' = gas - 1
      BY <1>1, <2>2, <3>2, PaidExactly
    <3> QED
      BY <1>1, <3>2, <3>3
  <2>8. Covered'
    <3> HIDE DEF counted
    <3> QED
      BY <2>1, <2>2, <2>6, <2>7 DEF Covered
  <2> QED  BY <2>4, <2>5, <2>8 DEF Inv
<1>7. ASSUME Ready, NEW exit \in {"Panic", "PageFault"}, Stop(exit)  PROVE Inv'
  <2> DEFINE total == 1 + Cost - Spent
  <2>0. total \in Int
    BY <1>2, <1>7
  <2>1. Charge(total, TRUE) /\ pc' = pc /\ status' = exit
    BY <1>7 DEF Stop
  <2>2. /\ program' = program /\ gate' = start /\ gas_charged' = TRUE
        /\ blk_cost' = Cost /\ blk_spent' = Spent /\ hosted' = (gas_charged /\ hosted)
        /\ gas' = Wrap(gas - total) /\ gas' \in Signed /\ hosted' \in BOOLEAN
        /\ gate' \in Places(program')
    <3> HIDE DEF total
    <3>1. Wrap(gas - total) \in Signed
      BY <2>0, Charged
    <3>2. MeterBlock \in Places(program)
      BY StateFacts
    <3> QED
      BY <1>1, <2>1, <3>1, <3>2 DEF Charge, MeterBlock
  <2>3. TypeOK'
    BY <1>1, <1>2, <1>7, <2>1, <2>2 DEF TypeOK, Exits
  <2>4. GateAtStarts' /\ AtCall' /\ Metered'
    BY <2>1, <2>2 DEF GateAtStarts, AtCall, Metered
  <2>5. Placed'
    BY <1>2, <1>7, <2>1, <2>2 DEF Placed
  <2>6. Counted(program, gate)' = counted
    BY <2>2 DEF Counted
  <2>7. counted /\ unhosted => gas' >= 0
    <3>1. SUFFICES ASSUME counted, unhosted  PROVE gas' >= 0
      OBVIOUS
    <3>2. total = left /\ left <= gas
      <4> HIDE DEF left, counted, unhosted
      <4> QED
        BY <1>1, <1>2, <1>7, <3>1
    <3> HIDE DEF total, left, counted, unhosted
    <3>3. gas' = gas - total
      BY <1>1, <2>2, <3>2, PaidExactly
    <3> QED
      BY <1>1, <3>2, <3>3
  <2>8. Covered'
    <3> HIDE DEF counted
    <3> QED
      BY <2>1, <2>2, <2>6, <2>7 DEF Covered
  <2> QED  BY <2>3, <2>4, <2>5, <2>8 DEF Inv
<1>8. CASE AtEnd /\ Halting
  <2>1. Ready /\ Charge(1, TRUE) /\ pc' = pc /\ status' = "Halt"
        /\ IsTerminator(Op(program, pc))
    BY <1>8 DEF AtEnd, Halting
  <2>2. /\ program' = program /\ gate' = start /\ gas_charged' = TRUE
        /\ blk_cost' = Cost /\ blk_spent' = Spent /\ hosted' = (gas_charged /\ hosted)
        /\ gas' = Wrap(gas - 1) /\ gas' \in Signed /\ hosted' \in BOOLEAN
        /\ gate' \in Places(program')
    <3>1. Wrap(gas - 1) \in Signed
      BY Charged
    <3>2. MeterBlock \in Places(program)
      BY StateFacts
    <3> QED
      BY <1>1, <2>1, <3>1, <3>2 DEF Charge, MeterBlock
  <2>3. TypeOK'
    BY <1>1, <1>2, <2>1, <2>2 DEF TypeOK, Exits
  <2>4. GateAtStarts' /\ AtCall' /\ Metered'
    BY <2>1, <2>2 DEF GateAtStarts, AtCall, Metered
  <2>5. Placed'
    BY <1>2, <2>1, <2>2 DEF Placed
  <2>6. Counted(program, gate)' = counted
    BY <2>2 DEF Counted
  <2>7. counted /\ unhosted => gas' >= 0
    <3>1. SUFFICES ASSUME counted, unhosted  PROVE gas' >= 0
      OBVIOUS
    <3> HIDE DEF left, counted, unhosted
    <3>2. 1 \in Nat /\ 1 <= gas
      BY <1>1, <1>2, <2>1, <3>1
    <3>3. gas' = gas - 1
      BY <1>1, <2>2, <3>2, PaidExactly
    <3> QED
      BY <1>1, <3>2, <3>3
  <2>8. Covered'
    <3> HIDE DEF counted
    <3> QED
      BY <2>1, <2>2, <2>6, <2>7 DEF Covered
  <2> QED  BY <2>3, <2>4, <2>5, <2>8 DEF Inv
<1>9. CASE MidBlock /\ Calling
  <2>1. Ready /\ Charge(1, TRUE) /\ pc' = pc /\ status' = "HostCall"
        /\ ~IsTerminator(Op(program, pc))
    BY <1>9 DEF MidBlock, Calling
  <2>2. /\ program' = program /\ gate' = start /\ gas_charged' = TRUE
        /\ blk_cost' = Cost /\ blk_spent' = Spent /\ hosted' = (gas_charged /\ hosted)
        /\ gas' = Wrap(gas - 1) /\ gas' \in Signed /\ hosted' \in BOOLEAN
        /\ gate' \in Places(program')
    <3>1. Wrap(gas - 1) \in Signed
      BY Charged
    <3>2. MeterBlock \in Places(program)
      BY StateFacts
    <3> QED
      BY <1>1, <2>1, <3>1, <3>2 DEF Charge, MeterBlock
  <2>3. TypeOK'
    BY <1>1, <1>2, <2>1, <2>2 DEF TypeOK, Exits
  <2>4. GateAtStarts' /\ AtCall'
    BY <2>1, <2>2 DEF GateAtStarts, AtCall
  <2>5. Placed'
    BY <1>2, <2>1, <2>2 DEF Placed
  <2>6. Counted(program, gate)' = counted /\ Left(program, pc)' = left
    BY <2>1, <2>2 DEF Counted, Left
  <2>7. counted => Cost - Spent = left - 1
    <3> HIDE DEF left, counted
    <3> QED
      BY <1>1, <1>2, <2>1
  <2>8. Metered'
    <3> HIDE DEF left, counted
    <3> QED
      BY <2>1, <2>2, <2>6, <2>7 DEF Metered
  <2>9. counted /\ unhosted => gas' >= Cost - Spent
    <3>1. SUFFICES ASSUME counted, unhosted  PROVE gas' >= Cost - Spent
      OBVIOUS
    <3> HIDE DEF left, counted, unhosted
    <3>2. gas >= left /\ 1 \in Nat /\ 1 <= gas
      BY <1>1, <1>2, <2>1, <3>1
    <3>3. gas' = gas - 1
      BY <1>1, <2>2, <3>2, PaidExactly
    <3> QED
      BY <1>1, <2>7, <3>1, <3>2, <3>3
  <2>10. Covered'
    <3> HIDE DEF counted
    <3> QED
      BY <2>1, <2>2, <2>6, <2>9 DEF Covered
  <2> QED  BY <2>3, <2>4, <2>5, <2>8, <2>10 DEF Inv
<1>10. CASE Host
  <2>1. gas_charged /\ ~IsTerminator(Op(program, pc)) /\ status = "HostCall"
    BY <1>10 DEF Host, Inv, AtCall
  <2>2. /\ pc' = NextPlace(program, pc) /\ status' = "Running" /\ hosted' = TRUE
        /\ UNCHANGED <<program, gas_charged, blk_cost, blk_spent, gate>>
    BY <1>10 DEF Host, After
  <2>3. PICK r \in Reserves \cup {0} : gas' = Wrap(gas - HostGas - Wrap(r))
    BY <1>10 DEF Host
  <2>4. gas' \in Signed
    <3>1. HostGas \in Int /\ r \in Int
      BY PVMConstants, WordFacts
    <3>2. Wrap(r) \in Int
      BY <3>1, WrapType
    <3>3. gas - HostGas - Wrap(r) \in Int
      BY <1>1, <3>1, <3>2
    <3> QED
      BY <2>3, <3>3, WrapType
  <2>5. pc' \in Places(program) /\ pc < pc' /\ pc' \in Nat
    BY <1>1, <2>1, <2>2, PlaceFacts, NextIsOn
  <2> DEFINE after == Left(program, pc')
  <2>6. left = 1 + after /\ after \in Nat \ {0}
    BY <1>1, <2>1, <2>2, <2>5, LengthFacts
  <2>7. TypeOK'
    BY <1>1, <2>1, <2>2, <2>4, <2>5 DEF TypeOK, Exits
  <2>8. GateAtStarts' /\ AtCall' /\ Covered'
    BY <2>1, <2>2 DEF GateAtStarts, AtCall, Covered
  <2>9. Placed'
    <3>1. blk_spent >= 1 /\ blk_cost = GateCost(program, gate) /\ gate + blk_spent <= pc + 1
      BY <2>1 DEF Inv, Placed
    <3>2. gate \in Nat
      BY StateFacts
    <3>3. gate + blk_spent <= pc'
      BY <1>1, <2>5, <3>1, <3>2
    <3> QED
      BY <2>2, <3>1, <3>3 DEF Placed
  <2>10. Counted(program, gate)' = Counted(program, gate) /\ Left(program, pc)' = after
    BY <2>2 DEF Counted, Left
  <2>11. Counted(program, gate) => blk_cost - blk_spent = left - 1
    BY <2>1 DEF Inv, Metered
  <2>12. Counted(program, gate) => blk_cost - blk_spent = after
    <3> HIDE DEF left, after
    <3> QED
      BY <2>6, <2>11
  <2>13. Metered'
    <3> HIDE DEF after
    <3> QED
      BY <2>2, <2>10, <2>12 DEF Metered
  <2> QED  BY <2>7, <2>8, <2>9, <2>13 DEF Inv
<1> QED  BY <1>3, <1>4, <1>5, <1>6, <1>7, <1>8, <1>9, <1>10, StepKinds

LEMMA Invariance == Spec => []Inv
<1> QED  BY Initially, Preserved, PTL DEF Spec

\* The variables have their types.
THEOREM TypeCorrect == Spec => []TypeOK
<1>1. Inv => TypeOK
  BY DEF Inv
<1> QED  BY <1>1, Invariance, PTL

\* The gas gate is met at the start of a basic block only, but for the first,
\* which is met wherever the program begins: for every code and bitmask and
\* every behaviour of its dynamic jumps (pvm.rs 425-438, 530-564).
THEOREM GateMetAtStarts == Spec => []GateAtStarts
<1>1. Inv => GateAtStarts
  BY DEF Inv
<1> QED  BY <1>1, Invariance, PTL

\* In a block that was entered at its start and counted to its end only host
\* calls take gas below zero, in every program and wherever it begins
\* (pvm.rs 351-363, 432, 440, 444, accumulate_exec.rs 463, 612).
THEOREM InstructionsNeverOverdraw == Spec => []OverdraftIsHosts
<1>1. Inv => OverdraftIsHosts
  <2> SUFFICES ASSUME Inv, blk_spent # 0, ~hosted, Counted(program, gate)
               PROVE  gas >= 0
    BY StateFacts DEF OverdraftIsHosts
  <2>1. gas \in Int /\ blk_cost \in Nat /\ blk_spent \in Nat
        /\ Left(program, pc) \in Nat \ {0}
    BY StateFacts
  <2>2. CASE gas_charged /\ status \in {"Running", "HostCall"}
    <3>1. gas >= blk_cost - blk_spent
      BY <2>2 DEF Inv, Covered
    <3>2. blk_cost - blk_spent >= Left(program, pc) - 1
      BY <2>1, <2>2 DEF Inv, Metered
    <3> QED  BY <2>1, <3>1, <3>2
  <2>3. CASE ~(gas_charged /\ status \in {"Running", "HostCall"})
    BY <2>3 DEF Inv, Covered
  <2> QED  BY <2>2, <2>3
<1> QED  BY <1>1, Invariance, PTL

-----------------------------------------------------------------------------
(* The refinement.                                                          *)

LEMMA MeterStarts == Init => Meter!Init
<1> SUFFICES ASSUME Init  PROVE Meter!Init
  OBVIOUS
<1>1. gas_charged = FALSE /\ status = "Running" /\ program \in Programs
      /\ pc = Entry(program) /\ gas \in Signed
  BY PVMConstants DEF Init
<1> QED  BY <1>1 DEF Meter!Init, MeterBlock, MeterGas

\* The gas of the abstract machine once the block of the next instruction is
\* paid for.
Paid == IF gas_charged THEN MeterGas ELSE gas - GateCost(program, MeterBlock)

LEMMA PaidIs ==
  ASSUME Inv, Ready
  PROVE  Paid = Wrap(gas - (Cost - Spent + 1)) /\ Paid \in Int
<1>1. gas \in Signed /\ gas \in Int /\ gas_charged \in BOOLEAN
      /\ blk_cost \in Nat /\ blk_spent \in Nat
  BY StateFacts
<1>2. /\ Cost = GateCost(program, MeterBlock) /\ Cost \in Nat /\ Spent \in Nat
      /\ ~gas_charged => gas >= Cost /\ Spent = 1
  BY ChargeFacts
<1>3. CASE gas_charged
  <2>1. Cost = blk_cost /\ Spent = blk_spent + 1
    BY <1>3 DEF Cost, Spent
  <2>2. MeterGas = Wrap(gas - (blk_cost - blk_spent))
    BY <1>3 DEF MeterGas, Ready
  <2>3. Cost - Spent + 1 = blk_cost - blk_spent
    BY <1>1, <2>1
  <2>4. gas - (Cost - Spent + 1) \in Int
    BY <1>1, <1>2
  <2> QED
    BY <1>3, <2>2, <2>3, <2>4, WrapType DEF Paid
<1>4. CASE ~gas_charged
  <2>1. Cost - Spent + 1 = Cost /\ Paid = gas - Cost
    BY <1>2, <1>4 DEF Paid
  <2>2. Wrap(gas - Cost) = gas - Cost
    BY <1>1, <1>2, <1>4, PaidExactly
  <2>3. gas - Cost \in Int
    BY <1>1, <1>2
  <2> QED
    BY <2>1, <2>2, <2>3
<1> QED  BY <1>1, <1>3, <1>4

\* The instruction that ends a block is charged like any other, which settles
\* what the block costs.
LEMMA Settles ==
  ASSUME Inv, AtEnd
  PROVE  Wrap(gas - 1) \in Meter!Settled(Paid)
<1> DEFINE left == Left(program, pc)
           start == MeterBlock
<1>1. /\ program \in Programs /\ pc \in Places(program) /\ gas \in Int /\ pc \in Nat
      /\ start \in Nat \ {0} /\ PastEnd(program) \in Nat /\ pc <= PastEnd(program)
  BY StateFacts
<1>2. Ready /\ left = 1
  BY <1>1, LengthFacts DEF AtEnd
<1>3. /\ Cost = GateCost(program, start) /\ Cost \in Nat /\ Spent \in Nat \ {0}
      /\ start + Spent <= pc + 1
      /\ Counted(program, start) => Cost - Spent + 1 = left
  BY <1>2, ChargeFacts
<1>4. Paid = Wrap(gas - (Cost - Spent + 1)) /\ Paid \in Int
  BY <1>2, PaidIs
<1>5. CASE Counted(program, start)
  <2>1. Wrap(gas - 1) = Paid
    BY <1>2, <1>3, <1>4, <1>5
  <2> QED
    BY <1>5, <2>1 DEF Meter!Settled
<1>6. CASE ~Counted(program, start)
  <2>1. Spent \in 1..PastEnd(program)
    <3> HIDE DEF start
    <3> QED
      BY <1>1, <1>3
  <2> DEFINE a == gas - (Cost - Spent + 1)
             b == Cost - Spent
  <2>2. a \in Int /\ b \in Int /\ a + b = gas - 1 /\ Paid = Wrap(a)
        /\ Paid + Cost - Spent = Paid + b
    BY <1>1, <1>3, <1>4
  <2> HIDE DEF a, b
  <2>3. Wrap(Wrap(a) + b) = Wrap(a + b)
    BY <2>2, WrapAgain
  <2>4. Wrap(gas - 1) = Wrap(Paid + Cost - Spent)
    <3>1. Wrap(Paid + b) = Wrap(gas - 1)
      BY <2>2, <2>3
    <3> QED
      BY <2>2, <3>1
  <2> QED
    BY <1>3, <1>6, <2>1, <2>4 DEF Meter!Settled
<1> QED  BY <1>5, <1>6

LEMMA MeterSteps == Inv /\ [Next]_vars => [Meter!Next]_(Meter!vars)
<1> SUFFICES ASSUME Inv, [Next]_vars  PROVE Meter!Next \/ UNCHANGED Meter!vars
  OBVIOUS
<1>1. /\ program \in Programs /\ gas \in Signed /\ gas \in Int
      /\ gas_charged \in BOOLEAN /\ blk_cost \in Nat /\ blk_spent \in Nat
  BY StateFacts
<1>2. ASSUME Ready
      PROVE  /\ Cost = GateCost(program, MeterBlock) /\ Cost \in Nat /\ Spent \in Nat
             /\ ~gas_charged => gas >= Cost
             /\ Paid = Wrap(gas - (Cost - Spent + 1))
  BY <1>2, ChargeFacts, PaidIs
<1>3. CASE UNCHANGED vars
  BY <1>3 DEF vars, meter, Meter!vars, MeterBlock, MeterGas
<1>4. CASE OutOfGas
  <2>1. ~gas_charged /\ ~(gas >= EntryCost) /\ status = "Running" /\ status' = "OutOfGas"
        /\ UNCHANGED <<program, pc, meter>>
    BY <1>4 DEF OutOfGas, Affordable
  <2>2. MeterBlock = pc /\ MeterGas = gas /\ MeterBlock' = pc /\ MeterGas' = gas
        /\ gas_charged' = gas_charged /\ program' = program
    BY <2>1 DEF MeterBlock, MeterGas, meter
  <2>3. EntryCost = GateCost(program, MeterBlock) /\ EntryCost \in Nat
    BY <1>1, <2>2, StateFacts, CostFacts DEF EntryCost
  <2>4. gas < GateCost(program, MeterBlock)
    BY <1>1, <2>1, <2>3
  <2> QED  BY <2>1, <2>2, <2>4 DEF Meter!Refuse, Meter!Next
\* A step of an instruction is one of Inside.
<1>5. ASSUME Ready, program' = program, Meter!Inside(Paid)
      PROVE  Meter!Next
  <2>1. CASE gas_charged
    <3>1. Paid = MeterGas /\ status = "Running"
      BY <1>5, <2>1 DEF Paid, Ready
    <3>2. Meter!Inside(MeterGas)
      BY <1>5, <3>1
    <3> QED
      BY <1>5, <2>1, <3>1, <3>2 DEF Meter!Continue, Meter!Next
  <2>2. CASE ~gas_charged
    <3>1. Paid = MeterGas - GateCost(program, MeterBlock) /\ MeterGas = gas
          /\ status = "Running"
      BY <1>5, <2>2 DEF Paid, Ready, MeterGas
    <3>2. Meter!Inside(MeterGas - GateCost(program, MeterBlock))
      BY <1>5, <3>1
    <3>3. MeterGas >= GateCost(program, MeterBlock)
      BY <1>2, <1>5, <2>2, <3>1
    <3> QED
      BY <1>5, <2>2, <3>1, <3>2, <3>3 DEF Meter!Enter, Meter!Next
  <2> QED  BY <1>1, <2>1, <2>2
\* Inside the block the gas of the abstract machine stays what was paid.
<1>6. ASSUME Ready, Charge(1, TRUE), status' \in {"Running", "HostCall"}
      PROVE  Meter!Next
  <2>1. /\ program' = program /\ gas_charged' = TRUE /\ gate' = MeterBlock
        /\ blk_cost' = Cost /\ blk_spent' = Spent /\ gas' = Wrap(gas - 1)
    BY <1>6 DEF Charge, MeterBlock
  <2>2. MeterBlock' = MeterBlock /\ MeterGas' = Wrap(gas' - (Cost - Spent))
    BY <1>6, <2>1 DEF MeterBlock, MeterGas
  <2>3. MeterGas' = Paid
    <3> DEFINE b == Cost - Spent
    <3>1. b \in Int /\ Cost - Spent + 1 = 1 + b
      BY <1>2, <1>6
    <3>2. Wrap(Wrap(gas - 1) - b) = Wrap(gas - (1 + b))
      <4> DEFINE one == 1
      <4>1. one \in Int /\ gas \in Int /\ b \in Int
        BY <1>1, <3>1
      <4> HIDE DEF b, one
      <4>2. Wrap(Wrap(gas - one) - b) = Wrap(gas - (one + b))
        BY <4>1, WrapTwice
      <4> QED
        BY <4>2 DEF one
    <3> QED
      BY <1>2, <1>6, <2>1, <2>2, <3>1, <3>2
  <2>4. Meter!Inside(Paid)
    BY <1>6, <2>1, <2>2, <2>3 DEF Meter!Inside
  <2> QED  BY <1>5, <1>6, <2>1, <2>4
<1>7. CASE MidBlock /\ Proceed
  BY <1>6, <1>7 DEF MidBlock, Proceed
<1>8. CASE MidBlock /\ Calling
  BY <1>6, <1>8 DEF MidBlock, Calling
<1>9. ASSUME AtEnd, NEW i \in Blocks(program), GoTo(i)  PROVE Meter!Next
  <2>1. /\ Ready /\ program' = program /\ gas_charged' = FALSE /\ pc' = i
        /\ status' = "Running" /\ gas' = Wrap(gas - 1)
    BY <1>9 DEF AtEnd, GoTo, Charge
  <2>2. MeterBlock' = i /\ MeterGas' = gas'
    BY <2>1 DEF MeterBlock, MeterGas
  <2>3. MeterGas' \in Meter!Settled(Paid)
    BY <1>9, <2>1, <2>2, Settles
  <2>4. Meter!Inside(Paid)
    BY <1>9, <2>1, <2>2, <2>3 DEF Meter!Inside
  <2> QED  BY <1>5, <2>1, <2>4
<1>10. ASSUME Ready, NEW exit \in {"Panic", "PageFault"}, Stop(exit)
       PROVE  Meter!Next
  <2>1. /\ program' = program /\ gas_charged' = TRUE /\ gate' = MeterBlock
        /\ gas' = Wrap(gas - (1 + Cost - Spent)) /\ status' = exit
    BY <1>10 DEF Stop, Charge, MeterBlock
  <2>2. MeterBlock' = MeterBlock /\ MeterGas' = gas'
    BY <1>10, <2>1 DEF MeterBlock, MeterGas
  <2>3. 1 + Cost - Spent = Cost - Spent + 1
    BY <1>2, <1>10
  <2>4. MeterGas' = Paid
    BY <1>2, <1>10, <2>1, <2>2, <2>3
  <2>5. Meter!Inside(Paid)
    BY <1>10, <2>1, <2>2, <2>4 DEF Meter!Inside
  <2> QED  BY <1>5, <1>10, <2>1, <2>5
<1>11. CASE AtEnd /\ Halting
  <2>1. /\ Ready /\ program' = program /\ gas_charged' = TRUE /\ gate' = MeterBlock
        /\ status' = "Halt" /\ gas' = Wrap(gas - 1)
    BY <1>11 DEF AtEnd, Halting, Charge, MeterBlock
  <2>2. MeterBlock' = MeterBlock /\ MeterGas' = gas'
    BY <2>1 DEF MeterBlock, MeterGas
  <2>3. MeterGas' \in Meter!Settled(Paid)
    BY <1>11, <2>1, <2>2, Settles
  <2>4. Meter!Inside(Paid)
    BY <2>1, <2>2, <2>3 DEF Meter!Inside
  <2> QED  BY <1>5, <2>1, <2>4
<1>12. CASE Host
  <2>1. gas_charged /\ status = "HostCall"
    BY <1>12 DEF Host, Inv, AtCall
  <2>2. /\ status' = "Running"
        /\ UNCHANGED <<program, gas_charged, blk_cost, blk_spent, gate>>
    BY <1>12 DEF Host
  <2>3. PICK r \in Reserves \cup {0} : gas' = Wrap(gas - HostGas - Wrap(r))
    BY <1>12 DEF Host
  <2> DEFINE d == blk_cost - blk_spent
             e == HostGas + Wrap(r)
             m == MeterGas
  <2>4. HostGas \in Int /\ Wrap(r) \in Int
    <3>1. r \in Int
      BY PVMConstants, WordFacts
    <3> QED
      BY <3>1, PVMConstants, WrapType
  <2>5. d \in Int /\ e \in Int
    BY <1>1, <2>4
  <2>6. MeterBlock' = MeterBlock /\ m = Wrap(gas - d) /\ MeterGas' = Wrap(gas' - d)
    BY <2>1, <2>2 DEF MeterBlock, MeterGas
  <2>7. gas' = Wrap(gas - e)
    <3>1. gas - HostGas - Wrap(r) = gas - e
      BY <1>1, <2>4
    <3> QED
      BY <2>3, <3>1
  <2>8. m \in Int /\ m - HostGas - Wrap(r) = m - e
    <3>1. gas - d \in Int
      BY <1>1, <2>5
    <3>2. m \in Int
      <4> HIDE DEF d, m
      <4> QED
        BY <2>6, <3>1, WrapType
    <3> HIDE DEF m
    <3> QED
      BY <2>4, <3>2
  <2>9. MeterGas' = Wrap(m - e)
    <3> HIDE DEF d, e, m
    <3>1. Wrap(Wrap(gas - e) - d) = Wrap(gas - (e + d))
      BY <1>1, <2>5, WrapTwice
    <3>2. Wrap(Wrap(gas - d) - e) = Wrap(gas - (d + e))
      BY <1>1, <2>5, WrapTwice
    <3>3. d + e = e + d
      BY <2>5
    <3> QED
      BY <2>6, <2>7, <3>1, <3>2, <3>3
  <2>10. MeterGas' = Wrap(MeterGas - HostGas - Wrap(r))
    BY <2>8, <2>9
  <2> QED  BY <2>1, <2>2, <2>6, <2>10 DEF Meter!Serve, Meter!Next
<1> QED  BY <1>3, <1>4, <1>7, <1>8, <1>9, <1>10, <1>11, <1>12, StepKinds

\* Charging an instruction at a time implements running a block at a time, paid
\* for at the gate, whatever instruction the block stops at, whatever host calls
\* come in between, and wherever the program begins
\* (pvm.rs 379-382, 425-467).
THEOREM ImplementsBlockMeter == Spec => ChargesByBlock
<1> QED  BY MeterStarts, MeterSteps, Invariance, PTL
         DEF Spec, ChargesByBlock, Meter!Spec

-----------------------------------------------------------------------------
(* Memory.                                                                  *)

\* Division rounds down: k is at most the quotient exactly if it fits.
LEMMA FitsQuotient ==
  ASSUME NEW n \in Nat \ {0}, NEW x \in Nat, NEW k \in Int
  PROVE  x \div n \in Nat /\ (k <= x \div n <=> n * k <= x)
<1> DEFINE q == x \div n
           r == x % n
           d == k - q
<1>1. q \in Nat /\ r \in 0..(n - 1) /\ x = n * q + r
  OBVIOUS
<1> HIDE DEF q, r
<1>2. d \in Int /\ n * k = n * q + n * d /\ n * q \in Int /\ n * d \in Int
  <2>1. \A a, b \in Int : n * (a - b) = n * a - n * b /\ n * a \in Int
    OBVIOUS
  <2>2. n * (k - q) = n * k - n * q /\ n * k \in Int /\ n * q \in Int
    BY <1>1, <2>1
  <2> QED
    BY <1>1, <2>2
<1>3. d <= 0 => n * d <= 0
  <2>1. \A e \in Int : e <= 0 => n * e <= 0
    OBVIOUS
  <2> QED
    BY <1>2, <2>1
<1>4. d >= 1 => n * d >= n
  <2>1. \A e \in Int : e >= 1 => n * e >= n
    OBVIOUS
  <2> QED
    BY <1>2, <2>1
<1>5. k <= q <=> n * k <= x
  <2> DEFINE nk == n * k
             nq == n * q
             nd == n * d
  <2>1. nk = nq + nd /\ nq \in Int /\ nd \in Int /\ x = nq + r
        /\ (d <= 0 => nd <= 0) /\ (d >= 1 => nd >= n) /\ d \in Int
    BY <1>1, <1>2, <1>3, <1>4
  <2>2. k <= q <=> d <= 0
    BY <1>1
  <2> HIDE DEF nk, nq, nd, d
  <2>3. k <= q <=> nk <= x
    BY <1>1, <2>1, <2>2
  <2> QED
    BY <2>3 DEF nk
<1> QED
  BY <1>1, <1>5 DEF q

\* A byte is on its page, and on no other.
LEMMA OnPage ==
  ASSUME NEW x \in Nat, NEW p \in Int
  PROVE  /\ PageOf(x) \in Nat
         /\ p <= PageOf(x) <=> PageSize * p <= x
         /\ p >= PageOf(x) <=> x < PageSize * p + PageSize
<1>1. PageSize \in Nat \ {0}
  BY PVMConstants
<1>2. x \div PageSize \in Nat /\ (p <= x \div PageSize <=> PageSize * p <= x)
  BY <1>1, FitsQuotient
<1>3. p + 1 <= x \div PageSize <=> PageSize * (p + 1) <= x
  BY <1>1, FitsQuotient
<1>4. PageSize * (p + 1) = PageSize * p + PageSize /\ PageSize * p \in Int
  <2>1. \A a \in Nat, b \in Int : a * (b + 1) = a * b + a /\ a * b \in Int
    OBVIOUS
  <2> QED
    BY <1>1, <2>1
<1> DEFINE q == PageOf(x)
           pp == PageSize * p
<1>5. q \in Nat /\ (p <= q <=> pp <= x) /\ (p + 1 <= q <=> pp + PageSize <= x) /\ pp \in Int
  BY <1>2, <1>3, <1>4 DEF PageOf
<1> HIDE DEF q, pp
<1>6. q \in Nat /\ (p <= q <=> pp <= x) /\ (p >= q <=> x < pp + PageSize)
  BY <1>1, <1>5
<1> QED
  BY <1>6 DEF q, pp

PageMaps == UNION {[pages -> BOOLEAN] : pages \in SUBSET Nat}

MemoryOK(mem) ==
  /\ mem \in [pages : PageMaps, heap_top : Nat, heap_max : Nat]
  /\ IsFiniteSet(DOMAIN mem.pages)

\* The pages after mapping a range: those before, and those the range meets.
Mapped(new, old, address, length, writable) ==
  /\ DOMAIN new = DOMAIN old \cup {p \in Nat : /\ PageOf(address) <= p
                                              /\ PageSize * p < address + length}
  /\ \A p \in DOMAIN new : new[p] = IF p \in DOMAIN old THEN old[p] ELSE writable

LEMMA MapsRange ==
  ASSUME NEW mem, MemoryOK(mem), NEW address \in Nat, NEW length \in Nat,
         NEW writable \in BOOLEAN, NEW m, m = Map(mem, address, length, writable)
  PROVE  /\ MemoryOK(m) /\ m.heap_top = mem.heap_top /\ m.heap_max = mem.heap_max
         /\ Mapped(m.pages, mem.pages, address, length, writable)
<1> DEFINE end == address + length + PageSize - 1
           new == PageOf(address)..(PageOf(end) - 1)
           pages == [p \in DOMAIN mem.pages \cup new |->
                       IF p \in DOMAIN mem.pages THEN mem.pages[p] ELSE writable]
<1>0. PageSize \in Nat \ {0}
  BY PVMConstants
<1>1. end \in Nat /\ PageOf(address) \in Nat /\ PageOf(end) \in Nat
  <2>1. end \in Nat
    BY <1>0
  <2> QED
    BY <2>1, OnPage
<1>2. new = {p \in Nat : PageOf(address) <= p /\ PageSize * p < address + length}
  <2>1. ASSUME NEW p \in Nat  PROVE p <= PageOf(end) - 1 <=> PageSize * p < address + length
    <3>1. p + 1 <= PageOf(end) <=> PageSize * (p + 1) <= end
      BY <1>1, OnPage
    <3>2. PageSize * (p + 1) = PageSize * p + PageSize /\ PageSize * p \in Int
      <4>1. \A a \in Nat, b \in Int : a * (b + 1) = a * b + a /\ a * b \in Int
        OBVIOUS
      <4> QED
        BY <1>0, <4>1
    <3> DEFINE pp == PageSize * p
    <3> HIDE DEF pp
    <3>3. p + 1 <= PageOf(end) <=> pp + PageSize <= end
      BY <3>1, <3>2 DEF pp
    <3>4. pp \in Int /\ (p + 1 <= PageOf(end) <=> pp < address + length)
      BY <1>0, <3>2, <3>3 DEF pp
    <3> QED
      BY <1>1, <3>4 DEF pp
  <2> QED
    BY <1>1, <2>1
<1>3. mem.pages \in [DOMAIN mem.pages -> BOOLEAN] /\ DOMAIN mem.pages \in SUBSET Nat
  BY DEF MemoryOK, PageMaps
<1>4. pages \in PageMaps
  <2>1. DOMAIN mem.pages \cup new \in SUBSET Nat
    BY <1>1, <1>3
  <2>2. pages \in [DOMAIN mem.pages \cup new -> BOOLEAN]
    BY <1>3
  <2> QED
    BY <2>1, <2>2 DEF PageMaps
<1>5. m = [mem EXCEPT !.pages = pages]
  BY DEF Map
<1>6. IsFiniteSet(DOMAIN pages)
  <2>1. IsFiniteSet(new)
    BY <1>1, FS_Interval
  <2>2. IsFiniteSet(DOMAIN mem.pages \cup new)
    BY <2>1, FS_Union DEF MemoryOK
  <2> QED
    BY <2>2
<1>7. Mapped(pages, mem.pages, address, length, writable)
  BY <1>2 DEF Mapped
<1> HIDE DEF pages
<1> QED
  BY <1>4, <1>5, <1>6, <1>7 DEF MemoryOK

\* The same, to cite by name.
MapDone(m, mem, address, length, writable) ==
  /\ MemoryOK(m) /\ m.heap_top = mem.heap_top /\ m.heap_max = mem.heap_max
  /\ Mapped(m.pages, mem.pages, address, length, writable)

LEMMA MapIsDone ==
  \A mem : MemoryOK(mem) =>
    \A address, length \in Nat, writable \in BOOLEAN :
      MapDone(Map(mem, address, length, writable), mem, address, length, writable)
BY MapsRange DEF MapDone

\* What keeps the heap writable: from the page of the first break to the end of
\* the zone no page is read-only, and the pages below the break are there.
HeapOK(mem, start) ==
  /\ MemoryOK(mem) /\ start \in Nat /\ ZoneSize <= start
  /\ start <= mem.heap_top /\ mem.heap_top <= mem.heap_max
  /\ \A p \in DOMAIN mem.pages :
       PageOf(start) <= p /\ PageSize * p < mem.heap_max => mem.pages[p]
  /\ \A x \in start..(mem.heap_top - 1) : PageOf(x) \in DOMAIN mem.pages

\* The pages are in the address space.
PagesOK(mem) == \A p \in DOMAIN mem.pages : PageSize * p < AddrSpace

LEMMA SbrkKeepsHeap ==
  ASSUME NEW mem, NEW start, HeapOK(mem, start), NEW size \in Nat
  PROVE  HeapOK(Sbrk(mem, size), start)
<1> DEFINE new == mem.heap_top + size
           m == Map(mem, mem.heap_top, size, TRUE)
           grown == [m EXCEPT !.heap_top = new]
<1>0. /\ MemoryOK(mem) /\ start \in Nat /\ mem.heap_top \in Nat /\ mem.heap_max \in Nat
      /\ PageSize \in Nat \ {0} /\ mem.pages \in [DOMAIN mem.pages -> BOOLEAN]
      /\ DOMAIN mem.pages \in SUBSET Nat
  BY PVMConstants DEF HeapOK, MemoryOK, PageMaps
<1>1. CASE size = 0 \/ new >= AddrSpace \/ new > mem.heap_max
  BY <1>1 DEF Sbrk
<1>2. CASE ~ (size = 0 \/ new >= AddrSpace \/ new > mem.heap_max)
  <2>1. Sbrk(mem, size) = grown
    BY <1>2 DEF Sbrk
  <2>2. /\ MemoryOK(m) /\ m.heap_top = mem.heap_top /\ m.heap_max = mem.heap_max
        /\ Mapped(m.pages, mem.pages, mem.heap_top, size, TRUE)
    BY <1>0, MapsRange
  <2> HIDE DEF m
  <2>3. /\ grown.pages = m.pages /\ grown.heap_top = new /\ grown.heap_max = mem.heap_max
        /\ MemoryOK(grown)
    BY <1>0, <2>2 DEF MemoryOK
  <2>4. new \in Nat /\ start <= new /\ new <= mem.heap_max
    BY <1>0, <1>2 DEF HeapOK
  <2>5. ASSUME NEW p \in DOMAIN m.pages, PageOf(start) <= p, PageSize * p < mem.heap_max
        PROVE  m.pages[p]
    BY <2>2, <2>5 DEF Mapped, HeapOK
  <2>6. ASSUME NEW x \in start..(new - 1)  PROVE PageOf(x) \in DOMAIN m.pages
    <3>1. CASE x < mem.heap_top
      <4>1. x \in start..(mem.heap_top - 1)
        BY <1>0, <3>1
      <4> QED
        BY <2>2, <4>1 DEF Mapped, HeapOK
    <3>2. CASE x >= mem.heap_top
      <4>1. x \in Nat /\ x < mem.heap_top + size
        BY <1>0, <2>4
      <4> DEFINE p == PageOf(x)
                 h == PageOf(mem.heap_top)
      <4>2. p \in Nat /\ PageSize * p <= x
        BY <4>1, OnPage
      <4>3. h \in Nat /\ PageSize * h <= mem.heap_top
        <5> DEFINE top == mem.heap_top
        <5>1. top \in Nat
          BY <1>0
        <5> HIDE DEF top
        <5>2. PageOf(top) \in Nat /\ PageSize * PageOf(top) <= top
          BY <5>1, OnPage
        <5> QED
          BY <5>2 DEF top
      <4>4. PageSize * h \in Nat
        BY <1>0, <4>3
      <4>5. PageSize * h <= x
        BY <1>0, <3>2, <4>1, <4>3, <4>4
      <4>6. h <= p
        BY <4>1, <4>3, <4>5, OnPage
      <4>7. PageSize * p < mem.heap_top + size
        <5>1. PageSize * p \in Nat
          BY <1>0, <4>2
        <5> QED
          BY <1>0, <4>1, <4>2, <5>1
      <4> QED
        BY <2>2, <4>2, <4>6, <4>7 DEF Mapped
    <3> QED
      BY <1>0, <3>1, <3>2
  <2>7. HeapOK(grown, start)
    <3> HIDE DEF grown, new
    <3> QED
      BY <1>0, <2>3, <2>4, <2>5, <2>6 DEF HeapOK
  <2> QED
    BY <2>1, <2>7
<1> QED
  BY <1>1, <1>2

LEMMA SbrkKeepsPages ==
  ASSUME NEW mem, MemoryOK(mem), PagesOK(mem), NEW size \in Nat
  PROVE  PagesOK(Sbrk(mem, size))
<1> DEFINE new == mem.heap_top + size
           m == Map(mem, mem.heap_top, size, TRUE)
           grown == [m EXCEPT !.heap_top = new]
<1>1. CASE size = 0 \/ new >= AddrSpace \/ new > mem.heap_max
  BY <1>1 DEF Sbrk
<1>2. CASE ~ (size = 0 \/ new >= AddrSpace \/ new > mem.heap_max)
  <2>1. Sbrk(mem, size) = grown
    BY <1>2 DEF Sbrk
  <2>2. mem.heap_top \in Nat
    BY DEF MemoryOK
  <2>3. MemoryOK(m) /\ Mapped(m.pages, mem.pages, mem.heap_top, size, TRUE)
    BY <2>2, MapsRange
  <2> HIDE DEF m
  <2>4. grown.pages = m.pages
    BY <2>3 DEF MemoryOK
  <2>5. new \in Nat /\ AddrSpace \in Nat /\ new < AddrSpace /\ PageSize \in Nat
    BY <1>2, <2>2, PVMConstants
  <2>6. ASSUME NEW p \in Nat, PageSize * p < new  PROVE PageSize * p < AddrSpace
    <3>1. PageSize * p \in Int
      <4>1. \A a, b \in Nat : a * b \in Int
        OBVIOUS
      <4> QED
        BY <2>5, <4>1
    <3> HIDE DEF new
    <3> QED
      BY <2>5, <2>6, <3>1
  <2>7. \A p \in DOMAIN m.pages : PageSize * p < AddrSpace
    BY <2>3, <2>6 DEF Mapped, PagesOK
  <2> QED
    BY <2>1, <2>4, <2>7 DEF PagesOK
<1> QED
  BY <1>1, <1>2

LEMMA HeapIsWritableWhenOK ==
  ASSUME HeapOK(memory, heap_start)  PROVE HeapIsWritable
<1>0. /\ memory.heap_top \in Nat /\ memory.heap_max \in Nat /\ heap_start \in Nat
      /\ ZoneSize \in Nat /\ ZoneSize <= heap_start /\ PageSize \in Nat \ {0}
      /\ memory.heap_top <= memory.heap_max
  BY PVMConstants DEF HeapOK, MemoryOK
<1>1. ASSUME NEW x \in heap_start..(memory.heap_top - 1)  PROVE Writable(memory, x)
  <2> DEFINE p == PageOf(x)
             h == PageOf(heap_start)
  <2>1. p \in Nat /\ PageSize * p <= x
    BY <1>0, OnPage
  <2>2. h \in Nat /\ PageSize * h <= heap_start
    BY <1>0, OnPage
  <2>3. PageSize * h \in Nat /\ PageSize * p \in Nat
    BY <1>0, <2>1, <2>2
  <2>4. h <= p
    <3>1. PageSize * h <= x
      BY <1>0, <2>2, <2>3
    <3> QED
      BY <1>0, <2>2, <3>1, OnPage
  <2>5. PageSize * p < memory.heap_max
    BY <1>0, <2>1, <2>3
  <2>6. p \in DOMAIN memory.pages /\ memory.pages[p]
    BY <2>4, <2>5 DEF HeapOK
  <2> QED
    BY <1>0, <2>6 DEF Writable, Readable
<1> QED
  BY <1>0, <1>1 DEF HeapIsWritable

\* Rounding up to a multiple.
LEMMA CeilFacts ==
  ASSUME NEW unit \in Nat \ {0}, NEW x \in Nat
  PROVE  \E c \in Nat : /\ CeilTo(unit, x) = unit * c /\ unit * c \in Nat
                      /\ x <= unit * c /\ unit * c < x + unit
<1> DEFINE y == x + unit - 1
           c == y \div unit
<1>1. y \in Nat
  OBVIOUS
<1>2. c \in Nat /\ ~ (c + 1 <= c)
  BY <1>1, FitsQuotient
<1>3. y < unit * (c + 1)
  <2> HIDE DEF y
  <2>1. c + 1 \in Int /\ (c + 1 <= c <=> unit * (c + 1) <= y)
    BY <1>1, <1>2, FitsQuotient
  <2>2. unit * (c + 1) \in Int
    <3>1. \A a \in Nat, b \in Int : a * b \in Int
      OBVIOUS
    <3> HIDE DEF c
    <3> QED
      BY <1>2, <3>1
  <2> QED
    BY <1>1, <1>2, <2>1, <2>2
<1>4. unit * (c + 1) = unit * c + unit /\ unit * c \in Int
  <2>1. \A a \in Nat, b \in Int : a * (b + 1) = a * b + a /\ a * b \in Int
    OBVIOUS
  <2> HIDE DEF c
  <2> QED
    BY <1>2, <2>1
<1>5. x <= unit * c
  <2> DEFINE uc == unit * c
  <2>1. y < uc + unit /\ uc \in Int
    BY <1>3, <1>4
  <2> HIDE DEF uc
  <2>2. x <= uc
    BY <2>1
  <2> QED
    BY <2>2 DEF uc
<1>6. CeilTo(unit, x) = unit * c
  BY DEF CeilTo
<1>7. unit * c < x + unit /\ unit * c \in Nat
  <2> HIDE DEF y
  <2>1. unit * c <= y
    BY <1>1, <1>2, FitsQuotient
  <2> DEFINE uc == unit * c
  <2>2. uc <= y /\ uc \in Int /\ x <= uc
    BY <1>4, <1>5, <2>1
  <2> HIDE DEF uc
  <2>3. uc < x + unit /\ uc \in Nat
    BY <2>2 DEF y
  <2> QED
    BY <2>3 DEF uc
<1> HIDE DEF c
<1> QED
  BY <1>2, <1>5, <1>6, <1>7

\* Whole pages.
Paged(x) == \E n \in Nat : x = PageSize * n

LEMMA PagedFacts ==
  /\ \A x : Paged(x) => x \in Nat
  /\ \A x, y : Paged(x) /\ Paged(y) => Paged(x + y)
  /\ \A x, y : Paged(x) /\ Paged(y) /\ y <= x => Paged(x - y)
  /\ \A x \in Nat : Paged(x) => \A k \in Nat : Paged(x * k)
  /\ \A x \in Nat : x % PageSize = 0 => Paged(x)
<1>0. PageSize \in Nat \ {0}
  BY PVMConstants
<1>1. \A a \in Nat, b \in Nat : a * b \in Nat
  OBVIOUS
<1>2. \A x : Paged(x) => x \in Nat
  BY <1>0, <1>1 DEF Paged
<1>3. ASSUME NEW x, NEW y, Paged(x), Paged(y)  PROVE Paged(x + y)
  <2>1. PICK n \in Nat : x = PageSize * n
    BY <1>3 DEF Paged
  <2>2. PICK k \in Nat : y = PageSize * k
    BY <1>3 DEF Paged
  <2>3. PageSize * (n + k) = PageSize * n + PageSize * k
    <3>1. \A a, b, c \in Nat : a * (b + c) = a * b + a * c
      OBVIOUS
    <3> QED
      BY <1>0, <3>1
  <2>4. n + k \in Nat
    OBVIOUS
  <2> QED
    BY <2>1, <2>2, <2>3, <2>4 DEF Paged
<1>4. ASSUME NEW x, NEW y, Paged(x), Paged(y), y <= x  PROVE Paged(x - y)
  <2>1. PICK n \in Nat : x = PageSize * n
    BY <1>4 DEF Paged
  <2>2. PICK k \in Nat : y = PageSize * k
    BY <1>4 DEF Paged
  <2>3. PageSize * (n - k) = PageSize * n - PageSize * k
    <3>1. \A a \in Nat : \A b, c \in Int : a * (b - c) = a * b - a * c
      OBVIOUS
    <3> QED
      BY <1>0, <3>1
  <2>4. k <= n
    <3>1. ~ (n + 1 <= k)
      <4>1. ASSUME n + 1 <= k PROVE FALSE
        <5>1. PageSize * (k - (n + 1)) \in Nat
          <6>1. k - (n + 1) \in Nat
            BY <4>1
          <6> QED
            BY <1>0, <1>1, <6>1
        <5>2. PageSize * (k - (n + 1)) = PageSize * k - (PageSize * n + PageSize)
          <6>1. \A a \in Nat : \A b, c \in Int : a * (b - (c + 1)) = a * b - (a * c + a)
            OBVIOUS
          <6> QED
            BY <1>0, <6>1
        <5>3. PageSize * k \in Nat /\ PageSize * n \in Nat
          BY <1>0, <1>1
        <5> QED
          BY <1>0, <1>4, <2>1, <2>2, <5>1, <5>2, <5>3
      <4> QED
        BY <4>1
    <3> QED
      BY <3>1
  <2>5. n - k \in Nat
    BY <2>4
  <2> QED
    BY <2>1, <2>2, <2>3, <2>5 DEF Paged
<1>5. ASSUME NEW x \in Nat, Paged(x), NEW k \in Nat  PROVE Paged(x * k)
  <2>1. PICK n \in Nat : x = PageSize * n
    BY <1>5 DEF Paged
  <2>2. x * k = PageSize * (n * k) /\ n * k \in Nat
    <3>1. \A a, b, c \in Nat : (a * b) * c = a * (b * c)
      OBVIOUS
    <3> QED
      BY <1>0, <1>1, <2>1, <3>1
  <2> QED
    BY <2>2 DEF Paged
<1>6. ASSUME NEW x \in Nat, x % PageSize = 0  PROVE Paged(x)
  <2>1. \A n \in Nat \ {0} : x \div n \in Nat /\ x = n * (x \div n) + (x % n)
    OBVIOUS
  <2>2. x \div PageSize \in Nat /\ x = PageSize * (x \div PageSize) + 0
    BY <1>0, <1>6, <2>1
  <2> DEFINE q == x \div PageSize
  <2>3. q \in Nat /\ x = PageSize * q + 0
    BY <2>2
  <2> HIDE DEF q
  <2>4. x = PageSize * q
    BY <1>0, <1>1, <2>3
  <2> QED
    BY <2>3, <2>4 DEF Paged
<1> QED
  BY <1>2, <1>3, <1>4, <1>5, <1>6

\* Between whole pages there is room for whole pages.
LEMMA PageEnds ==
  ASSUME NEW x, Paged(x), NEW p \in Nat
  PROVE  /\ PageSize * p \in Nat /\ x \in Nat
         /\ PageSize * p < x => PageSize * p + PageSize <= x
         /\ x < PageSize * p + PageSize => x <= PageSize * p
<1>0. PageSize \in Nat \ {0}
  BY PVMConstants
<1>1. PICK n \in Nat : x = PageSize * n
  BY DEF Paged
<1>2. x \div PageSize \in Nat /\ \A k \in Int : k <= x \div PageSize <=> PageSize * k <= x
  <2>1. x \in Nat
    BY PagedFacts
  <2> QED
    BY <1>0, <2>1, FitsQuotient
<1>3. \A a, b \in Nat : a * b \in Nat
  OBVIOUS
<1>4. PageSize * (p + 1) = PageSize * p + PageSize /\ PageSize * (n + 1) = PageSize * n + PageSize
  <2>1. \A a, b \in Nat : a * (b + 1) = a * b + a
    OBVIOUS
  <2> QED
    BY <1>0, <2>1
<1> DEFINE pp == PageSize * p
           pn == PageSize * n
<1>5. pp \in Nat /\ pn \in Nat /\ x = pn
  BY <1>0, <1>1, <1>3
<1>6. \A a, b \in Nat : a + 1 <= b => PageSize * a + PageSize <= PageSize * b
  <2> TAKE a, b \in Nat
  <2> HAVE a + 1 <= b
  <2>1. PageSize * (b - (a + 1)) \in Nat
    <3>1. b - (a + 1) \in Nat
      OBVIOUS
    <3> QED
      BY <1>0, <1>3, <3>1
  <2>2. PageSize * (b - (a + 1)) = PageSize * b - (PageSize * a + PageSize)
    <3>1. \A g \in Nat : \A h, c \in Int : g * (h - (c + 1)) = g * h - (g * c + g)
      OBVIOUS
    <3> QED
      BY <1>0, <3>1
  <2>3. PageSize * a \in Nat /\ PageSize * b \in Nat
    BY <1>0, <1>3
  <2> QED
    BY <1>0, <2>1, <2>2, <2>3
<1>7. p + 1 <= n => pp + PageSize <= pn
  BY <1>6
<1>8. n + 1 <= p => pn + PageSize <= pp
  BY <1>6
<1>9. n = p => pn = pp
  OBVIOUS
<1> HIDE DEF pp, pn
<1>10. (pp < pn => pp + PageSize <= pn) /\ (pn < pp + PageSize => pn <= pp)
  BY <1>0, <1>5, <1>7, <1>8, <1>9
<1> QED
  BY <1>5, <1>10 DEF pp, pn

LEMMA PagedWithin ==
  ASSUME NEW x, NEW y, Paged(x), Paged(y), x < y + PageSize
  PROVE  x <= y
<1>1. PICK n \in Nat : y = PageSize * n
  BY DEF Paged
<1>2. x < PageSize * n + PageSize => x <= PageSize * n
  BY PageEnds
<1> QED
  BY <1>1, <1>2

LEMMA CeilIsPaged ==
  ASSUME NEW unit \in Nat \ {0}, Paged(unit), NEW x \in Nat
  PROVE  /\ CeilTo(unit, x) \in Nat /\ Paged(CeilTo(unit, x))
         /\ x <= CeilTo(unit, x) /\ CeilTo(unit, x) < x + unit
<1>1. PICK c \in Nat : /\ CeilTo(unit, x) = unit * c /\ unit * c \in Nat
                       /\ x <= unit * c /\ unit * c < x + unit
  BY CeilFacts
<1>2. Paged(unit * c)
  BY PagedFacts
<1> QED
  BY <1>1, <1>2

\* No page is read-only between the first break and the end of the heap's zone.
HeapPages(pages, start, end) ==
  \A p \in DOMAIN pages : PageOf(start) <= p /\ PageSize * p < end => pages[p]

LEMMA MappingKeepsHeap ==
  ASSUME NEW new, NEW old, NEW address, NEW length, NEW writable \in BOOLEAN, NEW start, NEW end,
         Mapped(new, old, address, length, writable), HeapPages(old, start, end),
         writable \/ \A p \in Nat : PageOf(address) <= p /\ PageSize * p < address + length
                                 /\ PageOf(start) <= p => ~ (PageSize * p < end)
  PROVE  HeapPages(new, start, end)
<1> SUFFICES ASSUME NEW p \in DOMAIN new, PageOf(start) <= p, PageSize * p < end
             PROVE  new[p]
  BY DEF HeapPages
<1>1. CASE p \in DOMAIN old
  BY <1>1 DEF Mapped, HeapPages
<1>2. CASE p \notin DOMAIN old
  <2>1. p \in Nat /\ PageOf(address) <= p /\ PageSize * p < address + length /\ new[p] = writable
    BY <1>2 DEF Mapped
  <2> QED
    BY <2>1
<1> QED
  BY <1>1, <1>2

LEMMA MappingKeepsPages ==
  ASSUME NEW new, NEW old, NEW address \in Nat, NEW length \in Nat, NEW writable,
         Mapped(new.pages, old.pages, address, length, writable),
         address + length <= AddrSpace, PagesOK(old)
  PROVE  PagesOK(new)
<1>1. PageSize \in Nat /\ AddrSpace \in Nat
  BY PVMConstants
<1>2. ASSUME NEW p \in Nat, PageSize * p < address + length  PROVE PageSize * p < AddrSpace
  <2>1. PageSize * p \in Int
    <3>1. \A a, b \in Nat : a * b \in Int
      OBVIOUS
    <3> QED
      BY <1>1, <3>1
  <2> QED
    BY <1>1, <1>2, <2>1
<1> QED
  BY <1>2 DEF Mapped, PagesOK

\* The standard layout, whatever the sizes: read-only data ends before the heap
\* begins, the arguments begin after its zone ends, and end before the address
\* space does.
LEMMA LayoutIsOK ==
  ASSUME NEW l \in Layouts, NEW mem, mem = Start(l)
  PROVE  HeapOK(mem, mem.heap_top) /\ PagesOK(mem)
<1>1. mem = Spi(l.olen, l.wlen, l.z, l.s, l.args)
  BY DEF Start
<1> DEFINE o == CeilTo(PageSize, l.olen)
           zo == CeilTo(ZoneSize, l.olen)
           wbase == HeapBase(l.olen)
           w == CeilTo(PageSize, l.wlen)
           zp == l.z * PageSize
           rw == w + zp
           zw == CeilTo(ZoneSize, l.wlen + zp)
           s == CeilTo(PageSize, l.s)
           a == CeilTo(PageSize, l.args)
           stackTop == AddrSpace - 2 * ZoneSize - InputSize
           abase == AddrSpace - ZoneSize - InputSize
<1>2. /\ l.olen \in Nat /\ l.wlen \in Nat /\ l.z \in Nat /\ l.s \in Nat /\ l.args \in Nat
      /\ wbase + zw <= stackTop - s /\ l.args <= InputSize
  BY LayoutConstants
<1>3. /\ PageSize \in Nat \ {0} /\ ZoneSize \in Nat \ {0} /\ AddrSpace \in Nat /\ InputSize \in Nat
      /\ Paged(PageSize) /\ Paged(ZoneSize) /\ Paged(InputSize) /\ Paged(AddrSpace)
  <2>1. /\ PageSize \in Nat \ {0} /\ ZoneSize \in Nat \ {0} /\ AddrSpace \in Nat /\ InputSize \in Nat
        /\ ZoneSize % PageSize = 0 /\ InputSize % PageSize = 0 /\ AddrSpace % PageSize = 0
    BY PVMConstants, LayoutConstants
  <2>2. PageSize = PageSize * 1
    BY <2>1
  <2> QED
    BY <2>1, <2>2, PagedFacts DEF Paged
<1>4. zp \in Nat /\ Paged(zp)
  <2>1. \A b, c \in Nat : b * c = c * b /\ b * c \in Nat
    OBVIOUS
  <2>2. zp = PageSize * l.z /\ zp \in Nat
    BY <1>2, <1>3, <2>1
  <2> QED
    BY <1>2, <2>2 DEF Paged
<1>5. /\ o \in Nat /\ Paged(o) /\ o < l.olen + PageSize
      /\ w \in Nat /\ Paged(w) /\ w < l.wlen + PageSize
      /\ s \in Nat /\ Paged(s) /\ a \in Nat /\ Paged(a) /\ a < l.args + PageSize
  BY <1>2, <1>3, CeilIsPaged
<1>6. zo \in Nat /\ Paged(zo) /\ l.olen <= zo
  BY <1>2, <1>3, CeilIsPaged
<1>7. zw \in Nat /\ Paged(zw) /\ l.wlen + zp <= zw
  <2>1. l.wlen + zp \in Nat
    BY <1>2, <1>4
  <2> HIDE DEF zp
  <2> QED
    BY <1>3, <2>1, CeilIsPaged
<1>8. wbase = ZoneSize + ZoneSize + zo /\ wbase \in Nat /\ Paged(wbase)
  <2>1. wbase = ZoneSize + ZoneSize + zo
    BY <1>3, <1>6 DEF HeapBase
  <2>2. Paged(ZoneSize + ZoneSize + zo)
    BY <1>3, <1>6, PagedFacts
  <2> QED
    BY <1>3, <1>6, <2>1, <2>2
<1>9. rw \in Nat /\ Paged(rw) /\ rw < l.wlen + zp + PageSize
  <2> HIDE DEF w, zp
  <2>1. Paged(w + zp)
    BY <1>4, <1>5, PagedFacts
  <2>2. w + zp \in Nat /\ w + zp < l.wlen + zp + PageSize
    BY <1>2, <1>3, <1>4, <1>5
  <2> QED
    BY <2>1, <2>2
<1> HIDE DEF o, zo, wbase, w, zp, rw, zw, s, a
<1>10. rw <= zw
  <2>1. rw < zw + PageSize
    BY <1>2, <1>3, <1>4, <1>7, <1>9
  <2> QED
    BY <1>7, <1>9, <2>1, PagedWithin
<1>11. /\ stackTop - s \in Nat /\ abase \in Nat /\ Paged(abase)
       /\ wbase + zw <= abase
  <2>1. stackTop - s \in Nat /\ wbase + zw <= abase /\ abase \in Nat
    BY <1>2, <1>3, <1>5, <1>7, <1>8
  <2>2. Paged(AddrSpace - ZoneSize)
    <3>1. ZoneSize <= AddrSpace
      BY <1>2, <1>3, <1>5, <1>7, <1>8
    <3> QED
      BY <1>3, <3>1, PagedFacts
  <2>3. Paged(AddrSpace - ZoneSize - InputSize)
    <3>1. InputSize <= AddrSpace - ZoneSize
      BY <1>2, <1>3, <1>5, <1>7, <1>8
    <3> QED
      BY <1>3, <2>2, <3>1, PagedFacts
  <2> QED
    BY <2>1, <2>3
<1> DEFINE top == wbase + rw
           end == wbase + zw
           none == [pages |-> [p \in {} |-> FALSE], heap_top |-> top, heap_max |-> end]
           ro == Map(none, ZoneSize, o, FALSE)
           data == Map(ro, wbase, rw, TRUE)
           stack == Map(data, stackTop - s, s, TRUE)
           full == Map(stack, abase, a, FALSE)
<1>12. mem = full
  BY <1>1 DEF Spi, o, wbase, w, zp, rw, zw, s, a
<1>13. top \in Nat /\ end \in Nat /\ top <= end /\ ZoneSize <= top
  BY <1>3, <1>6, <1>7, <1>8, <1>9, <1>10
\* Each of the ranges ends in the address space.
<1>25. ZoneSize + o <= top
  <2>1. PageSize <= ZoneSize
    <3>1. PageSize * 0 < ZoneSize => PageSize * 0 + PageSize <= ZoneSize
      BY <1>3, PageEnds
    <3>2. PageSize * 0 = 0
      BY <1>3
    <3> QED
      BY <1>3, <3>1, <3>2
  <2> QED
    BY <1>2, <1>3, <1>5, <1>6, <1>8, <1>9, <2>1
<1>26. a <= InputSize
  <2>1. a < InputSize + PageSize
    BY <1>2, <1>3, <1>5
  <2> QED
    BY <1>3, <1>5, <2>1, PagedWithin
<1>27. /\ ZoneSize + o <= AddrSpace /\ wbase + rw <= AddrSpace
       /\ (stackTop - s) + s <= AddrSpace /\ abase + a <= AddrSpace
  <2>1. end <= abase /\ abase <= AddrSpace
    BY <1>3, <1>11
  <2>2. wbase + rw <= AddrSpace
    BY <1>3, <1>7, <1>8, <1>9, <1>10, <1>11, <2>1
  <2>3. ZoneSize + o <= AddrSpace
    BY <1>3, <1>5, <1>13, <1>25, <2>2
  <2>4. (stackTop - s) + s <= AddrSpace
    BY <1>3, <1>5
  <2>5. abase + a <= AddrSpace
    BY <1>3, <1>5, <1>26
  <2> QED
    BY <2>2, <2>3, <2>4, <2>5
<1>14. MemoryOK(none) /\ HeapPages(none.pages, top, end) /\ PagesOK(none)
  <2>1. [p \in {} |-> FALSE] \in [{} -> BOOLEAN]
    OBVIOUS
  <2>2. [p \in {} |-> FALSE] \in PageMaps
    BY <2>1 DEF PageMaps
  <2>3. IsFiniteSet({})
    BY FS_EmptySet
  <2> HIDE DEF top, end
  <2> QED
    BY <1>13, <2>2, <2>3 DEF MemoryOK, HeapPages, PagesOK
<1> HIDE DEF none
<1>15. none.heap_top = top /\ none.heap_max = end
  BY DEF none
<1>16. /\ MemoryOK(ro) /\ ro.heap_top = top /\ ro.heap_max = end
       /\ Mapped(ro.pages, none.pages, ZoneSize, o, FALSE)
  <2>1. MapDone(ro, none, ZoneSize, o, FALSE)
    <3>1. MemoryOK(none) /\ ZoneSize \in Nat /\ o \in Nat /\ FALSE \in BOOLEAN
      BY <1>3, <1>5, <1>14
    <3> HIDE DEF stackTop, abase
    <3> QED
      BY <3>1, MapIsDone, Zenon DEF ro
  <2> HIDE DEF ro
  <2> QED
    BY <1>15, <2>1 DEF MapDone
<1>17. HeapPages(ro.pages, top, end)
  <2>1. ASSUME NEW p \in Nat, PageSize * p < ZoneSize + o, PageOf(top) <= p  PROVE FALSE
    <3>1. Paged(ZoneSize + o)
      BY <1>3, <1>5, PagedFacts
    <3>2. PageSize * p + PageSize <= ZoneSize + o /\ PageSize * p \in Nat
      BY <2>1, <3>1, PageEnds
    <3>3. top < PageSize * p + PageSize
      <4> HIDE DEF top
      <4> QED
        BY <1>13, <2>1, OnPage
    <3> HIDE DEF top
    <3> QED
      BY <1>3, <1>5, <1>13, <1>25, <3>2, <3>3
  <2>2. \A p \in Nat : PageOf(ZoneSize) <= p /\ PageSize * p < ZoneSize + o /\ PageOf(top) <= p
                     => ~ (PageSize * p < end)
    BY <2>1
  <2> HIDE DEF top, end, ro
  <2> QED
    BY <1>14, <1>16, <2>2, MappingKeepsHeap
<1> HIDE DEF ro, top, end
<1>18. /\ MemoryOK(data) /\ data.heap_top = top /\ data.heap_max = end
       /\ Mapped(data.pages, ro.pages, wbase, rw, TRUE)
  <2>1. MapDone(data, ro, wbase, rw, TRUE)
    <3>1. MemoryOK(ro) /\ wbase \in Nat /\ rw \in Nat /\ TRUE \in BOOLEAN
      BY <1>8, <1>9, <1>16
    <3> HIDE DEF stackTop, abase
    <3> QED
      BY <3>1, MapIsDone, Zenon DEF data
  <2> HIDE DEF data
  <2> QED
    BY <1>15, <1>16, <2>1 DEF MapDone
<1> HIDE DEF data
<1>19. HeapPages(data.pages, top, end)
  BY <1>17, <1>18, MappingKeepsHeap
<1>20. /\ MemoryOK(stack) /\ stack.heap_top = top /\ stack.heap_max = end
       /\ Mapped(stack.pages, data.pages, stackTop - s, s, TRUE)
  <2>1. MapDone(stack, data, stackTop - s, s, TRUE)
    <3>1. MemoryOK(data) /\ stackTop - s \in Nat /\ s \in Nat /\ TRUE \in BOOLEAN
      BY <1>5, <1>11, <1>18
    <3> HIDE DEF stackTop, abase
    <3> QED
      BY <3>1, MapIsDone, Zenon DEF stack
  <2> HIDE DEF stack
  <2> QED
    BY <1>15, <1>18, <2>1 DEF MapDone
<1> HIDE DEF stack
<1>21. HeapPages(stack.pages, top, end)
  BY <1>19, <1>20, MappingKeepsHeap
<1>22. /\ MemoryOK(full) /\ full.heap_top = top /\ full.heap_max = end
       /\ Mapped(full.pages, stack.pages, abase, a, FALSE)
  <2>1. MapDone(full, stack, abase, a, FALSE)
    <3>1. MemoryOK(stack) /\ abase \in Nat /\ a \in Nat /\ FALSE \in BOOLEAN
      BY <1>5, <1>11, <1>20
    <3> HIDE DEF stackTop, abase
    <3> QED
      BY <3>1, MapIsDone, Zenon DEF full
  <2> HIDE DEF full
  <2> QED
    BY <1>15, <1>20, <2>1 DEF MapDone
<1> HIDE DEF full
<1>23. HeapPages(full.pages, top, end)
  <2>1. ASSUME NEW p \in Nat, PageOf(abase) <= p, PageSize * p < end  PROVE FALSE
    <3>1. abase < PageSize * p + PageSize
      BY <1>11, <2>1, OnPage
    <3>2. abase <= PageSize * p /\ PageSize * p \in Nat
      BY <1>11, <3>1, PageEnds
    <3> QED
      BY <1>11, <1>13, <2>1, <3>2 DEF end
  <2>2. \A p \in Nat : PageOf(abase) <= p /\ PageSize * p < abase + a /\ PageOf(top) <= p
                     => ~ (PageSize * p < end)
    BY <2>1
  <2> HIDE DEF abase
  <2> QED
    BY <1>21, <1>22, <2>2, MappingKeepsHeap
<1>24. HeapOK(full, full.heap_top)
  <2>1. \A x \in top..(top - 1) : FALSE
    BY <1>13
  <2> QED
    BY <1>3, <1>13, <1>22, <1>23, <2>1 DEF HeapOK, HeapPages
\* Mapping by mapping, the pages stay in the address space.
<1>28. PagesOK(full)
  <2> HIDE DEF stackTop, abase
  <2>1. ZoneSize \in Nat /\ abase \in Nat /\ a \in Nat /\ stackTop - s \in Nat /\ s \in Nat
        /\ wbase \in Nat /\ rw \in Nat /\ o \in Nat
    BY <1>3, <1>5, <1>8, <1>9, <1>11
  <2>2. PagesOK(ro)
    BY <1>14, <1>16, <1>27, <2>1, MappingKeepsPages
  <2>3. PagesOK(data)
    BY <1>18, <1>27, <2>1, <2>2, MappingKeepsPages
  <2>4. PagesOK(stack)
    <3> DEFINE b == stackTop - s
    <3>1. /\ b \in Nat /\ s \in Nat /\ b + s <= AddrSpace
          /\ Mapped(stack.pages, data.pages, b, s, TRUE)
      BY <1>20, <1>27, <2>1
    <3> HIDE DEF b
    <3> QED
      BY <2>3, <3>1, MappingKeepsPages
  <2> QED
    BY <1>22, <1>27, <2>1, <2>4, MappingKeepsPages
<1> QED
  BY <1>12, <1>24, <1>28

\* Only sbrk changes the memory.
LEMMA MemorySteps ==
  ASSUME [Next]_vars
  PROVE  /\ heap_start' = heap_start
         /\ memory' = memory \/ \E size \in 0..AddrSpace - 1 : memory' = Sbrk(memory, size)
<1> USE DEF Charge
<1>1. ASSUME NEW target, Jump(target)  PROVE heap_start' = heap_start /\ memory' = memory
  BY <1>1 DEF Jump, GoTo, Stop
<1>2. CASE UNCHANGED vars
  BY <1>2 DEF vars
<1>3. CASE OutOfGas
  BY <1>3 DEF OutOfGas
<1>4. CASE Plain \/ Trap \/ Access \/ Ecalli
  BY <1>4 DEF Plain, Trap, Access, Ecalli, Proceed, Stop
<1>5. CASE SbrkCall
  BY <1>5 DEF SbrkCall, Proceed
<1>6. CASE Fallthrough \/ StaticJump
  BY <1>1, <1>6 DEF Fallthrough, StaticJump
<1>7. CASE Branch
  BY <1>7 DEF Branch, GoTo, Stop
<1>8. CASE DynamicJump
  BY <1>1, <1>8 DEF DynamicJump, Stop
<1>9. CASE Host
  BY <1>9 DEF Host
<1> QED
  BY <1>2, <1>3, <1>4, <1>5, <1>6, <1>7, <1>8, <1>9 DEF Next

MemoryInv == HeapOK(memory, heap_start) /\ PagesOK(memory)

LEMMA HeapStaysOK == Spec => []MemoryInv
<1>1. Init => MemoryInv
  <2> SUFFICES ASSUME Init  PROVE MemoryInv
    OBVIOUS
  <2>1. program.layout \in Layouts /\ memory = Start(program.layout)
        /\ heap_start = memory.heap_top
    BY DEF Init, Layouts
  <2> QED
    BY <2>1, LayoutIsOK DEF MemoryInv
<1>2. MemoryInv /\ [Next]_vars => MemoryInv'
  <2> SUFFICES ASSUME MemoryInv, [Next]_vars
               PROVE  HeapOK(memory', heap_start') /\ PagesOK(memory')
    BY DEF MemoryInv
  <2>1. CASE memory' = memory
    BY <2>1, MemorySteps DEF MemoryInv
  <2>2. ASSUME NEW size \in 0..AddrSpace - 1, memory' = Sbrk(memory, size)
        PROVE  HeapOK(memory', heap_start') /\ PagesOK(memory')
    <3>1. size \in Nat
      OBVIOUS
    <3>2. MemoryOK(memory)
      BY DEF MemoryInv, HeapOK
    <3> QED
      BY <2>2, <3>1, <3>2, MemorySteps, SbrkKeepsHeap, SbrkKeepsPages DEF MemoryInv
  <2> QED
    BY <2>1, <2>2, MemorySteps
<1> QED
  BY <1>1, <1>2, PTL DEF Spec

\* What sbrk handed out can be written, whatever sizes were asked for, from any
\* standard layout (pvm.rs 67-91, accumulate_exec.rs 123-129).
THEOREM HeapStaysWritable == Spec => []HeapIsWritable
<1>1. MemoryInv => HeapIsWritable
  BY HeapIsWritableWhenOK DEF MemoryInv
<1> QED
  BY <1>1, HeapStaysOK, PTL

\* A byte is accessible exactly if the start of its page is: the zone that
\* nobody may access ends with a page.
LEMMA AccessByPage ==
  ASSUME NEW mem, NEW x \in Nat, NEW write \in BOOLEAN
  PROVE  Accessible(mem, x, write) <=> Accessible(mem, PageOf(x) * PageSize, write)
<1> DEFINE p == PageOf(x)
           start == p * PageSize
<1>1. PageSize \in Nat \ {0} /\ ZoneSize \in Nat /\ Paged(ZoneSize)
  BY PVMConstants, LayoutConstants, PagedFacts
<1>2. p \in Nat /\ PageSize * p <= x /\ x < PageSize * p + PageSize
  BY OnPage
<1>3. start = PageSize * p /\ start \in Nat
  <2>1. \A a, b \in Nat : a * b = b * a /\ a * b \in Nat
    OBVIOUS
  <2> HIDE DEF p
  <2> QED
    BY <1>1, <1>2, <2>1
<1>4. PageOf(start) = p
  <2> DEFINE q == PageOf(start)
  <2>1. q \in Nat /\ (p <= q <=> PageSize * p <= start)
        /\ (p >= q <=> start < PageSize * p + PageSize)
    <3> HIDE DEF p, start
    <3> QED
      BY <1>2, <1>3, OnPage
  <2> HIDE DEF p, q, start
  <2>2. p <= q /\ p >= q
    BY <1>1, <1>3, <2>1
  <2>3. p = q
    BY <1>2, <2>1, <2>2
  <2> QED
    BY <2>3 DEF q
<1>5. x >= ZoneSize <=> start >= ZoneSize
  <2>1. ZoneSize < PageSize * p + PageSize => ZoneSize <= PageSize * p
    <3> HIDE DEF p
    <3> QED
      BY <1>1, <1>2, PageEnds
  <2> HIDE DEF p, start
  <2> QED
    BY <1>1, <1>2, <1>3, <2>1
<1>6. Accessible(mem, x, write) <=> Accessible(mem, start, write)
  <2> HIDE DEF start
  <2> QED
    BY <1>4, <1>5 DEF Accessible, Writable, Readable
<1> QED
  BY <1>6

\* Every byte of a range is accessible; every page that it meets is.
BytesOk(mem, address, end, write) ==
  \A x \in address..end : Accessible(mem, x, write)

RangePagesOk(mem, address, end, write) ==
  \A p \in PageOf(address)..PageOf(end) : Accessible(mem, p * PageSize, write)

LEMMA BytesByPage ==
  ASSUME NEW mem, NEW address \in Nat, NEW end \in Nat, address <= end,
         NEW write \in BOOLEAN
  PROVE  BytesOk(mem, address, end, write) <=> RangePagesOk(mem, address, end, write)
<1> DEFINE first == PageOf(address)
           final == PageOf(end)
           Bytes == \A x \in address..end : Accessible(mem, x, write)
           PageWise == \A p \in first..final : Accessible(mem, p * PageSize, write)
<1>0. PageSize \in Nat \ {0}
  BY PVMConstants
<1>1. end \in Nat /\ address <= end /\ first \in Nat /\ final \in Nat
  BY OnPage
<1>2. \A x \in address..end : PageOf(x) \in first..final
  <2> TAKE x \in address..end
  <2>1. x \in Nat /\ PageOf(x) \in Nat
    BY <1>1, OnPage
  <2>2. PageSize * first <= address /\ PageSize * PageOf(x) <= x
        /\ PageSize * first \in Nat /\ PageSize * PageOf(x) \in Nat
    <3>1. \A a, b \in Nat : a * b \in Nat
      OBVIOUS
    <3>2. PageSize * PageOf(address) <= address
      BY <1>1, OnPage
    <3>3. PageSize * PageOf(x) <= x
      BY <2>1, OnPage
    <3> QED
      BY <1>0, <1>1, <2>1, <3>1, <3>2, <3>3
  <2>3. first <= PageOf(x)
    <3>1. PageSize * first <= x
      BY <2>1, <2>2
    <3> HIDE DEF first
    <3> QED
      BY <1>1, <2>1, <3>1, OnPage
  <2>4. PageOf(x) <= final
    <3>1. PageSize * PageOf(x) <= end
      BY <1>1, <2>1, <2>2
    <3> QED
      BY <1>1, <2>1, <3>1, OnPage
  <2> HIDE DEF first, final
  <2> QED
    BY <1>1, <2>1, <2>3, <2>4
<1>3. \A p \in first..final : \E x \in address..end : PageOf(x) = p
  <2> TAKE p \in first..final
  <2> DEFINE pp == PageSize * p
  <2>1. p \in Nat /\ pp \in Nat
    <3>1. \A a, b \in Nat : a * b \in Nat
      OBVIOUS
    <3>2. p \in Nat
      <4> HIDE DEF first, final
      <4> QED
        BY <1>1
    <3> QED
      BY <1>0, <3>1, <3>2
  <2>2. pp <= end /\ address < pp + PageSize
    BY <1>1, <2>1, OnPage
  <2> HIDE DEF pp
  <2>3. PICK x \in address..end : pp <= x /\ x < pp + PageSize
    <3>1. CASE pp <= address
      BY <1>0, <1>1, <2>1, <2>2, <3>1
    <3>2. CASE address < pp
      BY <1>0, <1>1, <2>1, <2>2, <3>2
    <3> QED
      BY <2>1, <3>1, <3>2
  <2>4. x \in Nat /\ PageOf(x) \in Nat
        /\ (p <= PageOf(x) <=> pp <= x) /\ (p >= PageOf(x) <=> x < pp + PageSize)
    BY <1>1, <2>1, OnPage DEF pp
  <2>5. PageOf(x) = p
    BY <2>1, <2>3, <2>4
  <2> QED
    BY <2>5
<1>4. Bytes <=> PageWise
  <2>1. ASSUME Bytes, NEW p \in first..final  PROVE Accessible(mem, p * PageSize, write)
    BY <1>1, <1>3, <2>1, AccessByPage
  <2>2. ASSUME PageWise, NEW x \in address..end  PROVE Accessible(mem, x, write)
    <3>1. x \in Nat
      BY <1>1
    <3> QED
      BY <1>2, <2>2, <3>1, AccessByPage
  <2> QED
    BY <2>1, <2>2
<1> QED
  BY <1>4 DEF BytesOk, RangePagesOk

\* A range whose pages are accessible has no more pages than there are.
LEMMA RangePagesFit ==
  ASSUME NEW mem, MemoryOK(mem), NEW address \in Nat, NEW end \in Nat, address <= end,
         NEW write \in BOOLEAN, RangePagesOk(mem, address, end, write)
  PROVE  PageOf(end) - PageOf(address) + 1 <= Cardinality(DOMAIN mem.pages)
<1> DEFINE first == PageOf(address)
           final == PageOf(end)
           PageWise == \A p \in first..final : Accessible(mem, p * PageSize, write)
<1>0. PageSize \in Nat \ {0}
  BY PVMConstants
<1>1. end \in Nat /\ address <= end /\ first \in Nat /\ final \in Nat
  BY OnPage
<1>5. PageWise => final - first + 1 <= Cardinality(DOMAIN mem.pages)
  <2> SUFFICES ASSUME PageWise PROVE final - first + 1 <= Cardinality(DOMAIN mem.pages)
    OBVIOUS
  <2>1. ASSUME NEW p \in Nat, p \in first..final  PROVE p \in DOMAIN mem.pages
    <3> DEFINE pp == PageSize * p
               q == PageOf(pp)
    <3>1. pp \in Nat /\ p * PageSize = pp
      <4>1. \A a, b \in Nat : a * b \in Nat /\ a * b = b * a
        OBVIOUS
      <4> QED
        BY <1>0, <4>1
    <3>2. PageOf(pp) \in DOMAIN mem.pages
      <4>1. Accessible(mem, pp, write)
        BY <2>1, <3>1
      <4> QED
        BY <4>1 DEF Accessible, Writable, Readable
    <3>3. q \in Nat /\ (p <= q <=> PageSize * p <= pp) /\ (p >= q <=> pp < PageSize * p + PageSize)
      <4> HIDE DEF pp
      <4> QED
        BY <3>1, OnPage
    <3>4. (p <= q <=> pp <= pp) /\ (p >= q <=> pp < pp + PageSize)
      BY <3>3
    <3> HIDE DEF pp, q
    <3>5. p = q
      BY <1>0, <3>1, <3>3, <3>4
    <3> QED
      BY <3>2, <3>5 DEF q
  <2> HIDE DEF first, final
  <2>6. first..final \subseteq DOMAIN mem.pages
    BY <1>1, <2>1
  <2>2. IsFiniteSet(DOMAIN mem.pages) /\ Cardinality(first..final) <= Cardinality(DOMAIN mem.pages)
    BY <2>6, FS_Subset DEF MemoryOK
  <2>3. first <= final => Cardinality(first..final) = final - first + 1
    BY <1>1, FS_Interval
  <2>4. Cardinality(DOMAIN mem.pages) \in Nat
    BY <2>2, FS_CardinalityType
  <2>5. first > final => final - first + 1 <= 0
    BY <1>1
  <2> QED
    BY <1>1, <2>2, <2>3, <2>4, <2>5
<1> QED
  BY <1>5 DEF RangePagesOk

\* Nor has a range more pages than bytes.
LEMMA PagesOfRange ==
  ASSUME NEW address \in Nat, NEW end \in Nat, address <= end
  PROVE  PageOf(end) - PageOf(address) + 1 \in 1..(end - address + 1)
<1> DEFINE first == PageOf(address)
           final == PageOf(end)
           d == final - first
<1>0. PageSize \in Nat \ {0}
  BY PVMConstants
<1>1. first \in Nat /\ final \in Nat
  BY OnPage
<1>2. PageSize * first <= address /\ address < PageSize * first + PageSize
      /\ PageSize * final <= end
  BY <1>1, OnPage
<1>3. PageSize * first \in Nat /\ PageSize * final \in Nat
      /\ PageSize * final = PageSize * first + PageSize * d
  <2>1. \A n \in Nat : \A a, b \in Nat :
          n * a \in Nat /\ n * b \in Nat /\ n * b = n * a + n * (b - a)
    OBVIOUS
  <2> HIDE DEF first, final
  <2> QED
    BY <1>0, <1>1, <2>1
<1>4. first <= final
  <2> HIDE DEF first
  <2>1. PageSize * first <= end
    BY <1>2, <1>3
  <2> QED
    BY <1>1, <2>1, OnPage
<1>5. PageSize * d >= PageSize + d - 1 \/ d = 0
  <2>1. d \in Nat
    <3> HIDE DEF first, final
    <3> QED
      BY <1>1, <1>4
  <2>2. \A n \in Nat \ {0}, k \in Nat : n * k >= n + k - 1 \/ k = 0
    <3> TAKE n \in Nat \ {0}, k \in Nat
    <3>1. k # 0 => (n - 1) * (k - 1) \in Nat
      <4>1. \A a, b \in Nat : a * b \in Nat
        OBVIOUS
      <4>2. k # 0 => n - 1 \in Nat /\ k - 1 \in Nat
        OBVIOUS
      <4> QED
        BY <4>1, <4>2
    <3>2. (n - 1) * (k - 1) = n * k - n - k + 1
      OBVIOUS
    <3>3. n * k \in Int
      OBVIOUS
    <3> QED
      BY <3>1, <3>2, <3>3
  <2> HIDE DEF d
  <2> QED
    BY <1>0, <2>1, <2>2
<1> DEFINE pf == PageSize * first
           pl == PageSize * final
           pd == PageSize * d
<1>6. /\ pf \in Nat /\ pl \in Nat /\ pd \in Int /\ pl = pf + pd /\ pf <= address
      /\ address < pf + PageSize /\ pl <= end /\ d \in Nat
      /\ (pd >= PageSize + d - 1 \/ d = 0)
  <2>1. d \in Nat
    <3> HIDE DEF first, final
    <3> QED
      BY <1>1, <1>4
  <2>2. pd \in Int
    <3>1. \A a, b \in Nat : a * b \in Int
      OBVIOUS
    <3> HIDE DEF d
    <3> QED
      BY <1>0, <2>1, <3>1
  <2> QED
    BY <1>2, <1>3, <1>5, <2>1, <2>2
<1> HIDE DEF pf, pl, pd, d
<1>7. d + 1 \in 1..(end - address + 1)
  BY <1>0, <1>6
<1> QED
  BY <1>7 DEF d

\* The page check of a range whose end is a u64: neither its difference of
\* pages wraps, nor is a range refused for its length that its pages allow.
LEMMA RangeOkIs ==
  ASSUME NEW mem, MemoryOK(mem), NEW address \in Nat, NEW len \in 1..(Word - 1),
         NEW write \in BOOLEAN, address + len <= Word
  PROVE  RangeOk(mem, address, len, write)
           <=> RangePagesOk(mem, address, address + len - 1, write)
<1> DEFINE end == address + len - 1
           pages == PageOf(end) - PageOf(address) + 1
<1>1. /\ Word \in Nat \ {0} /\ len \in Nat /\ len # 0 /\ len < Word
      /\ end \in Nat /\ address <= end /\ end < Word /\ end - address + 1 = len
  BY WordFacts
<1>2. \A n \in Nat \ {0}, y \in Nat : y < n => y % n = y
  OBVIOUS
<1> HIDE DEF end
<1>3. end % Word = end
  BY <1>1, <1>2
<1>4. pages \in 1..len
  BY <1>1, PagesOfRange
<1> HIDE DEF pages
<1>5. pages % Word = pages
  <2>1. pages \in Nat /\ pages < Word
    BY <1>1, <1>4
  <2> QED
    BY <1>1, <1>2, <2>1
<1>6. RangeOk(mem, address, len, write)
        <=> /\ pages <= Cardinality(DOMAIN mem.pages)
            /\ RangePagesOk(mem, address, end, write)
  <2>1. (address + len - 1) % Word = end
    BY <1>3 DEF end
  <2>2. (PageOf((address + len - 1) % Word) - PageOf(address) + 1) % Word = pages
    BY <1>5, <2>1 DEF pages
  <2> QED
    BY <1>1, <2>1, <2>2 DEF RangeOk, RangePagesOk
<1>7. RangePagesOk(mem, address, end, write) => pages <= Cardinality(DOMAIN mem.pages)
  BY <1>1, RangePagesFit DEF pages
<1> QED
  BY <1>6, <1>7 DEF end

\* Inside the address space the check of the bytes is no more than that.
LEMMA CheckIs ==
  ASSUME NEW mem, NEW address \in Nat, NEW len \in Nat, NEW write \in BOOLEAN,
         address + len <= AddrSpace
  PROVE  Check(mem, address, len, write) = "Ok"
           <=> BytesOk(mem, address, address + len - 1, write)
<1> DEFINE end == address + len - 1
           Bytes == \A x \in address..end : Accessible(mem, x, write)
<1>0. AddrSpace \in Nat \ {0}
  BY PVMConstants
<1> DEFINE Bad == {x \in {(address + k) % AddrSpace : k \in 0..(len - 1)} :
                     ~Accessible(mem, x, write)}
<1>1. \A k \in 0..(len - 1) : (address + k) % AddrSpace = address + k
  <2>1. \A n \in Nat \ {0}, y \in Nat : y < n => y % n = y
    OBVIOUS
  <2> TAKE k \in 0..(len - 1)
  <2>2. address + k \in Nat /\ address + k < AddrSpace
    BY <1>0
  <2> QED
    BY <1>0, <2>1, <2>2
<1>2. \A x \in address..end : \E k \in 0..(len - 1) : x = address + k
  <2> TAKE x \in address..end
  <2>1. x - address \in 0..(len - 1) /\ x = address + (x - address)
    OBVIOUS
  <2> QED
    BY <2>1
<1>3. Bad = {} <=> Bytes
  <2>1. ASSUME Bad = {}, NEW x \in address..end  PROVE Accessible(mem, x, write)
    <3>1. PICK k \in 0..(len - 1) : x = address + k
      BY <1>2
    <3>2. x = (address + k) % AddrSpace
      BY <1>1, <3>1
    <3> QED
      BY <2>1, <3>2
  <2>2. ASSUME Bytes, NEW x \in Bad  PROVE FALSE
    <3>1. PICK k \in 0..(len - 1) : x = (address + k) % AddrSpace
      OBVIOUS
    <3>2. x = address + k
      BY <1>1, <3>1
    <3>3. x \in address..end
      BY <3>2
    <3> QED
      BY <2>2, <3>3
  <2> HIDE DEF Bad
  <2> QED
    BY <2>1, <2>2
<1> QED
  BY <1>3 DEF Check, BytesOk

\* A range that runs past the end of the address space comes to its first byte,
\* which nobody may access, and to a page that is never there.
LEMMA PastTheEnd ==
  ASSUME NEW mem, MemoryOK(mem), PagesOK(mem), NEW address \in 0..(AddrSpace - 1),
         NEW len \in Nat, NEW write \in BOOLEAN, address + len > AddrSpace
  PROVE  /\ Check(mem, address, len, write) # "Ok"
         /\ ~BytesOk(mem, address, address + len - 1, write)
<1>0. AddrSpace \in Nat \ {0} /\ ZoneSize \in Nat \ {0} /\ PageSize \in Nat \ {0}
      /\ Paged(AddrSpace)
  BY PVMConstants, LayoutConstants, PagedFacts
<1>1. Check(mem, address, len, write) # "Ok"
  <2> DEFINE k == AddrSpace - address
  <2>1. k \in 0..(len - 1) /\ address + k = AddrSpace
    BY <1>0
  <2>2. AddrSpace % AddrSpace = 0
    <3>1. \A n \in Nat \ {0} : n % n = 0
      OBVIOUS
    <3> QED
      BY <1>0, <3>1
  <2> HIDE DEF k
  <2>3. 0 \in {(address + j) % AddrSpace : j \in 0..(len - 1)}
    BY <2>1, <2>2
  <2>4. ~Accessible(mem, 0, write)
    BY <1>0 DEF Accessible, Writable, Readable
  <2> QED
    BY <2>3, <2>4 DEF Check
<1>2. ~Accessible(mem, AddrSpace, write)
  <2>1. PICK n \in Nat : AddrSpace = PageSize * n
    BY <1>0 DEF Paged
  <2> DEFINE p == PageOf(AddrSpace)
  <2>2. p \in Nat /\ (n <= p <=> PageSize * n <= AddrSpace)
        /\ (n >= p <=> AddrSpace < PageSize * n + PageSize)
    BY <1>0, OnPage
  <2> HIDE DEF p
  <2>3. n <= p /\ n >= p
    BY <1>0, <2>1, <2>2
  <2>4. n = p
    BY <2>2, <2>3
  <2>5. p \notin DOMAIN mem.pages
    BY <1>0, <2>1, <2>4 DEF PagesOK
  <2> QED
    BY <2>5 DEF Accessible, Writable, Readable, p
<1>3. AddrSpace \in address..(address + len - 1)
  BY <1>0
<1> QED
  BY <1>1, <1>2, <1>3 DEF BytesOk

\* The two checks agree on every range whose end is a u64.
LEMMA ChecksAgree ==
  ASSUME NEW mem, MemoryOK(mem), PagesOK(mem), NEW address \in 0..(AddrSpace - 1),
         NEW len \in 0..(Word - 1), NEW write \in BOOLEAN, address + len <= Word
  PROVE  RangeOk(mem, address, len, write) <=> Check(mem, address, len, write) = "Ok"
<1> DEFINE end == address + len - 1
<1>1. AddrSpace \in Nat \ {0} /\ Word \in Nat \ {0} /\ address \in Nat /\ len \in Nat
  BY PVMConstants, WordFacts
<1>2. address + len <= AddrSpace =>
        (Check(mem, address, len, write) = "Ok" <=> BytesOk(mem, address, end, write))
  BY <1>1, CheckIs
<1>3. CASE len = 0
  <2>1. BytesOk(mem, address, end, write)
    BY <1>1, <1>3 DEF BytesOk
  <2>2. address + len <= AddrSpace
    BY <1>1, <1>3
  <2> QED
    BY <1>2, <1>3, <2>1, <2>2 DEF RangeOk
<1>4. CASE len # 0
  <2>1. len \in 1..(Word - 1) /\ end \in Nat /\ address <= end
    BY <1>1, <1>4
  <2>2. RangeOk(mem, address, len, write) <=> RangePagesOk(mem, address, end, write)
    BY <1>1, <2>1, RangeOkIs
  <2>3. BytesOk(mem, address, end, write) <=> RangePagesOk(mem, address, end, write)
    <3> HIDE DEF end
    <3> QED
      BY <1>1, <2>1, BytesByPage
  <2>4. address + len > AddrSpace =>
          Check(mem, address, len, write) # "Ok" /\ ~BytesOk(mem, address, end, write)
    BY <1>1, PastTheEnd
  <2>5. address + len <= AddrSpace \/ address + len > AddrSpace
    BY <1>1
  <2> HIDE DEF end
  <2> QED
    BY <1>2, <2>2, <2>3, <2>4, <2>5
<1> QED
  BY <1>3, <1>4

\* Host calls and instructions agree on what is accessible, whatever the pages
\* mapped, on every range whose end is a u64, of many pages or past the end of
\* the address space too: what the page check refuses for its length its pages
\* would not allow (pvm.rs 127-145, 161-180).
THEOREM ChecksAlwaysAgree == Spec => []AccessorsAgree
<1>1. MemoryInv => AccessorsAgree
  <2> SUFFICES ASSUME MemoryInv, NEW address \in 0..(AddrSpace - 1),
                      NEW len \in Lengths, NEW write \in BOOLEAN,
                      address + len <= Word
               PROVE  RangeOk(memory, address, len, write)
                        <=> Check(memory, address, len, write) = "Ok"
    BY DEF AccessorsAgree
  <2>1. len \in 0..(Word - 1)
    BY PVMConstants
  <2>2. MemoryOK(memory) /\ PagesOK(memory)
    BY DEF MemoryInv, HeapOK
  <2> QED
    BY <2>1, <2>2, ChecksAgree
<1> QED
  BY <1>1, HeapStaysOK, PTL
=============================================================================
