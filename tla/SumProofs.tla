------------------------------ MODULE SumProofs ------------------------------
(***************************************************************************)
(* What SumTo computes.  The library's induction theorems are parameterised *)
(* by an operator, so each induction below is a least-counterexample       *)
(* argument over a set of naturals (LeastNat).                             *)
(***************************************************************************)
EXTENDS Sums, TLAPS, WellFoundedInduction

\* A set of naturals that is not empty has a least element.
LEMMA LeastNat ==
  ASSUME NEW T \in SUBSET Nat, NEW x \in T
  PROVE  \E k \in T : \A j \in T : k <= j
<1> DEFINE R == OpToRel(<, Nat)
<1>1. IsWellFoundedOn(R, Nat)
  BY Zenon, NatLessThanWellFounded
<1>2. R = {ss \in Nat \X Nat : ss[1] < ss[2]}
  BY DEF OpToRel
<1> HIDE DEF R
<1>3. PICK k \in T : \A j \in T : <<j, k>> \notin R
  BY Zenon, <1>1, WFMin
<1>4. \A j \in T : ~(j < k)
  BY Zenon, <1>2, <1>3
<1>. QED  BY <1>4

\* f lists the partial sums of w up to n.
IsPrefixSum(f, w, n) ==
  /\ f \in [0..n -> Int]
  /\ f[0] = 0
  /\ \A i \in 1..n : f[i] = f[i-1] + w[i]

\* The recursive definition of PartialSums has a solution.
LEMMA PrefixSumExists ==
  ASSUME NEW n \in Nat, NEW w, \A i \in 1..n : w[i] \in Int
  PROVE  \E f : IsPrefixSum(f, w, n)
<1> DEFINE Bad == {k \in 0..n : ~ \E f : IsPrefixSum(f, w, k)}
<1>1. Bad = {}
  <2>1. SUFFICES ASSUME NEW x \in Bad PROVE FALSE
    OBVIOUS
  <2>2. PICK k \in Bad : \A j \in Bad : k <= j
    <3>1. Bad \in SUBSET Nat
      OBVIOUS
    <3> HIDE DEF Bad
    <3>. QED  BY <3>1, LeastNat
  <2>3. CASE k = 0
    <3>1. IsPrefixSum([i \in 0..0 |-> 0], w, 0)
      BY DEF IsPrefixSum
    <3>. QED  BY <3>1, <2>3
  <2>4. CASE k # 0
    <3>1. k \in 1..n /\ k - 1 \in 0..n /\ k - 1 \notin Bad
      BY <2>2, <2>4
    <3>2. PICK f : IsPrefixSum(f, w, k - 1)
      BY <3>1
    <3> DEFINE g == [i \in 0..k |-> IF i = k THEN f[k-1] + w[k] ELSE f[i]]
    <3>3. \A i \in 0..(k-1) : f[i] \in Int
      BY <3>2, <3>1 DEF IsPrefixSum
    <3>4. w[k] \in Int /\ f[k-1] \in Int
      BY <3>1, <3>3
    <3>5. g \in [0..k -> Int]
      BY <3>1, <3>3, <3>4
    <3>6. g[0] = 0
      BY <3>1, <3>2 DEF IsPrefixSum
    <3>7. ASSUME NEW i \in 1..k PROVE g[i] = g[i-1] + w[i]
      <4>1. i \in 0..k /\ i-1 \in 0..k /\ i-1 # k
        BY <3>1
      <4>2. CASE i = k
        BY <4>1, <4>2
      <4>3. CASE i # k
        BY <4>1, <4>3, <3>1, <3>2 DEF IsPrefixSum
      <4>. QED  BY <4>2, <4>3
    <3>8. IsPrefixSum(g, w, k)
      BY Zenon, <3>5, <3>6, <3>7 DEF IsPrefixSum
    <3>. QED  BY <3>8
  <2>. QED  BY <2>3, <2>4
<1>2. n \in 0..n
  OBVIOUS
<1>. QED  BY <1>1, <1>2

\* Two lists of the partial sums of w are the same.
LEMMA PrefixSumUnique ==
  ASSUME NEW n \in Nat, NEW w, NEW f, NEW g,
         IsPrefixSum(f, w, n), IsPrefixSum(g, w, n)
  PROVE  f = g
<1> DEFINE Bad == {k \in 0..n : f[k] # g[k]}
<1>1. Bad = {}
  <2>1. SUFFICES ASSUME NEW x \in Bad PROVE FALSE
    OBVIOUS
  <2>2. PICK k \in Bad : \A j \in Bad : k <= j
    <3>1. Bad \in SUBSET Nat
      OBVIOUS
    <3> HIDE DEF Bad
    <3>. QED  BY <3>1, LeastNat
  <2>3. k # 0
    BY <2>2 DEF IsPrefixSum
  <2>4. k \in 1..n /\ k-1 \in 0..n /\ k-1 \notin Bad
    BY <2>2, <2>3
  <2>5. f[k-1] = g[k-1]
    BY <2>4
  <2>. QED  BY <2>4, <2>5 DEF IsPrefixSum
<1>2. f \in [0..n -> Int] /\ g \in [0..n -> Int]
  BY DEF IsPrefixSum
<1>. QED  BY <1>1, <1>2

\* PartialSums is the list of partial sums.
LEMMA PartialSumsCorrect ==
  ASSUME NEW n \in Nat, NEW w, \A i \in 1..n : w[i] \in Int
  PROVE  IsPrefixSum(PartialSums(w, n), w, n)
<1> DEFINE Eqn(s) == s = [i \in 0..n |-> IF i = 0 THEN 0 ELSE s[i-1] + w[i]]
<1>1. PICK f : IsPrefixSum(f, w, n)
  BY PrefixSumExists
<1>2. Eqn(f)
  <2>1. ASSUME NEW i \in 0..n PROVE f[i] = IF i = 0 THEN 0 ELSE f[i-1] + w[i]
    BY <1>1 DEF IsPrefixSum
  <2>. QED  BY <1>1, <2>1 DEF IsPrefixSum
<1>3. Eqn(PartialSums(w, n))
  BY Zenon, <1>2 DEF PartialSums
<1> DEFINE p == PartialSums(w, n)
<1> HIDE DEF p
<1>4. \A i \in 1..n : p[i] = p[i-1] + w[i]
  <2>1. TAKE i \in 1..n
  <2>2. i \in 0..n /\ i # 0
    OBVIOUS
  <2>3. p = [j \in 0..n |-> IF j = 0 THEN 0 ELSE p[j-1] + w[j]]
    BY Zenon, <1>3 DEF p
  <2>. QED  BY <2>2, <2>3
<1>5. p[0] = 0 /\ DOMAIN p = 0..n /\ p = [j \in 0..n |-> p[j]]
  <2>1. p = [j \in 0..n |-> IF j = 0 THEN 0 ELSE p[j-1] + w[j]]
    BY Zenon, <1>3 DEF p
  <2>. QED  BY <2>1
<1>6. \A i \in 0..n : p[i] \in Int
  <2> DEFINE Bad == {k \in 0..n : p[k] \notin Int}
  <2>1. SUFFICES ASSUME NEW x \in Bad PROVE FALSE
    OBVIOUS
  <2>2. PICK k \in Bad : \A j \in Bad : k <= j
    <3>1. Bad \in SUBSET Nat
      OBVIOUS
    <3> HIDE DEF Bad
    <3>. QED  BY <3>1, LeastNat
  <2>3. k # 0
    BY <2>2, <1>5
  <2>4. k \in 1..n /\ k-1 \in 0..n /\ k-1 \notin Bad
    BY <2>2, <2>3
  <2>. QED  BY <2>2, <2>4, <1>4
<1>7. p \in [0..n -> Int]
  BY <1>5, <1>6
<1>8. IsPrefixSum(p, w, n)
  BY Zenon, <1>4, <1>5, <1>7 DEF IsPrefixSum
<1>. QED  BY <1>8 DEF p

\* A list of partial sums ends in the sum.
LEMMA SumFromPrefix ==
  ASSUME NEW n \in Nat, NEW w, \A i \in 1..n : w[i] \in Int,
         NEW f, IsPrefixSum(f, w, n)
  PROVE  SumTo(w, n) = f[n]
BY PartialSumsCorrect, PrefixSumUnique DEF SumTo

\* A sum of integers is an integer, and the empty sum is 0.
LEMMA SumType ==
  ASSUME NEW n \in Nat, NEW w, \A i \in 1..n : w[i] \in Int
  PROVE  /\ SumTo(w, n) \in Int
         /\ n = 0 => SumTo(w, n) = 0
<1>1. IsPrefixSum(PartialSums(w, n), w, n)
  BY PartialSumsCorrect
<1>2. n \in 0..n
  OBVIOUS
<1>. QED  BY <1>1, <1>2 DEF SumTo, IsPrefixSum

\* A sum one term longer adds that term.
LEMMA SumExtend ==
  ASSUME NEW n \in Nat, NEW w, NEW v,
         \A i \in 1..(n+1) : v[i] \in Int,
         \A i \in 1..n : v[i] = w[i]
  PROVE  SumTo(v, n+1) = SumTo(w, n) + v[n+1]
<1>1. \A i \in 1..n : w[i] \in Int
  OBVIOUS
<1> DEFINE p == PartialSums(w, n)
           f == [j \in 0..(n+1) |-> IF j = n+1 THEN p[n] + v[n+1] ELSE p[j]]
<1>2. IsPrefixSum(p, w, n)
  BY <1>1, PartialSumsCorrect
<1> HIDE DEF p
<1>3. \A j \in 0..n : p[j] \in Int
  BY <1>2 DEF IsPrefixSum
<1>4. f \in [0..(n+1) -> Int]
  <2>1. p[n] \in Int /\ v[n+1] \in Int
    BY <1>3
  <2>2. p[n] + v[n+1] \in Int
    BY <2>1
  <2>. QED  BY <2>2, <1>3
<1>5. f[0] = 0
  BY <1>2 DEF IsPrefixSum
<1>6. ASSUME NEW i \in 1..(n+1) PROVE f[i] = f[i-1] + v[i]
  <2>1. i \in 0..(n+1) /\ i-1 \in 0..(n+1) /\ i-1 # n+1
    OBVIOUS
  <2>2. CASE i = n+1
    BY <2>1, <2>2
  <2>3. CASE i # n+1
    <3>1. i \in 1..n
      BY <2>3
    <3>. QED  BY <2>1, <2>3, <3>1, <1>2 DEF IsPrefixSum
  <2>. QED  BY <2>2, <2>3
<1>7. IsPrefixSum(f, v, n+1)
  BY Zenon, <1>4, <1>5, <1>6 DEF IsPrefixSum
<1>8. SumTo(v, n+1) = f[n+1]
  <2> HIDE DEF f
  <2>. QED  BY <1>7, SumFromPrefix
<1>9. f[n+1] = p[n] + v[n+1]
  OBVIOUS
<1>. QED  BY <1>8, <1>9 DEF SumTo, p

\* Raising the k-th term by d raises the sum by d.
LEMMA SumShift ==
  ASSUME NEW n \in Nat, NEW w, NEW v, NEW k \in 1..n, NEW d \in Int,
         \A i \in 1..n : w[i] \in Int,
         \A i \in 1..n : v[i] = IF i = k THEN w[i] + d ELSE w[i]
  PROVE  SumTo(v, n) = SumTo(w, n) + d
<1> DEFINE p == PartialSums(w, n)
           f == [j \in 0..n |-> IF j < k THEN p[j] ELSE p[j] + d]
<1>1. IsPrefixSum(p, w, n)
  BY PartialSumsCorrect
<1> HIDE DEF p
<1>2. \A j \in 0..n : p[j] \in Int
  BY <1>1 DEF IsPrefixSum
<1>3. f \in [0..n -> Int] /\ f[0] = 0
  BY <1>1, <1>2 DEF IsPrefixSum
<1>4. ASSUME NEW i \in 1..n PROVE f[i] = f[i-1] + v[i]
  <2>1. i \in 0..n /\ i-1 \in 0..n /\ p[i] = p[i-1] + w[i]
    BY <1>1 DEF IsPrefixSum
  <2>2. p[i-1] \in Int /\ w[i] \in Int
    BY <2>1, <1>2
  <2>3. f[i] = IF i < k THEN p[i] ELSE p[i] + d
    BY <2>1
  <2>4. f[i-1] = IF i-1 < k THEN p[i-1] ELSE p[i-1] + d
    BY <2>1
  <2>5. CASE i < k
    BY <2>1, <2>2, <2>3, <2>4, <2>5
  <2>6. CASE i = k
    BY <2>1, <2>2, <2>3, <2>4, <2>6
  <2>7. CASE i > k
    BY <2>1, <2>2, <2>3, <2>4, <2>7
  <2>. QED  BY <2>5, <2>6, <2>7
<1>5. IsPrefixSum(f, v, n)
  BY Zenon, <1>3, <1>4 DEF IsPrefixSum
<1>6. \A i \in 1..n : v[i] \in Int
  OBVIOUS
<1>7. SumTo(v, n) = f[n]
  <2> HIDE DEF f
  <2>. QED  BY <1>5, <1>6, SumFromPrefix
<1>8. f[n] = p[n] + d
  OBVIOUS
<1>. QED  BY <1>7, <1>8 DEF SumTo, p

\* Sums of equal terms are equal.
LEMMA SumSame ==
  ASSUME NEW n \in Nat, NEW w, NEW v,
         \A i \in 1..n : w[i] \in Int,
         \A i \in 1..n : v[i] = w[i]
  PROVE  SumTo(v, n) = SumTo(w, n)
<1>1. IsPrefixSum(PartialSums(w, n), w, n)
  BY PartialSumsCorrect
<1>2. IsPrefixSum(PartialSums(w, n), v, n)
  BY <1>1 DEF IsPrefixSum
<1>3. \A i \in 1..n : v[i] \in Int
  OBVIOUS
<1>. QED  BY <1>2, <1>3, SumFromPrefix DEF SumTo

\* A sum of naturals is a natural.
LEMMA SumNat ==
  ASSUME NEW n \in Nat, NEW w, \A i \in 1..n : w[i] \in Nat
  PROVE  SumTo(w, n) \in Nat
<1> DEFINE p == PartialSums(w, n)
           Bad == {k \in 0..n : p[k] \notin Nat}
<1>1. IsPrefixSum(p, w, n)
  BY PartialSumsCorrect
<1> HIDE DEF p
<1>2. Bad = {}
  <2>1. SUFFICES ASSUME NEW x \in Bad PROVE FALSE
    OBVIOUS
  <2>2. PICK k \in Bad : \A j \in Bad : k <= j
    <3>1. Bad \in SUBSET Nat
      OBVIOUS
    <3> HIDE DEF Bad
    <3>. QED  BY <3>1, LeastNat
  <2>3. k # 0
    BY <2>2, <1>1 DEF IsPrefixSum
  <2>4. k \in 1..n /\ k-1 \in 0..n /\ k-1 \notin Bad
    BY <2>2, <2>3
  <2>5. p[k-1] \in Nat /\ w[k] \in Nat /\ p[k] = p[k-1] + w[k]
    BY <2>4, <1>1 DEF IsPrefixSum
  <2>. QED  BY <2>2, <2>5
<1>3. n \in 0..n
  OBVIOUS
<1>. QED  BY <1>2, <1>3 DEF SumTo, p

\* No term of a sum of naturals exceeds the sum.
LEMMA SumBound ==
  ASSUME NEW n \in Nat, NEW w, NEW k \in 1..n, \A i \in 1..n : w[i] \in Nat
  PROVE  w[k] <= SumTo(w, n)
<1> DEFINE v == [i \in 1..n |-> IF i = k THEN 0 ELSE w[i]]
<1>1. \A i \in 1..n : v[i] \in Nat
  OBVIOUS
<1> DEFINE d == 0 - w[k]
<1>2. /\ d \in Int
      /\ \A i \in 1..n : w[i] \in Int
      /\ \A i \in 1..n : v[i] = IF i = k THEN w[i] + d ELSE w[i]
  OBVIOUS
<1> HIDE DEF v, d
<1>3. SumTo(v, n) = SumTo(w, n) + d
  BY ZenonT(60), <1>2, SumShift
<1>4. SumTo(v, n) \in Nat /\ SumTo(w, n) \in Nat
  BY <1>1, SumNat
<1>. QED  BY <1>3, <1>4 DEF d

=============================================================================
