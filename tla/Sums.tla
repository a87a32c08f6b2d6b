-------------------------------- MODULE Sums --------------------------------
(***************************************************************************)
(* What SumFunction returns: an integer, nothing over zeros, and as much   *)
(* more as one of its terms grows.  The sum is a recursive function over   *)
(* the subsets of a finite domain; each fact about it is a least           *)
(* counterexample, which has an element to take away, and so is none.      *)
(***************************************************************************)
EXTENDS FiniteSetsExt, FiniteSetTheorems, TLAPS

Pick(s) == CHOOSE x \in s : TRUE

\* g sums f over every subset of S, taking elements off one at a time.
Adds(g, f, S) ==
  g = [s \in SUBSET S |-> IF s = {} THEN 0 ELSE f[Pick(s)] + g[s \ {Pick(s)}]]

\* An entry of the table g less any one of its terms is the entry without it.
TakesAny(g, f, S) ==
  \A s \in SUBSET S : g[s] \in Int /\ \A x \in s : g[s] = f[x] + g[s \ {x}]

\* The sum of the library is the last entry of such a table.
LEMMA SumIsAdds ==
  ASSUME NEW f
  PROVE  SumFunction(f) = (CHOOSE g : Adds(g, f, DOMAIN f))[DOMAIN f]
BY DEF SumFunction, SumFunctionOnSet, FoldFunction, FoldFunctionOnSet, MapThenFoldSet, Adds, Pick

\* A set of naturals that is not empty has a least element.
LEMMA MinimalNat ==
  ASSUME NEW K \in SUBSET Nat, K # {}
  PROVE  \E k \in K : \A j \in K : ~(j < k)
<1>1. \E k \in K : \A j \in K : <<j, k>> \notin OpToRel(<, Nat)
  BY NatLessThanWellFounded, WFMin
<1>2. \A j, k \in K : j < k => <<j, k>> \in OpToRel(<, Nat)
  BY DEF OpToRel
<1> QED BY <1>1, <1>2, Zenon

\* There is such a table: it is filled one cardinality after another.
LEMMA AddsExists ==
  ASSUME NEW S, IsFiniteSet(S), NEW f
  PROVE  \E g : Adds(g, f, S)
<1> DEFINE Upto(n)     == {s \in SUBSET S : Cardinality(s) <= n}
           Next(g, s)  == IF s = {} THEN 0 ELSE f[Pick(s)] + g[s \ {Pick(s)}]
           Table(g, n) == g = [s \in Upto(n) |-> Next(g, s)]
           K == {n \in Nat : ~(\E g : Table(g, n))}
<1>1. \A s \in SUBSET S : IsFiniteSet(s) /\ Cardinality(s) \in Nat
  BY FS_Subset, FS_CardinalityType
<1>2. \A s \in SUBSET S : s # {} =>
         /\ Pick(s) \in s
         /\ s \ {Pick(s)} \in SUBSET S
         /\ Cardinality(s \ {Pick(s)}) = Cardinality(s) - 1
  <2> SUFFICES ASSUME NEW s \in SUBSET S, s # {}
               PROVE  /\ Pick(s) \in s
                      /\ s \ {Pick(s)} \in SUBSET S
                      /\ Cardinality(s \ {Pick(s)}) = Cardinality(s) - 1
    OBVIOUS
  <2>1. Pick(s) \in s
    BY DEF Pick
  <2> QED BY <1>1, <2>1, FS_RemoveElement
<1>3. K = {}
  <2> SUFFICES ASSUME K # {} PROVE FALSE
    OBVIOUS
  <2>1. PICK k \in K : \A j \in K : ~(j < k)
    <3>1. K \in SUBSET Nat
      OBVIOUS
    <3> HIDE DEF K
    <3> QED BY <3>1, MinimalNat
  <2>2. CASE k = 0
    <3>1. \A s \in Upto(0) : s = {}
      BY <1>1, FS_EmptySet
    <3> DEFINE g == [s \in Upto(0) |-> 0]
    <3>2. Table(g, 0)
      BY <3>1
    <3> QED BY <2>1, <2>2, <3>2
  <2>3. CASE k # 0
    <3>1. k \in Nat \ {0}
      BY <2>1, <2>3
    <3>2. k - 1 \in Nat /\ k - 1 < k
      BY <3>1
    <3>3. k - 1 \notin K
      BY <2>1, <3>2
    <3>4. \E g : Table(g, k - 1)
      BY <3>2, <3>3
    <3>5. PICK g : Table(g, k - 1)
      BY <3>4
    <3> DEFINE h == [s \in Upto(k) |-> Next(g, s)]
    <3>6. ASSUME NEW s \in Upto(k) PROVE Next(g, s) = Next(h, s)
      <4>1. CASE s = {}
        BY <4>1
      <4>2. CASE s # {}
        <5> DEFINE t == s \ {Pick(s)}
        <5>1. t \in Upto(k - 1) /\ t \in Upto(k)
          BY <1>1, <1>2, <3>1, <4>2
        <5>2. g[t] = Next(g, t)
          <6> HIDE DEF Next, Upto, t
          <6> QED BY <3>5, <5>1
        <5>3. h[t] = Next(g, t)
          <6> HIDE DEF Next, Upto, t
          <6> QED BY <5>1
        <5> HIDE DEF h
        <5> QED BY <5>2, <5>3
      <4> QED BY <4>1, <4>2
    <3>7. Table(h, k)
      <4> HIDE DEF Next, Upto
      <4> QED BY <3>6
    <3> QED BY <2>1, <3>7
  <2> QED BY <2>2, <2>3
<1>4. \E g : Table(g, Cardinality(S))
  <2>1. Cardinality(S) \in Nat
    BY <1>1
  <2> QED BY <1>3, <2>1
<1>5. Upto(Cardinality(S)) = SUBSET S
  BY <1>1, FS_Subset
<1>6. PICK g : Table(g, Cardinality(S))
  BY <1>4
<1>7. g = [s \in SUBSET S |-> Next(g, s)]
  <2> HIDE DEF Upto, Next
  <2> QED BY <1>5, <1>6
<1> QED BY <1>7 DEF Adds

\* However it was built, a table of sums loses f[x] with x.
LEMMA AddsTakesAny ==
  ASSUME NEW S, IsFiniteSet(S), NEW f \in [S -> Int], NEW g, Adds(g, f, S)
  PROVE  TakesAny(g, f, S)
<1> DEFINE P(s) == g[s] \in Int /\ \A x \in s : g[s] = f[x] + g[s \ {x}]
           K == {n \in Nat : \E s \in SUBSET S : Cardinality(s) = n /\ ~P(s)}
<1>1. \A s \in SUBSET S : IsFiniteSet(s) /\ Cardinality(s) \in Nat
  BY FS_Subset, FS_CardinalityType
<1>2. K = {}
  <2> SUFFICES ASSUME K # {} PROVE FALSE
    OBVIOUS
  <2>1. PICK k \in K : \A j \in K : ~(j < k)
    <3>1. K \in SUBSET Nat
      OBVIOUS
    <3> HIDE DEF K
    <3> QED BY <3>1, MinimalNat
  <2>2. PICK s \in SUBSET S : Cardinality(s) = k /\ ~P(s)
    BY <2>1
  <2>3. \A t \in SUBSET S : Cardinality(t) < k => P(t)
    BY <1>1, <2>1
  <2>4. g[{}] = 0
    BY DEF Adds
  <2>5. CASE s = {}
    BY <2>2, <2>4, <2>5
  <2>6. CASE s # {}
    <3> DEFINE y == Pick(s)
    <3>1. y \in s
      BY <2>6 DEF Pick
    <3>2. g[s] = f[y] + g[s \ {y}]
      BY <2>6 DEF Adds
    <3> HIDE DEF y
    <3>3. \A x \in s : /\ s \ {x} \in SUBSET S
                       /\ Cardinality(s \ {x}) < k
      BY <1>1, <2>2, FS_RemoveElement
    <3>4. \A x \in s : P(s \ {x})
      BY <2>3, <3>3
    <3>5. g[s] \in Int
      <4>1. f[y] \in Int /\ g[s \ {y}] \in Int
        BY <3>1, <3>4
      <4> QED BY <3>2, <4>1
    <3>6. ASSUME NEW x \in s PROVE g[s] = f[x] + g[s \ {x}]
      <4>1. CASE x = y
        BY <3>2, <4>1
      <4>2. CASE x # y
        <5>1. g[s \ {y}] = f[x] + g[(s \ {y}) \ {x}]
          BY <3>1, <3>4, <4>2
        <5>2. g[s \ {x}] = f[y] + g[(s \ {x}) \ {y}]
          BY <3>1, <3>4, <4>2
        <5>3. (s \ {y}) \ {x} = (s \ {x}) \ {y}
          OBVIOUS
        <5>4. (s \ {x}) \ {y} \in SUBSET S /\ Cardinality((s \ {x}) \ {y}) < k
          <6>1. s \ {x} \in SUBSET S /\ y \in s \ {x}
            BY <3>1, <4>2
          <6>2. Cardinality((s \ {x}) \ {y}) = Cardinality(s \ {x}) - 1
            BY <1>1, <6>1, FS_RemoveElement
          <6>3. Cardinality(s \ {x}) = Cardinality(s) - 1
            BY <1>1, FS_RemoveElement
          <6> QED BY <1>1, <2>2, <6>1, <6>2, <6>3
        <5>5. f[x] \in Int /\ f[y] \in Int /\ g[(s \ {x}) \ {y}] \in Int
          BY <2>3, <3>1, <5>4
        <5>6. g[s] = f[y] + (f[x] + g[(s \ {x}) \ {y}])
          BY <3>2, <5>1, <5>3
        <5> QED BY <5>2, <5>5, <5>6
      <4> QED BY <4>1, <4>2
    <3> QED BY <2>2, <3>5, <3>6
  <2> QED BY <2>5, <2>6
<1> QED BY <1>1, <1>2 DEF TakesAny


\* Where two functions agree, so do their tables of sums.
LEMMA AddsAgree ==
  ASSUME NEW S, IsFiniteSet(S), NEW f, NEW h, NEW g, NEW k, Adds(g, f, S), Adds(k, h, S),
         NEW s \in SUBSET S, \A x \in s : f[x] = h[x]
  PROVE  g[s] = k[s]
<1> DEFINE K == {n \in Nat : \E t \in SUBSET s : Cardinality(t) = n /\ g[t] # k[t]}
<1>1. \A t \in SUBSET s : t \in SUBSET S /\ IsFiniteSet(t) /\ Cardinality(t) \in Nat
  BY FS_Subset, FS_CardinalityType
<1>2. K = {}
  <2> SUFFICES ASSUME K # {} PROVE FALSE
    OBVIOUS
  <2>1. PICK n \in K : \A j \in K : ~(j < n)
    <3>1. K \in SUBSET Nat
      OBVIOUS
    <3> HIDE DEF K
    <3> QED BY <3>1, MinimalNat
  <2>2. PICK t \in SUBSET s : Cardinality(t) = n /\ g[t] # k[t]
    BY <2>1
  <2>3. t # {}
    BY <2>2 DEF Adds
  <2> DEFINE y == Pick(t)
  <2>4. y \in t
    BY <2>3 DEF Pick
  <2>5. g[t] = f[y] + g[t \ {y}] /\ k[t] = h[y] + k[t \ {y}]
    BY <1>1, <2>3 DEF Adds
  <2> HIDE DEF y
  <2>6. t \ {y} \in SUBSET s /\ Cardinality(t \ {y}) \in Nat /\ Cardinality(t \ {y}) < n
    BY <1>1, <2>2, <2>4, FS_RemoveElement
  <2>7. g[t \ {y}] = k[t \ {y}]
    BY <2>1, <2>6
  <2>8. f[y] = h[y]
    BY <2>4
  <2> QED BY <2>2, <2>5, <2>7, <2>8
<1> QED BY <1>1, <1>2

\* The sum over one function is a table's, of whichever table there is.
LEMMA SumTable ==
  ASSUME NEW S, IsFiniteSet(S), NEW f \in [S -> Int]
  PROVE  \E g : Adds(g, f, S) /\ SumFunction(f) = g[S] /\ TakesAny(g, f, S)
<1> DEFINE g == CHOOSE g : Adds(g, f, S)
<1>1. Adds(g, f, S)
  BY AddsExists
<1>2. SumFunction(f) = g[S]
  BY SumIsAdds
<1> HIDE DEF g
<1>3. TakesAny(g, f, S)
  BY <1>1, AddsTakesAny
<1> QED BY <1>1, <1>2, <1>3

\* A sum of integers is one.
THEOREM SumType ==
  ASSUME NEW S, IsFiniteSet(S), NEW f \in [S -> Int]
  PROVE  SumFunction(f) \in Int
<1>1. PICK g : SumFunction(f) = g[S] /\ TakesAny(g, f, S)
  BY SumTable
<1> QED BY <1>1 DEF TakesAny

\* Changing a function in one place moves its sum by as much.
THEOREM SumMoves ==
  ASSUME NEW S, IsFiniteSet(S), NEW f \in [S -> Int], NEW h \in [S -> Int],
         NEW x \in S, \A y \in S \ {x} : f[y] = h[y]
  PROVE  SumFunction(h) - SumFunction(f) = h[x] - f[x]
<1>1. PICK g : Adds(g, f, S) /\ SumFunction(f) = g[S] /\ TakesAny(g, f, S)
  BY SumTable
<1>2. PICK k : Adds(k, h, S) /\ SumFunction(h) = k[S] /\ TakesAny(k, h, S)
  BY SumTable
<1>3. g[S] = f[x] + g[S \ {x}] /\ g[S \ {x}] \in Int
  BY <1>1 DEF TakesAny
<1>4. k[S] = h[x] + k[S \ {x}] /\ k[S \ {x}] \in Int
  BY <1>2 DEF TakesAny
<1>5. g[S \ {x}] = k[S \ {x}]
  <2>1. S \ {x} \in SUBSET S
    OBVIOUS
  <2> QED BY <1>1, <1>2, <2>1, AddsAgree
<1>6. f[x] \in Int /\ h[x] \in Int
  OBVIOUS
<1> QED BY <1>1, <1>2, <1>3, <1>4, <1>5, <1>6

\* A sum of zeros is zero.
THEOREM SumOfZeros ==
  ASSUME NEW S, IsFiniteSet(S), NEW f \in [S -> Int], \A x \in S : f[x] = 0
  PROVE  SumFunction(f) = 0
<1>1. PICK g : Adds(g, f, S) /\ SumFunction(f) = g[S]
  BY SumTable
<1> DEFINE zeros == [s \in SUBSET S |-> 0]
           nought == [x \in S |-> 0]
<1>2. Adds(zeros, nought, S)
  <2>1. \A s \in SUBSET S : s # {} => Pick(s) \in S /\ s \ {Pick(s)} \in SUBSET S
    BY DEF Pick
  <2> QED BY <2>1 DEF Adds
<1>3. S \in SUBSET S /\ \A x \in S : f[x] = nought[x]
  OBVIOUS
<1>4. g[S] = zeros[S]
  <2> HIDE DEF zeros, nought
  <2> QED BY <1>1, <1>2, <1>3, AddsAgree
<1> QED BY <1>1, <1>4

\* Larger terms, a larger sum.
THEOREM SumMonotone ==
  ASSUME NEW S, IsFiniteSet(S), NEW f \in [S -> Int], NEW h \in [S -> Int],
         \A x \in S : f[x] <= h[x]
  PROVE  SumFunction(f) <= SumFunction(h)
<1>1. PICK g : Adds(g, f, S) /\ SumFunction(f) = g[S] /\ TakesAny(g, f, S)
  BY SumTable
<1>2. PICK k : Adds(k, h, S) /\ SumFunction(h) = k[S] /\ TakesAny(k, h, S)
  BY SumTable
<1> DEFINE K == {n \in Nat : \E s \in SUBSET S : Cardinality(s) = n /\ ~(g[s] <= k[s])}
<1>3. \A s \in SUBSET S : IsFiniteSet(s) /\ Cardinality(s) \in Nat
  BY FS_Subset, FS_CardinalityType
<1>4. K = {}
  <2> SUFFICES ASSUME K # {} PROVE FALSE
    OBVIOUS
  <2>1. PICK n \in K : \A j \in K : ~(j < n)
    <3>1. K \in SUBSET Nat
      OBVIOUS
    <3> HIDE DEF K
    <3> QED BY <3>1, MinimalNat
  <2>2. PICK s \in SUBSET S : Cardinality(s) = n /\ ~(g[s] <= k[s])
    BY <2>1
  <2>3. CASE s = {}
    <3>1. g[{}] = 0 /\ k[{}] = 0
      BY <1>1, <1>2 DEF Adds
    <3> QED BY <2>2, <2>3, <3>1
  <2>4. CASE s # {}
    <3>1. PICK x \in s : TRUE
      BY <2>4
    <3>2. s \ {x} \in SUBSET S /\ Cardinality(s \ {x}) < n
      BY <1>3, <2>2, FS_RemoveElement
    <3>3. g[s \ {x}] <= k[s \ {x}]
      BY <1>3, <2>1, <3>2
    <3>4. /\ g[s] = f[x] + g[s \ {x}] /\ g[s \ {x}] \in Int
          /\ k[s] = h[x] + k[s \ {x}] /\ k[s \ {x}] \in Int
      BY <1>1, <1>2, <3>2 DEF TakesAny
    <3>5. f[x] \in Int /\ h[x] \in Int /\ f[x] <= h[x]
      OBVIOUS
    <3> QED BY <2>2, <3>3, <3>4, <3>5
  <2> QED BY <2>3, <2>4
<1>5. g[S] <= k[S]
  <2>1. S \in SUBSET S /\ Cardinality(S) \in Nat
    BY <1>3
  <2> QED BY <1>4, <2>1
<1> QED BY <1>1, <1>2, <1>5

\* A sum is at most as many times its largest term as it has terms.
THEOREM SumAtMost ==
  ASSUME NEW S, IsFiniteSet(S), NEW f \in [S -> Int], NEW c \in Int, \A x \in S : f[x] <= c
  PROVE  SumFunction(f) <= c * Cardinality(S)
<1>1. PICK g : Adds(g, f, S) /\ SumFunction(f) = g[S] /\ TakesAny(g, f, S)
  BY SumTable
<1> DEFINE K == {n \in Nat : \E s \in SUBSET S :
                               Cardinality(s) = n /\ ~(g[s] <= c * Cardinality(s))}
<1>2. \A s \in SUBSET S : IsFiniteSet(s) /\ Cardinality(s) \in Nat
  BY FS_Subset, FS_CardinalityType
<1>3. K = {}
  <2> SUFFICES ASSUME K # {} PROVE FALSE
    OBVIOUS
  <2>1. PICK n \in K : \A j \in K : ~(j < n)
    <3>1. K \in SUBSET Nat
      OBVIOUS
    <3> HIDE DEF K
    <3> QED BY <3>1, MinimalNat
  <2>2. PICK s \in SUBSET S : Cardinality(s) = n /\ ~(g[s] <= c * n)
    BY <2>1
  <2>3. CASE s = {}
    <3>1. g[{}] = 0 /\ n = 0
      BY <1>1, <2>2, <2>3, FS_EmptySet DEF Adds
    <3> QED BY <2>2, <2>3, <3>1
  <2>4. CASE s # {}
    <3>1. PICK x \in s : TRUE
      BY <2>4
    <3>2. s \ {x} \in SUBSET S /\ Cardinality(s \ {x}) = n - 1 /\ n - 1 \in Nat
      <4>1. s \ {x} \in SUBSET S
        OBVIOUS
      <4>2. Cardinality(s \ {x}) = Cardinality(s) - 1
        BY <1>2, <3>1, FS_RemoveElement
      <4>3. Cardinality(s \ {x}) \in Nat
        BY <1>2, <4>1
      <4> QED BY <2>2, <4>1, <4>2, <4>3
    <3>3. g[s \ {x}] <= c * (n - 1)
      <4>1. n - 1 < n
        BY <3>2
      <4>2. n - 1 \notin K
        BY <2>1, <4>1
      <4> QED BY <3>2, <4>2
    <3>4. g[s] = f[x] + g[s \ {x}] /\ g[s \ {x}] \in Int /\ f[x] \in Int /\ f[x] <= c
      BY <1>1, <3>2 DEF TakesAny
    <3>5. c * (n - 1) = c * n - c /\ c * n \in Int
      BY <3>2
    <3> QED BY <2>2, <3>3, <3>4, <3>5
  <2> QED BY <2>3, <2>4
<1>4. g[S] <= c * Cardinality(S)
  <2>1. S \in SUBSET S /\ Cardinality(S) \in Nat
    BY <1>2
  <2> QED BY <1>3, <2>1
<1> QED BY <1>1, <1>4
=============================================================================
