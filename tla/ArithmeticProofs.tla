-------------------------- MODULE ArithmeticProofs --------------------------
(***************************************************************************)
(* Facts about division, products and sums that the proofs about ledgers   *)
(* share; no component's definition appears here.                          *)
(*                                                                         *)
(* SumFunction adds up a function in the order CHOOSE happens to give: the *)
(* lemmas show that the order does not matter, so that a proof can follow  *)
(* one entry through a step.  The fold is defined by a recursive function  *)
(* on the subsets of its domain, and an induction over finite sets is an   *)
(* argument about a smallest counterexample, which SmallestSet finds.      *)
(***************************************************************************)
EXTENDS Integers, FiniteSets, Functions, FiniteSetTheorems,
        WellFoundedInduction, TLAPS

\* The sum of f's values at the elements of T.
SumOver(f, T) == SumFunction([x \in T |-> f[x]])

-----------------------------------------------------------------------------
(* Division and products *)

(* A floor division of naturals is the natural quotient. *)
LEMMA DivFloor ==
    ASSUME NEW x \in Nat, NEW d \in Nat, d > 0
    PROVE  /\ x \div d \in Nat
           /\ (x \div d) * d <= x
           /\ x < (x \div d) * d + d
OBVIOUS

(* The product of naturals is a natural: the solver needs it as a fact. *)
LEMMA MulNat ==
    ASSUME NEW x \in Nat, NEW y \in Nat
    PROVE  x * y \in Nat
OBVIOUS

(* A larger factor makes a larger product. *)
LEMMA MulMono ==
    ASSUME NEW x \in Nat, NEW y \in Nat, NEW z \in Nat, x <= y
    PROVE  x * z <= y * z
OBVIOUS

(* A common positive factor can be cancelled. *)
LEMMA MulCancel ==
    ASSUME NEW x \in Nat, NEW y \in Nat, NEW z \in Nat, z > 0, x * z <= y * z
    PROVE  x <= y
<1>1. SUFFICES ASSUME y + 1 <= x PROVE FALSE
  OBVIOUS
<1>2. (y + 1) * z <= x * z
  BY <1>1, MulMono
<1>3. (y + 1) * z = y * z + z
  OBVIOUS
<1>4. y * z \in Nat /\ x * z \in Nat
  BY MulNat
<1>5. QED
  BY <1>2, <1>3, <1>4

(* Scaling by at most d and dividing by d does not exceed the value. *)
LEMMA PartAtMost ==
    ASSUME NEW x \in Nat, NEW d \in Nat, d > 0, NEW k \in 0..d
    PROVE  /\ (x * k) \div d \in Nat
           /\ (x * k) \div d <= x
<1>1. k \in Nat /\ k <= d
  OBVIOUS
<1>2. x * k \in Nat /\ x * k <= x * d
  <2>1. k * x <= d * x
    BY <1>1, MulMono
  <2>2. QED
    BY <1>1, <2>1, MulNat
<1> DEFINE q == (x * k) \div d
<1>3. q \in Nat /\ q * d <= x * k
  BY <1>2, DivFloor
<1>4. q * d <= x * d
  BY <1>2, <1>3, MulNat
<1> HIDE DEF q
<1>5. q <= x
  BY <1>3, <1>4, MulCancel
<1>6. QED
  BY <1>3, <1>5 DEF q

\* Factors no larger make a product no larger.
LEMMA MulMonoBoth ==
    ASSUME NEW a \in Nat, NEW b \in Nat, NEW c \in Nat, NEW d \in Nat, a <= b, c <= d
    PROVE  a * c <= b * d
<1>1. a * c <= b * c
  BY MulMono
<1>2. c * b <= d * b
  BY MulMono
<1>3. b * c = c * b /\ b * d = d * b
  OBVIOUS
<1>4. a * c \in Nat /\ c * b \in Nat /\ d * b \in Nat
  BY MulNat
<1>5. QED
  BY <1>1, <1>2, <1>3, <1>4

\* A larger dividend does not have a smaller quotient.
LEMMA DivMono ==
    ASSUME NEW a \in Nat, NEW b \in Nat, a <= b, NEW d \in Nat, d > 0
    PROVE  a \div d <= b \div d
<1> DEFINE p == a \div d
           q == b \div d
<1>1. p \in Nat /\ p * d <= a /\ q \in Nat /\ b < q * d + d
  BY DivFloor
<1> HIDE DEF p, q
<1>2. (q + 1) * d = q * d + d /\ p * d \in Nat /\ q * d \in Nat
  BY <1>1, MulNat
<1>3. p * d < (q + 1) * d
  BY <1>1, <1>2
<1>4. p <= q
  <2>1. SUFFICES ASSUME q + 1 <= p PROVE FALSE
    BY <1>1
  <2>2. (q + 1) * d <= p * d
    BY <1>1, <2>1, MulMono
  <2>3. p * d \in Nat /\ (q + 1) * d \in Nat
    BY <1>1, MulNat
  <2>4. QED
    BY <1>3, <2>2, <2>3
<1>5. QED
  BY <1>4 DEF p, q

\* A multiple of the divisor is divided without a remainder.
LEMMA DivExact ==
    ASSUME NEW q \in Nat, NEW d \in Nat, d > 0
    PROVE  (q * d) \div d = q
<1> DEFINE p == (q * d) \div d
<1>1. q * d \in Nat
  BY MulNat
<1>2. p \in Nat /\ p * d <= q * d /\ q * d < p * d + d
  BY <1>1, DivFloor
<1> HIDE DEF p
<1>3. p <= q
  BY <1>2, MulCancel
<1>4. q < p + 1
  <2>1. SUFFICES ASSUME p + 1 <= q PROVE FALSE
    BY <1>2
  <2>2. (p + 1) * d <= q * d
    BY <1>2, <2>1, MulMono
  <2>3. (p + 1) * d = p * d + d /\ p * d \in Nat
    BY <1>2, MulNat
  <2>4. QED
    BY <1>1, <1>2, <2>2, <2>3
<1>5. p = q
  BY <1>2, <1>3, <1>4
<1>6. QED
  BY <1>5 DEF p

\* What fits into the dividend d times is at most the quotient.
LEMMA DivAtLeast ==
    ASSUME NEW a \in Nat, NEW q \in Nat, NEW d \in Nat, d > 0, q * d <= a
    PROVE  q <= a \div d
<1>1. (q * d) \div d = q
  BY DivExact
<1>2. q * d \in Nat
  BY MulNat
<1>3. QED
  BY <1>1, <1>2, DivMono

-----------------------------------------------------------------------------
(* Smallest counterexamples *)

\* A nonempty set of naturals has a least element.
LEMMA LeastNat ==
    ASSUME NEW T \in SUBSET Nat, T # {}
    PROVE  \E n \in T : \A m \in T : n <= m
<1> DEFINE R == OpToRel(<, Nat)
<1>1. IsWellFoundedOn(R, Nat)
  BY NatLessThanWellFounded
<1>2. R = {p \in Nat \X Nat : p[1] < p[2]}
  BY DEF OpToRel
<1> HIDE DEF R
<1>3. PICK n \in T : \A m \in T : ~(<<m, n>> \in R)
  BY <1>1, WFMin
<1>4. ASSUME NEW m \in T PROVE n <= m
  <2>1. <<m, n>> \in Nat \X Nat /\ <<m, n>> \notin R
    BY <1>3
  <2>2. QED
    BY <1>2, <2>1
<1>5. QED
  BY <1>4

\* Among subsets of a finite set, one has no member of the family below it.
LEMMA SmallestSet ==
    ASSUME NEW S, IsFiniteSet(S), NEW B, B \subseteq SUBSET S, B # {}
    PROVE  \E T \in B : \A x \in T : (T \ {x}) \notin B
<1> DEFINE sizes == {Cardinality(T) : T \in B}
<1>1. \A T \in B : IsFiniteSet(T) /\ Cardinality(T) \in Nat
  BY FS_Subset, FS_CardinalityType
<1>2. sizes \in SUBSET Nat /\ sizes # {}
  BY <1>1
<1>3. PICK n \in sizes : \A m \in sizes : n <= m
  BY <1>2, LeastNat
<1>4. PICK T \in B : Cardinality(T) = n
  OBVIOUS
<1>5. ASSUME NEW x \in T, (T \ {x}) \in B
      PROVE  FALSE
  <2>1. Cardinality(T \ {x}) = Cardinality(T) - 1
    BY <1>1, FS_RemoveElement
  <2>2. Cardinality(T \ {x}) \in sizes
    BY <1>5
  <2>3. n <= Cardinality(T \ {x}) /\ n \in Nat
    BY <1>2, <1>3, <2>2
  <2>4. QED
    BY <1>4, <2>1, <2>3
<1>6. QED
  BY <1>5

\* A finite set of naturals has a largest member.
LEMMA LargestOf ==
    ASSUME NEW S, IsFiniteSet(S), S \subseteq Nat, S # {}
    PROVE  \E n \in S : \A m \in S : m <= n
<1> DEFINE Tops(T) == {n \in T : \A m \in T : m <= n}
           Bad == {T \in SUBSET S : T # {} /\ Tops(T) = {}}
<1>1. SUFFICES ASSUME S \in Bad PROVE FALSE
  OBVIOUS
<1>2. Bad \subseteq SUBSET S /\ Bad # {}
  BY <1>1
<1>3. PICK T \in Bad : \A x \in T : (T \ {x}) \notin Bad
  <2> HIDE DEF Bad
  <2>1. QED
    BY <1>2, SmallestSet
<1>4. PICK x \in T : x \in Nat
  BY <1>3
<1>5. CASE T \ {x} = {}
  <2>1. \A m \in T : m <= x
    BY <1>4, <1>5
  <2>2. QED
    BY <1>3, <1>4, <2>1
<1>6. CASE T \ {x} # {}
  <2>1. PICK n \in T \ {x} : \A m \in T \ {x} : m <= n
    BY <1>3, <1>6
  <2>2. n \in Nat
    BY <1>3, <2>1
  <2>3. CASE x <= n
    <3>1. \A m \in T : m <= n
      BY <2>1, <2>3
    <3>2. QED
      BY <1>3, <2>1, <3>1
  <2>4. CASE n <= x
    <3>1. \A m \in T : m \in Nat /\ m <= x
      BY <1>3, <1>4, <2>1, <2>2, <2>4
    <3>2. QED
      BY <1>3, <1>4, <3>1
  <2>5. QED
    BY <1>4, <2>2, <2>3, <2>4
<1>7. QED
  BY <1>5, <1>6

-----------------------------------------------------------------------------
(* Functions defined by recursion on the naturals *)

\* g is the first n steps of the iteration of f from a.
Iterates(g, n, a, f, V) ==
    /\ g \in [0..n -> V]
    /\ g[0] = a
    /\ \A k \in 0..n : k # 0 => g[k] = f[g[k-1]]

\* Two runs of an iteration agree as far as both go.
LEMMA IteratesAgree ==
    ASSUME NEW V, NEW a \in V, NEW f \in [V -> V], NEW m \in Nat, NEW n \in Nat,
           m <= n, NEW g, Iterates(g, m, a, f, V), NEW h, Iterates(h, n, a, f, V)
    PROVE  g[m] = h[m]
<1> DEFINE Wrong == {k \in Nat : k <= m /\ g[k] # h[k]}
<1>1. SUFFICES ASSUME Wrong # {} PROVE FALSE
  OBVIOUS
<1>2. PICK k \in Wrong : \A j \in Wrong : k <= j
  BY <1>1, LeastNat
<1>3. k \in 0..m /\ k \in 0..n /\ g[k] # h[k]
  BY <1>2
<1>4. k # 0
  BY <1>3 DEF Iterates
<1>5. k - 1 \in 0..m /\ k - 1 \notin Wrong
  BY <1>2, <1>3, <1>4
<1>6. g[k-1] = h[k-1]
  BY <1>5
<1>7. g[k] = f[g[k-1]] /\ h[k] = f[h[k-1]]
  BY <1>3, <1>4 DEF Iterates
<1>8. QED
  BY <1>3, <1>6, <1>7

\* A function can be iterated any number of times.
LEMMA IteratesExist ==
    ASSUME NEW V, NEW a \in V, NEW f \in [V -> V], NEW n \in Nat
    PROVE  \E g : Iterates(g, n, a, f, V)
<1> DEFINE Missing == {k \in Nat : ~ \E g : Iterates(g, k, a, f, V)}
<1>1. SUFFICES ASSUME Missing # {} PROVE FALSE
  OBVIOUS
<1>2. PICK k \in Missing : \A j \in Missing : k <= j
  BY <1>1, LeastNat
<1>3. CASE k = 0
  <2> DEFINE g == [j \in 0..0 |-> a]
  <2>1. Iterates(g, 0, a, f, V)
    BY DEF Iterates
  <2>2. QED
    BY <1>2, <1>3, <2>1
<1>4. CASE k # 0
  <2>1. k \in Nat /\ k - 1 \in Nat /\ k - 1 \notin Missing
    BY <1>2, <1>4
  <2>2. PICK g : Iterates(g, k - 1, a, f, V)
    BY <2>1
  <2> DEFINE h == [j \in 0..k |-> IF j = k THEN f[g[k-1]] ELSE g[j]]
  <2>3. \A j \in 0..(k-1) : g[j] \in V
    BY <2>2 DEF Iterates
  <2>4. h \in [0..k -> V]
    <3>1. g[k-1] \in V
      BY <2>1, <2>3
    <3>2. QED
      BY <2>1, <2>3, <3>1
  <2>5. h[0] = a
    BY <1>4, <2>1, <2>2 DEF Iterates
  <2>6. ASSUME NEW j \in 0..k, j # 0 PROVE h[j] = f[h[j-1]]
    <3>1. j - 1 \in 0..(k-1) /\ h[j-1] = g[j-1]
      BY <2>1, <2>6
    <3>2. CASE j = k
      BY <2>6, <3>1, <3>2
    <3>3. CASE j # k
      <4>1. j \in 0..(k-1)
        BY <2>1, <3>3
      <4>2. g[j] = f[g[j-1]]
        BY <2>2, <2>6, <4>1 DEF Iterates
      <4>3. QED
        BY <3>1, <3>3, <4>2
    <3>4. QED
      BY <3>2, <3>3
  <2> HIDE DEF h
  <2>7. Iterates(h, k, a, f, V)
    BY <2>4, <2>5, <2>6 DEF Iterates
  <2>8. QED
    BY <1>2, <2>7
<1>5. QED
  BY <1>3, <1>4

\* g gives the value after each number of times.
IsIteration(g, a, f) == \A n \in Nat : g[n] = IF n = 0 THEN a ELSE f[g[n-1]]

\* Hence the function that gives the value after each number of times exists.
LEMMA IterationExists ==
    ASSUME NEW V, NEW a \in V, NEW f \in [V -> V]
    PROVE  \E g \in [Nat -> V] : IsIteration(g, a, f)
<1> DEFINE run(n) == CHOOSE g : Iterates(g, n, a, f, V)
           g == [n \in Nat |-> run(n)[n]]
<1>1. ASSUME NEW n \in Nat PROVE Iterates(run(n), n, a, f, V)
  BY IteratesExist
<1> HIDE DEF run
<1>2. ASSUME NEW n \in Nat PROVE g[n] \in V
  BY <1>1 DEF Iterates
<1>3. ASSUME NEW n \in Nat PROVE g[n] = IF n = 0 THEN a ELSE f[g[n-1]]
  <2>1. CASE n = 0
    BY <1>1, <2>1 DEF Iterates
  <2>2. CASE n # 0
    <3>1. n - 1 \in Nat /\ n - 1 <= n
      BY <2>2
    <3>2. Iterates(run(n), n, a, f, V) /\ Iterates(run(n-1), n-1, a, f, V)
      BY <1>1, <3>1
    <3>3. run(n)[n] = f[run(n)[n-1]]
      BY <2>2, <3>2 DEF Iterates
    <3>4. run(n-1)[n-1] = run(n)[n-1]
      BY <3>1, <3>2, IteratesAgree
    <3>5. QED
      BY <2>2, <3>1, <3>3, <3>4
  <2>3. QED
    BY <2>1, <2>2
<1>4. g \in [Nat -> V]
  BY <1>2
<1> HIDE DEF g
<1>5. IsIteration(g, a, f)
  BY <1>3 DEF IsIteration
<1>6. QED
  BY <1>4, <1>5

\* A set of naturals that holds zero and every successor holds them all.
LEMMA InductionOver ==
    ASSUME NEW T \in SUBSET Nat, 0 \in T, \A n \in T : n + 1 \in T
    PROVE  \A n \in Nat : n \in T
<1> DEFINE Missing == {n \in Nat : n \notin T}
<1>1. SUFFICES ASSUME Missing # {} PROVE FALSE
  OBVIOUS
<1>2. PICK n \in Missing : \A m \in Missing : n <= m
  BY <1>1, LeastNat
<1>3. n # 0 /\ n - 1 \in Nat /\ n - 1 \notin Missing
  BY <1>2
<1>4. (n - 1) + 1 \in T
  BY <1>3
<1>5. QED
  BY <1>2, <1>3, <1>4

-----------------------------------------------------------------------------
(* The function the fold is defined by *)

Chosen(s) == CHOOSE x \in s : TRUE

IsTotals(g, f, S) ==
    g = [s \in SUBSET S |->
           IF s = {} THEN 0 ELSE f[Chosen(s)] + g[s \ {Chosen(s)}]]

Totals(f) == CHOOSE g : IsTotals(g, f, DOMAIN f)

LEMMA SumIsTotal ==
    ASSUME NEW f
    PROVE  SumFunction(f) = Totals(f)[DOMAIN f]
BY DEF SumFunction, SumFunctionOnSet, FoldFunction, FoldFunctionOnSet,
       MapThenFoldSet, Totals, IsTotals, Chosen

\* The totals of the subsets of at most n elements.
Small(S, n) == {s \in SUBSET S : Cardinality(s) <= n}
TotalsUpTo(g, f, S, n) ==
    /\ g \in [Small(S, n) -> Int]
    /\ \A s \in Small(S, n) :
          g[s] = IF s = {} THEN 0 ELSE f[Chosen(s)] + g[s \ {Chosen(s)}]

\* Totals of subsets up to a size extend to the next.
LEMMA TotalsExtend ==
    ASSUME NEW S, IsFiniteSet(S), NEW f \in [S -> Int], NEW n \in Nat,
           NEW g, TotalsUpTo(g, f, S, n)
    PROVE  \E h : TotalsUpTo(h, f, S, n + 1)
<1> DEFINE h == [s \in Small(S, n + 1) |->
                   IF Cardinality(s) <= n THEN g[s]
                   ELSE f[Chosen(s)] + g[s \ {Chosen(s)}]]
<1>1. ASSUME NEW s \in SUBSET S
      PROVE  /\ IsFiniteSet(s) /\ Cardinality(s) \in Nat
             /\ s = {} <=> Cardinality(s) = 0
             /\ s # {} => /\ Chosen(s) \in S
                          /\ (s \ {Chosen(s)}) \in SUBSET S
                          /\ Cardinality(s \ {Chosen(s)}) = Cardinality(s) - 1
  <2>1. IsFiniteSet(s) /\ Cardinality(s) \in Nat
    BY FS_Subset, FS_CardinalityType
  <2>2. s = {} <=> Cardinality(s) = 0
    BY <2>1, FS_EmptySet
  <2>3. s # {} => Chosen(s) \in s
    BY DEF Chosen
  <2>4. QED
    BY <2>1, <2>2, <2>3, FS_RemoveElement
<1>2. ASSUME NEW s \in Small(S, n + 1)
      PROVE  /\ h[s] \in Int
             /\ h[s] = IF s = {} THEN 0 ELSE f[Chosen(s)] + h[s \ {Chosen(s)}]
  <2>1. s \in SUBSET S /\ Cardinality(s) <= n + 1
    BY DEF Small
  <2>2. CASE s = {}
    <3>1. Cardinality(s) = 0
      BY <1>1, <2>1, <2>2
    <3>2. s \in Small(S, n)
      BY <2>1, <3>1 DEF Small
    <3>3. QED
      BY <2>2, <3>1, <3>2 DEF TotalsUpTo
  <2>3. CASE s # {}
    <3> DEFINE t == s \ {Chosen(s)}
    <3>1. /\ t \in Small(S, n) /\ t \in Small(S, n + 1)
          /\ Cardinality(t) <= n /\ f[Chosen(s)] \in Int
      BY <1>1, <2>1, <2>3 DEF Small
    <3>2. h[t] = g[t] /\ g[t] \in Int
      BY <3>1 DEF TotalsUpTo
    <3> HIDE DEF t
    <3>3. CASE Cardinality(s) <= n
      <4>1. s \in Small(S, n)
        BY <2>1, <3>3 DEF Small
      <4>2. h[s] = g[s] /\ g[s] = f[Chosen(s)] + g[t]
        BY <2>3, <3>3, <4>1 DEF TotalsUpTo, t
      <4>3. QED
        BY <2>3, <3>1, <3>2, <4>2 DEF t
    <3>4. CASE ~(Cardinality(s) <= n)
      <4>1. h[s] = f[Chosen(s)] + g[t]
        BY <3>4 DEF t
      <4>2. QED
        BY <2>3, <3>1, <3>2, <4>1 DEF t
    <3>5. QED
      BY <3>3, <3>4
  <2>4. QED
    BY <2>2, <2>3
<1>3. h \in [Small(S, n + 1) -> Int]
  BY <1>2
<1>4. TotalsUpTo(h, f, S, n + 1)
  BY <1>2, <1>3 DEF TotalsUpTo
<1>5. QED
  BY <1>4

\* The recursive function exists, so the CHOOSE finds it, and it is integer.
LEMMA TotalsExist ==
    ASSUME NEW S, IsFiniteSet(S), NEW f \in [S -> Int]
    PROVE  IsTotals(Totals(f), f, S) /\ Totals(f) \in [SUBSET S -> Int]
<1> DEFINE Missing == {n \in Nat : ~ \E g : TotalsUpTo(g, f, S, n)}
<1>1. Missing = {}
  <2>1. SUFFICES ASSUME Missing # {} PROVE FALSE
    OBVIOUS
  <2>2. PICK n \in Missing : \A m \in Missing : n <= m
    BY <2>1, LeastNat
  <2>3. CASE n = 0
    <3> DEFINE g == [s \in Small(S, 0) |-> 0]
    <3>1. \A s \in Small(S, 0) : s = {}
      <4>1. ASSUME NEW s \in Small(S, 0) PROVE s = {}
        <5>1. IsFiniteSet(s) /\ Cardinality(s) \in Nat /\ Cardinality(s) <= 0
          BY FS_Subset, FS_CardinalityType DEF Small
        <5>2. QED
          BY <5>1, FS_EmptySet
      <4>2. QED
        BY <4>1
    <3>2. TotalsUpTo(g, f, S, 0)
      BY <3>1 DEF TotalsUpTo
    <3>3. QED
      BY <2>3, <3>2
  <2>4. CASE n # 0
    <3>1. n - 1 \in Nat /\ n - 1 \notin Missing
      BY <2>2, <2>4
    <3>2. PICK g : TotalsUpTo(g, f, S, n - 1)
      BY <3>1
    <3>3. \E h : TotalsUpTo(h, f, S, (n - 1) + 1)
      BY <3>1, <3>2, TotalsExtend
    <3>4. QED
      BY <3>3
  <2>5. QED
    BY <2>3, <2>4
<1>2. Cardinality(S) \in Nat
  BY FS_CardinalityType
<1>3. PICK g : TotalsUpTo(g, f, S, Cardinality(S))
  BY <1>1, <1>2
<1>4. Small(S, Cardinality(S)) = SUBSET S
  BY FS_Subset DEF Small
<1>5. g \in [SUBSET S -> Int] /\ IsTotals(g, f, S)
  BY <1>3, <1>4 DEF TotalsUpTo, IsTotals
<1>6. IsTotals(Totals(f), f, S)
  BY <1>5 DEF Totals
<1>7. Totals(f) \in [SUBSET S -> Int]
  <2> DEFINE g1 == Totals(f)
             Bad == {s \in SUBSET S : g1[s] \notin Int}
  <2>1. \A s \in SUBSET S :
           g1[s] = IF s = {} THEN 0 ELSE f[Chosen(s)] + g1[s \ {Chosen(s)}]
    BY <1>6 DEF IsTotals
  <2>2. g1 = [s \in SUBSET S |-> g1[s]]
    BY <1>6 DEF IsTotals
  <2> HIDE DEF g1
  <2>3. Bad = {}
    <3>1. SUFFICES ASSUME Bad # {} PROVE FALSE
      OBVIOUS
    <3>2. PICK s \in Bad : \A x \in s : (s \ {x}) \notin Bad
      BY <3>1, SmallestSet
    <3>3. s \in SUBSET S /\ g1[s] \notin Int
      BY <3>2
    <3>4. g1[s] = IF s = {} THEN 0 ELSE f[Chosen(s)] + g1[s \ {Chosen(s)}]
      BY <2>1, <3>3
    <3>5. s # {}
      BY <3>3, <3>4
    <3>6. Chosen(s) \in s
      BY <3>5 DEF Chosen
    <3>7. g1[s \ {Chosen(s)}] \in Int /\ f[Chosen(s)] \in Int
      BY <3>2, <3>3, <3>6
    <3>8. QED
      BY <3>3, <3>4, <3>5, <3>7
  <2>4. QED
    BY <2>2, <2>3 DEF g1
<1>8. QED
  BY <1>6, <1>7

-----------------------------------------------------------------------------
(* The order does not matter *)

\* What a recursive function of totals says, subset by subset.
LEMMA TotalsFacts ==
    ASSUME NEW S, IsFiniteSet(S), NEW f \in [S -> Int]
    PROVE  /\ \A T \in SUBSET S : Totals(f)[T] \in Int
           /\ Totals(f)[{}] = 0
           /\ \A T \in SUBSET S : T # {} =>
                 /\ Chosen(T) \in T
                 /\ Totals(f)[T] = f[Chosen(T)] + Totals(f)[T \ {Chosen(T)}]
<1> DEFINE g == Totals(f)
<1>1. g \in [SUBSET S -> Int] /\ IsTotals(g, f, S)
  BY TotalsExist
<1>2. \A T \in SUBSET S :
         g[T] = IF T = {} THEN 0 ELSE f[Chosen(T)] + g[T \ {Chosen(T)}]
  BY <1>1 DEF IsTotals
<1> HIDE DEF g
<1>3. ASSUME NEW T \in SUBSET S, T # {}
      PROVE  Chosen(T) \in T /\ g[T] = f[Chosen(T)] + g[T \ {Chosen(T)}]
  <2>1. Chosen(T) \in T
    BY <1>3 DEF Chosen
  <2>2. QED
    BY <1>2, <1>3, <2>1
<1>4. g[{}] = 0
  BY <1>2
<1>5. QED
  BY <1>1, <1>3, <1>4 DEF g

\* Any element may be taken out first.
LEMMA TotalsRemove ==
    ASSUME NEW S, IsFiniteSet(S), NEW f \in [S -> Int],
           NEW T \in SUBSET S, NEW y \in T
    PROVE  Totals(f)[T] = f[y] + Totals(f)[T \ {y}]
<1> DEFINE g == Totals(f)
           Bad == {U \in SUBSET S : \E z \in U : g[U] # f[z] + g[U \ {z}]}
<1>1. /\ \A U \in SUBSET S : g[U] \in Int
      /\ \A U \in SUBSET S : U # {} =>
             Chosen(U) \in U /\ g[U] = f[Chosen(U)] + g[U \ {Chosen(U)}]
  BY TotalsFacts
<1> HIDE DEF g
<1>2. Bad = {}
  <2>1. SUFFICES ASSUME Bad # {} PROVE FALSE
    OBVIOUS
  <2>2. PICK U \in Bad : \A x \in U : (U \ {x}) \notin Bad
    BY <2>1, SmallestSet
  <2>3. U \in SUBSET S
    OBVIOUS
  <2>4. PICK z \in U : g[U] # f[z] + g[U \ {z}]
    OBVIOUS
  <2> DEFINE c == Chosen(U)
  <2>5. c \in U /\ g[U] = f[c] + g[U \ {c}]
    BY <1>1, <2>3, <2>4
  <2> HIDE DEF c
  <2>6. c # z
    BY <2>4, <2>5
  <2>7. g[U \ {c}] = f[z] + g[(U \ {c}) \ {z}]
    BY <2>2, <2>3, <2>5, <2>6
  <2>8. g[U \ {z}] = f[c] + g[(U \ {z}) \ {c}]
    BY <2>2, <2>3, <2>4, <2>5, <2>6
  <2>9. (U \ {c}) \ {z} = (U \ {z}) \ {c}
    OBVIOUS
  <2>10. f[z] \in Int /\ f[c] \in Int /\ g[(U \ {c}) \ {z}] \in Int
    BY <1>1, <2>3, <2>4, <2>5
  <2> DEFINE r == g[(U \ {c}) \ {z}]
  <2>11. g[U \ {z}] = f[c] + r /\ g[U] = f[c] + (f[z] + r) /\ r \in Int
    BY <2>5, <2>7, <2>8, <2>9, <2>10
  <2> HIDE DEF r
  <2>12. g[U] = f[z] + (f[c] + r)
    BY <2>10, <2>11
  <2>13. QED
    BY <2>4, <2>11, <2>12
<1>3. T \in Bad <=> \E z \in T : g[T] # f[z] + g[T \ {z}]
  OBVIOUS
<1> HIDE DEF Bad
<1>4. QED
  BY <1>2, <1>3 DEF g

\* Functions that agree on a set have the same total over it.
LEMMA TotalsAgree ==
    ASSUME NEW S1, IsFiniteSet(S1), NEW f1 \in [S1 -> Int],
           NEW S2, IsFiniteSet(S2), NEW f2 \in [S2 -> Int],
           NEW T, T \subseteq S1 \cap S2, \A x \in T : f1[x] = f2[x]
    PROVE  Totals(f1)[T] = Totals(f2)[T]
<1> DEFINE g1 == Totals(f1)
           g2 == Totals(f2)
           Bad == {U \in SUBSET T : g1[U] # g2[U]}
<1>1. /\ g1[{}] = 0
      /\ \A U \in SUBSET S1 : U # {} =>
             Chosen(U) \in U /\ g1[U] = f1[Chosen(U)] + g1[U \ {Chosen(U)}]
  BY TotalsFacts
<1>2. /\ g2[{}] = 0
      /\ \A U \in SUBSET S2 : U # {} =>
             Chosen(U) \in U /\ g2[U] = f2[Chosen(U)] + g2[U \ {Chosen(U)}]
  BY TotalsFacts
<1> HIDE DEF g1, g2
<1>3. Bad = {}
  <2>1. SUFFICES ASSUME Bad # {} PROVE FALSE
    OBVIOUS
  <2>2. IsFiniteSet(T)
    BY FS_Subset
  <2>3. PICK U \in Bad : \A x \in U : (U \ {x}) \notin Bad
    BY <2>1, <2>2, SmallestSet
  <2>4. U \in SUBSET T /\ g1[U] # g2[U]
    OBVIOUS
  <2>5. U # {} /\ U \in SUBSET S1 /\ U \in SUBSET S2
    <3>1. U = {} => g1[U] = 0 /\ g2[U] = 0
      BY <1>1, <1>2
    <3>2. QED
      BY <2>4, <3>1
  <2> DEFINE c == Chosen(U)
  <2>6. /\ c \in U
        /\ g1[U] = f1[c] + g1[U \ {c}]
        /\ g2[U] = f2[c] + g2[U \ {c}]
    BY <1>1, <1>2, <2>5
  <2> HIDE DEF c
  <2>7. f1[c] = f2[c] /\ g1[U \ {c}] = g2[U \ {c}]
    BY <2>3, <2>4, <2>6
  <2>8. QED
    BY <2>4, <2>6, <2>7
<1>4. T \notin Bad
  BY <1>3
<1>5. QED
  BY <1>4 DEF g1, g2

-----------------------------------------------------------------------------
(* Sums over sets *)

\* The sum is an integer, empty sums are 0, and any term can be taken out.
LEMMA SumOverFacts ==
    ASSUME NEW T, IsFiniteSet(T), NEW f, \A x \in T : f[x] \in Int
    PROVE  /\ SumOver(f, T) \in Int
           /\ T = {} => SumOver(f, T) = 0
           /\ \A y \in T : SumOver(f, T) = f[y] + SumOver(f, T \ {y})
<1> DEFINE h == [x \in T |-> f[x]]
<1>1. h \in [T -> Int] /\ DOMAIN h = T
  OBVIOUS
<1>2. SumOver(f, T) = Totals(h)[T]
  BY <1>1, SumIsTotal DEF SumOver
<1>3. SumOver(f, T) \in Int /\ (T = {} => SumOver(f, T) = 0)
  <2> HIDE DEF h
  <2>1. Totals(h)[T] \in Int /\ Totals(h)[{}] = 0
    BY <1>1, TotalsFacts
  <2>2. QED
    BY <1>2, <2>1
<1>4. ASSUME NEW y \in T
      PROVE  SumOver(f, T) = f[y] + SumOver(f, T \ {y})
  <2> DEFINE k == [x \in T \ {y} |-> f[x]]
  <2>1. k \in [T \ {y} -> Int] /\ DOMAIN k = T \ {y} /\ IsFiniteSet(T \ {y})
    BY FS_Subset
  <2>2. SumOver(f, T \ {y}) = Totals(k)[T \ {y}]
    BY <2>1, SumIsTotal DEF SumOver
  <2>3. \A x \in T \ {y} : h[x] = k[x]
    OBVIOUS
  <2>4. h[y] = f[y]
    OBVIOUS
  <2> HIDE DEF h, k
  <2>5. Totals(h)[T \ {y}] = Totals(k)[T \ {y}]
    BY <1>1, <2>1, <2>3, TotalsAgree
  <2>6. Totals(h)[T] = h[y] + Totals(h)[T \ {y}]
    BY <1>1, TotalsRemove
  <2>7. QED
    BY <1>2, <2>2, <2>4, <2>5, <2>6
<1>5. QED
  BY <1>3, <1>4

\* A function's sum is the sum over its domain.
LEMMA SumIsSumOver ==
    ASSUME NEW S, NEW f, f = [x \in S |-> f[x]]
    PROVE  SumFunction(f) = SumOver(f, S)
BY DEF SumOver

\* Equal terms, equal sums.
LEMMA SumOverSame ==
    ASSUME NEW T, NEW f, NEW g, \A x \in T : f[x] = g[x]
    PROVE  SumOver(f, T) = SumOver(g, T)
<1>1. [x \in T |-> f[x]] = [x \in T |-> g[x]]
  OBVIOUS
<1>2. QED
  BY <1>1 DEF SumOver

\* Term by term larger, larger in all.
LEMMA SumOverMonotone ==
    ASSUME NEW S, IsFiniteSet(S), NEW f, NEW g,
           \A x \in S : f[x] \in Int /\ g[x] \in Int /\ f[x] <= g[x]
    PROVE  SumOver(f, S) <= SumOver(g, S)
<1> DEFINE Bad == {T \in SUBSET S : ~(SumOver(f, T) <= SumOver(g, T))}
<1>1. SUFFICES ASSUME Bad # {} PROVE FALSE
  OBVIOUS
<1>2. PICK T \in Bad : \A x \in T : (T \ {x}) \notin Bad
  BY <1>1, SmallestSet
<1>3. T \in SUBSET S /\ ~(SumOver(f, T) <= SumOver(g, T)) /\ IsFiniteSet(T)
  BY FS_Subset
<1>4. T # {}
  <2>1. T = {} => SumOver(f, T) = 0 /\ SumOver(g, T) = 0
    BY <1>3, SumOverFacts
  <2>2. QED
    BY <1>3, <2>1
<1>5. PICK y \in T : TRUE
  BY <1>4
<1>6. /\ SumOver(f, T) = f[y] + SumOver(f, T \ {y})
      /\ SumOver(g, T) = g[y] + SumOver(g, T \ {y})
  BY <1>3, SumOverFacts
<1>7. IsFiniteSet(T \ {y}) /\ T \ {y} \in SUBSET S
  BY <1>3, FS_Subset
<1>8. SumOver(f, T \ {y}) \in Int /\ SumOver(g, T \ {y}) \in Int
  BY <1>7, SumOverFacts
<1>9. SumOver(f, T \ {y}) <= SumOver(g, T \ {y})
  BY <1>2, <1>7
<1>10. f[y] \in Int /\ g[y] \in Int /\ f[y] <= g[y]
  BY <1>3
<1>11. QED
  BY <1>3, <1>6, <1>8, <1>9, <1>10

\* The sum of two functions.
LEMMA SumOverAdd ==
    ASSUME NEW S, IsFiniteSet(S), NEW f, NEW g, NEW h,
           \A x \in S : f[x] \in Int /\ g[x] \in Int /\ h[x] = f[x] + g[x]
    PROVE  SumOver(h, S) = SumOver(f, S) + SumOver(g, S)
<1> DEFINE Bad == {T \in SUBSET S : SumOver(h, T) # SumOver(f, T) + SumOver(g, T)}
<1>1. SUFFICES ASSUME Bad # {} PROVE FALSE
  OBVIOUS
<1>2. PICK T \in Bad : \A x \in T : (T \ {x}) \notin Bad
  BY <1>1, SmallestSet
<1>3. /\ T \in SUBSET S /\ IsFiniteSet(T)
      /\ SumOver(h, T) # SumOver(f, T) + SumOver(g, T)
      /\ \A x \in T : f[x] \in Int /\ g[x] \in Int /\ h[x] \in Int
  BY FS_Subset
<1>4. T # {}
  <2>1. T = {} => SumOver(f, T) = 0 /\ SumOver(g, T) = 0 /\ SumOver(h, T) = 0
    BY <1>3, SumOverFacts
  <2>2. QED
    BY <1>3, <2>1
<1>5. PICK y \in T : TRUE
  BY <1>4
<1>6. /\ SumOver(f, T) = f[y] + SumOver(f, T \ {y})
      /\ SumOver(g, T) = g[y] + SumOver(g, T \ {y})
      /\ SumOver(h, T) = h[y] + SumOver(h, T \ {y})
  BY <1>3, SumOverFacts
<1>7. IsFiniteSet(T \ {y}) /\ T \ {y} \in SUBSET S
  BY <1>3, FS_Subset
<1>8. SumOver(f, T \ {y}) \in Int /\ SumOver(g, T \ {y}) \in Int
  BY <1>7, SumOverFacts
<1>9. SumOver(h, T \ {y}) = SumOver(f, T \ {y}) + SumOver(g, T \ {y})
  BY <1>2, <1>7
<1>10. f[y] \in Int /\ g[y] \in Int /\ h[y] = f[y] + g[y]
  BY <1>3
<1>11. QED
  BY <1>3, <1>6, <1>8, <1>9, <1>10

\* A factor common to every term.
LEMMA SumOverScale ==
    ASSUME NEW S, IsFiniteSet(S), NEW f, NEW h, NEW c \in Int,
           \A x \in S : f[x] \in Int /\ h[x] = c * f[x]
    PROVE  SumOver(h, S) = c * SumOver(f, S)
<1> DEFINE Bad == {T \in SUBSET S : SumOver(h, T) # c * SumOver(f, T)}
<1>1. SUFFICES ASSUME Bad # {} PROVE FALSE
  OBVIOUS
<1>2. PICK T \in Bad : \A x \in T : (T \ {x}) \notin Bad
  BY <1>1, SmallestSet
<1>3. /\ T \in SUBSET S /\ IsFiniteSet(T)
      /\ SumOver(h, T) # c * SumOver(f, T)
      /\ \A x \in T : f[x] \in Int /\ h[x] \in Int
  BY FS_Subset
<1>4. T # {}
  <2>1. T = {} => SumOver(f, T) = 0 /\ SumOver(h, T) = 0
    BY <1>3, SumOverFacts
  <2>2. QED
    BY <1>3, <2>1
<1>5. PICK y \in T : TRUE
  BY <1>4
<1>6. /\ SumOver(f, T) = f[y] + SumOver(f, T \ {y})
      /\ SumOver(h, T) = h[y] + SumOver(h, T \ {y})
  BY <1>3, SumOverFacts
<1>7. IsFiniteSet(T \ {y}) /\ T \ {y} \in SUBSET S
  BY <1>3, FS_Subset
<1>8. SumOver(f, T \ {y}) \in Int
  BY <1>7, SumOverFacts
<1>9. SumOver(h, T \ {y}) = c * SumOver(f, T \ {y})
  BY <1>2, <1>7
<1>10. f[y] \in Int /\ h[y] = c * f[y]
  BY <1>3
<1>11. \A m, n \in Int : c * (m + n) = c * m + c * n
  OBVIOUS
<1>12. SumOver(h, T) = c * (f[y] + SumOver(f, T \ {y}))
  BY <1>6, <1>8, <1>9, <1>10, <1>11
<1>13. QED
  BY <1>3, <1>6, <1>12

\* The same terms under other names.
LEMMA SumOverRename ==
    ASSUME NEW S, IsFiniteSet(S), NEW U, NEW f, NEW g, NEW m \in [S -> U],
           U = {m[x] : x \in S},
           \A x, y \in S : m[x] = m[y] => x = y,
           \A x \in S : f[x] \in Int /\ g[m[x]] = f[x]
    PROVE  SumOver(g, U) = SumOver(f, S)
<1> DEFINE Img(T) == {m[x] : x \in T}
           Bad == {T \in SUBSET S : SumOver(g, Img(T)) # SumOver(f, T)}
<1>1. SUFFICES ASSUME Bad # {} PROVE FALSE
  <2>1. S \in Bad <=> SumOver(g, U) # SumOver(f, S)
    OBVIOUS
  <2> HIDE DEF Bad
  <2>2. QED
    BY <2>1
<1>2. PICK T \in Bad : \A x \in T : (T \ {x}) \notin Bad
  BY <1>1, SmallestSet
<1>3. /\ T \in SUBSET S /\ IsFiniteSet(T)
      /\ SumOver(g, Img(T)) # SumOver(f, T)
  BY FS_Subset
<1>4. IsFiniteSet(Img(T))
  <2>1. [x \in T |-> m[x]] \in Surjection(T, Img(T))
    BY <1>3 DEF Surjection
  <2>2. QED
    BY <1>3, <2>1, FS_Surjection
<1>5. \A u \in Img(T) : g[u] \in Int
  BY <1>3
<1>6. T # {}
  <2>1. T = {} => Img(T) = {}
    OBVIOUS
  <2> HIDE DEF Img
  <2>2. T = {} => SumOver(f, T) = 0 /\ SumOver(g, Img(T)) = 0
    BY <1>3, <1>4, <1>5, <2>1, SumOverFacts
  <2>3. QED
    BY <1>3, <2>2
<1>7. PICK y \in T : TRUE
  BY <1>6
<1>8. m[y] \in Img(T) /\ Img(T) \ {m[y]} = Img(T \ {y}) /\ g[m[y]] = f[y]
  BY <1>3
<1>9. T \ {y} \in SUBSET S /\ SumOver(g, Img(T \ {y})) = SumOver(f, T \ {y})
  BY <1>2, <1>3
<1> HIDE DEF Img
<1>10. SumOver(f, T) = f[y] + SumOver(f, T \ {y})
  BY <1>3, SumOverFacts
<1>11. SumOver(g, Img(T)) = g[m[y]] + SumOver(g, Img(T) \ {m[y]})
  BY <1>4, <1>5, <1>8, SumOverFacts
<1>12. QED
  BY <1>3, <1>8, <1>9, <1>10, <1>11

\* A sum over two parts.
LEMMA SumOverUnion ==
    ASSUME NEW S, IsFiniteSet(S), NEW U, IsFiniteSet(U), S \cap U = {},
           NEW f, \A x \in S \cup U : f[x] \in Int
    PROVE  SumOver(f, S \cup U) = SumOver(f, S) + SumOver(f, U)
<1> DEFINE Bad == {T \in SUBSET S : SumOver(f, T \cup U) # SumOver(f, T) + SumOver(f, U)}
<1>1. SUFFICES ASSUME Bad # {} PROVE FALSE
  OBVIOUS
<1>2. PICK T \in Bad : \A x \in T : (T \ {x}) \notin Bad
  BY <1>1, SmallestSet
<1>3. /\ T \in SUBSET S /\ IsFiniteSet(T) /\ IsFiniteSet(T \cup U)
      /\ SumOver(f, T \cup U) # SumOver(f, T) + SumOver(f, U)
      /\ \A x \in T \cup U : f[x] \in Int
  BY FS_Subset, FS_Union
<1>4. SumOver(f, U) \in Int
  BY SumOverFacts
<1>5. T # {}
  <2>1. T = {} => SumOver(f, T) = 0
    BY <1>3, SumOverFacts
  <2>2. T = {} => SumOver(f, T \cup U) = SumOver(f, U)
    <3>1. T = {} => T \cup U = U
      OBVIOUS
    <3>2. QED
      BY <3>1
  <2>3. QED
    BY <1>3, <1>4, <2>1, <2>2
<1>6. PICK y \in T : TRUE
  BY <1>5
<1>7. y \in T \cup U /\ (T \cup U) \ {y} = (T \ {y}) \cup U
  BY <1>3
<1>8. SumOver(f, T) = f[y] + SumOver(f, T \ {y})
  BY <1>3, SumOverFacts
<1>9. SumOver(f, T \cup U) = f[y] + SumOver(f, (T \ {y}) \cup U)
  BY <1>3, <1>7, SumOverFacts
<1>10. T \ {y} \in SUBSET S /\ IsFiniteSet(T \ {y})
  BY <1>3, FS_Subset
<1>11. SumOver(f, (T \ {y}) \cup U) = SumOver(f, T \ {y}) + SumOver(f, U)
  BY <1>2, <1>10
<1>12. SumOver(f, T \ {y}) \in Int /\ f[y] \in Int
  BY <1>3, <1>10, SumOverFacts
<1>13. QED
  BY <1>3, <1>4, <1>8, <1>9, <1>11, <1>12

\* Sums of naturals are naturals, and none of their terms is larger.
LEMMA SumOverNat ==
    ASSUME NEW S, IsFiniteSet(S), NEW f, \A x \in S : f[x] \in Nat
    PROVE  SumOver(f, S) \in Nat /\ \A y \in S : f[y] <= SumOver(f, S)
<1>1. ASSUME NEW T, T \subseteq S
      PROVE  SumOver(f, T) \in Nat
  <2> DEFINE zero == [x \in T |-> 0 * f[x]]
  <2>1. IsFiniteSet(T)
    BY <1>1, FS_Subset
  <2>2. SumOver(f, T) \in Int
    BY <1>1, <2>1, SumOverFacts
  <2>3. \A x \in T : f[x] \in Int /\ zero[x] = 0 * f[x] /\ zero[x] = 0
    BY <1>1
  <2> HIDE DEF zero
  <2>4. SumOver(zero, T) = 0 * SumOver(f, T)
    BY <2>1, <2>3, SumOverScale
  <2>5. \A x \in T : zero[x] \in Int /\ f[x] \in Int /\ zero[x] <= f[x]
    BY <1>1, <2>3
  <2>6. SumOver(zero, T) <= SumOver(f, T)
    BY <2>1, <2>5, SumOverMonotone
  <2>7. QED
    BY <2>2, <2>4, <2>6
<1>2. ASSUME NEW y \in S
      PROVE  f[y] <= SumOver(f, S)
  <2>1. SumOver(f, S) = f[y] + SumOver(f, S \ {y})
    BY SumOverFacts
  <2>2. SumOver(f, S \ {y}) \in Nat /\ f[y] \in Nat
    BY <1>1
  <2>3. QED
    BY <2>1, <2>2
<1>3. QED
  BY <1>1, <1>2

\* One entry changes, and the sum by as much.
LEMMA SumOverUpdate ==
    ASSUME NEW S, IsFiniteSet(S), NEW f, NEW g, NEW y \in S,
           \A x \in S : f[x] \in Int, g[y] \in Int,
           \A x \in S \ {y} : g[x] = f[x]
    PROVE  SumOver(g, S) = SumOver(f, S) - f[y] + g[y]
<1>1. \A x \in S : g[x] \in Int
  OBVIOUS
<1>2. SumOver(f, S) = f[y] + SumOver(f, S \ {y})
  BY SumOverFacts
<1>3. SumOver(g, S) = g[y] + SumOver(g, S \ {y})
  BY <1>1, SumOverFacts
<1>4. SumOver(g, S \ {y}) = SumOver(f, S \ {y})
  BY SumOverSame
<1>5. IsFiniteSet(S \ {y})
  BY FS_Subset
<1>6. SumOver(f, S \ {y}) \in Int
  BY <1>5, SumOverFacts
<1>7. QED
  BY <1>2, <1>3, <1>4, <1>6

\* Sums of zeros, and of one term.
LEMMA SumOverZero ==
    ASSUME NEW S, IsFiniteSet(S), NEW f, \A x \in S : f[x] = 0
    PROVE  SumOver(f, S) = 0
<1>1. PICK k \in Int : k = 0
  OBVIOUS
<1>2. \A x \in S : f[x] \in Int
  OBVIOUS
<1>3. \A x \in S : f[x] = k * f[x]
  BY <1>1
<1>4. SumOver(f, S) = k * SumOver(f, S)
  BY <1>2, <1>3, SumOverScale
<1>5. SumOver(f, S) \in Int
  BY <1>2, SumOverFacts
<1>6. QED
  BY <1>1, <1>4, <1>5

LEMMA SumOverSingle ==
    ASSUME NEW x, NEW f, f[x] \in Int
    PROVE  SumOver(f, {x}) = f[x]
<1>1. IsFiniteSet({x}) /\ {x} \ {x} = {}
  BY FS_Singleton
<1>2. SumOver(f, {x}) = f[x] + SumOver(f, {})
  BY <1>1, SumOverFacts
<1>3. SumOver(f, {}) = 0
  BY FS_EmptySet, SumOverFacts
<1>4. QED
  BY <1>2, <1>3

\* The entries of A become zero and those of B, zero before, get values.
LEMMA SumOverReplace ==
    ASSUME NEW S, IsFiniteSet(S), NEW A, A \subseteq S, NEW B, B \subseteq S,
           A \cap B = {}, NEW f, NEW g,
           \A x \in S : f[x] \in Int /\ g[x] \in Int,
           \A x \in A : g[x] = 0, \A x \in B : f[x] = 0,
           \A x \in S : x \notin A /\ x \notin B => g[x] = f[x]
    PROVE  /\ SumOver(g, S) = SumOver(f, S) - SumOver(f, A) + SumOver(g, B)
           /\ SumOver(f, S) \in Int /\ SumOver(f, A) \in Int /\ SumOver(g, B) \in Int
<1> DEFINE R == S \ (A \cup B)
<1>1. /\ IsFiniteSet(A) /\ IsFiniteSet(B) /\ IsFiniteSet(R) /\ IsFiniteSet(A \cup B)
      /\ S = (A \cup B) \cup R /\ (A \cup B) \cap R = {}
      /\ \A x \in R : g[x] = f[x]
  BY FS_Subset, FS_Union
<1> HIDE DEF R
<1>2. SumOver(f, S) = SumOver(f, A \cup B) + SumOver(f, R)
  BY <1>1, SumOverUnion
<1>3. SumOver(g, S) = SumOver(g, A \cup B) + SumOver(g, R)
  BY <1>1, SumOverUnion
<1>4. SumOver(f, A \cup B) = SumOver(f, A) + SumOver(f, B)
  BY <1>1, SumOverUnion
<1>5. SumOver(g, A \cup B) = SumOver(g, A) + SumOver(g, B)
  BY <1>1, SumOverUnion
<1>6. SumOver(f, B) = 0 /\ SumOver(g, A) = 0
  BY <1>1, SumOverZero
<1>7. SumOver(g, R) = SumOver(f, R)
  BY <1>1, SumOverSame
<1>8. SumOver(f, A) \in Int /\ SumOver(g, B) \in Int /\ SumOver(f, R) \in Int
  BY <1>1, SumOverFacts
<1>9. QED
  BY <1>2, <1>3, <1>4, <1>5, <1>6, <1>7, <1>8
=============================================================================
