-------------------------- MODULE InductionTheorems --------------------------
(***************************************************************************)
(* Induction with a set in the place of the predicate: over finite sets,   *)
(* over the naturals, for functions defined by recursion.  And what        *)
(* SumFunctionOnSet of the community modules computes, for sets of any     *)
(* finite size: the order in which the fold takes the elements does not    *)
(* show.                                                                   *)
(***************************************************************************)
EXTENDS Integers, Functions, FiniteSetTheorems, WellFoundedInduction, TLAPS

(* Induction over the naturals, for a set of them.                         *)
LEMMA NatSet ==
  ASSUME NEW P \in SUBSET Nat, \A n \in Nat : (\A m \in 0..(n - 1) : m \in P) => n \in P
  PROVE  P = Nat
<1> DEFINE Bad == Nat \ P
           R == OpToRel(<, Nat)
<1> SUFFICES ASSUME Bad # {}
             PROVE  FALSE
  OBVIOUS
<1>1. IsWellFoundedOn(R, Nat)
  BY NatLessThanWellFounded
<1>2. PICK n \in Bad : \A m \in Bad : ~ (<<m, n>> \in R)
  <2> HIDE DEF R, Bad
  <2>1. Bad \subseteq Nat
    BY DEF Bad
  <2> QED  BY <1>1, <2>1, WFMin
<1>3. \A m \in 0..(n - 1) : m \in P
  <2> SUFFICES ASSUME NEW m \in 0..(n - 1), m \notin P
               PROVE  FALSE
    OBVIOUS
  <2>1. m \in Nat /\ m < n /\ n \in Nat /\ m \in Bad
    OBVIOUS
  <2>2. <<m, n>> \in R
    BY <2>1 DEF OpToRel
  <2> QED  BY <1>2, <2>1, <2>2
<1> QED  BY <1>3

(* A function defined by recursion: its value at x is a base value or is    *)
(* made of its value at g[x], which is smaller.                            *)
WellDefined(S, V, size, Stop, base, g, h) ==
  /\ size \in [S -> Nat] /\ V # {}
  /\ \A x \in S \cap Stop : base[x] \in V
  /\ \A x \in S \ Stop : g[x] \in S /\ size[g[x]] < size[x]
  /\ \A x \in S \ Stop : \A v \in V : h[<<x, v>>] \in V
Solves(f, S, V, Stop, base, g, h) ==
  f \in [S -> V] /\ \A x \in S : f[x] = IF x \in Stop THEN base[x] ELSE h[<<x, f[g[x]]>>]

LEMMA Recursion ==
  ASSUME NEW S, NEW V, NEW size, NEW Stop, NEW base, NEW g, NEW h,
         WellDefined(S, V, size, Stop, base, g, h)
  PROVE  \E f : Solves(f, S, V, Stop, base, g, h)
<1> USE DEF WellDefined
<1> PICK v0 \in V : TRUE
  OBVIOUS
<1> DEFINE Eq(f, x) == f[x] = IF x \in Stop THEN base[x] ELSE h[<<x, f[g[x]]>>]
           Upto(f, n) == \A x \in S : size[x] < n => Eq(f, x)
<1>1. ASSUME NEW f \in [S -> V], NEW e \in [S -> V], NEW n \in Nat, NEW k \in Nat, Upto(f, n), Upto(e, k)
      PROVE  \A x \in S : size[x] < n /\ size[x] < k => f[x] = e[x]
  <2> DEFINE P == {m \in Nat : \A x \in S : size[x] = m /\ m < n /\ m < k => f[x] = e[x]}
  <2>1. ASSUME NEW m \in Nat, \A l \in 0..(m - 1) : l \in P
        PROVE  m \in P
    <3> SUFFICES ASSUME NEW x \in S, size[x] = m, m < n, m < k
                 PROVE  f[x] = e[x]
      OBVIOUS
    <3>1. Eq(f, x) /\ Eq(e, x)
      BY <1>1
    <3>2. CASE x \in Stop
      BY <3>1, <3>2
    <3>3. CASE x \notin Stop
      <4>1. g[x] \in S /\ size[g[x]] \in 0..(m - 1)
        BY <3>3
      <4>2. size[g[x]] \in P /\ size[g[x]] < n /\ size[g[x]] < k
        BY <2>1, <4>1
      <4>3. f[g[x]] = e[g[x]]
        BY <4>1, <4>2
      <4> QED  BY <3>1, <3>3, <4>3
    <3> QED  BY <3>2, <3>3
  <2>2. P = Nat
    <3> HIDE DEF P
    <3>1. P \in SUBSET Nat
      BY DEF P
    <3> QED  BY <2>1, <3>1, NatSet
  <2> QED  BY <2>2
<1>2. \A n \in Nat : \E f \in [S -> V] : Upto(f, n)
  <2> DEFINE P == {n \in Nat : \E f \in [S -> V] : Upto(f, n)}
  <2>1. ASSUME NEW n \in Nat, \A m \in 0..(n - 1) : m \in P
        PROVE  n \in P
    <3>1. CASE n = 0
      <4> DEFINE f == [x \in S |-> v0]
      <4>1. f \in [S -> V] /\ Upto(f, 0)
        OBVIOUS
      <4> HIDE DEF f, Upto
      <4> QED  BY <3>1, <4>1
    <3>2. CASE n # 0
      <4>1. n - 1 \in 0..(n - 1) /\ n - 1 \in Nat
        BY <3>2
      <4>2. PICK f \in [S -> V] : Upto(f, n - 1)
        <5> HIDE DEF Upto
        <5> QED  BY <2>1, <4>1
      <4> DEFINE e == [x \in S |-> IF x \in Stop THEN base[x]
                                   ELSE h[<<x, f[g[x]]>>]]
      <4>3. e \in [S -> V]
        OBVIOUS
      <4>4. \A x \in S : size[x] < n - 1 => e[x] = f[x]
        BY <4>2
      <4>5. ASSUME NEW x \in S, size[x] < n
            PROVE  Eq(e, x)
        <5>1. CASE x \in Stop
          BY <5>1
        <5>2. CASE x \notin Stop
          <6>1. g[x] \in S /\ size[g[x]] < n - 1
            BY <4>5, <5>2
          <6>2. e[g[x]] = f[g[x]]
            BY <4>4, <6>1
          <6>3. e[x] = h[<<x, f[g[x]]>>]
            BY <5>2
          <6> QED  BY <5>2, <6>2, <6>3
        <5> QED  BY <5>1, <5>2
      <4>6. Upto(e, n)
        BY <4>5
      <4> HIDE DEF e, Upto
      <4> QED  BY <4>3, <4>6
    <3> QED  BY <3>1, <3>2
  <2>2. P = Nat
    <3> HIDE DEF P
    <3>1. P \in SUBSET Nat
      BY DEF P
    <3> QED  BY <2>1, <3>1, NatSet
  <2> QED  BY <2>2
<1> DEFINE F(n) == CHOOSE f \in [S -> V] : Upto(f, n)
<1>3. \A n \in Nat : F(n) \in [S -> V] /\ Upto(F(n), n)
  <2> HIDE DEF Upto
  <2> QED  BY <1>2
<1> HIDE DEF F
<1> DEFINE f == [x \in S |-> F(size[x] + 1)[x]]
<1>4. f \in [S -> V]
  BY <1>3
<1>5. ASSUME NEW x \in S
      PROVE  Eq(f, x)
  <2> DEFINE e == F(size[x] + 1)
  <2>1. size[x] + 1 \in Nat /\ size[x] < size[x] + 1
    OBVIOUS
  <2>2. e \in [S -> V] /\ Upto(e, size[x] + 1)
    BY <1>3, <2>1
  <2>3. f[x] = e[x] /\ Eq(e, x)
    BY <2>1, <2>2
  <2>4. CASE x \in Stop
    BY <2>3, <2>4
  <2>5. CASE x \notin Stop
    <3>1. g[x] \in S /\ size[g[x]] \in Nat /\ size[g[x]] < size[x]
      BY <2>5
    <3> DEFINE d == F(size[g[x]] + 1)
    <3>2. size[g[x]] + 1 \in Nat
      BY <3>1
    <3>3. d \in [S -> V] /\ Upto(d, size[g[x]] + 1)
      BY <1>3, <3>2
    <3>4. f[g[x]] = d[g[x]]
      BY <3>1
    <3>5. size[g[x]] < size[g[x]] + 1 /\ size[g[x]] < size[x] + 1
      BY <3>1
    <3>6. d[g[x]] = e[g[x]]
      <4> HIDE DEF d, e, Upto
      <4> QED  BY <1>1, <2>1, <2>2, <3>1, <3>2, <3>3, <3>5
    <3> QED  BY <2>3, <2>5, <3>4, <3>6
  <2> QED  BY <2>4, <2>5
<1> HIDE DEF f
<1> QED  BY <1>4, <1>5 DEF Solves

(* A function for which the equation holds wherever it can be evaluated is  *)
(* of that type.                                                           *)
LEMMA RecursionType ==
  ASSUME NEW S, NEW V, NEW size, NEW Stop, NEW base, NEW g, NEW h,
         WellDefined(S, V, size, Stop, base, g, h),
         NEW f, f = [x \in S |-> f[x]],
         \A x \in S : /\ x \in Stop => f[x] = base[x]
                      /\ x \notin Stop /\ f[g[x]] \in V => f[x] = h[<<x, f[g[x]]>>]
  PROVE  Solves(f, S, V, Stop, base, g, h)
<1> USE DEF WellDefined
<1> DEFINE P == {n \in Nat : \A x \in S : size[x] = n => f[x] \in V}
<1>1. ASSUME NEW n \in Nat, \A m \in 0..(n - 1) : m \in P
      PROVE  n \in P
  <2> SUFFICES ASSUME NEW x \in S, size[x] = n
               PROVE  f[x] \in V
    OBVIOUS
  <2>1. CASE x \in Stop
    BY <2>1
  <2>2. CASE x \notin Stop
    <3>1. g[x] \in S /\ size[g[x]] \in 0..(n - 1)
      BY <2>2
    <3>2. f[g[x]] \in V
      BY <1>1, <3>1
    <3> QED  BY <2>2, <3>2
  <2> QED  BY <2>1, <2>2
<1>2. P = Nat
  <2>1. P \in SUBSET Nat
    OBVIOUS
  <2> HIDE DEF P
  <2> QED  BY <1>1, <2>1, NatSet
<1>3. \A x \in S : f[x] \in V
  BY <1>2
<1> QED  BY <1>3 DEF Solves

(* A set of naturals has a least element.                                  *)
LEMMA Least ==
  ASSUME NEW T \in SUBSET Nat, T # {}
  PROVE  \E n \in T : \A m \in T : n <= m
<1> SUFFICES ASSUME \A n \in T : \E m \in T : ~ (n <= m)
             PROVE  FALSE
  OBVIOUS
<1> DEFINE P == Nat \ T
<1>1. ASSUME NEW n \in Nat, \A m \in 0..(n - 1) : m \in P
      PROVE  n \in P
  BY <1>1
<1>2. P = Nat
  <2>1. P \in SUBSET Nat
    OBVIOUS
  <2> HIDE DEF P
  <2> QED  BY <1>1, <2>1, NatSet
<1> QED  BY <1>2

------------------------------------------------------------------------------
(* A set of subsets of S that has every T of which it has all T \ {x} has  *)
(* all subsets of S.  This is induction over finite sets, with a set in    *)
(* the place of the predicate.                                             *)
LEMMA FiniteSubsets ==
  ASSUME NEW S, IsFiniteSet(S), NEW P \in SUBSET (SUBSET S),
         \A T \in SUBSET S : (\A x \in T : T \ {x} \in P) => T \in P
  PROVE  P = SUBSET S
  <1> DEFINE Bad == (SUBSET S) \ P
             R   == StrictSubsetOrdering(S)
  <1> SUFFICES ASSUME Bad # {} PROVE FALSE
    OBVIOUS
  <1>1. IsWellFoundedOn(R, SUBSET S)
    <2>1. FiniteSubsetsOf(S) = SUBSET S
      BY FS_FiniteSubsetsOfFinite
    <2>2. IsWellFoundedOn(R, FiniteSubsetsOf(S))
      BY FS_StrictSubsetOrderingWellFounded
    <2>3. QED
      BY <2>1, <2>2
  <1>2. PICK T \in Bad : \A U \in Bad : ~(<<U, T>> \in R)
    <2>1. Bad \subseteq SUBSET S
      OBVIOUS
    <2> HIDE DEF Bad, R
    <2>2. QED
      BY <1>1, <2>1, WFMin
  <1>3. ASSUME NEW x \in T PROVE T \ {x} \in P
    <2>1. <<T \ {x}, T>> \in R
      BY DEF StrictSubsetOrdering
    <2>2. QED
      BY <1>2, <2>1
  <1>4. QED
    BY <1>2, <1>3

(* F gives every subset of S the sum of f over it, whichever element is    *)
(* taken first.                                                            *)
Additive(F, f, S) ==
    /\ F \in [SUBSET S -> Nat] /\ F[{}] = 0
    /\ \A T \in SUBSET S : \A x \in T : F[T] = f[x] + F[T \ {x}]

\* A sum over the subsets of S extends to one more element.
LEMMA AdditiveGrows ==
  ASSUME NEW S, NEW x, NEW f, \A y \in S \cup {x} : f[y] \in Nat, NEW F, Additive(F, f, S)
  PROVE  \E G : Additive(G, f, S \cup {x})
  <1>1. CASE x \in S
    <2>1. S \cup {x} = S
      BY <1>1
    <2>2. QED
      BY <2>1
  <1>2. CASE x \notin S
    <2> DEFINE U == S \cup {x}
    <2>1. PICK n : n = [T \in SUBSET U |-> IF x \in T THEN f[x] ELSE 0]
      OBVIOUS
    <2>2. PICK G : G = [T \in SUBSET U |-> n[T] + F[T \ {x}]]
      OBVIOUS
    <2>3. \A T \in SUBSET U : T \ {x} \in SUBSET S /\ F[T \ {x}] \in Nat
      BY DEF Additive
    <2>4. \A T \in SUBSET U : n[T] \in Nat /\ n[T] = IF x \in T THEN f[x] ELSE 0
      BY <2>1
    <2>5. \A T \in SUBSET U : G[T] = n[T] + F[T \ {x}]
      BY <2>2
    <2>6. G \in [SUBSET U -> Nat]
      BY <2>2, <2>3, <2>4
    <2>7. G[{}] = 0
      <3>1. {} \ {x} = {} /\ {} \in SUBSET U
        OBVIOUS
      <3>2. F[{} \ {x}] = 0
        BY <3>1, Zenon DEF Additive
      <3>3. QED
        BY <2>4, <2>5, <3>1, <3>2
    <2>8. ASSUME NEW T \in SUBSET U, NEW y \in T
          PROVE  G[T] = f[y] + G[T \ {y}]
      <3>1. T \ {y} \in SUBSET U /\ f[y] \in Nat
        OBVIOUS
      <3> HIDE DEF U
      <3>2. G[T] = n[T] + F[T \ {x}] /\ G[T \ {y}] = n[T \ {y}] + F[(T \ {y}) \ {x}]
        BY <2>5, <3>1
      <3>3. CASE y = x
        <4>1. (T \ {y}) \ {x} = T \ {x}
          BY <3>3
        <4>2. n[T] = f[y] /\ n[T \ {y}] = 0
          BY <2>4, <3>1, <3>3
        <4>3. F[(T \ {y}) \ {x}] = F[T \ {x}]
          BY <4>1, Zenon
        <4>4. F[T \ {x}] \in Nat
          BY <2>3
        <4>5. QED
          BY <3>1, <3>2, <4>2, <4>3, <4>4
      <3>4. CASE y # x
        <4>1. (T \ {y}) \ {x} = (T \ {x}) \ {y} /\ y \in T \ {x} /\ T \ {x} \in SUBSET S
          BY <2>3, <3>4
        <4>2. n[T \ {y}] = n[T] /\ n[T] \in Nat
          BY <2>4, <3>1, <3>4
        <4>3. F[T \ {x}] = f[y] + F[(T \ {x}) \ {y}] /\ F[(T \ {x}) \ {y}] \in Nat
          <5>1. (T \ {x}) \ {y} \in SUBSET S
            BY <4>1
          <5>2. QED
            BY <4>1, <5>1 DEF Additive
        <4>4. F[(T \ {y}) \ {x}] = F[(T \ {x}) \ {y}]
          BY <4>1, Zenon
        <4>5. QED
          BY <3>1, <3>2, <4>2, <4>3, <4>4
      <3>5. QED
        BY <3>3, <3>4
    <2>9. Additive(G, f, U)
      BY <2>6, <2>7, <2>8 DEF Additive
    <2>10. QED
      BY <2>9
  <1>3. QED
    BY <1>1, <1>2

\* Every finite set has such a sum.
LEMMA AdditiveExists ==
  ASSUME NEW S, IsFiniteSet(S), NEW f, \A x \in S : f[x] \in Nat
  PROVE  \E F : Additive(F, f, S)
  <1> DEFINE P == {T \in SUBSET S : \E F : Additive(F, f, T)}
  <1>1. ASSUME NEW T \in SUBSET S, \A x \in T : T \ {x} \in P
        PROVE  T \in P
    <2>1. CASE T = {}
      <3> DEFINE F == [U \in SUBSET {} |-> 0]
      <3>1. Additive(F, f, {})
        BY DEF Additive
      <3>2. QED
        BY <2>1, <3>1
    <2>2. CASE T # {}
      <3>1. PICK x \in T : T \ {x} \in P
        BY <1>1, <2>2
      <3>2. PICK F : Additive(F, f, T \ {x})
        BY <3>1
      <3>3. \A y \in (T \ {x}) \cup {x} : f[y] \in Nat
        OBVIOUS
      <3>4. \E G : Additive(G, f, (T \ {x}) \cup {x})
        BY <3>2, <3>3, AdditiveGrows
      <3>5. (T \ {x}) \cup {x} = T
        OBVIOUS
      <3>6. QED
        BY <3>4, <3>5
    <2>3. QED
      BY <2>1, <2>2
  <1>2. P = SUBSET S
    <2> HIDE DEF P
    <2>1. P \in SUBSET (SUBSET S)
      BY DEF P
    <2>2. QED
      BY <1>1, <2>1, FiniteSubsets
  <1>3. QED
    BY <1>2

(* The fold of the community modules is the sum: a function that satisfies *)
(* its equation exists, and every one gives a subset what F gives it.      *)
LEMMA SumIsAdditive ==
  ASSUME NEW S, IsFiniteSet(S), NEW f, NEW F, Additive(F, f, S)
  PROVE  SumFunctionOnSet(f, S) = F[S]
  <1> DEFINE Iter(g) == g = [s \in SUBSET S |->
                IF s = {} THEN 0
                ELSE LET x == CHOOSE x \in s : TRUE IN f[x] + g[s \ {x}]]
             iter == CHOOSE g : Iter(g)
  <1>1. SumFunctionOnSet(f, S) = iter[S]
    BY DEF SumFunctionOnSet, FoldFunctionOnSet, MapThenFoldSet
  <1>2. Iter(F)
    <2> SUFFICES ASSUME NEW s \in SUBSET S
                 PROVE  F[s] = IF s = {} THEN 0
                               ELSE LET x == CHOOSE x \in s : TRUE IN f[x] + F[s \ {x}]
      BY DEF Additive
    <2>1. CASE s = {}
      BY <2>1 DEF Additive
    <2>2. CASE s # {}
      <3>1. (CHOOSE x \in s : TRUE) \in s
        BY <2>2
      <3>2. QED
        BY <2>2, <3>1 DEF Additive
    <2>3. QED
      BY <2>1, <2>2
  <1>3. Iter(iter)
    BY <1>2
  <1> DEFINE P == {T \in SUBSET S : iter[T] = F[T]}
  <1>4. ASSUME NEW T \in SUBSET S, \A x \in T : T \ {x} \in P
        PROVE  T \in P
    <2>1. CASE T = {}
      BY <1>2, <1>3, <2>1
    <2>2. CASE T # {}
      <3> DEFINE x == CHOOSE x \in T : TRUE
      <3>1. x \in T
        BY <2>2
      <3>2. iter[T] = f[x] + iter[T \ {x}] /\ F[T] = f[x] + F[T \ {x}]
        BY <1>2, <1>3, <2>2
      <3>3. iter[T \ {x}] = F[T \ {x}]
        BY <1>4, <3>1
      <3>4. QED
        BY <3>2, <3>3
    <2>3. QED
      BY <2>1, <2>2
  <1>5. P = SUBSET S
    <2> HIDE DEF P
    <2>1. P \in SUBSET (SUBSET S)
      BY DEF P
    <2>2. QED
      BY <1>4, <2>1, FiniteSubsets
  <1>6. QED
    BY <1>1, <1>5

-----------------------------------------------------------------------------
(* What proofs use of a sum.                                               *)
LEMMA SumType ==
  ASSUME NEW S, IsFiniteSet(S), NEW f, \A y \in S : f[y] \in Nat
  PROVE  SumFunctionOnSet(f, S) \in Nat
  <1>1. PICK F : Additive(F, f, S)
    BY AdditiveExists
  <1>2. F[S] \in Nat
    BY <1>1 DEF Additive
  <1>3. QED
    BY <1>1, <1>2, SumIsAdditive

\* The sum over no element is zero.
LEMMA SumEmpty ==
  ASSUME NEW f PROVE SumFunctionOnSet(f, {}) = 0
  <1>1. IsFiniteSet({}) /\ \A y \in {} : f[y] \in Nat
    BY FS_EmptySet
  <1>2. QED
    BY <1>1, AdditiveExists, SumIsAdditive DEF Additive

\* The sum over S is one element's value and the sum over the others.
LEMMA SumRemove ==
  ASSUME NEW S, IsFiniteSet(S), NEW f, \A y \in S : f[y] \in Nat, NEW x \in S
  PROVE  SumFunctionOnSet(f, S) = f[x] + SumFunctionOnSet(f, S \ {x})
  <1>1. PICK F : Additive(F, f, S)
    BY AdditiveExists
  <1>2. Additive([T \in SUBSET (S \ {x}) |-> F[T]], f, S \ {x})
    <2> DEFINE G == [T \in SUBSET (S \ {x}) |-> F[T]]
    <2>1. \A T \in SUBSET (S \ {x}) : T \in SUBSET S
      OBVIOUS
    <2>2. G \in [SUBSET (S \ {x}) -> Nat] /\ G[{}] = 0
      BY <1>1, <2>1 DEF Additive
    <2>3. ASSUME NEW T \in SUBSET (S \ {x}), NEW y \in T
          PROVE  G[T] = f[y] + G[T \ {y}]
      <3>1. T \ {y} \in SUBSET (S \ {x})
        OBVIOUS
      <3>2. G[T] = F[T] /\ G[T \ {y}] = F[T \ {y}]
        BY <3>1
      <3>3. F[T] = f[y] + F[T \ {y}]
        BY <1>1, <2>1 DEF Additive
      <3>4. QED
        BY <3>2, <3>3
    <2>4. QED
      BY <2>2, <2>3 DEF Additive
  <1>3. SumFunctionOnSet(f, S) = F[S]
    BY <1>1, SumIsAdditive
  <1>4. SumFunctionOnSet(f, S \ {x}) = F[S \ {x}]
    <2>1. IsFiniteSet(S \ {x})
      BY FS_RemoveElement
    <2>2. SumFunctionOnSet(f, S \ {x}) = [T \in SUBSET (S \ {x}) |-> F[T]][S \ {x}]
      BY <1>2, <2>1, SumIsAdditive
    <2>3. QED
      BY <2>2
  <1>5. F[S] = f[x] + F[S \ {x}]
    BY <1>1 DEF Additive
  <1>6. QED
    BY <1>3, <1>4, <1>5

\* One more element adds its value.
LEMMA SumAdd ==
  ASSUME NEW S, IsFiniteSet(S), NEW x, x \notin S, NEW f, \A y \in S \cup {x} : f[y] \in Nat
  PROVE  SumFunctionOnSet(f, S \cup {x}) = f[x] + SumFunctionOnSet(f, S)
  <1>1. IsFiniteSet(S \cup {x})
    BY FS_AddElement
  <1>2. x \in S \cup {x} /\ (S \cup {x}) \ {x} = S
    OBVIOUS
  <1>3. SumFunctionOnSet(f, S \cup {x}) = f[x] + SumFunctionOnSet(f, (S \cup {x}) \ {x})
    BY <1>1, <1>2, SumRemove
  <1>4. QED
    BY <1>2, <1>3

(* Functions that agree on a set have the same sum over it.                *)
LEMMA SumAgree ==
  ASSUME NEW S, IsFiniteSet(S), NEW f, \A y \in S : f[y] \in Nat,
         NEW g, \A y \in S : g[y] = f[y]
  PROVE  SumFunctionOnSet(g, S) = SumFunctionOnSet(f, S)
  <1>1. PICK F : Additive(F, f, S)
    BY AdditiveExists
  <1>2. Additive(F, g, S)
    BY <1>1 DEF Additive
  <1>3. QED
    BY <1>1, <1>2, SumIsAdditive

(* A sum is no less than two of its terms.                                 *)
LEMMA SumBounds ==
  ASSUME NEW S, IsFiniteSet(S), NEW f, \A y \in S : f[y] \in Nat, NEW x \in S
  PROVE  /\ f[x] <= SumFunctionOnSet(f, S)
         /\ \A y \in S \ {x} : f[x] + f[y] <= SumFunctionOnSet(f, S)
  <1>1. /\ SumFunctionOnSet(f, S) = f[x] + SumFunctionOnSet(f, S \ {x})
        /\ IsFiniteSet(S \ {x})
    BY SumRemove, FS_RemoveElement
  <1>2. SumFunctionOnSet(f, S \ {x}) \in Nat
    BY <1>1, SumType
  <1>3. ASSUME NEW y \in S \ {x} PROVE f[x] + f[y] <= SumFunctionOnSet(f, S)
    <2>1. SumFunctionOnSet(f, S \ {x}) = f[y] + SumFunctionOnSet(f, (S \ {x}) \ {y})
      BY <1>1, SumRemove
    <2>2. IsFiniteSet((S \ {x}) \ {y}) /\ \A z \in (S \ {x}) \ {y} : f[z] \in Nat
      BY <1>1, FS_RemoveElement
    <2>3. SumFunctionOnSet(f, (S \ {x}) \ {y}) \in Nat
      BY <2>2, SumType
    <2>4. QED
      BY <1>1, <2>1, <2>3
  <1>4. f[x] \in Nat
    OBVIOUS
  <1>5. f[x] <= SumFunctionOnSet(f, S)
    BY <1>1, <1>2, <1>4
  <1>6. QED
    BY <1>3, <1>5

\* The values of a function on a finite set are finitely many.
LEMMA FiniteImage ==
  ASSUME NEW S, IsFiniteSet(S), NEW g, DOMAIN g = S
  PROVE  IsFiniteSet({g[x] : x \in S})
  <1> DEFINE T == {g[x] : x \in S}
             h == [x \in S |-> g[x]]
  <1>1. h \in Surjection(S, T)
    BY DEF Surjection
  <1> HIDE DEF T, h
  <1>2. QED
    BY <1>1, FS_Surjection DEF T

(* A sum does not change when its terms get other names.                   *)
LEMMA SumRenamed ==
  ASSUME NEW S, IsFiniteSet(S), NEW b, DOMAIN b = S,
         \A x, y \in S : b[x] = b[y] => x = y,
         NEW f, \A x \in S : f[b[x]] \in Nat,
         NEW g, \A x \in S : g[x] = f[b[x]]
  PROVE  SumFunctionOnSet(f, {b[x] : x \in S}) = SumFunctionOnSet(g, S)
  <1> DEFINE image(T) == {b[x] : x \in T}
             P == {T \in SUBSET S : SumFunctionOnSet(f, image(T)) = SumFunctionOnSet(g, T)}
  <1>1. ASSUME NEW T \in SUBSET S, \A x \in T : T \ {x} \in P
        PROVE  T \in P
    <2>1. CASE T = {}
      <3>1. image(T) = {}
        BY <2>1
      <3> HIDE DEF image
      <3>2. SumFunctionOnSet(f, image(T)) = 0 /\ SumFunctionOnSet(g, T) = 0
        BY <2>1, <3>1, SumEmpty
      <3>3. QED
        BY <3>2
    <2>2. CASE T # {}
      <3>1. PICK x \in T : TRUE
        BY <2>2
      <3>2. IsFiniteSet(T) /\ \A y \in T : g[y] \in Nat
        BY FS_Subset
      <3>3. SumFunctionOnSet(g, T) = g[x] + SumFunctionOnSet(g, T \ {x})
        BY <3>2, SumRemove
      <3>4. IsFiniteSet(image(T))
        <4> DEFINE c == [y \in T |-> b[y]]
        <4>1. DOMAIN c = T /\ image(T) = {c[y] : y \in T}
          OBVIOUS
        <4> HIDE DEF c, image
        <4>2. QED
          BY <3>2, <4>1, FiniteImage
      <3>5. b[x] \in image(T) /\ \A y \in image(T) : f[y] \in Nat
        OBVIOUS
      <3>6. image(T) \ {b[x]} = image(T \ {x})
        OBVIOUS
      <3>7. SumFunctionOnSet(f, image(T \ {x})) = SumFunctionOnSet(g, T \ {x})
        BY <1>1, <3>1
      <3> HIDE DEF image
      <3>8. SumFunctionOnSet(f, image(T)) = f[b[x]] + SumFunctionOnSet(f, image(T) \ {b[x]})
        BY <3>4, <3>5, SumRemove
      <3>9. f[b[x]] = g[x]
        BY <3>1
      <3>10. QED
        BY <3>3, <3>6, <3>7, <3>8, <3>9
    <2>3. QED
      BY <2>1, <2>2
  <1>2. P = SUBSET S
    <2>1. P \in SUBSET (SUBSET S)
      OBVIOUS
    <2> HIDE DEF P
    <2>2. QED
      BY <1>1, <2>1, FiniteSubsets
  <1>3. S \in P
    BY <1>2
  <1>4. QED
    BY <1>3

\* Terms that are zero may be left out.
LEMMA SumNonZero ==
  ASSUME NEW S, IsFiniteSet(S), NEW f, \A x \in S : f[x] \in Nat,
         NEW D \in SUBSET S, \A x \in S \ D : f[x] = 0
  PROVE  SumFunctionOnSet(f, S) = SumFunctionOnSet(f, D)
  <1> DEFINE P == {T \in SUBSET S : SumFunctionOnSet(f, T) = SumFunctionOnSet(f, T \cap D)}
  <1>1. ASSUME NEW T \in SUBSET S, \A x \in T : T \ {x} \in P
        PROVE  T \in P
    <2>1. CASE T \subseteq D
      <3>1. T \cap D = T
        BY <2>1
      <3>2. QED
        BY <3>1
    <2>2. CASE ~(T \subseteq D)
      <3>1. PICK x \in T : x \notin D
        BY <2>2
      <3>2. IsFiniteSet(T) /\ \A y \in T : f[y] \in Nat
        BY FS_Subset
      <3>3. SumFunctionOnSet(f, T) = f[x] + SumFunctionOnSet(f, T \ {x})
        BY <3>2, SumRemove
      <3>4. f[x] = 0 /\ SumFunctionOnSet(f, T \ {x}) \in Nat
        <4>1. IsFiniteSet(T \ {x}) /\ \A y \in T \ {x} : f[y] \in Nat
          BY <3>2, FS_Subset
        <4>2. SumFunctionOnSet(f, T \ {x}) \in Nat
          BY <4>1, SumType
        <4>3. QED
          BY <3>1, <4>2
      <3>5. (T \ {x}) \cap D = T \cap D
        BY <3>1
      <3>6. SumFunctionOnSet(f, T \ {x}) = SumFunctionOnSet(f, T \cap D)
        BY <1>1, <3>5
      <3>7. QED
        BY <3>3, <3>4, <3>6
    <2>3. QED
      BY <2>1, <2>2
  <1>2. P = SUBSET S
    <2>1. P \in SUBSET (SUBSET S)
      OBVIOUS
    <2> HIDE DEF P
    <2>2. QED
      BY <1>1, <2>1, FiniteSubsets
  <1>3. S \in P /\ S \cap D = D
    BY <1>2
  <1>4. QED
    BY <1>3

\* One of finitely many has the largest key.
LEMMA LargestKey ==
  ASSUME NEW S, IsFiniteSet(S), S # {}, NEW key, \A x \in S : key[x] \in Nat
  PROVE  \E x \in S : \A y \in S : key[y] <= key[x]
  <1> DEFINE P == {T \in SUBSET S : T # {} => \E x \in T : \A y \in T : key[y] <= key[x]}
  <1>1. ASSUME NEW T \in SUBSET S, \A x \in T : T \ {x} \in P
        PROVE  T \in P
    <2>1. SUFFICES ASSUME T # {} PROVE \E x \in T : \A y \in T : key[y] <= key[x]
      OBVIOUS
    <2>2. PICK x \in T : TRUE
      BY <2>1
    <2>3. CASE T \ {x} = {}
      <3>1. \A y \in T : key[y] <= key[x]
        BY <2>3
      <3>2. QED
        BY <3>1
    <2>4. CASE T \ {x} # {}
      <3>1. PICK z \in T \ {x} : \A y \in T \ {x} : key[y] <= key[z]
        BY <1>1, <2>4
      <3>2. key[x] \in Nat /\ \A y \in T : key[y] \in Nat
        OBVIOUS
      <3>3. CASE key[x] <= key[z]
        BY <3>1, <3>3
      <3>4. CASE key[z] < key[x]
        <4>1. \A y \in T : key[y] <= key[x]
          BY <3>1, <3>2, <3>4
        <4>2. QED
          BY <4>1
      <3>5. QED
        BY <3>2, <3>3, <3>4
    <2>5. QED
      BY <2>3, <2>4
  <1>2. P = SUBSET S
    <2>1. P \in SUBSET (SUBSET S)
      OBVIOUS
    <2> HIDE DEF P
    <2>2. QED
      BY <1>1, <2>1, FiniteSubsets
  <1>3. S \in P
    BY <1>2
  <1>4. QED
    BY <1>3

(* The part of a total that falls on a term of size c, after the terms     *)
(* before it have taken theirs.                                            *)
Share(total, before, c) ==
    IF total <= before THEN 0 ELSE IF total - before >= c THEN c ELSE total - before

\* A total that is spread over terms in an order, each filled before the next one
\* begins, is spread without a gap and without a rest.
LEMMA SumSpread ==
  ASSUME NEW S, IsFiniteSet(S),
         NEW key, \A x \in S : key[x] \in Nat, \A x, y \in S : key[x] = key[y] => x = y,
         NEW c, \A x \in S : c[x] \in Nat,
         NEW total \in Nat, total <= SumFunctionOnSet(c, S),
         NEW f,
         \A x \in S : f[x] = Share(total, SumFunctionOnSet(c, {y \in S : key[y] < key[x]}), c[x])
  PROVE  SumFunctionOnSet(f, S) = total
  <1> DEFINE before(x) == {y \in S : key[y] < key[x]}
             closed(T) == \A x \in T : before(x) \subseteq T
             P == {T \in SUBSET S : closed(T) =>
                      SumFunctionOnSet(f, T) = IF total <= SumFunctionOnSet(c, T) THEN total
                                               ELSE SumFunctionOnSet(c, T)}
  <1>1. \A T \in SUBSET S : IsFiniteSet(T) /\ SumFunctionOnSet(c, T) \in Nat
    <2>1. ASSUME NEW T \in SUBSET S PROVE IsFiniteSet(T) /\ SumFunctionOnSet(c, T) \in Nat
      <3>1. IsFiniteSet(T) /\ \A y \in T : c[y] \in Nat
        BY FS_Subset
      <3>2. QED
        BY <3>1, SumType
    <2>2. QED
      BY <2>1
  <1>2. \A x \in S : f[x] \in Nat
    <2>1. ASSUME NEW x \in S PROVE f[x] \in Nat
      <3>1. SumFunctionOnSet(c, before(x)) \in Nat /\ c[x] \in Nat
        BY <1>1
      <3>2. f[x] = Share(total, SumFunctionOnSet(c, before(x)), c[x])
        OBVIOUS
      <3> HIDE DEF before
      <3>3. QED
        BY <3>1, <3>2 DEF Share
    <2>2. QED
      BY <2>1
  <1>3. ASSUME NEW T \in SUBSET S, \A x \in T : T \ {x} \in P
        PROVE  T \in P
    <2>1. SUFFICES ASSUME closed(T)
                   PROVE  SumFunctionOnSet(f, T) = IF total <= SumFunctionOnSet(c, T) THEN total
                                                   ELSE SumFunctionOnSet(c, T)
      OBVIOUS
    <2>2. CASE T = {}
      <3>1. SumFunctionOnSet(f, T) = 0 /\ SumFunctionOnSet(c, T) = 0
        BY <2>2, SumEmpty
      <3>2. QED
        BY <3>1
    <2>3. CASE T # {}
      <3>1. IsFiniteSet(T) /\ (\A y \in T : f[y] \in Nat) /\ (\A y \in T : c[y] \in Nat)
        BY <1>1, <1>2
      <3>2. PICK x \in T : \A y \in T : key[y] <= key[x]
        <4>1. \A y \in T : key[y] \in Nat
          OBVIOUS
        <4>2. QED
          BY <2>3, <3>1, <4>1, LargestKey
      <3>3. before(x) = T \ {x}
        <4>1. ASSUME NEW y \in T \ {x} PROVE key[y] < key[x]
          BY <3>2
        <4>2. x \notin before(x) /\ before(x) \subseteq T
          BY <2>1
        <4>3. QED
          BY <4>1, <4>2
      <3>4. closed(T \ {x})
        <4>1. ASSUME NEW y \in T \ {x}, NEW z \in before(y) PROVE z \in T \ {x}
          <5>1. z \in T
            BY <2>1, <4>1
          <5>2. key[z] < key[y] /\ key[y] <= key[x] /\ key[z] \in Nat /\ key[y] \in Nat /\ key[x] \in Nat
            BY <3>2, <4>1
          <5>3. QED
            BY <5>1, <5>2
        <4>2. QED
          BY <4>1
      <3> DEFINE rest == T \ {x}
                 a == SumFunctionOnSet(c, rest)
      <3>5. SumFunctionOnSet(f, rest) = IF total <= a THEN total ELSE a
        <4>1. rest \in P /\ closed(rest)
          BY <1>3, <3>4
        <4>2. QED
          BY <4>1
      <3>6. /\ SumFunctionOnSet(f, T) = f[x] + SumFunctionOnSet(f, rest)
            /\ SumFunctionOnSet(c, T) = c[x] + a
        BY <3>1, SumRemove
      <3>7. f[x] = Share(total, a, c[x])
        <4>1. f[x] = Share(total, SumFunctionOnSet(c, before(x)), c[x])
          OBVIOUS
        <4> HIDE DEF before
        <4>2. QED
          BY <3>3, <4>1
      <3>8. a \in Nat /\ c[x] \in Nat
        BY <1>1
      <3> HIDE DEF a, rest
      <3>9. QED
        BY <3>5, <3>6, <3>7, <3>8 DEF Share
    <2>4. QED
      BY <2>2, <2>3
  <1>4. P = SUBSET S
    <2>1. P \in SUBSET (SUBSET S)
      OBVIOUS
    <2> HIDE DEF P
    <2>2. QED
      BY <1>3, <2>1, FiniteSubsets
  <1>5. S \in P /\ closed(S)
    <2>1. S \in P
      BY <1>4
    <2>2. closed(S)
      OBVIOUS
    <2>3. QED
      BY <2>1, <2>2
  <1>6. QED
    BY <1>5
=============================================================================
