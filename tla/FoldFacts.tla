------------------------------ MODULE FoldFacts ------------------------------
(***************************************************************************)
(* Induction over numbers and finite sets, and what it says about the      *)
(* folds of the community modules.                                         *)
(*                                                                         *)
(* The induction rules speak of a set instead of a predicate: those with   *)
(* at least the elements the rule names have them all.  They follow from   *)
(* the well-foundedness of the natural numbers.  A fold is defined by a    *)
(* recursive function, so each fact has two halves: a function with the    *)
(* wanted equations exists, and the recursion determines it.               *)
(***************************************************************************)
EXTENDS Integers, Sequences, FiniteSets, FiniteSetTheorems, WellFoundedInduction, TLAPS

-----------------------------------------------------------------------------
(* Induction *)

\* A set of numbers has a smallest one.
LEMMA SmallestNumber ==
    ASSUME NEW T \in SUBSET Nat, T # {}
    PROVE  \E n \in T : \A m \in T : n <= m
<1> DEFINE R == {p \in Nat \X Nat : p[1] < p[2]}
<1>1. IsWellFoundedOn(R, Nat)
  BY NatLessThanWellFounded DEF OpToRel
<1>2. \A m, n \in Nat : m < n => <<m, n>> \in R
  OBVIOUS
<1> HIDE DEF R
<1>3. PICK n \in T : \A m \in T : <<m, n>> \notin R
  BY <1>1, WFMin
<1>4. \A m \in T : ~(m < n)
  BY <1>2, <1>3
<1> QED
  BY <1>3, <1>4

\* A set with 0 and the successors of its numbers has all numbers.
LEMMA NatSetInduction ==
    ASSUME NEW S, 0 \in S, \A n \in Nat : n \in S => n + 1 \in S
    PROVE  \A n \in Nat : n \in S
<1> DEFINE missing == {n \in Nat : n \notin S}
<1>1. SUFFICES ASSUME missing # {} PROVE FALSE
  OBVIOUS
<1>2. PICK n \in missing : \A m \in missing : n <= m
  <2>1. missing \in SUBSET Nat
    OBVIOUS
  <2> HIDE DEF missing
  <2> QED
    BY <1>1, <2>1, SmallestNumber
<1>3. n - 1 \in Nat /\ ~(n <= n - 1) /\ (n - 1) + 1 = n
  BY <1>2
<1> QED
  BY <1>2, <1>3

\* A set P of subsets of S has S itself, if it has a subset whenever it has all those
\* that lack one element of it.
LEMMA FiniteSetInduction ==
    ASSUME NEW S, IsFiniteSet(S), NEW P,
           \A T \in SUBSET S : (\A x \in T : T \ {x} \in P) => T \in P
    PROVE  \A T \in SUBSET S : T \in P
<1> DEFINE N == {n \in Nat : \A T \in SUBSET S : Cardinality(T) = n => T \in P}
<1>1. \A T \in SUBSET S : IsFiniteSet(T) /\ Cardinality(T) \in Nat
  BY FS_Subset, FS_CardinalityType
<1>2. 0 \in N
  <2>1. ASSUME NEW T \in SUBSET S, Cardinality(T) = 0 PROVE T \in P
    BY <1>1, <2>1, FS_EmptySet
  <2> QED
    BY <2>1
<1>3. ASSUME NEW n \in Nat, n \in N PROVE n + 1 \in N
  <2>1. ASSUME NEW T \in SUBSET S, Cardinality(T) = n + 1 PROVE T \in P
    <3>1. ASSUME NEW x \in T PROVE T \ {x} \in P
      <4>1. Cardinality(T \ {x}) = Cardinality(T) - 1
        BY <1>1, FS_RemoveElement
      <4>2. T \ {x} \in SUBSET S /\ Cardinality(T \ {x}) = n
        BY <2>1, <4>1
      <4> QED
        BY <1>3, <4>2
    <3> QED
      BY <3>1
  <2> QED
    BY <2>1
<1> HIDE DEF N
<1>4. \A n \in Nat : n \in N
  BY <1>2, <1>3, NatSetInduction
<1> QED
  BY <1>1, <1>4 DEF N

\* The order c takes the elements of S in, what F makes of each and of what came before,
\* and the value b to start from.
Foldable(S, V, b, F, c) ==
    /\ IsFiniteSet(S) /\ b \in V /\ F \in [S -> [V -> V]]
    /\ \A T \in SUBSET S : T # {} => c[T] \in T

\* The recursion over the subsets of S that makes a fold of it.
SolvesFold(g, S, V, b, F, c) ==
    /\ g \in [SUBSET S -> V]
    /\ \A T \in SUBSET S : g[T] = IF T = {} THEN b ELSE F[c[T]][g[T \ {c[T]}]]

\* It has a solution.
LEMMA FoldsExist ==
    ASSUME NEW S, NEW V, NEW b, NEW F, NEW c, Foldable(S, V, b, F, c)
    PROVE  \E g : SolvesFold(g, S, V, b, F, c)
<1> USE DEF Foldable, SolvesFold
<1> DEFINE UpTo(n) == {T \in SUBSET S : Cardinality(T) <= n}
           Solves(g, D) == /\ g \in [D -> V]
                           /\ \A T \in D : g[T] = IF T = {} THEN b
                                                  ELSE F[c[T]][g[T \ {c[T]}]]
           N == {n \in Nat : \E g : Solves(g, UpTo(n))}
<1>1. \A T \in SUBSET S : IsFiniteSet(T) /\ Cardinality(T) \in Nat
  BY FS_Subset, FS_CardinalityType
<1>2. ASSUME NEW T \in SUBSET S, T # {}
      PROVE  T \ {c[T]} \in SUBSET S /\ Cardinality(T \ {c[T]}) = Cardinality(T) - 1
  <2>1. c[T] \in T
    BY <1>2
  <2> QED
    BY <1>1, <2>1, FS_RemoveElement
<1>3. 0 \in N
  <2>1. \A T \in UpTo(0) : T = {}
    <3>1. ASSUME NEW T \in UpTo(0) PROVE T = {}
      <4>1. IsFiniteSet(T) /\ Cardinality(T) = 0
        BY <1>1
      <4> QED
        BY <4>1, FS_EmptySet
    <3> QED
      BY <3>1
  <2>2. Solves([T \in UpTo(0) |-> b], UpTo(0))
    BY <2>1
  <2> QED
    BY <2>2
<1>4. ASSUME NEW n \in Nat, n \in N PROVE n + 1 \in N
  <2>1. PICK h : Solves(h, UpTo(n))
    BY <1>4
  <2> DEFINE g == [T \in UpTo(n + 1) |->
                      IF T \in UpTo(n) THEN h[T] ELSE F[c[T]][h[T \ {c[T]}]]]
  <2>2. UpTo(n) \subseteq UpTo(n + 1)
    BY <1>1
  <2>3. ASSUME NEW T \in UpTo(n + 1), T # {}
        PROVE  T \ {c[T]} \in UpTo(n) /\ c[T] \in S
    BY <1>1, <1>2, <2>3
  <2>4. {} \in UpTo(n)
    BY FS_EmptySet
  <2>5. ASSUME NEW T \in UpTo(n + 1)
        PROVE  g[T] \in V /\ g[T] = IF T = {} THEN b ELSE F[c[T]][g[T \ {c[T]}]]
    <3>1. CASE T \in UpTo(n)
      <4>1. g[T] = h[T] /\ h[T] \in V
        BY <2>1, <3>1
      <4>2. T # {} => g[T \ {c[T]}] = h[T \ {c[T]}]
        BY <2>2, <2>3
      <4> HIDE DEF g, UpTo
      <4>3. h[T] = IF T = {} THEN b ELSE F[c[T]][h[T \ {c[T]}]]
        BY <2>1, <3>1
      <4> QED
        BY <4>1, <4>2, <4>3
    <3>2. CASE T \notin UpTo(n)
      <4>1. T # {} /\ T \ {c[T]} \in UpTo(n) /\ c[T] \in S
        BY <2>3, <2>4, <3>2
      <4>2. g[T] = F[c[T]][h[T \ {c[T]}]] /\ g[T \ {c[T]}] = h[T \ {c[T]}]
        BY <2>2, <3>2, <4>1
      <4>3. h[T \ {c[T]}] \in V
        BY <2>1, <4>1
      <4>4. F[c[T]] \in [V -> V]
        BY <4>1
      <4> HIDE DEF g, UpTo
      <4> QED
        BY <4>1, <4>2, <4>3, <4>4
    <3> QED
      BY <3>1, <3>2
  <2>6. DOMAIN g = UpTo(n + 1) /\ g = [T \in UpTo(n + 1) |-> g[T]]
    OBVIOUS
  <2> HIDE DEF g, UpTo
  <2>7. Solves(g, UpTo(n + 1))
    BY <2>5, <2>6
  <2> HIDE DEF Solves
  <2>8. \E k : Solves(k, UpTo(n + 1))
    BY <2>7
  <2> QED
    BY <2>8
<1> HIDE DEF N
<1>5. Cardinality(S) \in N
  BY <1>1, <1>3, <1>4, NatSetInduction
<1>6. UpTo(Cardinality(S)) = SUBSET S
  BY FS_Subset
<1>7. PICK g : Solves(g, UpTo(Cardinality(S)))
  BY <1>5 DEF N
<1> HIDE DEF UpTo
<1> QED
  BY <1>6, <1>7

-----------------------------------------------------------------------------
(* Sums *)

\* g gives the sum of the values of f over each subset of S.
AddsUp(g, f, S) ==
    /\ g \in [SUBSET S -> Nat]
    /\ g[{}] = 0
    /\ \A T \in SUBSET S : \A x \in T : g[T] = f[x] + g[T \ {x}]

\* Sums over a finite set exist, in whatever order they are taken.
LEMMA SumsExist ==
    ASSUME NEW S, IsFiniteSet(S), NEW f \in [S -> Nat]
    PROVE  \E g : AddsUp(g, f, S)
<1> DEFINE P == {T \in SUBSET S : \E g : AddsUp(g, f, T)}
<1>1. ASSUME NEW T \in SUBSET S, \A x \in T : T \ {x} \in P PROVE T \in P
  <2>1. CASE T = {}
    <3>1. AddsUp([U \in SUBSET T |-> 0], f, T)
      BY <2>1 DEF AddsUp
    <3> QED
      BY <3>1
  <2>2. CASE T # {}
    <3>1. PICK y \in T : TRUE
      BY <2>2
    <3>2. PICK h : AddsUp(h, f, T \ {y})
      BY <1>1, <3>1
    <3> DEFINE g == [U \in SUBSET T |-> IF y \in U THEN f[y] + h[U \ {y}] ELSE h[U]]
    <3>3. /\ h \in [SUBSET (T \ {y}) -> Nat] /\ h[{}] = 0
          /\ \A U \in SUBSET (T \ {y}) : \A x \in U : h[U] = f[x] + h[U \ {x}]
      BY <3>2 DEF AddsUp
    <3>4. g \in [SUBSET T -> Nat]
      BY <3>3
    <3>5. g[{}] = 0
      BY <3>3
    <3>6. ASSUME NEW U \in SUBSET T, NEW x \in U PROVE g[U] = f[x] + g[U \ {x}]
      <4>1. CASE y \notin U
        <5>1. g[U] = h[U] /\ g[U \ {x}] = h[U \ {x}] /\ U \in SUBSET (T \ {y})
          BY <4>1
        <5> QED
          BY <3>3, <5>1
      <4>2. CASE x = y
        <5>1. g[U] = f[y] + h[U \ {y}] /\ g[U \ {y}] = h[U \ {y}]
          BY <4>2
        <5> QED
          BY <4>2, <5>1
      <4>3. CASE y \in U /\ x # y
        <5> DEFINE V == U \ {y}
        <5>1. V \in SUBSET (T \ {y}) /\ x \in V /\ (U \ {x}) \ {y} = V \ {x}
          BY <4>3
        <5>2. g[U] = f[y] + h[V] /\ g[U \ {x}] = f[y] + h[V \ {x}]
          BY <4>3, <5>1
        <5>3. h[V] = f[x] + h[V \ {x}]
          BY <3>3, <5>1
        <5>4. f[x] \in Nat /\ f[y] \in Nat /\ h[V \ {x}] \in Nat
          BY <3>3, <5>1
        <5> HIDE DEF V, g
        <5> QED
          BY <5>2, <5>3, <5>4
      <4> QED
        BY <4>1, <4>2, <4>3
    <3> HIDE DEF g
    <3>7. AddsUp(g, f, T)
      BY <3>4, <3>5, <3>6 DEF AddsUp
    <3> QED
      BY <3>7
  <2> QED
    BY <2>1, <2>2
<1> HIDE DEF P
<1>2. S \in P
  BY <1>1, FiniteSetInduction
<1> QED
  BY <1>2 DEF P

\* The recursion of the library's folds, which takes the elements in an order of its own,
\* comes to the same sums.
SumRecursion(g, f, S) ==
    g = [T \in SUBSET S |-> IF T = {} THEN 0
                            ELSE LET x == CHOOSE x \in T : TRUE IN f[x] + g[T \ {x}]]

LEMMA SumsAreUnique ==
    ASSUME NEW S, IsFiniteSet(S), NEW f \in [S -> Nat], NEW g, AddsUp(g, f, S)
    PROVE  \A k : SumRecursion(k, f, S) <=> k = g
<1>1. /\ g \in [SUBSET S -> Nat] /\ g[{}] = 0
      /\ \A T \in SUBSET S : \A x \in T : g[T] = f[x] + g[T \ {x}]
  BY DEF AddsUp
<1>2. SumRecursion(g, f, S)
  <2>1. ASSUME NEW T \in SUBSET S
        PROVE  g[T] = IF T = {} THEN 0 ELSE f[CHOOSE x \in T : TRUE]
                                            + g[T \ {CHOOSE x \in T : TRUE}]
    <3>1. T # {} => (CHOOSE x \in T : TRUE) \in T
      OBVIOUS
    <3> QED
      BY <1>1, <3>1
  <2> QED
    BY <1>1, <2>1 DEF SumRecursion
<1>3. ASSUME NEW k, SumRecursion(k, f, S) PROVE k = g
  <2> DEFINE P == {T \in SUBSET S : k[T] = g[T]}
  <2>1. /\ DOMAIN k = SUBSET S /\ k = [T \in SUBSET S |-> k[T]]
        /\ \A T \in SUBSET S : k[T] = IF T = {} THEN 0 ELSE f[CHOOSE x \in T : TRUE]
                                                     + k[T \ {CHOOSE x \in T : TRUE}]
    BY <1>3 DEF SumRecursion
  <2>2. ASSUME NEW T \in SUBSET S, \A x \in T : T \ {x} \in P PROVE T \in P
    <3>1. CASE T = {}
      BY <1>1, <2>1, <3>1
    <3>2. CASE T # {}
      <4>1. PICK x \in T : x = CHOOSE y \in T : TRUE
        BY <3>2
      <4>2. k[T] = f[x] + k[T \ {x}]
        BY <2>1, <3>2, <4>1
      <4>3. k[T \ {x}] = g[T \ {x}]
        BY <2>2
      <4> QED
        BY <1>1, <4>2, <4>3
    <3> QED
      BY <3>1, <3>2
  <2> HIDE DEF P
  <2>3. \A T \in SUBSET S : T \in P
    BY <2>2, FiniteSetInduction
  <2>4. \A T \in SUBSET S : k[T] = g[T]
    BY <2>3 DEF P
  <2> QED
    BY <1>1, <2>1, <2>4
<1> QED
  BY <1>2, <1>3

LEMMA SumFunctionAddsUp ==
    ASSUME NEW S, IsFiniteSet(S), NEW f \in [S -> Nat]
    PROVE  \E g : AddsUp(g, f, S) /\ SumFunction(f) = g[S]
<1>1. PICK g : AddsUp(g, f, S)
  BY SumsExist
<1>2. \A k : SumRecursion(k, f, S) <=> k = g
  BY <1>1, SumsAreUnique
<1>3. DOMAIN f = S
  OBVIOUS
<1>4. SumFunction(f) = (CHOOSE k : SumRecursion(k, f, S))[S]
  BY <1>3 DEF SumFunction, SumFunctionOnSet, FoldFunctionOnSet, MapThenFoldSet, SumRecursion
<1>5. SumFunction(f) = g[S]
  BY <1>2, <1>4
<1> QED
  BY <1>1, <1>5

LEMMA SumType ==
    ASSUME NEW S, IsFiniteSet(S), NEW f \in [S -> Nat]
    PROVE  SumFunction(f) \in Nat /\ (S = {} => SumFunction(f) = 0)
<1>1. PICK g : AddsUp(g, f, S) /\ SumFunction(f) = g[S]
  BY SumFunctionAddsUp
<1> QED
  BY <1>1 DEF AddsUp

LEMMA SumMonotonic ==
    ASSUME NEW R, IsFiniteSet(R), NEW S \in SUBSET R, NEW f \in [S -> Nat], NEW e \in [R -> Nat],
           \A x \in S : f[x] <= e[x]
    PROVE  SumFunction(f) <= SumFunction(e)
<1>1. IsFiniteSet(S)
  BY FS_Subset
<1>2. PICK g : AddsUp(g, f, S) /\ SumFunction(f) = g[S]
  BY <1>1, SumFunctionAddsUp
<1>3. PICK h : AddsUp(h, e, R) /\ SumFunction(e) = h[R]
  BY SumFunctionAddsUp
<1> DEFINE P == {T \in SUBSET R : g[T \cap S] <= h[T]}
<1>4. ASSUME NEW T \in SUBSET R, \A x \in T : T \ {x} \in P PROVE g[T \cap S] <= h[T]
  <2>1. T \cap S \in SUBSET S /\ g[T \cap S] \in Nat
    BY <1>2 DEF AddsUp
  <2>2. CASE T = {}
    BY <1>2, <1>3, <2>2 DEF AddsUp
  <2>3. CASE T # {}
    <3>1. PICK x \in T : TRUE
      BY <2>3
    <3>2. h[T] = e[x] + h[T \ {x}] /\ h[T \ {x}] \in Nat /\ e[x] \in Nat
      BY <1>3, <3>1 DEF AddsUp
    <3>3. g[(T \ {x}) \cap S] <= h[T \ {x}] /\ g[(T \ {x}) \cap S] \in Nat
      BY <1>2, <1>4, <3>1 DEF AddsUp
    <3>4. CASE x \in S
      <4>1. x \in T \cap S /\ (T \cap S) \ {x} = (T \ {x}) \cap S
        BY <3>1, <3>4
      <4>2. g[T \cap S] = f[x] + g[(T \ {x}) \cap S]
        BY <1>2, <2>1, <4>1 DEF AddsUp
      <4>3. f[x] \in Nat /\ f[x] <= e[x]
        BY <3>4
      <4> QED
        BY <3>2, <3>3, <4>2, <4>3
    <3>5. CASE x \notin S
      <4>1. (T \ {x}) \cap S = T \cap S
        BY <3>5
      <4> QED
        BY <2>1, <3>2, <3>3, <4>1
    <3> QED
      BY <3>4, <3>5
  <2> QED
    BY <2>2, <2>3
<1>5. \A T \in SUBSET R : (\A x \in T : T \ {x} \in P) => T \in P
  BY <1>4
<1> HIDE DEF P
<1>6. R \in P
  BY <1>5, FiniteSetInduction
<1>7. R \cap S = S
  OBVIOUS
<1> QED
  BY <1>2, <1>3, <1>6, <1>7 DEF P

\* One summand more.
LEMMA SumExtends ==
    ASSUME NEW S, IsFiniteSet(S), NEW f \in [S -> Nat], NEW x, x \notin S,
           NEW e \in [S \cup {x} -> Nat], \A y \in S : e[y] = f[y]
    PROVE  SumFunction(e) = SumFunction(f) + e[x]
<1>1. IsFiniteSet(S \cup {x})
  BY FS_AddElement
<1>2. PICK g : AddsUp(g, f, S) /\ SumFunction(f) = g[S]
  BY SumFunctionAddsUp
<1>3. PICK h : AddsUp(h, e, S \cup {x}) /\ SumFunction(e) = h[S \cup {x}]
  BY <1>1, SumFunctionAddsUp
<1> DEFINE P == {T \in SUBSET S : h[T] = g[T]}
<1>4. ASSUME NEW T \in SUBSET S, \A y \in T : T \ {y} \in P PROVE h[T] = g[T]
  <2>1. CASE T = {}
    BY <1>2, <1>3, <2>1 DEF AddsUp
  <2>2. CASE T # {}
    <3>1. PICK y \in T : TRUE
      BY <2>2
    <3>2. h[T] = e[y] + h[T \ {y}]
      BY <1>3, <3>1 DEF AddsUp
    <3>3. g[T] = f[y] + g[T \ {y}]
      BY <1>2, <3>1 DEF AddsUp
    <3>4. h[T \ {y}] = g[T \ {y}] /\ e[y] = f[y]
      BY <1>4, <3>1
    <3> QED
      BY <3>2, <3>3, <3>4
  <2> QED
    BY <2>1, <2>2
<1>5. \A T \in SUBSET S : (\A y \in T : T \ {y} \in P) => T \in P
  BY <1>4
<1> HIDE DEF P
<1>6. S \in P
  BY <1>5, FiniteSetInduction
<1>7. h[S \cup {x}] = e[x] + h[(S \cup {x}) \ {x}]
  BY <1>3 DEF AddsUp
<1>8. (S \cup {x}) \ {x} = S
  OBVIOUS
<1>9. e[x] \in Nat /\ g[S] \in Nat
  BY <1>2 DEF AddsUp
<1> QED
  BY <1>2, <1>3, <1>6, <1>7, <1>8, <1>9 DEF P
=============================================================================
