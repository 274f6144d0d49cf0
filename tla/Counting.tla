------------------------------- MODULE Counting -------------------------------
(***************************************************************************)
(* What the proofs about the counters and totals of the code rest on: how  *)
(* the cardinality of a set of tasks moves when one task joins or leaves   *)
(* it, and how a sum over a finite set, SumFunctionOnSet of the community  *)
(* modules, moves when one term does.                                      *)
(*                                                                         *)
(* SumFunctionOnSet is a fold, a recursive function over the subsets of    *)
(* the set.  A sum of natural numbers is shown here to be the cardinality  *)
(* of a set that has f[x] members for every x; that takes one induction,   *)
(* and what sums do then follows from what cardinalities do.               *)
(***************************************************************************)
EXTENDS Integers, FiniteSets, FiniteSetTheorems, TLAPS

\* By how much a count moves when one element begins or ceases to be counted.
Change(was, is) == IF was <=> is THEN 0 ELSE IF is THEN 1 ELSE -1

\* A subset of S that gains or loses at most the element r.
LEMMA Recount ==
  ASSUME NEW S, IsFiniteSet(S),
         NEW A \in SUBSET S, NEW B \in SUBSET S, NEW r \in S,
         \A q \in S : q # r => (q \in A <=> q \in B)
  PROVE  Cardinality(B) = Cardinality(A) + Change(r \in A, r \in B)
<1>1. IsFiniteSet(A) /\ IsFiniteSet(B)
  BY FS_Subset
<1>2. Cardinality(A) \in Nat /\ Cardinality(B) \in Nat
  BY <1>1, FS_CardinalityType
<1>3. ASSUME r \in A <=> r \in B PROVE Cardinality(B) = Cardinality(A)
  <2>1. A = B
    BY <1>3
  <2>2. QED
    BY <2>1
<1>4. ASSUME r \notin A, r \in B PROVE Cardinality(B) = Cardinality(A) + 1
  <2>1. B = A \cup {r}
    BY <1>4
  <2>2. QED
    BY <2>1, <1>1, <1>4, FS_AddElement
<1>5. ASSUME r \in A, r \notin B
      PROVE  Cardinality(B) = Cardinality(A) - 1 /\ Cardinality(A) > 0
  <2>1. A = B \cup {r}
    BY <1>5
  <2>2. Cardinality(A) = Cardinality(B) + 1
    BY <2>1, <1>1, <1>5, FS_AddElement
  <2>3. QED
    BY <2>2, <1>2
<1>6. QED
  BY <1>2, <1>3, <1>4, <1>5 DEF Change

-----------------------------------------------------------------------------
\* A non-empty set of subsets of a finite set has a minimal member.
LEMMA SmallestSubset ==
  ASSUME NEW S, IsFiniteSet(S), NEW Bad \in SUBSET SUBSET S, Bad # {}
  PROVE  \E T \in Bad : \A U \in SUBSET T : U # T => U \notin Bad
<1>1. Bad \subseteq FiniteSubsetsOf(S)
  BY FS_FiniteSubsetsOfFinite
<1>2. PICK T \in Bad : \A U \in Bad : <<U, T>> \notin StrictSubsetOrdering(S)
  BY <1>1, FS_StrictSubsetOrderingWellFounded, WFMin
<1>3. QED
  BY <1>2 DEF StrictSubsetOrdering

-----------------------------------------------------------------------------
\* A set with f[x] members for every x \in S.
Units(f, S) == {u \in S \X Nat : u[2] < f[u[1]]}

\* One more x brings f[x] units.
LEMMA UnitsOfOneMore ==
  ASSUME NEW f, NEW T, NEW x \in T, f[x] \in Nat, IsFiniteSet(Units(f, T \ {x}))
  PROVE  /\ IsFiniteSet(Units(f, T))
         /\ Cardinality(Units(f, T)) = f[x] + Cardinality(Units(f, T \ {x}))
<1> DEFINE A == Units(f, T \ {x})
           N == 0 .. f[x] - 1
           B == {x} \X N
<1>1. Units(f, T) = A \cup B
  BY DEF Units
<1>2. A \cap B = {}
  BY DEF Units
<1>3. IsFiniteSet(N) /\ Cardinality(N) = f[x]
  <2>1. 0 \in Int /\ f[x] - 1 \in Int /\ (0 > f[x] - 1 <=> f[x] = 0)
    OBVIOUS
  <2>2. IsFiniteSet(N) /\ Cardinality(N) = IF 0 > f[x] - 1 THEN 0 ELSE f[x] - 1 - 0 + 1
    BY <2>1, FS_Interval
  <2>3. QED
    BY <2>1, <2>2
<1>4. IsFiniteSet({x}) /\ Cardinality({x}) = 1
  BY FS_Singleton
<1>5. IsFiniteSet(B) /\ Cardinality(B) = 1 * f[x]
  <2> HIDE DEF N
  <2>1. QED
    BY <1>3, <1>4, FS_Product
<1>6. Cardinality(A) \in Nat /\ Cardinality(A \cap B) = 0
  BY <1>2, FS_CardinalityType, FS_EmptySet
<1>7. IsFiniteSet(A \cup B) /\ Cardinality(A \cup B) = Cardinality(A) + Cardinality(B) - Cardinality(A \cap B)
  BY <1>5, FS_Union
<1>8. QED
  BY <1>1, <1>5, <1>6, <1>7

\* There are finitely many units.
LEMMA UnitsFinite ==
  ASSUME NEW f, NEW S, IsFiniteSet(S), \A x \in S : f[x] \in Nat, NEW T \in SUBSET S
  PROVE  IsFiniteSet(Units(f, T))
<1> DEFINE Bad == {U \in SUBSET S : ~IsFiniteSet(Units(f, U))}
<1> SUFFICES ASSUME Bad # {} PROVE FALSE
  OBVIOUS
<1>1. PICK U \in Bad : \A V \in SUBSET U : V # U => V \notin Bad
  BY SmallestSubset
<1>2. CASE U = {}
  <2>1. Units(f, U) = {}
    BY <1>2 DEF Units
  <2>2. QED
    BY <2>1, FS_EmptySet
<1>3. CASE U # {}
  <2>1. PICK x \in U : TRUE
    BY <1>3
  <2>2. IsFiniteSet(Units(f, U \ {x}))
    BY <1>1, <2>1
  <2>3. QED
    BY <2>1, <2>2, UnitsOfOneMore
<1>4. QED
  BY <1>2, <1>3

\* The fold, with its definitions expanded.
LEMMA Unfold ==
  ASSUME NEW f, NEW S
  PROVE  SumFunctionOnSet(f, S) = (CHOOSE iter : iter = [s \in SUBSET S |-> IF s = {} THEN 0 ELSE f[CHOOSE x \in s : TRUE] + iter[s \ {CHOOSE x \in s : TRUE}]])[S]
BY DEF SumFunctionOnSet, FoldFunctionOnSet, MapThenFoldSet

\* The sum of f over S is the number of its units.
LEMMA SumCountsUnits ==
  ASSUME NEW f, NEW S, IsFiniteSet(S), \A x \in S : f[x] \in Nat
  PROVE  SumFunctionOnSet(f, S) = Cardinality(Units(f, S))
<1> DEFINE any(s) == CHOOSE x \in s : TRUE
           Eqn(g) == g = [s \in SUBSET S |-> IF s = {} THEN 0 ELSE f[any(s)] + g[s \ {any(s)}]]
           count == [s \in SUBSET S |-> Cardinality(Units(f, s))]
           iter == CHOOSE g : Eqn(g)
<1>1. SumFunctionOnSet(f, S) = iter[S]
  BY Unfold
<1>2. \A s \in SUBSET S : s # {} => any(s) \in s
  OBVIOUS
<1>3. \A s \in SUBSET S :
        count[s] = IF s = {} THEN 0 ELSE f[any(s)] + count[s \ {any(s)}]
  <2> SUFFICES ASSUME NEW s \in SUBSET S
               PROVE  count[s] = IF s = {} THEN 0 ELSE f[any(s)] + count[s \ {any(s)}]
    OBVIOUS
  <2>1. CASE s = {}
    <3>1. Units(f, s) = {}
      BY <2>1 DEF Units
    <3>2. QED
      BY <2>1, <3>1, FS_EmptySet
  <2>2. CASE s # {}
    <3>1. PICK x \in s : x = any(s)
      BY <1>2, <2>2
    <3>2. s \ {x} \in SUBSET S /\ f[x] \in Nat
      OBVIOUS
    <3>3. IsFiniteSet(Units(f, s \ {x}))
      BY <3>2, UnitsFinite
    <3>4. Cardinality(Units(f, s)) = f[x] + Cardinality(Units(f, s \ {x}))
      BY <3>2, <3>3, UnitsOfOneMore
    <3> HIDE DEF any
    <3>5. QED
      BY <2>2, <3>1, <3>2, <3>4
  <2>3. QED
    BY <2>1, <2>2
<1>4. Eqn(count)
  <2> HIDE DEF any
  <2>1. QED
    BY <1>3
<1>5. Eqn(iter)
  <2> HIDE DEF Eqn
  <2>1. QED
    BY <1>4
<1>6. \A T \in SUBSET S : iter[T] = count[T]
  <2> DEFINE Bad == {U \in SUBSET S : iter[U] # count[U]}
  <2> HIDE DEF iter, any
  <2> SUFFICES ASSUME Bad # {} PROVE FALSE
    OBVIOUS
  <2>1. PICK U \in Bad : \A V \in SUBSET U : V # U => V \notin Bad
    <3>1. Bad \in SUBSET SUBSET S
      OBVIOUS
    <3> HIDE DEF Bad
    <3>2. QED
      BY <3>1, SmallestSubset
  <2>2. iter[U] = IF U = {} THEN 0 ELSE f[any(U)] + iter[U \ {any(U)}]
    BY <1>5
  <2>3. count[U] = IF U = {} THEN 0 ELSE f[any(U)] + count[U \ {any(U)}]
    BY <1>3
  <2>4. U # {} => iter[U \ {any(U)}] = count[U \ {any(U)}]
    BY <1>2, <2>1
  <2>5. QED
    BY <2>2, <2>3, <2>4
<1>7. QED
  BY <1>1, <1>6

-----------------------------------------------------------------------------
\* Nothing adds up to zero.
LEMMA SumOfNone ==
  ASSUME NEW f
  PROVE  SumFunctionOnSet(f, {}) = 0
<1>1. IsFiniteSet({}) /\ Units(f, {}) = {}
  BY FS_EmptySet DEF Units
<1>2. QED
  BY <1>1, SumCountsUnits, FS_EmptySet

\* Zeros sum to zero.
LEMMA SumOfZeros ==
  ASSUME NEW f, NEW S, IsFiniteSet(S), \A x \in S : f[x] = 0
  PROVE  SumFunctionOnSet(f, S) = 0
<1>1. Units(f, S) = {}
  BY DEF Units
<1>2. \A x \in S : f[x] \in Nat
  OBVIOUS
<1>3. SumFunctionOnSet(f, S) = Cardinality(Units(f, S))
  BY <1>2, SumCountsUnits
<1>4. QED
  BY <1>1, <1>3, FS_EmptySet

\* A sum of natural numbers is one.
LEMMA SumType ==
  ASSUME NEW f, NEW S, IsFiniteSet(S), \A x \in S : f[x] \in Nat
  PROVE  SumFunctionOnSet(f, S) \in Nat
BY SumCountsUnits, UnitsFinite, FS_CardinalityType

\* The terms can be added in any order.
LEMMA SumOneMore ==
  ASSUME NEW f, NEW S, IsFiniteSet(S), \A x \in S : f[x] \in Nat, NEW x \in S
  PROVE  SumFunctionOnSet(f, S) = f[x] + SumFunctionOnSet(f, S \ {x})
<1>1. IsFiniteSet(S \ {x}) /\ \A y \in S \ {x} : f[y] \in Nat
  BY FS_RemoveElement
<1>2. IsFiniteSet(Units(f, S \ {x}))
  BY UnitsFinite
<1>3. Cardinality(Units(f, S)) = f[x] + Cardinality(Units(f, S \ {x}))
  BY <1>2, UnitsOfOneMore
<1>4. QED
  BY <1>1, <1>3, SumCountsUnits

\* More terms, or larger ones, do not make a sum smaller.
LEMMA SumMonotone ==
  ASSUME NEW f, NEW g, NEW S, IsFiniteSet(S), NEW T \in SUBSET S,
         \A x \in S : g[x] \in Nat,
         \A x \in T : f[x] \in Nat /\ f[x] <= g[x]
  PROVE  SumFunctionOnSet(f, T) <= SumFunctionOnSet(g, S)
<1>1. IsFiniteSet(T)
  BY FS_Subset
<1>2. Units(f, T) \subseteq Units(g, S)
  BY DEF Units
<1>3. IsFiniteSet(Units(g, S))
  BY UnitsFinite
<1>4. Cardinality(Units(f, T)) <= Cardinality(Units(g, S))
  BY <1>2, <1>3, FS_Subset
<1>5. QED
  BY <1>1, <1>4, SumCountsUnits

\* A sum depends on nothing but its terms.
LEMMA SumSame ==
  ASSUME NEW f, NEW g, NEW S, IsFiniteSet(S),
         \A x \in S : f[x] \in Nat /\ g[x] = f[x]
  PROVE  SumFunctionOnSet(g, S) = SumFunctionOnSet(f, S)
<1>1. Units(f, S) = Units(g, S)
  BY DEF Units
<1>2. QED
  BY <1>1, SumCountsUnits

\* A sum moves by what one of its terms moves.
LEMMA SumChanged ==
  ASSUME NEW f, NEW g, NEW S, IsFiniteSet(S), NEW x \in S,
         \A y \in S : f[y] \in Nat /\ g[y] \in Nat,
         \A y \in S : y # x => g[y] = f[y]
  PROVE  SumFunctionOnSet(g, S) = SumFunctionOnSet(f, S) - f[x] + g[x]
<1>1. IsFiniteSet(S \ {x})
  BY FS_RemoveElement
<1>2. SumFunctionOnSet(g, S \ {x}) = SumFunctionOnSet(f, S \ {x})
  BY <1>1, SumSame
<1>3. SumFunctionOnSet(f, S \ {x}) \in Nat
  BY <1>1, SumType
<1>4. /\ SumFunctionOnSet(f, S) = f[x] + SumFunctionOnSet(f, S \ {x})
      /\ SumFunctionOnSet(g, S) = g[x] + SumFunctionOnSet(g, S \ {x})
  BY SumOneMore
<1>5. QED
  BY <1>2, <1>3, <1>4

\* A sum is the sum of its parts.
LEMMA SumSplit ==
  ASSUME NEW f, NEW S, IsFiniteSet(S), \A x \in S : f[x] \in Nat, NEW T \in SUBSET S
  PROVE  SumFunctionOnSet(f, S) = SumFunctionOnSet(f, T) + SumFunctionOnSet(f, S \ T)
<1>1. IsFiniteSet(T) /\ IsFiniteSet(S \ T)
  BY FS_Subset
<1>2. IsFiniteSet(Units(f, S)) /\ IsFiniteSet(Units(f, T))
  BY UnitsFinite
<1>3. Units(f, S) \ Units(f, T) = Units(f, S \ T) /\ Units(f, S) \cap Units(f, T) = Units(f, T)
  BY DEF Units
<1>4. Cardinality(Units(f, S) \ Units(f, T))
        = Cardinality(Units(f, S)) - Cardinality(Units(f, S) \cap Units(f, T))
  BY <1>2, FS_Difference
<1>5. Cardinality(Units(f, S \ T)) = Cardinality(Units(f, S)) - Cardinality(Units(f, T))
  BY <1>3, <1>4
<1>6. Cardinality(Units(f, S)) \in Nat /\ Cardinality(Units(f, T)) \in Nat
  BY <1>2, FS_CardinalityType
<1>7. /\ SumFunctionOnSet(f, S) = Cardinality(Units(f, S))
      /\ SumFunctionOnSet(f, T) = Cardinality(Units(f, T))
      /\ SumFunctionOnSet(f, S \ T) = Cardinality(Units(f, S \ T))
  BY <1>1, SumCountsUnits
<1>8. QED
  BY <1>5, <1>6, <1>7

\* Terms of at most c add up to at most c for each of them.
LEMMA SumBounded ==
  ASSUME NEW f, NEW S, IsFiniteSet(S), NEW c \in Nat, \A x \in S : f[x] \in Nat /\ f[x] <= c
  PROVE  SumFunctionOnSet(f, S) <= Cardinality(S) * c
<1> DEFINE N == 0 .. c - 1
<1>1. IsFiniteSet(N) /\ Cardinality(N) = c
  <2>1. 0 \in Int /\ c - 1 \in Int /\ (0 > c - 1 <=> c = 0)
    OBVIOUS
  <2>2. IsFiniteSet(N) /\ Cardinality(N) = IF 0 > c - 1 THEN 0 ELSE c - 1 - 0 + 1
    BY <2>1, FS_Interval
  <2>3. QED
    BY <2>1, <2>2
<1>2. Units(f, S) \subseteq S \X N
  <2>1. \A x \in S, n \in Nat : n < f[x] => n \in N
    OBVIOUS
  <2>2. QED
    BY <2>1 DEF Units
<1>3. IsFiniteSet(S \X N) /\ Cardinality(S \X N) = Cardinality(S) * c
  <2> HIDE DEF N
  <2>1. QED
    BY <1>1, FS_Product
<1>4. Cardinality(Units(f, S)) <= Cardinality(S \X N)
  BY <1>2, <1>3, FS_Subset
<1>5. QED
  BY <1>3, <1>4, SumCountsUnits

\* A sum is not above another one that has, for each of its terms, a term of its
\* own that is at least as large.
LEMMA SumMapped ==
  ASSUME NEW f, NEW T, IsFiniteSet(T), NEW g, NEW S, IsFiniteSet(S),
         \A y \in S : g[y] \in Nat,
         NEW to \in [T -> S], \A x \in T : f[x] \in Nat /\ f[x] <= g[to[x]],
         \A x, y \in T : to[x] = to[y] => x = y
  PROVE  SumFunctionOnSet(f, T) <= SumFunctionOnSet(g, S)
<1> DEFINE pair == [u \in Units(f, T) |-> <<to[u[1]], u[2]>>]
<1>1. pair \in Injection(Units(f, T), Units(g, S))
  <2>1. ASSUME NEW u \in Units(f, T) PROVE pair[u] \in Units(g, S)
    BY DEF Units
  <2>2. ASSUME NEW u \in Units(f, T), NEW v \in Units(f, T), pair[u] = pair[v] PROVE u = v
    BY <2>2 DEF Units
  <2>3. pair \in [Units(f, T) -> Units(g, S)]
    BY <2>1
  <2>4. QED
    BY <2>2, <2>3 DEF Injection, IsInjective
<1>2. IsFiniteSet(Units(f, T)) /\ IsFiniteSet(Units(g, S))
  BY UnitsFinite
<1>3. Cardinality(Units(f, T)) <= Cardinality(Units(g, S))
  <2> HIDE DEF pair
  <2>1. QED
    BY <1>1, <1>2, FS_Injection
<1>4. QED
  BY <1>3, SumCountsUnits

===============================================================================
