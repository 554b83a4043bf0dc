----------------------------- MODULE Aggregates -----------------------------
(***************************************************************************)
(* What Max, Min and the sums of the community modules return.  Max and    *)
(* Min choose an element that is one; SumFunctionOnSet(f, S) is the value  *)
(* at S of a table over the subsets of S that takes one element after the  *)
(* other.  The proofs about rounds, rankings, wallets and Mesas cite these *)
(* facts and never look at the definitions.                                *)
(***************************************************************************)
EXTENDS Integers, FiniteSetsExt, FiniteSetTheorems, WellFoundedInduction, TLAPS

-----------------------------------------------------------------------------
(* EXTREMES                                                                 *)

\* A set of numbers up to n that is not empty has a largest element.
LEMMA MaxIsMember ==
    ASSUME NEW n \in Nat, NEW S, S \subseteq 1..n, S # {}
    PROVE  Max(S) \in S /\ \A s \in S : s <= Max(S)
  <1> DEFINE Above(s) == {x \in 1..n : x > s}
             T == {Above(s) : s \in S}
  <1>1. T \subseteq FiniteSubsetsOf(1..n)
    <2>1. IsFiniteSet(1..n)
      BY FS_Interval
    <2>2. ASSUME NEW s \in S
          PROVE  Above(s) \in SUBSET (1..n) /\ IsFiniteSet(Above(s))
      <3>1. Above(s) \in SUBSET (1..n)
        OBVIOUS
      <3> HIDE DEF Above
      <3> QED
        BY <2>1, <3>1, FS_Subset
    <2> HIDE DEF Above
    <2> QED
      BY <2>2 DEF FiniteSubsetsOf
  <1>2. T # {}
    OBVIOUS
  <1>3. PICK t \in T : \A y \in T : ~(<<y, t>> \in StrictSubsetOrdering(1..n))
    <2> HIDE DEF T
    <2> QED
      BY <1>1, <1>2, WFMin, FS_StrictSubsetOrderingWellFounded
  <1>4. PICK m \in S : t = Above(m)
    BY <1>3
  <1>5. \A s \in S : m >= s
    <2> SUFFICES ASSUME NEW s \in S, s > m
                 PROVE  FALSE
      OBVIOUS
    <2>1. Above(s) \subseteq Above(m) /\ Above(s) # Above(m)
      <3>1. s \in Above(m) /\ s \notin Above(s)
        OBVIOUS
      <3>2. Above(s) \subseteq Above(m)
        OBVIOUS
      <3> QED
        BY <3>1, <3>2
    <2>2. Above(s) \in T /\ Above(m) \in T
      OBVIOUS
    <2>3. Above(s) \in SUBSET (1..n) /\ Above(m) \in SUBSET (1..n)
      OBVIOUS
    <2> HIDE DEF Above
    <2> QED
      BY <1>3, <1>4, <2>1, <2>2, <2>3 DEF StrictSubsetOrdering
  <1>6. Max(S) \in S /\ \A s \in S : Max(S) >= s
    BY <1>5 DEF Max
  <1> QED
    BY <1>6

\* The same for a smallest element, by counting down from n.
LEMMA MinIsMember ==
    ASSUME NEW n \in Nat, NEW S, S \subseteq 1..n, S # {}
    PROVE  Min(S) \in S /\ \A s \in S : Min(S) <= s
  <1> DEFINE T == {n + 1 - s : s \in S}
             m == Max(T)
  <1>1. T \subseteq 1..n /\ T # {}
    <2>1. ASSUME NEW s \in S
          PROVE  n + 1 - s \in 1..n
      <3>1. s \in 1..n
        OBVIOUS
      <3> QED
        BY <3>1
    <2>2. PICK s \in S : TRUE
      OBVIOUS
    <2>3. n + 1 - s \in T
      BY <2>2
    <2> QED
      BY <2>1, <2>3
  <1> HIDE DEF T
  <1>2. m \in T /\ \A t \in T : t <= m
    BY <1>1, MaxIsMember
  <1> HIDE DEF m
  <1>3. PICK least \in S : m = n + 1 - least
    BY <1>2 DEF T
  <1>4. \A s \in S : least <= s
    <2> SUFFICES ASSUME NEW s \in S
                 PROVE  least <= s
      OBVIOUS
    <2>1. n + 1 - s <= m
      BY <1>2 DEF T
    <2>2. s \in Int /\ least \in Int
      OBVIOUS
    <2> QED
      BY <1>3, <2>1, <2>2
  <1>5. Min(S) \in S /\ \A s \in S : Min(S) <= s
    BY <1>4 DEF Min
  <1> QED
    BY <1>5

-----------------------------------------------------------------------------
(* TABLES OF SUMS                                                           *)

\* The element that a sum takes first.
Pick(s) == CHOOSE x \in s : TRUE

\* g is the table of the sums of f over the subsets of S.
Folded(f, S, g) ==
    g = [s \in SUBSET S |-> IF s = {} THEN 0 ELSE f[Pick(s)] + g[s \ {Pick(s)}]]

\* The community module defines a sum by such a table.
LEMMA SumIsFold ==
    ASSUME NEW f, NEW S
    PROVE  SumFunctionOnSet(f, S) = (CHOOSE g : Folded(f, S, g))[S]
  BY DEF SumFunctionOnSet, FoldFunctionOnSet, MapThenFoldSet, Folded, Pick

\* It is one of the set.
LEMMA PickIsMember ==
    ASSUME NEW S, S # {}
    PROVE  Pick(S) \in S
  BY DEF Pick

\* A set of subsets that has every set whose smaller sets it has, has them all.
LEMMA SubsetInduction ==
    ASSUME NEW S, IsFiniteSet(S), NEW Good,
           \A T \in SUBSET S : (\A U \in SUBSET T : U # T => U \in Good) => T \in Good
    PROVE  \A T \in SUBSET S : T \in Good
  <1> DEFINE Bad == {T \in SUBSET S : T \notin Good}
  <1> SUFFICES ASSUME Bad # {} PROVE FALSE
    OBVIOUS
  <1>1. Bad \subseteq FiniteSubsetsOf(S)
    BY FS_FiniteSubsetsOfFinite
  <1>2. PICK T \in Bad : \A U \in Bad : ~(<<U, T>> \in StrictSubsetOrdering(S))
    <2> HIDE DEF Bad
    <2> QED
      BY <1>1, WFMin, FS_StrictSubsetOrderingWellFounded
  <1>3. \A U \in SUBSET T : U # T => U \notin Bad
    BY <1>2 DEF StrictSubsetOrdering
  <1> QED
    BY <1>2, <1>3

\* What a table of sums says of a set it also says of the set's subsets.
LEMMA FoldedBelow ==
    ASSUME NEW f, NEW S, NEW g, Folded(f, S, g), NEW T \in SUBSET S
    PROVE  Folded(f, T, [s \in SUBSET T |-> g[s]])
  <1> DEFINE h == [s \in SUBSET T |-> g[s]]
  <1>1. ASSUME NEW s \in SUBSET T
        PROVE  h[s] = IF s = {} THEN 0 ELSE f[Pick(s)] + h[s \ {Pick(s)}]
    <2>1. s \in SUBSET S /\ s \ {Pick(s)} \in SUBSET T
      OBVIOUS
    <2>2. g[s] = IF s = {} THEN 0 ELSE f[Pick(s)] + g[s \ {Pick(s)}]
      BY <2>1 DEF Folded
    <2> QED
      BY <2>1, <2>2
  <1>2. h = [s \in SUBSET T |-> h[s]]
    OBVIOUS
  <1> HIDE DEF h
  <1> QED
    BY <1>1, <1>2 DEF Folded

\* There is at most one table of sums.
LEMMA FoldedOnce ==
    ASSUME NEW S, IsFiniteSet(S), NEW f, NEW g, NEW h, Folded(f, S, g), Folded(f, S, h)
    PROVE  g = h
  <1> DEFINE Good == {T \in SUBSET S : g[T] = h[T]}
  <1>1. ASSUME NEW T \in SUBSET S, \A U \in SUBSET T : U # T => U \in Good
        PROVE  T \in Good
    <2>1. CASE T = {}
      BY <2>1 DEF Folded
    <2>2. CASE T # {}
      <3>1. Pick(T) \in T
        BY <2>2, PickIsMember
      <3>2. T \ {Pick(T)} \in Good
        BY <1>1, <3>1
      <3> QED
        BY <2>2, <3>2 DEF Folded
    <2> QED
      BY <2>1, <2>2
  <1>2. \A T \in SUBSET S : T \in Good
    <2> HIDE DEF Good
    <2> QED
      BY <1>1, SubsetInduction
  <1>3. g = [T \in SUBSET S |-> g[T]] /\ h = [T \in SUBSET S |-> h[T]]
    BY DEF Folded
  <1> QED
    BY <1>2, <1>3

\* There is one for every finite set.
LEMMA FoldedExists ==
    ASSUME NEW S, IsFiniteSet(S), NEW f
    PROVE  \E g : Folded(f, S, g)
  <1> DEFINE Good == {T \in SUBSET S : \E g : Folded(f, T, g)}
  <1>1. ASSUME NEW T \in SUBSET S, \A U \in SUBSET T : U # T => U \in Good
        PROVE  T \in Good
    <2> DEFINE G(s) == (CHOOSE g : Folded(f, s, g))[s]
               rest(s) == s \ {Pick(s)}
               h == [s \in SUBSET T |-> IF s = {} THEN 0 ELSE f[Pick(s)] + G(rest(s))]
    <2>1. ASSUME NEW s \in SUBSET T, s # T
          PROVE  G(s) = IF s = {} THEN 0 ELSE f[Pick(s)] + G(rest(s))
      <3> DEFINE g == CHOOSE g : Folded(f, s, g)
      <3>1. s \in SUBSET S /\ \E x : Folded(f, s, x)
        BY <1>1, <2>1
      <3>2. Folded(f, s, g)
        BY <3>1
      <3> HIDE DEF g
      <3>3. g[s] = IF s = {} THEN 0 ELSE f[Pick(s)] + g[rest(s)]
        BY <3>2 DEF Folded
      <3>4. CASE s = {}
        BY <3>3, <3>4 DEF g
      <3>5. CASE s # {}
        <4> DEFINE r == rest(s)
                   k == [x \in SUBSET r |-> g[x]]
                   c == CHOOSE y : Folded(f, r, y)
        <4>1. r \in SUBSET s /\ r \in SUBSET T /\ r # T /\ r \in SUBSET S
          BY <2>1, <3>1
        <4>2. Folded(f, r, k)
          BY <3>2, <4>1, FoldedBelow
        <4>3. Folded(f, r, c)
          BY <4>2
        <4>4. IsFiniteSet(r)
          BY <4>1, FS_Subset
        <4>5. k = c
          <5> HIDE DEF k, c, r
          <5> QED
            BY <4>2, <4>3, <4>4, FoldedOnce
        <4>6. k[r] = g[r]
          OBVIOUS
        <4>7. G(r) = c[r] /\ G(s) = g[s]
          BY DEF g
        <4> HIDE DEF G, k, c
        <4>8. G(s) = f[Pick(s)] + G(r)
          BY <3>3, <3>5, <4>5, <4>6, <4>7
        <4> QED
          BY <3>5, <4>8
      <3> QED
        BY <3>4, <3>5
    <2>2. ASSUME NEW s \in SUBSET T
          PROVE  h[s] = IF s = {} THEN 0 ELSE f[Pick(s)] + h[rest(s)]
      <3>1. CASE s = {}
        BY <3>1
      <3>2. CASE s # {}
        <4>1. Pick(s) \in s
          BY <3>2, PickIsMember
        <4>2. rest(s) \in SUBSET T /\ rest(s) # T
          BY <4>1
        <4>3. h[rest(s)] = IF rest(s) = {} THEN 0 ELSE f[Pick(rest(s))] + G(rest(rest(s)))
          BY <4>2
        <4>4. h[rest(s)] = G(rest(s))
          <5> HIDE DEF G, h, rest
          <5> QED
            BY <2>1, <4>2, <4>3
        <4>5. h[s] = f[Pick(s)] + G(rest(s))
          BY <3>2
        <4> HIDE DEF G, h, rest
        <4> QED
          BY <3>2, <4>4, <4>5
      <3> QED
        BY <3>1, <3>2
    <2>3. h = [s \in SUBSET T |-> h[s]]
      OBVIOUS
    <2> HIDE DEF h, G
    <2>4. Folded(f, T, h)
      BY <2>2, <2>3 DEF Folded
    <2> QED
      BY <2>4
  <1>2. \A T \in SUBSET S : T \in Good
    <2> HIDE DEF Good
    <2> QED
      BY <1>1, SubsetInduction
  <1> QED
    BY <1>2

-----------------------------------------------------------------------------
(* WHAT A SUM IS                                                            *)

\* The empty sum.
LEMMA SumOfNothing ==
    ASSUME NEW f
    PROVE  SumFunctionOnSet(f, {}) = 0
  <1>1. PICK g : Folded(f, {}, g)
    BY FS_EmptySet, FoldedExists
  <1>2. Folded(f, {}, CHOOSE h : Folded(f, {}, h))
    BY <1>1
  <1> QED
    BY <1>2, SumIsFold DEF Folded

\* The sum takes one element, and goes on with the others.
LEMMA SumTakes ==
    ASSUME NEW S, IsFiniteSet(S), NEW f, S # {}
    PROVE  SumFunctionOnSet(f, S) = f[Pick(S)] + SumFunctionOnSet(f, S \ {Pick(S)})
  <1> DEFINE g == CHOOSE g : Folded(f, S, g)
             r == S \ {Pick(S)}
             k == [x \in SUBSET r |-> g[x]]
             c == CHOOSE y : Folded(f, r, y)
  <1>1. Folded(f, S, g)
    BY FoldedExists
  <1>2. r \in SUBSET S /\ IsFiniteSet(r)
    BY FS_RemoveElement
  <1>3. Folded(f, r, k)
    BY <1>1, <1>2, FoldedBelow
  <1>4. Folded(f, r, c)
    BY <1>3
  <1>5. k = c
    <2> HIDE DEF k, c, r
    <2> QED
      BY <1>2, <1>3, <1>4, FoldedOnce
  <1>6. k[r] = g[r]
    OBVIOUS
  <1>7. SumFunctionOnSet(f, S) = g[S] /\ SumFunctionOnSet(f, r) = c[r]
    BY SumIsFold
  <1>8. g[S] = f[Pick(S)] + g[r]
    BY <1>1 DEF Folded
  <1> QED
    BY <1>5, <1>6, <1>7, <1>8

\* A sum of integers is one.
LEMMA SumType ==
    ASSUME NEW S, IsFiniteSet(S), NEW f, \A x \in S : f[x] \in Int
    PROVE  SumFunctionOnSet(f, S) \in Int
  <1> DEFINE Good == {T \in SUBSET S : SumFunctionOnSet(f, T) \in Int}
  <1>1. ASSUME NEW T \in SUBSET S, \A U \in SUBSET T : U # T => U \in Good
        PROVE  T \in Good
    <2>1. CASE T = {}
      BY <2>1, SumOfNothing
    <2>2. CASE T # {}
      <3>1. Pick(T) \in T /\ IsFiniteSet(T)
        BY <2>2, PickIsMember, FS_Subset
      <3>2. SumFunctionOnSet(f, T \ {Pick(T)}) \in Int
        BY <1>1, <3>1
      <3>3. SumFunctionOnSet(f, T) = f[Pick(T)] + SumFunctionOnSet(f, T \ {Pick(T)})
        BY <2>2, <3>1, SumTakes
      <3> QED
        BY <3>1, <3>2, <3>3
    <2> QED
      BY <2>1, <2>2
  <1>2. \A T \in SUBSET S : T \in Good
    <2> HIDE DEF Good
    <2> QED
      BY <1>1, SubsetInduction
  <1> QED
    BY <1>2

\* The order does not matter: any element may be taken first.
LEMMA SumTakesAny ==
    ASSUME NEW S, IsFiniteSet(S), NEW f, \A x \in S : f[x] \in Int, NEW a \in S
    PROVE  SumFunctionOnSet(f, S) = f[a] + SumFunctionOnSet(f, S \ {a})
  <1> DEFINE F(T) == SumFunctionOnSet(f, T)
             Good == {T \in SUBSET S : \A x \in T : F(T) = f[x] + F(T \ {x})}
  <1>1. ASSUME NEW T \in SUBSET S, \A U \in SUBSET T : U # T => U \in Good
        PROVE  T \in Good
    <2> SUFFICES ASSUME NEW x \in T PROVE F(T) = f[x] + F(T \ {x})
      OBVIOUS
    <2> DEFINE y == Pick(T)
    <2>1. y \in T /\ IsFiniteSet(T)
      BY PickIsMember, FS_Subset
    <2>2. F(T) = f[y] + F(T \ {y})
      BY <2>1, SumTakes
    <2>3. CASE x = y
      BY <2>2, <2>3
    <2>4. CASE x # y
      <3>1. T \ {y} \in Good /\ T \ {x} \in Good
        BY <1>1, <2>1
      <3>2. x \in T \ {y} /\ y \in T \ {x}
        BY <2>1, <2>4
      <3>3. F(T \ {y}) = f[x] + F((T \ {y}) \ {x}) /\ F(T \ {x}) = f[y] + F((T \ {x}) \ {y})
        BY <3>1, <3>2
      <3>4. (T \ {y}) \ {x} = (T \ {x}) \ {y}
        OBVIOUS
      <3>5. F((T \ {x}) \ {y}) \in Int
        <4>1. IsFiniteSet((T \ {x}) \ {y})
          BY <2>1, FS_RemoveElement
        <4>2. \A z \in (T \ {x}) \ {y} : f[z] \in Int
          OBVIOUS
        <4> HIDE DEF y
        <4> QED
          BY <4>1, <4>2, SumType
      <3>6. f[x] \in Int /\ f[y] \in Int
        BY <2>1
      <3>7. F((T \ {y}) \ {x}) = F((T \ {x}) \ {y})
        BY <3>4
      <3>8. f[y] + F(T \ {y}) = f[x] + F(T \ {x})
        <4> DEFINE both == F((T \ {x}) \ {y})
        <4>1. F(T \ {y}) = f[x] + both /\ F(T \ {x}) = f[y] + both /\ both \in Int
          BY <3>3, <3>5, <3>7
        <4> HIDE DEF both, F, y
        <4> QED
          BY <3>6, <4>1
      <3> QED
        BY <2>2, <3>8
    <2> QED
      BY <2>3, <2>4
  <1>2. \A T \in SUBSET S : T \in Good
    <2> HIDE DEF Good
    <2> QED
      BY <1>1, SubsetInduction
  <1> QED
    BY <1>2

\* Sums of functions that agree on the set.
LEMMA SumsAgree ==
    ASSUME NEW S, IsFiniteSet(S), NEW f, NEW g, \A x \in S : f[x] = g[x]
    PROVE  SumFunctionOnSet(f, S) = SumFunctionOnSet(g, S)
  <1> DEFINE Good == {T \in SUBSET S : SumFunctionOnSet(f, T) = SumFunctionOnSet(g, T)}
  <1>1. ASSUME NEW T \in SUBSET S, \A U \in SUBSET T : U # T => U \in Good
        PROVE  T \in Good
    <2>1. CASE T = {}
      BY <2>1, SumOfNothing
    <2>2. CASE T # {}
      <3>1. Pick(T) \in T /\ IsFiniteSet(T)
        BY <2>2, PickIsMember, FS_Subset
      <3>2. SumFunctionOnSet(f, T \ {Pick(T)}) = SumFunctionOnSet(g, T \ {Pick(T)})
        BY <1>1, <3>1
      <3>3. SumFunctionOnSet(f, T) = f[Pick(T)] + SumFunctionOnSet(f, T \ {Pick(T)})
        BY <2>2, <3>1, SumTakes
      <3>4. SumFunctionOnSet(g, T) = g[Pick(T)] + SumFunctionOnSet(g, T \ {Pick(T)})
        BY <2>2, <3>1, SumTakes
      <3>5. f[Pick(T)] = g[Pick(T)]
        BY <3>1
      <3> QED
        BY <3>2, <3>3, <3>4, <3>5
    <2> QED
      BY <2>1, <2>2
  <1>2. \A T \in SUBSET S : T \in Good
    <2> HIDE DEF Good
    <2> QED
      BY <1>1, SubsetInduction
  <1> QED
    BY <1>2

\* When one term changes, the sum changes by as much.
LEMMA SumMoves ==
    ASSUME NEW S, IsFiniteSet(S), NEW f, NEW g, NEW a \in S,
           \A x \in S : f[x] \in Int /\ g[x] \in Int,
           \A x \in S : x # a => f[x] = g[x]
    PROVE  /\ SumFunctionOnSet(f, S) \in Int
           /\ SumFunctionOnSet(g, S) = SumFunctionOnSet(f, S) + g[a] - f[a]
  <1>1. IsFiniteSet(S \ {a})
    BY FS_RemoveElement
  <1>2. SumFunctionOnSet(f, S \ {a}) = SumFunctionOnSet(g, S \ {a})
    BY <1>1, SumsAgree
  <1>3. SumFunctionOnSet(f, S) = f[a] + SumFunctionOnSet(f, S \ {a})
    BY SumTakesAny
  <1>4. SumFunctionOnSet(g, S) = g[a] + SumFunctionOnSet(g, S \ {a})
    BY SumTakesAny
  <1>5. SumFunctionOnSet(f, S \ {a}) \in Int /\ f[a] \in Int /\ g[a] \in Int
    BY <1>1, SumType
  <1> QED
    BY <1>2, <1>3, <1>4, <1>5

\* The same, for an element that need not be in the set.
LEMMA SumGrows ==
    ASSUME NEW S, IsFiniteSet(S), NEW f, NEW g, NEW a, NEW d \in Int,
           \A x \in S : f[x] \in Int,
           \A x \in S : g[x] = f[x] + (IF x = a THEN d ELSE 0)
    PROVE  /\ SumFunctionOnSet(f, S) \in Int
           /\ SumFunctionOnSet(g, S) = SumFunctionOnSet(f, S) + (IF a \in S THEN d ELSE 0)
  <1>1. \A x \in S : f[x] \in Int /\ g[x] \in Int /\ (x # a => f[x] = g[x])
    OBVIOUS
  <1>2. SumFunctionOnSet(f, S) \in Int
    BY SumType
  <1>3. CASE a \in S
    <2>1. SumFunctionOnSet(g, S) = SumFunctionOnSet(f, S) + g[a] - f[a]
      BY <1>1, <1>3, SumMoves
    <2>2. g[a] = f[a] + d /\ f[a] \in Int
      BY <1>3
    <2> QED
      BY <1>2, <1>3, <2>1, <2>2
  <1>4. CASE a \notin S
    <2>1. \A x \in S : f[x] = g[x]
      BY <1>1, <1>4
    <2>2. SumFunctionOnSet(f, S) = SumFunctionOnSet(g, S)
      BY <2>1, SumsAgree
    <2> QED
      BY <1>2, <1>4, <2>2
  <1> QED
    BY <1>2, <1>3, <1>4

\* A sum of zeros.
LEMMA SumOfZeros ==
    ASSUME NEW S, IsFiniteSet(S), NEW f, \A x \in S : f[x] = 0
    PROVE  SumFunctionOnSet(f, S) = 0
  <1> DEFINE Good == {T \in SUBSET S : SumFunctionOnSet(f, T) = 0}
  <1>1. ASSUME NEW T \in SUBSET S, \A U \in SUBSET T : U # T => U \in Good
        PROVE  T \in Good
    <2>1. CASE T = {}
      BY <2>1, SumOfNothing
    <2>2. CASE T # {}
      <3>1. Pick(T) \in T /\ IsFiniteSet(T)
        BY <2>2, PickIsMember, FS_Subset
      <3>2. SumFunctionOnSet(f, T \ {Pick(T)}) = 0
        BY <1>1, <3>1
      <3>3. SumFunctionOnSet(f, T) = f[Pick(T)] + SumFunctionOnSet(f, T \ {Pick(T)})
        BY <2>2, <3>1, SumTakes
      <3> QED
        BY <3>1, <3>2, <3>3
    <2> QED
      BY <2>1, <2>2
  <1>2. \A T \in SUBSET S : T \in Good
    <2> HIDE DEF Good
    <2> QED
      BY <1>1, SubsetInduction
  <1> QED
    BY <1>2

\* A sum of natural numbers is one.
LEMMA SumOfNaturals ==
    ASSUME NEW S, IsFiniteSet(S), NEW f, \A x \in S : f[x] \in Nat
    PROVE  SumFunctionOnSet(f, S) \in Nat
  <1> DEFINE Good == {T \in SUBSET S : SumFunctionOnSet(f, T) \in Nat}
  <1>1. ASSUME NEW T \in SUBSET S, \A U \in SUBSET T : U # T => U \in Good
        PROVE  T \in Good
    <2>1. CASE T = {}
      BY <2>1, SumOfNothing
    <2>2. CASE T # {}
      <3>1. Pick(T) \in T /\ IsFiniteSet(T)
        BY <2>2, PickIsMember, FS_Subset
      <3>2. SumFunctionOnSet(f, T \ {Pick(T)}) \in Nat
        BY <1>1, <3>1
      <3>3. SumFunctionOnSet(f, T) = f[Pick(T)] + SumFunctionOnSet(f, T \ {Pick(T)})
        BY <2>2, <3>1, SumTakes
      <3> QED
        BY <3>1, <3>2, <3>3
    <2> QED
      BY <2>1, <2>2
  <1>2. \A T \in SUBSET S : T \in Good
    <2> HIDE DEF Good
    <2> QED
      BY <1>1, SubsetInduction
  <1> QED
    BY <1>2

\* The sum over two sets that share nothing.
LEMMA SumOfUnion ==
    ASSUME NEW A, IsFiniteSet(A), NEW B, IsFiniteSet(B), A \cap B = {}, NEW f,
           \A x \in A \cup B : f[x] \in Int
    PROVE  SumFunctionOnSet(f, A \cup B) = SumFunctionOnSet(f, A) + SumFunctionOnSet(f, B)
  <1> DEFINE F(T) == SumFunctionOnSet(f, T)
             Good == {T \in SUBSET B : F(A \cup T) = F(A) + F(T)}
  <1>1. ASSUME NEW T \in SUBSET B, \A U \in SUBSET T : U # T => U \in Good
        PROVE  T \in Good
    <2>1. CASE T = {}
      <3>1. A \cup T = A /\ F(T) = 0 /\ F(A) \in Int
        BY <2>1, SumOfNothing, SumType
      <3> QED
        BY <3>1
    <2>2. CASE T # {}
      <3>1. PICK a \in T : TRUE
        BY <2>2
      <3>2. IsFiniteSet(T) /\ IsFiniteSet(A \cup T) /\ IsFiniteSet(T \ {a})
        BY FS_Subset, FS_Union, FS_RemoveElement
      <3>3. F(T) = f[a] + F(T \ {a})
        BY <3>1, <3>2, SumTakesAny
      <3>4. F(A \cup T) = f[a] + F((A \cup T) \ {a})
        BY <3>1, <3>2, SumTakesAny
      <3>5. (A \cup T) \ {a} = A \cup (T \ {a})
        BY <3>1
      <3>6. F(A \cup (T \ {a})) = F(A) + F(T \ {a})
        BY <1>1, <3>1
      <3>7. f[a] \in Int /\ F(A) \in Int /\ F(T \ {a}) \in Int
        BY <3>1, <3>2, SumType
      <3>8. F(A \cup T) = f[a] + (F(A) + F(T \ {a}))
        BY <3>4, <3>5, <3>6
      <3>9. F(A \cup T) = F(A) + F(T)
        <4> HIDE DEF F
        <4> QED
          BY <3>3, <3>7, <3>8
      <3> QED
        BY <3>9
    <2> QED
      BY <2>1, <2>2
  <1>2. \A T \in SUBSET B : T \in Good
    <2> HIDE DEF Good
    <2> QED
      BY <1>1, SubsetInduction
  <1> QED
    BY <1>2

\* A sum of equal terms.
LEMMA SumOfEqual ==
    ASSUME NEW S, IsFiniteSet(S), NEW f, NEW c \in Int, \A x \in S : f[x] = c
    PROVE  SumFunctionOnSet(f, S) = Cardinality(S) * c
  <1> DEFINE F(T) == SumFunctionOnSet(f, T)
             Good == {T \in SUBSET S : F(T) = Cardinality(T) * c}
  <1>1. ASSUME NEW T \in SUBSET S, \A U \in SUBSET T : U # T => U \in Good
        PROVE  T \in Good
    <2>1. CASE T = {}
      <3>1. F(T) = 0 /\ Cardinality(T) = 0
        BY <2>1, SumOfNothing, FS_EmptySet
      <3> QED
        BY <3>1
    <2>2. CASE T # {}
      <3>1. PICK a \in T : TRUE
        BY <2>2
      <3>2. IsFiniteSet(T) /\ IsFiniteSet(T \ {a})
            /\ Cardinality(T \ {a}) = Cardinality(T) - 1 /\ Cardinality(T) \in Nat
        BY <3>1, FS_Subset, FS_RemoveElement, FS_CardinalityType
      <3>3. F(T) = f[a] + F(T \ {a})
        BY <3>1, <3>2, SumTakesAny
      <3>4. F(T \ {a}) = Cardinality(T \ {a}) * c
        BY <1>1, <3>1
      <3>5. F(T) = c + (Cardinality(T) - 1) * c
        BY <3>1, <3>2, <3>3, <3>4
      <3>6. F(T) = Cardinality(T) * c
        <4> HIDE DEF F
        <4> QED
          BY <3>2, <3>5
      <3> QED
        BY <3>6
    <2> QED
      BY <2>1, <2>2
  <1>2. \A T \in SUBSET S : T \in Good
    <2> HIDE DEF Good
    <2> QED
      BY <1>1, SubsetInduction
  <1> QED
    BY <1>2

\* Each term of h is that of f and that of g.
AddsUp(S, f, g, h) == \A x \in S : f[x] \in Int /\ g[x] \in Int /\ h[x] = f[x] + g[x]

LEMMA SumOfSums ==
    ASSUME NEW S, IsFiniteSet(S), NEW f, NEW g, NEW h, AddsUp(S, f, g, h)
    PROVE  SumFunctionOnSet(h, S) = SumFunctionOnSet(f, S) + SumFunctionOnSet(g, S)
  <1> DEFINE F(T) == SumFunctionOnSet(f, T)
             G(T) == SumFunctionOnSet(g, T)
             H(T) == SumFunctionOnSet(h, T)
             Good == {T \in SUBSET S : H(T) = F(T) + G(T)}
  <1> USE DEF AddsUp
  <1>1. ASSUME NEW T \in SUBSET S, \A U \in SUBSET T : U # T => U \in Good
        PROVE  T \in Good
    <2>1. CASE T = {}
      <3>1. F(T) = 0 /\ G(T) = 0 /\ H(T) = 0
        BY <2>1, SumOfNothing
      <3> QED
        BY <3>1
    <2>2. CASE T # {}
      <3> DEFINE a == Pick(T)
                 R == T \ {a}
      <3>1. a \in T /\ IsFiniteSet(T) /\ IsFiniteSet(R)
        BY <2>2, PickIsMember, FS_Subset, FS_RemoveElement
      <3>2. F(T) = f[a] + F(R) /\ G(T) = g[a] + G(R) /\ H(T) = h[a] + H(R)
        BY <2>2, <3>1, SumTakes
      <3>3. H(R) = F(R) + G(R)
        BY <1>1, <3>1
      <3>4. F(R) \in Int /\ G(R) \in Int
        BY <3>1, SumType
      <3>5. f[a] \in Int /\ g[a] \in Int /\ h[a] = f[a] + g[a]
        BY <3>1
      <3>6. H(T) = F(T) + G(T)
        <4> HIDE DEF F, G, H, R, a
        <4> QED
          BY <3>2, <3>3, <3>4, <3>5
      <3> QED
        BY <3>6
    <2> QED
      BY <2>1, <2>2
  <1>2. \A T \in SUBSET S : T \in Good
    <2> HIDE DEF Good
    <2> QED
      BY <1>1, SubsetInduction
  <1> QED
    BY <1>2

\* A common factor.
LEMMA SumOfMultiples ==
    ASSUME NEW S, IsFiniteSet(S), NEW f, NEW g, NEW c \in Int,
           \A x \in S : f[x] \in Int /\ g[x] = c * f[x]
    PROVE  SumFunctionOnSet(g, S) = c * SumFunctionOnSet(f, S)
  <1> DEFINE F(T) == SumFunctionOnSet(f, T)
             G(T) == SumFunctionOnSet(g, T)
             Good == {T \in SUBSET S : G(T) = c * F(T)}
  <1>1. ASSUME NEW T \in SUBSET S, \A U \in SUBSET T : U # T => U \in Good
        PROVE  T \in Good
    <2>1. CASE T = {}
      <3>1. F(T) = 0 /\ G(T) = 0
        BY <2>1, SumOfNothing
      <3> QED
        BY <3>1
    <2>2. CASE T # {}
      <3> DEFINE a == Pick(T)
                 R == T \ {a}
      <3>1. a \in T /\ IsFiniteSet(T) /\ IsFiniteSet(R)
        BY <2>2, PickIsMember, FS_Subset, FS_RemoveElement
      <3>2. F(T) = f[a] + F(R) /\ G(T) = g[a] + G(R)
        BY <2>2, <3>1, SumTakes
      <3>3. G(R) = c * F(R)
        BY <1>1, <3>1
      <3>4. F(R) \in Int
        BY <3>1, SumType
      <3>5. f[a] \in Int /\ g[a] = c * f[a]
        BY <3>1
      <3>6. G(T) = c * F(T)
        <4> HIDE DEF F, G, R, a
        <4>1. G(T) = c * f[a] + c * F(R)
          BY <3>2, <3>3, <3>5
        <4>2. c * (f[a] + F(R)) = c * f[a] + c * F(R)
          BY <3>4, <3>5
        <4> QED
          BY <3>2, <4>1, <4>2
      <3> QED
        BY <3>6
    <2> QED
      BY <2>1, <2>2
  <1>2. \A T \in SUBSET S : T \in Good
    <2> HIDE DEF Good
    <2> QED
      BY <1>1, SubsetInduction
  <1> QED
    BY <1>2

\* Larger terms have a larger sum.
LEMMA SumIsMonotone ==
    ASSUME NEW S, IsFiniteSet(S), NEW f, NEW g,
           \A x \in S : f[x] \in Int /\ g[x] \in Int /\ f[x] <= g[x]
    PROVE  SumFunctionOnSet(f, S) <= SumFunctionOnSet(g, S)
  <1> DEFINE d == [x \in S |-> g[x] - f[x]]
  <1>1. \A x \in S : d[x] \in Nat /\ g[x] = f[x] + d[x]
    OBVIOUS
  <1> HIDE DEF d
  <1>2. SumFunctionOnSet(d, S) \in Nat /\ SumFunctionOnSet(f, S) \in Int
    BY <1>1, SumOfNaturals, SumType
  <1>3. SumFunctionOnSet(g, S) = SumFunctionOnSet(f, S) + SumFunctionOnSet(d, S)
    BY <1>1, SumOfSums DEF AddsUp
  <1> QED
    BY <1>2, <1>3

\* Larger terms have a strictly larger sum, when there is one.
LEMMA SumIsStrict ==
    ASSUME NEW S, IsFiniteSet(S), S # {}, NEW f, NEW g,
           \A x \in S : f[x] \in Int /\ g[x] \in Int /\ f[x] < g[x]
    PROVE  SumFunctionOnSet(f, S) < SumFunctionOnSet(g, S)
  <1> DEFINE h == [x \in S |-> f[x] + 1]
             one == [x \in S |-> 1]
  <1>1. \A x \in S : one[x] = 1 /\ h[x] = f[x] + one[x] /\ h[x] <= g[x] /\ h[x] \in Int
    OBVIOUS
  <1> HIDE DEF h, one
  <1>2. SumFunctionOnSet(one, S) = Cardinality(S) * 1
    BY <1>1, SumOfEqual
  <1>3. Cardinality(S) \in Nat \ {0}
    BY FS_EmptySet, FS_CardinalityType
  <1>4. SumFunctionOnSet(h, S) = SumFunctionOnSet(f, S) + SumFunctionOnSet(one, S)
    BY <1>1, SumOfSums DEF AddsUp
  <1>5. SumFunctionOnSet(h, S) <= SumFunctionOnSet(g, S)
    BY <1>1, SumIsMonotone
  <1>6. SumFunctionOnSet(f, S) \in Int /\ SumFunctionOnSet(g, S) \in Int
    BY SumType
  <1> QED
    BY <1>2, <1>3, <1>4, <1>5, <1>6

\* A sum of positive numbers is one, when there is one.
LEMMA SumIsPositive ==
    ASSUME NEW S, IsFiniteSet(S), S # {}, NEW f, \A x \in S : f[x] \in Nat \ {0}
    PROVE  SumFunctionOnSet(f, S) \in Nat \ {0}
  <1> DEFINE zero == [x \in S |-> 0]
  <1>1. \A x \in S : zero[x] = 0
    OBVIOUS
  <1> HIDE DEF zero
  <1>2. \A x \in S : f[x] \in Nat /\ f[x] \in Int /\ zero[x] \in Int /\ zero[x] < f[x]
    BY <1>1
  <1>3. SumFunctionOnSet(zero, S) = 0
    BY <1>1, SumOfZeros
  <1>4. SumFunctionOnSet(f, S) \in Nat
    BY <1>2, SumOfNaturals
  <1>5. SumFunctionOnSet(zero, S) < SumFunctionOnSet(f, S)
    BY <1>2, SumIsStrict
  <1> QED
    BY <1>3, <1>4, <1>5

\* group[k] is what p puts under k, and h[k] the sum of f over it.
Grouping(S, K, p, group) ==
    /\ \A x \in S : p[x] \in K
    /\ \A k \in K : group[k] \subseteq S /\ \A x \in S : x \in group[k] <=> p[x] = k

GroupSums(f, K, group, h) == \A k \in K : h[k] = SumFunctionOnSet(f, group[k])

\* A sum is the sum of the sums of its groups.
LEMMA SumByGroups ==
    ASSUME NEW S, IsFiniteSet(S), NEW f, \A x \in S : f[x] \in Int,
           NEW K, IsFiniteSet(K), NEW p, NEW group, Grouping(S, K, p, group),
           NEW h, GroupSums(f, K, group, h)
    PROVE  SumFunctionOnSet(f, S) = SumFunctionOnSet(h, K)
  <1> DEFINE Of(T) == {x \in S : p[x] \in T}
             F(T) == SumFunctionOnSet(f, T)
             H(T) == SumFunctionOnSet(h, T)
             Good == {T \in SUBSET K : F(Of(T)) = H(T)}
  <1> USE DEF Grouping, GroupSums
  <1>1. ASSUME NEW T \in SUBSET K, \A U \in SUBSET T : U # T => U \in Good
        PROVE  T \in Good
    <2>1. CASE T = {}
      <3>1. Of(T) = {}
        BY <2>1
      <3>2. F(Of(T)) = 0 /\ H(T) = 0
        BY <2>1, <3>1, SumOfNothing
      <3> QED
        BY <3>2
    <2>2. CASE T # {}
      <3> DEFINE k == Pick(T)
                 R == T \ {k}
                 A == {x \in S : p[x] = k}
      <3>1. k \in T /\ IsFiniteSet(T) /\ IsFiniteSet(R)
        BY <2>2, PickIsMember, FS_Subset, FS_RemoveElement
      <3>2. H(T) = h[k] + H(R)
        BY <2>2, <3>1, SumTakes
      <3>3. F(Of(R)) = H(R)
        BY <1>1, <3>1
      <3>4. Of(T) = A \cup Of(R) /\ A \cap Of(R) = {}
        BY <3>1
      <3>5. IsFiniteSet(A) /\ IsFiniteSet(Of(R))
        BY FS_Subset
      <3>6. \A x \in A \cup Of(R) : f[x] \in Int
        OBVIOUS
      <3>7. F(A \cup Of(R)) = F(A) + F(Of(R))
        <4> HIDE DEF A, Of, R
        <4> QED
          BY <3>4, <3>5, <3>6, SumOfUnion
      <3>8. h[k] = F(A)
        <4>1. k \in K
          BY <3>1
        <4>2. group[k] = A
          BY <4>1
        <4> QED
          BY <4>1, <4>2
      <3>9. F(Of(T)) = H(T)
        <4> HIDE DEF A, Of, R, k, F, H
        <4> QED
          BY <3>2, <3>3, <3>4, <3>7, <3>8
      <3> QED
        BY <3>9
    <2> QED
      BY <2>1, <2>2
  <1>2. \A T \in SUBSET K : T \in Good
    <2> HIDE DEF Good
    <2> QED
      BY <1>1, SubsetInduction
  <1>3. Of(K) = S
    OBVIOUS
  <1>4. F(Of(K)) = H(K)
    BY <1>2
  <1> QED
    BY <1>3, <1>4

\* As many as a sum of ones counts.
LEMMA SumOfOnes ==
    ASSUME NEW S, IsFiniteSet(S), NEW f, NEW A \in SUBSET S,
           \A x \in S : f[x] = IF x \in A THEN 1 ELSE 0
    PROVE  SumFunctionOnSet(f, S) = Cardinality(A)
  <1>1. IsFiniteSet(A) /\ IsFiniteSet(S \ A) /\ Cardinality(A) \in Nat
    BY FS_Subset, FS_CardinalityType
  <1>2. SumFunctionOnSet(f, A) = Cardinality(A) * 1
    BY <1>1, SumOfEqual
  <1>3. SumFunctionOnSet(f, S \ A) = 0
    BY <1>1, SumOfZeros
  <1>4. SumFunctionOnSet(f, A \cup (S \ A)) = SumFunctionOnSet(f, A) + SumFunctionOnSet(f, S \ A)
    <2>1. \A x \in A \cup (S \ A) : f[x] \in Int
      OBVIOUS
    <2>2. A \cap (S \ A) = {}
      OBVIOUS
    <2> QED
      BY <1>1, <2>1, <2>2, SumOfUnion
  <1>5. A \cup (S \ A) = S
    OBVIOUS
  <1> QED
    BY <1>1, <1>2, <1>3, <1>4, <1>5

-----------------------------------------------------------------------------
(* RANKS                                                                    *)

\* before is a strict order of S in which any two elements are comparable.
StrictOrder(S, before) ==
    /\ \A x \in S : <<x, x>> \notin before
    /\ \A x, y, z \in S : <<x, y>> \in before /\ <<y, z>> \in before => <<x, z>> \in before

Chain(S, before) ==
    /\ StrictOrder(S, before)
    /\ \A x, y \in S : x # y => <<x, y>> \in before \/ <<y, x>> \in before

Ahead(S, before, x) == {y \in S : <<y, x>> \in before}

\* Who comes before has fewer before it.
LEMMA AheadGrows ==
    ASSUME NEW S, IsFiniteSet(S), NEW before, StrictOrder(S, before),
           NEW x \in S, NEW y \in S, <<x, y>> \in before
    PROVE  /\ Cardinality(Ahead(S, before, x)) < Cardinality(Ahead(S, before, y))
           /\ Cardinality(Ahead(S, before, x)) \in Nat
           /\ Cardinality(Ahead(S, before, y)) \in Nat
  <1> DEFINE A == Ahead(S, before, x)
             B == Ahead(S, before, y)
  <1>1. A \subseteq B /\ x \in B /\ x \notin A /\ B \subseteq S
    BY DEF Ahead, StrictOrder
  <1> HIDE DEF A, B
  <1>2. IsFiniteSet(B)
    BY <1>1, FS_Subset
  <1>3. Cardinality(A) \in Nat /\ Cardinality(B) \in Nat /\ Cardinality(A) < Cardinality(B)
    <2>1. Cardinality(A) < Cardinality(B)
      BY <1>1, <1>2, FS_Subset, FS_CardinalityType
    <2> QED
      BY <1>1, <1>2, <2>1, FS_Subset, FS_CardinalityType
  <1> QED
    BY <1>3 DEF A, B

\* Somebody comes first.
LEMMA SomebodyFirst ==
    ASSUME NEW S, IsFiniteSet(S), S # {}, NEW before, StrictOrder(S, before)
    PROVE  \E x \in S : Ahead(S, before, x) = {}
  <1> DEFINE n(x) == Cardinality(Ahead(S, before, x))
             N == {n(x) + 1 : x \in S}
  <1>1. Cardinality(S) \in Nat
    BY FS_CardinalityType
  <1>2. ASSUME NEW x \in S
        PROVE  n(x) \in Nat /\ n(x) + 1 <= Cardinality(S) + 1
    <2>1. Ahead(S, before, x) \subseteq S
      BY DEF Ahead
    <2> QED
      BY <1>1, <2>1, FS_Subset, FS_CardinalityType
  <1>3. N \subseteq 1..(Cardinality(S) + 1) /\ N # {}
    <2> HIDE DEF n
    <2> QED
      BY <1>1, <1>2
  <1> HIDE DEF N
  <1>4. Min(N) \in N /\ \A s \in N : Min(N) <= s
    <2>1. Cardinality(S) + 1 \in Nat
      BY <1>1
    <2> QED
      BY <1>3, <2>1, MinIsMember
  <1>5. PICK x \in S : Min(N) = n(x) + 1
    BY <1>4 DEF N
  <1>6. ASSUME NEW y \in Ahead(S, before, x)
        PROVE  FALSE
    <2>1. y \in S /\ <<y, x>> \in before
      BY DEF Ahead
    <2>2. n(y) < n(x) /\ n(x) \in Nat /\ n(y) \in Nat
      BY <2>1, AheadGrows
    <2>3. n(x) + 1 <= n(y) + 1
      BY <1>4, <1>5, <2>1 DEF N
    <2> HIDE DEF n
    <2> QED
      BY <2>2, <2>3
  <1> QED
    BY <1>6

\* In a chain, the numbers of elements before are all those from 0 on, one each.
LEMMA ChainPlaces ==
    ASSUME NEW S, IsFiniteSet(S), NEW before, Chain(S, before)
    PROVE  [x \in S |-> Cardinality(Ahead(S, before, x))]
               \in Bijection(S, 0..(Cardinality(S) - 1))
  <1> DEFINE n == [x \in S |-> Cardinality(Ahead(S, before, x))]
             N == Cardinality(S)
  <1>1. N \in Nat
    BY FS_CardinalityType
  <1>2. ASSUME NEW x \in S
        PROVE  n[x] \in 0..(N - 1)
    <2>1. Ahead(S, before, x) \subseteq S \ {x}
      BY DEF Ahead, Chain, StrictOrder
    <2>2. IsFiniteSet(S \ {x}) /\ Cardinality(S \ {x}) = N - 1
      BY FS_RemoveElement
    <2>3. Cardinality(Ahead(S, before, x)) \in Nat /\ Cardinality(Ahead(S, before, x)) <= N - 1
      BY <2>1, <2>2, FS_Subset, FS_CardinalityType
    <2> QED
      BY <1>1, <2>3
  <1>3. \A x, y \in S : n[x] = n[y] => x = y
    <2> SUFFICES ASSUME NEW x \in S, NEW y \in S, x # y
                 PROVE  n[x] # n[y]
      OBVIOUS
    <2>1. <<x, y>> \in before \/ <<y, x>> \in before
      BY DEF Chain
    <2> QED
      BY <2>1, AheadGrows DEF Chain
  <1> DEFINE T == 0..(N - 1)
  <1>4. IsFiniteSet(T) /\ Cardinality(T) = N
    <2>1. 0 \in Int /\ N - 1 \in Int
      BY <1>1
    <2>2. IsFiniteSet(T) /\ Cardinality(T) = IF 0 > N - 1 THEN 0 ELSE N - 1 - 0 + 1
      <3> HIDE DEF N
      <3> QED
        BY <2>1, FS_Interval
    <2> HIDE DEF N, T
    <2> QED
      BY <1>1, <2>2
  <1>5. n \in Bijection(S, T)
    <2>1. n \in [S -> T]
      BY <1>2
    <2> HIDE DEF n, T
    <2>2. n \in Injection(S, T)
      BY <1>3, <2>1 DEF Injection, IsInjective
    <2>3. n \in Surjection(S, T)
      BY <1>4, <2>2, FS_Injection
    <2> QED
      BY <2>2, <2>3 DEF Bijection
  <1> QED
    BY <1>5

\* In a chain, as many elements as k have fewer than k before them.
LEMMA ChainRanks ==
    ASSUME NEW S, IsFiniteSet(S), NEW before, Chain(S, before), NEW k \in 0..Cardinality(S)
    PROVE  Cardinality({x \in S : Cardinality(Ahead(S, before, x)) < k}) = k
  <1> DEFINE n == [x \in S |-> Cardinality(Ahead(S, before, x))]
             N == Cardinality(S)
             low == {x \in S : n[x] < k}
  <1>1. N \in Nat /\ k \in Nat /\ k <= N
    BY FS_CardinalityType
  <1>2. /\ \A x \in S : n[x] \in 0..(N - 1)
        /\ \A x, y \in S : n[x] = n[y] => x = y
        /\ \A t \in 0..(N - 1) : \E x \in S : n[x] = t
    <2>1. n \in Bijection(S, 0..(N - 1))
      BY ChainPlaces
    <2> HIDE DEF n, N
    <2> QED
      BY <2>1 DEF Bijection, Injection, IsInjective, Surjection
  <1>3. [x \in low |-> n[x]] \in Bijection(low, 0..(k - 1))
    <2> DEFINE m == [x \in low |-> n[x]]
               L == 0..(k - 1)
    <2>1. n \in [S -> 0..(N - 1)] /\ \A t \in 0..(N - 1) : \E x \in S : n[x] = t
      BY <1>2
    <2> HIDE DEF n
    <2>2. m \in [low -> L]
      BY <1>1, <2>1
    <2>3. \A x, y \in low : m[x] = m[y] => x = y
      BY <1>2 DEF n
    <2>4. \A t \in L : \E x \in low : m[x] = t
      BY <1>1, <2>1
    <2> HIDE DEF m, L, low
    <2>5. m \in Injection(low, L)
      BY <2>2, <2>3 DEF Injection, IsInjective
    <2>6. m \in Surjection(low, L)
      BY <2>2, <2>4 DEF Surjection
    <2> QED
      BY <2>5, <2>6 DEF Bijection, m, L
  <1>4. IsFiniteSet(low) /\ Cardinality(0..(k - 1)) = k
    <2>1. low \subseteq S
      OBVIOUS
    <2> HIDE DEF low
    <2>2. IsFiniteSet(low)
      BY <2>1, FS_Subset
    <2> QED
      BY <1>1, <2>2, FS_Interval
  <1>5. Cardinality(low) = k
    <2> HIDE DEF low, n
    <2> QED
      BY <1>3, <1>4, FS_Bijection DEF ExistsBijection
  <1>6. low = {x \in S : Cardinality(Ahead(S, before, x)) < k}
    OBVIOUS
  <1> QED
    BY <1>5, <1>6

\* A set of integers that is finite and not empty has a smallest element.
LEMMA LeastIsMember ==
    ASSUME NEW S, IsFiniteSet(S), S # {}, S \subseteq Int
    PROVE  Min(S) \in S /\ \A s \in S : Min(S) <= s
  <1> DEFINE below == {p \in S \X S : p[1] < p[2]}
  <1>1. \A x, y \in S : <<x, y>> \in below <=> x < y
    OBVIOUS
  <1> HIDE DEF below
  <1>2. StrictOrder(S, below)
    <2>1. \A x \in S : <<x, x>> \notin below
      BY <1>1
    <2>2. \A x, y, z \in S : <<x, y>> \in below /\ <<y, z>> \in below => <<x, z>> \in below
      BY <1>1
    <2> QED
      BY <2>1, <2>2 DEF StrictOrder
  <1>3. PICK least \in S : Ahead(S, below, least) = {}
    BY <1>2, SomebodyFirst
  <1>4. \A s \in S : least <= s
    <2> SUFFICES ASSUME NEW s \in S, s < least
                 PROVE  FALSE
      OBVIOUS
    <2>1. s \in Ahead(S, below, least)
      BY <1>1 DEF Ahead
    <2> QED
      BY <1>3, <2>1
  <1>5. Min(S) \in S /\ \A s \in S : Min(S) <= s
    BY <1>4 DEF Min
  <1> QED
    BY <1>5

=============================================================================
