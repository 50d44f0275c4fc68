---------------------------- MODULE SumTheorems ----------------------------
(***************************************************************************)
(* What SumFunctionOnSet(f, S) is for a finite set S and integers f[x]:    *)
(* the models add up stock, money and payments with it.  The community     *)
(* modules define it by a recursive function that takes some element out   *)
(* of the set at every step, so that it has to be shown first that there   *)
(* is such a function, then that the element taken does not matter.        *)
(*                                                                         *)
(* Every fact is stated for a function f that is a value.  Induction over  *)
(* finite sets is done by looking at a least counterexample, a member of   *)
(* the set Bad of each proof (LeastSet).                                   *)
(***************************************************************************)
EXTENDS FiniteSetsExt, FiniteSetTheorems, TLAPS

Pick(S) == CHOOSE x \in S : TRUE

\* g adds up f over every subset of S.
IsSum(g, f, S) ==
    g = [T \in SUBSET S |->
           IF T = {} THEN 0 ELSE f[Pick(T)] + g[T \ {Pick(T)}]]

-----------------------------------------------------------------------------
\* A set of subsets of a finite set has a member that contains no other.
LEMMA LeastSet ==
    ASSUME NEW S, IsFiniteSet(S), NEW Bad, Bad \subseteq SUBSET S, Bad # {}
    PROVE  \E T \in Bad : \A U \in Bad : U \subseteq T => U = T
<1>1. IsWellFoundedOn(StrictSubsetOrdering(S), SUBSET S)
  BY FS_StrictSubsetOrderingWellFounded, FS_FiniteSubsetsOfFinite
<1>2. PICK T \in Bad : \A U \in Bad : ~ (<<U, T>> \in StrictSubsetOrdering(S))
  BY <1>1, WFMin
<1>3. ASSUME NEW U \in Bad, U \subseteq T  PROVE U = T
  BY <1>2, <1>3 DEF StrictSubsetOrdering
<1> QED
  BY <1>3

\* A set of natural numbers has a least one.
LEMMA LeastNumber ==
    ASSUME NEW S \in SUBSET Nat, S # {}
    PROVE  \E x \in S : \A y \in S : x <= y
<1>1. PICK x \in S : \A y \in S : ~ (<<y, x>> \in OpToRel(<, Nat))
  BY NatLessThanWellFounded, WFMin
<1>2. ASSUME NEW y \in S, y < x  PROVE <<y, x>> \in OpToRel(<, Nat)
  BY <1>2, Zenon DEF OpToRel
<1>3. \A y \in S : ~ (y < x)
  BY <1>1, <1>2
<1> QED
  BY <1>3

LEMMA PickIsMember ==
    ASSUME NEW S, S # {}
    PROVE  Pick(S) \in S
BY DEF Pick

LEMMA SumOfSubset ==
    ASSUME NEW f, NEW S, NEW g, IsSum(g, f, S), NEW T \in SUBSET S
    PROVE  g[T] = IF T = {} THEN 0 ELSE f[Pick(T)] + g[T \ {Pick(T)}]
BY Zenon DEF IsSum

\* Two functions that add up f agree on the sets both are defined for.
LEMMA SumsAgree ==
    ASSUME NEW f, NEW S, NEW R, NEW g, NEW h, IsSum(g, f, S), IsSum(h, f, R),
           NEW T \in SUBSET S, T \subseteq R, IsFiniteSet(T)
    PROVE  g[T] = h[T]
<1> DEFINE Bad == {U \in SUBSET T : g[U] # h[U]}
<1>1. SUFFICES ASSUME g[T] # h[T]  PROVE FALSE
  OBVIOUS
<1>2. T \in Bad
  BY <1>1
<1>3. PICK U \in Bad : \A V \in Bad : V \subseteq U => V = U
  <2>1. Bad \subseteq SUBSET T /\ Bad # {}
    BY <1>2
  <2> HIDE DEF Bad
  <2> QED
    BY <2>1, LeastSet
<1>4. U \in SUBSET S /\ U \in SUBSET R
  BY <1>3
<1>5. g[U] = (IF U = {} THEN 0 ELSE f[Pick(U)] + g[U \ {Pick(U)}])
  BY <1>4, SumOfSubset
<1>6. h[U] = (IF U = {} THEN 0 ELSE f[Pick(U)] + h[U \ {Pick(U)}])
  BY <1>4, SumOfSubset
<1>7. U # {}
  BY <1>3, <1>5, <1>6
<1>8. U \ {Pick(U)} # U /\ U \ {Pick(U)} \subseteq U
  BY <1>7, PickIsMember
<1>9. U \ {Pick(U)} \notin Bad
  BY <1>3, <1>8
<1>10. g[U \ {Pick(U)}] = h[U \ {Pick(U)}]
  BY <1>3, <1>8, <1>9
<1> QED
  BY <1>3, <1>5, <1>6, <1>10

\* Over a finite set there is a function that adds up f.
LEMMA SumExists ==
    ASSUME NEW f, NEW S, IsFiniteSet(S)
    PROVE  \E g : IsSum(g, f, S)
<1> DEFINE Bad == {T \in SUBSET S : \A g : ~ IsSum(g, f, T)}
<1>1. SUFFICES ASSUME S \in Bad  PROVE FALSE
  BY Zenon
<1>2. PICK T \in Bad : \A U \in Bad : U \subseteq T => U = T
  <2>1. Bad \subseteq SUBSET S /\ Bad # {}
    BY <1>1
  <2> HIDE DEF Bad
  <2> QED
    BY <2>1, LeastSet
<1> DEFINE sum(U) == CHOOSE g : IsSum(g, f, U)
           G == [U \in SUBSET T |->
                   IF U = {} THEN 0
                   ELSE f[Pick(U)] + sum(U \ {Pick(U)})[U \ {Pick(U)}]]
<1>3. ASSUME NEW U \in SUBSET T, U # T  PROVE IsSum(sum(U), f, U)
  <2>1. U \notin Bad
    BY <1>2, <1>3
  <2>2. U \in SUBSET S
    BY <1>2
  <2>3. \E g : IsSum(g, f, U)
    BY <2>1, <2>2, Zenon
  <2> QED
    BY <2>3, Zenon
<1>4. ASSUME NEW U \in SUBSET T, U # T  PROVE sum(U)[U] = G[U]
  <2>1. sum(U)[U] = (IF U = {} THEN 0 ELSE f[Pick(U)] + sum(U)[U \ {Pick(U)}])
    <3>1. U \in SUBSET U /\ IsSum(sum(U), f, U)
      BY <1>3, <1>4
    <3> HIDE DEF sum, G, Bad
    <3> QED
      BY <3>1, SumOfSubset
  <2>2. CASE U = {}
    BY <2>1, <2>2
  <2>3. CASE U # {}
    <3> DEFINE V == U \ {Pick(U)}
    <3>1. V \in SUBSET U /\ V \in SUBSET V /\ V \in SUBSET T /\ V # T
      BY <2>3, <1>4, PickIsMember
    <3>2. IsSum(sum(V), f, V) /\ IsSum(sum(U), f, U)
      BY <1>3, <1>4, <3>1
    <3>3. IsFiniteSet(V)
      BY <3>1, <1>2, FS_Subset
    <3> HIDE DEF V, sum
    <3>4. sum(U)[V] = sum(V)[V]
      BY <3>1, <3>2, <3>3, SumsAgree
    <3> QED
      BY <2>1, <2>3, <3>4 DEF V
  <2> QED
    BY <2>2, <2>3
<1> HIDE DEF sum
<1>5. \A U \in SUBSET T : U # {} =>
        sum(U \ {Pick(U)})[U \ {Pick(U)}] = G[U \ {Pick(U)}]
  <2> SUFFICES ASSUME NEW U \in SUBSET T, U # {}
               PROVE  sum(U \ {Pick(U)})[U \ {Pick(U)}] = G[U \ {Pick(U)}]
    OBVIOUS
  <2>1. U \ {Pick(U)} \in SUBSET T /\ U \ {Pick(U)} # T
    BY PickIsMember
  <2> QED
    BY <2>1, <1>4
<1>6. G = [U \in SUBSET T |->
             IF U = {} THEN 0 ELSE f[Pick(U)] + G[U \ {Pick(U)}]]
  BY <1>5
<1>7. IsSum(G, f, T)
  BY <1>6, Zenon DEF IsSum
<1> QED
  BY <1>2, <1>7, Zenon

\* The equation that the sum over a finite set satisfies.
LEMMA SumUnfolds ==
    ASSUME NEW f, NEW S, IsFiniteSet(S)
    PROVE  SumFunctionOnSet(f, S) =
             IF S = {} THEN 0
             ELSE f[Pick(S)] + SumFunctionOnSet(f, S \ {Pick(S)})
<1> DEFINE sum(T) == CHOOSE g : IsSum(g, f, T)
<1>1. \A T : SumFunctionOnSet(f, T) = sum(T)[T]
  BY Zenon DEF SumFunctionOnSet, FoldFunctionOnSet, MapThenFoldSet, IsSum, Pick
<1> DEFINE V == S \ {Pick(S)}
<1>2. IsFiniteSet(V)
  BY FS_Subset
<1>3. IsSum(sum(S), f, S) /\ IsSum(sum(V), f, V)
  <2> HIDE DEF V
  <2> QED
    BY <1>2, SumExists, Zenon
<1>4. sum(S)[S] = IF S = {} THEN 0 ELSE f[Pick(S)] + sum(S)[V]
  <2>1. S \in SUBSET S
    OBVIOUS
  <2>2. IsSum(sum(S), f, S)
    BY <1>3
  <2> HIDE DEF sum
  <2> QED
    BY <2>1, <2>2, SumOfSubset
<1>5. sum(S)[V] = sum(V)[V]
  <2>1. V \in SUBSET S /\ V \subseteq V
    OBVIOUS
  <2> HIDE DEF V, sum
  <2> QED
    BY <1>2, <1>3, <2>1, SumsAgree
<1>6. SumFunctionOnSet(f, S) = sum(S)[S] /\ SumFunctionOnSet(f, V) = sum(V)[V]
  <2> HIDE DEF sum
  <2> QED
    BY <1>1
<1> HIDE DEF sum
<1> QED
  BY <1>4, <1>5, <1>6

-----------------------------------------------------------------------------
LEMMA SumOfNothing ==
    ASSUME NEW f
    PROVE  SumFunctionOnSet(f, {}) = 0
BY SumUnfolds, FS_EmptySet

LEMMA SumIsInt ==
    ASSUME NEW S, IsFiniteSet(S), NEW f, \A x \in S : f[x] \in Int
    PROVE  SumFunctionOnSet(f, S) \in Int
<1> DEFINE Bad == {T \in SUBSET S : SumFunctionOnSet(f, T) \notin Int}
<1>1. SUFFICES ASSUME S \in Bad  PROVE FALSE
  OBVIOUS
<1>2. PICK T \in Bad : \A U \in Bad : U \subseteq T => U = T
  <2>1. Bad \subseteq SUBSET S /\ Bad # {}
    BY <1>1
  <2> HIDE DEF Bad
  <2> QED
    BY <2>1, LeastSet
<1>3. IsFiniteSet(T)
  BY <1>2, FS_Subset
<1>4. T # {}
  BY <1>2, SumOfNothing
<1>5. Pick(T) \in T
  BY <1>4, PickIsMember
<1>6. T \ {Pick(T)} \notin Bad
  BY <1>2, <1>5
<1>7. SumFunctionOnSet(f, T \ {Pick(T)}) \in Int /\ f[Pick(T)] \in Int
  BY <1>2, <1>5, <1>6
<1> QED
  BY <1>2, <1>3, <1>4, <1>7, SumUnfolds

\* Any element can be the one taken out.
LEMMA SumWithout ==
    ASSUME NEW S, IsFiniteSet(S), NEW f, \A x \in S : f[x] \in Int, NEW x \in S
    PROVE  SumFunctionOnSet(f, S) = f[x] + SumFunctionOnSet(f, S \ {x})
<1> DEFINE Bad == {T \in SUBSET S : \E y \in T :
                     SumFunctionOnSet(f, T) # f[y] + SumFunctionOnSet(f, T \ {y})}
<1>1. SUFFICES ASSUME S \in Bad  PROVE FALSE
  OBVIOUS
<1>2. PICK T \in Bad : \A U \in Bad : U \subseteq T => U = T
  <2>1. Bad \subseteq SUBSET S /\ Bad # {}
    BY <1>1
  <2> HIDE DEF Bad
  <2> QED
    BY <2>1, LeastSet
<1>3. PICK y \in T :
        SumFunctionOnSet(f, T) # f[y] + SumFunctionOnSet(f, T \ {y})
  BY <1>2
<1> DEFINE z == Pick(T)
           U == T \ {y}
           V == T \ {z}
<1>4. z \in T
  BY <1>3, PickIsMember
<1>5. IsFiniteSet(T) /\ T \subseteq S
  BY <1>2, FS_Subset
<1>6. SumFunctionOnSet(f, T) = f[z] + SumFunctionOnSet(f, V)
  BY <1>3, <1>5, SumUnfolds
<1>7. y # z
  BY <1>3, <1>6
<1>8. U \notin Bad /\ V \notin Bad
  BY <1>2, <1>3, <1>4
<1>9. /\ SumFunctionOnSet(f, U) = f[z] + SumFunctionOnSet(f, U \ {z})
      /\ SumFunctionOnSet(f, V) = f[y] + SumFunctionOnSet(f, V \ {y})
  <2> HIDE DEF z
  <2> QED
    BY <1>3, <1>4, <1>5, <1>7, <1>8
<1>10. U \ {z} = V \ {y}
  OBVIOUS
<1>11. f[y] \in Int /\ f[z] \in Int /\ SumFunctionOnSet(f, V \ {y}) \in Int
  <2>1. IsFiniteSet(V \ {y}) /\ V \ {y} \subseteq S
    BY <1>5, FS_Subset
  <2> HIDE DEF z, V
  <2> QED
    BY <1>3, <1>4, <1>5, <2>1, SumIsInt
<1>12. SumFunctionOnSet(f, T) = f[y] + SumFunctionOnSet(f, U)
  <2> DEFINE rest == SumFunctionOnSet(f, V \ {y})
  <2>1. /\ SumFunctionOnSet(f, T) = f[z] + SumFunctionOnSet(f, V)
        /\ SumFunctionOnSet(f, V) = f[y] + rest
        /\ SumFunctionOnSet(f, U) = f[z] + rest
    BY <1>6, <1>9, <1>10
  <2>2. rest \in Int /\ f[y] \in Int /\ f[z] \in Int
    BY <1>11
  <2> HIDE DEF rest, z, U, V
  <2> QED
    BY <2>1, <2>2
<1> HIDE DEF z, U, V
<1> QED
  BY <1>3, <1>12 DEF U

LEMMA SumWith ==
    ASSUME NEW S, IsFiniteSet(S), NEW f, NEW y, y \notin S,
           \A x \in S \cup {y} : f[x] \in Int
    PROVE  SumFunctionOnSet(f, S \cup {y}) = SumFunctionOnSet(f, S) + f[y]
<1>1. IsFiniteSet(S \cup {y}) /\ (S \cup {y}) \ {y} = S
  BY FS_AddElement
<1>2. SumFunctionOnSet(f, S \cup {y}) = f[y] + SumFunctionOnSet(f, S)
  BY <1>1, SumWithout
<1>3. f[y] \in Int /\ SumFunctionOnSet(f, S) \in Int
  BY SumIsInt
<1> QED
  BY <1>2, <1>3

\* Only the values on the set count.
LEMMA SumDependsOn ==
    ASSUME NEW S, IsFiniteSet(S), NEW f, NEW g, \A x \in S : f[x] = g[x]
    PROVE  SumFunctionOnSet(f, S) = SumFunctionOnSet(g, S)
<1> DEFINE Bad == {T \in SUBSET S : SumFunctionOnSet(f, T) # SumFunctionOnSet(g, T)}
<1>1. SUFFICES ASSUME S \in Bad  PROVE FALSE
  OBVIOUS
<1>2. PICK T \in Bad : \A U \in Bad : U \subseteq T => U = T
  <2>1. Bad \subseteq SUBSET S /\ Bad # {}
    BY <1>1
  <2> HIDE DEF Bad
  <2> QED
    BY <2>1, LeastSet
<1>3. IsFiniteSet(T)
  BY <1>2, FS_Subset
<1>4. T # {}
  BY <1>2, SumOfNothing
<1>5. Pick(T) \in T
  BY <1>4, PickIsMember
<1>6. T \ {Pick(T)} \notin Bad
  BY <1>2, <1>5
<1>7. /\ SumFunctionOnSet(f, T \ {Pick(T)}) = SumFunctionOnSet(g, T \ {Pick(T)})
      /\ f[Pick(T)] = g[Pick(T)]
  BY <1>2, <1>5, <1>6
<1>8. /\ SumFunctionOnSet(f, T) = f[Pick(T)] + SumFunctionOnSet(f, T \ {Pick(T)})
      /\ SumFunctionOnSet(g, T) = g[Pick(T)] + SumFunctionOnSet(g, T \ {Pick(T)})
  BY <1>3, <1>4, SumUnfolds
<1> QED
  BY <1>2, <1>7, <1>8

\* When one value changes, the sum changes by as much.
LEMMA SumChanges ==
    ASSUME NEW S, IsFiniteSet(S), NEW f, NEW g, NEW y \in S,
           \A x \in S : f[x] \in Int /\ g[x] \in Int,
           \A x \in S \ {y} : f[x] = g[x]
    PROVE  SumFunctionOnSet(g, S) = SumFunctionOnSet(f, S) + g[y] - f[y]
<1>1. IsFiniteSet(S \ {y})
  BY FS_Subset
<1>2. SumFunctionOnSet(f, S \ {y}) = SumFunctionOnSet(g, S \ {y})
  BY <1>1, SumDependsOn
<1>3. /\ SumFunctionOnSet(f, S) = f[y] + SumFunctionOnSet(f, S \ {y})
      /\ SumFunctionOnSet(g, S) = g[y] + SumFunctionOnSet(g, S \ {y})
  BY SumWithout
<1>4. SumFunctionOnSet(f, S \ {y}) \in Int /\ f[y] \in Int /\ g[y] \in Int
  BY <1>1, SumIsInt
<1> QED
  BY <1>2, <1>3, <1>4

\* The values outside a subset are zero: the sum over the subset is the whole.
LEMMA SumOverSupport ==
    ASSUME NEW S, IsFiniteSet(S), NEW R \in SUBSET S, NEW f,
           \A x \in S : f[x] \in Int, \A x \in S \ R : f[x] = 0
    PROVE  SumFunctionOnSet(f, S) = SumFunctionOnSet(f, R)
<1> DEFINE Bad == {T \in SUBSET S : R \subseteq T /\
                     SumFunctionOnSet(f, T) # SumFunctionOnSet(f, R)}
<1>1. SUFFICES ASSUME S \in Bad  PROVE FALSE
  OBVIOUS
<1>2. PICK T \in Bad : \A U \in Bad : U \subseteq T => U = T
  <2>1. Bad \subseteq SUBSET S /\ Bad # {}
    BY <1>1
  <2> HIDE DEF Bad
  <2> QED
    BY <2>1, LeastSet
<1>3. IsFiniteSet(T) /\ T \subseteq S
  BY <1>2, FS_Subset
<1>4. PICK y \in T : y \notin R
  BY <1>2
<1>5. T \ {y} \notin Bad
  BY <1>2, <1>4
<1>6. SumFunctionOnSet(f, T \ {y}) = SumFunctionOnSet(f, R)
  BY <1>2, <1>3, <1>4, <1>5
<1>7. SumFunctionOnSet(f, T) = f[y] + SumFunctionOnSet(f, T \ {y}) /\ f[y] = 0
  BY <1>3, <1>4, SumWithout
<1>8. SumFunctionOnSet(f, R) \in Int
  <2>1. IsFiniteSet(R) /\ \A x \in R : f[x] \in Int
    BY FS_Subset
  <2> QED
    BY <2>1, SumIsInt
<1> QED
  BY <1>2, <1>6, <1>7, <1>8

LEMMA SumOfSmaller ==
    ASSUME NEW S, IsFiniteSet(S), NEW f, NEW g,
           \A x \in S : f[x] \in Int /\ g[x] \in Int /\ f[x] <= g[x]
    PROVE  SumFunctionOnSet(f, S) <= SumFunctionOnSet(g, S)
<1> DEFINE Bad == {T \in SUBSET S :
                     ~ (SumFunctionOnSet(f, T) <= SumFunctionOnSet(g, T))}
<1>1. SUFFICES ASSUME S \in Bad  PROVE FALSE
  OBVIOUS
<1>2. PICK T \in Bad : \A U \in Bad : U \subseteq T => U = T
  <2>1. Bad \subseteq SUBSET S /\ Bad # {}
    BY <1>1
  <2> HIDE DEF Bad
  <2> QED
    BY <2>1, LeastSet
<1>3. IsFiniteSet(T) /\ T \subseteq S
  BY <1>2, FS_Subset
<1>4. T # {}
  <2>1. SumFunctionOnSet(f, {}) = 0 /\ SumFunctionOnSet(g, {}) = 0
    BY SumOfNothing
  <2>2. SumFunctionOnSet(f, {}) <= SumFunctionOnSet(g, {})
    BY <2>1
  <2>3. {} \notin Bad
    BY <2>2
  <2> QED
    BY <2>3
<1>5. PICK y : y \in T
  BY <1>4
<1>6. T \ {y} \notin Bad
  BY <1>2, <1>5
<1>7. SumFunctionOnSet(f, T \ {y}) <= SumFunctionOnSet(g, T \ {y})
  BY <1>2, <1>5, <1>6
<1>8. /\ SumFunctionOnSet(f, T) = f[y] + SumFunctionOnSet(f, T \ {y})
      /\ SumFunctionOnSet(g, T) = g[y] + SumFunctionOnSet(g, T \ {y})
  BY <1>3, <1>5, SumWithout
<1>9. /\ f[y] \in Int /\ g[y] \in Int /\ f[y] <= g[y]
      /\ SumFunctionOnSet(f, T \ {y}) \in Int /\ SumFunctionOnSet(g, T \ {y}) \in Int
  <2>1. IsFiniteSet(T \ {y})
    BY <1>3, FS_Subset
  <2> QED
    BY <1>3, <1>5, <2>1, SumIsInt
<1> QED
  BY <1>2, <1>7, <1>8, <1>9

LEMMA SumIsNat ==
    ASSUME NEW S, IsFiniteSet(S), NEW f, \A x \in S : f[x] \in Nat
    PROVE  SumFunctionOnSet(f, S) \in Nat
<1> DEFINE zero == [x \in S |-> 0]
<1>1. SumFunctionOnSet(zero, S) = 0
  <2>1. SumFunctionOnSet(zero, S) = SumFunctionOnSet(zero, {})
    BY SumOverSupport
  <2> QED
    BY <2>1, SumOfNothing
<1>2. SumFunctionOnSet(zero, S) <= SumFunctionOnSet(f, S)
  BY SumOfSmaller
<1>3. SumFunctionOnSet(f, S) \in Int
  BY SumIsInt
<1> QED
  BY <1>1, <1>2, <1>3

\* A sum of natural numbers is at least each of them.
LEMMA SumAtLeast ==
    ASSUME NEW S, IsFiniteSet(S), NEW f, \A x \in S : f[x] \in Nat, NEW y \in S
    PROVE  f[y] <= SumFunctionOnSet(f, S)
<1>1. SumFunctionOnSet(f, S) = f[y] + SumFunctionOnSet(f, S \ {y})
  BY SumWithout
<1>2. SumFunctionOnSet(f, S \ {y}) \in Nat
  BY FS_Subset, SumIsNat
<1> QED
  BY <1>1, <1>2

\* Leaving out members never adds to a sum of natural numbers.
LEMMA SumOfFewer ==
    ASSUME NEW S, IsFiniteSet(S), NEW T \in SUBSET S, NEW f, \A x \in S : f[x] \in Nat
    PROVE  SumFunctionOnSet(f, T) <= SumFunctionOnSet(f, S)
<1> DEFINE g == [x \in S |-> IF x \in T THEN f[x] ELSE 0]
<1>1. /\ \A x \in S : f[x] \in Int /\ g[x] \in Int /\ g[x] <= f[x]
      /\ \A x \in T : g[x] = f[x]
      /\ \A x \in S \ T : g[x] = 0
  OBVIOUS
<1>2. IsFiniteSet(T)
  BY FS_Subset
<1> HIDE DEF g
<1>3. SumFunctionOnSet(g, S) = SumFunctionOnSet(g, T)
  BY <1>1, SumOverSupport
<1>4. SumFunctionOnSet(g, T) = SumFunctionOnSet(f, T)
  BY <1>1, <1>2, SumDependsOn
<1>5. SumFunctionOnSet(g, S) <= SumFunctionOnSet(f, S)
  BY <1>1, SumOfSmaller
<1> QED
  BY <1>3, <1>4, <1>5

\* The sum of differences is the difference of the sums.
LEMMA SumOfDifferences ==
    ASSUME NEW S, IsFiniteSet(S), NEW f, NEW g, NEW h,
           \A x \in S : f[x] \in Int /\ g[x] \in Int /\ h[x] = f[x] - g[x]
    PROVE  SumFunctionOnSet(h, S) = SumFunctionOnSet(f, S) - SumFunctionOnSet(g, S)
<1> DEFINE Bad == {T \in SUBSET S : SumFunctionOnSet(h, T)
                                      # SumFunctionOnSet(f, T) - SumFunctionOnSet(g, T)}
<1>1. SUFFICES ASSUME S \in Bad  PROVE FALSE
  OBVIOUS
<1>2. PICK T \in Bad : \A U \in Bad : U \subseteq T => U = T
  <2>1. Bad \subseteq SUBSET S /\ Bad # {}
    BY <1>1
  <2> HIDE DEF Bad
  <2> QED
    BY <2>1, LeastSet
<1>3. IsFiniteSet(T) /\ T \subseteq S
  BY <1>2, FS_Subset
<1>4. T # {}
  <2>1. SumFunctionOnSet(h, {}) = SumFunctionOnSet(f, {}) - SumFunctionOnSet(g, {})
    BY SumOfNothing
  <2>2. {} \notin Bad
    BY <2>1
  <2> QED
    BY <2>2
<1>5. PICK y : y \in T
  BY <1>4
<1>6. T \ {y} \notin Bad
  BY <1>2, <1>5
<1>7. SumFunctionOnSet(h, T \ {y})
        = SumFunctionOnSet(f, T \ {y}) - SumFunctionOnSet(g, T \ {y})
  BY <1>2, <1>5, <1>6
<1>8. /\ SumFunctionOnSet(f, T) = f[y] + SumFunctionOnSet(f, T \ {y})
      /\ SumFunctionOnSet(g, T) = g[y] + SumFunctionOnSet(g, T \ {y})
      /\ SumFunctionOnSet(h, T) = h[y] + SumFunctionOnSet(h, T \ {y})
  <2>1. \A x \in T : f[x] \in Int /\ g[x] \in Int /\ h[x] \in Int
    BY <1>3
  <2> QED
    BY <1>3, <1>5, <2>1, SumWithout
<1>9. /\ f[y] \in Int /\ g[y] \in Int /\ h[y] = f[y] - g[y]
      /\ SumFunctionOnSet(f, T \ {y}) \in Int /\ SumFunctionOnSet(g, T \ {y}) \in Int
  <2>1. IsFiniteSet(T \ {y})
    BY <1>3, FS_Subset
  <2> QED
    BY <1>3, <1>5, <2>1, SumIsInt
<1> QED
  BY <1>2, <1>7, <1>8, <1>9

\* A common factor comes out of a sum.
LEMMA SumOfMultiples ==
    ASSUME NEW S, IsFiniteSet(S), NEW f, NEW k \in Int, NEW h,
           \A x \in S : f[x] \in Int /\ h[x] = k * f[x]
    PROVE  SumFunctionOnSet(h, S) = k * SumFunctionOnSet(f, S)
<1> DEFINE Bad == {T \in SUBSET S : SumFunctionOnSet(h, T) # k * SumFunctionOnSet(f, T)}
<1>1. SUFFICES ASSUME S \in Bad  PROVE FALSE
  OBVIOUS
<1>2. PICK T \in Bad : \A U \in Bad : U \subseteq T => U = T
  <2>1. Bad \subseteq SUBSET S /\ Bad # {}
    BY <1>1
  <2> HIDE DEF Bad
  <2> QED
    BY <2>1, LeastSet
<1>3. IsFiniteSet(T) /\ T \subseteq S
  BY <1>2, FS_Subset
<1>4. T # {}
  <2>1. SumFunctionOnSet(h, {}) = k * SumFunctionOnSet(f, {})
    BY SumOfNothing
  <2>2. {} \notin Bad
    BY <2>1
  <2> QED
    BY <2>2
<1>5. PICK y : y \in T
  BY <1>4
<1>6. T \ {y} \notin Bad
  BY <1>2, <1>5
<1>7. SumFunctionOnSet(h, T \ {y}) = k * SumFunctionOnSet(f, T \ {y})
  BY <1>2, <1>5, <1>6
<1>8. \A x \in T : f[x] \in Int /\ h[x] \in Int
  BY <1>3
<1>9. /\ SumFunctionOnSet(f, T) = f[y] + SumFunctionOnSet(f, T \ {y})
      /\ SumFunctionOnSet(h, T) = h[y] + SumFunctionOnSet(h, T \ {y})
  BY <1>3, <1>5, <1>8, SumWithout
<1>10. f[y] \in Int /\ h[y] = k * f[y] /\ SumFunctionOnSet(f, T \ {y}) \in Int
  <2>1. IsFiniteSet(T \ {y})
    BY <1>3, FS_Subset
  <2> QED
    BY <1>3, <1>5, <2>1, SumIsInt
<1> HIDE DEF Bad
<1>11. k * (f[y] + SumFunctionOnSet(f, T \ {y})) = k * f[y] + k * SumFunctionOnSet(f, T \ {y})
  BY <1>10
<1>12. SumFunctionOnSet(h, T) = k * SumFunctionOnSet(f, T)
  BY <1>7, <1>9, <1>10, <1>11
<1> QED
  BY <1>2, <1>12 DEF Bad
LEMMA SumOfUnion ==
    ASSUME NEW A, IsFiniteSet(A), NEW B, IsFiniteSet(B), A \cap B = {},
           NEW f, \A x \in A \cup B : f[x] \in Int
    PROVE  SumFunctionOnSet(f, A \cup B) = SumFunctionOnSet(f, A) + SumFunctionOnSet(f, B)
<1> DEFINE Bad == {T \in SUBSET B : SumFunctionOnSet(f, A \cup T)
                                      # SumFunctionOnSet(f, A) + SumFunctionOnSet(f, T)}
<1>1. SUFFICES ASSUME B \in Bad  PROVE FALSE
  OBVIOUS
<1>2. PICK T \in Bad : \A U \in Bad : U \subseteq T => U = T
  <2>1. Bad \subseteq SUBSET B /\ Bad # {}
    BY <1>1
  <2> HIDE DEF Bad
  <2> QED
    BY <2>1, LeastSet
<1>3. SumFunctionOnSet(f, A) \in Int
  BY SumIsInt
<1>4. CASE T = {}
  <2>1. SumFunctionOnSet(f, {}) = 0
    BY SumOfNothing
  <2>2. A \cup {} = A
    OBVIOUS
  <2>3. SumFunctionOnSet(f, A \cup {}) = SumFunctionOnSet(f, A) + SumFunctionOnSet(f, {})
    BY <1>3, <2>1, <2>2
  <2> QED
    BY <1>2, <1>4, <2>3
<1>5. CASE T # {}
  <2>1. PICK y : y \in T
    BY <1>5
  <2> DEFINE U == T \ {y}
  <2>2. /\ U \subseteq T /\ U # T /\ U \subseteq B /\ y \notin U /\ y \notin A \cup U
        /\ U \cup {y} = T /\ (A \cup U) \cup {y} = A \cup T
    BY <1>2, <2>1
  <2> HIDE DEF U
  <2>3. SumFunctionOnSet(f, A \cup U) = SumFunctionOnSet(f, A) + SumFunctionOnSet(f, U)
    <3>1. U \notin Bad
      BY <1>2, <2>2, Zenon
    <3> QED
      BY <2>2, <3>1
  <2> HIDE DEF Bad
  <2> DEFINE W == A \cup U
  <2>4. IsFiniteSet(U) /\ IsFiniteSet(W)
    BY <2>2, FS_Subset, FS_Union
  <2>5. y \notin W /\ y \notin U /\ W \cup {y} = A \cup T /\ U \cup {y} = T
    BY <2>2
  <2>6. \A x \in W \cup {y} : f[x] \in Int
    <3>1. T \subseteq B
      BY <1>2 DEF Bad
    <3> QED
      BY <2>5, <3>1
  <2>7. \A x \in U \cup {y} : f[x] \in Int
    BY <2>6
  <2> HIDE DEF W
  <2>8. SumFunctionOnSet(f, W \cup {y}) = SumFunctionOnSet(f, W) + f[y]
    BY <2>4, <2>5, <2>6, SumWith
  <2>9. SumFunctionOnSet(f, U \cup {y}) = SumFunctionOnSet(f, U) + f[y]
    BY <2>4, <2>5, <2>7, SumWith
  <2>10. SumFunctionOnSet(f, U) \in Int /\ f[y] \in Int
    BY <2>4, <2>7, SumIsInt
  <2>11. SumFunctionOnSet(f, W) = SumFunctionOnSet(f, A) + SumFunctionOnSet(f, U)
    BY <2>3 DEF W
  <2>12. SumFunctionOnSet(f, A \cup T) = SumFunctionOnSet(f, W) + f[y]
    BY <2>5, <2>8
  <2>13. SumFunctionOnSet(f, T) = SumFunctionOnSet(f, U) + f[y]
    BY <2>5, <2>9
  <2>14. SumFunctionOnSet(f, A \cup T) = SumFunctionOnSet(f, A) + SumFunctionOnSet(f, T)
    BY <1>3, <2>10, <2>11, <2>12, <2>13
  <2> QED
    BY <1>2, <2>14 DEF Bad
<1> QED
  BY <1>4, <1>5

Part(S, part, k) == {x \in S : part[x] = k}

\* A sum is the sum of its parts' sums.
LEMMA SumOfParts ==
    ASSUME NEW S, IsFiniteSet(S), NEW K, IsFiniteSet(K), NEW f, NEW part, NEW g,
           \A x \in S : f[x] \in Int /\ part[x] \in K,
           \A k \in K : g[k] = SumFunctionOnSet(f, Part(S, part, k))
    PROVE  SumFunctionOnSet(g, K) = SumFunctionOnSet(f, S)
<1> DEFINE Of(T) == {x \in S : part[x] \in T}
           Bad == {T \in SUBSET K : SumFunctionOnSet(g, T) # SumFunctionOnSet(f, Of(T))}
<1>1. SUFFICES ASSUME K \in Bad  PROVE FALSE
  <2>1. Of(K) = S
    OBVIOUS
  <2> QED
    BY <2>1
<1>2. PICK T \in Bad : \A U \in Bad : U \subseteq T => U = T
  <2>1. Bad \subseteq SUBSET K /\ Bad # {}
    BY <1>1
  <2> HIDE DEF Bad
  <2> QED
    BY <2>1, LeastSet
<1>3. \A R : IsFiniteSet(Of(R)) /\ \A x \in Of(R) : f[x] \in Int
  BY FS_Subset
<1>4. \A k \in K : g[k] \in Int
  <2>1. TAKE k \in K
  <2>2. Of({k}) = Part(S, part, k)
    BY DEF Part
  <2>3. SumFunctionOnSet(f, Of({k})) \in Int
    BY <1>3, SumIsInt
  <2> QED
    BY <2>2, <2>3
<1>5. CASE T = {}
  <2>1. Of(T) = {} /\ SumFunctionOnSet(g, {}) = 0 /\ SumFunctionOnSet(f, {}) = 0
    BY <1>5, SumOfNothing
  <2> QED
    BY <1>2, <1>5, <2>1
<1>6. CASE T # {}
  <2>1. PICK k : k \in T
    BY <1>6
  <2> DEFINE U == T \ {k}
  <2>2. /\ U \subseteq T /\ U # T /\ U \subseteq K /\ k \in K /\ T \in SUBSET K
        /\ Of(U) \cup Of({k}) = Of(T) /\ Of(U) \cap Of({k}) = {}
        /\ Of({k}) = Part(S, part, k)
    BY <1>2, <2>1 DEF Part
  <2> HIDE DEF U
  <2>3. SumFunctionOnSet(g, U) = SumFunctionOnSet(f, Of(U))
    BY <1>2, <2>2
  <2> HIDE DEF Bad, Of
  <2>4. SumFunctionOnSet(g, T) = g[k] + SumFunctionOnSet(g, U)
    <3>1. IsFiniteSet(T) /\ \A j \in T : g[j] \in Int
      BY <1>4, <2>2, FS_Subset
    <3>2. SumFunctionOnSet(g, T) = g[k] + SumFunctionOnSet(g, T \ {k})
      BY <2>1, <3>1, SumWithout
    <3> QED
      BY <3>2 DEF U
  <2> DEFINE X == Of(U)
             Y == Of({k})
  <2>5. IsFiniteSet(X) /\ IsFiniteSet(Y) /\ X \cap Y = {} /\ Of(T) = X \cup Y
    BY <1>3, <2>2
  <2>6. \A x \in X \cup Y : f[x] \in Int
    BY <1>3
  <2>7. SumFunctionOnSet(g, U) = SumFunctionOnSet(f, X) /\ g[k] = SumFunctionOnSet(f, Y)
    BY <2>2, <2>3
  <2> HIDE DEF X, Y
  <2>8. SumFunctionOnSet(f, X \cup Y) = SumFunctionOnSet(f, X) + SumFunctionOnSet(f, Y)
    BY <2>5, <2>6, SumOfUnion
  <2>9. SumFunctionOnSet(f, X) \in Int /\ SumFunctionOnSet(f, Y) \in Int
    BY <2>5, <2>6, SumIsInt
  <2>10. SumFunctionOnSet(g, T) = SumFunctionOnSet(f, Of(T))
    BY <2>4, <2>5, <2>7, <2>8, <2>9
  <2> QED
    BY <1>2, <2>10 DEF Bad
<1> QED
  BY <1>5, <1>6

=============================================================================
