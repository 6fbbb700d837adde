----------------------------- MODULE FiniteSums -----------------------------
(***************************************************************************)
(* Laws of SumFunctionOnSet of the community modules, the sum of the       *)
(* values of a function over a finite set, with which the reports are      *)
(* specified.  The sum is defined by a recursive function that takes the   *)
(* members of the set in an order of its own; these laws say that the      *)
(* order does not matter.                                                  *)
(***************************************************************************)
EXTENDS FiniteSetTheorems, TLAPS

-----------------------------------------------------------------------------
(* Induction over finite sets, with sets of sets for predicates. *)

(* Among finite sets there is a smallest one. *)
LEMMA MinimalSet ==
  ASSUME NEW S, IsFiniteSet(S), NEW B \in SUBSET (SUBSET S), B # {}
  PROVE  \E T \in B : \A U \in B : U \subseteq T => U = T
<1>1. IsWellFoundedOn(StrictSubsetOrdering(S), SUBSET S)
  BY FS_StrictSubsetOrderingWellFounded, FS_FiniteSubsetsOfFinite
<1>2. PICK T \in B : \A U \in B : ~ (<<U, T>> \in StrictSubsetOrdering(S))
  BY <1>1, WFMin
<1> QED
  BY <1>2 DEF StrictSubsetOrdering

(* What holds of the empty set, and of a set with one member more if it holds
   of the set, holds of every finite set. *)
LEMMA SetInduction ==
  ASSUME NEW S, IsFiniteSet(S), NEW G, {} \in G,
         \A T \in SUBSET S : \A x \in S \ T : T \in G => T \union {x} \in G
  PROVE  S \in G
<1> SUFFICES ASSUME S \notin G PROVE FALSE
  OBVIOUS
<1> DEFINE B == {T \in SUBSET S : T \notin G}
<1>1. PICK T \in B : \A U \in B : U \subseteq T => U = T
  <2>1. S \in B /\ B \in SUBSET (SUBSET S)
    OBVIOUS
  <2> HIDE DEF B
  <2> QED
    BY <2>1, MinimalSet
<1>2. PICK x \in T : x \in S
  BY <1>1
<1>3. T \ {x} \in G
  BY <1>1, <1>2
<1>4. (T \ {x}) \union {x} = T
  BY <1>2
<1> QED
  BY <1>1, <1>2, <1>3, <1>4

-----------------------------------------------------------------------------
(* The recursive function behind the sum. *)

First(T) == CHOOSE x \in T : TRUE
Rest(T) == T \ {First(T)}

IsSum(f, S, g) ==
  g = [T \in SUBSET S |-> IF T = {} THEN 0 ELSE f[First(T)] + g[Rest(T)]]

LEMMA FirstAndRest ==
  ASSUME NEW T, T # {}
  PROVE  First(T) \in T /\ Rest(T) \subseteq T /\ Rest(T) # T
BY DEF First, Rest

LEMMA SumIs ==
  ASSUME NEW f, NEW S
  PROVE  SumFunctionOnSet(f, S) = (CHOOSE g : IsSum(f, S, g))[S]
BY DEF SumFunctionOnSet, FoldFunctionOnSet, MapThenFoldSet, IsSum, First, Rest

(* Two of them agree where both are defined. *)
LEMMA SumIsUnique ==
  ASSUME NEW f, NEW S, IsFiniteSet(S), NEW C \in SUBSET S, NEW D \in SUBSET S,
         NEW g, IsSum(f, C, g), NEW h, IsSum(f, D, h), NEW T, T \subseteq C, T \subseteq D
  PROVE  g[T] = h[T]
<1> SUFFICES ASSUME g[T] # h[T] PROVE FALSE
  OBVIOUS
<1> DEFINE B == {U \in SUBSET S : U \subseteq C /\ U \subseteq D /\ g[U] # h[U]}
<1>1. PICK U \in B : \A V \in B : V \subseteq U => V = U
  <2>1. T \in B /\ B \in SUBSET (SUBSET S)
    OBVIOUS
  <2> HIDE DEF B
  <2> QED
    BY <2>1, MinimalSet
<1>2. /\ g[U] = IF U = {} THEN 0 ELSE f[First(U)] + g[Rest(U)]
      /\ h[U] = IF U = {} THEN 0 ELSE f[First(U)] + h[Rest(U)]
  BY <1>1 DEF IsSum
<1>3. U # {}
  BY <1>1, <1>2
<1>4. Rest(U) \notin B
  BY <1>1, <1>3, FirstAndRest
<1>5. g[Rest(U)] = h[Rest(U)]
  BY <1>1, <1>3, <1>4, FirstAndRest
<1> QED
  BY <1>1, <1>2, <1>5

(* There is one. *)
LEMMA SumExists ==
  ASSUME NEW f, NEW S, IsFiniteSet(S)
  PROVE  \E g : IsSum(f, S, g)
<1> SUFFICES ASSUME ~ \E g : IsSum(f, S, g) PROVE FALSE
  OBVIOUS
<1> DEFINE B == {U \in SUBSET S : ~ \E g : IsSum(f, U, g)}
<1>1. PICK T \in B : \A V \in B : V \subseteq T => V = T
  <2>1. S \in B /\ B \in SUBSET (SUBSET S)
    OBVIOUS
  <2> HIDE DEF B
  <2> QED
    BY <2>1, MinimalSet
<1> DEFINE Of(U) == CHOOSE g : IsSum(f, U, g)
           Value(U) == IF U = {} THEN 0 ELSE f[First(U)] + Of(Rest(U))[Rest(U)]
           h == [U \in SUBSET T |-> Value(U)]
<1>2. ASSUME NEW V, V \subseteq T, V # T
      PROVE  IsSum(f, V, Of(V))
  <2>1. V \notin B
    BY <1>1, <1>2
  <2> QED
    BY <1>1, <1>2, <2>1
<1>3. ASSUME NEW V, V \subseteq T, V # T
      PROVE  Of(V)[V] = Value(V)
  <2> HIDE DEF Of
  <2>1. Of(V)[V] = IF V = {} THEN 0 ELSE f[First(V)] + Of(V)[Rest(V)]
    <3>1. IsSum(f, V, Of(V)) /\ V \in SUBSET V
      BY <1>2, <1>3
    <3> QED
      BY <3>1, SMTT(30) DEF IsSum
  <2>2. ASSUME V # {}
        PROVE  Of(V)[Rest(V)] = Of(Rest(V))[Rest(V)]
    <3>1. Rest(V) \subseteq V /\ Rest(V) # T
      BY <1>3, <2>2, FirstAndRest
    <3>2. IsSum(f, V, Of(V)) /\ IsSum(f, Rest(V), Of(Rest(V)))
      BY <1>2, <1>3, <3>1
    <3> QED
      BY <1>1, <1>3, <3>1, <3>2, SumIsUnique
  <2> QED
    BY <2>1, <2>2
<1>4. ASSUME NEW U \in SUBSET T
      PROVE  h[U] = IF U = {} THEN 0 ELSE f[First(U)] + h[Rest(U)]
  <2> HIDE DEF Of
  <2>1. ASSUME U # {}
        PROVE  h[Rest(U)] = Of(Rest(U))[Rest(U)]
    <3>1. Rest(U) \subseteq T /\ Rest(U) # T
      BY <2>1, FirstAndRest
    <3> QED
      BY <1>3, <3>1
  <2> QED
    BY <2>1
<1>5. IsSum(f, T, h)
  <2>1. h = [U \in SUBSET T |-> h[U]]
    OBVIOUS
  <2> HIDE DEF h
  <2> QED
    BY <1>4, <2>1 DEF IsSum
<1> QED
  BY <1>1, <1>5

-----------------------------------------------------------------------------
(* The laws. *)

LEMMA SumOfNone ==
  ASSUME NEW f
  PROVE  SumFunctionOnSet(f, {}) = 0
<1>1. PICK g : IsSum(f, {}, g)
  BY SumExists, FS_EmptySet
<1>2. IsSum(f, {}, CHOOSE h : IsSum(f, {}, h))
  BY <1>1
<1> DEFINE it == CHOOSE h : IsSum(f, {}, h)
<1> HIDE DEF it
<1>3. it[{}] = 0
  BY <1>2 DEF IsSum, it
<1> QED
  BY <1>3, SumIs DEF it

(* One step of the recursion. *)
LEMMA SumOfFirst ==
  ASSUME NEW f, NEW S, IsFiniteSet(S), S # {}
  PROVE  SumFunctionOnSet(f, S) = f[First(S)] + SumFunctionOnSet(f, Rest(S))
<1> DEFINE Of(U) == CHOOSE g : IsSum(f, U, g)
<1>1. Rest(S) \subseteq S /\ IsFiniteSet(Rest(S))
  BY FirstAndRest, FS_Subset
<1>2. IsSum(f, S, Of(S)) /\ IsSum(f, Rest(S), Of(Rest(S)))
  BY <1>1, SumExists
<1>3. SumFunctionOnSet(f, S) = Of(S)[S] /\ SumFunctionOnSet(f, Rest(S)) = Of(Rest(S))[Rest(S)]
  BY SumIs
<1> HIDE DEF Of
<1>4. Of(S)[S] = f[First(S)] + Of(S)[Rest(S)]
  BY <1>2 DEF IsSum
<1>5. Of(S)[Rest(S)] = Of(Rest(S))[Rest(S)]
  BY <1>1, <1>2, SumIsUnique
<1> QED
  BY <1>3, <1>4, <1>5

LEMMA SumIsInt ==
  ASSUME NEW f, NEW S, IsFiniteSet(S), \A x \in S : f[x] \in Int
  PROVE  SumFunctionOnSet(f, S) \in Int
<1> SUFFICES ASSUME SumFunctionOnSet(f, S) \notin Int PROVE FALSE
  OBVIOUS
<1> DEFINE B == {U \in SUBSET S : SumFunctionOnSet(f, U) \notin Int}
<1>1. PICK T \in B : \A V \in B : V \subseteq T => V = T
  <2>1. S \in B /\ B \in SUBSET (SUBSET S)
    OBVIOUS
  <2> HIDE DEF B
  <2> QED
    BY <2>1, MinimalSet
<1>2. T # {} /\ IsFiniteSet(T)
  <2>1. T \in SUBSET S /\ SumFunctionOnSet(f, T) \notin Int
    BY <1>1
  <2>2. T # {}
    BY <2>1, SumOfNone
  <2> QED
    BY <2>1, <2>2, FS_Subset
<1>3. First(T) \in S /\ Rest(T) \in SUBSET S /\ Rest(T) \notin B
  BY <1>1, <1>2, FirstAndRest
<1>4. SumFunctionOnSet(f, T) = f[First(T)] + SumFunctionOnSet(f, Rest(T))
  BY <1>2, SumOfFirst
<1> QED
  BY <1>1, <1>3, <1>4

(* Any member can be taken first. *)
LEMMA SumOfMember ==
  ASSUME NEW f, NEW S, IsFiniteSet(S), \A x \in S : f[x] \in Int, NEW y \in S
  PROVE  SumFunctionOnSet(f, S) = f[y] + SumFunctionOnSet(f, S \ {y})
<1> SUFFICES ASSUME SumFunctionOnSet(f, S) # f[y] + SumFunctionOnSet(f, S \ {y}) PROVE FALSE
  OBVIOUS
<1> DEFINE B == {U \in SUBSET S :
                   \E x \in U : SumFunctionOnSet(f, U) # f[x] + SumFunctionOnSet(f, U \ {x})}
<1>1. PICK T \in B : \A V \in B : V \subseteq T => V = T
  <2>1. S \in B /\ B \in SUBSET (SUBSET S)
    OBVIOUS
  <2> HIDE DEF B
  <2> QED
    BY <2>1, MinimalSet
<1>2. PICK x \in T : SumFunctionOnSet(f, T) # f[x] + SumFunctionOnSet(f, T \ {x})
  BY <1>1
<1>3. \A U \in SUBSET S : IsFiniteSet(U) /\ SumFunctionOnSet(f, U) \in Int
  <2> SUFFICES ASSUME NEW U \in SUBSET S
               PROVE  IsFiniteSet(U) /\ SumFunctionOnSet(f, U) \in Int
    OBVIOUS
  <2>1. IsFiniteSet(U)
    BY FS_Subset
  <2> QED
    BY <2>1, SumIsInt
<1> DEFINE z == First(T)
<1>4. z \in T /\ Rest(T) = T \ {z}
  BY <1>2, FirstAndRest DEF Rest
<1>5. SumFunctionOnSet(f, T) = f[z] + SumFunctionOnSet(f, T \ {z})
  <2>1. IsFiniteSet(T) /\ T # {}
    BY <1>1, <1>2, <1>3
  <2>2. SumFunctionOnSet(f, T) = f[First(T)] + SumFunctionOnSet(f, Rest(T))
    BY <2>1, SumOfFirst
  <2> QED
    BY <2>2, <1>4
<1> HIDE DEF z
<1>6. x # z
  BY <1>2, <1>5
<1>7. T \ {z} \notin B /\ T \ {x} \notin B /\ T \in SUBSET S
  BY <1>1, <1>2, <1>4
<1>8. SumFunctionOnSet(f, T \ {z}) = f[x] + SumFunctionOnSet(f, (T \ {z}) \ {x})
  BY <1>2, <1>6, <1>7
<1>9. SumFunctionOnSet(f, T \ {x}) = f[z] + SumFunctionOnSet(f, (T \ {x}) \ {z})
  BY <1>4, <1>6, <1>7
<1>10. (T \ {z}) \ {x} = (T \ {x}) \ {z} /\ (T \ {x}) \ {z} \in SUBSET S
  BY <1>7
<1> DEFINE others == SumFunctionOnSet(f, (T \ {x}) \ {z})
<1>11. f[x] \in Int /\ f[z] \in Int /\ others \in Int
  BY <1>2, <1>3, <1>4, <1>7, <1>10
<1>12. SumFunctionOnSet(f, T) = f[z] + (f[x] + others)
  BY <1>5, <1>8, <1>10
<1>13. f[x] + SumFunctionOnSet(f, T \ {x}) = f[x] + (f[z] + others)
  BY <1>9
<1> HIDE DEF others, B
<1>14. f[z] + (f[x] + others) = f[x] + (f[z] + others)
  BY <1>11
<1> QED
  BY <1>2, <1>12, <1>13, <1>14

LEMMA SumOfMore ==
  ASSUME NEW f, NEW S, IsFiniteSet(S), \A x \in S : f[x] \in Int,
         NEW y, y \notin S, f[y] \in Int
  PROVE  SumFunctionOnSet(f, S \union {y}) = f[y] + SumFunctionOnSet(f, S)
<1>1. IsFiniteSet(S \union {y}) /\ (S \union {y}) \ {y} = S
  BY FS_AddElement
<1> QED
  BY <1>1, SumOfMember

(* Induction for a claim about a sum: G is the set of the subsets of S that it
   is true of. *)
LEMMA SumsOfSubsets ==
  ASSUME NEW f, NEW S, IsFiniteSet(S), \A x \in S : f[x] \in Int
  PROVE  \A T \in SUBSET S :
           /\ IsFiniteSet(T) /\ SumFunctionOnSet(f, T) \in Int
           /\ \A y \in S \ T : SumFunctionOnSet(f, T \union {y}) = f[y] + SumFunctionOnSet(f, T)
<1> TAKE T \in SUBSET S
<1>1. IsFiniteSet(T)
  BY FS_Subset
<1> QED
  BY <1>1, SumIsInt, SumOfMore

(* The sum of two functions, and of their difference. *)
LEMMA SumOfSums ==
  ASSUME NEW f, NEW g, NEW h, NEW S, IsFiniteSet(S),
         \A x \in S : f[x] \in Int /\ g[x] \in Int /\ h[x] = f[x] + g[x]
  PROVE  SumFunctionOnSet(h, S) = SumFunctionOnSet(f, S) + SumFunctionOnSet(g, S)
<1> DEFINE G == {T \in SUBSET S : SumFunctionOnSet(h, T) = SumFunctionOnSet(f, T) + SumFunctionOnSet(g, T)}
<1>1. {} \in G
  BY SumOfNone
<1>2. ASSUME NEW T \in SUBSET S, NEW x \in S \ T, T \in G
      PROVE  T \union {x} \in G
  <2>1. /\ SumFunctionOnSet(h, T \union {x}) = h[x] + SumFunctionOnSet(h, T)
        /\ SumFunctionOnSet(f, T \union {x}) = f[x] + SumFunctionOnSet(f, T)
        /\ SumFunctionOnSet(g, T \union {x}) = g[x] + SumFunctionOnSet(g, T)
        /\ SumFunctionOnSet(f, T) \in Int /\ SumFunctionOnSet(g, T) \in Int
    BY SumsOfSubsets
  <2> QED
    BY <1>2, <2>1
<1> HIDE DEF G
<1>3. S \in G
  BY <1>1, <1>2, SetInduction
<1> QED
  BY <1>3 DEF G

LEMMA SumOfSame ==
  ASSUME NEW f, NEW g, NEW S, IsFiniteSet(S), \A x \in S : f[x] \in Int /\ g[x] = f[x]
  PROVE  SumFunctionOnSet(g, S) = SumFunctionOnSet(f, S)
<1> DEFINE G == {T \in SUBSET S : SumFunctionOnSet(g, T) = SumFunctionOnSet(f, T)}
<1>1. {} \in G
  BY SumOfNone
<1>2. ASSUME NEW T \in SUBSET S, NEW x \in S \ T, T \in G
      PROVE  T \union {x} \in G
  <2>1. /\ SumFunctionOnSet(f, T \union {x}) = f[x] + SumFunctionOnSet(f, T)
        /\ SumFunctionOnSet(g, T \union {x}) = g[x] + SumFunctionOnSet(g, T)
    BY SumsOfSubsets
  <2> QED
    BY <1>2, <2>1
<1> HIDE DEF G
<1>3. S \in G
  BY <1>1, <1>2, SetInduction
<1> QED
  BY <1>3 DEF G

LEMMA SumOfDifferences ==
  ASSUME NEW f, NEW g, NEW h, NEW S, IsFiniteSet(S),
         \A x \in S : f[x] \in Int /\ g[x] \in Int /\ h[x] = f[x] - g[x]
  PROVE  SumFunctionOnSet(h, S) = SumFunctionOnSet(f, S) - SumFunctionOnSet(g, S)
<1>1. \A x \in S : h[x] \in Int /\ g[x] \in Int /\ f[x] = h[x] + g[x]
  OBVIOUS
<1>2. SumFunctionOnSet(f, S) = SumFunctionOnSet(h, S) + SumFunctionOnSet(g, S)
  BY <1>1, SumOfSums
<1>3. SumFunctionOnSet(h, S) \in Int /\ SumFunctionOnSet(g, S) \in Int
  BY <1>1, SumIsInt
<1> QED
  BY <1>2, <1>3

(* The sum of a value k times the same. *)
LEMMA SumOfConstant ==
  ASSUME NEW f, NEW S, IsFiniteSet(S), NEW k \in Int, \A x \in S : f[x] = k
  PROVE  SumFunctionOnSet(f, S) = k * Cardinality(S)
<1> DEFINE G == {T \in SUBSET S : SumFunctionOnSet(f, T) = k * Cardinality(T)}
<1>1. {} \in G
  <2>1. Cardinality({}) = 0 /\ k * 0 = 0
    BY FS_EmptySet
  <2> QED
    BY <2>1, SumOfNone
<1>2. ASSUME NEW T \in SUBSET S, NEW x \in S \ T, T \in G
      PROVE  T \union {x} \in G
  <2>1. /\ SumFunctionOnSet(f, T \union {x}) = k + SumFunctionOnSet(f, T)
        /\ IsFiniteSet(T)
    BY SumsOfSubsets
  <2>2. Cardinality(T \union {x}) = Cardinality(T) + 1 /\ Cardinality(T) \in Nat
    BY <2>1, FS_AddElement, FS_CardinalityType
  <2>3. \A n \in Nat : k + k * n = k * (n + 1)
    OBVIOUS
  <2> QED
    BY <1>2, <2>1, <2>2, <2>3
<1> HIDE DEF G
<1>3. S \in G
  BY <1>1, <1>2, SetInduction
<1> QED
  BY <1>3 DEF G

LEMMA SumOfZeros ==
  ASSUME NEW f, NEW S, IsFiniteSet(S), \A x \in S : f[x] = 0
  PROVE  SumFunctionOnSet(f, S) = 0
<1>1. SumFunctionOnSet(f, S) = 0 * Cardinality(S) /\ Cardinality(S) \in Nat
  BY SumOfConstant, FS_CardinalityType
<1> QED
  BY <1>1

(* The sum over two sets without a common member. *)
LEMMA SumOfUnion ==
  ASSUME NEW f, NEW C, IsFiniteSet(C), NEW D, IsFiniteSet(D), C \intersect D = {},
         \A x \in C \union D : f[x] \in Int
  PROVE  SumFunctionOnSet(f, C \union D) = SumFunctionOnSet(f, C) + SumFunctionOnSet(f, D)
<1> DEFINE G == {T \in SUBSET D : SumFunctionOnSet(f, C \union T)
                                    = SumFunctionOnSet(f, C) + SumFunctionOnSet(f, T)}
<1>0. SumFunctionOnSet(f, C) \in Int /\ IsFiniteSet(C \union D)
  BY SumIsInt, FS_Union
<1>1. {} \in G
  <2>1. C \union {} = C
    OBVIOUS
  <2> QED
    BY <1>0, <2>1, SumOfNone
<1>2. ASSUME NEW T \in SUBSET D, NEW x \in D \ T, T \in G
      PROVE  T \union {x} \in G
  <2>1. /\ SumFunctionOnSet(f, T \union {x}) = f[x] + SumFunctionOnSet(f, T)
        /\ SumFunctionOnSet(f, T) \in Int
    BY SumsOfSubsets
  <2>2. C \union T \in SUBSET (C \union D) /\ x \in (C \union D) \ (C \union T)
    OBVIOUS
  <2>3. SumFunctionOnSet(f, (C \union T) \union {x}) = f[x] + SumFunctionOnSet(f, C \union T)
    BY <1>0, <2>2, SumsOfSubsets
  <2>4. (C \union T) \union {x} = C \union (T \union {x}) /\ T \union {x} \in SUBSET D
        /\ f[x] \in Int
    OBVIOUS
  <2>5. SumFunctionOnSet(f, C \union (T \union {x}))
          = SumFunctionOnSet(f, C) + SumFunctionOnSet(f, T \union {x})
    <3>1. SumFunctionOnSet(f, C \union T) = SumFunctionOnSet(f, C) + SumFunctionOnSet(f, T)
      BY <1>2
    <3>2. SumFunctionOnSet(f, C \union (T \union {x}))
            = f[x] + (SumFunctionOnSet(f, C) + SumFunctionOnSet(f, T))
      BY <2>3, <2>4, <3>1
    <3> HIDE DEF G
    <3> QED
      BY <1>0, <2>1, <2>4, <3>2
  <2> QED
    BY <2>4, <2>5
<1> HIDE DEF G
<1>3. D \in G
  BY <1>1, <1>2, SetInduction
<1> QED
  BY <1>3 DEF G

(* A function that is zero outside of a part of the set adds up to what that
   part does. *)
LEMMA SumOfPart ==
  ASSUME NEW f, NEW h, NEW S, IsFiniteSet(S), NEW P \in SUBSET S,
         \A x \in P : f[x] \in Int /\ h[x] = f[x],
         \A x \in S \ P : h[x] = 0
  PROVE  SumFunctionOnSet(h, S) = SumFunctionOnSet(f, P)
<1>1. IsFiniteSet(P) /\ IsFiniteSet(S \ P) /\ S = P \union (S \ P) /\ P \intersect (S \ P) = {}
  BY FS_Subset
<1>2. SumFunctionOnSet(h, S) = SumFunctionOnSet(h, P) + SumFunctionOnSet(h, S \ P)
  <2>1. \A x \in P \union (S \ P) : h[x] \in Int
    OBVIOUS
  <2> QED
    BY <1>1, <2>1, SumOfUnion
<1>3. SumFunctionOnSet(h, P) = SumFunctionOnSet(f, P) /\ SumFunctionOnSet(f, P) \in Int
  BY <1>1, SumOfSame, SumIsInt
<1>4. SumFunctionOnSet(h, S \ P) = 0
  BY <1>1, SumOfZeros
<1> QED
  BY <1>2, <1>3, <1>4

(* The sum of a function that is zero but for one member. *)
LEMMA SumOfOne ==
  ASSUME NEW h, NEW S, IsFiniteSet(S), NEW y \in S, h[y] \in Int,
         \A x \in S \ {y} : h[x] = 0
  PROVE  SumFunctionOnSet(h, S) = h[y]
<1>1. IsFiniteSet(S \ {y}) /\ \A x \in S : h[x] \in Int
  BY FS_RemoveElement
<1>2. SumFunctionOnSet(h, S \ {y}) = 0
  BY <1>1, SumOfZeros
<1> QED
  BY <1>1, <1>2, SumOfMember

(* The sum, group by group: a member of S is in the group of its key. *)
LEMMA SumByKey ==
  ASSUME NEW f, NEW S, IsFiniteSet(S), \A x \in S : f[x] \in Int,
         NEW K, IsFiniteSet(K), NEW key, \A x \in S : key[x] \in K,
         NEW group, \A y \in K : \A x : x \in group[y] <=> x \in S /\ key[x] = y,
         NEW g, \A y \in K : g[y] = SumFunctionOnSet(f, group[y])
  PROVE  SumFunctionOnSet(g, K) = SumFunctionOnSet(f, S)
<1> DEFINE Group(T, y) == {x \in T : key[x] = y}
           Of(T) == [y \in K |-> SumFunctionOnSet(f, Group(T, y))]
           G == {T \in SUBSET S : SumFunctionOnSet(Of(T), K) = SumFunctionOnSet(f, T)}
<1>0. ASSUME NEW T \in SUBSET S, NEW y \in K
      PROVE  Of(T)[y] = SumFunctionOnSet(f, Group(T, y)) /\ Of(T)[y] \in Int
  <2>1. Group(T, y) \in SUBSET S
    OBVIOUS
  <2>2. SumFunctionOnSet(f, Group(T, y)) \in Int
    BY <2>1, SumsOfSubsets
  <2> QED
    BY <2>2
<1>1. {} \in G
  <2>1. ASSUME NEW y \in K
        PROVE  Of({})[y] = 0
    <3>1. Group({}, y) = {}
      OBVIOUS
    <3> QED
      BY <3>1, SumOfNone
  <2> HIDE DEF Of
  <2>2. SumFunctionOnSet(Of({}), K) = 0
    BY <2>1, SumOfZeros
  <2> QED
    BY <2>2, SumOfNone
<1>2. ASSUME NEW T \in SUBSET S, NEW x \in S \ T, T \in G
      PROVE  T \union {x} \in G
  <2> DEFINE more == [y \in K |-> IF y = key[x] THEN f[x] ELSE 0]
  <2>1. ASSUME NEW y \in K
        PROVE  Of(T \union {x})[y] = Of(T)[y] + more[y]
    <3>0. /\ Of(T)[y] = SumFunctionOnSet(f, Group(T, y)) /\ Of(T)[y] \in Int
          /\ Of(T \union {x})[y] = SumFunctionOnSet(f, Group(T \union {x}, y))
      BY <1>0
    <3>1. CASE y = key[x]
      <4>1. /\ Group(T \union {x}, y) = Group(T, y) \union {x}
            /\ Group(T, y) \in SUBSET S /\ x \in S \ Group(T, y)
        BY <3>1
      <4>2. SumFunctionOnSet(f, Group(T, y) \union {x}) = f[x] + SumFunctionOnSet(f, Group(T, y))
        <5> HIDE DEF Group, Of, G, more
        <5> QED
          BY <4>1, SumsOfSubsets
      <4>3. more[y] = f[x] /\ f[x] \in Int
        BY <3>1
      <4>4. Of(T \union {x})[y] = f[x] + SumFunctionOnSet(f, Group(T, y))
        <5> HIDE DEF Group, Of, G, more
        <5> QED
          BY <3>0, <4>1, <4>2
      <4> HIDE DEF Group, Of, G, more
      <4> QED
        BY <3>0, <4>3, <4>4
    <3>2. CASE y # key[x]
      <4>1. Group(T \union {x}, y) = Group(T, y)
        BY <3>2
      <4>2. more[y] = 0
        BY <3>2
      <4> HIDE DEF Group, Of, G, more
      <4> QED
        BY <3>0, <4>1, <4>2
    <3> QED
      BY <3>1, <3>2
  <2>2. \A y \in K : Of(T)[y] \in Int /\ more[y] \in Int
    BY <1>0
  <2>3. SumFunctionOnSet(more, K) = f[x]
    <3>1. key[x] \in K /\ more[key[x]] = f[x] /\ f[x] \in Int
          /\ \A y \in K \ {key[x]} : more[y] = 0
      OBVIOUS
    <3> HIDE DEF more
    <3> QED
      BY <3>1, SumOfOne
  <2> HIDE DEF Of, more
  <2>4. SumFunctionOnSet(Of(T \union {x}), K)
          = SumFunctionOnSet(Of(T), K) + SumFunctionOnSet(more, K)
    <3> HIDE DEF G
    <3>1. PICK old, new : old = Of(T) /\ new = Of(T \union {x})
      OBVIOUS
    <3>2. \A y \in K : old[y] \in Int /\ more[y] \in Int /\ new[y] = old[y] + more[y]
      BY <2>1, <2>2, <3>1
    <3>3. SumFunctionOnSet(new, K) = SumFunctionOnSet(old, K) + SumFunctionOnSet(more, K)
      BY <3>2, SumOfSums
    <3> QED
      BY <3>1, <3>3
  <2>5. /\ SumFunctionOnSet(f, T \union {x}) = f[x] + SumFunctionOnSet(f, T)
        /\ SumFunctionOnSet(f, T) \in Int
    BY SumsOfSubsets
  <2> QED
    BY <1>2, <2>3, <2>4, <2>5
<1>3. S \in G
  <2> HIDE DEF G
  <2> QED
    BY <1>1, <1>2, SetInduction
<1>4. ASSUME NEW y \in K
      PROVE  Of(S)[y] \in Int /\ g[y] = Of(S)[y]
  <2>1. group[y] = Group(S, y)
    OBVIOUS
  <2> QED
    BY <1>0, <2>1
<1>5. SumFunctionOnSet(Of(S), K) = SumFunctionOnSet(f, S)
  BY <1>3
<1> HIDE DEF Of
<1>6. SumFunctionOnSet(g, K) = SumFunctionOnSet(Of(S), K)
  BY <1>4, SumOfSame
<1> QED
  BY <1>5, <1>6
=============================================================================
