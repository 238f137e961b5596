-------------------------------- MODULE Sums --------------------------------
(***************************************************************************)
(* What the proofs need of the sums the models are written with,           *)
(* SumFunction and SumFunctionOnSet of Functions: what a sum is, its type, *)
(* and what one amount or one element does to it.                          *)
(*                                                                         *)
(* The library defines a sum by recursion over subsets, in the order CHOOSE*)
(* takes elements.  So the recursion is shown to have a solution           *)
(* (SumExists), its equation follows (SumStep), and then that any element  *)
(* may be taken first (SumRemove), from which the rest does.  Induction is *)
(* by a least counterexample (LeastOf, SubsetInduct): it is said of a set, *)
(* not of a predicate.                                                     *)
(***************************************************************************)
EXTENDS Integers, Functions, FiniteSetTheorems, WellFoundedInduction, TLAPS

-----------------------------------------------------------------------------
(* Induction over a finite set, said with a set in place of a predicate.   *)

(* A set of naturals that is not empty has a least member.                 *)
LEMMA LeastOf ==
  ASSUME NEW S, S \subseteq Nat, S # {}
  PROVE  \E x \in S : \A y \in S : x <= y
<1> DEFINE R == OpToRel(<, Nat)
<1>1. IsWellFoundedOn(R, Nat)
  BY NatLessThanWellFounded, Zenon
<1>2. \A x \in Nat, y \in Nat : y < x => <<y, x>> \in R
  BY DEF OpToRel
<1> HIDE DEF R
<1>3. PICK x \in S : \A y \in S : <<y, x>> \notin R
  BY <1>1, WFMin
<1>4. \A y \in S : x <= y
  <2> SUFFICES ASSUME NEW y \in S PROVE x <= y
    OBVIOUS
  <2>1. x \in Nat /\ y \in Nat /\ <<y, x>> \notin R
    BY <1>3
  <2>2. ~(y < x)
    BY <1>2, <2>1, Zenon
  <2> QED BY <2>1, <2>2
<1> QED BY <1>3, <1>4

(* Induction over the naturals, by the least one that fails.               *)
LEMMA NatInduct ==
  ASSUME NEW G, 0 \in G, \A n \in Nat : n \in G => n + 1 \in G
  PROVE  \A n \in Nat : n \in G
<1> DEFINE B == {n \in Nat : n \notin G}
<1>1. SUFFICES ASSUME B # {} PROVE FALSE
  OBVIOUS
<1>2. PICK m \in B : \A y \in B : m <= y
  BY <1>1, LeastOf
<1>3. m \in Nat /\ m # 0
  BY <1>2
<1>4. m - 1 \in Nat /\ m - 1 \notin B
  BY <1>2, <1>3
<1>5. m - 1 \in G
  BY <1>4
<1>6. (m - 1) + 1 = m
  BY <1>3
<1> QED BY <1>2, <1>4, <1>5, <1>6

(* A set that holds a subset whenever it holds all of its proper parts,    *)
(* holds every subset: a smallest one left out would be in.                *)
LEMMA SubsetInduct ==
  ASSUME NEW S, IsFiniteSet(S), NEW G,
         \A T \in SUBSET S : (\A U \in SUBSET T : U # T => U \in G) => T \in G
  PROVE  \A T \in SUBSET S : T \in G
<1> DEFINE B == {n \in Nat : \E T \in SUBSET S : Cardinality(T) = n /\ T \notin G}
<1>1. \A T \in SUBSET S : IsFiniteSet(T) /\ Cardinality(T) \in Nat
  BY FS_Subset, FS_CardinalityType
<1>2. SUFFICES ASSUME NEW T \in SUBSET S, T \notin G PROVE FALSE
  OBVIOUS
<1>3. B # {}
  BY <1>1, <1>2
<1>4. B \subseteq Nat
  OBVIOUS
<1>5. PICK m \in B : \A y \in B : m <= y
  BY <1>3, <1>4, LeastOf
<1>6. PICK L \in SUBSET S : Cardinality(L) = m /\ L \notin G
  BY <1>5
<1>7. \A U \in SUBSET L : U # L => U \in G
  <2> SUFFICES ASSUME NEW U \in SUBSET L, U # L, U \notin G PROVE FALSE
    OBVIOUS
  <2>1. Cardinality(U) <= Cardinality(L) /\ Cardinality(U) # Cardinality(L)
    BY <1>1, FS_Subset
  <2>2. U \in SUBSET S /\ Cardinality(U) \in Nat /\ Cardinality(U) \in B
    BY <1>1
  <2> HIDE DEF B
  <2> QED BY <1>1, <1>5, <1>6, <2>1, <2>2
<1> QED BY <1>6, <1>7

-----------------------------------------------------------------------------
(* The library sums a set by taking its elements one by one, in the order  *)
(* CHOOSE gives: a function on the set's subsets, defined by recursion.    *)

Chosen(s) == CHOOSE x \in s : TRUE

IsSumOf(g, f, S) ==
  g = [s \in SUBSET S |-> IF s = {} THEN 0 ELSE f[Chosen(s)] + g[s \ {Chosen(s)}]]

TheSum(f, S) == CHOOSE g : IsSumOf(g, f, S)

(* The library's definition is that function, taken at the whole set.      *)
LEMMA SumIsTheSum == \A f, S : SumFunctionOnSet(f, S) = TheSum(f, S)[S]
BY DEF SumFunctionOnSet, FoldFunctionOnSet, MapThenFoldSet, TheSum, IsSumOf, Chosen

(* The element taken next is one of the set.                               *)
LEMMA ChosenIsIn == \A s : s # {} => Chosen(s) \in s
BY DEF Chosen

(* The recursion has a solution: it is built on the subsets of at most n   *)
(* elements, for every n.                                                  *)
UpTo(S, n) == {s \in SUBSET S : Cardinality(s) <= n}

IsSumUpTo(g, f, S, n) ==
  g = [s \in UpTo(S, n) |-> IF s = {} THEN 0 ELSE f[Chosen(s)] + g[s \ {Chosen(s)}]]

LEMMA SumExists ==
  ASSUME NEW f, NEW S, IsFiniteSet(S)
  PROVE  \E g : IsSumOf(g, f, S)
<1> DEFINE G == {n \in Nat : \E g : IsSumUpTo(g, f, S, n)}
<1>1. \A T \in SUBSET S : /\ Cardinality(T) \in Nat
                          /\ Cardinality(T) = 0 <=> T = {}
                          /\ \A x \in T : Cardinality(T \ {x}) = Cardinality(T) - 1
  <2> TAKE T \in SUBSET S
  <2>1. IsFiniteSet(T)
    BY FS_Subset
  <2> QED BY <2>1, FS_CardinalityType, FS_EmptySet, FS_RemoveElement
<1>2. 0 \in G
  <2> DEFINE g == [s \in UpTo(S, 0) |-> 0]
  <2>1. \A s \in UpTo(S, 0) : s = {}
    BY <1>1 DEF UpTo
  <2>2. g = [s \in UpTo(S, 0) |-> IF s = {} THEN 0 ELSE f[Chosen(s)] + g[s \ {Chosen(s)}]]
    BY <2>1
  <2> HIDE DEF g
  <2>3. IsSumUpTo(g, f, S, 0)
    BY <2>2 DEF IsSumUpTo
  <2> QED BY <2>3
<1>3. \A n \in Nat : n \in G => n + 1 \in G
  <2> SUFFICES ASSUME NEW n \in Nat, NEW g, IsSumUpTo(g, f, S, n)
               PROVE  \E h : IsSumUpTo(h, f, S, n + 1)
    OBVIOUS
  <2> DEFINE h == [s \in UpTo(S, n + 1) |->
                     IF s = {} THEN 0 ELSE f[Chosen(s)] + g[s \ {Chosen(s)}]]
  <2>1. \A s \in UpTo(S, n) : s \in UpTo(S, n + 1)
    BY <1>1 DEF UpTo
  <2>2. \A s \in UpTo(S, n) : g[s] = IF s = {} THEN 0 ELSE f[Chosen(s)] + g[s \ {Chosen(s)}]
    BY DEF IsSumUpTo
  <2>3. \A s \in UpTo(S, n) : h[s] = g[s]
    BY <2>1, <2>2
  <2>4. \A s \in UpTo(S, n + 1) : s # {} => s \ {Chosen(s)} \in UpTo(S, n)
    BY <1>1, ChosenIsIn DEF UpTo
  <2>5. \A s \in UpTo(S, n + 1) : s # {} => h[s \ {Chosen(s)}] = g[s \ {Chosen(s)}]
    <3> HIDE DEF h
    <3> QED BY <2>3, <2>4
  <2>6. h = [s \in UpTo(S, n + 1) |-> IF s = {} THEN 0 ELSE f[Chosen(s)] + h[s \ {Chosen(s)}]]
    <3> DEFINE k == [s \in UpTo(S, n + 1) |->
                       IF s = {} THEN 0 ELSE f[Chosen(s)] + h[s \ {Chosen(s)}]]
    <3>1. \A s \in UpTo(S, n + 1) : h[s] = k[s]
      <4> TAKE s \in UpTo(S, n + 1)
      <4>1. CASE s = {}
        BY <4>1
      <4>2. CASE s # {}
        <5>1. h[s] = f[Chosen(s)] + g[s \ {Chosen(s)}]
          BY <4>2
        <5>2. k[s] = f[Chosen(s)] + h[s \ {Chosen(s)}]
          BY <4>2
        <5> HIDE DEF h, k
        <5> QED BY <5>1, <5>2, <2>5, <4>2
      <4> QED BY <4>1, <4>2
    <3> QED BY <3>1
  <2> HIDE DEF h
  <2>7. IsSumUpTo(h, f, S, n + 1)
    BY <2>6 DEF IsSumUpTo
  <2> QED BY <2>7
<1>4. \A n \in Nat : n \in G
  <2> HIDE DEF G
  <2> QED BY <1>2, <1>3, NatInduct
<1>5. Cardinality(S) \in G
  BY <1>1, <1>4
<1>6. UpTo(S, Cardinality(S)) = SUBSET S
  BY FS_Subset DEF UpTo
<1> QED BY <1>5, <1>6 DEF IsSumUpTo, IsSumOf

(* The equation of the recursion, of the function CHOOSE gives.            *)
LEMMA SumStep ==
  ASSUME NEW f, NEW S, IsFiniteSet(S), NEW s \in SUBSET S
  PROVE  TheSum(f, S)[s] = IF s = {} THEN 0
                           ELSE f[Chosen(s)] + TheSum(f, S)[s \ {Chosen(s)}]
<1> DEFINE g == TheSum(f, S)
<1>1. IsSumOf(g, f, S)
  BY SumExists DEF TheSum
<1> HIDE DEF g
<1> QED BY <1>1 DEF IsSumOf, g

(* Nothing sums to zero.                                                   *)
LEMMA SumEmpty == \A f : SumFunctionOnSet(f, {}) = 0
<1> TAKE f
<1>1. TheSum(f, {})[{}] = 0
  BY SumStep, FS_EmptySet
<1> QED BY <1>1, SumIsTheSum

(* What a set sums to does not depend on the set the recursion runs over.  *)
LEMMA SumOfPart ==
  ASSUME NEW f, NEW S, IsFiniteSet(S), NEW T \in SUBSET S
  PROVE  SumFunctionOnSet(f, T) = TheSum(f, S)[T]
<1>1. IsFiniteSet(T)
  BY FS_Subset
<1> DEFINE G == {U \in SUBSET T : TheSum(f, T)[U] = TheSum(f, S)[U]}
<1>2. ASSUME NEW U \in SUBSET T, \A V \in SUBSET U : V # U => V \in G
      PROVE  U \in G
  <2>1. /\ TheSum(f, T)[U] = IF U = {} THEN 0
                             ELSE f[Chosen(U)] + TheSum(f, T)[U \ {Chosen(U)}]
        /\ TheSum(f, S)[U] = IF U = {} THEN 0
                             ELSE f[Chosen(U)] + TheSum(f, S)[U \ {Chosen(U)}]
    <3>1. U \in SUBSET S
      OBVIOUS
    <3>2. TheSum(f, T)[U] = IF U = {} THEN 0
                            ELSE f[Chosen(U)] + TheSum(f, T)[U \ {Chosen(U)}]
      BY <1>1, SumStep
    <3>3. TheSum(f, S)[U] = IF U = {} THEN 0
                            ELSE f[Chosen(U)] + TheSum(f, S)[U \ {Chosen(U)}]
      BY <3>1, SumStep
    <3> QED BY <3>2, <3>3
  <2>2. CASE U = {}
    BY <2>1, <2>2
  <2>3. CASE U # {}
    <3>1. U \ {Chosen(U)} \in SUBSET U /\ U \ {Chosen(U)} # U
      BY <2>3, ChosenIsIn
    <3>2. U \ {Chosen(U)} \in G
      BY <1>2, <3>1
    <3> QED BY <2>1, <2>3, <3>2
  <2> QED BY <2>2, <2>3
<1>3. \A U \in SUBSET T : U \in G
  <2> HIDE DEF G
  <2> QED BY <1>1, <1>2, SubsetInduct
<1> QED BY <1>3, SumIsTheSum

(* The equation again, of the library's own sum.                           *)
LEMMA SumChosen ==
  ASSUME NEW f, NEW S, IsFiniteSet(S), S # {}
  PROVE  SumFunctionOnSet(f, S) = f[Chosen(S)] + SumFunctionOnSet(f, S \ {Chosen(S)})
<1>1. S \in SUBSET S /\ S \ {Chosen(S)} \in SUBSET S
  OBVIOUS
<1>2. TheSum(f, S)[S] = f[Chosen(S)] + TheSum(f, S)[S \ {Chosen(S)}]
  BY <1>1, SumStep
<1>3. /\ SumFunctionOnSet(f, S) = TheSum(f, S)[S]
      /\ SumFunctionOnSet(f, S \ {Chosen(S)}) = TheSum(f, S)[S \ {Chosen(S)}]
  BY <1>1, SumOfPart
<1> QED BY <1>2, <1>3

-----------------------------------------------------------------------------
(* What the sums are used for.                                             *)

(* Integers sum to an integer.                                             *)
LEMMA SumType ==
  ASSUME NEW f, NEW S, IsFiniteSet(S), \A x \in S : f[x] \in Int
  PROVE  SumFunctionOnSet(f, S) \in Int
<1> DEFINE G == {T \in SUBSET S : SumFunctionOnSet(f, T) \in Int}
<1>1. ASSUME NEW T \in SUBSET S, \A U \in SUBSET T : U # T => U \in G
      PROVE  T \in G
  <2>1. CASE T = {}
    BY <2>1, SumEmpty
  <2>2. CASE T # {}
    <3>1. IsFiniteSet(T)
      BY FS_Subset
    <3>2. Chosen(T) \in T
      BY <2>2, ChosenIsIn
    <3>3. T \ {Chosen(T)} \in G
      BY <1>1, <3>2
    <3>4. SumFunctionOnSet(f, T) = f[Chosen(T)] + SumFunctionOnSet(f, T \ {Chosen(T)})
      BY <2>2, <3>1, SumChosen
    <3>5. f[Chosen(T)] \in Int
      BY <3>2
    <3> QED BY <3>3, <3>4, <3>5
  <2> QED BY <2>1, <2>2
<1>2. \A T \in SUBSET S : T \in G
  <2> HIDE DEF G
  <2> QED BY <1>1, SubsetInduct
<1> QED BY <1>2

(* Naturals sum to a natural.                                              *)
LEMMA SumNat ==
  ASSUME NEW f, NEW S, IsFiniteSet(S), \A x \in S : f[x] \in Nat
  PROVE  SumFunctionOnSet(f, S) \in Nat
<1> DEFINE G == {T \in SUBSET S : SumFunctionOnSet(f, T) \in Nat}
<1>1. ASSUME NEW T \in SUBSET S, \A U \in SUBSET T : U # T => U \in G
      PROVE  T \in G
  <2>1. CASE T = {}
    BY <2>1, SumEmpty
  <2>2. CASE T # {}
    <3>1. IsFiniteSet(T)
      BY FS_Subset
    <3>2. Chosen(T) \in T
      BY <2>2, ChosenIsIn
    <3>3. T \ {Chosen(T)} \in G
      BY <1>1, <3>2
    <3>4. SumFunctionOnSet(f, T) = f[Chosen(T)] + SumFunctionOnSet(f, T \ {Chosen(T)})
      BY <2>2, <3>1, SumChosen
    <3>5. f[Chosen(T)] \in Nat
      BY <3>2
    <3> QED BY <3>3, <3>4, <3>5
  <2> QED BY <2>1, <2>2
<1>2. \A T \in SUBSET S : T \in G
  <2> HIDE DEF G
  <2> QED BY <1>1, SubsetInduct
<1> QED BY <1>2

(* Equal amounts have equal sums.                                          *)
LEMMA SumSame ==
  ASSUME NEW f, NEW g, NEW S, IsFiniteSet(S), \A x \in S : f[x] = g[x]
  PROVE  SumFunctionOnSet(f, S) = SumFunctionOnSet(g, S)
<1> DEFINE G == {T \in SUBSET S : SumFunctionOnSet(f, T) = SumFunctionOnSet(g, T)}
<1>1. ASSUME NEW T \in SUBSET S, \A U \in SUBSET T : U # T => U \in G
      PROVE  T \in G
  <2>1. CASE T = {}
    BY <2>1, SumEmpty
  <2>2. CASE T # {}
    <3>1. IsFiniteSet(T)
      BY FS_Subset
    <3>2. Chosen(T) \in T
      BY <2>2, ChosenIsIn
    <3>3. T \ {Chosen(T)} \in G
      BY <1>1, <3>2
    <3>4. /\ SumFunctionOnSet(f, T) = f[Chosen(T)] + SumFunctionOnSet(f, T \ {Chosen(T)})
          /\ SumFunctionOnSet(g, T) = g[Chosen(T)] + SumFunctionOnSet(g, T \ {Chosen(T)})
      BY <2>2, <3>1, SumChosen
    <3>5. f[Chosen(T)] = g[Chosen(T)]
      BY <3>2
    <3> QED BY <3>3, <3>4, <3>5
  <2> QED BY <2>1, <2>2
<1>2. \A T \in SUBSET S : T \in G
  <2> HIDE DEF G
  <2> QED BY <1>1, SubsetInduct
<1> QED BY <1>2

(* Any element may be taken out first.                                     *)
LEMMA SumRemove ==
  ASSUME NEW f, NEW S, IsFiniteSet(S), \A x \in S : f[x] \in Int, NEW y \in S
  PROVE  SumFunctionOnSet(f, S) = f[y] + SumFunctionOnSet(f, S \ {y})
<1> DEFINE G == {T \in SUBSET S : \A z \in T :
                   SumFunctionOnSet(f, T) = f[z] + SumFunctionOnSet(f, T \ {z})}
<1>1. ASSUME NEW T \in SUBSET S, \A U \in SUBSET T : U # T => U \in G
      PROVE  T \in G
  <2> SUFFICES ASSUME NEW z \in T
               PROVE  SumFunctionOnSet(f, T) = f[z] + SumFunctionOnSet(f, T \ {z})
    OBVIOUS
  <2> DEFINE c == Chosen(T)
  <2>1. c \in T
    BY ChosenIsIn
  <2>2. IsFiniteSet(T)
    BY FS_Subset
  <2>3. SumFunctionOnSet(f, T) = f[c] + SumFunctionOnSet(f, T \ {c})
    BY <2>2, SumChosen
  <2> HIDE DEF c
  <2>4. CASE z = c
    BY <2>3, <2>4
  <2>5. CASE z # c
    <3> DEFINE Rest == T \ {c, z}
    <3>1. T \ {c} \in G /\ T \ {z} \in G
      <4>1. T \ {c} \in SUBSET T /\ T \ {c} # T /\ T \ {z} \in SUBSET T /\ T \ {z} # T
        BY <2>1
      <4> QED BY <1>1, <4>1
    <3>2. z \in T \ {c} /\ c \in T \ {z}
      BY <2>1, <2>5
    <3>3. (T \ {c}) \ {z} = Rest /\ (T \ {z}) \ {c} = Rest
      OBVIOUS
    <3>4. SumFunctionOnSet(f, T \ {c}) = f[z] + SumFunctionOnSet(f, Rest)
      BY <3>1, <3>2, <3>3
    <3>5. SumFunctionOnSet(f, T \ {z}) = f[c] + SumFunctionOnSet(f, Rest)
      BY <3>1, <3>2, <3>3
    <3>6. f[c] \in Int /\ f[z] \in Int
      BY <2>1
    <3>7. SumFunctionOnSet(f, Rest) \in Int
      <4>1. IsFiniteSet(Rest) /\ \A x \in Rest : f[x] \in Int
        BY <2>2, FS_Subset
      <4> QED BY <4>1, SumType
    <3> HIDE DEF Rest
    <3> QED BY <2>3, <3>4, <3>5, <3>6, <3>7
  <2> QED BY <2>4, <2>5
<1>2. \A T \in SUBSET S : T \in G
  <2> HIDE DEF G
  <2> QED BY <1>1, SubsetInduct
<1> QED BY <1>2

(* One value changes: the sum changes by as much.                          *)
LEMMA SumChange ==
  ASSUME NEW f, NEW g, NEW S, IsFiniteSet(S), NEW y \in S,
         \A x \in S : f[x] \in Int /\ g[x] \in Int,
         \A x \in S \ {y} : f[x] = g[x]
  PROVE  SumFunctionOnSet(g, S) = SumFunctionOnSet(f, S) - f[y] + g[y]
<1>1. SumFunctionOnSet(f, S) = f[y] + SumFunctionOnSet(f, S \ {y})
  BY SumRemove
<1>2. SumFunctionOnSet(g, S) = g[y] + SumFunctionOnSet(g, S \ {y})
  BY SumRemove
<1>3. IsFiniteSet(S \ {y})
  BY FS_RemoveElement
<1>4. SumFunctionOnSet(f, S \ {y}) = SumFunctionOnSet(g, S \ {y})
  BY <1>3, SumSame
<1>5. SumFunctionOnSet(f, S \ {y}) \in Int
  BY <1>3, SumType
<1>6. f[y] \in Int /\ g[y] \in Int
  OBVIOUS
<1> QED BY <1>1, <1>2, <1>4, <1>5, <1>6

(* No amount is more than the sum it is part of.                           *)
LEMMA SumCovers ==
  ASSUME NEW f, NEW S, IsFiniteSet(S), \A x \in S : f[x] \in Nat, NEW y \in S
  PROVE  f[y] <= SumFunctionOnSet(f, S)
<1>1. SumFunctionOnSet(f, S) = f[y] + SumFunctionOnSet(f, S \ {y})
  BY SumRemove
<1>2. IsFiniteSet(S \ {y})
  BY FS_RemoveElement
<1>3. SumFunctionOnSet(f, S \ {y}) \in Nat
  BY <1>2, SumNat
<1>4. f[y] \in Nat
  OBVIOUS
<1> QED BY <1>1, <1>3, <1>4

(* Zeros sum to zero.                                                      *)
LEMMA SumZero ==
  ASSUME NEW f, NEW S, IsFiniteSet(S), \A x \in S : f[x] = 0
  PROVE  SumFunctionOnSet(f, S) = 0
<1> DEFINE G == {T \in SUBSET S : SumFunctionOnSet(f, T) = 0}
<1>1. ASSUME NEW T \in SUBSET S, \A U \in SUBSET T : U # T => U \in G
      PROVE  T \in G
  <2>1. CASE T = {}
    BY <2>1, SumEmpty
  <2>2. CASE T # {}
    <3>1. IsFiniteSet(T)
      BY FS_Subset
    <3>2. Chosen(T) \in T
      BY <2>2, ChosenIsIn
    <3>3. T \ {Chosen(T)} \in G
      BY <1>1, <3>2
    <3>4. SumFunctionOnSet(f, T) = f[Chosen(T)] + SumFunctionOnSet(f, T \ {Chosen(T)})
      BY <2>2, <3>1, SumChosen
    <3> QED BY <3>2, <3>3, <3>4
  <2> QED BY <2>1, <2>2
<1>2. \A T \in SUBSET S : T \in G
  <2> HIDE DEF G
  <2> QED BY <1>1, SubsetInduct
<1> QED BY <1>2

(* Ones for the members of a set count it.                                 *)
LEMMA SumCounts ==
  ASSUME NEW f, NEW S, IsFiniteSet(S), NEW B \in SUBSET S,
         \A x \in S : f[x] = IF x \in B THEN 1 ELSE 0
  PROVE  SumFunctionOnSet(f, S) = Cardinality(B)
<1> DEFINE G == {T \in SUBSET S : SumFunctionOnSet(f, T) = Cardinality(T \cap B)}
<1>1. ASSUME NEW T \in SUBSET S, \A U \in SUBSET T : U # T => U \in G
      PROVE  T \in G
  <2>0. IsFiniteSet(T) /\ IsFiniteSet(T \cap B)
    BY FS_Subset
  <2>1. CASE T = {}
    <3>1. T \cap B = {}
      BY <2>1
    <3> QED BY <2>1, <3>1, SumEmpty, FS_EmptySet
  <2>2. CASE T # {}
    <3> DEFINE c == Chosen(T)
    <3>1. c \in T
      BY <2>2, ChosenIsIn
    <3>2. T \ {c} \in G
      BY <1>1, <3>1
    <3>3. SumFunctionOnSet(f, T) = f[c] + SumFunctionOnSet(f, T \ {c})
      BY <2>0, <2>2, SumChosen
    <3> HIDE DEF c
    <3>4. (T \ {c}) \cap B = (T \cap B) \ {c}
      OBVIOUS
    <3>5. /\ Cardinality(T \cap B) \in Nat
          /\ Cardinality((T \cap B) \ {c}) = IF c \in T \cap B THEN Cardinality(T \cap B) - 1
                                              ELSE Cardinality(T \cap B)
      BY <2>0, FS_CardinalityType, FS_RemoveElement
    <3>6. SumFunctionOnSet(f, T \ {c}) = Cardinality((T \cap B) \ {c})
      BY <3>2, <3>4
    <3>7. f[c] = IF c \in T \cap B THEN 1 ELSE 0
      BY <3>1
    <3>8. SumFunctionOnSet(f, T) = Cardinality(T \cap B)
      <4> HIDE DEF G
      <4> QED BY <3>3, <3>5, <3>6, <3>7
    <3> QED BY <3>8
  <2> QED BY <2>1, <2>2
<1>2. \A T \in SUBSET S : T \in G
  <2> HIDE DEF G
  <2> QED BY <1>1, SubsetInduct
<1>3. S \cap B = B
  OBVIOUS
<1> QED BY <1>2, <1>3

(* A set and one more.                                                     *)
LEMMA SumAdd ==
  ASSUME NEW f, NEW S, IsFiniteSet(S), NEW y, y \notin S,
         \A x \in S \cup {y} : f[x] \in Int
  PROVE  SumFunctionOnSet(f, S \cup {y}) = SumFunctionOnSet(f, S) + f[y]
<1>1. IsFiniteSet(S \cup {y})
  BY FS_AddElement
<1>2. (S \cup {y}) \ {y} = S
  OBVIOUS
<1>3. SumFunctionOnSet(f, S \cup {y}) = f[y] + SumFunctionOnSet(f, S)
  <2>1. y \in S \cup {y}
    OBVIOUS
  <2>2. SumFunctionOnSet(f, S \cup {y}) = f[y] + SumFunctionOnSet(f, (S \cup {y}) \ {y})
    BY <1>1, <2>1, SumRemove
  <2> QED BY <1>2, <2>2
<1>4. SumFunctionOnSet(f, S) \in Int /\ f[y] \in Int
  BY SumType
<1> QED BY <1>3, <1>4

(* Some of the amounts grow, each by its own.                              *)
LEMMA SumGrows ==
  ASSUME NEW f, NEW g, NEW p, NEW S, IsFiniteSet(S), NEW B \in SUBSET S,
         \A x \in S : f[x] \in Int /\ p[x] \in Int,
         \A x \in S : g[x] = IF x \in B THEN f[x] + p[x] ELSE f[x]
  PROVE  SumFunctionOnSet(g, S) = SumFunctionOnSet(f, S) + SumFunctionOnSet(p, B)
<1> DEFINE G == {T \in SUBSET S : SumFunctionOnSet(g, T)
                                    = SumFunctionOnSet(f, T) + SumFunctionOnSet(p, T \cap B)}
<1>1. ASSUME NEW T \in SUBSET S, \A U \in SUBSET T : U # T => U \in G
      PROVE  T \in G
  <2>1. IsFiniteSet(T) /\ IsFiniteSet(T \cap B)
    BY FS_Subset
  <2>2. CASE T = {}
    <3>1. T \cap B = {}
      BY <2>2
    <3> QED BY <2>2, <3>1, SumEmpty
  <2>3. CASE T # {}
    <3> DEFINE c == Chosen(T)
    <3>1. c \in T
      BY <2>3, ChosenIsIn
    <3>2. T \ {c} \in G
      BY <1>1, <3>1
    <3>3. /\ SumFunctionOnSet(f, T) = f[c] + SumFunctionOnSet(f, T \ {c})
          /\ SumFunctionOnSet(g, T) = g[c] + SumFunctionOnSet(g, T \ {c})
      BY <2>1, <2>3, SumChosen
    <3> HIDE DEF c
    <3>4. (T \ {c}) \cap B = (T \cap B) \ {c}
      OBVIOUS
    <3>5. SumFunctionOnSet(p, T \cap B)
            = SumFunctionOnSet(p, (T \cap B) \ {c}) + IF c \in B THEN p[c] ELSE 0
      <4>1. \A x \in T \cap B : p[x] \in Int
        OBVIOUS
      <4>2. CASE c \in B
        <5>1. c \in T \cap B
          BY <3>1, <4>2
        <5>2. SumFunctionOnSet(p, T \cap B) = p[c] + SumFunctionOnSet(p, (T \cap B) \ {c})
          BY <2>1, <4>1, <5>1, SumRemove
        <5>3. SumFunctionOnSet(p, (T \cap B) \ {c}) \in Int /\ p[c] \in Int
          BY <2>1, <3>1, <4>1, FS_RemoveElement, SumType
        <5> QED BY <4>2, <5>2, <5>3
      <4>3. CASE c \notin B
        <5>1. (T \cap B) \ {c} = T \cap B
          BY <4>3
        <5>2. SumFunctionOnSet(p, T \cap B) \in Int
          BY <2>1, <4>1, SumType
        <5>3. SumFunctionOnSet(p, (T \cap B) \ {c}) = SumFunctionOnSet(p, T \cap B)
          BY <5>1
        <5> HIDE DEF G
        <5> QED BY ONLY <4>3, <5>2, <5>3
      <4> QED BY <4>2, <4>3
    <3>6. /\ SumFunctionOnSet(f, T \ {c}) \in Int
          /\ SumFunctionOnSet(p, (T \cap B) \ {c}) \in Int
      <4>1. /\ IsFiniteSet(T \ {c}) /\ IsFiniteSet((T \cap B) \ {c})
            /\ \A x \in T \ {c} : f[x] \in Int
            /\ \A x \in (T \cap B) \ {c} : p[x] \in Int
        BY <2>1, FS_RemoveElement
      <4> QED BY <4>1, SumType
    <3>7. SumFunctionOnSet(g, T \ {c})
            = SumFunctionOnSet(f, T \ {c}) + SumFunctionOnSet(p, (T \cap B) \ {c})
      BY <3>2, <3>4
    <3>8. f[c] \in Int /\ p[c] \in Int /\ g[c] = IF c \in B THEN f[c] + p[c] ELSE f[c]
      BY <3>1
    <3>9. SumFunctionOnSet(g, T) = SumFunctionOnSet(f, T) + SumFunctionOnSet(p, T \cap B)
      <4> HIDE DEF G
      <4> QED BY <3>3, <3>5, <3>6, <3>7, <3>8
    <3> QED BY <3>9
  <2> QED BY <2>2, <2>3
<1>2. \A T \in SUBSET S : T \in G
  <2> HIDE DEF G
  <2> QED BY <1>1, SubsetInduct
<1>3. S \cap B = B
  OBVIOUS
<1> QED BY <1>2, <1>3

(* A whole function: the sum over its domain.                              *)
LEMMA SumWhole == \A f : SumFunction(f) = SumFunctionOnSet(f, DOMAIN f)
BY DEF SumFunction
=============================================================================
