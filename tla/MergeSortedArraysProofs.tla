------------------------ MODULE MergeSortedArraysProofs ------------------------
(***************************************************************************)
(* Invariants of MergeSortedArrays for any number of arrays, of any size.  *)
(***************************************************************************)
EXTENDS MergeSortedArrays, FiniteSetTheorems, WellFoundedInduction, TLAPS

(***************************************************************************)
(* Induction, as the existence of least elements.                          *)
(***************************************************************************)
LEMMA LeastNumber ==
  ASSUME NEW T, T \subseteq Nat, T # {}
  PROVE  \E x \in T : \A y \in T : x <= y
<1>1. IsWellFoundedOn(OpToRel(<, Nat), Nat)
  BY NatLessThanWellFounded
<1>2. \E x \in T : \A y \in T : << y, x >> \notin OpToRel(<, Nat)
  BY <1>1, WFMin
<1>3. PICK x \in T : \A y \in T : << y, x >> \notin OpToRel(<, Nat)
  BY <1>2
<1>4. \A y \in T : ~(y < x)
  BY <1>3 DEF OpToRel
<1> QED BY <1>4

(* Of some subsets of a finite set, one has no element too many. *)
LEMMA LeastSubset ==
  ASSUME NEW S, IsFiniteSet(S), NEW T, T \subseteq SUBSET S, T # {}
  PROVE  \E s \in T : \A x \in s : s \ {x} \notin T
<1> DEFINE N == {Cardinality(s) : s \in T}
<1>1. \A s \in T : IsFiniteSet(s) /\ Cardinality(s) \in Nat
  BY FS_Subset, FS_CardinalityType
<1>2. PICK n \in N : \A m \in N : n <= m
  <2>1. N \subseteq Nat /\ N # {}
    BY <1>1
  <2> HIDE DEF N
  <2> QED BY <2>1, LeastNumber
<1>3. PICK s \in T : Cardinality(s) = n
  BY <1>2
<1>4. ASSUME NEW x \in s, s \ {x} \in T PROVE FALSE
  <2>1. Cardinality(s \ {x}) = Cardinality(s) - 1
    BY <1>1, <1>3, FS_RemoveElement
  <2>2. n <= Cardinality(s \ {x})
    BY <1>2, <1>4
  <2> QED BY <1>1, <1>3, <2>1, <2>2
<1> QED BY <1>3, <1>4

-----------------------------------------------------------------------------
(***************************************************************************)
(* Sums of functions over finite sets.                                     *)
(***************************************************************************)
First(s) == CHOOSE x \in s : TRUE

(* g is the function that SumFunctionOnSet(f, S) recurses with. *)
SumsOver(f, S, g) ==
  g = [s \in SUBSET S |-> IF s = {} THEN 0 ELSE f[First(s)] + g[s \ {First(s)}]]

LEMMA FirstIsIn == ASSUME NEW s, s # {} PROVE First(s) \in s
  BY DEF First

LEMMA SumsExist ==
  ASSUME NEW S, IsFiniteSet(S), NEW f
  PROVE  \E g : SumsOver(f, S, g)
<1> DEFINE Upto(n) == {s \in SUBSET S : Cardinality(s) <= n}
           Works(n, g) ==
             g = [s \in Upto(n) |-> IF s = {} THEN 0 ELSE f[First(s)] + g[s \ {First(s)}]]
           Bad == {n \in Nat : ~\E g : Works(n, g)}
<1>1. \A s \in SUBSET S : IsFiniteSet(s) /\ Cardinality(s) \in Nat /\ Cardinality(s) <= Cardinality(S)
  BY FS_Subset, FS_CardinalityType
<1>2. Cardinality(S) \in Nat /\ Upto(Cardinality(S)) = SUBSET S
  BY <1>1, FS_CardinalityType
<1>3. Bad = {}
  <2> SUFFICES ASSUME Bad # {} PROVE FALSE
    OBVIOUS
  <2>1. PICK n \in Bad : \A m \in Bad : n <= m
    <3>1. Bad \subseteq Nat
      OBVIOUS
    <3> HIDE DEF Bad
    <3> QED BY <3>1, LeastNumber
  <2>2. CASE n = 0
    <3> DEFINE g == [s \in Upto(0) |-> 0]
    <3>1. \A s \in Upto(0) : s = {}
      BY <1>1, FS_EmptySet
    <3>2. Works(0, g)
      BY <3>1
    <3> QED BY <2>1, <2>2, <3>2
  <2>3. CASE n # 0
    <3>1. n - 1 \in Nat /\ n - 1 \notin Bad /\ n \in Nat
      <4>1. n \in Nat
        OBVIOUS
      <4> HIDE DEF Bad
      <4> QED BY <2>1, <2>3, <4>1
    <3>2. PICK h : Works(n - 1, h)
      BY <3>1
    <3> DEFINE g == [s \in Upto(n) |-> IF s = {} THEN 0 ELSE f[First(s)] + h[s \ {First(s)}]]
    <3>3. ASSUME NEW s \in Upto(n), s # {} PROVE s \ {First(s)} \in Upto(n - 1)
      <4>1. Cardinality(s \ {First(s)}) = Cardinality(s) - 1
        BY <1>1, <3>3, FirstIsIn, FS_RemoveElement
      <4> QED BY <1>1, <3>1, <4>1
    <3>4. ASSUME NEW t \in Upto(n - 1) PROVE t \in Upto(n) /\ g[t] = h[t]
      <4>1. t \in Upto(n)
        BY <1>1, <3>1
      <4>2. h[t] = IF t = {} THEN 0 ELSE f[First(t)] + h[t \ {First(t)}]
        BY <3>2
      <4> QED BY <4>1, <4>2
    <3>5. ASSUME NEW s \in Upto(n), s # {} PROVE g[s \ {First(s)}] = h[s \ {First(s)}]
      BY <3>3, <3>4, <3>5
    <3>6. Works(n, g)
      BY <3>5
    <3> QED BY <2>1, <3>6
  <2> QED BY <2>2, <2>3
<1>4. PICK g : Works(Cardinality(S), g)
  BY <1>2, <1>3
<1> QED BY <1>2, <1>4 DEF SumsOver

LEMMA SumIs ==
  ASSUME NEW S, IsFiniteSet(S), NEW f
  PROVE  \E g : SumsOver(f, S, g) /\ SumFunctionOnSet(f, S) = g[S]
<1> DEFINE g == CHOOSE g : SumsOver(f, S, g)
<1>1. SumsOver(f, S, g)
  BY SumsExist
<1>2. SumFunctionOnSet(f, S) = g[S]
  BY DEF SumFunctionOnSet, FoldFunctionOnSet, MapThenFoldSet, SumsOver, First
<1> QED BY <1>1, <1>2

(* What is shown of each sum from the sum without its first element holds  *)
(* of the whole sum: here, how two sums relate.                            *)
Changed(f, x, d) == [f EXCEPT ![x] = @ + d]

LEMMA SumChange ==
  ASSUME NEW S, IsFiniteSet(S), NEW f \in [S -> Int], NEW x \in S, NEW d \in Int
  PROVE  /\ SumFunctionOnSet(f, S) \in Int
         /\ SumFunctionOnSet(Changed(f, x, d), S) = SumFunctionOnSet(f, S) + d
<1> DEFINE h == [f EXCEPT ![x] = @ + d]
<1>1. PICK F : SumsOver(f, S, F) /\ SumFunctionOnSet(f, S) = F[S]
  BY SumIs
<1>2. PICK H : SumsOver(h, S, H) /\ SumFunctionOnSet(h, S) = H[S]
  BY SumIs
<1> DEFINE Bad == {s \in SUBSET S : ~(F[s] \in Int /\ H[s] = F[s] + IF x \in s THEN d ELSE 0)}
<1>3. Bad = {}
  <2> SUFFICES ASSUME Bad # {} PROVE FALSE
    OBVIOUS
  <2>1. PICK s \in Bad : \A y \in s : s \ {y} \notin Bad
    <3>1. Bad \subseteq SUBSET S
      OBVIOUS
    <3> HIDE DEF Bad
    <3> QED BY <3>1, LeastSubset
  <2>2. CASE s = {}
    BY <1>1, <1>2, <2>2 DEF SumsOver
  <2>3. CASE s # {}
    <3>1. First(s) \in s /\ s \in SUBSET S
      BY <2>3, FirstIsIn
    <3> DEFINE y == First(s)
               t == s \ {y}
    <3>2. t \in SUBSET S /\ t \notin Bad
      BY <2>1, <3>1
    <3>3. F[s] = f[y] + F[t] /\ H[s] = h[y] + H[t]
      BY <1>1, <1>2, <2>3, <3>1 DEF SumsOver
    <3>4. F[t] \in Int /\ H[t] = F[t] + IF x \in t THEN d ELSE 0
      BY <3>2
    <3>5. f[y] \in Int /\ h[y] = f[y] + IF x = y THEN d ELSE 0
      BY <3>1
    <3>6. x \in s <=> (x \in t \/ x = y)
      BY <3>1
    <3>7. x = y => x \notin t
      OBVIOUS
    <3> HIDE DEF y, t
    <3>8. F[s] \in Int /\ H[s] = F[s] + IF x \in s THEN d ELSE 0
      BY <3>3, <3>4, <3>5, <3>6, <3>7
    <3> QED BY <3>8
  <2> QED BY <2>2, <2>3
<1>4. S \notin Bad
  BY <1>3
<1> QED BY <1>1, <1>2, <1>4 DEF Changed

LEMMA SumMonotone ==
  ASSUME NEW S, IsFiniteSet(S), NEW f \in [S -> Int], NEW h \in [S -> Int],
         \A x \in S : f[x] <= h[x]
  PROVE  /\ SumFunctionOnSet(f, S) \in Int /\ SumFunctionOnSet(h, S) \in Int
         /\ SumFunctionOnSet(f, S) <= SumFunctionOnSet(h, S)
<1>1. PICK F : SumsOver(f, S, F) /\ SumFunctionOnSet(f, S) = F[S]
  BY SumIs
<1>2. PICK H : SumsOver(h, S, H) /\ SumFunctionOnSet(h, S) = H[S]
  BY SumIs
<1> DEFINE Bad == {s \in SUBSET S : ~(F[s] \in Int /\ H[s] \in Int /\ F[s] <= H[s])}
<1>3. Bad = {}
  <2> SUFFICES ASSUME Bad # {} PROVE FALSE
    OBVIOUS
  <2>1. PICK s \in Bad : \A y \in s : s \ {y} \notin Bad
    <3>1. Bad \subseteq SUBSET S
      OBVIOUS
    <3> HIDE DEF Bad
    <3> QED BY <3>1, LeastSubset
  <2>2. CASE s = {}
    BY <1>1, <1>2, <2>2 DEF SumsOver
  <2>3. CASE s # {}
    <3>1. First(s) \in s /\ s \in SUBSET S
      BY <2>3, FirstIsIn
    <3> DEFINE y == First(s)
               t == s \ {y}
    <3>2. t \in SUBSET S /\ t \notin Bad
      BY <2>1, <3>1
    <3>3. F[s] = f[y] + F[t] /\ H[s] = h[y] + H[t]
      BY <1>1, <1>2, <2>3, <3>1 DEF SumsOver
    <3>4. F[t] \in Int /\ H[t] \in Int /\ F[t] <= H[t]
      BY <3>2
    <3>5. f[y] \in Int /\ h[y] \in Int /\ f[y] <= h[y]
      BY <3>1
    <3> HIDE DEF y, t
    <3>6. F[s] \in Int /\ H[s] \in Int /\ F[s] <= H[s]
      BY <3>3, <3>4, <3>5
    <3> QED BY <3>6
  <2> QED BY <2>2, <2>3
<1>4. S \notin Bad
  BY <1>3
<1> QED BY <1>1, <1>2, <1>4

LEMMA SumOfZeros ==
  ASSUME NEW S, IsFiniteSet(S)
  PROVE  SumFunctionOnSet([x \in S |-> 0], S) = 0
<1> DEFINE f == [x \in S |-> 0]
<1>1. PICK F : SumsOver(f, S, F) /\ SumFunctionOnSet(f, S) = F[S]
  BY SumIs
<1> DEFINE Bad == {s \in SUBSET S : F[s] # 0}
<1>2. Bad = {}
  <2> SUFFICES ASSUME Bad # {} PROVE FALSE
    OBVIOUS
  <2>1. PICK s \in Bad : \A y \in s : s \ {y} \notin Bad
    <3>1. Bad \subseteq SUBSET S
      OBVIOUS
    <3> HIDE DEF Bad
    <3> QED BY <3>1, LeastSubset
  <2>2. CASE s = {}
    BY <1>1, <2>2 DEF SumsOver
  <2>3. CASE s # {}
    <3>1. First(s) \in s /\ s \in SUBSET S
      BY <2>3, FirstIsIn
    <3>2. F[s \ {First(s)}] = 0
      BY <2>1, <3>1
    <3>3. F[s] = f[First(s)] + F[s \ {First(s)}]
      BY <1>1, <2>3, <3>1 DEF SumsOver
    <3>4. f[First(s)] = 0
      BY <3>1
    <3> QED BY <3>2, <3>3, <3>4
  <2> QED BY <2>2, <2>3
<1> QED BY <1>1, <1>2

-----------------------------------------------------------------------------
(***************************************************************************)
(* The inductive invariant.  Whichever index is advanced, an element that  *)
(* is left is not smaller than what was taken, and the indexes add up to   *)
(* the number of elements taken.                                           *)
(***************************************************************************)
Types ==
  /\ arrays \in [Arrays -> SortedArrays]
  /\ indexes \in [Arrays -> Nat]
  /\ usage_mask \in [Arrays -> BOOLEAN]
  /\ sort_res \in Seq(Int)

MaskedAreUsedUp == \A j \in Arrays : ~usage_mask[j] => UsedUp(j)

LeftAreNotSmaller ==
  \A p \in 1..Len(sort_res), j \in Arrays :
    \A n \in 1..Len(arrays[j]) : n > indexes[j] => sort_res[p] <= arrays[j][n]

IndexesAddUp == Len(sort_res) = SumFunction(indexes)

IInv ==
  /\ Types
  /\ MaskedAreUsedUp
  /\ LeftAreNotSmaller
  /\ NeverDecreases
  /\ IndexesAddUp
  /\ GoodUntilAGap

LEMMA ArraysFinite == Arrays \subseteq Nat /\ IsFiniteSet(Arrays)
  BY NumArraysAssumption, FS_Interval DEF Arrays

LEMMA ArrayFacts ==
  ASSUME Types, NEW j \in Arrays
  PROVE  /\ arrays[j] \in Seq(Int) /\ Len(arrays[j]) \in Nat /\ DOMAIN arrays[j] = 1..Len(arrays[j])
         /\ IsSorted(arrays[j])
         /\ indexes[j] \in Nat
<1>1. PICK n \in 0..MaxSize : arrays[j] \in [1..n -> Values] /\ IsSorted(arrays[j])
  <2>1. arrays[j] \in SortedArrays
    BY DEF Types
  <2>2. arrays[j] \in UNION {[1..n -> Values] : n \in 0..MaxSize} /\ IsSorted(arrays[j])
    BY <2>1 DEF SortedArrays
  <2> QED BY <2>2
<1>2. n \in Nat
  BY MaxSizeAssumption
<1>3. arrays[j] \in Seq(Int)
  <2>1. arrays[j] \in [1..n -> Int]
    BY <1>1, ValuesAssumption
  <2> QED BY <1>2, <2>1
<1> QED BY <1>1, <1>3 DEF Types

(* Which arrays still have elements. *)
LEMMA UsedAreNotUsedUp ==
  ASSUME MaskedAreUsedUp
  PROVE  \A j \in Arrays : j \in Used <=> ~UsedUp(j)
  BY DEF Used, MaskedAreUsedUp

LEMMA NotUsedUp ==
  ASSUME Types, NEW j \in Arrays, ~UsedUp(j)
  PROVE  /\ indexes[j] + 1 \in 1..Len(arrays[j]) /\ Element(j) \in Int
         /\ Element(j) = arrays[j][indexes[j] + 1]
         /\ \A n \in 1..Len(arrays[j]) : n > indexes[j] => Element(j) <= arrays[j][n]
<1>1. /\ arrays[j] \in Seq(Int) /\ Len(arrays[j]) \in Nat /\ IsSorted(arrays[j])
      /\ indexes[j] \in Nat
  BY ArrayFacts
<1>2. indexes[j] + 1 \in 1..Len(arrays[j])
  BY <1>1 DEF UsedUp
<1>3. \A n \in 1..Len(arrays[j]) : arrays[j][n] \in Int
  BY <1>1
<1>4. \A n \in 1..Len(arrays[j]) : n > indexes[j] => n = indexes[j] + 1 \/ indexes[j] + 1 < n
  BY <1>1
<1>5. \A n \in 1..Len(arrays[j]) : n > indexes[j] => arrays[j][indexes[j] + 1] <= arrays[j][n]
  BY <1>1, <1>2, <1>3, <1>4 DEF IsSorted
<1> QED BY <1>2, <1>3, <1>5 DEF Element

(* The position in merging_set is the number of the array just when no     *)
(* array in front is used up.                                              *)
LEMMA PositionFacts ==
  ASSUME MaskedAreUsedUp, NEW j \in Arrays
  PROVE  /\ Position(j) \in Arrays /\ Position(j) <= j
         /\ (\A k \in Arrays : k < j => ~UsedUp(k)) => Position(j) = j
         /\ Position(j) = j => \A k \in Arrays : k < j => ~UsedUp(k)
<1> DEFINE Front == {k \in Used : k < j}
<1>1. /\ j \in Nat /\ j < num_arrays /\ num_arrays \in Nat
      /\ Arrays = 0..(num_arrays - 1) /\ Used \subseteq Arrays
  BY NumArraysAssumption DEF Arrays, Used
<1>2. IsFiniteSet(0..(j - 1)) /\ Cardinality(0..(j - 1)) = j
  <2>1. PICK b \in Int : b = j - 1 /\ b >= -1 /\ b + 1 = j
    BY <1>1
  <2>2. IsFiniteSet(0..b) /\ Cardinality(0..b) = IF 0 > b THEN 0 ELSE b - 0 + 1
    BY FS_Interval
  <2> QED BY <2>1, <2>2
<1>3. Front \in SUBSET (0..(j - 1))
  <2>1. ASSUME NEW k \in Front PROVE k \in 0..(j - 1)
    <3>1. k \in Arrays /\ k < j
      BY <1>1
    <3> QED BY <1>1, <3>1
  <2> QED BY <2>1
<1>4. /\ IsFiniteSet(Front) /\ Cardinality(Front) <= j
      /\ Cardinality(Front) = j => Front = 0..(j - 1)
  BY <1>2, <1>3, FS_Subset
<1>5. Cardinality(Front) \in Nat
  BY <1>4, FS_CardinalityType
<1>6. \A k \in 0..(j - 1) : k \in Arrays /\ (k \in Front <=> ~UsedUp(k))
  BY <1>1, UsedAreNotUsedUp
<1>7. \A k \in Arrays : k < j => k \in 0..(j - 1)
  BY <1>1
<1>8. (\A k \in Arrays : k < j => ~UsedUp(k)) => Front = 0..(j - 1)
  BY <1>1, <1>3, <1>6
<1>9. Front = 0..(j - 1) => \A k \in Arrays : k < j => ~UsedUp(k)
  BY <1>6, <1>7
<1>10. Position(j) = Cardinality(Front)
  BY DEF Position
<1> HIDE DEF Front
<1>11. Position(j) \in Arrays
  BY <1>1, <1>4, <1>5, <1>10
<1> QED BY <1>1, <1>2, <1>4, <1>5, <1>8, <1>9, <1>10, <1>11

-----------------------------------------------------------------------------
(***************************************************************************)
(* A step: the element that is taken, and the index that is advanced.      *)
(***************************************************************************)
Takes(j) ==
  /\ j \in Used /\ Position(j) \in Arrays
  /\ \A k \in Used : Element(j) <= Element(k)
  /\ sort_res' = Append(sort_res, Element(j))
  /\ indexes' = Changed(indexes, Position(j), 1)
  /\ usage_mask' = [k \in Arrays |-> usage_mask[k] /\ ~UsedUp(k)]
  /\ arrays' = arrays

LEMMA TakeTakes ==
  ASSUME IInv, Take
  PROVE  \E j \in Arrays : Takes(j)
<1>1. PICK j \in Arrays :
        /\ IsMin(j)
        /\ sort_res' = Append(sort_res, Element(j))
        /\ indexes' = [k \in Arrays |-> indexes[k] + IF k = Position(j) THEN 1 ELSE 0]
        /\ usage_mask' = [k \in Arrays |-> usage_mask[k] /\ ~UsedUp(k)]
        /\ arrays' = arrays
  BY DEF Take
<1>2. Position(j) \in Arrays
  BY PositionFacts DEF IInv
<1>3. indexes' = Changed(indexes, Position(j), 1)
  <2>1. indexes \in [Arrays -> Nat]
    BY DEF IInv, Types
  <2>2. PICK p \in Arrays : p = Position(j)
    BY <1>2
  <2>3. indexes' = [k \in Arrays |-> indexes[k] + IF k = p THEN 1 ELSE 0]
    BY <1>1, <2>2
  <2>4. indexes' = [indexes EXCEPT ![p] = @ + 1]
    <3>1. \A k \in Arrays : indexes[k] + (IF k = p THEN 1 ELSE 0) = IF k = p THEN indexes[p] + 1 ELSE indexes[k]
      BY <2>1
    <3>2. [indexes EXCEPT ![p] = @ + 1] = [k \in Arrays |-> IF k = p THEN indexes[p] + 1 ELSE indexes[k]]
      BY <2>1
    <3> QED BY <2>3, <3>1, <3>2
  <2> QED BY <2>2, <2>4 DEF Changed
<1>4. j \in Used /\ \A k \in Used : Element(j) <= Element(k)
  BY <1>1 DEF IsMin
<1>5. Takes(j)
  BY <1>1, <1>2, <1>3, <1>4 DEF Takes
<1> QED BY <1>5

LEMMA TakesFacts ==
  ASSUME IInv, NEW j \in Arrays, Takes(j)
  PROVE  /\ ~UsedUp(j) /\ Element(j) \in Int
         /\ \A k \in Arrays : indexes[k] \in Nat /\ indexes'[k] \in Nat /\ indexes[k] <= indexes'[k]
         /\ \A k \in Arrays : k # Position(j) => indexes'[k] = indexes[k]
         /\ indexes'[Position(j)] = indexes[Position(j)] + 1
         /\ \A k \in Arrays : UsedUp(k) => UsedUp(k)'
         /\ \A k \in Arrays : k # Position(j) => (UsedUp(k)' <=> UsedUp(k))
<1>1. /\ indexes \in [Arrays -> Nat] /\ Position(j) \in Arrays /\ arrays' = arrays
      /\ indexes' = [indexes EXCEPT ![Position(j)] = @ + 1]
  BY DEF IInv, Types, Takes, Changed
<1>2. \A k \in Arrays : indexes[k] \in Nat /\ indexes'[k] \in Nat /\ indexes[k] <= indexes'[k]
  BY <1>1
<1>3. ~UsedUp(j) /\ Element(j) \in Int
  BY UsedAreNotUsedUp, NotUsedUp DEF IInv, Takes
<1>4. \A k \in Arrays : Len(arrays[k]) \in Nat
  BY ArrayFacts DEF IInv
<1>5. \A k \in Arrays : UsedUp(k) => UsedUp(k)'
  BY <1>1, <1>2, <1>4 DEF UsedUp
<1> QED BY <1>1, <1>2, <1>3, <1>5 DEF UsedUp

LEMMA TakesTypes ==
  ASSUME IInv, NEW j \in Arrays, Takes(j)
  PROVE  Types' /\ MaskedAreUsedUp' /\ IndexesAddUp'
<1>1. Types'
  <2>1. Element(j) \in Int
    BY TakesFacts
  <2>2. indexes' \in [Arrays -> Nat]
    BY DEF IInv, Types, Takes, Changed
  <2>3. sort_res' \in Seq(Int)
    BY <2>1 DEF IInv, Types, Takes
  <2> QED BY <2>2, <2>3 DEF IInv, Types, Takes
<1>2. MaskedAreUsedUp'
  <2>1. ASSUME NEW k \in Arrays, ~usage_mask'[k] PROVE UsedUp(k)
    BY <2>1 DEF IInv, MaskedAreUsedUp, Takes
  <2> QED BY <2>1, TakesFacts DEF MaskedAreUsedUp
<1>3. IndexesAddUp'
  <2>1. indexes \in [Arrays -> Int] /\ indexes' \in [Arrays -> Int]
    BY <1>1 DEF IInv, Types
  <2>2. SumFunctionOnSet(indexes', Arrays) = SumFunctionOnSet(indexes, Arrays) + 1
    <3>1. PICK p \in Arrays : indexes' = Changed(indexes, p, 1)
      BY DEF Takes
    <3>2. 1 \in Int /\ IsFiniteSet(Arrays)
      BY ArraysFinite
    <3>3. SumFunctionOnSet(Changed(indexes, p, 1), Arrays) = SumFunctionOnSet(indexes, Arrays) + 1
      BY ONLY <2>1, <3>2, p \in Arrays, SumChange
    <3> QED BY <3>1, <3>3
  <2>3. Len(sort_res') = Len(sort_res) + 1
    BY DEF IInv, Types, Takes
  <2> QED BY <2>1, <2>2, <2>3 DEF IInv, IndexesAddUp, SumFunction
<1> QED BY <1>1, <1>2, <1>3

(* The element taken is not smaller than those taken before, and not       *)
(* greater than those that are left.                                       *)
LEMMA TakesInOrder ==
  ASSUME IInv, NEW j \in Arrays, Takes(j)
  PROVE  NeverDecreases' /\ LeftAreNotSmaller'
<1> DEFINE e == Element(j)
           L == Len(sort_res)
<1>1. /\ sort_res \in Seq(Int) /\ e \in Int /\ L \in Nat
      /\ sort_res' = Append(sort_res, e) /\ arrays' = arrays
  <2>1. e \in Int
    BY TakesFacts
  <2> HIDE DEF e
  <2>2. sort_res' = Append(sort_res, e)
    BY DEF Takes, e
  <2> QED BY <2>1, <2>2 DEF IInv, Types, Takes
<1>2. /\ Len(sort_res') = L + 1 /\ sort_res'[L + 1] = e
      /\ \A p \in 1..L : sort_res'[p] = sort_res[p] /\ sort_res[p] \in Int
  BY <1>1
<1>3. \A p \in 1..L : sort_res[p] <= e
  <2>1. ~UsedUp(j) /\ indexes[j] \in Nat
    BY TakesFacts
  <2>2. indexes[j] + 1 \in 1..Len(arrays[j]) /\ e = arrays[j][indexes[j] + 1]
    BY <2>1, NotUsedUp DEF IInv
  <2>3. indexes[j] + 1 > indexes[j]
    BY <2>1
  <2> QED BY <2>2, <2>3 DEF IInv, LeftAreNotSmaller
<1>4. \A k \in Arrays : \A n \in 1..Len(arrays[k]) : n > indexes[k] => e <= arrays[k][n]
  <2> SUFFICES ASSUME NEW k \in Arrays, NEW n \in 1..Len(arrays[k]), n > indexes[k]
               PROVE  e <= arrays[k][n]
    OBVIOUS
  <2>1. /\ arrays[k] \in Seq(Int) /\ Len(arrays[k]) \in Nat /\ indexes[k] \in Nat
    BY ArrayFacts DEF IInv
  <2>2. ~UsedUp(k)
    BY <2>1 DEF UsedUp
  <2>3. e <= Element(k)
    BY <2>2, UsedAreNotUsedUp DEF IInv, Takes
  <2>4. Element(k) <= arrays[k][n] /\ Element(k) \in Int
    BY <2>2, NotUsedUp DEF IInv
  <2>5. arrays[k][n] \in Int
    BY <2>1
  <2> HIDE DEF e
  <2> QED BY <1>1, <2>3, <2>4, <2>5
<1>5. \A k \in Arrays : indexes[k] \in Nat /\ indexes'[k] \in Nat /\ indexes[k] <= indexes'[k]
  BY TakesFacts
<1> HIDE DEF e
<1>6. NeverDecreases'
  <2>1. \A p \in 1..(L + 1) : p \in 1..L \/ p = L + 1
    BY <1>1
  <2>2. ASSUME NEW p \in 1..(L + 1), NEW q \in 1..(L + 1), p < q
        PROVE  sort_res'[p] <= sort_res'[q]
    <3>1. p \in 1..L
      BY <1>1, <2>2
    <3>2. CASE q = L + 1
      BY <1>2, <1>3, <3>1, <3>2
    <3>3. CASE q \in 1..L
      BY <1>2, <2>2, <3>1, <3>3 DEF IInv, NeverDecreases, IsSorted
    <3> QED BY <2>1, <3>2, <3>3
  <2> QED BY <1>2, <2>2 DEF NeverDecreases, IsSorted
<1>7. LeftAreNotSmaller'
  <2> SUFFICES ASSUME NEW p \in 1..(L + 1), NEW k \in Arrays, NEW n \in 1..Len(arrays[k]),
                      n > indexes'[k]
               PROVE  sort_res'[p] <= arrays[k][n]
    BY <1>1, <1>2 DEF LeftAreNotSmaller
  <2>1. n > indexes[k]
    <3>1. n \in Int
      OBVIOUS
    <3> QED BY <1>5, <3>1
  <2>2. p \in 1..L \/ p = L + 1
    BY <1>1
  <2> QED BY <1>2, <1>4, <2>1, <2>2 DEF IInv, LeftAreNotSmaller
<1> QED BY <1>6, <1>7

-----------------------------------------------------------------------------
(***************************************************************************)
(* What was output is what was taken, until there is a gap.                *)
(***************************************************************************)
NoGap == \A j, k \in Arrays : UsedUp(j) /\ j < k => UsedUp(k)

(* A gap stays: if the last element behind it was to be taken, it would    *)
(* have to be in front of it.                                              *)
LEMMA GapsStay ==
  ASSUME IInv, NEW j \in Arrays, Takes(j), ~NoGap
  PROVE  ~NoGap'
<1>1. PICK a \in Arrays, b \in Arrays : UsedUp(a) /\ a < b /\ ~UsedUp(b)
  BY DEF NoGap
<1>2. /\ UsedUp(a)' /\ ~UsedUp(j) /\ Arrays \subseteq Nat
      /\ \A k \in Arrays : k # Position(j) => (UsedUp(k)' <=> UsedUp(k))
  BY <1>1, TakesFacts, ArraysFinite
<1>3. CASE b # Position(j)
  BY <1>1, <1>2, <1>3 DEF NoGap
<1>4. CASE b = Position(j)
  <2>1. b <= j /\ (b = j => \A k \in Arrays : k < j => ~UsedUp(k))
    BY <1>4, PositionFacts DEF IInv
  <2>2. b # j
    BY <1>1, <2>1
  <2>3. a < j /\ j # Position(j)
    BY <1>1, <1>2, <1>4, <2>1, <2>2
  <2> QED BY <1>2, <2>3 DEF NoGap
<1> QED BY <1>3, <1>4

(* Counting up to the next element. *)
LEMMA CountNext ==
  ASSUME NEW s \in Seq(Int), NEW n \in Nat, NEW v
  PROVE  /\ Count(s, n, v) \in Nat
         /\ n + 1 \in DOMAIN s =>
              Count(s, n + 1, v) = Count(s, n, v) + IF s[n + 1] = v THEN 1 ELSE 0
<1> DEFINE A == {i \in DOMAIN s : i <= n /\ s[i] = v}
           B == {i \in DOMAIN s : i <= n + 1 /\ s[i] = v}
<1>1. DOMAIN s = 1..Len(s) /\ Len(s) \in Nat
  OBVIOUS
<1>2. IsFiniteSet(A) /\ Cardinality(A) \in Nat
  <2>1. IsFiniteSet(1..Len(s))
    BY <1>1, FS_Interval
  <2>2. A \in SUBSET (1..Len(s))
    BY <1>1
  <2> QED BY <2>1, <2>2, FS_Subset, FS_CardinalityType
<1>3. ASSUME n + 1 \in DOMAIN s
      PROVE  Cardinality(B) = Cardinality(A) + IF s[n + 1] = v THEN 1 ELSE 0
  <2>1. \A i \in DOMAIN s : i <= n + 1 <=> (i <= n \/ i = n + 1)
    BY <1>1
  <2>2. n + 1 \notin A
    BY <1>1
  <2>3. B = IF s[n + 1] = v THEN A \cup {n + 1} ELSE A
    BY <1>3, <2>1
  <2> HIDE DEF A, B
  <2>4. CASE s[n + 1] = v
    BY <1>2, <2>2, <2>3, <2>4, FS_AddElement
  <2>5. CASE s[n + 1] # v
    BY <1>2, <2>3, <2>5
  <2> QED BY <2>4, <2>5
<1> QED BY <1>2, <1>3 DEF Count

(* Counting in what was there. *)
LEMMA CountAppended ==
  ASSUME NEW s \in Seq(Int), NEW e \in Int, NEW v
  PROVE  Count(Append(s, e), Len(s), v) = Count(s, Len(s), v)
<1> DEFINE t == Append(s, e)
<1>1. /\ Len(s) \in Nat /\ DOMAIN s = 1..Len(s) /\ DOMAIN t = 1..(Len(s) + 1)
      /\ \A i \in 1..Len(s) : t[i] = s[i]
  OBVIOUS
<1> HIDE DEF t
<1>2. {i \in DOMAIN t : i <= Len(s) /\ t[i] = v} = {i \in DOMAIN s : i <= Len(s) /\ s[i] = v}
  BY <1>1
<1>3. Count(t, Len(s), v) = Count(s, Len(s), v)
  BY <1>2 DEF Count
<1> QED BY <1>3 DEF t

TakenOf(v) == [k \in Arrays |-> Count(arrays[k], indexes[k], v)]

LEMMA TakesGood ==
  ASSUME IInv, NEW j \in Arrays, Takes(j)
  PROVE  GoodUntilAGap'
<1> SUFFICES ASSUME NoGap', NEW v \in Values
             PROVE  (Count(sort_res, Len(sort_res), v) = Taken(v))'
  BY DEF GoodUntilAGap, NoGap
<1>1. NoGap
  BY GapsStay
<1>2. Count(sort_res, Len(sort_res), v) = SumFunctionOnSet(TakenOf(v), Arrays)
  BY <1>1 DEF IInv, GoodUntilAGap, NoGap, Taken, TakenOf, SumFunction
<1>3. Position(j) = j
  <2>1. ~UsedUp(j)
    BY TakesFacts
  <2>2. \A k \in Arrays : k < j => ~UsedUp(k)
    BY <1>1, <2>1 DEF NoGap
  <2> QED BY <2>2, PositionFacts DEF IInv
<1> DEFINE e == Element(j)
           d == IF e = v THEN 1 ELSE 0
<1>4. /\ e \in Int /\ arrays' = arrays /\ sort_res \in Seq(Int)
      /\ sort_res' = Append(sort_res, e)
  <2>1. e \in Int
    BY TakesFacts
  <2> QED BY <2>1 DEF IInv, Types, Takes
<1>5. \A k \in Arrays : /\ arrays[k] \in Seq(Int) /\ indexes[k] \in Nat
                        /\ Count(arrays[k], indexes[k], v) \in Nat
  BY ArrayFacts, CountNext DEF IInv
<1>6. Count(arrays[j], indexes[j] + 1, v) = Count(arrays[j], indexes[j], v) + d
  <2>1. indexes[j] + 1 \in DOMAIN arrays[j] /\ e = arrays[j][indexes[j] + 1]
    BY NotUsedUp, TakesFacts, ArrayFacts DEF IInv
  <2> QED BY <1>5, <2>1, CountNext
<1>7. /\ indexes'[j] = indexes[j] + 1
      /\ \A k \in Arrays : k # j => indexes'[k] = indexes[k]
  BY <1>3, TakesFacts
<1> HIDE DEF e
<1>8. TakenOf(v) \in [Arrays -> Int] /\ d \in Int
  BY <1>5 DEF TakenOf
<1>9. TakenOf(v)' = Changed(TakenOf(v), j, d)
  <2>1. \A k \in Arrays : Count(arrays[k], indexes'[k], v) =
          IF k = j THEN TakenOf(v)[j] + d ELSE TakenOf(v)[k]
    BY <1>6, <1>7 DEF TakenOf
  <2>2. Changed(TakenOf(v), j, d) =
          [k \in Arrays |-> IF k = j THEN TakenOf(v)[j] + d ELSE TakenOf(v)[k]]
    BY <1>8 DEF Changed
  <2>3. TakenOf(v)' = [k \in Arrays |-> Count(arrays[k], indexes'[k], v)]
    BY <1>4 DEF TakenOf
  <2> QED BY <2>1, <2>2, <2>3
<1>10. SumFunctionOnSet(Changed(TakenOf(v), j, d), Arrays) = SumFunctionOnSet(TakenOf(v), Arrays) + d
  <2> HIDE DEF d
  <2> QED BY <1>8, ArraysFinite, SumChange
<1>11. Count(sort_res', Len(sort_res'), v) = Count(sort_res, Len(sort_res), v) + d
  <2>1. PICK t \in Seq(Int) : t = sort_res' /\ t = Append(sort_res, e)
    BY <1>4
  <2>2. Len(sort_res) \in Nat /\ Len(t) = Len(sort_res) + 1 /\ t[Len(sort_res) + 1] = e
        /\ Len(sort_res) + 1 \in DOMAIN t
    BY <1>4, <2>1
  <2>3. Count(t, Len(sort_res) + 1, v) = Count(t, Len(sort_res), v) + d
    BY <2>2, CountNext
  <2>4. Count(t, Len(sort_res), v) = Count(sort_res, Len(sort_res), v)
    BY <1>4, <2>1, CountAppended
  <2> QED BY <2>1, <2>2, <2>3, <2>4
<1> QED BY <1>2, <1>9, <1>10, <1>11 DEF Taken, TakenOf, SumFunction

-----------------------------------------------------------------------------
LEMMA InitIInv == Init => IInv
<1> SUFFICES ASSUME Init PROVE IInv
  OBVIOUS
<1>1. Types /\ Len(sort_res) = 0 /\ sort_res \in Seq(Int)
  BY DEF Init, Types
<1>2. MaskedAreUsedUp
  BY DEF Init, MaskedAreUsedUp
<1>3. LeftAreNotSmaller /\ NeverDecreases
  BY <1>1 DEF LeftAreNotSmaller, NeverDecreases, IsSorted
<1>4. IndexesAddUp
  BY <1>1, ArraysFinite, SumOfZeros DEF Init, IndexesAddUp, SumFunction
<1>5. GoodUntilAGap
  <2>1. ASSUME NEW s \in Seq(Int), NEW v PROVE Count(s, 0, v) = 0
    <3>1. {i \in DOMAIN s : i <= 0 /\ s[i] = v} = {}
      OBVIOUS
    <3> QED BY <3>1, FS_EmptySet DEF Count
  <2>2. ASSUME NEW v PROVE TakenOf(v) = [k \in Arrays |-> 0]
    BY <1>1, <2>1, ArrayFacts DEF Init, TakenOf
  <2>3. ASSUME NEW v PROVE Taken(v) = 0
    BY <2>2, ArraysFinite, SumOfZeros DEF Taken, TakenOf, SumFunction
  <2> QED BY <1>1, <2>1, <2>3 DEF GoodUntilAGap
<1> QED BY <1>1, <1>2, <1>3, <1>4, <1>5 DEF IInv

LEMMA NextIInv == IInv /\ [Next]_vars => IInv'
<1> SUFFICES ASSUME IInv, [Next]_vars PROVE IInv'
  OBVIOUS
<1>1. CASE Next
  <2>1. PICK j \in Arrays : Takes(j)
    BY <1>1, TakeTakes DEF Next
  <2> QED BY <2>1, TakesTypes, TakesInOrder, TakesGood DEF IInv
<1>2. CASE UNCHANGED vars
  <2>1. Types' /\ MaskedAreUsedUp' /\ LeftAreNotSmaller' /\ NeverDecreases' /\ IndexesAddUp'
    BY <1>2 DEF vars, IInv, Types, MaskedAreUsedUp, UsedUp, LeftAreNotSmaller, NeverDecreases,
                IndexesAddUp
  <2>2. GoodUntilAGap'
    BY <1>2 DEF vars, IInv, GoodUntilAGap, UsedUp, Taken
  <2> QED BY <2>1, <2>2 DEF IInv
<1> QED BY <1>1, <1>2

LEMMA Invariance == Spec => []IInv
  BY InitIInv, NextIInv, PTL DEF Spec

(* The output of the merge never decreases, whichever indexes advance. *)
THEOREM OutputNeverDecreases == Spec => []NeverDecreases
<1>1. IInv => NeverDecreases
  BY DEF IInv
<1> QED BY <1>1, Invariance, PTL

(* The output is the merge of what was taken until an array is used up in  *)
(* front of one that is not.                                               *)
THEOREM MergesUntilAGap == Spec => []GoodUntilAGap
<1>1. IInv => GoodUntilAGap
  BY DEF IInv
<1> QED BY <1>1, Invariance, PTL

(* As long as the loop goes on there is an element to take: if every array *)
(* was used up, the indexes would add up to total_size.                    *)
THEOREM MinimumIsThere == Spec => []AlwaysAnElement
<1>1. IInv => AlwaysAnElement
  <2> SUFFICES ASSUME IInv, Used = {} PROVE ~Remains
    BY DEF AlwaysAnElement
  <2> DEFINE lengths == [j \in Arrays |-> Len(arrays[j])]
  <2>1. \A j \in Arrays : Len(arrays[j]) \in Nat /\ indexes[j] \in Nat /\ Len(arrays[j]) <= indexes[j]
    BY ArrayFacts, UsedAreNotUsedUp DEF IInv, UsedUp
  <2>2. lengths \in [Arrays -> Int] /\ indexes \in [Arrays -> Int] /\ \A j \in Arrays : lengths[j] <= indexes[j]
    BY <2>1 DEF IInv, Types
  <2>3. total_size = SumFunctionOnSet(lengths, Arrays)
    BY DEF total_size, SumFunction
  <2>4. Len(sort_res) = SumFunctionOnSet(indexes, Arrays)
    BY DEF IInv, IndexesAddUp, SumFunction, Types
  <2> HIDE DEF lengths
  <2>5. /\ SumFunctionOnSet(lengths, Arrays) \in Int /\ SumFunctionOnSet(indexes, Arrays) \in Int
        /\ SumFunctionOnSet(lengths, Arrays) <= SumFunctionOnSet(indexes, Arrays)
    BY <2>2, ArraysFinite, SumMonotone
  <2> QED BY <2>3, <2>4, <2>5 DEF Remains
<1> QED BY <1>1, Invariance, PTL
=============================================================================
