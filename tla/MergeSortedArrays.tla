--------------------------- MODULE MergeSortedArrays ---------------------------
(***************************************************************************)
(* merge_sorted_arrays of coro-sort: num_arrays sorted arrays become the   *)
(* one array sort_res.  A step is one turn of the loop over i, which is    *)
(* Len(sort_res).                                                          *)
(*                                                                         *)
(* The next elements of the arrays that are not used up are compacted into *)
(* merging_set, and the index of its minimum is then used as the number of *)
(* an array (merge_sorted_arrays.c:41-43).  The two differ behind an array *)
(* that was used up before.                                                *)
(***************************************************************************)
EXTENDS Integers, Sequences, FiniteSets, Functions

CONSTANTS
  num_arrays,
  MaxSize,   \* BOUND: numbers in an array
  Values     \* the numbers

ASSUME NumArraysAssumption == num_arrays \in Nat
ASSUME MaxSizeAssumption == MaxSize \in Nat
ASSUME ValuesAssumption == Values \subseteq Int

VARIABLES
  arrays,
  indexes,      \* how many elements of each array were taken
  usage_mask,   \* the arrays the code believes to have elements left
  sort_res

vars == << arrays, indexes, usage_mask, sort_res >>

Arrays == 0..(num_arrays - 1)

IsSorted(s) == \A i, j \in 1..Len(s) : i < j => s[i] <= s[j]
SortedArrays == {s \in UNION {[1..n -> Values] : n \in 0..MaxSize} : IsSorted(s)}

Init ==
  /\ arrays \in [Arrays -> SortedArrays]
  /\ indexes = [j \in Arrays |-> 0]
  /\ usage_mask = [j \in Arrays |-> TRUE]
  /\ sort_res = << >>

total_size == SumFunction([j \in Arrays |-> Len(arrays[j])])

(* The test indexes[j] >= sizes[j].  The variant is off by one. *)
UsedUpEarly(j) == indexes[j] + 1 >= Len(arrays[j])
UsedUp(j)      == indexes[j] >= Len(arrays[j])

(* The arrays in merging_set and their elements there. *)
Used == {j \in Arrays : usage_mask[j] /\ ~UsedUp(j)}
Element(j) == arrays[j][indexes[j] + 1]

(* index_of_min: the first of the smallest elements.  The variant takes    *)
(* the last of the biggest.                                                *)
IsMax(j) == j \in Used /\ \A k \in Used : Element(k) <= Element(j)
IsMin(j) ==
  /\ j \in Used
  /\ \A k \in Used : Element(j) <= Element(k) /\ (k < j => Element(j) # Element(k))

(* Where the element of array j is in merging_set.  The variant counts     *)
(* from one.                                                               *)
PositionFromOne(j) == Cardinality({k \in Used : k <= j})
Position(j) == Cardinality({k \in Used : k < j})

(* The test i < total_size. *)
Remains == Len(sort_res) < total_size

Take ==
  /\ Remains
  /\ usage_mask' = [j \in Arrays |-> usage_mask[j] /\ ~UsedUp(j)]
  /\ \E j \in Arrays :
       /\ IsMin(j)
       /\ sort_res' = Append(sort_res, Element(j))
       /\ indexes' = [k \in Arrays |-> indexes[k] + IF k = Position(j) THEN 1 ELSE 0]
  /\ UNCHANGED arrays

Next == Take

Spec == Init /\ [][Next]_vars

-----------------------------------------------------------------------------
(* sort_res never decreases (the check of test/checker.py), although       *)
(* elements can be taken from the wrong array: whatever index is advanced, *)
(* what is left is not smaller than what was taken.                        *)
NeverDecreases == IsSorted(sort_res)

(* merging_set is never empty while there is something to output, so the   *)
(* minimum is never read from memory that was not written                  *)
(* (merge_sorted_arrays.c:40-42).                                          *)
AlwaysAnElement ==
  Remains => Used # {}

Count(s, n, v) == Cardinality({i \in DOMAIN s : i <= n /\ s[i] = v})
Taken(v) == SumFunction([j \in Arrays |-> Count(arrays[j], indexes[j], v)])

(* As long as the arrays that are used up are the last ones, sort_res is   *)
(* the merge of what was taken: the position in merging_set is then the    *)
(* number of the array.                                                    *)
GoodUntilAGap ==
  (\A j, k \in Arrays : UsedUp(j) /\ j < k => UsedUp(k)) =>
    \A v \in Values : Count(sort_res, Len(sort_res), v) = Taken(v)

(* "spawning coroutine to merge sorted arrays" (main.c:82): at the end     *)
(* sort_res has the numbers of all arrays, each as often as they have it.  *)
MergesAll ==
  Len(sort_res) = total_size =>
    \A v \in Values :
      Count(sort_res, total_size, v) =
        SumFunction([j \in Arrays |-> Count(arrays[j], Len(arrays[j]), v)])
=============================================================================
