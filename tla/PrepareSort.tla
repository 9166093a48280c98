------------------------------- MODULE PrepareSort -------------------------------
(***************************************************************************)
(* prepare_sort of coro-sort: the numbers of a file are found by the loop  *)
(* of NumberLine and then sorted by sort and merge, a bottom-up merge      *)
(* sort, here an element at a time.  The text, the array and the buffer    *)
(* belong to one coroutine: the yields between the steps let nobody else   *)
(* touch them.                                                             *)
(*                                                                         *)
(* Indices are unsigned, and size comes from a signed number as wide.      *)
(***************************************************************************)
EXTENDS NumberLine, FiniteSets

VARIABLES
  i, j,      \* of the two loops of sort
  it1, it2,  \* how many elements merge took from its two runs
  buf

sortVars == << i, j, it1, it2, buf >>
vars == << lineVars, array, sortVars >>

size == Len(array)

Init ==
  /\ LineInit
  /\ i = 1 /\ j = 0
  /\ it1 = 0 /\ it2 = 0 /\ buf = << >>

(* The arguments of the call of merge: the runs are [left, mid) and        *)
(* [mid, right).                                                           *)
left == j
mid  == Wrap(j + i)
right == IF Wrap(j + 2 * i) <= size THEN Wrap(j + 2 * i) ELSE size

InMerge  == AtEnd /\ i < size /\ j < Wrap(size - i)
HasLeft  == left + it1 < mid
HasRight == mid + it2 < right

(* Which run gives the next element.  The variant takes the greater one. *)
LeftIsGreater == array[left + it1 + 1] > array[mid + it2 + 1]
LeftIsLess    == array[left + it1 + 1] < array[mid + it2 + 1]

TakeLeft ==
  /\ InMerge /\ HasLeft
  /\ HasRight => LeftIsLess
  /\ buf' = Append(buf, array[left + it1 + 1])
  /\ it1' = it1 + 1
  /\ UNCHANGED << lineVars, array, i, j, it2 >>

TakeRight ==
  /\ InMerge /\ HasRight
  /\ HasLeft => ~LeftIsLess
  /\ buf' = Append(buf, array[mid + it2 + 1])
  /\ it2' = it2 + 1
  /\ UNCHANGED << lineVars, array, i, j, it1 >>

(* The loop that copies buf back.  The variant leaves its last element out. *)
CopiedButLast(k) == k - left \in 1..(it1 + it2 - 1)
Copied(k)        == k - left \in 1..(it1 + it2)

CopyBack ==
  /\ InMerge /\ ~HasLeft /\ ~HasRight
  /\ array' = [k \in DOMAIN array |-> IF Copied(k) THEN buf[k - left] ELSE array[k]]
  /\ j' = Wrap(j + 2 * i)
  /\ it1' = 0 /\ it2' = 0 /\ buf' = << >>
  /\ UNCHANGED << lineVars, i >>

(* i *= 2.  The variant forgets to widen the runs. *)
SameWidth == i
Doubled   == Wrap(2 * i)

NextWidth ==
  /\ AtEnd /\ i < size /\ j >= Wrap(size - i)
  /\ i' = Doubled
  /\ j' = 0
  /\ UNCHANGED << lineVars, array, it1, it2, buf >>

FindNumber == Convert /\ UNCHANGED sortVars

Next == FindNumber \/ TakeLeft \/ TakeRight \/ CopyBack \/ NextWidth

Spec == Init /\ [][Next]_vars /\ WF_vars(Next)

-----------------------------------------------------------------------------
Ascends(from, to) == \A k \in from..to : k + 1 <= to => array[k] <= array[k + 1]

(* Between the turns of the outer loop the runs of length i are sorted,    *)
(* the last and shorter one included, and in front of j those of 2 * i     *)
(* (sort.c:45-49).                                                         *)
RunsAreSorted ==
  \A start \in 0..(size - 1) :
    /\ start % i = 0 => Ascends(start + 1, IF start + i < size THEN start + i ELSE size)
    /\ start < j /\ start % (2 * i) = 0 =>
         Ascends(start + 1, IF start + 2 * i < size THEN start + 2 * i ELSE size)

(* The array holds the numbers of the text, each as often as the text has  *)
(* it: none is lost or doubled by the way through the buffer, and no run   *)
(* reaches beyond the array (sort.c:15-38, 47, 68).                        *)
Count(s, v) == Cardinality({k \in DOMAIN s : s[k] = v})

KeepsNumbers ==
  /\ InMerge => mid <= right /\ right <= size
  /\ AtEnd => \A v \in Numbers : Count(array, v) = Count(text, v)

(* A text that ends with a number is read to its end, each number once,    *)
(* and sort ends with a sorted array, for every size that a signed index   *)
(* can have: neither doubling i nor the bounds of the runs wrap around.    *)
SortsTheNumbers ==
  EndsWithNumber =>
    <>(AtEnd /\ size = Len(NumbersOf(text)) /\ i >= size /\ Ascends(1, size))
=============================================================================
