------------------------------- MODULE NumberLine -------------------------------
(***************************************************************************)
(* The loop of prepare_sort that turns the text of a file into the array   *)
(* of its numbers, which PrepareSort then sorts.  A text is a sequence of  *)
(* spaces and of numbers that are one character long each, the shortest    *)
(* they can be; two of them have a space between them.  strtol is          *)
(* external.                                                               *)
(*                                                                         *)
(* strtol converts nothing where no number follows, and the loop does not  *)
(* move on then: a text that ends with a space is never left.              *)
(***************************************************************************)
EXTENDS Integers, Sequences

CONSTANTS
  IntMax,     \* INT32_MAX; an unsigned number is at most twice that and one
  Numbers,    \* the numbers in the texts
  MaxLength,  \* BOUND: characters of a text with spaces anywhere; two more are
              \* within an unsigned number
  MaxNumbers  \* BOUND: numbers of a text with one space between them

ASSUME IntMaxAssumption == IntMax \in Nat \ {0}
ASSUME NumbersAssumption == Numbers \subseteq 0..IntMax
ASSUME MaxLengthAssumption == MaxLength \in 0..(2 * IntMax - 1)
ASSUME MaxNumbersAssumption == MaxNumbers \in 0..IntMax

Space == -1

AnySpaces ==
  {t \in UNION {[1..n -> Numbers \cup {Space}] : n \in 0..MaxLength} :
     \A k \in 1..(Len(t) - 1) : Space \in {t[k], t[k + 1]}}

(* The texts of test/generator.py. *)
OneSpace ==
  {[k \in 1..(2 * Len(s) - 1) |-> IF k % 2 = 0 THEN Space ELSE s[(k + 1) \div 2]] :
     s \in UNION {[1..n -> Numbers] : n \in 1..MaxNumbers}}

Texts == AnySpaces \cup OneSpace

VARIABLES
  text,
  number_line,   \* how many characters are behind the pointer of that name
  array          \* the numbers stored so far

lineVars == << text, number_line >>

LineInit ==
  /\ text \in Texts
  /\ number_line = 0
  /\ array = << >>

(* strtol from the pointer: the next number, and the pointer behind it.    *)
Ahead      == {k \in number_line + 1..Len(text) : text[k] # Space}
FirstAhead == CHOOSE k \in Ahead : \A m \in Ahead : k <= m
Value      == IF Ahead = {} THEN 0 ELSE text[FirstAhead]

(* The variant leaves new_ptr in front of the number. *)
InFront == IF Ahead = {} THEN number_line ELSE FirstAhead - 1
new_ptr == IF Ahead = {} THEN number_line ELSE FirstAhead

(* Unsigned arithmetic, and the conversion of strtol's long to int32_t.    *)
(* The variant is a type one bit smaller.                                  *)
Modulus     == 2 * (IntMax + 1)
Wrap(n)     == n % Modulus
Narrower(v) == v % ((IntMax + 1) \div 2)
Int32(v)    == IF Wrap(v) > IntMax THEN Wrap(v) - Modulus ELSE Wrap(v)

(* The loop ends at the text's final zero. *)
AtEnd == number_line = Len(text)

(* size is the file's, and one more for the final zero.  The variant       *)
(* forgets that a last number needs no space.                              *)
HalfOfFile   == Len(text) \div 2
max_arr_size == Wrap(Len(text) + 1 + 1) \div 2

Convert ==
  /\ ~AtEnd
  /\ Len(array) <= max_arr_size   \* BOUND: an array that overflows stays
  /\ array' = Append(array, Int32(Value))
  /\ number_line' = new_ptr
  /\ UNCHANGED text

-----------------------------------------------------------------------------
(* A text that does not end with a space, as test/generator.py writes      *)
(* them.                                                                   *)
EndsWithNumber == text # << >> => text[Len(text)] # Space

(* The array that is allocated before the numbers are known is big enough  *)
(* for them: a number needs a character and a space in front of the next   *)
(* one (sort.c:57, 62, 70).                                                *)
ArrayIsBigEnough ==
  EndsWithNumber => Len(array) <= max_arr_size

(* The numbers the text stands for. *)
NumbersOf(t) == SelectSeq(t, LAMBDA c : c # Space)
=============================================================================
