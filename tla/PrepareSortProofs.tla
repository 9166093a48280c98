---------------------------- MODULE PrepareSortProofs ----------------------------
(***************************************************************************)
(* The sort of one file (PrepareSort), for numbers and indices of any      *)
(* width and any text whose size fits into an index: the array that is     *)
(* allocated before the numbers are known has room for them, sort sorts    *)
(* longer and longer runs, and no number is lost.                          *)
(***************************************************************************)
EXTENDS PrepareSort, FiniteSetTheorems, WellFoundedInduction, TLAPS

-----------------------------------------------------------------------------
(***************************************************************************)
(* Multiples.                                                              *)
(***************************************************************************)
LEMMA ProductGrows ==
  ASSUME NEW n \in Nat \ {0}, NEW p \in Int, NEW q \in Int, p < q
  PROVE  n * p + n <= n * q
<1>1. PICK d \in Nat : q = p + 1 + d
  <2>1. q - p - 1 \in Nat /\ q = p + 1 + (q - p - 1)
    OBVIOUS
  <2> QED BY <2>1
<1>2. n * q = n * p + n + n * d
  BY <1>1
<1>3. n * d >= 0
  OBVIOUS
<1> QED BY <1>2, <1>3

LEMMA ProductIsMultiple ==
  ASSUME NEW n \in Nat \ {0}, NEW q \in Nat
  PROVE  (n * q) % n = 0
<1>1. PICK a \in Nat : a = n * q
  OBVIOUS
<1>2. a \div n \in Nat /\ a % n \in 0..(n - 1)
  OBVIOUS
<1>3. PICK d \in Nat : d = a \div n
  BY <1>2
<1>4. PICK r \in 0..(n - 1) : r = a % n
  BY <1>2
<1>5. a - n * d = r
  BY <1>3, <1>4
<1>6. PICK p \in Nat : p = n * d
  OBVIOUS
<1>7. ~(d < q)
  BY <1>1, <1>5, <1>6, ProductGrows
<1>8. ~(q < d)
  BY <1>1, <1>5, <1>6, ProductGrows
<1>9. d = q
  BY <1>7, <1>8
<1> QED BY <1>1, <1>4, <1>5, <1>9

LEMMA MultipleIsProduct ==
  ASSUME NEW n \in Nat \ {0}, NEW a \in Nat, a % n = 0
  PROVE  \E q \in Nat : a = n * q
<1>1. a \div n \in Nat /\ a - n * (a \div n) = a % n
  OBVIOUS
<1>2. PICK p \in Nat : p = n * (a \div n)
  BY <1>1
<1>3. a = p
  BY <1>1, <1>2
<1> QED BY <1>1, <1>2, <1>3

LEMMA MultiplesApart ==
  ASSUME NEW n \in Nat \ {0}, NEW a \in Nat, NEW b \in Nat, a % n = 0, b % n = 0, a < b
  PROVE  a + n <= b
<1>1. PICK p \in Nat : a = n * p
  BY MultipleIsProduct
<1>2. PICK q \in Nat : b = n * q
  BY MultipleIsProduct
<1>3. ~(q < p)
  BY <1>1, <1>2, ProductGrows
<1>4. p # q
  BY <1>1, <1>2
<1> QED BY <1>1, <1>2, <1>3, <1>4, ProductGrows

LEMMA NextMultiple ==
  ASSUME NEW n \in Nat \ {0}, NEW a \in Nat, a % n = 0
  PROVE  (a + n) % n = 0
<1>1. PICK q \in Nat : a = n * q
  BY MultipleIsProduct
<1>2. PICK c \in Nat : c = a + n
  OBVIOUS
<1>3. c = n * (q + 1)
  BY <1>1, <1>2
<1>4. c % n = 0
  BY <1>3, ProductIsMultiple
<1> QED BY <1>2, <1>4

LEMMA MultipleOfHalf ==
  ASSUME NEW n \in Nat \ {0}, NEW a \in Nat, a % (2 * n) = 0
  PROVE  a % n = 0
<1>1. PICK q \in Nat : a = (2 * n) * q
  BY MultipleIsProduct
<1>2. a = n * (2 * q)
  BY <1>1
<1> QED BY <1>2, ProductIsMultiple

-----------------------------------------------------------------------------
(***************************************************************************)
(* How often s has v behind its first a elements, up to element b.         *)
(***************************************************************************)
Places(s, a, b, v)  == {k \in (a + 1)..b : s[k] = v}
CountIn(s, a, b, v) == Cardinality(Places(s, a, b, v))

LEMMA PlacesFinite ==
  ASSUME NEW s, NEW a \in Int, NEW b \in Int, NEW v
  PROVE  IsFiniteSet(Places(s, a, b, v)) /\ Cardinality(Places(s, a, b, v)) \in Nat
<1>1. IsFiniteSet((a + 1)..b)
  BY FS_Interval
<1>2. Places(s, a, b, v) \in SUBSET ((a + 1)..b)
  BY DEF Places
<1> QED BY <1>1, <1>2, FS_Subset, FS_CardinalityType

LEMMA CountIsNatural ==
  ASSUME NEW s, NEW a \in Int, NEW b \in Int, NEW v
  PROVE  CountIn(s, a, b, v) \in Nat /\ (b <= a => CountIn(s, a, b, v) = 0)
<1>1. CountIn(s, a, b, v) \in Nat
  BY PlacesFinite DEF CountIn
<1>2. ASSUME b <= a PROVE CountIn(s, a, b, v) = 0
  <2>1. Places(s, a, b, v) = {}
    BY <1>2 DEF Places
  <2> QED BY <2>1, FS_EmptySet DEF CountIn
<1> QED BY <1>1, <1>2

LEMMA CountSplit ==
  ASSUME NEW s, NEW a \in Int, NEW b \in Int, NEW c \in Int, NEW v, a <= b, b <= c
  PROVE  CountIn(s, a, c, v) = CountIn(s, a, b, v) + CountIn(s, b, c, v)
<1> DEFINE A == Places(s, a, b, v)
           B == Places(s, b, c, v)
<1>1. Places(s, a, c, v) = A \cup B /\ A \cap B = {}
  BY DEF Places
<1>2. /\ IsFiniteSet(A) /\ Cardinality(A) \in Nat
      /\ IsFiniteSet(B) /\ Cardinality(B) \in Nat
  BY PlacesFinite
<1> HIDE DEF A, B
<1>3. Cardinality(A \cup B) = Cardinality(A) + Cardinality(B) - Cardinality(A \cap B)
  BY <1>2, FS_Union
<1>4. Cardinality(A \cup B) = Cardinality(A) + Cardinality(B)
  BY <1>1, <1>2, <1>3, FS_EmptySet
<1> QED BY <1>1, <1>4 DEF CountIn, A, B

LEMMA CountOne ==
  ASSUME NEW s, NEW a \in Int, NEW v
  PROVE  CountIn(s, a, a + 1, v) = IF s[a + 1] = v THEN 1 ELSE 0
<1>1. Places(s, a, a + 1, v) = IF s[a + 1] = v THEN {a + 1} ELSE {}
  BY DEF Places
<1> QED BY <1>1, FS_Singleton, FS_EmptySet DEF CountIn

LEMMA CountNext ==
  ASSUME NEW s, NEW a \in Int, NEW b \in Int, NEW v, a <= b
  PROVE  CountIn(s, a, b + 1, v) = CountIn(s, a, b, v) + IF s[b + 1] = v THEN 1 ELSE 0
  BY CountSplit, CountOne

LEMMA CountSame ==
  ASSUME NEW s, NEW t, NEW a \in Int, NEW b \in Int, NEW v,
         \A k \in (a + 1)..b : s[k] = t[k]
  PROVE  CountIn(s, a, b, v) = CountIn(t, a, b, v)
<1>1. Places(s, a, b, v) = Places(t, a, b, v)
  BY DEF Places
<1> QED BY <1>1 DEF CountIn

(* s behind a is t, as far as b. *)
LEMMA CountMoved ==
  ASSUME NEW s, NEW t, NEW a \in Int, NEW n \in Nat, NEW v,
         \A k \in (a + 1)..(a + n) : s[k] = t[k - a]
  PROVE  CountIn(s, a, a + n, v) = CountIn(t, 0, n, v)
<1> DEFINE S == Places(s, a, a + n, v)
           T == Places(t, 0, n, v)
           f == [k \in S |-> k - a]
<1>1. IsFiniteSet(S)
  BY PlacesFinite
<1>2. f \in Bijection(S, T)
  <2>1. f \in [S -> T]
    BY DEF Places
  <2>2. \A k, m \in S : f[k] = f[m] => k = m
    BY DEF Places
  <2>3. \A m \in T : \E k \in S : f[k] = m
    <3> SUFFICES ASSUME NEW m \in T PROVE \E k \in S : f[k] = m
      OBVIOUS
    <3>1. m + a \in (a + 1)..(a + n) /\ (m + a) - a = m
      BY DEF Places
    <3>2. m + a \in S
      BY <3>1 DEF Places
    <3> QED BY <3>1, <3>2
  <2> QED BY <2>1, <2>2, <2>3 DEF Bijection, Injection, Surjection, IsInjective
<1> HIDE DEF S, T, f
<1>3. Cardinality(S) = Cardinality(T)
  BY <1>1, <1>2, FS_Bijection DEF ExistsBijection
<1> QED BY <1>3 DEF CountIn, S, T

-----------------------------------------------------------------------------
(***************************************************************************)
(* Texts, and numbers that fit.                                            *)
(***************************************************************************)
LEMMA Fits ==
  ASSUME NEW n \in 0..(2 * IntMax + 1)
  PROVE  Wrap(n) = n
<1>1. PICK m \in Nat \ {0} : m = Modulus
  BY IntMaxAssumption DEF Modulus
<1>2. n \in Nat /\ n < m
  BY <1>1, IntMaxAssumption DEF Modulus
<1>3. n % m = n
  <2>1. n \div m \in Nat /\ n % m \in 0..(m - 1) /\ n - m * (n \div m) = n % m
    BY <1>2
  <2>2. PICK q \in Nat : q = n \div m
    BY <2>1
  <2>3. PICK p \in Nat : p = m * q
    OBVIOUS
  <2>4. n - p = n % m
    BY <2>1, <2>2, <2>3
  <2>5. ~(0 < q)
    <3>1. m * 0 = 0
      OBVIOUS
    <3> QED BY <1>2, <2>1, <2>3, <2>4, <3>1, ProductGrows
  <2>6. p = 0
    BY <2>3, <2>5
  <2> QED BY <1>2, <2>4, <2>6
<1> QED BY <1>1, <1>3 DEF Wrap

LEMMA FitsInt32 ==
  ASSUME NEW v \in 0..IntMax
  PROVE  Int32(v) = v
<1>1. Wrap(v) = v
  BY Fits, IntMaxAssumption
<1> QED BY <1>1, IntMaxAssumption DEF Int32

(* Of two neighbours one is a space. *)
NumbersApart(t) ==
  \A k \in 1..(Len(t) - 1) : t[k] = Space \/ t[k + 1] = Space

LEMMA TextFacts ==
  ASSUME NEW t \in Texts
  PROVE  /\ t \in Seq(Numbers \cup {Space})
         /\ Len(t) \in 0..(2 * IntMax - 1)
         /\ NumbersApart(t)
<1>1. CASE t \in AnySpaces
  <2>1. PICK n \in 0..MaxLength : t \in [1..n -> Numbers \cup {Space}]
    BY <1>1 DEF AnySpaces
  <2>2. n \in Nat /\ n <= 2 * IntMax - 1
    BY MaxLengthAssumption, IntMaxAssumption
  <2>3. t \in Seq(Numbers \cup {Space}) /\ Len(t) = n
    BY <2>1, <2>2
  <2>4. \A k \in 1..(Len(t) - 1) : Space \in {t[k], t[k + 1]}
    BY <1>1 DEF AnySpaces
  <2> QED BY <2>2, <2>3, <2>4 DEF NumbersApart
<1>2. CASE t \in OneSpace
  <2>1. PICK n \in 1..MaxNumbers : \E s \in [1..n -> Numbers] :
          t = [k \in 1..(2 * Len(s) - 1) |->
                 IF k % 2 = 0 THEN Space ELSE s[(k + 1) \div 2]]
    BY <1>2 DEF OneSpace
  <2>2. PICK s \in [1..n -> Numbers] :
          t = [k \in 1..(2 * Len(s) - 1) |->
                 IF k % 2 = 0 THEN Space ELSE s[(k + 1) \div 2]]
    BY <2>1
  <2>3. n \in Nat /\ n >= 1 /\ n <= IntMax
    BY MaxNumbersAssumption, IntMaxAssumption
  <2>4. Len(s) = n
    BY <2>3
  <2>5. DOMAIN t = 1..(2 * n - 1) /\ 2 * n - 1 \in Nat
    BY <2>2, <2>3, <2>4
  <2>6. \A k \in 1..(2 * n - 1) : t[k] = IF k % 2 = 0 THEN Space ELSE s[(k + 1) \div 2]
    BY <2>2, <2>4
  <2>7. \A k \in 1..(2 * n - 1) : t[k] \in Numbers \cup {Space}
    <3> SUFFICES ASSUME NEW k \in 1..(2 * n - 1) PROVE t[k] \in Numbers \cup {Space}
      OBVIOUS
    <3>1. (k + 1) \div 2 \in 1..n
      BY <2>3
    <3>2. s[(k + 1) \div 2] \in Numbers
      BY <3>1
    <3> QED BY <2>6, <3>2
  <2>8. t \in Seq(Numbers \cup {Space}) /\ Len(t) = 2 * n - 1
    <3>1. t \in [1..(2 * n - 1) -> Numbers \cup {Space}]
      BY <2>2, <2>4, <2>7
    <3> QED BY <2>5, <3>1
  <2>9. NumbersApart(t)
    <3> SUFFICES ASSUME NEW k \in 1..(2 * n - 2) PROVE t[k] = Space \/ t[k + 1] = Space
      BY <2>3, <2>8 DEF NumbersApart
    <3>1. k % 2 = 0 \/ (k + 1) % 2 = 0
      BY <2>3
    <3>2. k \in 1..(2 * n - 1) /\ k + 1 \in 1..(2 * n - 1)
      BY <2>3
    <3> QED BY <2>6, <3>1, <3>2
  <2> QED BY <2>3, <2>8, <2>9, IntMaxAssumption
<1> QED BY <1>1, <1>2 DEF Texts

-----------------------------------------------------------------------------
(***************************************************************************)
(* The inductive invariant.                                                *)
(***************************************************************************)
Types ==
  /\ text \in Texts /\ number_line \in 0..Len(text)
  /\ array \in Seq(0..IntMax) /\ buf \in Seq(0..IntMax)
  /\ i \in Nat \ {0} /\ j \in Nat /\ it1 \in Nat /\ it2 \in Nat

(* The numbers in front of number_line are those in the array, and there   *)
(* is a space between two of them.                                         *)
Found ==
  /\ 2 * Len(array) <= number_line + 1
  /\ number_line # 0 => text[number_line] # Space
  /\ \A v \in Numbers : CountIn(array, 0, size, v) = CountIn(text, 0, number_line, v)

Stuck == ~AtEnd /\ Ahead = {}

(* The inner loop stands in front of a run of double length. *)
Loops ==
  /\ j % (2 * i) = 0
  /\ ~AtEnd => i = 1 /\ j = 0

SortedIn(from, to) == \A p, q \in (from + 1)..to : p <= q => array[p] <= array[q]
RunEnd(n)          == IF n <= size THEN n ELSE size

Runs ==
  \A start \in 0..(size - 1) :
    /\ start % i = 0 => SortedIn(start, RunEnd(start + i))
    /\ start < j /\ start % (2 * i) = 0 => SortedIn(start, RunEnd(start + 2 * i))

(* merge has taken it1 and it2 elements of its runs, no greater than those *)
(* that are left, and they are what the buffer holds.                      *)
Ready    == AtEnd /\ i < size /\ j < size - i
LeftOver == ((j + it1 + 1)..(j + i)) \cup ((j + i + it2 + 1)..RunEnd(j + 2 * i))

Taken ==
  /\ it1 <= i /\ it2 <= RunEnd(j + 2 * i) - (j + i)
  /\ Len(buf) = it1 + it2
  /\ \A p, q \in 1..(it1 + it2) : p <= q => buf[p] <= buf[q]
  /\ \A p \in 1..(it1 + it2) : \A k \in LeftOver : buf[p] <= array[k]
  /\ \A v \in Numbers : CountIn(buf, 0, it1 + it2, v) =
                          CountIn(array, j, j + it1, v) + CountIn(array, j + i, j + i + it2, v)

Merges ==
  /\ Ready => Taken
  /\ ~Ready => it1 = 0 /\ it2 = 0 /\ buf = << >>

IInv == Types /\ (Stuck \/ Found) /\ Loops /\ Runs /\ Merges

LEMMA LineFacts ==
  ASSUME Types
  PROVE  /\ text \in Seq(Numbers \cup {Space}) /\ Len(text) \in 0..(2 * IntMax - 1)
         /\ NumbersApart(text)
         /\ IntMax \in Nat \ {0} /\ Numbers \subseteq 0..IntMax
         /\ number_line \in 0..Len(text) /\ number_line \in Nat
         /\ size \in Nat /\ DOMAIN array = 1..size
<1>1. text \in Seq(Numbers \cup {Space}) /\ Len(text) \in 0..(2 * IntMax - 1) /\ NumbersApart(text)
  BY TextFacts DEF Types
<1> QED BY <1>1, IntMaxAssumption, NumbersAssumption DEF Types, size

(* The size of the array is within a signed number, and so no index wraps. *)
LEMMA NoIndexWraps ==
  ASSUME IInv, AtEnd
  PROVE  /\ Found /\ size \in 0..IntMax
         /\ i < size => Wrap(size - i) = size - i /\ Wrap(2 * i) = 2 * i
         /\ InMerge <=> Ready
         /\ Ready => /\ mid = j + i /\ right = RunEnd(j + 2 * i) /\ Wrap(j + 2 * i) = j + 2 * i
                     /\ j + i < right /\ right <= size
<1>1. Found
  BY DEF IInv, Stuck
<1>2. size \in 0..IntMax
  BY <1>1, LineFacts DEF IInv, Found, AtEnd, size
<1>3. i \in Nat \ {0} /\ j \in Nat
  BY DEF IInv, Types
<1>4. ASSUME i < size PROVE Wrap(size - i) = size - i /\ Wrap(2 * i) = 2 * i
  <2>1. size - i \in 0..(2 * IntMax + 1) /\ 2 * i \in 0..(2 * IntMax + 1)
    BY <1>2, <1>3, <1>4, IntMaxAssumption
  <2> QED BY <2>1, Fits
<1>5. InMerge <=> Ready
  BY <1>4 DEF InMerge, Ready
<1>6. ASSUME Ready
      PROVE  /\ mid = j + i /\ right = RunEnd(j + 2 * i) /\ Wrap(j + 2 * i) = j + 2 * i
             /\ j + i < right /\ right <= size
  <2>1. j + i \in 0..(2 * IntMax + 1) /\ j + 2 * i \in 0..(2 * IntMax + 1)
    BY <1>2, <1>3, <1>6, IntMaxAssumption DEF Ready
  <2>2. mid = j + i /\ Wrap(j + 2 * i) = j + 2 * i
    BY <2>1, Fits DEF mid
  <2>3. right = RunEnd(j + 2 * i)
    BY <2>2 DEF right, RunEnd
  <2> QED BY <1>2, <1>3, <1>6, <2>2, <2>3 DEF RunEnd, Ready
<1> QED BY <1>1, <1>2, <1>4, <1>5, <1>6

-----------------------------------------------------------------------------
(***************************************************************************)
(* The text's numbers are found.                                           *)
(***************************************************************************)
NothingTaken == it1 = 0 /\ it2 = 0 /\ buf = << >>

LEMMA MergeStarts == Types /\ NothingTaken => Merges
<1> SUFFICES ASSUME Types, NothingTaken, Ready PROVE Taken
  BY DEF Merges, NothingTaken
<1>1. /\ i \in Nat \ {0} /\ j \in Nat /\ size \in Nat
      /\ it1 = 0 /\ it2 = 0 /\ Len(buf) = 0
  BY LineFacts DEF Types, NothingTaken
<1>2. j + i \in Int /\ j + i <= RunEnd(j + 2 * i)
  BY <1>1 DEF Ready, RunEnd
<1>3. \A v : CountIn(buf, 0, 0, v) = 0 /\ CountIn(array, j, j, v) = 0
               /\ CountIn(array, j + i, j + i, v) = 0
  BY <1>1, <1>2, CountIsNatural
<1>4. j + it1 = j /\ j + i + it2 = j + i /\ it1 + it2 = 0
  BY <1>1
<1>5. \A v \in Numbers : CountIn(buf, 0, it1 + it2, v) =
                          CountIn(array, j, j + it1, v) + CountIn(array, j + i, j + i + it2, v)
  BY <1>3, <1>4
<1>6. RunEnd(j + 2 * i) \in Int
  BY <1>1 DEF RunEnd
<1> QED BY <1>1, <1>2, <1>4, <1>5, <1>6 DEF Taken

LEMMA MergeStartsNext == Types' /\ NothingTaken' => Merges'
  BY MergeStarts, PTL

Unsorted == array \in Seq(0..IntMax) /\ i = 1 /\ j = 0

LEMMA ShortRuns == Unsorted => Runs
<1> SUFFICES ASSUME array \in Seq(0..IntMax), i = 1, j = 0, NEW start \in 0..(size - 1)
             PROVE  SortedIn(start, RunEnd(start + i))
  BY DEF Runs, Unsorted
<1>1. size \in Nat /\ size = Len(array) /\ DOMAIN array = 1..size
  BY DEF size
<1>2. RunEnd(start + i) = start + 1
  BY <1>1 DEF RunEnd
<1>3. array[start + 1] \in Int
  <2>1. \A k \in 1..Len(array) : array[k] \in 0..IntMax
    <3> DEFINE S == 0..IntMax
    <3>1. array \in Seq(S)
      OBVIOUS
    <3> HIDE DEF S
    <3>2. \A k \in 1..Len(array) : array[k] \in S
      BY <3>1
    <3> QED BY <3>2 DEF S
  <2>2. start + 1 \in 1..Len(array)
    BY <1>1
  <2> QED BY <2>1, <2>2, IntMaxAssumption
<1> QED BY <1>2, <1>3 DEF SortedIn

LEMMA ShortRunsNext == Unsorted' => Runs'
  BY ShortRuns, PTL

LEMMA InitIInv == Init => IInv
<1> SUFFICES ASSUME Init PROVE IInv
  OBVIOUS
<1>1. /\ text \in Texts /\ number_line = 0 /\ array = << >> /\ buf = << >>
      /\ i = 1 /\ j = 0 /\ it1 = 0 /\ it2 = 0
  BY DEF Init, LineInit
<1>2. Len(text) \in Nat
  <2>1. text \in Seq(Numbers \cup {Space})
    BY <1>1, TextFacts
  <2> QED BY <2>1
<1>3. Types
  BY <1>1, <1>2 DEF Types
<1>4. size = 0
  BY <1>1 DEF size
<1>5. Found
  <2>1. \A v : CountIn(array, 0, 0, v) = 0 /\ CountIn(text, 0, 0, v) = 0
    BY CountIsNatural
  <2> QED BY <1>1, <1>4, <2>1 DEF Found, size
<1>6. Loops
  <2>1. 0 % (2 * 1) = 0
    OBVIOUS
  <2> QED BY <1>1, <2>1 DEF Loops
<1>7. Runs
  BY <1>1, <1>3, ShortRuns DEF Types, Unsorted
<1>8. Merges
  BY <1>1, <1>3, MergeStarts DEF NothingTaken
<1> QED BY <1>3, <1>5, <1>6, <1>7, <1>8 DEF IInv

LEMMA FirstIsAhead ==
  ASSUME Types, Ahead # {}
  PROVE  /\ FirstAhead \in (number_line + 1)..Len(text)
         /\ text[FirstAhead] \in Numbers /\ text[FirstAhead] # Space
         /\ \A k \in (number_line + 1)..(FirstAhead - 1) : text[k] = Space
<1>0. text \in Seq(Numbers \cup {Space}) /\ Len(text) \in Nat /\ number_line \in 0..Len(text)
  BY LineFacts
<1>1. Ahead \subseteq Nat
  BY <1>0 DEF Ahead
<1>2. \E k \in Ahead : \A m \in Ahead : k <= m
  <2>1. PICK k \in Ahead : \A m \in Ahead : << m, k >> \notin OpToRel(<, Nat)
    BY <1>1, NatLessThanWellFounded, WFMin
  <2>2. \A m \in Ahead : ~(m < k)
    BY <1>1, <2>1 DEF OpToRel
  <2> QED BY <1>1, <2>2
<1>3. FirstAhead \in Ahead /\ \A m \in Ahead : FirstAhead <= m
  BY <1>2 DEF FirstAhead
<1>4. FirstAhead \in (number_line + 1)..Len(text) /\ text[FirstAhead] # Space
  BY <1>3 DEF Ahead
<1>5. text[FirstAhead] \in Numbers \cup {Space}
  <2>1. PICK k \in 1..Len(text) : k = FirstAhead
    BY <1>0, <1>4
  <2>2. text[k] \in Numbers \cup {Space}
    BY <1>0
  <2> QED BY <2>1, <2>2
<1>6. \A k \in (number_line + 1)..(FirstAhead - 1) : text[k] = Space
  <2> SUFFICES ASSUME NEW k \in (number_line + 1)..(FirstAhead - 1), text[k] # Space
               PROVE  FALSE
    OBVIOUS
  <2>1. k \in (number_line + 1)..Len(text)
    BY <1>0, <1>4
  <2>2. k \in Ahead
    BY <2>1 DEF Ahead
  <2> QED BY <1>0, <1>3, <1>4, <2>1, <2>2
<1> QED BY <1>4, <1>5, <1>6

LEMMA FindsNext ==
  ASSUME IInv, Convert, Ahead # {}
  PROVE  Found' /\ array' \in Seq(0..IntMax) /\ number_line' \in 0..Len(text)
<1>0. /\ text \in Seq(Numbers \cup {Space}) /\ Len(text) \in Nat /\ NumbersApart(text)
      /\ IntMax \in Nat \ {0} /\ Numbers \subseteq 0..IntMax
      /\ number_line \in 0..Len(text) /\ number_line \in Nat
      /\ size \in Nat /\ size = Len(array) /\ array \in Seq(0..IntMax)
  BY LineFacts DEF IInv, Types, size
<1>1. Found
  BY DEF IInv, Stuck
<1>2. PICK f \in (number_line + 1)..Len(text) :
        /\ f = FirstAhead /\ text[f] \in Numbers /\ text[f] # Space
        /\ \A k \in (number_line + 1)..(f - 1) : text[k] = Space
  BY FirstIsAhead DEF IInv
<1>3. PICK x \in Numbers : x = text[f]
  BY <1>2
<1>4. Int32(Value) = x
  BY <1>0, <1>2, <1>3, FitsInt32 DEF Value
<1>5. number_line' = f /\ array' = Append(array, x) /\ text' = text
  BY <1>2, <1>4 DEF Convert, new_ptr
<1>6. x \in 0..IntMax
  BY <1>0
<1>7. /\ array' \in Seq(0..IntMax) /\ Len(array') = size + 1 /\ array'[size + 1] = x
      /\ \A k \in 1..size : array'[k] = array[k]
  BY <1>0, <1>5, <1>6
<1>8. 2 * Len(array') <= number_line' + 1
  <2>1. CASE number_line = 0
    BY <1>0, <1>1, <1>2, <1>5, <1>7, <2>1 DEF Found
  <2>2. CASE number_line # 0
    <3>1. f # number_line + 1
      <4> SUFFICES ASSUME f = number_line + 1 PROVE FALSE
        OBVIOUS
      <4>1. number_line \in 1..(Len(text) - 1)
        BY <1>0, <1>2, <2>2
      <4>2. text[number_line] = Space \/ text[number_line + 1] = Space
        BY <1>0, <4>1 DEF NumbersApart
      <4> QED BY <1>1, <1>2, <2>2, <4>2 DEF Found
    <3> QED BY <1>0, <1>1, <1>2, <1>5, <1>7, <3>1 DEF Found
  <2> QED BY <2>1, <2>2
<1>9. ASSUME NEW v \in Numbers
      PROVE  CountIn(array', 0, Len(array'), v) = CountIn(text', 0, number_line', v)
  <2>1. CountIn(array', 0, size + 1, v) = CountIn(array', 0, size, v) + IF x = v THEN 1 ELSE 0
    <3>1. PICK n \in Nat : n = size
      BY <1>0
    <3>2. PICK s : s = array'
      OBVIOUS
    <3>3. CountIn(s, 0, n + 1, v) = CountIn(s, 0, n, v) + IF s[n + 1] = v THEN 1 ELSE 0
      BY CountNext
    <3> QED BY <1>7, <3>1, <3>2, <3>3
  <2>2. CountIn(array', 0, size, v) = CountIn(array, 0, size, v)
    <3>1. \A k \in (0 + 1)..size : array'[k] = array[k]
      BY <1>7
    <3> QED BY <1>0, <3>1, CountSame
  <2>3. CountIn(text, 0, f, v) = CountIn(text, 0, f - 1, v) + IF x = v THEN 1 ELSE 0
    <3>1. PICK g \in Nat : g + 1 = f /\ g = f - 1
      BY <1>0, <1>2
    <3>2. CountIn(text, 0, g + 1, v) = CountIn(text, 0, g, v) + IF text[g + 1] = v THEN 1 ELSE 0
      BY CountNext
    <3> QED BY <1>3, <3>1, <3>2
  <2>4. CountIn(text, 0, f - 1, v) = CountIn(text, 0, number_line, v)
    <3>1. v # Space
      BY <1>0 DEF Space
    <3>2. Places(text, 0, f - 1, v) = Places(text, 0, number_line, v)
      BY <1>0, <1>2, <3>1 DEF Places
    <3> QED BY <3>2 DEF CountIn
  <2>5. CountIn(array, 0, size, v) = CountIn(text, 0, number_line, v)
    BY <1>1 DEF Found
  <2> QED BY <1>5, <1>7, <2>1, <2>2, <2>3, <2>4, <2>5
<1>10. number_line' # 0 => text'[number_line'] # Space
  BY <1>2, <1>5
<1>11. number_line' \in 0..Len(text)
  BY <1>0, <1>2, <1>5
<1> QED BY <1>7, <1>8, <1>9, <1>10, <1>11 DEF Found, size

LEMMA FindNumberKeeps ==
  ASSUME IInv, FindNumber
  PROVE  IInv'
<1>0. /\ Convert /\ UNCHANGED sortVars /\ ~AtEnd
      /\ i = 1 /\ j = 0 /\ NothingTaken
  BY DEF FindNumber, Convert, IInv, Loops, Merges, Ready, NothingTaken
<1>1. text' = text /\ i' = i /\ j' = j /\ it1' = it1 /\ it2' = it2 /\ buf' = buf
  BY <1>0 DEF Convert, sortVars
<1>2. /\ Stuck' \/ Found'
      /\ array' \in Seq(0..IntMax) /\ number_line' \in 0..Len(text)
  <2>1. CASE Ahead = {}
    <3>1. number_line' = number_line /\ array' = Append(array, Int32(0))
      BY <1>0, <2>1 DEF Convert, new_ptr, Value
    <3>2. Stuck'
      BY <1>0, <1>1, <2>1, <3>1 DEF Stuck, Ahead, AtEnd
    <3>3. Int32(0) \in 0..IntMax
      BY FitsInt32, IntMaxAssumption
    <3> QED BY <3>1, <3>2, <3>3 DEF IInv, Types
  <2>2. CASE Ahead # {}
    BY <1>0, <2>2, FindsNext
  <2> QED BY <2>1, <2>2
<1>3. Types'
  BY <1>1, <1>2 DEF IInv, Types
<1>4. Loops'
  <2>1. j' % (2 * i') = 0
    BY <1>1 DEF IInv, Loops
  <2> QED BY <1>0, <1>1, <2>1 DEF Loops
<1>5. Runs'
  BY <1>0, <1>1, <1>2, ShortRunsNext DEF Unsorted
<1>6. Merges'
  <2>1. NothingTaken'
    BY <1>0, <1>1 DEF NothingTaken
  <2> QED BY <1>3, <2>1, MergeStartsNext
<1> QED BY <1>2, <1>3, <1>4, <1>5, <1>6 DEF IInv

-----------------------------------------------------------------------------
(***************************************************************************)
(* A merge takes one element after the other.                              *)
(***************************************************************************)
LEMMA Elements ==
  ASSUME NEW s \in Seq(0..IntMax), NEW k \in 1..Len(s)
  PROVE  s[k] \in 0..IntMax /\ s[k] \in Int
<1> DEFINE S == 0..IntMax
<1>1. S \subseteq Int /\ s \in Seq(S)
  OBVIOUS
<1> HIDE DEF S
<1>2. s[k] \in S
  BY <1>1
<1> QED BY <1>1, <1>2 DEF S

LEMMA RunsToMerge ==
  ASSUME IInv, Ready
  PROVE  /\ i \in Nat \ {0} /\ j \in Nat /\ size \in Nat /\ size = Len(array)
         /\ it1 \in Nat /\ it2 \in Nat /\ RunEnd(j + 2 * i) \in Nat
         /\ j + i < RunEnd(j + 2 * i) /\ RunEnd(j + 2 * i) <= size
         /\ SortedIn(j, j + i) /\ SortedIn(j + i, RunEnd(j + 2 * i))
<1>1. /\ i \in Nat \ {0} /\ j \in Nat /\ size \in Nat /\ size = Len(array)
      /\ it1 \in Nat /\ it2 \in Nat
  BY LineFacts DEF IInv, Types, size
<1>2. PICK m \in Nat : m = j + i
  BY <1>1
<1>3. j % i = 0 /\ m % i = 0
  <2>1. j % i = 0
    BY <1>1, MultipleOfHalf DEF IInv, Loops
  <2>2. (j + i) % i = 0
    BY <1>1, <2>1, NextMultiple
  <2> QED BY <1>2, <2>1, <2>2
<1>4. j \in 0..(size - 1) /\ m \in 0..(size - 1) /\ m < size
  BY <1>1, <1>2 DEF Ready
<1>5. SortedIn(j, RunEnd(j + i)) /\ SortedIn(m, RunEnd(m + i))
  BY <1>3, <1>4 DEF IInv, Runs
<1>6. RunEnd(j + i) = j + i
  BY <1>1, <1>2, <1>4 DEF RunEnd
<1>7. m + i = j + 2 * i
  BY <1>1, <1>2
<1>8. /\ RunEnd(j + 2 * i) \in Nat
      /\ j + i < RunEnd(j + 2 * i) /\ RunEnd(j + 2 * i) <= size
  BY <1>1, <1>2, <1>4 DEF RunEnd
<1> QED BY <1>1, <1>2, <1>5, <1>6, <1>7, <1>8

(* The element m is the least that is left. *)
Takes(m) ==
  /\ m \in LeftOver /\ \A k \in LeftOver : array[m] <= array[k]
  /\ buf' = Append(buf, array[m]) /\ it1' + it2' = it1 + it2 + 1
  /\ LeftOver' \subseteq LeftOver
  /\ UNCHANGED << lineVars, array, i, j >>

LEMMA TakesOne ==
  ASSUME IInv, Ready, NEW m, Takes(m)
  PROVE  /\ m \in 1..Len(array)
         /\ buf' \in Seq(0..IntMax) /\ Len(buf') = it1' + it2'
         /\ \A p, q \in 1..(it1' + it2') : p <= q => buf'[p] <= buf'[q]
         /\ \A p \in 1..(it1' + it2') : \A k \in LeftOver' : buf'[p] <= array'[k]
         /\ \A v \in Numbers :
              CountIn(buf', 0, it1' + it2', v) =
                CountIn(buf, 0, it1 + it2, v) + IF array[m] = v THEN 1 ELSE 0
<1>1. Taken
  BY DEF IInv, Merges
<1>2. LeftOver \subseteq 1..Len(array)
  <2>1. /\ i \in Nat \ {0} /\ j \in Nat /\ size = Len(array) /\ size \in Nat
        /\ it1 \in Nat /\ it2 \in Nat
    BY RunsToMerge
  <2>2. PICK r \in Nat : r = RunEnd(j + 2 * i) /\ j + i < r /\ r <= size
    BY RunsToMerge
  <2>3. LeftOver = ((j + it1 + 1)..(j + i)) \cup ((j + i + it2 + 1)..r)
    BY <2>2 DEF LeftOver
  <2> QED BY <2>1, <2>2, <2>3
<1>3. m \in 1..Len(array) /\ array \in Seq(0..IntMax) /\ buf \in Seq(0..IntMax)
  BY <1>2 DEF Takes, IInv, Types
<1>4. PICK x \in 0..IntMax : x = array[m] /\ x \in Int
  BY <1>3, Elements
<1>5. PICK n \in Nat : n = it1 + it2 /\ n = Len(buf)
  BY <1>1, RunsToMerge DEF Taken
<1>6. it1' + it2' = n + 1 /\ array' = array
  BY <1>5 DEF Takes
<1>7. PICK b : b = buf'
  OBVIOUS
<1>8. /\ b \in Seq(0..IntMax) /\ Len(b) = n + 1 /\ b[n + 1] = x
      /\ \A p \in 1..n : b[p] = buf[p]
  BY <1>3, <1>4, <1>5, <1>7 DEF Takes
<1>9. \A p \in 1..n : b[p] \in Int /\ \A k \in LeftOver : b[p] <= array[k]
  <2> SUFFICES ASSUME NEW p \in 1..n
               PROVE  b[p] \in Int /\ \A k \in LeftOver : b[p] <= array[k]
    OBVIOUS
  <2>1. buf[p] \in Int
    BY <1>3, <1>5, Elements
  <2>2. \A k \in LeftOver : buf[p] <= array[k]
    BY <1>1, <1>5 DEF Taken
  <2> QED BY <1>8, <2>1, <2>2
<1>10. \A p \in 1..n : b[p] <= x
  BY <1>4, <1>9 DEF Takes
<1>11. \A p, q \in 1..(n + 1) : p <= q => b[p] <= b[q]
  <2> SUFFICES ASSUME NEW p \in 1..(n + 1), NEW q \in 1..(n + 1), p <= q
               PROVE  b[p] <= b[q]
    OBVIOUS
  <2>1. CASE q = n + 1
    BY <1>4, <1>8, <1>10, <2>1
  <2>2. CASE q # n + 1
    <3>1. p \in 1..n /\ q \in 1..n
      BY <2>2
    <3>2. buf[p] <= buf[q]
      BY <1>1, <1>5, <3>1 DEF Taken
    <3> QED BY <1>8, <3>1, <3>2
  <2> QED BY <2>1, <2>2
<1>12. \A p \in 1..(n + 1) : \A k \in LeftOver : b[p] <= array[k]
  <2> SUFFICES ASSUME NEW p \in 1..(n + 1), NEW k \in LeftOver
               PROVE  b[p] <= array[k]
    OBVIOUS
  <2>1. CASE p = n + 1
    BY <1>4, <1>8, <2>1 DEF Takes
  <2>2. CASE p # n + 1
    BY <1>9, <2>2
  <2> QED BY <2>1, <2>2
<1>13. ASSUME NEW v \in Numbers
       PROVE  CountIn(b, 0, n + 1, v) = CountIn(buf, 0, n, v) + IF x = v THEN 1 ELSE 0
  <2>1. CountIn(b, 0, n + 1, v) = CountIn(b, 0, n, v) + IF b[n + 1] = v THEN 1 ELSE 0
    BY CountNext
  <2>2. CountIn(b, 0, n, v) = CountIn(buf, 0, n, v)
    <3>1. \A k \in (0 + 1)..n : b[k] = buf[k]
      BY <1>8
    <3> QED BY <3>1, CountSame
  <2> QED BY <1>8, <2>1, <2>2
<1>14. LeftOver' \subseteq LeftOver
  BY DEF Takes
<1> QED BY <1>3, <1>4, <1>5, <1>6, <1>7, <1>8, <1>11, <1>12, <1>13, <1>14

(* What is left when an element of one of the runs is taken. *)
LEMMA StaysReady ==
  ASSUME IInv, Ready, UNCHANGED << lineVars, array, i, j >>
  PROVE  /\ Ready' /\ RunEnd(j + 2 * i)' = RunEnd(j + 2 * i)
         /\ Found' /\ Loops' /\ Runs'
         /\ array' = array /\ i' = i /\ j' = j /\ text' = text /\ number_line' = number_line
<1>1. /\ array' = array /\ i' = i /\ j' = j /\ text' = text /\ number_line' = number_line
      /\ size' = size
  BY DEF lineVars, size
<1>2. Ready' /\ RunEnd(j + 2 * i)' = RunEnd(j + 2 * i)
  BY <1>1 DEF Ready, AtEnd, RunEnd
<1>3. Found'
  <2>1. Found
    BY NoIndexWraps DEF Ready
  <2> QED BY <1>1, <2>1 DEF Found
<1>4. Loops'
  BY <1>1 DEF IInv, Loops, AtEnd
<1>5. Runs'
  <2>1. Runs
    BY DEF IInv
  <2> QED BY <1>1, <2>1 DEF Runs, SortedIn, RunEnd
<1> QED BY <1>1, <1>2, <1>3, <1>4, <1>5

LEMMA TakenKeeps ==
  ASSUME IInv, Ready, NEW m, Takes(m), it1' \in Nat, it2' \in Nat,
         it1' <= i, it2' <= RunEnd(j + 2 * i) - (j + i),
         \A v \in Numbers :
           CountIn(array, j, j + it1', v) + CountIn(array, j + i, j + i + it2', v) =
             CountIn(array, j, j + it1, v) + CountIn(array, j + i, j + i + it2, v)
               + IF array[m] = v THEN 1 ELSE 0
  PROVE  IInv'
<1>1. /\ Ready' /\ RunEnd(j + 2 * i)' = RunEnd(j + 2 * i)
      /\ Found' /\ Loops' /\ Runs'
      /\ array' = array /\ i' = i /\ j' = j /\ text' = text /\ number_line' = number_line
  BY StaysReady DEF Takes
<1>2. /\ buf' \in Seq(0..IntMax) /\ Len(buf') = it1' + it2'
      /\ \A p, q \in 1..(it1' + it2') : p <= q => buf'[p] <= buf'[q]
      /\ \A p \in 1..(it1' + it2') : \A k \in LeftOver' : buf'[p] <= array'[k]
  BY TakesOne
<1>3. ASSUME NEW v \in Numbers
      PROVE  CountIn(buf', 0, it1' + it2', v) =
               CountIn(array, j, j + it1', v) + CountIn(array, j + i, j + i + it2', v)
  <2>1. CountIn(buf', 0, it1' + it2', v) =
          CountIn(buf, 0, it1 + it2, v) + IF array[m] = v THEN 1 ELSE 0
    BY TakesOne
  <2>2. CountIn(buf, 0, it1 + it2, v) =
          CountIn(array, j, j + it1, v) + CountIn(array, j + i, j + i + it2, v)
    BY DEF IInv, Merges, Taken
  <2> QED BY <2>1, <2>2
<1>4. Taken'
  BY <1>1, <1>2, <1>3 DEF Taken
<1>5. Types'
  BY <1>1, <1>2 DEF IInv, Types
<1> QED BY <1>1, <1>4, <1>5 DEF IInv, Merges

LEMMA TakeLeftKeeps ==
  ASSUME IInv, TakeLeft
  PROVE  IInv'
<1>0. AtEnd /\ Ready
  BY NoIndexWraps DEF TakeLeft, InMerge
<1>1. /\ i \in Nat \ {0} /\ j \in Nat /\ size \in Nat /\ size = Len(array)
      /\ it1 \in Nat /\ it2 \in Nat /\ array \in Seq(0..IntMax)
      /\ SortedIn(j, j + i)
  BY <1>0, RunsToMerge DEF IInv, Types
<1>2. PICK r \in Nat : r = RunEnd(j + 2 * i) /\ j + i < r /\ r <= size /\ SortedIn(j + i, r)
  BY <1>0, RunsToMerge
<1>3. Taken
  BY <1>0 DEF IInv, Merges
<1>4. /\ left = j /\ mid = j + i /\ right = r
  BY <1>0, <1>2, NoIndexWraps DEF left
<1>5. PICK m \in Nat : m = j + it1 + 1
  BY <1>1
<1>6. m \in 1..Len(array) /\ m \in (j + 1)..(j + i)
  BY <1>0, <1>1, <1>2, <1>4, <1>5 DEF TakeLeft, HasLeft
<1>7. /\ buf' = Append(buf, array[m]) /\ it1' = it1 + 1 /\ it2' = it2
      /\ UNCHANGED << lineVars, array, i, j >>
  BY <1>4, <1>5 DEF TakeLeft
<1>8. LeftOver = (m..(j + i)) \cup ((j + i + it2 + 1)..r)
  BY <1>2, <1>5 DEF LeftOver
<1>9. LeftOver' = ((m + 1)..(j + i)) \cup ((j + i + it2 + 1)..r)
  <2>1. RunEnd(j + 2 * i)' = r /\ i' = i /\ j' = j
    BY <1>0, <1>2, <1>7, StaysReady
  <2>2. LeftOver' = ((j + it1' + 1)..(j + i)) \cup ((j + i + it2' + 1)..r)
    BY <2>1 DEF LeftOver
  <2>3. j + it1' + 1 = m + 1
    BY <1>1, <1>5, <1>7
  <2> QED BY <1>7, <2>2, <2>3
<1>10. ASSUME NEW k \in LeftOver PROVE array[m] <= array[k]
  <2>1. CASE k \in m..(j + i)
    <3>1. k \in (j + 1)..(j + i) /\ m <= k
      BY <1>1, <1>6, <2>1
    <3> QED BY <1>1, <1>6, <3>1 DEF SortedIn
  <2>2. CASE k \in (j + i + it2 + 1)..r
    <3>1. PICK n \in Nat : n = j + i + it2 + 1
      BY <1>1
    <3>2. n \in 1..Len(array) /\ n \in (j + i + 1)..r /\ k \in (j + i + 1)..r /\ n <= k
          /\ k \in 1..Len(array)
      BY <1>1, <1>2, <2>2, <3>1
    <3>3. HasRight
      BY <1>1, <1>4, <3>1, <3>2 DEF HasRight
    <3>4. array[m] < array[n]
      BY <1>4, <1>5, <3>1, <3>3 DEF TakeLeft, LeftIsLess
    <3>5. array[n] <= array[k]
      BY <1>2, <3>2 DEF SortedIn
    <3>6. array[m] \in Int /\ array[n] \in Int /\ array[k] \in Int
      BY <1>1, <1>6, <3>2, Elements
    <3> QED BY <3>4, <3>5, <3>6
  <2> QED BY <1>8, <2>1, <2>2
<1>11. Takes(m)
  <2>1. m \in LeftOver /\ LeftOver' \subseteq LeftOver
    BY <1>1, <1>6, <1>8, <1>9
  <2>2. it1' + it2' = it1 + it2 + 1
    BY <1>1, <1>7
  <2> QED BY <1>7, <1>10, <2>1, <2>2 DEF Takes
<1>12. it1' \in Nat /\ it2' \in Nat /\ it1' <= i /\ it2' <= RunEnd(j + 2 * i) - (j + i)
  BY <1>1, <1>3, <1>5, <1>6, <1>7 DEF Taken
<1>13. ASSUME NEW v \in Numbers
       PROVE  CountIn(array, j, j + it1', v) + CountIn(array, j + i, j + i + it2', v) =
                CountIn(array, j, j + it1, v) + CountIn(array, j + i, j + i + it2, v)
                  + IF array[m] = v THEN 1 ELSE 0
  <2>1. PICK b \in Nat : b = j + it1 /\ b + 1 = m /\ b + 1 = j + it1' /\ j <= b
    BY <1>1, <1>5, <1>7
  <2>2. CountIn(array, j, b + 1, v) = CountIn(array, j, b, v) + IF array[b + 1] = v THEN 1 ELSE 0
    BY <1>1, <2>1, CountNext
  <2>3. PICK c \in Nat : c = CountIn(array, j, b, v)
    BY <1>1, CountIsNatural
  <2>4. PICK d \in Nat : d = CountIn(array, j + i, j + i + it2, v)
    BY <1>1, CountIsNatural
  <2> QED BY <1>7, <2>1, <2>2, <2>3, <2>4
<1> QED BY <1>0, <1>11, <1>12, <1>13, TakenKeeps

LEMMA TakeRightKeeps ==
  ASSUME IInv, TakeRight
  PROVE  IInv'
<1>0. AtEnd /\ Ready
  BY NoIndexWraps DEF TakeRight, InMerge
<1>1. /\ i \in Nat \ {0} /\ j \in Nat /\ size \in Nat /\ size = Len(array)
      /\ it1 \in Nat /\ it2 \in Nat /\ array \in Seq(0..IntMax)
      /\ SortedIn(j, j + i)
  BY <1>0, RunsToMerge DEF IInv, Types
<1>2. PICK r \in Nat : r = RunEnd(j + 2 * i) /\ j + i < r /\ r <= size /\ SortedIn(j + i, r)
  BY <1>0, RunsToMerge
<1>3. Taken
  BY <1>0 DEF IInv, Merges
<1>4. /\ left = j /\ mid = j + i /\ right = r
  BY <1>0, <1>2, NoIndexWraps DEF left
<1>5. PICK m \in Nat : m = j + i + it2 + 1
  BY <1>1
<1>6. m \in 1..Len(array) /\ m \in (j + i + 1)..r
  BY <1>0, <1>1, <1>2, <1>4, <1>5 DEF TakeRight, HasRight
<1>7. /\ buf' = Append(buf, array[m]) /\ it1' = it1 /\ it2' = it2 + 1
      /\ UNCHANGED << lineVars, array, i, j >>
  BY <1>4, <1>5 DEF TakeRight
<1>8. LeftOver = ((j + it1 + 1)..(j + i)) \cup (m..r)
  BY <1>2, <1>5 DEF LeftOver
<1>9. LeftOver' = ((j + it1 + 1)..(j + i)) \cup ((m + 1)..r)
  <2>1. RunEnd(j + 2 * i)' = r /\ i' = i /\ j' = j
    BY <1>0, <1>2, <1>7, StaysReady
  <2>2. LeftOver' = ((j + it1' + 1)..(j + i)) \cup ((j + i + it2' + 1)..r)
    BY <2>1 DEF LeftOver
  <2>3. j + i + it2' + 1 = m + 1
    BY <1>1, <1>5, <1>7
  <2> QED BY <1>7, <2>2, <2>3
<1>10. ASSUME NEW k \in LeftOver PROVE array[m] <= array[k]
  <2>1. CASE k \in (j + it1 + 1)..(j + i)
    <3>1. PICK n \in Nat : n = j + it1 + 1
      BY <1>1
    <3>2. n \in 1..Len(array) /\ n \in (j + 1)..(j + i) /\ k \in (j + 1)..(j + i) /\ n <= k
          /\ k \in 1..Len(array)
      BY <1>1, <1>2, <2>1, <3>1
    <3>3. HasLeft
      BY <1>1, <1>4, <3>1, <3>2 DEF HasLeft
    <3>4. ~(array[n] < array[m])
      BY <1>4, <1>5, <3>1, <3>3 DEF TakeRight, LeftIsLess
    <3>5. array[n] <= array[k]
      BY <1>1, <3>2 DEF SortedIn
    <3>6. array[m] \in Int /\ array[n] \in Int /\ array[k] \in Int
      BY <1>1, <1>6, <3>2, Elements
    <3> QED BY <3>4, <3>5, <3>6
  <2>2. CASE k \in m..r
    <3>1. k \in (j + i + 1)..r /\ m <= k
      BY <1>1, <1>6, <2>2
    <3> QED BY <1>2, <1>6, <3>1 DEF SortedIn
  <2> QED BY <1>8, <2>1, <2>2
<1>11. Takes(m)
  <2>1. m \in LeftOver /\ LeftOver' \subseteq LeftOver
    BY <1>1, <1>6, <1>8, <1>9
  <2>2. it1' + it2' = it1 + it2 + 1
    BY <1>1, <1>7
  <2> QED BY <1>7, <1>10, <2>1, <2>2 DEF Takes
<1>12. it1' \in Nat /\ it2' \in Nat /\ it1' <= i /\ it2' <= RunEnd(j + 2 * i) - (j + i)
  BY <1>1, <1>2, <1>3, <1>5, <1>6, <1>7 DEF Taken
<1>13. ASSUME NEW v \in Numbers
       PROVE  CountIn(array, j, j + it1', v) + CountIn(array, j + i, j + i + it2', v) =
                CountIn(array, j, j + it1, v) + CountIn(array, j + i, j + i + it2, v)
                  + IF array[m] = v THEN 1 ELSE 0
  <2>1. PICK a \in Nat : a = j + i
    BY <1>1
  <2>2. PICK b \in Nat : b = a + it2 /\ b + 1 = m /\ b + 1 = a + it2' /\ a <= b
    BY <1>1, <1>5, <1>7, <2>1
  <2>3. CountIn(array, a, b + 1, v) = CountIn(array, a, b, v) + IF array[b + 1] = v THEN 1 ELSE 0
    BY <2>1, <2>2, CountNext
  <2>4. PICK c \in Nat : c = CountIn(array, a, b, v)
    BY CountIsNatural
  <2>5. PICK d \in Nat : d = CountIn(array, j, j + it1, v)
    BY <1>1, CountIsNatural
  <2>6. j + i = a /\ j + i + it2 = b /\ j + i + it2' = b + 1
    BY <2>1, <2>2
  <2>7. CountIn(array, j + i, j + i + it2', v) = c + IF array[m] = v THEN 1 ELSE 0
    BY <2>2, <2>3, <2>4, <2>6
  <2>8. CountIn(array, j + i, j + i + it2, v) = c /\ CountIn(array, j, j + it1', v) = d
    BY <1>7, <2>4, <2>5, <2>6
  <2> QED BY <2>4, <2>5, <2>7, <2>8
<1> QED BY <1>0, <1>11, <1>12, <1>13, TakenKeeps

-----------------------------------------------------------------------------
(***************************************************************************)
(* A merge ends, and so do the loops around it.                            *)
(***************************************************************************)

(* The buffer replaces what it was merged from, up to r. *)
Replaced(r) ==
  /\ r \in Nat /\ r = RunEnd(j + 2 * i) /\ j + i < r /\ r <= size
  /\ Len(buf) = r - j
  /\ \A p, q \in 1..(r - j) : p <= q => buf[p] <= buf[q]
  /\ \A v \in Numbers : CountIn(buf, 0, r - j, v) = CountIn(array, j, r, v)
  /\ array' \in Seq(0..IntMax) /\ Len(array') = size
  /\ \A k \in 1..size : array'[k] = IF k \in (j + 1)..r THEN buf[k - j] ELSE array[k]

LEMMA CopyBackReplaces ==
  ASSUME IInv, CopyBack
  PROVE  Ready /\ \E r : Replaced(r)
<1>0. AtEnd /\ Ready
  BY NoIndexWraps DEF CopyBack, InMerge
<1>1. /\ i \in Nat \ {0} /\ j \in Nat /\ size \in Nat /\ size = Len(array)
      /\ it1 \in Nat /\ it2 \in Nat
      /\ array \in Seq(0..IntMax) /\ buf \in Seq(0..IntMax)
  BY <1>0, RunsToMerge DEF IInv, Types
<1>2. PICK r \in Nat : r = RunEnd(j + 2 * i) /\ j + i < r /\ r <= size
  BY <1>0, RunsToMerge
<1>3. Taken
  BY <1>0 DEF IInv, Merges
<1>4. left = j /\ mid = j + i /\ right = r
  BY <1>0, <1>2, NoIndexWraps DEF left
<1>5. it1 = i /\ j + i + it2 = r
  <2>1. ~(j + it1 < j + i) /\ ~(j + i + it2 < r)
    BY <1>4 DEF CopyBack, HasLeft, HasRight
  <2>2. it1 <= i /\ it2 <= r - (j + i)
    BY <1>2, <1>3 DEF Taken
  <2> QED BY <1>1, <1>2, <2>1, <2>2
<1>6. it1 + it2 = r - j /\ r - j \in Nat
  BY <1>1, <1>2, <1>5
<1>7. Len(buf) = r - j /\ \A p, q \in 1..(r - j) : p <= q => buf[p] <= buf[q]
  BY <1>3, <1>6 DEF Taken
<1>8. ASSUME NEW v \in Numbers
      PROVE  CountIn(buf, 0, r - j, v) = CountIn(array, j, r, v)
  <2>1. PICK m \in Nat : m = j + i /\ m = j + it1
    BY <1>1, <1>5
  <2>2. CountIn(buf, 0, r - j, v) = CountIn(array, j, m, v) + CountIn(array, m, r, v)
    BY <1>3, <1>5, <1>6, <2>1 DEF Taken
  <2>3. j <= m /\ m <= r
    BY <1>1, <1>2, <2>1
  <2> QED BY <1>1, <2>2, <2>3, CountSplit
<1>9. array' = [k \in 1..size |-> IF k \in (j + 1)..r THEN buf[k - j] ELSE array[k]]
  <2>1. array' = [k \in DOMAIN array |-> IF Copied(k) THEN buf[k - left] ELSE array[k]]
    BY DEF CopyBack
  <2>2. DOMAIN array = 1..size
    BY <1>1
  <2>3. \A k \in 1..size : Copied(k) <=> k \in (j + 1)..r
    BY <1>1, <1>4, <1>6 DEF Copied
  <2> QED BY <1>4, <2>1, <2>2, <2>3
<1>10. \A k \in 1..size : array'[k] = IF k \in (j + 1)..r THEN buf[k - j] ELSE array[k]
  BY <1>9
<1>11. \A k \in 1..size : array'[k] \in 0..IntMax
  <2> SUFFICES ASSUME NEW k \in 1..size PROVE array'[k] \in 0..IntMax
    OBVIOUS
  <2>1. CASE k \in (j + 1)..r
    <3>1. k - j \in 1..Len(buf)
      BY <1>1, <1>7, <2>1
    <3> QED BY <1>1, <1>10, <2>1, <3>1, Elements
  <2>2. CASE k \notin (j + 1)..r
    BY <1>1, <1>10, <2>2, Elements
  <2> QED BY <2>1, <2>2
<1>12. array' \in Seq(0..IntMax) /\ Len(array') = size
  <2>1. PICK n \in Nat : n = size
    BY <1>1
  <2>2. PICK a : a = array'
    OBVIOUS
  <2>3. a \in [1..n -> 0..IntMax]
    BY <1>9, <1>11, <2>1, <2>2
  <2>4. a \in Seq(0..IntMax) /\ Len(a) = n
    <3> DEFINE S == 0..IntMax
    <3>1. a \in [1..n -> S]
      BY <2>3
    <3> HIDE DEF S
    <3>2. a \in Seq(S) /\ Len(a) = n
      BY <2>1, <3>1
    <3> QED BY <3>2 DEF S
  <2> QED BY <2>1, <2>2, <2>4
<1>13. Replaced(r)
  BY <1>2, <1>7, <1>8, <1>10, <1>12 DEF Replaced
<1> QED BY <1>0, <1>13

LEMMA SortedSame ==
  ASSUME NEW from, NEW to, SortedIn(from, to),
         \A k \in (from + 1)..to : array'[k] = array[k]
  PROVE  SortedIn(from, to)'
  BY DEF SortedIn

LEMMA CopyBackSorts ==
  ASSUME IInv, Ready, NEW r, Replaced(r), i' = i, j' = j + 2 * i
  PROVE  Runs'
<1>0. /\ i \in Nat \ {0} /\ j \in Nat /\ size \in Nat
  BY RunsToMerge
<1>1. r \in Nat /\ r = RunEnd(j + 2 * i) /\ j + i < r /\ r <= size /\ size' = size
  BY DEF Replaced, size
<1>2. \A k \in 1..size : k \notin (j + 1)..r => array'[k] = array[k]
  BY DEF Replaced
<1>3. \A p, q \in (j + 1)..r : p <= q => array'[p] <= array'[q]
  <2> SUFFICES ASSUME NEW p \in (j + 1)..r, NEW q \in (j + 1)..r, p <= q
               PROVE  array'[p] <= array'[q]
    OBVIOUS
  <2>1. p \in 1..size /\ q \in 1..size /\ p - j \in 1..(r - j) /\ q - j \in 1..(r - j)
        /\ p - j <= q - j
    BY <1>0, <1>1
  <2>2. array'[p] = buf[p - j] /\ array'[q] = buf[q - j]
    BY <2>1 DEF Replaced
  <2> QED BY <2>1, <2>2 DEF Replaced
<1>4. \A n : RunEnd(n)' = RunEnd(n)
  BY <1>1 DEF RunEnd
<1>5. j % i = 0 /\ j % (2 * i) = 0
  BY <1>0, MultipleOfHalf DEF IInv, Loops
<1>6. PICK e \in Nat : e = j + 2 * i
  BY <1>0
<1>7. e % i = 0
  <2>1. PICK d \in Nat : d = j + i /\ d + i = e
    BY <1>0, <1>6
  <2>2. d % i = 0
    BY <1>0, <1>5, <2>1, NextMultiple
  <2> QED BY <1>0, <2>1, <2>2, NextMultiple
<1>8. ASSUME NEW start \in 0..(size - 1), start % i = 0
      PROVE  SortedIn(start, RunEnd(start + i))'
  <2>1. PICK t \in Nat : t = RunEnd(start + i) /\ t <= size /\ t <= start + i
    BY <1>0 DEF RunEnd
  <2>2. SortedIn(start, t)
    BY <1>8, <2>1 DEF IInv, Runs
  <2>3. start \in Nat
    BY <1>0
  <2>4. CASE start < j
    <3>1. start + i <= j
      BY <1>0, <1>5, <1>8, <2>3, <2>4, MultiplesApart
    <3>2. \A k \in (start + 1)..t : array'[k] = array[k]
      BY <1>0, <1>1, <1>2, <2>1, <2>3, <3>1
    <3>3. SortedIn(start, t)'
      BY <2>2, <3>2, SortedSame
    <3> QED BY <1>0, <1>1, <2>1, <3>3 DEF SortedIn, RunEnd
  <2>5. CASE start >= j /\ start < e
    <3>1. start + i <= e
      BY <1>0, <1>7, <1>8, <2>3, <2>5, MultiplesApart
    <3>2. t <= r
      BY <1>0, <1>1, <1>6, <2>1, <2>3, <3>1 DEF RunEnd
    <3>3. \A k \in (start + 1)..t : k \in (j + 1)..r
      BY <1>0, <1>1, <2>1, <2>3, <2>5, <3>2
    <3>4. SortedIn(start, t)'
      BY <1>3, <3>3 DEF SortedIn
    <3> QED BY <1>0, <1>1, <2>1, <3>4 DEF SortedIn, RunEnd
  <2>6. CASE start >= e
    <3>1. r <= start
      BY <1>0, <1>1, <1>6, <2>3, <2>6 DEF RunEnd
    <3>2. \A k \in (start + 1)..t : array'[k] = array[k]
      BY <1>0, <1>1, <1>2, <2>1, <2>3, <3>1
    <3>3. SortedIn(start, t)'
      BY <2>2, <3>2, SortedSame
    <3> QED BY <1>0, <1>1, <2>1, <3>3 DEF SortedIn, RunEnd
  <2> QED BY <1>0, <2>3, <2>4, <2>5, <2>6
<1>9. ASSUME NEW start \in 0..(size - 1), start < e, start % (2 * i) = 0
      PROVE  SortedIn(start, RunEnd(start + 2 * i))'
  <2>0. start \in Nat /\ 2 * i \in Nat \ {0}
    BY <1>0
  <2>1. PICK t \in Nat : t = RunEnd(start + 2 * i) /\ t <= size /\ t <= start + 2 * i
    BY <1>0 DEF RunEnd
  <2>2. CASE start < j
    <3>1. start + 2 * i <= j
      BY <1>0, <1>5, <1>9, <2>0, <2>2, MultiplesApart
    <3>2. SortedIn(start, t)
      BY <1>9, <2>1, <2>2 DEF IInv, Runs
    <3>3. \A k \in (start + 1)..t : array'[k] = array[k]
      BY <1>0, <1>1, <1>2, <2>0, <2>1, <3>1
    <3>4. SortedIn(start, t)'
      BY <3>2, <3>3, SortedSame
    <3> QED BY <1>0, <1>1, <2>1, <3>4 DEF SortedIn, RunEnd
  <2>3. CASE start = j
    <3>1. SortedIn(start, r)'
      BY <1>3, <2>3 DEF SortedIn
    <3> QED BY <1>1, <2>3, <3>1 DEF SortedIn, RunEnd
  <2>4. CASE j < start
    <3>1. j + 2 * i <= start
      BY <1>0, <1>5, <1>9, <2>0, <2>4, MultiplesApart
    <3> QED BY <1>0, <1>6, <1>9, <2>0, <3>1
  <2> QED BY <1>0, <2>0, <2>2, <2>3, <2>4
<1> QED BY <1>1, <1>6, <1>8, <1>9 DEF Runs

LEMMA CopyBackKeeps ==
  ASSUME IInv, CopyBack
  PROVE  IInv'
<1>0. AtEnd /\ Ready
  BY NoIndexWraps DEF CopyBack, InMerge
<1>1. PICK r : Replaced(r)
  BY CopyBackReplaces
<1>2. /\ i \in Nat \ {0} /\ j \in Nat /\ size \in Nat /\ size = Len(array)
  BY <1>0, RunsToMerge
<1>3. /\ i' = i /\ j' = j + 2 * i /\ it1' = 0 /\ it2' = 0 /\ buf' = << >>
      /\ text' = text /\ number_line' = number_line
  BY <1>0, NoIndexWraps DEF CopyBack, lineVars
<1>4. size' = size /\ Len(array') = size /\ array' \in Seq(0..IntMax)
  BY <1>1 DEF Replaced, size
<1>5. Types'
  BY <1>2, <1>3, <1>4 DEF IInv, Types
<1>6. Runs'
  BY <1>0, <1>1, <1>3, CopyBackSorts
<1>7. Merges'
  BY <1>3, <1>5, MergeStartsNext DEF NothingTaken
<1>8. Loops'
  <2>1. PICK n \in Nat \ {0} : n = 2 * i
    BY <1>2
  <2>2. (j + n) % n = 0
    BY <1>2, <2>1, NextMultiple DEF IInv, Loops
  <2>3. j' = j + n /\ 2 * i' = n
    BY <1>3, <2>1
  <2>4. j' % (2 * i') = 0
    BY <2>2, <2>3
  <2>5. AtEnd'
    BY <1>0, <1>3 DEF AtEnd
  <2> QED BY <2>4, <2>5 DEF Loops
<1>9. ASSUME NEW v \in Numbers
      PROVE  CountIn(array', 0, size, v) = CountIn(array, 0, size, v)
  <2>0. r \in Nat /\ j <= r /\ r <= size
    BY <1>1, <1>2 DEF Replaced
  <2>1. PICK a : a = array'
    OBVIOUS
  <2>2. \A k \in 1..size : a[k] = IF k \in (j + 1)..r THEN buf[k - j] ELSE array[k]
    BY <1>1, <2>1 DEF Replaced
  <2>3. CountIn(a, 0, j, v) = CountIn(array, 0, j, v)
    <3>1. \A k \in (0 + 1)..j : a[k] = array[k]
      BY <1>2, <2>0, <2>2
    <3> QED BY <1>2, <3>1, CountSame
  <2>4. CountIn(a, r, size, v) = CountIn(array, r, size, v)
    <3>1. \A k \in (r + 1)..size : a[k] = array[k]
      BY <1>2, <2>0, <2>2
    <3> QED BY <1>2, <2>0, <3>1, CountSame
  <2>5. CountIn(a, j, r, v) = CountIn(array, j, r, v)
    <3>1. PICK n \in Nat : n = r - j /\ j + n = r
      <4>1. r - j \in Nat /\ j + (r - j) = r
        BY <1>2, <2>0
      <4> QED BY <4>1
    <3>2. \A k \in (j + 1)..(j + n) : a[k] = buf[k - j]
      BY <1>2, <2>0, <2>2, <3>1
    <3>3. CountIn(a, j, j + n, v) = CountIn(buf, 0, n, v)
      BY <1>2, <3>2, CountMoved
    <3>4. CountIn(buf, 0, n, v) = CountIn(array, j, r, v)
      BY <1>1, <3>1 DEF Replaced
    <3> QED BY <3>1, <3>3, <3>4
  <2>6. /\ CountIn(a, 0, r, v) = CountIn(a, 0, j, v) + CountIn(a, j, r, v)
        /\ CountIn(a, 0, size, v) = CountIn(a, 0, r, v) + CountIn(a, r, size, v)
        /\ CountIn(array, 0, r, v) = CountIn(array, 0, j, v) + CountIn(array, j, r, v)
        /\ CountIn(array, 0, size, v) = CountIn(array, 0, r, v) + CountIn(array, r, size, v)
    BY <1>2, <2>0, CountSplit
  <2> QED BY <2>1, <2>3, <2>4, <2>5, <2>6
<1>10. Found'
  <2>1. Found
    BY <1>0, NoIndexWraps
  <2>2. 2 * Len(array') <= number_line' + 1
    BY <1>2, <1>3, <1>4, <2>1 DEF Found
  <2>3. number_line' # 0 => text'[number_line'] # Space
    BY <1>3, <2>1 DEF Found
  <2>4. \A v \in Numbers : CountIn(array', 0, size', v) = CountIn(text', 0, number_line', v)
    BY <1>3, <1>4, <1>9, <2>1 DEF Found
  <2> QED BY <2>2, <2>3, <2>4 DEF Found
<1> QED BY <1>5, <1>6, <1>7, <1>8, <1>10 DEF IInv

LEMMA NextWidthKeeps ==
  ASSUME IInv, NextWidth
  PROVE  IInv'
<1>0. /\ i \in Nat \ {0} /\ j \in Nat /\ size \in Nat
  BY LineFacts DEF IInv, Types
<1>1. AtEnd /\ i < size /\ size <= j + i /\ ~Ready
  BY <1>0, NoIndexWraps DEF NextWidth, Ready
<1>2. /\ i' = 2 * i /\ j' = 0 /\ it1' = it1 /\ it2' = it2 /\ buf' = buf /\ array' = array
      /\ text' = text /\ number_line' = number_line /\ size' = size
  BY <1>1, NoIndexWraps DEF NextWidth, Doubled, lineVars, size
<1>3. Types'
  BY <1>0, <1>2 DEF IInv, Types
<1>4. Found'
  BY <1>1, <1>2, NoIndexWraps DEF Found
<1>5. Merges'
  <2>1. NothingTaken'
    BY <1>1, <1>2 DEF IInv, Merges, NothingTaken
  <2> QED BY <1>3, <2>1, MergeStartsNext
<1>6. Loops'
  <2>1. PICK n \in Nat \ {0} : n = 2 * i'
    BY <1>0, <1>2
  <2>2. 0 % n = 0
    <3>1. n * 0 = 0
      OBVIOUS
    <3>2. (n * 0) % n = 0
      BY ProductIsMultiple
    <3> QED BY <3>1, <3>2
  <2>3. AtEnd'
    BY <1>1, <1>2 DEF AtEnd
  <2> QED BY <1>2, <2>1, <2>2, <2>3 DEF Loops
<1>7. ASSUME NEW start \in 0..(size - 1), start % (2 * i) = 0
      PROVE  SortedIn(start, RunEnd(start + 2 * i))
  <2>0. start \in Nat /\ 2 * i \in Nat \ {0} /\ start < size
    BY <1>0
  <2>1. CASE start < j
    BY <1>7, <2>1 DEF IInv, Runs
  <2>2. CASE start = j
    <3>1. j % i = 0
      BY <1>0, MultipleOfHalf DEF IInv, Loops
    <3>2. SortedIn(start, RunEnd(start + i))
      BY <2>2, <3>1 DEF IInv, Runs
    <3>3. RunEnd(start + i) = size /\ RunEnd(start + 2 * i) = size
      BY <1>0, <1>1, <2>2 DEF RunEnd
    <3> QED BY <3>2, <3>3
  <2>3. CASE j < start
    <3>1. j + 2 * i <= start
      BY <1>0, <1>7, <2>0, <2>3, MultiplesApart DEF IInv, Loops
    <3> QED BY <1>0, <1>1, <2>0, <3>1
  <2> QED BY <1>0, <2>0, <2>1, <2>2, <2>3
<1>8. Runs'
  <2>1. \A from, to : SortedIn(from, to)' <=> SortedIn(from, to)
    BY <1>2 DEF SortedIn
  <2>2. \A n : RunEnd(n)' = RunEnd(n)
    BY <1>2 DEF RunEnd
  <2>3. \A start \in 0..(size - 1) : start % i' = 0 => SortedIn(start, RunEnd(start + i'))
    BY <1>2, <1>7
  <2>4. \A start \in 0..(size - 1) : ~(start < j')
    BY <1>0, <1>2
  <2>5. \A start \in 0..(size' - 1) :
          /\ start % i' = 0 => \A p, q \in (start + 1)..RunEnd(start + i') :
                                 p <= q => array'[p] <= array'[q]
          /\ ~(start < j')
    BY <1>2, <2>3, <2>4 DEF SortedIn
  <2> QED BY <1>2, <2>5 DEF Runs, SortedIn, RunEnd
<1> QED BY <1>3, <1>4, <1>5, <1>6, <1>8 DEF IInv

LEMMA NextIInv == IInv /\ [Next]_vars => IInv'
<1> SUFFICES ASSUME IInv, [Next]_vars PROVE IInv'
  OBVIOUS
<1>1. CASE FindNumber
  BY <1>1, FindNumberKeeps
<1>2. CASE TakeLeft
  BY <1>2, TakeLeftKeeps
<1>3. CASE TakeRight
  BY <1>3, TakeRightKeeps
<1>4. CASE CopyBack
  BY <1>4, CopyBackKeeps
<1>5. CASE NextWidth
  BY <1>5, NextWidthKeeps
<1>6. CASE UNCHANGED vars
  <2>1. /\ text' = text /\ number_line' = number_line /\ array' = array /\ i' = i /\ j' = j
        /\ it1' = it1 /\ it2' = it2 /\ buf' = buf
    BY <1>6 DEF vars, lineVars, sortVars
  <2>2. Types'
    BY <2>1 DEF IInv, Types
  <2>3. Stuck' \/ Found'
    BY <2>1 DEF IInv, Stuck, Found, AtEnd, Ahead, size
  <2>4. Loops' /\ Runs'
    BY <2>1 DEF IInv, Loops, Runs, SortedIn, RunEnd, AtEnd, size
  <2>5. Merges'
    BY <2>1 DEF IInv, Merges, Ready, Taken, LeftOver, RunEnd, AtEnd, size
  <2> QED BY <2>2, <2>3, <2>4, <2>5 DEF IInv
<1> QED BY <1>1, <1>2, <1>3, <1>4, <1>5, <1>6 DEF Next

LEMMA Invariance == Spec => []IInv
  BY InitIInv, NextIInv, PTL DEF Spec

(* The array has room for the numbers of the text. *)
THEOREM ArraysAreBigEnough == Spec => []ArrayIsBigEnough
<1>1. IInv => ArrayIsBigEnough
  <2> SUFFICES ASSUME IInv, EndsWithNumber PROVE Len(array) <= max_arr_size
    BY DEF ArrayIsBigEnough
  <2>1. /\ text \in Seq(Numbers \cup {Space}) /\ Len(text) \in 0..(2 * IntMax - 1)
        /\ IntMax \in Nat \ {0} /\ number_line \in 0..Len(text)
        /\ Len(array) \in Nat
    BY LineFacts DEF IInv, size
  <2>2. ~Stuck
    <3> SUFFICES ASSUME number_line # Len(text) PROVE Ahead # {}
      BY DEF Stuck, AtEnd
    <3>1. Len(text) \in (number_line + 1)..Len(text) /\ text # << >>
      BY <2>1
    <3>2. text[Len(text)] # Space
      BY <3>1 DEF EndsWithNumber
    <3> QED BY <3>1, <3>2 DEF Ahead
  <2>3. 2 * Len(array) <= number_line + 1
    BY <2>2 DEF IInv, Found
  <2>4. Wrap(Len(text) + 1 + 1) = Len(text) + 2
    <3>1. PICK n \in 0..(2 * IntMax + 1) : n = Len(text) + 1 + 1
      BY <2>1
    <3> QED BY <2>1, <3>1, Fits
  <2> QED BY <2>1, <2>3, <2>4 DEF max_arr_size
<1> QED BY <1>1, Invariance, PTL

(* sort sorts runs of double length in each turn of its outer loop. *)
THEOREM SortSortsRuns == Spec => []RunsAreSorted
<1>1. IInv => RunsAreSorted
  <2> SUFFICES ASSUME IInv PROVE RunsAreSorted
    OBVIOUS
  <2>1. i \in Nat \ {0} /\ size \in Nat
    BY LineFacts DEF IInv, Types
  <2>2. \A from \in Nat, to \in Int : SortedIn(from, to) => Ascends(from + 1, to)
    BY DEF SortedIn, Ascends
  <2>3. ASSUME NEW start \in 0..(size - 1), NEW n \in Nat, SortedIn(start, RunEnd(start + n))
        PROVE  Ascends(start + 1, IF start + n < size THEN start + n ELSE size)
    <3>1. RunEnd(start + n) = IF start + n < size THEN start + n ELSE size
      BY <2>1 DEF RunEnd
    <3>2. start \in Nat /\ RunEnd(start + n) \in Int
      BY <2>1, <3>1
    <3>3. Ascends(start + 1, RunEnd(start + n))
      BY <2>2, <2>3, <3>2
    <3> QED BY <3>1, <3>3
  <2>4. i \in Nat /\ 2 * i \in Nat
    BY <2>1
  <2>5. ASSUME NEW start \in 0..(size - 1), start % i = 0
        PROVE  Ascends(start + 1, IF start + i < size THEN start + i ELSE size)
    BY <2>3, <2>4, <2>5 DEF IInv, Runs
  <2>6. ASSUME NEW start \in 0..(size - 1), start < j, start % (2 * i) = 0
        PROVE  Ascends(start + 1, IF start + 2 * i < size THEN start + 2 * i ELSE size)
    BY <2>3, <2>4, <2>6 DEF IInv, Runs
  <2> QED BY <2>5, <2>6 DEF RunsAreSorted
<1> QED BY <1>1, Invariance, PTL

(* No number of the text is lost or doubled, and no run reaches beyond the *)
(* array.                                                                  *)
THEOREM NumbersAreKept == Spec => []KeepsNumbers
<1>1. IInv => KeepsNumbers
  <2> SUFFICES ASSUME IInv PROVE KeepsNumbers
    OBVIOUS
  <2>1. /\ text \in Seq(Numbers \cup {Space}) /\ Len(text) \in Nat
        /\ i \in Nat \ {0} /\ j \in Nat /\ size \in Nat /\ DOMAIN array = 1..size
    BY LineFacts DEF IInv, Types
  <2>2. InMerge => mid <= right /\ right <= size
    <3> SUFFICES ASSUME InMerge PROVE mid <= right /\ right <= size
      OBVIOUS
    <3>1. Ready /\ AtEnd
      BY NoIndexWraps DEF InMerge
    <3>2. /\ mid = j + i /\ right = RunEnd(j + 2 * i)
          /\ j + i < right /\ right <= size
      BY <3>1, NoIndexWraps
    <3>3. right \in Int
      BY <2>1, <3>2 DEF RunEnd
    <3> QED BY <2>1, <3>2, <3>3
  <2>3. ASSUME AtEnd, NEW v \in Numbers PROVE Count(array, v) = Count(text, v)
    <3>1. CountIn(array, 0, size, v) = CountIn(text, 0, Len(text), v)
      BY <2>3, NoIndexWraps DEF Found, AtEnd
    <3>2. Places(array, 0, size, v) = {k \in DOMAIN array : array[k] = v}
      BY <2>1 DEF Places
    <3>3. Places(text, 0, Len(text), v) = {k \in DOMAIN text : text[k] = v}
      BY <2>1 DEF Places
    <3> QED BY <3>1, <3>2, <3>3 DEF Count, CountIn
  <2> QED BY <2>2, <2>3 DEF KeepsNumbers
<1> QED BY <1>1, Invariance, PTL
=============================================================================
