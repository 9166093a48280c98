---------------------------- MODULE UserFsListsProofs ----------------------------
(***************************************************************************)
(* The two lists of the file system.  In the first part the linked list of *)
(* UserFsDirectory, for any number of names and files: under any calls it  *)
(* is a list of the files of the directory.  In the second part the block  *)
(* lists of UserFsOverwrite, for callers who have not resized, re-created  *)
(* or run out of memory: for blocks of any size, any buffers, and any      *)
(* number of files, descriptors and calls.                                 *)
(***************************************************************************)
EXTENDS UserFsDirectory, UserFsOverwrite, UserFsProofs

(* s is the list from its head, n files long. *)
IsList(s, n) ==
  /\ head = IF n = 0 THEN NULL ELSE s[0]
  /\ \A i \in 0..(n - 1) :
       /\ next[s[i]] = IF i = n - 1 THEN NULL ELSE s[i + 1]
       /\ prev[s[i]] = IF i = 0 THEN NULL ELSE s[i - 1]

(* It holds each file of the directory once. *)
Enumerates(s, n, S) ==
  /\ s \in [0..(n - 1) -> Files]
  /\ \A i, j \in 0..(n - 1) : s[i] = s[j] => i = j
  /\ S = {s[i] : i \in 0..(n - 1)}

(* The inductive invariant: there is such a list.                          *)
IsListed ==
  \E n \in 0..Cardinality(Files) : \E s \in [0..(n - 1) -> Files] :
    Enumerates(s, n, file_list) /\ IsList(s, n)

ListTypes ==
  /\ next \in [Files -> Files \cup {NULL}]
  /\ prev \in [Files -> Files \cup {NULL}]
  /\ \A f \in Files : name[f] # NULL <=> f \in file_list

ListInv == ListTypes /\ IsListed

-----------------------------------------------------------------------------
(* What a walk along a list meets, and where it ends. *)
Place(s, n) == [k \in Nat |-> IF k < n THEN s[k] ELSE NULL]

LEMMA WalkIsPlace ==
  ASSUME NEW n \in Nat, NEW s \in [0..(n - 1) -> Files], IsList(s, n)
  PROVE  \A k \in Nat : L!Walk[k] = Place(s, n)[k]
<1> DEFINE w == Place(s, n)
<1>1. \A k \in Nat : w[k] = IF k = 0 THEN head
                            ELSE IF w[k - 1] = NULL THEN NULL ELSE next[w[k - 1]]
  <2> SUFFICES ASSUME NEW k \in Nat
               PROVE  w[k] = IF k = 0 THEN head
                             ELSE IF w[k - 1] = NULL THEN NULL ELSE next[w[k - 1]]
    OBVIOUS
  <2>1. CASE k = 0
    BY <2>1 DEF Place, IsList
  <2>2. CASE k # 0
    <3>1. PICK i \in Nat : i = k - 1 /\ k = i + 1
      BY <2>2
    <3>2. CASE i < n
      <4>1. i \in 0..(n - 1) /\ w[i] = s[i] /\ s[i] # NULL
        BY <3>2, NullAssumption DEF Place
      <4>2. next[s[i]] = IF i = n - 1 THEN NULL ELSE s[i + 1]
        BY <4>1 DEF IsList
      <4> QED BY <3>1, <3>2, <4>1, <4>2 DEF Place
    <3>3. CASE ~(i < n)
      BY <3>1, <3>3 DEF Place
    <3> QED BY <3>2, <3>3
  <2> QED BY <2>1, <2>2
<1>2. w = [k \in Nat |-> IF k = 0 THEN head
                         ELSE IF w[k - 1] = NULL THEN NULL ELSE next[w[k - 1]]]
  BY <1>1 DEF Place
<1>3. \E v : v = [k \in Nat |-> IF k = 0 THEN head
                         ELSE IF v[k - 1] = NULL THEN NULL ELSE next[v[k - 1]]]
  <2> HIDE DEF w
  <2> QED BY <1>2
<1>4. L!Walk = [k \in Nat |-> IF k = 0 THEN head
                         ELSE IF L!Walk[k - 1] = NULL THEN NULL ELSE next[L!Walk[k - 1]]]
  BY <1>3 DEF L!Walk
<1> HIDE DEF w
<1> DEFINE Bad == {k \in Nat : L!Walk[k] # w[k]}
<1>5. Bad = {}
  <2> SUFFICES ASSUME Bad # {} PROVE FALSE
    OBVIOUS
  <2>1. PICK k \in Bad : \A j \in Bad : k <= j
    <3>1. Bad \subseteq Nat
      OBVIOUS
    <3> HIDE DEF Bad
    <3> QED BY <3>1, LeastNumber
  <2>2. k \in Nat /\ L!Walk[k] # w[k]
    OBVIOUS
  <2>3. CASE k = 0
    BY <1>1, <1>4, <2>2, <2>3
  <2>4. CASE k # 0
    <3>1. PICK i \in Nat : i = k - 1 /\ i < k
      BY <2>2, <2>4
    <3>2. L!Walk[i] = w[i]
      BY <2>1, <3>1
    <3>3. L!Walk[k] = IF L!Walk[i] = NULL THEN NULL ELSE next[L!Walk[i]]
      BY <1>4, <2>2, <2>4, <3>1
    <3> QED BY <1>1, <2>2, <2>4, <3>1, <3>2, <3>3
  <2> QED BY <2>3, <2>4
<1> QED BY <1>5 DEF w

-----------------------------------------------------------------------------
(***************************************************************************)
(* What the invariant says of the list.                                    *)
(***************************************************************************)
LEMMA PlacesAreFiles ==
  ASSUME NEW n \in 0..Cardinality(Files), NEW s \in [0..(n - 1) -> Files]
  PROVE  /\ n \in Nat
         /\ \A k \in Nat : Place(s, n)[k] # NULL <=> k \in 0..(n - 1)
         /\ \A k \in 0..(n - 1) : Place(s, n)[k] = s[k]
         /\ Cardinality(Files) \in Nat
<1>1. n \in Nat /\ Cardinality(Files) \in Nat
  BY FilesAssumption, FS_CardinalityType
<1> QED BY <1>1, NullAssumption DEF Place

LEMMA LengthIsSize == L!Length = Cardinality(Files)
  BY Zenon DEF L!Length, L!Cardinality, Cardinality

(* A walk finds the files of the directory and ends in time. *)
LEMMA ListedFiles ==
  ASSUME ListInv
  PROVE  L!ListIsTheFiles /\ L!Linked = file_list
<1>0. PICK n \in 0..Cardinality(Files) : \E s \in [0..(n - 1) -> Files] :
        Enumerates(s, n, file_list) /\ IsList(s, n)
  BY DEF ListInv, IsListed
<1>1. PICK s \in [0..(n - 1) -> Files] : Enumerates(s, n, file_list) /\ IsList(s, n)
  BY <1>0
<1>2. /\ n \in Nat /\ Cardinality(Files) \in Nat
      /\ \A k \in Nat : Place(s, n)[k] # NULL <=> k \in 0..(n - 1)
      /\ \A k \in 0..(n - 1) : Place(s, n)[k] = s[k]
  BY PlacesAreFiles
<1>3. \A k \in Nat : L!Walk[k] = Place(s, n)[k]
  BY <1>1, <1>2, WalkIsPlace
<1>4. L!Linked = {s[i] : i \in 0..(n - 1)}
  <2>1. 0..(n - 1) \subseteq 0..Cardinality(Files) /\ 0..Cardinality(Files) \subseteq Nat
    BY <1>2
  <2>2. L!Linked = {L!Walk[k] : k \in 0..Cardinality(Files)} \ {NULL}
    BY LengthIsSize DEF L!Linked
  <2> QED BY <1>2, <1>3, <2>1, <2>2
<1>5. L!Walk[L!Length] = NULL
  BY <1>2, <1>3, LengthIsSize
<1>6. L!Allocated = file_list
  BY <1>1 DEF ListInv, ListTypes, L!Allocated, Enumerates
<1> QED BY <1>1, <1>4, <1>5, <1>6 DEF L!ListIsTheFiles, Enumerates

LEMMA ListedBothWays ==
  ASSUME ListInv
  PROVE  L!PrevUndoesNext
<1>0. PICK n \in 0..Cardinality(Files) : \E s \in [0..(n - 1) -> Files] :
        Enumerates(s, n, file_list) /\ IsList(s, n)
  BY DEF ListInv, IsListed
<1>1. PICK s \in [0..(n - 1) -> Files] : Enumerates(s, n, file_list) /\ IsList(s, n)
  BY <1>0
<1>2. n \in Nat
  BY PlacesAreFiles
<1> SUFFICES ASSUME NEW f \in L!Allocated
             PROVE  /\ next[f] # NULL => prev[next[f]] = f
                    /\ prev[f] = NULL <=> head = f
  BY DEF L!PrevUndoesNext
<1>3. PICK i \in 0..(n - 1) : f = s[i]
  BY <1>1 DEF ListInv, ListTypes, L!Allocated, Enumerates
<1>4. next[f] # NULL => prev[next[f]] = f
  <2>1. CASE i # n - 1
    <3>1. PICK j \in 0..(n - 1) : j = i + 1 /\ i = j - 1 /\ j # 0
      BY <1>2, <1>3, <2>1
    <3> QED BY <1>1, <1>3, <2>1, <3>1 DEF IsList
  <2> QED BY <1>1, <1>3, <2>1 DEF IsList
<1>5. prev[f] = NULL <=> i = 0
  <2>1. CASE i # 0
    <3>1. PICK j \in 0..(n - 1) : j = i - 1
      BY <1>2, <1>3, <2>1
    <3> QED BY <1>1, <1>3, <2>1, <3>1, NullAssumption DEF IsList
  <2> QED BY <1>1, <1>3, <2>1 DEF IsList
<1>6. head = s[0] /\ 0 \in 0..(n - 1)
  BY <1>1, <1>2, <1>3 DEF IsList
<1> QED BY <1>1, <1>3, <1>4, <1>5, <1>6 DEF Enumerates

(* The first file of a name on the walk is the only one. *)
LEMMA WalkFinds ==
  ASSUME ListInv, NamesAreUnique, NEW nm \in Names
  PROVE  FilesNamed(nm) = {L!Found(nm)} \ {NULL}
<1>0. PICK n \in 0..Cardinality(Files) : \E s \in [0..(n - 1) -> Files] :
        Enumerates(s, n, file_list) /\ IsList(s, n)
  BY DEF ListInv, IsListed
<1>1. PICK s \in [0..(n - 1) -> Files] : Enumerates(s, n, file_list) /\ IsList(s, n)
  BY <1>0
<1>2. /\ n \in Nat /\ Cardinality(Files) \in Nat
      /\ \A k \in Nat : Place(s, n)[k] # NULL <=> k \in 0..(n - 1)
      /\ \A k \in 0..(n - 1) : Place(s, n)[k] = s[k]
  BY PlacesAreFiles
<1>3. \A k \in Nat : L!Walk[k] = Place(s, n)[k]
  BY <1>1, <1>2, WalkIsPlace
<1> DEFINE hits == {k \in 0..L!Length : L!Walk[k] # NULL /\ name[L!Walk[k]] = nm}
<1>4. hits = {k \in 0..(n - 1) : name[s[k]] = nm}
  BY <1>2, <1>3, LengthIsSize
<1>5. \A k \in 0..(n - 1) : L!Walk[k] = s[k]
  BY <1>2, <1>3
<1>6. L!Found(nm) = IF hits = {} THEN NULL
                    ELSE L!Walk[CHOOSE k \in hits : \A j \in hits : k <= j]
  BY DEF L!Found
<1>7. FilesNamed(nm) = {s[k] : k \in hits}
  BY <1>1, <1>4 DEF FilesNamed, Enumerates
<1>8. \A j, k \in hits : j = k
  BY <1>1, <1>4 DEF NamesAreUnique, Enumerates
<1>9. hits \subseteq 0..(n - 1)
  BY <1>4
<1> HIDE DEF hits
<1>10. CASE hits = {}
  BY <1>6, <1>7, <1>10
<1>11. CASE hits # {}
  <2>1. PICK k : hits = {k}
    BY <1>8, <1>11
  <2>2. k \in 0..(n - 1) /\ k <= k
    BY <1>2, <1>9, <2>1
  <2>3. (CHOOSE i \in hits : \A j \in hits : i <= j) = k
    BY <2>1, <2>2
  <2>4. L!Found(nm) = s[k] /\ s[k] # NULL
    BY <1>5, <1>6, <1>11, <2>2, <2>3, NullAssumption
  <2> QED BY <1>7, <2>1, <2>4
<1> QED BY <1>10, <1>11

-----------------------------------------------------------------------------
(***************************************************************************)
(* The list changes as the directory does.                                 *)
(***************************************************************************)

(* An array without repetition is no longer than there are files. *)
LEMMA ListsFit ==
  ASSUME NEW n \in Nat, NEW s \in [0..(n - 1) -> Files],
         \A i, j \in 0..(n - 1) : s[i] = s[j] => i = j
  PROVE  n \in 0..Cardinality(Files)
<1>1. s \in Injection(0..(n - 1), Files)
  BY DEF Injection, IsInjective
<1>2. Cardinality(0..(n - 1)) <= Cardinality(Files)
  BY <1>1, FilesAssumption, FS_Injection
<1>3. Cardinality(0..(n - 1)) = n
  <2>1. 0 \in Int /\ n - 1 \in Int
    OBVIOUS
  <2>2. Cardinality(0..(n - 1)) = IF 0 > n - 1 THEN 0 ELSE n - 1 - 0 + 1
    BY <2>1, FS_Interval
  <2> QED BY <2>2
<1>4. Cardinality(Files) \in Nat
  BY FilesAssumption, FS_CardinalityType
<1> QED BY <1>2, <1>3, <1>4

(* The array s with f put in front of it, and without its element p. *)
Prepended(f, s, n) == [i \in 0..n |-> IF i = 0 THEN f ELSE s[i - 1]]
Without(p, s, n) == [i \in 0..(n - 2) |-> IF i < p THEN s[i] ELSE s[i + 1]]

LEMMA FrontEnumerates ==
  ASSUME NEW n \in Nat, NEW s, NEW S, Enumerates(s, n, S), NEW f \in Files \ S
  PROVE  Enumerates(Prepended(f, s, n), n + 1, S \cup {f})
<1> DEFINE t == Prepended(f, s, n)
<1>1. t[0] = f /\ \A i \in 1..n : i - 1 \in 0..(n - 1) /\ t[i] = s[i - 1]
  BY DEF Prepended
<1>2. s \in [0..(n - 1) -> Files] /\ S = {s[i] : i \in 0..(n - 1)}
  BY DEF Enumerates
<1>3. t \in [0..n -> Files]
  BY <1>1, <1>2 DEF Prepended
<1>4. \A i \in 0..(n - 1) : i + 1 \in 1..n /\ t[i + 1] = s[i]
  BY <1>1
<1>5. {t[i] : i \in 0..n} = S \cup {f}
  <2> HIDE DEF t
  <2>1. \A i \in 0..n : t[i] \in S \cup {f}
    BY <1>1, <1>2
  <2>2. f \in {t[i] : i \in 0..n}
    BY <1>1
  <2>3. \A i \in 0..(n - 1) : s[i] \in {t[j] : j \in 0..n}
    <3> SUFFICES ASSUME NEW i \in 0..(n - 1) PROVE \E j \in 0..n : t[j] = s[i]
      OBVIOUS
    <3>1. PICK j \in 1..n : j = i + 1 /\ t[j] = s[i]
      BY <1>4
    <3> QED BY <3>1
  <2> QED BY <1>2, <2>1, <2>2, <2>3
<1>6. \A i, j \in 0..n : t[i] = t[j] => i = j
  <2> SUFFICES ASSUME NEW i \in 0..n, NEW j \in 0..n, t[i] = t[j]
               PROVE  i = j
    OBVIOUS
  <2>1. \A k \in 1..n : t[k] # f /\ t[k] = s[k - 1]
    BY <1>1, <1>2
  <2>2. CASE i # 0 /\ j # 0
    <3>1. i - 1 \in 0..(n - 1) /\ j - 1 \in 0..(n - 1) /\ s[i - 1] = s[j - 1]
      BY <1>1, <2>2
    <3>2. i - 1 = j - 1
      BY <3>1 DEF Enumerates
    <3> QED BY <3>2
  <2>3. CASE i = 0 \/ j = 0
    BY <1>1, <2>1, <2>3
  <2> QED BY <2>2, <2>3
<1> HIDE DEF t
<1>7. PICK m \in Nat : m = n + 1 /\ m - 1 = n
  OBVIOUS
<1>8. Enumerates(t, m, S \cup {f})
  BY <1>3, <1>5, <1>6, <1>7 DEF Enumerates
<1> QED BY <1>7, <1>8 DEF t

LEMMA WithoutEnumerates ==
  ASSUME NEW n \in Nat, NEW s, NEW S, Enumerates(s, n, S), NEW p \in 0..(n - 1)
  PROVE  Enumerates(Without(p, s, n), n - 1, S \ {s[p]})
<1> DEFINE t == Without(p, s, n)
           Old(i) == IF i < p THEN i ELSE i + 1
<1>0. n - 1 - 1 = n - 2 /\ n - 1 \in Nat
  OBVIOUS
<1>1. \A i \in 0..(n - 2) : Old(i) \in 0..(n - 1) \ {p} /\ t[i] = s[Old(i)]
  BY DEF Without
<1>2. \A j \in 0..(n - 1) \ {p} : \E i \in 0..(n - 2) : Old(i) = j
  <2> SUFFICES ASSUME NEW j \in 0..(n - 1) \ {p} PROVE \E i \in 0..(n - 2) : Old(i) = j
    OBVIOUS
  <2>1. CASE j < p
    BY <2>1
  <2>2. CASE j > p
    <3>1. j - 1 \in 0..(n - 2) /\ Old(j - 1) = j
      BY <2>2
    <3> QED BY <3>1
  <2> QED BY <2>1, <2>2
<1>3. \A i, j \in 0..(n - 2) : Old(i) = Old(j) => i = j
  OBVIOUS
<1>4. /\ s \in [0..(n - 1) -> Files] /\ S = {s[i] : i \in 0..(n - 1)}
      /\ \A i, j \in 0..(n - 1) : s[i] = s[j] => i = j
  BY DEF Enumerates
<1>5. t \in [0..(n - 2) -> Files]
  BY <1>1, <1>4 DEF Without
<1> HIDE DEF t, Old
<1>6. \A i, j \in 0..(n - 2) : t[i] = t[j] => i = j
  BY <1>1, <1>3, <1>4
<1>7. {t[i] : i \in 0..(n - 2)} = S \ {s[p]}
  <2>1. \A i \in 0..(n - 2) : t[i] \in S \ {s[p]}
    BY <1>1, <1>4
  <2>2. \A j \in 0..(n - 1) \ {p} : s[j] \in {t[i] : i \in 0..(n - 2)}
    BY <1>1, <1>2
  <2> QED BY <1>4, <2>1, <2>2
<1> QED BY <1>0, <1>5, <1>6, <1>7 DEF Enumerates, t

(* ufs_open puts a new file in front of the list. *)
LEMMA InsertKeeps ==
  ASSUME ListInv, NEW f \in Files \ file_list, NEW nm \in Names,
         name \in [Files -> Names \cup {NULL}],
         file_list' = file_list \cup {f}, name' = [name EXCEPT ![f] = nm],
         L!Insert(f)
  PROVE  ListInv'
<1>0. PICK n \in 0..Cardinality(Files) : \E s \in [0..(n - 1) -> Files] :
        Enumerates(s, n, file_list) /\ IsList(s, n)
  BY DEF ListInv, IsListed
<1>1. PICK s \in [0..(n - 1) -> Files] : Enumerates(s, n, file_list) /\ IsList(s, n)
  BY <1>0
<1>2. n \in Nat
  BY PlacesAreFiles
<1>3. /\ head' = f
      /\ next' = [next EXCEPT ![f] = head]
      /\ prev' = [g \in Files |-> IF g = f THEN NULL
                                  ELSE IF g = head THEN f ELSE prev[g]]
  BY DEF L!Insert, L!LinkBothWays
<1>4. ListTypes'
  <2>1. head \in Files \cup {NULL}
    BY <1>1, <1>2 DEF IsList
  <2> QED BY <1>3, <2>1, NullAssumption DEF ListInv, ListTypes
<1>5. PICK t : t = Prepended(f, s, n)
  OBVIOUS
<1>6. PICK m \in Nat : m = n + 1 /\ m - 1 = n
  BY <1>2
<1>7. Enumerates(t, m, file_list')
  BY <1>1, <1>2, <1>5, <1>6, FrontEnumerates
<1>8. t[0] = f /\ \A i \in 0..(n - 1) : t[i + 1] = s[i]
  BY <1>2, <1>5 DEF Prepended
<1>9. IsList(t, m)'
  <2>1. head' = IF m = 0 THEN NULL ELSE t[0]
    BY <1>3, <1>6, <1>8
  <2>2. next'[t[0]] = (IF 0 = m - 1 THEN NULL ELSE t[1]) /\ prev'[t[0]] = NULL
    <3>1. next'[f] = head /\ prev'[f] = NULL
      BY <1>3 DEF ListInv, ListTypes
    <3>2. n # 0 => t[1] = s[0]
      BY <1>2, <1>8
    <3> QED BY <1>1, <1>6, <1>8, <3>1, <3>2 DEF IsList
  <2>3. ASSUME NEW i \in 0..(n - 1)
        PROVE  /\ next'[s[i]] = IF i = n - 1 THEN NULL ELSE s[i + 1]
               /\ prev'[s[i]] = IF i = 0 THEN f ELSE s[i - 1]
    <3>1. s[i] \in file_list /\ s[i] \in Files /\ s[i] # f
      BY <1>1 DEF Enumerates
    <3>2. next'[s[i]] = next[s[i]]
      BY <1>3, <3>1 DEF ListInv, ListTypes
    <3>3. head = s[i] <=> i = 0
      BY <1>1, <1>2 DEF IsList, Enumerates
    <3>4. prev'[s[i]] = IF i = 0 THEN f ELSE prev[s[i]]
      BY <1>3, <3>1, <3>3
    <3> QED BY <1>1, <3>2, <3>4 DEF IsList
  <2>4. ASSUME NEW k \in 0..(m - 1), k # 0
        PROVE  /\ next'[t[k]] = IF k = m - 1 THEN NULL ELSE t[k + 1]
               /\ prev'[t[k]] = t[k - 1]
    <3>1. PICK i \in 0..(n - 1) : k = i + 1 /\ i = k - 1
      BY <1>2, <1>6, <2>4
    <3>2. t[k] = s[i]
      BY <1>8, <3>1
    <3>3. next'[t[k]] = IF k = m - 1 THEN NULL ELSE t[k + 1]
      <4>1. CASE i = n - 1
        BY <1>2, <1>6, <2>3, <3>1, <3>2, <4>1
      <4>2. CASE i # n - 1
        <5>1. PICK j \in 0..(n - 1) : j = i + 1
          BY <1>2, <4>2
        <5>2. t[k + 1] = s[j]
          BY <1>8, <3>1, <5>1
        <5> QED BY <1>2, <1>6, <2>3, <3>1, <3>2, <4>2, <5>1, <5>2
      <4> QED BY <4>1, <4>2
    <3>4. prev'[t[k]] = t[k - 1]
      <4>1. CASE i = 0
        BY <1>8, <2>3, <3>1, <3>2, <4>1
      <4>2. CASE i # 0
        <5>1. PICK j \in 0..(n - 1) : j = i - 1 /\ i = j + 1
          BY <1>2, <4>2
        <5>2. t[i] = s[j]
          BY <1>8, <5>1
        <5> QED BY <2>3, <3>1, <3>2, <4>2, <5>1, <5>2
      <4> QED BY <4>1, <4>2
    <3> QED BY <3>3, <3>4
  <2> QED BY <2>1, <2>2, <2>4 DEF IsList
<1>10. t \in [0..(m - 1) -> Files] /\ m \in 0..Cardinality(Files)
  BY <1>6, <1>7, ListsFit DEF Enumerates
<1> QED BY <1>4, <1>7, <1>9, <1>10 DEF ListInv, IsListed

(* ufs_delete, or the ufs_close of a ghost, takes a file out of it. *)
LEMMA UnlinkKeeps ==
  ASSUME ListInv, NEW f \in file_list,
         name \in [Files -> Names \cup {NULL}],
         file_list' = file_list \ {f}, name' = [name EXCEPT ![f] = NULL],
         L!Unlink(f)
  PROVE  ListInv'
<1>0. PICK n \in 0..Cardinality(Files) : \E s \in [0..(n - 1) -> Files] :
        Enumerates(s, n, file_list) /\ IsList(s, n)
  BY DEF ListInv, IsListed
<1>1. PICK s \in [0..(n - 1) -> Files] : Enumerates(s, n, file_list) /\ IsList(s, n)
  BY <1>0
<1>2. PICK p \in 0..(n - 1) : f = s[p]
  BY <1>1 DEF Enumerates
<1>3. n \in Nat /\ n # 0 /\ f \in Files /\ f # NULL
  BY <1>1, <1>2, PlacesAreFiles, NullAssumption
<1>4. /\ next[f] = IF p = n - 1 THEN NULL ELSE s[p + 1]
      /\ prev[f] = IF p = 0 THEN NULL ELSE s[p - 1]
      /\ next[f] \in Files \cup {NULL} /\ prev[f] \in Files \cup {NULL}
  BY <1>1, <1>2, <1>3 DEF IsList, ListInv, ListTypes
<1>5. /\ next' = [g \in Files |-> IF g = f THEN NULL
                                  ELSE IF g = prev[f] THEN next[f] ELSE next[g]]
      /\ prev' = [g \in Files |-> IF g = f THEN NULL
                                  ELSE IF g = next[f] THEN prev[f] ELSE prev[g]]
      /\ head' = L!HeadWithout(f)
  BY DEF L!Unlink, L!NextWithout
<1>6. ListTypes'
  BY <1>4, <1>5 DEF ListInv, ListTypes
<1>7. PICK t : t = Without(p, s, n)
  OBVIOUS
<1>8. PICK m \in Nat : m = n - 1 /\ m - 1 = n - 2
  BY <1>3
<1>9. Enumerates(t, m, file_list')
  BY <1>1, <1>2, <1>3, <1>7, <1>8, WithoutEnumerates
<1>10. /\ \A i \in 0..(m - 1) : i < p => t[i] = s[i]
       /\ \A i \in 0..(m - 1) : ~(i < p) => t[i] = s[i + 1]
  BY <1>3, <1>7, <1>8 DEF Without
<1>11. \A j \in 0..(n - 1) \ {p} :
         /\ s[j] \in Files /\ s[j] # f
         /\ s[j] = prev[f] <=> j = p - 1
         /\ s[j] = next[f] <=> j = p + 1
  <2> SUFFICES ASSUME NEW j \in 0..(n - 1) \ {p}
               PROVE  /\ s[j] \in Files /\ s[j] # f
                      /\ s[j] = prev[f] <=> j = p - 1
                      /\ s[j] = next[f] <=> j = p + 1
    OBVIOUS
  <2>1. s[j] \in Files /\ s[j] # f /\ s[j] # NULL
    BY <1>1, <1>2, NullAssumption DEF Enumerates
  <2>2. s[j] = prev[f] <=> j = p - 1
    <3>1. CASE p = 0
      BY <1>3, <1>4, <2>1, <3>1
    <3>2. CASE p # 0
      <4>1. PICK q \in 0..(n - 1) : q = p - 1
        BY <1>3, <3>2
      <4> QED BY <1>1, <1>4, <3>2, <4>1 DEF Enumerates
    <3> QED BY <3>1, <3>2
  <2>3. s[j] = next[f] <=> j = p + 1
    <3>1. CASE p = n - 1
      BY <1>3, <1>4, <2>1, <3>1
    <3>2. CASE p # n - 1
      <4>1. PICK q \in 0..(n - 1) : q = p + 1
        BY <1>3, <3>2
      <4> QED BY <1>1, <1>4, <3>2, <4>1 DEF Enumerates
    <3> QED BY <3>1, <3>2
  <2> QED BY <2>1, <2>2, <2>3
<1>12. \A j \in 0..(n - 1) \ {p} :
         /\ next'[s[j]] = IF j = p - 1 THEN next[f] ELSE IF j = n - 1 THEN NULL ELSE s[j + 1]
         /\ prev'[s[j]] = IF j = p + 1 THEN prev[f] ELSE IF j = 0 THEN NULL ELSE s[j - 1]
  BY <1>1, <1>5, <1>11 DEF IsList
<1>13. IsList(t, m)'
  <2>1. head' = IF m = 0 THEN NULL ELSE t[0]
    <3>1. head = s[0] /\ (head = f <=> p = 0)
      BY <1>1, <1>2, <1>3 DEF IsList, Enumerates
    <3>2. next[f] = NULL /\ prev[f] = NULL <=> n = 1
      BY <1>1, <1>3, <1>4, NullAssumption
    <3>3. CASE n = 1
      BY <1>5, <1>8, <1>3, <3>2, <3>3 DEF L!HeadWithout
    <3>4. CASE n # 1 /\ p = 0
      <4>1. head' = next[f]
        BY <1>5, <3>1, <3>2, <3>4 DEF L!HeadWithout
      <4> QED BY <1>3, <1>4, <1>8, <1>10, <3>4, <4>1
    <3>5. CASE p # 0
      <4>1. head' = s[0] /\ m # 0
        BY <1>3, <1>5, <1>8, <3>1, <3>2, <3>5 DEF L!HeadWithout
      <4> QED BY <1>3, <1>8, <1>10, <3>5, <4>1
    <3> QED BY <3>3, <3>4, <3>5
  <2>2. ASSUME NEW i \in 0..(m - 1), i < p
        PROVE  /\ next'[t[i]] = IF i = m - 1 THEN NULL ELSE t[i + 1]
               /\ prev'[t[i]] = IF i = 0 THEN NULL ELSE t[i - 1]
    <3>1. i \in 0..(n - 1) \ {p} /\ t[i] = s[i] /\ i # p + 1 /\ i # n - 1
      BY <1>3, <1>8, <1>10, <2>2
    <3>2. next'[t[i]] = IF i = m - 1 THEN NULL ELSE t[i + 1]
      <4>1. PICK k \in 0..(n - 1) : k = i + 1
        BY <1>3, <3>1
      <4>2. CASE i = p - 1
        <5>1. next'[t[i]] = next[f] /\ k = p
          BY <1>12, <3>1, <4>1, <4>2
        <5>2. i # m - 1 => t[k] = s[k + 1]
          BY <1>3, <1>8, <1>10, <4>1, <4>2
        <5> QED BY <1>4, <1>8, <4>1, <4>2, <5>1, <5>2
      <4>3. CASE i # p - 1
        <5>1. next'[t[i]] = s[k]
          BY <1>12, <3>1, <4>1, <4>3
        <5>2. i # m - 1 /\ t[k] = s[k]
          BY <1>3, <1>8, <1>10, <2>2, <4>1, <4>3
        <5> QED BY <4>1, <5>1, <5>2
      <4> QED BY <4>2, <4>3
    <3>3. prev'[t[i]] = IF i = 0 THEN NULL ELSE t[i - 1]
      <4>1. CASE i # 0
        <5>1. PICK k \in 0..(m - 1) : k = i - 1 /\ k < p
          BY <2>2, <4>1
        <5>2. t[k] = s[k]
          BY <1>10, <5>1
        <5> QED BY <1>12, <3>1, <4>1, <5>1, <5>2
      <4> QED BY <1>12, <3>1, <4>1
    <3> QED BY <3>2, <3>3
  <2>3. ASSUME NEW i \in 0..(m - 1), ~(i < p)
        PROVE  /\ next'[t[i]] = IF i = m - 1 THEN NULL ELSE t[i + 1]
               /\ prev'[t[i]] = IF i = 0 THEN NULL ELSE t[i - 1]
    <3>1. PICK j \in 0..(n - 1) \ {p} : j = i + 1 /\ i = j - 1 /\ j # p - 1 /\ j # 0
      BY <1>3, <1>8, <2>3
    <3>2. t[i] = s[j]
      BY <1>10, <2>3, <3>1
    <3>3. next'[t[i]] = IF i = m - 1 THEN NULL ELSE t[i + 1]
      <4>1. next'[t[i]] = IF j = n - 1 THEN NULL ELSE s[j + 1]
        BY <1>12, <3>1, <3>2
      <4>2. i = m - 1 <=> j = n - 1
        BY <1>8, <3>1
      <4>3. CASE i # m - 1
        <5>1. j \in 0..(m - 1) /\ ~(j < p)
          BY <1>3, <1>8, <2>3, <3>1, <4>3
        <5>2. t[j] = s[j + 1]
          BY <1>10, <5>1
        <5> QED BY <3>1, <4>1, <4>2, <4>3, <5>2
      <4> QED BY <4>1, <4>2, <4>3
    <3>4. prev'[t[i]] = IF i = 0 THEN NULL ELSE t[i - 1]
      <4>1. CASE j = p + 1
        <5>1. prev'[t[i]] = prev[f] /\ i = p
          BY <1>12, <3>1, <3>2, <4>1
        <5>2. i # 0 => t[i - 1] = s[i - 1]
          <6>1. i # 0 => i - 1 \in 0..(m - 1) /\ i - 1 < p
            BY <5>1
          <6> QED BY <1>10, <6>1
        <5> QED BY <1>4, <5>1, <5>2
      <4>2. CASE j # p + 1
        <5>1. prev'[t[i]] = s[i] /\ i # p
          BY <1>12, <3>1, <3>2, <4>2
        <5>2. PICK k \in 0..(m - 1) : k = i - 1 /\ i = k + 1 /\ ~(k < p)
          BY <2>3, <5>1
        <5>3. t[k] = s[i] /\ i # 0
          BY <1>10, <5>2
        <5> QED BY <5>1, <5>2, <5>3
      <4> QED BY <4>1, <4>2
    <3> QED BY <3>3, <3>4
  <2>4. ASSUME NEW i \in 0..(m - 1)
        PROVE  /\ next'[t[i]] = IF i = m - 1 THEN NULL ELSE t[i + 1]
               /\ prev'[t[i]] = IF i = 0 THEN NULL ELSE t[i - 1]
    BY <2>2, <2>3
  <2> QED BY <2>1, <2>4 DEF IsList
<1>14. t \in [0..(m - 1) -> Files] /\ m \in 0..Cardinality(Files)
  BY <1>9, ListsFit DEF Enumerates
<1> QED BY <1>6, <1>9, <1>13, <1>14 DEF ListInv, IsListed

(* A call creates one file, frees one, or leaves the directory's files and *)
(* their names alone.                                                      *)
Creates ==
  \E f \in Files \ file_list, n \in Names :
    file_list' = file_list \cup {f} /\ name' = [name EXCEPT ![f] = n]

Frees ==
  \E f \in file_list :
    file_list' = file_list \ {f} /\ name' = [name EXCEPT ![f] = NULL]

LEMMA DirectoryChanges ==
  ASSUME Next
  PROVE  UNCHANGED << file_list, name >> \/ Creates \/ Frees
<1> DEFINE Same == UNCHANGED << file_list, name >>
<1>1. ASSUME NEW n \in Names, NEW fl, NEW heap, Open(n, fl, heap)
      PROVE  Same \/ Creates
  <2>1. CASE OpenWithoutTable(heap)
    BY <2>1 DEF OpenWithoutTable, dirVars
  <2>2. CASE OpenNew(n, fl, heap)
    BY <2>2 DEF OpenNew, Crashes, dirVars, Creates
  <2>3. CASE OpenAgain(n, fl, heap)
    BY <2>3 DEF OpenAgain, Crashes
  <2>4. CASE OpenExisting(n, fl, heap)
    BY <2>4 DEF OpenExisting, Crashes, dirVars
  <2>5. CASE OpenMissing(n, fl)
    BY <2>5 DEF OpenMissing, dirVars
  <2> QED BY <1>1, <2>1, <2>2, <2>3, <2>4, <2>5 DEF Open
<1>2. ASSUME NEW d, NEW buf, NEW spare, Write(d, buf, spare)
      PROVE  Same
  BY <1>2 DEF Write, BadFd, Crashes, dirVars
<1>3. ASSUME NEW d, NEW n, Read(d, n)
      PROVE  Same
  BY <1>3 DEF Read, BadFd, Crashes, dirVars
<1>4. ASSUME NEW d, NEW size, NEW spare, Resize(d, size, spare)
      PROVE  Same
  BY <1>4 DEF Resize, BadFd, Crashes, dirVars
<1>5. ASSUME NEW d, Close(d)
      PROVE  Same \/ Frees
  <2>1. CASE BadFd(d)
    BY <2>1 DEF BadFd, Crashes, dirVars
  <2>2. CASE ~BadFd(d)
    <3>1. \/ UNCHANGED dirVars
          \/ \E g \in FilesNamed(name[file[d]]) :
               Destroy(g) \/ UNCHANGED << file_list, name, data >>
      BY <1>5, <2>2 DEF Close
    <3> QED BY <3>1 DEF dirVars, Destroy, Frees, FilesNamed
  <2> QED BY <2>1, <2>2
<1>6. ASSUME NEW n \in Names, Delete(n)
      PROVE  Same \/ Frees
  BY <1>6 DEF Delete, dirVars, Destroy, Frees, FilesNamed
<1> QED BY <1>1, <1>2, <1>3, <1>4, <1>5, <1>6 DEF Next

LEMMA DirectoryInitInv == DirectoryInit => IInv /\ ListInv
<1> SUFFICES ASSUME DirectoryInit PROVE IInv /\ ListInv
  OBVIOUS
<1>1. Init /\ L!Init
  BY DEF DirectoryInit
<1>2. ListTypes
  BY <1>1 DEF Init, L!Init, ListTypes
<1>3. PICK n \in 0..Cardinality(Files) : n = 0
  BY FilesAssumption, FS_CardinalityType
<1>4. PICK s : s = [i \in 0..(n - 1) |-> NULL]
  OBVIOUS
<1>5. 0..(n - 1) = {} /\ s \in [0..(n - 1) -> Files]
  BY <1>3, <1>4
<1>6. Enumerates(s, n, file_list) /\ IsList(s, n)
  BY <1>1, <1>3, <1>5 DEF Init, L!Init, Enumerates, IsList
<1>7. IsListed
  BY <1>3, <1>5, <1>6 DEF IsListed
<1> QED BY <1>1, <1>2, <1>7, InitIInv DEF ListInv

(* A call of the directory, and the change it makes to the list.           *)
LEMMA ListKeeps ==
  ASSUME IInv, ListInv, [DirectoryNext]_<< vars, listVars >>
  PROVE  ListInv'
<1>1. CASE UNCHANGED << file_list, name, head, next, prev >>
  <2>1. ListTypes'
    BY <1>1 DEF ListInv, ListTypes
  <2>2. \A n, s : IsList(s, n) => IsList(s, n)'
    BY <1>1 DEF IsList
  <2>3. IsListed'
    BY <1>1, <2>2 DEF ListInv, IsListed
  <2> QED BY <2>1, <2>3 DEF ListInv
<1>2. CASE DirectoryNext
  <2>0. Next /\ name \in [Files -> Names \cup {NULL}] /\ file_list \subseteq Files
    BY <1>2 DEF DirectoryNext, IInv, TypeOK
  <2>1. CASE UNCHANGED << file_list, name >>
    BY <1>1, <1>2, <2>1 DEF DirectoryNext, listVars
  <2>2. CASE Creates
    <3>1. PICK f \in Files \ file_list, n \in Names :
            file_list' = file_list \cup {f} /\ name' = [name EXCEPT ![f] = n]
      BY <2>2 DEF Creates
    <3>2. file_list' \ file_list = {f} /\ file_list \ file_list' = {}
      BY <3>1
    <3>3. L!Insert(f)
      BY <1>2, <3>2 DEF DirectoryNext
    <3> QED BY <2>0, <3>1, <3>3, InsertKeeps
  <2>3. CASE Frees
    <3>1. PICK f \in file_list :
            file_list' = file_list \ {f} /\ name' = [name EXCEPT ![f] = NULL]
      BY <2>3 DEF Frees
    <3>2. file_list' \ file_list = {} /\ file_list \ file_list' = {f}
      BY <3>1
    <3>3. L!Unlink(f)
      BY <1>2, <3>2 DEF DirectoryNext
    <3> QED BY <2>0, <3>1, <3>3, UnlinkKeeps
  <2> QED BY <2>0, <2>1, <2>2, <2>3, DirectoryChanges
<1> QED BY <1>1, <1>2 DEF vars, listVars

LEMMA DirectoryInvariance == DirectorySpec => [](IInv /\ ListInv)
<1>1. IInv /\ ListInv /\ [DirectoryNext]_<< vars, listVars >> => IInv' /\ ListInv'
  <2>1. [DirectoryNext]_<< vars, listVars >> => [Next]_vars
    BY DEF DirectoryNext
  <2> QED BY <2>1, NextIInv, ListKeeps
<1> QED BY <1>1, DirectoryInitInv, PTL DEF DirectorySpec

(* The linked list holds the files of the directory and no others, and a   *)
(* walk along it ends, under every sequence of calls.                      *)
THEOREM TheListIsTheFiles == DirectorySpec => []ListIsTheFiles
<1>1. ListInv => ListIsTheFiles
  BY ListedFiles DEF ListIsTheFiles
<1> QED BY <1>1, DirectoryInvariance, PTL

(* It is linked both ways, so that ufs_delete unlinks what it should.      *)
THEOREM TheListIsDouble == DirectorySpec => []PrevUndoesNext
<1>1. ListInv => PrevUndoesNext
  BY ListedBothWays DEF PrevUndoesNext
<1> QED BY <1>1, DirectoryInvariance, PTL

(* find_file_by_name finds the file of a name, and no other. *)
THEOREM TheWalkFinds == DirectorySpec => []WalkFindsTheFile
<1>1. IInv /\ ListInv => WalkFindsTheFile
  BY WalkFinds DEF WalkFindsTheFile, IInv
<1> QED BY <1>1, DirectoryInvariance, PTL

(* The calls of the directory are those of the user file system. *)
THEOREM DirectoryIsUserFs == DirectorySpec => Spec
<1>1. [DirectoryNext]_<< vars, listVars >> => [Next]_vars
  BY DEF DirectoryNext
<1> QED BY <1>1, PTL DEF DirectorySpec, DirectoryInit, Spec

-----------------------------------------------------------------------------
(***************************************************************************)
(* The bookkeeping of ufs_write.                                           *)
(***************************************************************************)

(* s[i] is what the first i blocks of a chain say they hold. *)
Sums(chain, s) ==
  /\ s \in [0..Len(chain) -> Int]
  /\ s[0] = 0
  /\ \A i \in 1..Len(chain) : s[i] = s[i - 1] + chain[i].occupied

(* The invariant of a file.  Its last block always has room: ufs_write     *)
(* links a new one as soon as it fills it, and so the walk to an offset in *)
(* the file never ends behind last_block.                                  *)
Tidy(x) ==
  /\ x \in FileData
  /\ x.last = Len(x.chain)
  /\ \A i \in 1..Len(x.chain) : x.chain[i].occupied \in 0..BlockSize
  /\ x.chain # << >> => x.chain[Len(x.chain)].occupied < BlockSize
  /\ \E s : Sums(x.chain, s) /\ s[Len(x.chain)] = x.size

LEMMA TidyIsLastIn == ASSUME NEW x, Tidy(x) PROVE x \in FileData /\ LastIn(x)
<1>1. x \in FileData /\ x.chain \in Seq(Blocks) /\ x.last = Len(x.chain)
  BY DEF Tidy, FileData
<1> QED BY <1>1 DEF LastIn

LEMMA EmptyIsTidy == Tidy(EmptyData)
<1>1. EmptyData \in FileData /\ EmptyData.chain = << >> /\ EmptyData.last = 0 /\ EmptyData.size = 0
  BY EmptyIsData DEF EmptyData
<1>2. Len(<< >>) = 0
  OBVIOUS
<1>3. Sums(<< >>, [i \in 0..0 |-> 0])
  BY <1>2 DEF Sums
<1>4. \E s : Sums(<< >>, s) /\ s[0] = 0
  BY <1>3
<1> QED BY <1>1, <1>2, <1>4 DEF Tidy

-----------------------------------------------------------------------------
(* The blocks cannot hold more than there is room for. *)
LEMMA SumBounds ==
  ASSUME NEW chain \in Seq(Blocks), NEW s, Sums(chain, s),
         \A i \in 1..Len(chain) : chain[i].occupied \in 0..BlockSize
  PROVE  \A k \in 0..Len(chain) : s[k] \in Nat /\ s[k] <= BlockSize * k
<1> DEFINE Bad == {k \in 0..Len(chain) : ~(s[k] \in Nat /\ s[k] <= BlockSize * k)}
<1>0. Len(chain) \in Nat
  OBVIOUS
<1>1. Bad = {}
  <2> SUFFICES ASSUME Bad # {} PROVE FALSE
    OBVIOUS
  <2>1. PICK k \in Bad : \A j \in Bad : k <= j
    <3>1. Bad \subseteq Nat
      OBVIOUS
    <3> HIDE DEF Bad
    <3> QED BY <3>1, LeastNumber
  <2>2. k \in 0..Len(chain) /\ ~(s[k] \in Nat /\ s[k] <= BlockSize * k)
    OBVIOUS
  <2>3. CASE k = 0
    <3>1. s[0] = 0 /\ BlockSize * 0 = 0
      BY BlockSizeAssumption DEF Sums
    <3> QED BY <2>2, <2>3, <3>1
  <2>4. CASE k # 0
    <3>1. PICK j \in 0..(Len(chain) - 1) : k = j + 1
      <4>1. k - 1 \in 0..(Len(chain) - 1) /\ k = (k - 1) + 1
        BY <1>0, <2>2, <2>4
      <4> QED BY <4>1
    <3>2. s[j] \in Nat /\ s[j] <= BlockSize * j
      BY <1>0, <2>1, <3>1
    <3>3. s[k] = s[j] + chain[k].occupied
      <4>1. k \in 1..Len(chain) /\ k - 1 = j
        BY <1>0, <3>1
      <4> QED BY <4>1 DEF Sums
    <3>4. chain[k].occupied \in 0..BlockSize
      BY <1>0, <3>1
    <3>5. PICK p \in Int : p = BlockSize * j
      BY BlockSizeAssumption
    <3>6. BlockSize * k = p + BlockSize
      BY <3>1, <3>5, BlockSizeAssumption
    <3>7. s[k] \in Nat /\ s[k] <= p + BlockSize
      BY <3>2, <3>3, <3>4, <3>5, BlockSizeAssumption
    <3> QED BY <2>2, <3>6, <3>7
  <2> QED BY <2>3, <2>4
<1> QED BY <1>1

(* There is one sum only, and so it is the one that SizeIsOccupied speaks  *)
(* of.                                                                     *)
LEMMA OccupiedIsTheSum ==
  ASSUME NEW f, data[f].chain \in Seq(Blocks), NEW s, Sums(data[f].chain, s)
  PROVE  Occupied(f) = s[Len(data[f].chain)]
<1> DEFINE chain == data[f].chain
           Sum(g) == g = [k \in 0..Len(chain) |->
                            IF k = 0 THEN 0 ELSE g[k - 1] + chain[k].occupied]
           sum == CHOOSE g : Sum(g)
<1>0. Len(chain) \in Nat
  OBVIOUS
<1>1. Sum(s)
  BY <1>0 DEF Sums
<1>2. Sum(sum)
  <2> HIDE DEF Sum
  <2> QED BY <1>1
<1>3. Occupied(f) = sum[Len(chain)]
  BY DEF Occupied
<1> HIDE DEF sum
<1> DEFINE Bad == {k \in 0..Len(chain) : sum[k] # s[k]}
<1>4. Bad = {}
  <2> SUFFICES ASSUME Bad # {} PROVE FALSE
    OBVIOUS
  <2>1. PICK k \in Bad : \A j \in Bad : k <= j
    <3>1. Bad \subseteq Nat
      OBVIOUS
    <3> HIDE DEF Bad
    <3> QED BY <3>1, LeastNumber
  <2>2. k \in 0..Len(chain) /\ sum[k] # s[k]
    OBVIOUS
  <2>3. sum[k] = IF k = 0 THEN 0 ELSE sum[k - 1] + chain[k].occupied
    BY <1>2, <2>2
  <2>4. s[k] = IF k = 0 THEN 0 ELSE s[k - 1] + chain[k].occupied
    BY <1>1, <2>2
  <2>5. k # 0 => k - 1 \in 0..Len(chain) /\ k - 1 < k
    BY <1>0, <2>2
  <2>6. k # 0 => sum[k - 1] = s[k - 1]
    BY <2>1, <2>5
  <2> QED BY <2>2, <2>3, <2>4, <2>6
<1>5. Len(chain) \in 0..Len(chain)
  BY <1>0
<1> QED BY <1>3, <1>4, <1>5

(* A block filled again, and an empty block more. *)
LEMMA SumFilled ==
  ASSUME NEW chain \in Seq(Blocks), NEW s, Sums(chain, s), NEW n \in 1..Len(chain),
         NEW b \in Blocks
  PROVE  \E t : Sums([chain EXCEPT ![n] = b], t) /\
                t[Len(chain)] = s[Len(chain)] + (b.occupied - chain[n].occupied)
<1>0. PICK new : new = [chain EXCEPT ![n] = b]
  OBVIOUS
<1>1. PICK m \in Nat : m = Len(chain)
  OBVIOUS
<1>2. PICK e \in Int : e = b.occupied - chain[n].occupied
  <2>1. chain[n] \in Blocks
    BY ElementOfSeq
  <2> QED BY <2>1 DEF Blocks
<1>3. ASSUME NEW i \in 1..m PROVE chain[i].occupied \in Int
  <2>1. chain[i] \in Blocks
    BY <1>1, ElementOfSeq
  <2> QED BY <2>1 DEF Blocks
<1>4. Len(new) = m /\ \A i \in 1..m : new[i] = IF i = n THEN b ELSE chain[i]
  BY <1>0, <1>1
<1>5. PICK t : t = [k \in 0..m |-> IF k < n THEN s[k] ELSE s[k] + e]
  OBVIOUS
<1>6. \A k \in 0..m : s[k] \in Int
  BY <1>1 DEF Sums
<1>7. t \in [0..m -> Int] /\ t[0] = 0 /\ t[m] = s[m] + e
  BY <1>1, <1>5, <1>6 DEF Sums
<1>8. ASSUME NEW i \in 1..m PROVE t[i] = t[i - 1] + new[i].occupied
  <2>1. s[i] = s[i - 1] + chain[i].occupied /\ s[i] \in Int /\ s[i - 1] \in Int
    BY <1>1, <1>6 DEF Sums
  <2>2. t[i] = (IF i < n THEN s[i] ELSE s[i] + e)
    BY <1>5
  <2>3. t[i - 1] = (IF i - 1 < n THEN s[i - 1] ELSE s[i - 1] + e)
    <3>1. i - 1 \in 0..m
      OBVIOUS
    <3> QED BY <1>5, <3>1
  <2>4. new[i].occupied = IF i = n THEN b.occupied ELSE chain[i].occupied
    BY <1>4
  <2>5. i = n => b.occupied = chain[i].occupied + e
    BY <1>1, <1>2, <1>3 DEF Blocks
  <2>6. chain[i].occupied \in Int /\ n \in Int
    BY <1>3
  <2> QED BY <2>1, <2>2, <2>3, <2>4, <2>5, <2>6
<1>9. Sums(new, t) /\ t[m] = s[m] + (b.occupied - chain[n].occupied)
  BY <1>2, <1>4, <1>7, <1>8 DEF Sums
<1> QED BY <1>0, <1>1, <1>9

LEMMA SumAppended ==
  ASSUME NEW chain \in Seq(Blocks), NEW s, Sums(chain, s)
  PROVE  \E t : Sums(Append(chain, EmptyBlock), t) /\ t[Len(chain) + 1] = s[Len(chain)]
<1>1. PICK m \in Nat : m = Len(chain)
  OBVIOUS
<1>2. PICK new : new = Append(chain, EmptyBlock)
  OBVIOUS
<1>3. /\ Len(new) = m + 1 /\ \A i \in 1..m : new[i] = chain[i]
      /\ new[m + 1] = EmptyBlock
  BY <1>1, <1>2
<1>4. PICK t : t = [k \in 0..(m + 1) |-> IF k <= m THEN s[k] ELSE s[m]]
  OBVIOUS
<1>5. \A k \in 0..m : s[k] \in Int /\ t[k] = s[k]
  BY <1>1, <1>4 DEF Sums
<1>6. t[m + 1] = s[m] /\ t \in [0..(m + 1) -> Int] /\ t[0] = 0
  BY <1>1, <1>4, <1>5 DEF Sums
<1>7. ASSUME NEW i \in 1..m PROVE t[i] = t[i - 1] + new[i].occupied
  <2>1. i - 1 \in 0..m /\ i \in 0..m
    OBVIOUS
  <2>2. s[i] = s[i - 1] + chain[i].occupied
    BY <1>1 DEF Sums
  <2> QED BY <1>3, <1>5, <2>1, <2>2
<1>8. t[m + 1] = t[(m + 1) - 1] + new[m + 1].occupied
  <2>1. new[m + 1].occupied = 0
    BY <1>3 DEF EmptyBlock
  <2>2. (m + 1) - 1 = m /\ m \in 0..m
    OBVIOUS
  <2> QED BY <1>5, <1>6, <2>1, <2>2
<1>9. \A i \in 1..(m + 1) : i \in 1..m \/ i = m + 1
  OBVIOUS
<1>10. Sums(new, t)
  BY <1>3, <1>6, <1>7, <1>8, <1>9 DEF Sums
<1> QED BY <1>1, <1>2, <1>6, <1>10

-----------------------------------------------------------------------------
(***************************************************************************)
(* ufs_write.                                                              *)
(***************************************************************************)

(* A write in progress, with memory for a block per byte. *)
TidyWrites ==
  {w \in SoundWrites :
     /\ Tidy(w.data)
     /\ w.offset >= 0 /\ w.from >= 0
     /\ Len(w.rest) <= w.spare
     /\ w.status # "fault"}

(* What Tidy says is local to a block and to the sum. *)
LEMMA StoredSum ==
  ASSUME NEW w, MayCopy(w), Tidy(w.data), w.from >= 0
  PROVE  LET new == Stored(w).data
         IN  /\ new \in FileData /\ Len(new.chain) = Len(w.data.chain)
             /\ new.last = w.data.last
             /\ \A i \in 1..Len(new.chain) : new.chain[i].occupied \in 0..BlockSize
             /\ new.chain[w.cur].occupied = CurWrite(w) + w.from
             /\ \A i \in 1..Len(new.chain) : i # w.cur => new.chain[i] = w.data.chain[i]
             /\ \E s : Sums(new.chain, s) /\ s[Len(new.chain)] = new.size
<1> DEFINE chain == w.data.chain
<1>1. /\ chain \in Seq(Blocks) /\ w.cur \in 1..Len(chain) /\ w.data.size \in Int
      /\ w.from \in Nat /\ Len(chain) \in Nat
  BY DEF MayCopy, Writes, FileData
<1>2. PICK new : new = Stored(w).data
  OBVIOUS
<1>3. /\ new \in FileData /\ new.chain = [chain EXCEPT ![w.cur] = Filled(w)]
      /\ Len(new.chain) = Len(chain) /\ new.last = w.data.last
      /\ new.size = w.data.size + (CurWrite(w) + w.from - CurBlock(w).occupied)
  <2>1. Stored(w) \in Writes
    BY StoredFacts
  <2> QED BY <1>2, <2>1, StoredFacts DEF Writes
<1>4. CurBlock(w) = chain[w.cur] /\ CurBlock(w) \in Blocks /\ Filled(w) \in Blocks
  BY FilledIsABlock DEF MayCopy, CurBlock
<1>5. Filled(w).occupied = CurWrite(w) + w.from /\ CurWrite(w) + w.from \in 0..BlockSize
  <2>1. CurWrite(w) \in 1..Len(w.rest) /\ CurWrite(w) + w.from <= BlockSize
    BY CurWriteFacts DEF MayCopy
  <2> QED BY <1>1, <2>1, BlockSizeAssumption DEF Filled
<1>6. \A i \in 1..Len(chain) : new.chain[i] = IF i = w.cur THEN Filled(w) ELSE chain[i]
  BY <1>1, <1>3
<1>7. PICK s : Sums(chain, s) /\ s[Len(chain)] = w.data.size
  BY DEF Tidy
<1>8. PICK t : Sums(new.chain, t) /\
               t[Len(chain)] = s[Len(chain)] + (Filled(w).occupied - chain[w.cur].occupied)
  <2>1. PICK b \in Blocks : b = Filled(w)
    BY <1>4
  <2>2. PICK n \in 1..Len(chain) : n = w.cur
    BY <1>1
  <2>3. PICK c \in Seq(Blocks) : c = chain
    BY <1>1
  <2>4. Sums(c, s) /\ n \in 1..Len(c)
    BY <1>7, <2>3
  <2>5. \E u : Sums([c EXCEPT ![n] = b], u) /\
               u[Len(c)] = s[Len(c)] + (b.occupied - c[n].occupied)
    BY <2>4, SumFilled
  <2>6. [c EXCEPT ![n] = b] = new.chain
    BY <1>3, <2>1, <2>2, <2>3
  <2> QED BY <2>1, <2>2, <2>3, <2>5, <2>6
<1>9. \A i \in 1..Len(chain) : chain[i].occupied \in 0..BlockSize
  BY DEF Tidy
<1>10. \A i \in 1..Len(new.chain) : new.chain[i].occupied \in 0..BlockSize
  BY <1>3, <1>5, <1>6, <1>9
<1>11. \E u : Sums(new.chain, u) /\ u[Len(new.chain)] = new.size
  <2>1. t[Len(chain)] = w.data.size + (CurWrite(w) + w.from - CurBlock(w).occupied)
    <3>1. PICK o \in Int : o = CurBlock(w).occupied
      BY <1>4 DEF Blocks
    <3>2. PICK p \in Int : p = CurWrite(w) + w.from
      BY <1>5, BlockSizeAssumption
    <3>3. t[Len(chain)] = w.data.size + (p - o)
      BY <1>1, <1>4, <1>5, <1>7, <1>8, <3>1, <3>2
    <3>4. CurWrite(w) \in Int
      BY CurWriteFacts DEF MayCopy
    <3> QED BY <1>1, <3>1, <3>2, <3>3, <3>4
  <2> QED BY <1>3, <1>8, <2>1
<1> QED BY <1>1, <1>2, <1>3, <1>5, <1>6, <1>10, <1>11

LEMMA TurnIsTidy ==
  ASSUME NEW w \in TidyWrites
  PROVE  Turn(w) \in TidyWrites
<1>0. /\ w \in SoundWrites /\ w \in Writes /\ Tidy(w.data)
      /\ w.from \in Nat /\ w.offset \in Nat /\ w.spare \in Nat
      /\ w.rest \in Seq(Byte) /\ Len(w.rest) \in Nat /\ Len(w.rest) <= w.spare
      /\ w.data.chain \in Seq(Blocks) /\ Len(w.data.chain) \in Nat
  BY DEF TidyWrites, SoundWrites, Writes, FileData
<1>1. CASE ~(w.status = "run" /\ w.rest # << >>)
  BY <1>1 DEF Turn
<1>2. CASE w.status = "run" /\ w.rest # << >>
  <2>0. MayCopy(w) /\ Turn(w) = Copy(w) /\ Copy(w) \in SoundWrites
    BY <1>0, <1>2, TurnIsSound DEF SoundWrites, MayCopy, Turn
  <2>1. CASE ~FitsLimit(w)
    <3>1. Copy(w) = [w EXCEPT !.status = "nomem"]
      BY <2>1 DEF Copy
    <3> QED BY <1>0, <2>0, <3>1 DEF TidyWrites, Writes
  <2>2. CASE FitsLimit(w)
    <3> DEFINE x == Copy(w)
               n == CurWrite(w)
    <3>1. w.spare # 0
      BY <1>0, <1>2
    <3>2. /\ x \in Writes /\ x.data.size = Stored(w).data.size
          /\ x.offset = w.offset + n /\ x.from = 0
          /\ x.rest = SubSeq(w.rest, n + 1, Len(w.rest))
          /\ x.status = "run"
          /\ FillsTheLast(w) => /\ x.data.chain = Append(Stored(w).data.chain, EmptyBlock)
                                /\ x.data.last = LastMoved(w)
                                /\ x.spare = w.spare - 1
          /\ ~FillsTheLast(w) => /\ x.data.chain = Stored(w).data.chain
                                 /\ x.data.last = w.data.last
                                 /\ x.spare = w.spare
      BY <1>0, <2>0, <2>2, <3>1, CopyFacts
    <3>3. n \in 1..Len(w.rest)
      BY <2>0, CurWriteFacts, <1>0, <1>2 DEF SoundWrites
    <3> HIDE DEF x
    <3>4. Len(x.rest) = Len(w.rest) - n
      <4>1. PICK m \in 1..Len(w.rest) : m = n
        BY <3>3
      <4>2. m + 1 \in 1..(Len(w.rest) + 1) /\ Len(w.rest) \in m..Len(w.rest)
        BY <1>0
      <4>3. Len(SubSeq(w.rest, m + 1, Len(w.rest))) = Len(w.rest) - m
        BY <1>0, <4>2, SubSeqProperties
      <4> QED BY <3>2, <4>1, <4>3
    <3>5. Len(x.rest) <= x.spare /\ x.offset >= 0
      BY <1>0, <3>2, <3>3, <3>4
    <3> DEFINE new == Stored(w).data
    <3>6. /\ new \in FileData /\ Len(new.chain) = Len(w.data.chain)
          /\ new.last = w.data.last
          /\ \A i \in 1..Len(new.chain) : new.chain[i].occupied \in 0..BlockSize
          /\ new.chain[w.cur].occupied = n + w.from
          /\ \A i \in 1..Len(new.chain) : i # w.cur => new.chain[i] = w.data.chain[i]
          /\ \E s : Sums(new.chain, s) /\ s[Len(new.chain)] = new.size
      BY <1>0, <2>0, StoredSum
    <3>7. new.chain \in Seq(Blocks) /\ w.cur \in 1..Len(w.data.chain)
      BY <2>0, <3>6 DEF FileData, MayCopy
    <3>8. FillsTheLast(w) <=> n + w.from = BlockSize /\ w.cur = Len(w.data.chain)
      BY DEF FillsTheLast, Filled
    <3>9. n + w.from \in 0..BlockSize
      BY <3>6, <3>7
    <3> HIDE DEF new, n
    <3>10. Tidy(x.data)
      <4>1. x.data \in FileData
        BY <3>2 DEF Writes
      <4>2. CASE FillsTheLast(w)
        <5>1. x.data.chain = Append(new.chain, EmptyBlock)
          BY <3>2, <4>2 DEF new
        <5>2. /\ Len(x.data.chain) = Len(new.chain) + 1
              /\ \A i \in 1..Len(new.chain) : x.data.chain[i] = new.chain[i]
              /\ x.data.chain[Len(new.chain) + 1] = EmptyBlock
          BY <3>7, <5>1
        <5>3. EmptyBlock.occupied = 0
          BY DEF EmptyBlock
        <5>4. \A i \in 1..Len(x.data.chain) : x.data.chain[i].occupied \in 0..BlockSize
          <6>1. \A i \in 1..Len(x.data.chain) : i \in 1..Len(new.chain) \/ i = Len(new.chain) + 1
            BY <3>7, <5>2
          <6>2. 0 \in 0..BlockSize
            BY BlockSizeAssumption
          <6> QED BY <3>6, <5>2, <5>3, <6>1, <6>2
        <5>5. x.data.last = Len(x.data.chain)
          <6>1. w.data.last = Len(w.data.chain)
            BY <1>0 DEF Tidy
          <6> QED BY <3>2, <3>6, <3>8, <4>2, <5>2, <6>1 DEF LastMoved
        <5>6. PICK s : Sums(new.chain, s) /\ s[Len(new.chain)] = new.size
          BY <3>6
        <5>7. PICK t : Sums(x.data.chain, t) /\ t[Len(new.chain) + 1] = s[Len(new.chain)]
          BY <3>7, <5>1, <5>6, SumAppended
        <5>8. x.data.size = new.size
          BY <3>2 DEF new
        <5>9. x.data.chain[Len(x.data.chain)].occupied < BlockSize
          BY <5>2, <5>3, BlockSizeAssumption
        <5> QED BY <4>1, <5>2, <5>4, <5>5, <5>6, <5>7, <5>8, <5>9 DEF Tidy
      <4>3. CASE ~FillsTheLast(w)
        <5>1. x.data.chain = new.chain /\ x.data.last = w.data.last /\ x.data.size = new.size
          BY <3>2, <4>3 DEF new
        <5>2. x.data.last = Len(x.data.chain)
          BY <1>0, <3>6, <5>1 DEF Tidy
        <5>3. x.data.chain[Len(x.data.chain)].occupied < BlockSize
          <6>1. CASE w.cur = Len(w.data.chain)
            BY <3>6, <3>8, <3>9, <4>3, <5>1, <6>1, BlockSizeAssumption
          <6>2. CASE w.cur # Len(w.data.chain)
            <7>1. Len(w.data.chain) \in 1..Len(w.data.chain) /\ w.data.chain # << >>
              BY <1>0, <3>7
            <7>2. w.data.chain[Len(w.data.chain)].occupied < BlockSize
              BY <1>0, <7>1 DEF Tidy
            <7> QED BY <3>6, <5>1, <6>2, <7>1, <7>2
          <6> QED BY <6>1, <6>2
        <5> QED BY <3>6, <4>1, <5>1, <5>2, <5>3 DEF Tidy
      <4> QED BY <4>2, <4>3
    <3>11. x \in SoundWrites
      BY <2>0 DEF x
    <3>12. x \in TidyWrites
      <4>1. x.from >= 0 /\ x.status # "fault"
        BY <3>2
      <4> QED BY <3>5, <3>10, <3>11, <4>1 DEF TidyWrites
    <3> QED BY <2>0, <3>12 DEF x
  <2> QED BY <2>1, <2>2
<1> QED BY <1>1, <1>2

(* The walk of ufs_write ends at a block that was there, since the last    *)
(* one has room, and the whole of ufs_write keeps the books.               *)
LEMMA SeekIsTidy ==
  ASSUME NEW old, Tidy(old), NEW off \in Nat, NEW buf \in Seq(Byte),
         NEW spare \in Nat, Len(buf) + 1 <= spare,
         NEW w, w = Seek(FirstBlock(Starting(old, off, buf, spare)))
  PROVE  w \in TidyWrites
<1>1. /\ old \in FileData /\ LastIn(old) /\ old.chain \in Seq(Blocks)
      /\ Len(old.chain) \in Nat /\ old.last = Len(old.chain) /\ Len(buf) \in Nat
  BY TidyIsLastIn DEF Tidy, FileData
<1>2. w \in SoundWrites /\ w.rest = buf
  BY <1>1, SeekIsSound
<1>3. PICK t : Sums(old.chain, t) /\ t[Len(old.chain)] = old.size
  BY DEF Tidy
<1>4. old.size \in Nat /\ (Len(old.chain) # 0 => old.size < BlockSize * Len(old.chain))
  <2>1. \A k \in 0..Len(old.chain) : t[k] \in Nat /\ t[k] <= BlockSize * k
    BY <1>1, <1>3, SumBounds DEF Tidy
  <2>2. old.size \in Nat
    BY <1>1, <1>3, <2>1
  <2>3. CASE Len(old.chain) # 0
    <3>1. PICK m \in Nat : m + 1 = Len(old.chain)
      <4>1. Len(old.chain) - 1 \in Nat /\ (Len(old.chain) - 1) + 1 = Len(old.chain)
        BY <1>1, <2>3
      <4> QED BY <4>1
    <3>2. old.size = t[m] + old.chain[m + 1].occupied
      <4>1. m + 1 \in 1..Len(old.chain) /\ (m + 1) - 1 = m
        BY <3>1
      <4> QED BY <1>3, <3>1, <4>1 DEF Sums
    <3>3. old.chain[m + 1].occupied \in 0..(BlockSize - 1)
      <4>1. m + 1 \in 1..Len(old.chain) /\ old.chain # << >>
        BY <1>1, <3>1
      <4> QED BY <3>1, <4>1, BlockSizeAssumption DEF Tidy
    <3>4. PICK p \in Int : p = BlockSize * m
      BY BlockSizeAssumption
    <3>5. BlockSize * (m + 1) = p + BlockSize
      BY <3>4, BlockSizeAssumption
    <3>6. t[m] \in Nat /\ t[m] <= p
      BY <2>1, <3>1, <3>4
    <3>7. old.size < p + BlockSize
      BY <3>2, <3>3, <3>4, <3>6, BlockSizeAssumption
    <3>8. BlockSize * Len(old.chain) = p + BlockSize
      BY <3>1, <3>5
    <3> QED BY <2>2, <3>7, <3>8
  <2> QED BY <2>2, <2>3
<1>5. PICK s : s = Starting(old, off, buf, spare)
  OBVIOUS
<1>6. PICK start \in Nat : start = LesserOf(off, old.size) /\ start <= old.size
  BY <1>4 DEF LesserOf
<1>7. /\ s \in Writes /\ s.data = old /\ s.offset = start /\ s.from \in Nat
      /\ s.rest = buf /\ s.spare = spare /\ s.status = "run"
  <2>1. Rem(start, BlockSize) \in Nat
    <3>1. Rem(start, BlockSize) = start % BlockSize /\ start % BlockSize \in 0..(BlockSize - 1)
      BY Division
    <3> QED BY <3>1, BlockSizeAssumption
  <2> QED BY <1>1, <1>5, <1>6, <2>1, StartingFacts
<1>8. PICK b : b = FirstBlock(s)
  OBVIOUS
<1>9. /\ b \in Writes /\ b.rest = buf /\ b.offset = start /\ b.from = s.from
      /\ b.status = "run" /\ Len(buf) <= b.spare
      /\ Tidy(b.data) /\ start < BlockSize * Len(b.data.chain)
      /\ Len(b.data.chain) \in Nat
  <2>1. /\ b \in Writes /\ b.rest = buf /\ b.offset = start /\ b.from = s.from
        /\ b.data.size = old.size
    BY <1>1, <1>7, <1>8, FirstBlockFacts
  <2>2. CASE old.last # 0
    <3>1. b = s
      BY <1>1, <1>7, <1>8, <2>2, FirstBlockFacts
    <3>2. start < BlockSize * Len(old.chain)
      <4>1. PICK p \in Int : p = BlockSize * Len(old.chain)
        BY <1>1, BlockSizeAssumption
      <4> QED BY <1>1, <1>4, <1>6, <2>2, <4>1
    <3> QED BY <1>1, <1>7, <2>1, <3>1, <3>2
  <2>3. CASE old.last = 0
    <3>1. /\ b.data.chain = << EmptyBlock >> /\ b.data.last = 1
          /\ b.spare = spare - 1 /\ b.status = "run"
      <4>1. s.data.last = 0 /\ s.spare # 0
        BY <1>1, <1>7, <2>3
      <4> QED BY <1>1, <1>7, <1>8, <4>1, FirstBlockFacts
    <3>2. old.size = 0 /\ old.chain = << >>
      <4>1. Len(old.chain) = 0 /\ t[0] = 0
        BY <1>1, <1>3, <2>3 DEF Sums
      <4> QED BY <1>1, <1>3, <4>1
    <3>3. Len(b.data.chain) = 1 /\ b.data.chain[1] = EmptyBlock /\ EmptyBlock.occupied = 0
      BY <3>1 DEF EmptyBlock
    <3>4. \E u : Sums(b.data.chain, u) /\ u[1] = 0
      <4>1. PICK u : u = [k \in 0..1 |-> 0]
        OBVIOUS
      <4>2. u \in [0..1 -> Int] /\ u[0] = 0 /\ u[1] = 0
        BY <4>1
      <4>3. \A i \in 1..1 : i = 1
        OBVIOUS
      <4>4. Sums(b.data.chain, u)
        BY <3>3, <4>2, <4>3 DEF Sums
      <4> QED BY <4>2, <4>4
    <3>5. Tidy(b.data)
      <4>1. b.data \in FileData /\ b.data.size = 0
        BY <2>1, <3>2 DEF Writes
      <4>2. \A i \in 1..1 : i = 1
        OBVIOUS
      <4> QED BY <3>1, <3>3, <3>4, <4>1, <4>2, BlockSizeAssumption DEF Tidy
    <3>6. start < BlockSize * 1
      BY <1>6, <3>2, BlockSizeAssumption
    <3> QED BY <1>1, <2>1, <3>1, <3>3, <3>5, <3>6
  <2> QED BY <2>2, <2>3
<1>10. Target(b) <= Len(b.data.chain)
  <2>1. Target(b) = start \div BlockSize + 1
    BY <1>9 DEF Target
  <2>2. PICK q \in Nat : q = start \div BlockSize
    BY Division
  <2>3. PICK p \in Int : p = BlockSize * q
    BY BlockSizeAssumption
  <2>4. p <= start
    <3>1. start = BlockSize * (start \div BlockSize) + (start % BlockSize)
      BY Division
    <3>2. start % BlockSize \in 0..(BlockSize - 1)
      BY Division
    <3> QED BY <2>2, <2>3, <3>1, <3>2, BlockSizeAssumption
  <2>5. ~(Len(b.data.chain) <= q)
    <3>1. PICK m \in Nat : m = Len(b.data.chain)
      BY <1>9
    <3>2. m <= q => BlockSize * m <= p
      BY <2>3, BlockSizeAssumption
    <3>3. PICK r \in Int : r = BlockSize * m
      BY BlockSizeAssumption
    <3> QED BY <1>9, <2>4, <3>1, <3>2, <3>3
  <2> QED BY <1>9, <2>1, <2>2, <2>5
<1>11. w = Seek(b)
  BY <1>5, <1>8
<1>12. /\ w.data = b.data /\ w.spare = b.spare /\ w.status = "run"
       /\ w.offset = start /\ w.from = s.from
  BY <1>9, <1>10, <1>11, SeekFacts
<1> QED BY <1>2, <1>7, <1>9, <1>12 DEF TidyWrites

LEMMA WrittenIsTidy ==
  ASSUME NEW old, Tidy(old), NEW off \in Nat, NEW buf \in Seq(Byte),
         NEW spare \in Nat, Len(buf) + 1 <= spare
  PROVE  Written(old, off, buf, spare) \in TidyWrites
<1>1. PICK w : w = Seek(FirstBlock(Starting(old, off, buf, spare)))
  OBVIOUS
<1>2. w \in TidyWrites /\ Len(w.rest) \in Nat
  BY <1>1, SeekIsTidy DEF TidyWrites, SoundWrites, Writes
<1> DEFINE P == [k \in 0..Len(w.rest) |-> TidyWrites]
<1>3. w \in P[0]
  BY <1>2
<1>4. \A k \in 0..(Len(w.rest) - 1) : \A x \in P[k] : Turn(x) \in P[k + 1]
  BY <1>2, TurnIsTidy
<1>5. Copied(w) \in P[Len(w.rest)]
  <2> HIDE DEF P
  <2> QED BY <1>2, <1>3, <1>4, CopiedIsIn
<1> QED BY <1>1, <1>2, <1>5 DEF Written

-----------------------------------------------------------------------------
(***************************************************************************)
(* The invariant under all calls.                                          *)
(***************************************************************************)
AllTidy ==
  /\ \A f \in Files : Tidy(data[f])
  /\ \A d \in Fds : offset[d] >= 0

OverwriteInv ==
  /\ IInv /\ DataInv
  /\ plain \in BOOLEAN
  /\ plain => AllTidy

LEMMA InitOverwriteInv == OverwriteInit => OverwriteInv
<1> SUFFICES ASSUME OverwriteInit PROVE OverwriteInv
  OBVIOUS
<1>1. IInv /\ DataInv
  BY InitIInv, InitDataInv DEF OverwriteInit
<1>2. AllTidy
  BY EmptyIsTidy DEF OverwriteInit, Init, AllTidy
<1> QED BY <1>1, <1>2 DEF OverwriteInit, OverwriteInv

LEMMA TidyChanges ==
  ASSUME DataInv, AllTidy,
         \/ UNCHANGED data
         \/ \E f \in Files, x \in FileData : Tidy(x) /\ data' = [data EXCEPT ![f] = x],
         \/ UNCHANGED offset
         \/ \E d \in Fds, o \in Nat : offset' = [offset EXCEPT ![d] = o]
  PROVE  AllTidy'
<1>1. \A f \in Files : Tidy(data'[f])
  BY DEF DataInv, AllTidy
<1>2. \A d \in Fds : offset'[d] >= 0
  BY DEF DataInv, AllTidy
<1> QED BY <1>1, <1>2 DEF AllTidy

LEMMA OpenTidy ==
  ASSUME IInv, DataInv, AllTidy, NEW n, NEW flagSet, NEW heap,
         "CREATE" \in flagSet => FilesNamed(n) = {},
         Open(n, flagSet, heap)
  PROVE  AllTidy'
<1>1. CASE UNCHANGED << data, offset >>
  BY <1>1, TidyChanges
<1>2. CASE OpenNew(n, flagSet, heap) /\ ~UNCHANGED << data, offset >>
  <2>1. PICK f \in Files : /\ data' = [data EXCEPT ![f] = EmptyData]
                           /\ OccupyFd(f, flagSet, Heap0(heap) - 2)
    BY <1>2 DEF OpenNew, Crashes
  <2>2. UNCHANGED offset \/ \E d \in Fds, o \in Nat : offset' = [offset EXCEPT ![d] = o]
    BY <2>1, OccupyFdOffset
  <2> QED BY <2>1, <2>2, EmptyIsData, EmptyIsTidy, TidyChanges
<1>3. CASE OpenAgain(n, flagSet, heap)
  BY <1>3 DEF OpenAgain
<1>4. CASE OpenExisting(n, flagSet, heap) /\ ~UNCHANGED << data, offset >>
  <2>1. PICK f : UNCHANGED data /\ OccupyFd(f, flagSet, Heap0(heap))
    BY <1>4 DEF OpenExisting, Crashes
  <2>2. UNCHANGED offset \/ \E d \in Fds, o \in Nat : offset' = [offset EXCEPT ![d] = o]
    BY <2>1, OccupyFdOffset
  <2> QED BY <2>1, <2>2, TidyChanges
<1> QED BY <1>1, <1>2, <1>3, <1>4 DEF Open, OpenMissing, OpenWithoutTable

LEMMA WriteTidy ==
  ASSUME IInv, DataInv, AllTidy, NEW d, NEW buf \in Buffers, Write(d, buf, Plenty)
  PROVE  AllTidy'
<1>1. CASE UNCHANGED << data, offset >>
  BY <1>1, TidyChanges
<1>2. CASE IsOpen(d) /\ ~UNCHANGED << data, offset >>
  <2>1. d \in Fds /\ file[d] \in Files
    BY <1>2, OpenHasFile
  <2>2. PICK w : w = Written(data[file[d]], offset[d], buf, Plenty)
    OBVIOUS
  <2>3. w \in TidyWrites
    <3>1. Tidy(data[file[d]]) /\ offset[d] \in Nat
      BY <2>1 DEF DataInv, AllTidy
    <3>2. buf \in Seq(Byte) /\ Plenty \in Nat /\ Len(buf) + 2 <= Plenty
      BY BuffersAssumption, PlentyAssumption
    <3>3. Len(buf) + 1 <= Plenty
      BY <3>2
    <3> QED BY <2>2, <3>1, <3>2, <3>3, WrittenIsTidy
  <2>4. Tidy(w.data) /\ w.offset \in Nat
    BY <2>3 DEF TidyWrites, SoundWrites, Writes
  <2>5. /\ data' = [data EXCEPT ![file[d]] = w.data]
        /\ offset' = [offset EXCEPT ![d] = w.offset]
    BY <1>2, <2>2 DEF Write, BadFd, Crashes
  <2> QED BY <2>1, <2>4, <2>5, TidyIsLastIn, TidyChanges
<1> QED BY <1>1, <1>2 DEF Write, BadFd, Crashes

LEMMA ReadTidy ==
  ASSUME IInv, DataInv, AllTidy, NEW d, NEW n \in Counts, Read(d, n)
  PROVE  AllTidy'
<1>1. CASE UNCHANGED << data, offset >>
  BY <1>1, TidyChanges
<1>2. CASE /\ IsOpen(d) /\ data' = data
           /\ offset' = [offset EXCEPT ![d] = @ + Len(ReadBytes(data[file[d]], offset[d], n))]
  <2>1. d \in Fds /\ file[d] \in Files
    BY <1>2, OpenHasFile
  <2>2. data[file[d]].size \in Int /\ offset[d] \in Nat /\ n \in Nat
    BY <2>1, SizesAssumption DEF DataInv, FileData, AllTidy
  <2>3. ReadCount(data[file[d]], offset[d], n) \in Nat
    BY <2>2 DEF ReadCount, LesserOf
  <2>4. Len(ReadBytes(data[file[d]], offset[d], n)) \in Nat
    BY <2>3 DEF ReadBytes
  <2>5. PICK o \in Nat : o = offset[d] + Len(ReadBytes(data[file[d]], offset[d], n))
    BY <2>2, <2>4
  <2>6. offset' = [offset EXCEPT ![d] = o]
    BY <1>2, <2>5
  <2> QED BY <1>2, <2>1, <2>6, TidyChanges
<1> QED BY <1>1, <1>2 DEF Read, BadFd, Crashes

LEMMA CloseTidy ==
  ASSUME IInv, DataInv, AllTidy, NEW d, Close(d)
  PROVE  AllTidy'
<1>1. CASE BadFd(d)
  BY <1>1, TidyChanges DEF BadFd, Crashes
<1>2. CASE IsOpen(d) /\ ~BadFd(d)
  <2>1. d \in Fds /\ \E o \in Nat : offset' = [offset EXCEPT ![d] = o]
    BY <1>2, OpenHasFile DEF Close, FreeFd
  <2>2. UNCHANGED data \/ \E g \in Files : data' = [data EXCEPT ![g] = EmptyData]
    BY <1>2 DEF Close, Destroy, FilesNamed, IInv, TypeOK
  <2> QED BY <2>1, <2>2, EmptyIsData, EmptyIsTidy, TidyChanges
<1> QED BY <1>1, <1>2 DEF Close

LEMMA DeleteTidy ==
  ASSUME IInv, DataInv, AllTidy, NEW n, Delete(n)
  PROVE  AllTidy'
<1>1. UNCHANGED data \/ \E g \in Files : data' = [data EXCEPT ![g] = EmptyData]
  BY DEF Delete, Destroy, FilesNamed, IInv, TypeOK
<1>2. UNCHANGED offset
  BY DEF Delete
<1> QED BY <1>1, <1>2, EmptyIsData, EmptyIsTidy, TidyChanges

LEMMA NextOverwriteInv ==
  OverwriteInv /\ [OverwriteNext]_<< vars, plain >> => OverwriteInv'
<1> SUFFICES ASSUME OverwriteInv, [OverwriteNext]_<< vars, plain >>
             PROVE  OverwriteInv'
  OBVIOUS
<1>0. IInv /\ DataInv
  BY DEF OverwriteInv
<1>1. CASE plain /\ PlainCall /\ UNCHANGED plain
  <2>0. AllTidy /\ Plenty \in Nat
    BY <1>1, PlentyAssumption DEF OverwriteInv
  <2>1. ASSUME NEW n \in Names, NEW fl \in OpenFlags,
               "CREATE" \in fl <=> FilesNamed(n) = {}, Open(n, fl, Plenty)
        PROVE  IInv' /\ DataInv' /\ AllTidy'
    BY <1>0, <2>0, <2>1, OpenIInv, OpenDataInv, OpenTidy
  <2>2. ASSUME NEW d \in FdArguments, NEW buf \in Buffers, Write(d, buf, Plenty)
        PROVE  IInv' /\ DataInv' /\ AllTidy'
    BY <1>0, <2>0, <2>2, WriteIInv, WriteDataInv, WriteTidy
  <2>3. ASSUME NEW d \in FdArguments, NEW n \in Counts, Read(d, n)
        PROVE  IInv' /\ DataInv' /\ AllTidy'
    BY <1>0, <2>0, <2>3, ReadIInv, ReadDataInv, ReadTidy
  <2>4. ASSUME NEW d \in FdArguments, Close(d)
        PROVE  IInv' /\ DataInv' /\ AllTidy'
    BY <1>0, <2>0, <2>4, CloseIInv, CloseDataInv, CloseTidy
  <2>5. ASSUME NEW n \in Names, Delete(n)
        PROVE  IInv' /\ DataInv' /\ AllTidy'
    BY <1>0, <2>0, <2>5, DeleteIInv, DeleteDataInv, DeleteTidy
  <2>6. IInv' /\ DataInv' /\ AllTidy'
    BY <1>1, <2>1, <2>2, <2>3, <2>4, <2>5 DEF PlainCall
  <2> QED BY <1>1, <2>6 DEF OverwriteInv
<1>2. CASE AnyCall /\ plain' = FALSE
  BY <1>0, <1>2, NextIInv, NextDataInv DEF AnyCall, OverwriteInv
<1>3. CASE UNCHANGED << vars, plain >>
  <2>1. IInv' /\ DataInv'
    BY <1>0, <1>3, NextIInv, NextDataInv
  <2>2. plain => AllTidy'
    BY <1>0, <1>3, TidyChanges DEF OverwriteInv, vars
  <2> QED BY <1>3, <2>1, <2>2 DEF OverwriteInv
<1> QED BY <1>1, <1>2, <1>3 DEF OverwriteNext

LEMMA OverwriteInvariance == OverwriteSpec => []OverwriteInv
  BY InitOverwriteInv, NextOverwriteInv, PTL DEF OverwriteSpec

(* last_block is the last block of every list while the calls are plain,   *)
(* so that destroy_chain frees all blocks and no block is linked twice.    *)
THEOREM LastBlocksAreLast == OverwriteSpec => []LastBlockIsLast
<1>1. OverwriteInv => LastBlockIsLast
  BY DEF OverwriteInv, IInv, TypeOK, AllTidy, Tidy, LastBlockIsLast
<1> QED BY <1>1, OverwriteInvariance, PTL

(* file_size is the sum of the blocks' counts, whatever writes overlap,    *)
(* cut a block or stop at the size limit.                                  *)
THEOREM SizesAreSums == OverwriteSpec => []SizeIsOccupied
<1>1. OverwriteInv => SizeIsOccupied
  <2> SUFFICES ASSUME OverwriteInv, plain, NEW f \in file_list
               PROVE  data[f].size = Occupied(f)
    BY DEF SizeIsOccupied
  <2>1. Tidy(data[f])
    BY DEF OverwriteInv, IInv, TypeOK, AllTidy
  <2>2. data[f].chain \in Seq(Blocks)
    BY <2>1 DEF Tidy, FileData
  <2>3. PICK s : Sums(data[f].chain, s) /\ s[Len(data[f].chain)] = data[f].size
    BY <2>1 DEF Tidy
  <2> QED BY <2>2, <2>3, OccupiedIsTheSum
<1> QED BY <1>1, OverwriteInvariance, PTL

(* A call through a descriptor that is not behind the end of its file      *)
(* stays in the blocks of the file.                                        *)
THEOREM CallsAreInBounds == OverwriteSpec => []CallsStayInBlocks
<1>1. OverwriteInv => CallsStayInBlocks
  <2> SUFFICES ASSUME OverwriteInv, plain, NEW d \in Fds, IsOpen(d)
               PROVE  /\ offset[d] <= data[file[d]].size =>
                           \A n \in Counts : ~ReadFaults(data[file[d]], offset[d], n)
                      /\ \A buf \in Buffers :
                           Written(data[file[d]], offset[d], buf, Plenty).status # "fault"
    BY DEF CallsStayInBlocks
  <2>1. PICK x : x = data[file[d]]
    OBVIOUS
  <2>2. PICK off \in Nat : off = offset[d]
    BY DEF OverwriteInv, DataInv, AllTidy
  <2>3. Tidy(x) /\ x.chain \in Seq(Blocks) /\ Len(x.chain) \in Nat
    BY <2>1, OpenHasFile DEF OverwriteInv, AllTidy, Tidy, FileData
  <2>4. ASSUME NEW buf \in Buffers PROVE Written(x, off, buf, Plenty).status # "fault"
    <3>1. buf \in Seq(Byte) /\ Plenty \in Nat /\ Len(buf) + 2 <= Plenty
      BY BuffersAssumption, PlentyAssumption
    <3>2. Len(buf) + 1 <= Plenty
      BY <3>1
    <3>3. Written(x, off, buf, Plenty) \in TidyWrites
      BY <2>3, <3>1, <3>2, WrittenIsTidy
    <3> QED BY <3>3 DEF TidyWrites
  <2>5. PICK s : Sums(x.chain, s) /\ s[Len(x.chain)] = x.size
    BY <2>3 DEF Tidy
  <2>6. PICK room \in Int : room = BlockSize * Len(x.chain)
    BY <2>3, BlockSizeAssumption
  <2>7. x.size \in Nat /\ x.size <= room
    <3>1. s[Len(x.chain)] \in Nat /\ s[Len(x.chain)] <= BlockSize * Len(x.chain)
      BY <2>3, <2>5, SumBounds DEF Tidy
    <3> QED BY <2>5, <2>6, <3>1
  <2>8. ASSUME NEW n \in Counts, off <= x.size PROVE ~ReadFaults(x, off, n)
    <3>1. n \in Nat
      BY SizesAssumption
    <3>2. ReadCount(x, off, n) \in Nat /\ off + ReadCount(x, off, n) <= x.size
      BY <2>7, <2>8, <3>1 DEF ReadCount, LesserOf
    <3>3. ReadStart(off) = off
      BY DEF ReadStart
    <3>4. ~(Quot(off, BlockSize) > Len(x.chain))
      <4>1. PICK q \in Nat : q = off \div BlockSize /\ q = Quot(off, BlockSize)
        BY Division
      <4>2. PICK p \in Int : p = BlockSize * q
        BY BlockSizeAssumption
      <4>3. p <= off
        <5>1. off = BlockSize * (off \div BlockSize) + (off % BlockSize)
          BY Division
        <5>2. off % BlockSize \in 0..(BlockSize - 1)
          BY Division
        <5> QED BY <4>1, <4>2, <5>1, <5>2, BlockSizeAssumption
      <4>4. PICK m \in Nat : m = Len(x.chain) /\ room = BlockSize * m
        BY <2>3, <2>6
      <4>5. m < q => room + BlockSize <= p
        BY <4>2, <4>4, BlockSizeAssumption
      <4> QED BY <2>7, <2>8, <4>1, <4>3, <4>4, <4>5, BlockSizeAssumption
    <3> QED BY <2>6, <2>7, <3>2, <3>3, <3>4 DEF ReadFaults
  <2> QED BY <2>1, <2>2, <2>4, <2>8
<1> QED BY <1>1, OverwriteInvariance, PTL
=============================================================================
