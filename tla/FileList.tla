-------------------------------- MODULE FileList --------------------------------
(***************************************************************************)
(* The doubly linked list file_list of userfs.c, pointer by pointer: the   *)
(* insertion at the head in ufs_open, the unlinking in ufs_delete and the  *)
(* walk of find_file_by_name.  UserFsDirectory joins it to the calls of    *)
(* UserFs, which sees the list as a set of files and keeps their names.    *)
(***************************************************************************)
EXTENDS Naturals, FiniteSets

CONSTANTS
  Files,  \* addresses a struct file can have
  NULL

VARIABLES
  file_list,  \* the head of the list
  next,       \* next of each struct file
  prev,       \* prev of each struct file
  name        \* name of each allocated struct file, NULL for free memory

Allocated == {f \in Files : name[f] # NULL}

Init ==
  /\ file_list = NULL
  /\ next = [f \in Files |-> NULL]
  /\ prev = [f \in Files |-> NULL]

(* The files a walk from f meets in at most k steps, and f's own place.    *)
Walk[k \in Nat] ==
  IF k = 0 THEN file_list
  ELSE IF Walk[k - 1] = NULL THEN NULL ELSE next[Walk[k - 1]]

Length == Cardinality(Files)
Linked == {Walk[k] : k \in 0..Length} \ {NULL}

(* find_file_by_name: the first file of the name on the walk, or NULL. *)
Found(n) ==
  LET hits == {k \in 0..Length : Walk[k] # NULL /\ name[Walk[k]] = n}
  IN  IF hits = {} THEN NULL ELSE Walk[CHOOSE k \in hits : \A j \in hits : k <= j]

(* What the new file's next and the old head's prev become in ufs_open.    *)
(* The variant forgets the link backwards.                                 *)
LinkForward(f) ==
  /\ next' = [next EXCEPT ![f] = file_list]
  /\ prev' = [prev EXCEPT ![f] = NULL]
LinkBothWays(f) ==
  /\ next' = [next EXCEPT ![f] = file_list]
  /\ prev' = [g \in Files |-> IF g = f THEN NULL
                              ELSE IF g = file_list THEN f ELSE prev[g]]

(* ufs_open with UFS_CREATE links the file it has allocated. *)
Insert(f) ==
  /\ file_list' = f
  /\ LinkBothWays(f)

(* The head after f is unlinked.  The variant moves it only when the list  *)
(* becomes empty.                                                          *)
HeadUnlessLast(f) == IF next[f] = NULL /\ prev[f] = NULL THEN NULL ELSE file_list
HeadWithout(f) ==
  LET head == IF next[f] = NULL /\ prev[f] = NULL THEN NULL ELSE file_list
  IN  IF head = f THEN next[f] ELSE head

(* What the predecessor of f is linked to.  The variant cuts the list.     *)
NextCut(f) ==
  [g \in Files |-> IF g \in {f, prev[f]} THEN NULL ELSE next[g]]
NextWithout(f) ==
  [g \in Files |-> IF g = f THEN NULL ELSE IF g = prev[f] THEN next[f] ELSE next[g]]

(* ufs_delete of a file without descriptors unlinks it before it is freed. *)
Unlink(f) ==
  /\ prev' = [g \in Files |-> IF g = f THEN NULL
                              ELSE IF g = next[f] THEN prev[f] ELSE prev[g]]
  /\ next' = NextWithout(f)
  /\ file_list' = HeadWithout(f)

-----------------------------------------------------------------------------
(* The list holds exactly the files that were created and not deleted: no  *)
(* sequence of insertions and deletions, at the head, in the middle or at  *)
(* the end, loses a file or leaves freed memory reachable, and the walk    *)
(* ends (userfs.c:75-84, 250-264).  It is what makes file_list a set in    *)
(* UserFs.                                                                 *)
ListIsTheFiles ==
  /\ Linked = Allocated
  /\ Walk[Length] = NULL

(* prev undoes next, and only the head has no predecessor: the condition   *)
(* next == NULL && prev == NULL of ufs_delete (userfs.c:259) is true of    *)
(* the only file of a list and of no other.                                *)
PrevUndoesNext ==
  \A f \in Allocated :
    /\ next[f] # NULL => prev[next[f]] = f
    /\ prev[f] = NULL <=> file_list = f
=============================================================================
