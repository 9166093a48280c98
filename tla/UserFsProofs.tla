------------------------------ MODULE UserFsProofs ------------------------------
(***************************************************************************)
(* The invariants of the directory and of the descriptor table of UserFs,  *)
(* and, in the second part, that last_block stays in the block list: for   *)
(* any number of names, files and descriptors, any arguments of the calls  *)
(* and any moment at which the heap is exhausted.                          *)
(***************************************************************************)
EXTENDS UserFs, TLAPS, FiniteSetTheorems, WellFoundedInduction, SequenceTheorems

(* What the directory and the table are made of.  The contents of files    *)
(* and the descriptors' offsets and flags play no part.                    *)
dirState == << file_list, name, refs, del_flag, table, capacity, count, file >>

(* The descriptors in use, and the table's size before and behind the      *)
(* first call of ufs_open.                                                 *)
OpenFds == {d \in Fds : file[d] # NULL}

TableGrows ==
  /\ count <= capacity
  /\ table = "absent" => capacity = 0 /\ count = 0
  /\ table # "absent" => capacity > 0

(* The inductive invariant: the invariants to be proved need each other.   *)
(* Closing a descriptor frees the file it should only because names are    *)
(* unique, and they stay unique only because a ghost stays in the list.    *)
IInv ==
  /\ TypeOK
  /\ TableGrows
  /\ TableAccounts
  /\ RefsCountDescriptors
  /\ NoDanglingDescriptor
  /\ GhostsAreOpen
  /\ NamesAreUnique

LEMMA FdsFinite == IsFiniteSet(Fds) /\ Fds \subseteq Int
  BY CapacityAssumption, FS_Interval DEF Fds

(* A set of descriptors is finite, and so a subset of it has a size. *)
LEMMA FdSets ==
  ASSUME NEW S, S \subseteq Fds
  PROVE  IsFiniteSet(S) /\ Cardinality(S) \in Nat
  BY FdsFinite, FS_Subset, FS_CardinalityType

(* Opening a free descriptor d on f adds d to the descriptors of f. *)
LEMMA OpenedDescriptors ==
  ASSUME file \in [Fds -> Files \cup {NULL}], NEW d \in Fds, file[d] = NULL,
         NEW f \in Files, file' = [file EXCEPT ![d] = f]
  PROVE  /\ OpenFds' = OpenFds \cup {d}
         /\ Cardinality(OpenFds') = Cardinality(OpenFds) + 1
         /\ Cardinality(DescriptorsOf(f)') = Cardinality(DescriptorsOf(f)) + 1
         /\ \A g \in Files \ {f} : DescriptorsOf(g)' = DescriptorsOf(g)
<1>1. OpenFds' = OpenFds \cup {d} /\ d \notin OpenFds
  BY NullAssumption DEF OpenFds, Fds
<1>2. DescriptorsOf(f)' = DescriptorsOf(f) \cup {d} /\ d \notin DescriptorsOf(f)
  BY NullAssumption DEF DescriptorsOf, Fds
<1>3. \A g \in Files \ {f} : DescriptorsOf(g)' = DescriptorsOf(g)
  BY NullAssumption DEF DescriptorsOf, Fds
<1>4. IsFiniteSet(OpenFds) /\ IsFiniteSet(DescriptorsOf(f))
  BY FdSets DEF OpenFds, DescriptorsOf
<1> QED BY <1>1, <1>2, <1>3, <1>4, FS_AddElement

(* Closing descriptor d of f takes d away from them. *)
LEMMA ClosedDescriptors ==
  ASSUME file \in [Fds -> Files \cup {NULL}], NEW d \in Fds,
         NEW f \in Files, file[d] = f, file' = [file EXCEPT ![d] = NULL]
  PROVE  /\ OpenFds' = OpenFds \ {d}
         /\ Cardinality(OpenFds') = Cardinality(OpenFds) - 1
         /\ Cardinality(OpenFds) > 0
         /\ Cardinality(DescriptorsOf(f)') = Cardinality(DescriptorsOf(f)) - 1
         /\ Cardinality(DescriptorsOf(f)) > 0
         /\ \A g \in Files \ {f} : DescriptorsOf(g)' = DescriptorsOf(g)
<1>1. OpenFds' = OpenFds \ {d} /\ d \in OpenFds
  BY NullAssumption DEF OpenFds, Fds
<1>2. DescriptorsOf(f)' = DescriptorsOf(f) \ {d} /\ d \in DescriptorsOf(f)
  BY NullAssumption DEF DescriptorsOf, Fds
<1>3. \A g \in Files \ {f} : DescriptorsOf(g)' = DescriptorsOf(g)
  BY NullAssumption DEF DescriptorsOf, Fds
<1>4. /\ IsFiniteSet(OpenFds) /\ IsFiniteSet(DescriptorsOf(f))
      /\ Cardinality(OpenFds) \in Nat /\ Cardinality(DescriptorsOf(f)) \in Nat
  BY FdSets DEF OpenFds, DescriptorsOf
<1>5. OpenFds # {} /\ DescriptorsOf(f) # {}
  BY <1>1, <1>2
<1>6. Cardinality(OpenFds) > 0 /\ Cardinality(DescriptorsOf(f)) > 0
  BY <1>4, <1>5, FS_EmptySet
<1> QED BY <1>1, <1>2, <1>3, <1>4, <1>6, FS_RemoveElement

(* A file outside of the list has no descriptors. *)
LEMMA UnlinkedFilesAreClosed ==
  ASSUME IInv, NEW f \in Files \ file_list
  PROVE  refs[f] = 0 /\ DescriptorsOf(f) = {}
<1>1. DescriptorsOf(f) = {}
  BY NullAssumption DEF IInv, NoDanglingDescriptor, DescriptorsOf
<1> QED BY <1>1, FS_EmptySet DEF IInv, RefsCountDescriptors

-----------------------------------------------------------------------------
LEMMA InitIInv == Init => IInv
<1> SUFFICES ASSUME Init PROVE IInv
  OBVIOUS
<1> USE DEF Init
<1>1. TypeOK
  <2>1. del_flag \in [Files -> BOOLEAN]
    BY Zenon
  <2>2. fault \in BOOLEAN
    OBVIOUS
  <2> QED BY <2>1, <2>2, CapacityAssumption DEF TypeOK
<1>2. {d \in Fds : file[d] # NULL} = {} /\ \A f \in Files : DescriptorsOf(f) = {}
  BY NullAssumption DEF DescriptorsOf
<1>3. TableAccounts /\ RefsCountDescriptors
  BY <1>2, FS_EmptySet DEF TableAccounts, RefsCountDescriptors
<1>4. TableGrows /\ NoDanglingDescriptor /\ GhostsAreOpen /\ NamesAreUnique
  BY DEF TableGrows, NoDanglingDescriptor, GhostsAreOpen, NamesAreUnique
<1> QED BY <1>1, <1>3, <1>4 DEF IInv

(* A call that leaves the directory and the table alone. *)
LEMMA UnchangedIInv ==
  ASSUME IInv, UNCHANGED dirState, fault' \in BOOLEAN
  PROVE  IInv'
<1>1. TypeOK' /\ TableGrows' /\ NoDanglingDescriptor' /\ GhostsAreOpen' /\ NamesAreUnique'
  BY DEF dirState, IInv, TypeOK, TableGrows, NoDanglingDescriptor, GhostsAreOpen,
         NamesAreUnique
<1>2. TableAccounts' /\ RefsCountDescriptors'
  BY DEF dirState, IInv, TableAccounts, RefsCountDescriptors, DescriptorsOf
<1> QED BY <1>1, <1>2 DEF IInv

(* ufs_write, ufs_read and ufs_resize are such calls, and so is a crash. *)
LEMMA CrashIInv == ASSUME IInv, Crashes PROVE IInv'
  BY UnchangedIInv DEF Crashes, dirState

LEMMA BadFdIInv == ASSUME IInv, NEW d, BadFd(d) PROVE IInv'
<1>1. UNCHANGED dirState /\ fault' \in BOOLEAN
  BY DEF BadFd, Crashes, Fails, Returns, dirVars, tableVars, dirState, IInv, TypeOK
<1> QED BY <1>1, UnchangedIInv

LEMMA WriteIInv ==
  ASSUME IInv, NEW d, NEW buf, NEW spare, Write(d, buf, spare)
  PROVE  IInv'
<1>1. UNCHANGED dirState /\ fault' \in BOOLEAN
  BY DEF Write, BadFd, Crashes, Fails, Succeeds, Returns, dirVars, tableVars,
         dirState, IInv, TypeOK
<1> QED BY <1>1, UnchangedIInv

LEMMA ReadIInv ==
  ASSUME IInv, NEW d, NEW n, Read(d, n)
  PROVE  IInv'
<1>1. UNCHANGED dirState /\ fault' \in BOOLEAN
  BY DEF Read, BadFd, Crashes, Fails, Returns, dirVars, tableVars,
         dirState, IInv, TypeOK
<1> QED BY <1>1, UnchangedIInv

LEMMA ResizeIInv ==
  ASSUME IInv, NEW d, NEW newSize, NEW spare, Resize(d, newSize, spare)
  PROVE  IInv'
<1>1. UNCHANGED dirState /\ fault' \in BOOLEAN
  BY DEF Resize, BadFd, Crashes, Fails, Succeeds, Returns, dirVars, tableVars,
         dirState, IInv, TypeOK
<1> QED BY <1>1, UnchangedIInv

-----------------------------------------------------------------------------
(***************************************************************************)
(* ufs_open.                                                               *)
(***************************************************************************)

(* What occupy_fd does to the table and to the counters, whether it finds  *)
(* memory or not.                                                          *)
LEMMA OccupyFdFacts ==
  ASSUME IInv, NEW f \in Files, NEW flagSet, NEW heap, OccupyFd(f, flagSet, heap)
  PROVE  /\ capacity' \in 1..MaxCapacity /\ capacity <= capacity'
         /\ table' \in {"no_array", "ready"}
         /\ fault' \in BOOLEAN
         /\ \/ UNCHANGED << refs, count, file >> /\ count <= capacity'
            \/ /\ \E d \in Fds : /\ d < capacity' /\ file[d] = NULL
                                /\ file' = [file EXCEPT ![d] = f]
               /\ count' = count + 1 /\ count < capacity'
               /\ refs' = [refs EXCEPT ![f] = @ + 1]
<1>1. /\ Capacity0 \in Nat \ {0} /\ count \in Nat /\ capacity \in Nat
      /\ count <= Capacity0 /\ capacity <= Capacity0
  BY CapacityAssumption DEF Capacity0, IInv, TypeOK, TableGrows
<1>2. /\ capacity' = IF TableFull THEN 2 * Capacity0 ELSE Capacity0
      /\ capacity' <= MaxCapacity
      /\ table' \in {"no_array", "ready"}
  BY DEF OccupyFd
<1>3. capacity' \in 1..MaxCapacity /\ capacity <= capacity' /\ count < capacity'
  BY <1>1, <1>2, CapacityAssumption DEF TableFull
<1>4. fault' \in BOOLEAN
  BY DEF OccupyFd, Fails, Succeeds, IInv, TypeOK
<1>5. FreeFds \subseteq {d \in Fds : d < capacity' /\ file[d] = NULL}
  BY <1>3, CapacityAssumption DEF FreeFds, Fds
<1>6. CASE UNCHANGED << refs, count, file >>
  BY <1>1, <1>2, <1>3, <1>4, <1>6
<1>7. CASE /\ \E d \in FreeFds : file' = [file EXCEPT ![d] = f]
           /\ count' = count + 1 /\ refs' = RefsOpened(f)
  BY <1>2, <1>3, <1>4, <1>5, <1>7 DEF RefsOpened
<1> QED BY <1>6, <1>7 DEF OccupyFd

(* After occupy_fd the counters agree again with the table. *)
LEMMA OccupyFdAccounts ==
  ASSUME IInv, NEW f \in Files, NEW flagSet, NEW heap, OccupyFd(f, flagSet, heap)
  PROVE  /\ TableGrows' /\ TableAccounts' /\ RefsCountDescriptors'
         /\ refs' \in [Files -> Nat] /\ \A g \in Files : refs[g] <= refs'[g]
         /\ capacity' \in 0..MaxCapacity /\ count' \in 0..MaxCapacity
         /\ table' \in {"absent", "no_array", "ready"} /\ fault' \in BOOLEAN
         /\ file' \in [Fds -> Files \cup {NULL}]
         /\ \A d \in Fds : file'[d] # NULL => file'[d] = f \/ file'[d] = file[d]
<1> USE DEF IInv
<1>1. /\ capacity' \in 1..MaxCapacity /\ capacity <= capacity'
      /\ table' \in {"no_array", "ready"}
      /\ fault' \in BOOLEAN
      /\ capacity \in Nat /\ count \in Nat
  BY OccupyFdFacts, CapacityAssumption DEF TypeOK
<1>2. CASE UNCHANGED << refs, count, file >> /\ count <= capacity'
  <2>1. TableAccounts'
    BY <1>1, <1>2 DEF TableAccounts, TypeOK, Fds
  <2>2. RefsCountDescriptors'
    BY <1>2 DEF RefsCountDescriptors, DescriptorsOf
  <2>3. TableGrows' /\ count' \in 0..MaxCapacity
    BY <1>1, <1>2, CapacityAssumption DEF TableGrows, TypeOK
  <2> QED BY <1>1, <1>2, <2>1, <2>2, <2>3, CapacityAssumption DEF TypeOK
<1>3. CASE /\ \E d \in Fds : /\ d < capacity' /\ file[d] = NULL
                             /\ file' = [file EXCEPT ![d] = f]
           /\ count' = count + 1 /\ count < capacity'
           /\ refs' = [refs EXCEPT ![f] = @ + 1]
  <2>1. PICK d \in Fds : /\ d < capacity' /\ file[d] = NULL
                         /\ file' = [file EXCEPT ![d] = f]
    BY <1>3
  <2>2. file \in [Fds -> Files \cup {NULL}] /\ file' \in [Fds -> Files \cup {NULL}]
    BY <2>1 DEF TypeOK
  <2>3. /\ OpenFds' = OpenFds \cup {d}
        /\ Cardinality(OpenFds') = Cardinality(OpenFds) + 1
        /\ Cardinality(DescriptorsOf(f)') = Cardinality(DescriptorsOf(f)) + 1
        /\ \A g \in Files \ {f} : DescriptorsOf(g)' = DescriptorsOf(g)
    BY <2>1, <2>2, OpenedDescriptors
  <2>4. TableAccounts'
    <3>1. count' = Cardinality(OpenFds')
      BY <1>3, <2>3 DEF TableAccounts, OpenFds
    <3>2. \A e \in Fds : file'[e] # NULL => e < capacity'
      BY <1>1, <2>1, <2>2 DEF TableAccounts, Fds
    <3> QED BY <3>1, <3>2 DEF TableAccounts, OpenFds
  <2>5. RefsCountDescriptors'
    BY <1>3, <2>3 DEF RefsCountDescriptors, TypeOK
  <2>6. TableGrows' /\ count' \in 0..MaxCapacity
    BY <1>1, <1>3, CapacityAssumption DEF TableGrows
  <2>7. refs' \in [Files -> Nat] /\ \A g \in Files : refs[g] <= refs'[g]
    BY <1>3 DEF TypeOK
  <2>8. \A e \in Fds : file'[e] # NULL => file'[e] = f \/ file'[e] = file[e]
    BY <2>1, <2>2
  <2> QED BY <1>1, <2>2, <2>4, <2>5, <2>6, <2>7, <2>8, CapacityAssumption
<1> QED BY <1>2, <1>3, OccupyFdFacts

(* A call that only makes lazy_init allocate the table. *)
LEMMA LazyInitIInv ==
  ASSUME IInv, UNCHANGED << dirVars, refs, count, file >>, fault' \in BOOLEAN,
         \/ UNCHANGED << table, capacity >>
         \/ table = "absent" /\ capacity' = 1 /\ table' \in {"ready", "no_array"}
  PROVE  IInv'
<1>1. TypeOK' /\ TableGrows'
  BY CapacityAssumption DEF IInv, TypeOK, TableGrows, dirVars
<1>2. NoDanglingDescriptor' /\ GhostsAreOpen' /\ NamesAreUnique' /\ RefsCountDescriptors'
  BY DEF IInv, NoDanglingDescriptor, GhostsAreOpen, NamesAreUnique,
         RefsCountDescriptors, DescriptorsOf, dirVars
<1>3. TableAccounts'
  BY CapacityAssumption DEF IInv, TableAccounts, TypeOK, TableGrows, Fds
<1> QED BY <1>1, <1>2, <1>3 DEF IInv

LEMMA OpenNewIInv ==
  ASSUME IInv, NEW n \in Names, NEW flagSet, NEW heap, ~LazyInitFails(heap),
         OpenNew(n, flagSet, heap)
  PROVE  IInv'
<1>1. FilesNamed(n) = {}
  BY DEF OpenNew
<1>2. PICK f \in Files \ file_list :
        \/ /\ Fails("NO_MEM")
           /\ table' = IF table = "absent" THEN "ready" ELSE table
           /\ capacity' = Capacity0
           /\ UNCHANGED << dirVars, refs, data, count, file, offset, flags >>
        \/ Crashes
        \/ /\ file_list' = file_list \cup {f}
           /\ name' = [name EXCEPT ![f] = n]
           /\ del_flag' = [del_flag EXCEPT ![f] = FALSE]
           /\ OccupyFd(f, flagSet, Heap0(heap) - 2)
  BY DEF OpenNew
<1>3. CASE /\ Fails("NO_MEM")
           /\ table' = IF table = "absent" THEN "ready" ELSE table
           /\ capacity' = Capacity0
           /\ UNCHANGED << dirVars, refs, data, count, file, offset, flags >>
  <2>1. fault' \in BOOLEAN
    BY <1>3 DEF Fails, IInv, TypeOK
  <2> QED BY <1>3, <2>1, LazyInitIInv DEF Capacity0
<1>4. CASE Crashes
  BY <1>4, CrashIInv
<1>5. CASE /\ file_list' = file_list \cup {f}
           /\ name' = [name EXCEPT ![f] = n]
           /\ del_flag' = [del_flag EXCEPT ![f] = FALSE]
           /\ OccupyFd(f, flagSet, Heap0(heap) - 2)
  <2>1. /\ TableGrows' /\ TableAccounts' /\ RefsCountDescriptors'
        /\ refs' \in [Files -> Nat] /\ \A g \in Files : refs[g] <= refs'[g]
        /\ capacity' \in 0..MaxCapacity /\ count' \in 0..MaxCapacity
        /\ table' \in {"absent", "no_array", "ready"} /\ fault' \in BOOLEAN
        /\ file' \in [Fds -> Files \cup {NULL}]
        /\ \A d \in Fds : file'[d] # NULL => file'[d] = f \/ file'[d] = file[d]
    BY <1>5, OccupyFdAccounts
  <2>2. file_list' \subseteq Files /\ name' \in [Files -> Names \cup {NULL}]
    BY <1>5 DEF IInv, TypeOK
  <2>3. del_flag' \in [Files -> BOOLEAN]
    BY <1>5, Zenon DEF IInv, TypeOK
  <2>4. TypeOK'
    BY <2>1, <2>2, <2>3 DEF TypeOK
  <2>5. NoDanglingDescriptor'
    BY <1>5, <2>1 DEF IInv, NoDanglingDescriptor
  <2>6. GhostsAreOpen'
    <3> SUFFICES ASSUME NEW g \in file_list', del_flag'[g]
                 PROVE  refs'[g] > 0
      BY DEF GhostsAreOpen
    <3>1. g # f /\ g \in file_list /\ g \in Files
      BY <1>5 DEF IInv, TypeOK
    <3>2. del_flag[g]
      BY <1>5, <3>1 DEF IInv, TypeOK
    <3>3. refs[g] \in Nat /\ refs[g] > 0 /\ refs'[g] \in Nat /\ refs[g] <= refs'[g]
      BY <3>1, <3>2, <2>1 DEF IInv, TypeOK, GhostsAreOpen
    <3> QED BY <3>3
  <2>7. NamesAreUnique'
    BY <1>1, <1>5 DEF FilesNamed, IInv, TypeOK, NamesAreUnique
  <2> QED BY <2>1, <2>4, <2>5, <2>6, <2>7 DEF IInv
<1> QED BY <1>2, <1>3, <1>4, <1>5

(* A descriptor on a file that is in the list, which is no ghost then. *)
LEMMA OpenLinkedIInv ==
  ASSUME IInv, NEW f \in file_list, NEW flagSet, NEW heap, OccupyFd(f, flagSet, heap),
         UNCHANGED << file_list, name >>,
         del_flag' = [del_flag EXCEPT ![f] = FALSE] \/ UNCHANGED del_flag
  PROVE  IInv'
<1>0. f \in Files
  BY DEF IInv, TypeOK
<1>1. /\ TableGrows' /\ TableAccounts' /\ RefsCountDescriptors'
      /\ refs' \in [Files -> Nat] /\ \A g \in Files : refs[g] <= refs'[g]
      /\ capacity' \in 0..MaxCapacity /\ count' \in 0..MaxCapacity
      /\ table' \in {"absent", "no_array", "ready"} /\ fault' \in BOOLEAN
      /\ file' \in [Fds -> Files \cup {NULL}]
      /\ \A d \in Fds : file'[d] # NULL => file'[d] = f \/ file'[d] = file[d]
  BY <1>0, OccupyFdAccounts
<1>2. del_flag' \in [Files -> BOOLEAN]
  BY Zenon DEF IInv, TypeOK
<1>3. TypeOK'
  BY <1>1, <1>2 DEF IInv, TypeOK
<1>4. NoDanglingDescriptor'
  BY <1>1 DEF IInv, NoDanglingDescriptor
<1>5. GhostsAreOpen'
  <2> SUFFICES ASSUME NEW g \in file_list, del_flag'[g]
               PROVE  refs'[g] > 0
    BY DEF GhostsAreOpen
  <2>1. g \in Files /\ del_flag[g]
    BY DEF IInv, TypeOK
  <2>2. refs[g] \in Nat /\ refs[g] > 0 /\ refs'[g] \in Nat /\ refs[g] <= refs'[g]
    BY <2>1, <1>1 DEF IInv, TypeOK, GhostsAreOpen
  <2> QED BY <2>2
<1>6. NamesAreUnique'
  BY DEF IInv, NamesAreUnique
<1> QED BY <1>1, <1>3, <1>4, <1>5, <1>6 DEF IInv

LEMMA OpenIInv ==
  ASSUME IInv, NEW n \in Names, NEW flagSet, NEW heap, Open(n, flagSet, heap)
  PROVE  IInv'
<1>1. CASE OpenWithoutTable(heap)
  <2>1. /\ table = "absent" /\ fault' \in BOOLEAN
        /\ UNCHANGED << dirVars, refs, count, file >>
        /\ \/ UNCHANGED << table, capacity >>
           \/ capacity' = 1 /\ table' = "no_array"
    BY <1>1 DEF OpenWithoutTable, LazyInitFails, Fails, IInv, TypeOK
  <2> QED BY <2>1, LazyInitIInv
<1>2. CASE ~LazyInitFails(heap) /\ OpenNew(n, flagSet, heap)
  BY <1>2, OpenNewIInv
<1>3. CASE OpenAgain(n, flagSet, heap)
  <2>1. PICK f \in FilesNamed(n) :
          \/ Crashes
          \/ /\ del_flag' = [del_flag EXCEPT ![f] = FALSE]
             /\ UNCHANGED << file_list, name >>
             /\ OccupyFd(f, flagSet, Heap0(heap))
    BY <1>3 DEF OpenAgain
  <2>2. f \in file_list
    BY DEF FilesNamed
  <2> QED BY <2>1, <2>2, CrashIInv, OpenLinkedIInv
<1>4. CASE OpenExisting(n, flagSet, heap)
  <2>1. PICK f \in FilesNamed(n) :
          \/ Crashes
          \/ UNCHANGED << dirVars, data >> /\ OccupyFd(f, flagSet, Heap0(heap))
    BY <1>4 DEF OpenExisting
  <2>2. f \in file_list
    BY DEF FilesNamed
  <2> QED BY <2>1, <2>2, CrashIInv, OpenLinkedIInv DEF dirVars
<1>5. CASE OpenMissing(n, flagSet)
  <2>1. /\ fault' \in BOOLEAN
        /\ UNCHANGED << dirVars, refs, count, file >>
        /\ \/ UNCHANGED << table, capacity >>
           \/ table = "absent" /\ capacity' = 1 /\ table' = "ready"
    BY <1>5 DEF OpenMissing, Fails, Capacity0, IInv, TypeOK
  <2> QED BY <2>1, LazyInitIInv
<1> QED BY <1>1, <1>2, <1>3, <1>4, <1>5 DEF Open

-----------------------------------------------------------------------------
(***************************************************************************)
(* ufs_delete and ufs_close.                                               *)
(***************************************************************************)

(* Unlinking a file keeps what does not depend on the descriptors. *)
LEMMA DestroyKeeps ==
  ASSUME IInv, NEW f \in file_list, Destroy(f)
  PROVE  /\ file_list' \subseteq Files
         /\ name' \in [Files -> Names \cup {NULL}]
         /\ del_flag' \in [Files -> BOOLEAN]
         /\ \A g \in file_list' : g \in file_list /\ g # f /\ del_flag'[g] = del_flag[g]
         /\ NamesAreUnique'
<1>1. file_list' \subseteq Files /\ name' \in [Files -> Names \cup {NULL}]
  BY DEF Destroy, IInv, TypeOK
<1>2. del_flag' \in [Files -> BOOLEAN]
  BY Zenon DEF Destroy, IInv, TypeOK
<1>3. \A g \in file_list' : g \in file_list /\ g # f /\ del_flag'[g] = del_flag[g]
  BY DEF Destroy, IInv, TypeOK
<1>4. NamesAreUnique'
  BY DEF Destroy, IInv, TypeOK, NamesAreUnique
<1> QED BY <1>1, <1>2, <1>3, <1>4

LEMMA DeleteIInv ==
  ASSUME IInv, NEW n \in Names, Delete(n)
  PROVE  IInv'
<1>1. CASE UNCHANGED dirState /\ fault' \in BOOLEAN
  BY <1>1, UnchangedIInv
<1>2. CASE \E f \in FilesNamed(n) :
             /\ \/ /\ InUse(f)
                   /\ del_flag' = [del_flag EXCEPT ![f] = TRUE]
                   /\ UNCHANGED << file_list, name >>
                \/ ~InUse(f) /\ Destroy(f)
             /\ UNCHANGED << refs, tableVars, fault >>
  <2>1. PICK f \in FilesNamed(n) :
          /\ \/ /\ InUse(f)
                /\ del_flag' = [del_flag EXCEPT ![f] = TRUE]
                /\ UNCHANGED << file_list, name >>
             \/ ~InUse(f) /\ Destroy(f)
          /\ UNCHANGED << refs, tableVars, fault >>
    BY <1>2
  <2>2. f \in file_list /\ f \in Files
    BY DEF FilesNamed, IInv, TypeOK
  <2>3. TableGrows' /\ TableAccounts' /\ RefsCountDescriptors'
    BY <2>1 DEF tableVars, IInv, TableGrows, TableAccounts, RefsCountDescriptors,
                DescriptorsOf
  <2>4. CASE InUse(f) /\ del_flag' = [del_flag EXCEPT ![f] = TRUE]
             /\ UNCHANGED << file_list, name >>
    <3>1. del_flag' \in [Files -> BOOLEAN]
      BY <2>4, Zenon DEF IInv, TypeOK
    <3>2. TypeOK'
      BY <2>1, <2>4, <3>1 DEF tableVars, IInv, TypeOK
    <3>3. GhostsAreOpen'
      BY <2>1, <2>2, <2>4 DEF InUse, IInv, TypeOK, GhostsAreOpen
    <3>4. NoDanglingDescriptor' /\ NamesAreUnique'
      BY <2>1, <2>4 DEF tableVars, IInv, NoDanglingDescriptor, NamesAreUnique
    <3> QED BY <2>3, <3>2, <3>3, <3>4 DEF IInv
  <2>5. CASE ~InUse(f) /\ Destroy(f)
    <3>1. /\ file_list' \subseteq Files
          /\ name' \in [Files -> Names \cup {NULL}]
          /\ del_flag' \in [Files -> BOOLEAN]
          /\ \A g \in file_list' : g \in file_list /\ g # f /\ del_flag'[g] = del_flag[g]
          /\ NamesAreUnique'
      BY <2>2, <2>5, DestroyKeeps
    <3>2. TypeOK'
      BY <2>1, <3>1 DEF tableVars, IInv, TypeOK
    <3>3. GhostsAreOpen'
      BY <2>1, <3>1 DEF IInv, GhostsAreOpen
    <3>4. DescriptorsOf(f) = {}
      BY <2>2, <2>5, FdSets, FS_EmptySet
      DEF InUse, IInv, TypeOK, RefsCountDescriptors, DescriptorsOf
    <3>5. NoDanglingDescriptor'
      BY <2>1, <2>5, <3>4
      DEF tableVars, Destroy, DescriptorsOf, IInv, NoDanglingDescriptor
    <3> QED BY <2>3, <3>1, <3>2, <3>3, <3>5 DEF IInv
  <2> QED BY <2>1, <2>4, <2>5
<1> QED BY <1>1, <1>2
        DEF Delete, Fails, Succeeds, dirVars, tableVars, dirState, IInv, TypeOK

(* Closing an open descriptor: a ghost goes with its last descriptor, and  *)
(* the file found under its name is the ghost itself.                      *)
LEMMA CloseOpenIInv ==
  ASSUME IInv, NEW d, IsOpen(d), Close(d)
  PROVE  IInv'
<1>0. d \in Fds /\ file[d] \in Files /\ file[d] \in file_list
  BY CapacityAssumption DEF IsOpen, Fds, IInv, TypeOK, NoDanglingDescriptor
<1> PICK f \in Files : f = file[d]
  BY <1>0
<1>1. f = file[d] /\ f \in file_list /\ file \in [Fds -> Files \cup {NULL}]
  BY <1>0 DEF IInv, TypeOK
<1>2. /\ refs' = [refs EXCEPT ![f] = @ - 1]
      /\ file' = [file EXCEPT ![d] = NULL]
      /\ count' = count - 1
      /\ UNCHANGED << table, capacity, fault >>
      /\ IF LastClose(f)
         THEN \E g \in FilesNamed(name[f]) :
                IF refs'[g] = 0 THEN Destroy(g)
                ELSE /\ del_flag' = [del_flag EXCEPT ![g] = TRUE]
                     /\ UNCHANGED << file_list, name, data >>
         ELSE UNCHANGED << dirVars, data >>
  BY DEF Close, BadFd, LookupFaults, IsOpen, FreeFd, Succeeds
<1>3. /\ OpenFds' = OpenFds \ {d}
      /\ Cardinality(OpenFds') = Cardinality(OpenFds) - 1
      /\ Cardinality(OpenFds) > 0
      /\ Cardinality(DescriptorsOf(f)') = Cardinality(DescriptorsOf(f)) - 1
      /\ Cardinality(DescriptorsOf(f)) > 0
      /\ \A g \in Files \ {f} : DescriptorsOf(g)' = DescriptorsOf(g)
  BY <1>0, <1>1, <1>2, ClosedDescriptors
<1>4. refs[f] \in Nat /\ refs[f] > 0 /\ refs' \in [Files -> Nat]
  BY <1>1, <1>2, <1>3 DEF IInv, TypeOK, RefsCountDescriptors
<1>5. RefsCountDescriptors'
  BY <1>1, <1>2, <1>3 DEF IInv, TypeOK, RefsCountDescriptors
<1>6. TableAccounts'
  <2>1. count' = Cardinality(OpenFds')
    BY <1>2, <1>3 DEF IInv, TableAccounts, OpenFds
  <2>2. \A e \in Fds : file'[e] # NULL => e < capacity'
    BY <1>1, <1>2 DEF IInv, TableAccounts
  <2> QED BY <2>1, <2>2 DEF TableAccounts, OpenFds
<1>7. TableGrows' /\ count' \in 0..MaxCapacity
  <2>1. count > 0
    BY <1>3 DEF IInv, TableAccounts, OpenFds
  <2>2. count \in Nat /\ capacity \in Nat /\ count <= MaxCapacity /\ table # "absent"
    BY CapacityAssumption DEF IsOpen, IInv, TypeOK
  <2> QED BY <1>2, <2>1, <2>2, CapacityAssumption DEF IInv, TableGrows
<1>8. file' \in [Fds -> Files \cup {NULL}]
  BY <1>1, <1>2
<1>9. CASE LastClose(f)
  <2>1. FilesNamed(name[f]) = {f}
    BY <1>1 DEF FilesNamed, IInv, NamesAreUnique
  <2>2. refs[f] = 1 /\ refs'[f] = 0
    BY <1>1, <1>2, <1>4, <1>9 DEF LastClose, IInv, TypeOK
  <2>3. Destroy(f)
    BY <1>2, <1>9, <2>1, <2>2
  <2>4. /\ file_list' \subseteq Files
        /\ name' \in [Files -> Names \cup {NULL}]
        /\ del_flag' \in [Files -> BOOLEAN]
        /\ \A g \in file_list' : g \in file_list /\ g # f /\ del_flag'[g] = del_flag[g]
        /\ NamesAreUnique'
    BY <1>1, <2>3, DestroyKeeps
  <2>5. TypeOK'
    BY <1>2, <1>4, <1>7, <1>8, <2>4 DEF IInv, TypeOK
  <2>6. GhostsAreOpen'
    BY <1>2, <2>4 DEF IInv, TypeOK, GhostsAreOpen
  <2>7. DescriptorsOf(f)' = {}
    <3>1. IsFiniteSet(DescriptorsOf(f)')
      BY FdsFinite, FS_Subset DEF DescriptorsOf, Fds
    <3>2. Cardinality(DescriptorsOf(f)') = 0
      BY <1>5, <2>2 DEF RefsCountDescriptors
    <3> QED BY <3>1, <3>2, FS_EmptySet
  <2>8. NoDanglingDescriptor'
    BY <1>1, <1>2, <1>8, <2>3, <2>7
    DEF Destroy, DescriptorsOf, IInv, NoDanglingDescriptor
  <2> QED BY <1>5, <1>6, <1>7, <2>4, <2>5, <2>6, <2>8 DEF IInv
<1>10. CASE ~LastClose(f)
  <2>1. UNCHANGED dirVars
    BY <1>2, <1>10
  <2>2. TypeOK'
    BY <1>2, <1>4, <1>7, <1>8, <2>1 DEF dirVars, IInv, TypeOK
  <2>3. NoDanglingDescriptor' /\ NamesAreUnique'
    BY <1>1, <1>2, <2>1 DEF dirVars, IInv, NoDanglingDescriptor, NamesAreUnique
  <2>4. GhostsAreOpen'
    <3> SUFFICES ASSUME NEW g \in file_list, del_flag[g]
                 PROVE  refs'[g] > 0
      BY <2>1 DEF dirVars, GhostsAreOpen
    <3>1. g \in Files /\ refs[g] \in Nat /\ refs[g] > 0
      BY DEF IInv, TypeOK, GhostsAreOpen
    <3>2. CASE g = f
      BY <1>2, <1>10, <3>1, <3>2 DEF LastClose, IInv, TypeOK
    <3>3. CASE g # f
      BY <1>2, <3>1, <3>3 DEF IInv, TypeOK
    <3> QED BY <3>2, <3>3
  <2> QED BY <1>5, <1>6, <1>7, <2>2, <2>3, <2>4 DEF IInv
<1> QED BY <1>9, <1>10

LEMMA CloseIInv ==
  ASSUME IInv, NEW d, Close(d)
  PROVE  IInv'
BY BadFdIInv, CloseOpenIInv DEF Close

-----------------------------------------------------------------------------
(* Every call keeps the inductive invariant. *)
LEMMA NextIInv == IInv /\ [Next]_vars => IInv'
<1> SUFFICES ASSUME IInv, [Next]_vars PROVE IInv'
  OBVIOUS
<1>1. ASSUME NEW n \in Names, NEW fl \in OpenFlags, NEW heap, Open(n, fl, heap)
      PROVE  IInv'
  BY <1>1, OpenIInv
<1>2. ASSUME NEW d, NEW buf, NEW spare, Write(d, buf, spare)
      PROVE  IInv'
  BY <1>2, WriteIInv
<1>3. ASSUME NEW d, NEW n, Read(d, n)
      PROVE  IInv'
  BY <1>3, ReadIInv
<1>4. ASSUME NEW d, NEW size, NEW spare, Resize(d, size, spare)
      PROVE  IInv'
  BY <1>4, ResizeIInv
<1>5. ASSUME NEW d, Close(d)
      PROVE  IInv'
  BY <1>5, CloseIInv
<1>6. ASSUME NEW n \in Names, Delete(n)
      PROVE  IInv'
  BY <1>6, DeleteIInv
<1>7. CASE UNCHANGED vars
  BY <1>7, UnchangedIInv DEF vars, dirState, IInv, TypeOK
<1> QED BY <1>1, <1>2, <1>3, <1>4, <1>5, <1>6, <1>7 DEF Next

LEMMA Invariance == Spec => []IInv
  BY InitIInv, NextIInv, PTL DEF Spec

(* The directory and the table are always well-formed. *)
THEOREM UserFsTypes == Spec => []TypeOK
<1>1. IInv => TypeOK
  BY DEF IInv
<1> QED BY <1>1, Invariance, PTL

(* refs is the number of open descriptors of a file, always: the counter   *)
(* that decides when a file is freed is right.                             *)
THEOREM RefsAreRight == Spec => []RefsCountDescriptors
<1>1. IInv => RefsCountDescriptors
  BY DEF IInv
<1> QED BY <1>1, Invariance, PTL

(* No open descriptor points to a freed file. *)
THEOREM DescriptorsHaveFiles == Spec => []NoDanglingDescriptor
<1>1. IInv => NoDanglingDescriptor
  BY DEF IInv
<1> QED BY <1>1, Invariance, PTL

(* A deleted file stays only as long as it has descriptors. *)
THEOREM GhostsGo == Spec => []GhostsAreOpen
<1>1. IInv => GhostsAreOpen
  BY DEF IInv
<1> QED BY <1>1, Invariance, PTL

(* No two files, ghosts included, have the same name. *)
THEOREM UniqueNames == Spec => []NamesAreUnique
<1>1. IInv => NamesAreUnique
  BY DEF IInv
<1> QED BY <1>1, Invariance, PTL

(* The descriptor table's count and capacity fit its slots. *)
THEOREM TableIsSound == Spec => []TableAccounts
<1>1. IInv => TableAccounts
  BY DEF IInv
<1> QED BY <1>1, Invariance, PTL

-----------------------------------------------------------------------------
(***************************************************************************)
(* The contents of files.                                                  *)
(***************************************************************************)

LEMMA LeastNumber ==
  ASSUME NEW T, T \subseteq Nat, T # {}
  PROVE  \E x \in T : \A y \in T : x <= y
<1>1. IsWellFoundedOn(OpToRel(<, Nat), Nat)
  BY NatLessThanWellFounded
<1>2. \E x \in T : \A y \in T : << y, x >> \notin OpToRel(<, Nat)
  BY <1>1, WFMin
<1>3. PICK x \in T : \A y \in T : << y, x >> \notin OpToRel(<, Nat)
  BY <1>2
<1>4. \A y \in T : ~(y < x)
  BY <1>3 DEF OpToRel
<1> QED BY <1>4

-----------------------------------------------------------------------------
(***************************************************************************)
(* The copying loop of ufs_write.                                          *)
(***************************************************************************)

(* g[k] is the write after k turns. *)
Turns(w, n, g) == g = [k \in 0..n |-> IF k = 0 THEN w ELSE Turn(g[k - 1])]

LEMMA TurnsExist ==
  ASSUME NEW w, NEW n \in Nat
  PROVE  \E g : Turns(w, n, g)
<1> DEFINE Bad == {k \in Nat : ~\E g : Turns(w, k, g)}
<1>1. Bad = {}
  <2> SUFFICES ASSUME Bad # {} PROVE FALSE
    OBVIOUS
  <2>1. PICK k \in Bad : \A j \in Bad : k <= j
    <3>1. Bad \subseteq Nat
      OBVIOUS
    <3> HIDE DEF Bad
    <3> QED BY <3>1, LeastNumber
  <2>2. k \in Nat /\ ~\E g : Turns(w, k, g)
    OBVIOUS
  <2>3. CASE k = 0
    <3> DEFINE g == [i \in 0..0 |-> w]
    <3>1. g = [i \in 0..0 |-> IF i = 0 THEN w ELSE Turn(g[i - 1])]
      OBVIOUS
    <3> QED BY <2>2, <2>3, <3>1 DEF Turns
  <2>4. CASE k # 0
    <3>1. PICK j \in Nat : k = j + 1
      <4>1. k - 1 \in Nat /\ k = (k - 1) + 1
        BY <2>2, <2>4
      <4> QED BY <4>1
    <3>2. j \notin Bad
      BY <2>1, <3>1
    <3>3. PICK h : Turns(w, j, h)
      BY <3>2
    <3> DEFINE g == [i \in 0..k |-> IF i = 0 THEN w ELSE Turn(h[i - 1])]
    <3>4. \A i \in 0..j : g[i] = h[i]
      BY <3>1, <3>3 DEF Turns
    <3>5. \A i \in 0..k : i # 0 => i - 1 \in 0..j
      BY <3>1
    <3>6. g = [i \in 0..k |-> IF i = 0 THEN w ELSE Turn(g[i - 1])]
      BY <3>4, <3>5
    <3> QED BY <2>2, <3>6 DEF Turns
  <2> QED BY <2>3, <2>4
<1> QED BY <1>1

(* What holds of the write at first and is kept by each turn holds in the  *)
(* end: P[k] is the set of the writes that may be there after k turns.     *)
LEMMA CopiedIsIn ==
  ASSUME NEW w, Len(w.rest) \in Nat, NEW P, w \in P[0],
         \A k \in 0..(Len(w.rest) - 1) : \A x \in P[k] : Turn(x) \in P[k + 1]
  PROVE  Copied(w) \in P[Len(w.rest)]
<1>1. PICK n \in Nat : n = Len(w.rest)
  OBVIOUS
<1> DEFINE g == CHOOSE g : Turns(w, n, g)
<1>2. Turns(w, n, g)
  BY TurnsExist
<1>3. Copied(w) = g[n]
  BY <1>1 DEF Copied, Turns
<1> HIDE DEF g
<1> DEFINE Bad == {k \in 0..n : g[k] \notin P[k]}
<1>4. Bad = {}
  <2> SUFFICES ASSUME Bad # {} PROVE FALSE
    OBVIOUS
  <2>1. PICK k \in Bad : \A j \in Bad : k <= j
    <3>1. Bad \subseteq Nat
      OBVIOUS
    <3> HIDE DEF Bad
    <3> QED BY <3>1, LeastNumber
  <2>2. k \in 0..n /\ g[k] \notin P[k]
    OBVIOUS
  <2>3. CASE k = 0
    BY <1>2, <2>2, <2>3 DEF Turns
  <2>4. CASE k # 0
    <3>1. PICK j \in 0..(n - 1) : k = j + 1
      <4>1. k - 1 \in 0..(n - 1) /\ k = (k - 1) + 1
        BY <2>2, <2>4
      <4> QED BY <4>1
    <3>2. g[j] \in P[j]
      BY <2>1, <3>1
    <3>3. g[k] = Turn(g[j])
      BY <1>2, <2>2, <3>1 DEF Turns
    <3>4. Turn(g[j]) \in P[j + 1]
      BY <1>1, <3>2
    <3> QED BY <2>2, <3>1, <3>3, <3>4
  <2> QED BY <2>3, <2>4
<1> QED BY <1>1, <1>3, <1>4

-----------------------------------------------------------------------------
(***************************************************************************)
(* The types of the data, and last_block: the invariant of all calls.      *)
(***************************************************************************)
Blocks   == [memory : [0..(BlockSize - 1) -> Byte], occupied : Int]
FileData == [chain : Seq(Blocks), last : Nat, size : Int]
Writes   ==
  [data : FileData, offset : Int, cur : Int, from : Int, rest : Seq(Byte),
   spare : Nat, status : {"run", "nomem", "fault"}]

LastIn(x) ==
  /\ x.last <= Len(x.chain)
  /\ x.last = 0 <=> x.chain = << >>

LEMMA EmptyIsABlock == EmptyBlock \in Blocks
  BY BlockSizeAssumption DEF EmptyBlock, Blocks, Byte

LEMMA EmptyIsData == EmptyData \in FileData /\ LastIn(EmptyData)
  BY DEF EmptyData, FileData, LastIn

(* A block more, or no memory. *)
LEMMA ExtendFacts ==
  ASSUME NEW w \in Writes
  PROVE  /\ Extend(w) \in Writes
         /\ w.spare = 0 => Extend(w) = [w EXCEPT !.status = "nomem"]
         /\ w.spare # 0 =>
              /\ Extend(w).data.chain = Append(w.data.chain, EmptyBlock)
              /\ Len(Extend(w).data.chain) = Len(w.data.chain) + 1
              /\ Extend(w).data.last = w.data.last
              /\ Extend(w).data.size = w.data.size
              /\ Extend(w).offset = w.offset /\ Extend(w).cur = w.cur
              /\ Extend(w).from = w.from /\ Extend(w).rest = w.rest
              /\ Extend(w).spare = w.spare - 1 /\ Extend(w).status = w.status
<1>1. w.data \in FileData /\ w.data.chain \in Seq(Blocks) /\ w.spare \in Nat
  BY DEF Writes, FileData
<1>2. CASE w.spare = 0
  BY <1>2 DEF Extend, Writes
<1>3. CASE w.spare # 0
  <2>1. Append(w.data.chain, EmptyBlock) \in Seq(Blocks)
    BY <1>1, EmptyIsABlock
  <2>2. Len(Append(w.data.chain, EmptyBlock)) = Len(w.data.chain) + 1
    BY <1>1
  <2>3. Extend(w) = [w EXCEPT !.data.chain = Append(@, EmptyBlock), !.spare = @ - 1]
    BY <1>3 DEF Extend
  <2>4. PICK new \in FileData : new = [w.data EXCEPT !.chain = Append(@, EmptyBlock)]
    BY <1>1, <2>1 DEF FileData
  <2>5. /\ new.chain = Append(w.data.chain, EmptyBlock)
        /\ new.last = w.data.last /\ new.size = w.data.size
    BY <1>1, <2>4 DEF FileData
  <2>6. Extend(w) = [data |-> new, offset |-> w.offset, cur |-> w.cur, from |-> w.from,
                     rest |-> w.rest, spare |-> w.spare - 1, status |-> w.status]
    BY <2>3, <2>4 DEF Writes
  <2>7. /\ Extend(w) \in Writes /\ Extend(w).data = new
        /\ Extend(w).offset = w.offset /\ Extend(w).cur = w.cur
        /\ Extend(w).from = w.from /\ Extend(w).rest = w.rest
        /\ Extend(w).spare = w.spare - 1 /\ Extend(w).status = w.status
    BY <1>1, <1>3, <2>6 DEF Writes
  <2> QED BY <1>3, <2>2, <2>5, <2>7
<1> QED BY <1>2, <1>3

(* The part of a block that a turn fills. *)
LEMMA CurWriteFacts ==
  ASSUME NEW w \in Writes, w.rest # << >>, w.from < BlockSize
  PROVE  /\ CurWrite(w) \in 1..Len(w.rest)
         /\ CurWrite(w) + w.from <= BlockSize
         /\ CurWrite(w) = Len(w.rest) \/ CurWrite(w) + w.from = BlockSize
<1>1. w.rest \in Seq(Byte) /\ Len(w.rest) \in Nat /\ Len(w.rest) > 0 /\ w.from \in Int
  BY DEF Writes
<1> QED BY <1>1, BlockSizeAssumption DEF CurWrite, LesserOf

LEMMA FilledIsABlock ==
  ASSUME NEW w \in Writes, w.rest # << >>, w.from < BlockSize,
         w.cur \in 1..Len(w.data.chain)
  PROVE  CurBlock(w) \in Blocks /\ Filled(w) \in Blocks
<1>1. CurBlock(w) \in Blocks
  BY DEF CurBlock, Writes, FileData
<1>2. /\ DOMAIN CurBlock(w).memory = 0..(BlockSize - 1)
      /\ \A k \in 0..(BlockSize - 1) : CurBlock(w).memory[k] \in Byte
  BY <1>1 DEF Blocks
<1>3. CurWrite(w) \in 1..Len(w.rest) /\ w.rest \in Seq(Byte) /\ w.from \in Int
  BY CurWriteFacts DEF Writes
<1>4. \A k \in 0..(BlockSize - 1) :
        k \in w.from..(w.from + CurWrite(w) - 1) => w.rest[k - w.from + 1] \in Byte
  <2> SUFFICES ASSUME NEW k \in 0..(BlockSize - 1), k \in w.from..(w.from + CurWrite(w) - 1)
               PROVE  w.rest[k - w.from + 1] \in Byte
    OBVIOUS
  <2>1. PICK i : i = k - w.from + 1
    OBVIOUS
  <2>2. i \in 1..Len(w.rest)
    BY <1>3, <2>1, BlockSizeAssumption
  <2> QED BY <1>3, <2>1, <2>2
<1> QED BY <1>1, <1>2, <1>3, <1>4 DEF Filled, Blocks

(* A turn that has a block to fill. *)
MayCopy(w) ==
  /\ w \in Writes
  /\ w.status = "run" /\ w.rest # << >>
  /\ w.from < BlockSize
  /\ w.cur \in 1..Len(w.data.chain)

LEMMA StoredFacts ==
  ASSUME NEW w, MayCopy(w)
  PROVE  /\ Stored(w) \in Writes
         /\ Stored(w).data.chain = [w.data.chain EXCEPT ![w.cur] = Filled(w)]
         /\ Len(Stored(w).data.chain) = Len(w.data.chain)
         /\ Stored(w).data.last = w.data.last
         /\ Stored(w).data.size =
              w.data.size + (CurWrite(w) + w.from - CurBlock(w).occupied)
         /\ Stored(w).offset = w.offset /\ Stored(w).cur = w.cur
         /\ Stored(w).from = w.from /\ Stored(w).rest = w.rest
         /\ Stored(w).spare = w.spare /\ Stored(w).status = "run"
<1> USE DEF MayCopy
<1>1. /\ w.data \in FileData /\ w.data.chain \in Seq(Blocks)
      /\ w.data.size \in Int /\ w.from \in Int /\ w.rest \in Seq(Byte)
  BY DEF Writes, FileData
<1>2. CurBlock(w) \in Blocks /\ Filled(w) \in Blocks
  BY FilledIsABlock
<1>3. CurWrite(w) \in Int /\ CurBlock(w).occupied \in Int
  BY <1>1, <1>2, CurWriteFacts DEF Blocks
<1>4. PICK chain \in Seq(Blocks) : chain = [w.data.chain EXCEPT ![w.cur] = Filled(w)]
  BY <1>1, <1>2, ExceptSeq
<1>5. Len(chain) = Len(w.data.chain)
  BY <1>1, <1>4
<1>6. PICK size \in Int :
        size = w.data.size + (CurWrite(w) + w.from - CurBlock(w).occupied)
  BY <1>1, <1>3
<1>7. PICK new \in FileData :
        new = [chain |-> chain, last |-> w.data.last, size |-> size]
  BY <1>1 DEF FileData
<1>8. Stored(w) = [data |-> new, offset |-> w.offset, cur |-> w.cur, from |-> w.from,
                   rest |-> w.rest, spare |-> w.spare, status |-> w.status]
  <2>1. w.data.size + SizeGrowth(w, CurWrite(w), CurBlock(w)) = size
    BY <1>6 DEF SizeGrowth
  <2>2. Stored(w) = [w EXCEPT !.data = new]
    BY <1>4, <1>7, <2>1 DEF Stored
  <2> QED BY <2>2 DEF Writes
<1>9. Stored(w) \in Writes
  BY <1>1, <1>8 DEF Writes
<1>10. /\ Stored(w).data = new
       /\ Stored(w).offset = w.offset /\ Stored(w).cur = w.cur
       /\ Stored(w).from = w.from /\ Stored(w).rest = w.rest
       /\ Stored(w).spare = w.spare /\ Stored(w).status = "run"
  BY <1>8
<1>11. new.chain = chain /\ new.last = w.data.last /\ new.size = size
  BY <1>7
<1> QED BY <1>4, <1>5, <1>6, <1>9, <1>10, <1>11

LEMMA LinkedFacts ==
  ASSUME NEW w, MayCopy(w)
  PROVE  /\ Linked(w) \in Writes
         /\ FillsTheLast(w) /\ w.spare = 0 =>
              Linked(w) = [Stored(w) EXCEPT !.status = "nomem"]
         /\ ~FillsTheLast(w) => Linked(w) = Stored(w)
         /\ FillsTheLast(w) /\ w.spare # 0 =>
              /\ Linked(w).data.chain = Append(Stored(w).data.chain, EmptyBlock)
              /\ Len(Linked(w).data.chain) = Len(w.data.chain) + 1
              /\ Linked(w).data.last = LastMoved(w)
              /\ Linked(w).data.size = Stored(w).data.size
              /\ Linked(w).offset = w.offset /\ Linked(w).cur = w.cur
              /\ Linked(w).rest = w.rest
              /\ Linked(w).spare = w.spare - 1 /\ Linked(w).status = "run"
<1>1. /\ Stored(w) \in Writes /\ Stored(w).spare = w.spare /\ Stored(w).status = "run"
      /\ Len(Stored(w).data.chain) = Len(w.data.chain)
      /\ Stored(w).data.last = w.data.last
      /\ Stored(w).offset = w.offset /\ Stored(w).cur = w.cur /\ Stored(w).rest = w.rest
  BY StoredFacts
<1>2. CASE FillsTheLast(w) /\ w.spare = 0
  <2>1. Extend(Stored(w)) = [Stored(w) EXCEPT !.status = "nomem"] /\ Extend(Stored(w)) \in Writes
    BY <1>1, <1>2, ExtendFacts
  <2>2. Extend(Stored(w)).status = "nomem"
    BY <1>1, <2>1 DEF Writes
  <2>3. Linked(w) = Extend(Stored(w))
    BY <1>2, <2>2 DEF Linked
  <2> QED BY <1>2, <2>1, <2>3
<1>4. CASE FillsTheLast(w) /\ w.spare # 0
  <2> DEFINE x == Extend(Stored(w))
  <2>1. /\ x \in Writes /\ x.status = "run"
        /\ x.data.chain = Append(Stored(w).data.chain, EmptyBlock)
        /\ Len(x.data.chain) = Len(w.data.chain) + 1
        /\ x.data.size = Stored(w).data.size
        /\ x.offset = w.offset /\ x.cur = w.cur /\ x.rest = w.rest
        /\ x.spare = w.spare - 1
    BY <1>1, <1>4, ExtendFacts
  <2>2. Linked(w) = [x EXCEPT !.data.last = LastMoved(w)]
    BY <1>4, <2>1 DEF Linked
  <2> HIDE DEF x
  <2>3. LastMoved(w) \in Nat
    BY DEF LastMoved, MayCopy, Writes, FileData
  <2>4. PICK new \in FileData : new = [x.data EXCEPT !.last = LastMoved(w)]
    BY <2>1, <2>3 DEF Writes, FileData
  <2>5. /\ new.chain = x.data.chain /\ new.size = x.data.size /\ new.last = LastMoved(w)
    BY <2>1, <2>4 DEF Writes, FileData
  <2>6. Linked(w) = [x EXCEPT !.data = new]
    BY <2>1, <2>2, <2>4 DEF Writes, FileData
  <2>7. /\ Linked(w) \in Writes /\ Linked(w).data = new
        /\ Linked(w).offset = x.offset /\ Linked(w).cur = x.cur
        /\ Linked(w).rest = x.rest
        /\ Linked(w).spare = x.spare /\ Linked(w).status = x.status
    BY <2>1, <2>6 DEF Writes
  <2> QED BY <1>4, <2>1, <2>5, <2>7
<1>3. CASE ~FillsTheLast(w)
  BY <1>1, <1>3 DEF Linked
<1> QED BY <1>2, <1>3, <1>4

(* What a turn does when the limit allows it and cur_offset is right. *)
LEMMA CopyFacts ==
  ASSUME NEW w, MayCopy(w), FitsLimit(w), w.from >= 0
  PROVE  /\ FillsTheLast(w) /\ w.spare = 0 =>
              Copy(w) = [Stored(w) EXCEPT !.status = "nomem"]
         /\ FillsTheLast(w) /\ w.spare # 0 =>
              /\ Copy(w).data.chain = Append(Stored(w).data.chain, EmptyBlock)
              /\ Len(Copy(w).data.chain) = Len(w.data.chain) + 1
              /\ Copy(w).data.last = LastMoved(w)
              /\ Copy(w).spare = w.spare - 1
         /\ ~FillsTheLast(w) =>
              /\ Copy(w).data.chain = Stored(w).data.chain
              /\ Len(Copy(w).data.chain) = Len(w.data.chain)
              /\ Copy(w).data.last = w.data.last
              /\ Copy(w).spare = w.spare
         /\ ~(FillsTheLast(w) /\ w.spare = 0) =>
              /\ Copy(w).data.size = Stored(w).data.size
              /\ Copy(w).offset = w.offset + CurWrite(w)
              /\ Copy(w).cur = w.cur + 1 /\ Copy(w).from = 0
              /\ Copy(w).rest = SubSeq(w.rest, CurWrite(w) + 1, Len(w.rest))
              /\ Copy(w).status = "run"
         /\ Copy(w) \in Writes
<1>0. ~(w.from < 0)
  BY DEF MayCopy, Writes
<1>1. CASE FillsTheLast(w) /\ w.spare = 0
  <2>1. Linked(w) = [Stored(w) EXCEPT !.status = "nomem"] /\ Linked(w) \in Writes
    BY <1>1, LinkedFacts
  <2>2. Stored(w) \in Writes
    BY StoredFacts
  <2>3. Linked(w).status # "run"
    BY <2>1, <2>2 DEF Writes
  <2>4. Copy(w) = Linked(w)
    BY <1>0, <2>3 DEF Copy
  <2> QED BY <1>1, <2>1, <2>4
<1>2. CASE ~(FillsTheLast(w) /\ w.spare = 0)
  <2> DEFINE x == Linked(w)
             y == Copy(w)
  <2>1. /\ x \in Writes /\ x.status = "run" /\ x.data.size = Stored(w).data.size
        /\ x.offset = w.offset /\ x.cur = w.cur /\ x.rest = w.rest
    <3>1. /\ Stored(w) \in Writes /\ Stored(w).status = "run"
          /\ Stored(w).offset = w.offset /\ Stored(w).cur = w.cur
          /\ Stored(w).rest = w.rest
      BY StoredFacts
    <3>2. CASE FillsTheLast(w)
      BY <1>2, <3>2, LinkedFacts
    <3>3. CASE ~FillsTheLast(w)
      <4>1. Linked(w) = Stored(w)
        BY <3>3, LinkedFacts
      <4> QED BY <3>1, <4>1
    <3> QED BY <3>2, <3>3
  <2>2. y = [x EXCEPT
               !.offset = @ + CurWrite(w),
               !.cur    = @ + 1,
               !.from   = 0,
               !.rest   = SubSeq(@, CurWrite(w) + 1, Len(@))]
    BY <1>0, <2>1 DEF Copy
  <2> HIDE DEF x, y
  <2>3. /\ y.data = x.data
        /\ y.spare = x.spare /\ y.status = "run"
        /\ y.offset = w.offset + CurWrite(w) /\ y.cur = w.cur + 1 /\ y.from = 0
        /\ y.rest = SubSeq(w.rest, CurWrite(w) + 1, Len(w.rest))
    BY <2>1, <2>2 DEF Writes, FileData
  <2>4. y \in Writes
    <3>0. /\ w.rest \in Seq(Byte) /\ CurWrite(w) \in 1..Len(w.rest)
          /\ w.offset \in Int /\ w.cur \in Int
      BY CurWriteFacts DEF MayCopy, Writes
    <3>1. SubSeq(w.rest, CurWrite(w) + 1, Len(w.rest)) \in Seq(Byte)
      BY <3>0, SubSeqProperties
    <3>2. w.offset + CurWrite(w) \in Int /\ w.cur + 1 \in Int
      BY <3>0
    <3>3. y = [data |-> x.data, offset |-> w.offset + CurWrite(w), cur |-> w.cur + 1,
               from |-> 0, rest |-> SubSeq(w.rest, CurWrite(w) + 1, Len(w.rest)),
               spare |-> x.spare, status |-> x.status]
      BY <2>1, <2>2 DEF Writes
    <3>4. x.data \in FileData /\ x.spare \in Nat
      BY <2>1 DEF Writes
    <3> QED BY <2>1, <3>1, <3>2, <3>3, <3>4 DEF Writes
  <2>5. CASE FillsTheLast(w)
    <3>1. /\ x.data.chain = Append(Stored(w).data.chain, EmptyBlock)
          /\ Len(x.data.chain) = Len(w.data.chain) + 1
          /\ x.data.last = LastMoved(w) /\ x.spare = w.spare - 1
      BY <1>2, <2>5, LinkedFacts DEF x
    <3> QED BY <1>2, <2>1, <2>3, <2>4, <2>5, <3>1 DEF y
  <2>6. CASE ~FillsTheLast(w)
    <3>1. x = Stored(w)
      BY <2>6, LinkedFacts DEF x
    <3>2. /\ Len(Stored(w).data.chain) = Len(w.data.chain)
          /\ Stored(w).data.last = w.data.last /\ Stored(w).spare = w.spare
      BY StoredFacts
    <3> QED BY <1>2, <2>1, <2>3, <2>4, <2>6, <3>1, <3>2 DEF y
  <2> QED BY <2>5, <2>6
<1> QED BY <1>1, <1>2

-----------------------------------------------------------------------------
(* Division of natural numbers by the size of a block. *)
LEMMA Division ==
  ASSUME NEW a \in Nat
  PROVE  /\ a \div BlockSize \in Nat
         /\ a % BlockSize \in 0..(BlockSize - 1)
         /\ a = BlockSize * (a \div BlockSize) + (a % BlockSize)
         /\ Quot(a, BlockSize) = a \div BlockSize
         /\ Rem(a, BlockSize) = a % BlockSize
<1>1. a \div BlockSize \in Nat /\ a % BlockSize \in 0..(BlockSize - 1)
  BY BlockSizeAssumption
<1>2. a - BlockSize * (a \div BlockSize) = a % BlockSize
  BY BlockSizeAssumption
<1>3. PICK p \in Int : p = BlockSize * (a \div BlockSize)
  BY <1>1, BlockSizeAssumption
<1>4. a = p + (a % BlockSize)
  BY <1>1, <1>2, <1>3
<1>5. Quot(a, BlockSize) = a \div BlockSize
  BY DEF Quot
<1>6. Rem(a, BlockSize) = a % BlockSize
  BY <1>2, <1>5 DEF Rem
<1>7. a = BlockSize * (a \div BlockSize) + (a % BlockSize)
  BY <1>3, <1>4
<1> QED BY <1>1, <1>5, <1>6, <1>7

LEMMA RemFacts ==
  ASSUME NEW a \in Int
  PROVE  /\ Rem(a, BlockSize) \in Int
         /\ Rem(a, BlockSize) < BlockSize
         /\ Rem(a, BlockSize) < 0 => a < 0
<1>1. CASE a >= 0
  <2>1. a \in Nat
    BY <1>1
  <2>2. Rem(a, BlockSize) = a % BlockSize /\ a % BlockSize \in 0..(BlockSize - 1)
    BY <2>1, Division
  <2> QED BY <2>2, BlockSizeAssumption
<1>2. CASE a < 0
  <2>1. PICK b \in Nat : b = -a /\ b > 0
    BY <1>2
  <2>2. /\ b = BlockSize * (b \div BlockSize) + (b % BlockSize)
        /\ b \div BlockSize \in Nat /\ b % BlockSize \in 0..(BlockSize - 1)
    BY <2>1, Division
  <2>3. PICK p \in Int : p = BlockSize * (b \div BlockSize)
    BY <2>2, BlockSizeAssumption
  <2>4. Rem(a, BlockSize) = a + p
    <3>1. Quot(a, BlockSize) = -(b \div BlockSize)
      BY <1>2, <2>1 DEF Quot
    <3>2. BlockSize * (-(b \div BlockSize)) = -p
      BY <2>2, <2>3, BlockSizeAssumption
    <3> QED BY <3>1, <3>2, <2>3 DEF Rem
  <2> QED BY <1>2, <2>1, <2>2, <2>3, <2>4, BlockSizeAssumption
<1> QED BY <1>1, <1>2

-----------------------------------------------------------------------------
(* A write in progress that keeps last_block in the list and has a block   *)
(* for the bytes that are left.                                            *)
SoundWrites ==
  {w \in Writes :
     /\ LastIn(w.data)
     /\ w.from < BlockSize
     /\ w.status = "run" /\ w.rest # << >> => w.cur \in 1..Len(w.data.chain)}

LEMMA TurnIsSound ==
  ASSUME NEW w \in SoundWrites
  PROVE  Turn(w) \in SoundWrites
<1>0. /\ w \in Writes /\ w.data.chain \in Seq(Blocks) /\ w.data.last \in Nat
      /\ w.from \in Int /\ w.rest \in Seq(Byte) /\ w.cur \in Int /\ w.spare \in Nat
      /\ LastIn(w.data)
  BY DEF SoundWrites, Writes, FileData
<1>1. CASE ~(w.status = "run" /\ w.rest # << >>)
  BY <1>1 DEF Turn
<1>2. CASE w.status = "run" /\ w.rest # << >>
  <2>0. MayCopy(w) /\ Turn(w) = Copy(w)
    BY <1>2 DEF SoundWrites, MayCopy, Turn
  <2>1. CASE ~FitsLimit(w)
    <3>1. Copy(w) = [w EXCEPT !.status = "nomem"]
      BY <2>1 DEF Copy
    <3> QED BY <2>0, <3>1 DEF SoundWrites, Writes
  <2>2. CASE FitsLimit(w) /\ w.from < 0
    <3>1. Copy(w) = [w EXCEPT !.status = "fault"]
      BY <2>2 DEF Copy
    <3> QED BY <2>0, <3>1 DEF SoundWrites, Writes
  <2>3. CASE FitsLimit(w) /\ w.from >= 0 /\ FillsTheLast(w) /\ w.spare = 0
    <3>1. Copy(w) = [Stored(w) EXCEPT !.status = "nomem"] /\ Copy(w) \in Writes
      BY <2>0, <2>3, CopyFacts
    <3>2. /\ Stored(w) \in Writes /\ Len(Stored(w).data.chain) = Len(w.data.chain)
          /\ Stored(w).data.last = w.data.last /\ Stored(w).from = w.from
          /\ Stored(w).data.chain \in Seq(Blocks)
      BY <2>0, StoredFacts DEF Writes, FileData
    <3>3. /\ Copy(w).data = Stored(w).data /\ Copy(w).from = w.from
          /\ Copy(w).status = "nomem"
      BY <3>1, <3>2 DEF Writes
    <3>4. LastIn(Copy(w).data)
      BY <1>0, <3>2, <3>3 DEF LastIn
    <3> QED BY <2>0, <3>1, <3>3, <3>4 DEF SoundWrites
  <2>4. CASE FitsLimit(w) /\ w.from >= 0 /\ ~(FillsTheLast(w) /\ w.spare = 0)
    <3> DEFINE x == Copy(w)
    <3>1. /\ x \in Writes /\ x.cur = w.cur + 1 /\ x.from = 0
          /\ x.rest = SubSeq(w.rest, CurWrite(w) + 1, Len(w.rest))
          /\ FillsTheLast(w) => /\ Len(x.data.chain) = Len(w.data.chain) + 1
                                /\ x.data.last = LastMoved(w)
          /\ ~FillsTheLast(w) => /\ Len(x.data.chain) = Len(w.data.chain)
                                 /\ x.data.last = w.data.last
      BY <2>0, <2>4, CopyFacts
    <3> HIDE DEF x
    <3>2. /\ CurWrite(w) \in 1..Len(w.rest)
          /\ CurWrite(w) = Len(w.rest) \/ CurWrite(w) + w.from = BlockSize
      BY <2>0, CurWriteFacts DEF MayCopy
    <3>3. x.rest # << >> => CurWrite(w) + w.from = BlockSize
      BY <1>0, <3>1, <3>2
    <3>4. FillsTheLast(w) <=> CurWrite(w) + w.from = BlockSize /\ w.cur = Len(w.data.chain)
      BY DEF FillsTheLast, Filled
    <3>5. w.cur \in 1..Len(w.data.chain) /\ Len(w.data.chain) \in Nat
      BY <1>0, <2>0 DEF MayCopy
    <3>6. x.rest # << >> => x.cur \in 1..Len(x.data.chain)
      BY <3>1, <3>3, <3>4, <3>5
    <3>7. x.data.chain \in Seq(Blocks) /\ Len(x.data.chain) \in Nat /\ x.data.last \in Nat
      BY <3>1 DEF Writes, FileData
    <3>8. LastIn(x.data)
      <4>1. w.data.last <= Len(w.data.chain) /\ (w.data.last = 0 <=> Len(w.data.chain) = 0)
        BY <1>0 DEF LastIn
      <4>2. FillsTheLast(w) => LastMoved(w) <= Len(x.data.chain) /\ LastMoved(w) # 0
        BY <1>0, <3>1, <3>4, <3>5, <4>1 DEF LastMoved
      <4>3. x.data.last <= Len(x.data.chain) /\ (x.data.last = 0 <=> Len(x.data.chain) = 0)
        BY <1>0, <3>1, <3>5, <4>1, <4>2
      <4> QED BY <3>7, <4>3 DEF LastIn
    <3>9. x.from < BlockSize
      BY <3>1, BlockSizeAssumption
    <3>10. x \in SoundWrites
      BY <3>1, <3>6, <3>8, <3>9 DEF SoundWrites
    <3> QED BY <2>0, <3>10 DEF x
  <2>5. w.from \in Int
    BY <1>0
  <2> QED BY <2>1, <2>2, <2>3, <2>4, <2>5
<1> QED BY <1>1, <1>2

LEMMA StartingFacts ==
  ASSUME NEW old \in FileData, NEW off \in Int, NEW buf \in Seq(Byte), NEW spare \in Nat
  PROVE  LET w == Starting(old, off, buf, spare)
         IN  /\ w \in Writes /\ w.from < BlockSize
             /\ w.data = old /\ w.offset = LesserOf(off, old.size)
             /\ w.from = Rem(LesserOf(off, old.size), BlockSize)
             /\ w.rest = buf /\ w.spare = spare /\ w.status = "run" /\ w.cur = 0
<1>1. PICK start \in Int : start = LesserOf(off, old.size)
  BY DEF LesserOf, FileData
<1>2. Rem(start, BlockSize) \in Int /\ Rem(start, BlockSize) < BlockSize
  BY RemFacts
<1> QED BY <1>1, <1>2 DEF Starting, Writes

(* The first block of a file without blocks. *)
LEMMA FirstBlockFacts ==
  ASSUME NEW w \in Writes, LastIn(w.data), w.status = "run"
  PROVE  /\ FirstBlock(w) \in Writes /\ LastIn(FirstBlock(w).data)
         /\ FirstBlock(w).rest = w.rest /\ FirstBlock(w).from = w.from
         /\ FirstBlock(w).offset = w.offset
         /\ FirstBlock(w).data.size = w.data.size
         /\ w.data.last # 0 => FirstBlock(w) = w
         /\ w.data.last = 0 /\ w.spare = 0 => FirstBlock(w) = [w EXCEPT !.status = "nomem"]
         /\ w.data.last = 0 /\ w.spare # 0 =>
              /\ FirstBlock(w).data.chain = << EmptyBlock >>
              /\ FirstBlock(w).data.last = 1
              /\ FirstBlock(w).spare = w.spare - 1 /\ FirstBlock(w).status = "run"
<1>0. w.data \in FileData /\ w.data.chain \in Seq(Blocks) /\ w.spare \in Nat
  BY DEF Writes, FileData
<1>1. CASE w.data.last # 0
  BY <1>1 DEF FirstBlock
<1>2. CASE w.data.last = 0 /\ w.spare = 0
  <2>1. Extend(w) = [w EXCEPT !.status = "nomem"] /\ Extend(w) \in Writes
    BY <1>2, ExtendFacts
  <2>2. FirstBlock(w) = Extend(w)
    BY <1>2, <2>1 DEF FirstBlock, Writes
  <2> QED BY <1>2, <2>1, <2>2 DEF Writes
<1>3. CASE w.data.last = 0 /\ w.spare # 0
  <2> DEFINE x == Extend(w)
  <2>1. /\ x \in Writes /\ x.data.chain = Append(w.data.chain, EmptyBlock)
        /\ x.data.size = w.data.size /\ x.offset = w.offset /\ x.from = w.from
        /\ x.rest = w.rest /\ x.spare = w.spare - 1 /\ x.status = "run"
    BY <1>3, ExtendFacts
  <2>2. FirstBlock(w) = [x EXCEPT !.data.last = 1]
    BY <1>3, <2>1 DEF FirstBlock
  <2> HIDE DEF x
  <2>3. x.data.chain = << EmptyBlock >>
    <3>1. w.data.chain = << >>
      BY <1>3 DEF LastIn
    <3>2. Append(<< >>, EmptyBlock) = << EmptyBlock >>
      OBVIOUS
    <3> QED BY <2>1, <3>1, <3>2
  <2>4. PICK new \in FileData : new = [x.data EXCEPT !.last = 1]
    BY <2>1 DEF Writes, FileData
  <2>5. new.chain = << EmptyBlock >> /\ new.last = 1 /\ new.size = w.data.size
    BY <2>1, <2>3, <2>4 DEF Writes, FileData
  <2>6. FirstBlock(w) = [x EXCEPT !.data = new]
    BY <2>1, <2>2, <2>4 DEF Writes, FileData
  <2>7. /\ FirstBlock(w) \in Writes /\ FirstBlock(w).data = new
        /\ FirstBlock(w).offset = x.offset /\ FirstBlock(w).from = x.from
        /\ FirstBlock(w).rest = x.rest
        /\ FirstBlock(w).spare = x.spare /\ FirstBlock(w).status = x.status
    BY <2>1, <2>6 DEF Writes
  <2>8. LastIn(new)
    BY <2>5 DEF LastIn
  <2> QED BY <1>3, <2>1, <2>5, <2>7, <2>8
<1> QED BY <1>1, <1>2, <1>3

(* The walk to the block of the offset. *)
Target(w) == IF w.offset < 0 THEN 1 ELSE w.offset \div BlockSize + 1

LEMMA SeekFacts ==
  ASSUME NEW w \in Writes
  PROVE  /\ Seek(w) \in Writes
         /\ Seek(w).rest = w.rest /\ Seek(w).from = w.from /\ Seek(w).offset = w.offset
         /\ Seek(w).data.last = w.data.last /\ Seek(w).data.size = w.data.size
         /\ w.status # "run" => Seek(w) = w
         /\ w.status = "run" /\ Target(w) <= Len(w.data.chain) =>
              /\ Seek(w).data = w.data /\ Seek(w).cur = Target(w)
              /\ Seek(w).spare = w.spare /\ Seek(w).status = "run"
         /\ w.status = "run" /\ Target(w) > Len(w.data.chain) =>
              /\ w.spare = 0 => Seek(w).status = "nomem" /\ Seek(w).data = w.data
              /\ w.spare # 0 =>
                   /\ Seek(w).data.chain = Append(w.data.chain, EmptyBlock)
                   /\ Len(Seek(w).data.chain) = Len(w.data.chain) + 1
                   /\ Seek(w).cur = Len(w.data.chain) + 1
                   /\ Seek(w).spare = w.spare - 1 /\ Seek(w).status = "run"
<1>0. /\ w.data \in FileData /\ w.data.chain \in Seq(Blocks) /\ w.spare \in Nat
      /\ Len(w.data.chain) \in Nat
  BY DEF Writes, FileData
<1>1. Target(w) \in Int
  BY BlockSizeAssumption DEF Target, Writes
<1>2. CASE w.status # "run"
  BY <1>2 DEF Seek
<1>3. CASE w.status = "run" /\ Target(w) <= Len(w.data.chain)
  <2>1. Seek(w) = [w EXCEPT !.cur = Target(w)]
    BY <1>3 DEF Seek, Target
  <2> QED BY <1>1, <1>3, <2>1 DEF Writes
<1>4. CASE w.status = "run" /\ Target(w) > Len(w.data.chain)
  <2>1. PICK x : x = [w EXCEPT !.cur = Len(w.data.chain) + 1]
    OBVIOUS
  <2>2. Seek(w) = Extend(x)
    BY <1>0, <1>1, <1>4, <2>1 DEF Seek, Target
  <2>3. /\ x \in Writes /\ x.data = w.data /\ x.rest = w.rest /\ x.from = w.from
        /\ x.offset = w.offset /\ x.spare = w.spare /\ x.status = "run"
        /\ x.cur = Len(w.data.chain) + 1
    BY <1>0, <1>4, <2>1 DEF Writes
  <2>4. CASE w.spare = 0
    <3>1. Seek(w) = [x EXCEPT !.status = "nomem"] /\ Seek(w) \in Writes
      BY <2>2, <2>3, <2>4, ExtendFacts
    <3> QED BY <1>4, <2>3, <2>4, <3>1, <1>1 DEF Writes
  <2>5. CASE w.spare # 0
    <3>1. /\ Extend(x) \in Writes
          /\ Extend(x).data.chain = Append(x.data.chain, EmptyBlock)
          /\ Len(Extend(x).data.chain) = Len(x.data.chain) + 1
          /\ Extend(x).data.last = x.data.last /\ Extend(x).data.size = x.data.size
          /\ Extend(x).offset = x.offset /\ Extend(x).cur = x.cur
          /\ Extend(x).from = x.from /\ Extend(x).rest = x.rest
          /\ Extend(x).spare = x.spare - 1 /\ Extend(x).status = x.status
      BY <2>3, <2>5, ExtendFacts
    <3>2. ~(Target(w) <= Len(w.data.chain))
      BY <1>0, <1>1, <1>4
    <3> QED BY <1>4, <2>2, <2>3, <2>5, <3>1, <3>2
  <2> QED BY <2>4, <2>5
<1> QED BY <1>0, <1>1, <1>2, <1>3, <1>4

LEMMA SeekIsSound ==
  ASSUME NEW old \in FileData, LastIn(old), NEW off \in Int, NEW buf \in Seq(Byte),
         NEW spare \in Nat, NEW w, w = Seek(FirstBlock(Starting(old, off, buf, spare)))
  PROVE  w \in SoundWrites /\ w.rest = buf
<1>1. PICK s : s = Starting(old, off, buf, spare)
  OBVIOUS
<1>2. /\ s \in Writes /\ s.data = old /\ s.rest = buf /\ s.from < BlockSize
      /\ s.status = "run" /\ s.spare = spare
  BY <1>1, StartingFacts
<1>3. PICK b : b = FirstBlock(s)
  OBVIOUS
<1>4. /\ b \in Writes /\ LastIn(b.data) /\ b.rest = buf /\ b.from = s.from
      /\ b.status = "run" => b.data.last # 0
  <2>1. /\ b \in Writes /\ LastIn(b.data) /\ b.rest = buf /\ b.from = s.from
    BY <1>2, <1>3, FirstBlockFacts
  <2>2. CASE s.data.last # 0
    BY <1>2, <1>3, <2>1, <2>2, FirstBlockFacts
  <2>3. CASE s.data.last = 0 /\ s.spare = 0
    <3>1. b = [s EXCEPT !.status = "nomem"]
      BY <1>2, <1>3, <2>3, FirstBlockFacts
    <3>2. b.status = "nomem"
      BY <1>2, <3>1 DEF Writes
    <3> QED BY <2>1, <3>2
  <2>4. CASE s.data.last = 0 /\ s.spare # 0
    <3>1. b.data.last = 1
      BY <1>2, <1>3, <2>4, FirstBlockFacts
    <3> QED BY <2>1, <3>1
  <2> QED BY <2>2, <2>3, <2>4
<1>5. w = Seek(b)
  BY <1>1, <1>3
<1>6. /\ b.data.chain \in Seq(Blocks) /\ Len(b.data.chain) \in Nat /\ b.data.last \in Nat
      /\ b.data.last <= Len(b.data.chain)
  BY <1>4 DEF Writes, FileData, LastIn
<1>7. /\ w \in Writes /\ w.rest = buf /\ w.from < BlockSize /\ w.data.last = b.data.last
  BY <1>2, <1>4, <1>5, SeekFacts
<1>8. Target(b) \in Nat \ {0}
  <2>1. b.offset \in Int
    BY <1>4 DEF Writes
  <2>2. CASE b.offset < 0
    BY <2>2 DEF Target
  <2>3. CASE b.offset >= 0
    <3>1. PICK a \in Nat : a = b.offset
      BY <2>1, <2>3
    <3>2. a \div BlockSize \in Nat
      BY Division
    <3> QED BY <2>3, <3>1, <3>2 DEF Target
  <2> QED BY <2>1, <2>2, <2>3
<1>9. CASE b.status # "run"
  <2>1. w = b
    BY <1>4, <1>5, <1>9, SeekFacts
  <2> QED BY <1>4, <1>7, <1>9, <2>1 DEF SoundWrites
<1>10. CASE b.status = "run" /\ Target(b) <= Len(b.data.chain)
  <2>1. w.data = b.data /\ w.cur = Target(b)
    BY <1>4, <1>5, <1>10, SeekFacts
  <2> QED BY <1>4, <1>6, <1>7, <1>8, <1>10, <2>1 DEF SoundWrites
<1>11. CASE b.status = "run" /\ Target(b) > Len(b.data.chain)
  <2>1. CASE b.spare = 0
    <3>1. w.status = "nomem" /\ w.data = b.data
      BY <1>4, <1>5, <1>11, <2>1, SeekFacts
    <3> QED BY <1>4, <1>7, <3>1 DEF SoundWrites
  <2>2. CASE b.spare # 0
    <3>1. Len(w.data.chain) = Len(b.data.chain) + 1 /\ w.cur = Len(b.data.chain) + 1
      BY <1>4, <1>5, <1>11, <2>2, SeekFacts
    <3>2. w.cur \in 1..Len(w.data.chain)
      BY <1>6, <3>1
    <3>3. LastIn(w.data)
      <4>1. w.data.chain # << >>
        BY <1>6, <3>1
      <4> QED BY <1>4, <1>6, <1>7, <1>11, <3>1, <4>1 DEF LastIn
    <3> QED BY <1>7, <3>2, <3>3 DEF SoundWrites
  <2> QED BY <2>1, <2>2
<1>12. Len(b.data.chain) \in Nat /\ Target(b) \in Nat
  BY <1>6, <1>8
<1> QED BY <1>9, <1>10, <1>11, <1>12

(* ufs_write leaves last_block in the list, wherever it ends. *)
LEMMA WrittenIsSound ==
  ASSUME NEW old \in FileData, LastIn(old), NEW off \in Int, NEW buf \in Seq(Byte),
         NEW spare \in Nat
  PROVE  Written(old, off, buf, spare) \in SoundWrites
<1>1. PICK w : w = Seek(FirstBlock(Starting(old, off, buf, spare)))
  OBVIOUS
<1>2. w \in SoundWrites /\ w.rest = buf /\ Len(w.rest) \in Nat
  BY <1>1, SeekIsSound
<1> DEFINE P == [k \in 0..Len(w.rest) |-> SoundWrites]
<1>3. w \in P[0]
  BY <1>2
<1>4. \A k \in 0..(Len(w.rest) - 1) : \A x \in P[k] : Turn(x) \in P[k + 1]
  BY <1>2, TurnIsSound
<1>5. Copied(w) \in P[Len(w.rest)]
  <2> HIDE DEF P
  <2> QED BY <1>2, <1>3, <1>4, CopiedIsIn
<1> QED BY <1>1, <1>2, <1>5 DEF Written

(* So do the two directions of ufs_resize. *)
LEMMA GrownIsSound ==
  ASSUME NEW old \in FileData, LastIn(old), NEW newSize \in Nat, NEW spare \in Nat,
         Grows(old, newSize)
  PROVE  Grown(old, newSize, spare) \in FileData /\ LastIn(Grown(old, newSize, spare))
<1>1. /\ old.chain \in Seq(Blocks) /\ old.last \in Nat /\ old.size \in Nat
      /\ old.last <= Len(old.chain) /\ (old.last = 0 <=> old.chain = << >>)
      /\ old.size < newSize /\ Len(old.chain) \in Nat
  BY DEF FileData, LastIn, Grows
<1>2. MissingBlocks(old, newSize) \in Nat
  <2>1. PICK a \in Nat : a = newSize \div BlockSize
    BY Division
  <2>2. PICK b \in Nat : b = old.size \div BlockSize
    BY <1>1, Division
  <2>3. PICK p \in Int : p = BlockSize * a
    BY BlockSizeAssumption
  <2>4. PICK q \in Int : q = BlockSize * b
    BY BlockSizeAssumption
  <2>5. \E c \in 0..(BlockSize - 1) : newSize = p + c
    BY <2>1, <2>3, Division
  <2>6. \E d \in 0..(BlockSize - 1) : old.size = q + d
    BY <1>1, <2>2, <2>4, Division
  <2>7. ~(b > a)
    <3> SUFFICES ASSUME b > a PROVE FALSE
      OBVIOUS
    <3>1. p + BlockSize <= q
      BY <2>3, <2>4, BlockSizeAssumption
    <3> QED BY <1>1, <2>5, <2>6, <3>1, BlockSizeAssumption
  <2> QED BY <2>1, <2>2, <2>7 DEF MissingBlocks
<1>3. PICK k \in Nat : k = LesserOf(MissingBlocks(old, newSize), spare)
  BY <1>2 DEF LesserOf
<1> DEFINE x == Grown(old, newSize, spare)
<1>4. /\ x.last = old.last + k
      /\ x.chain = IF k = 0 THEN old.chain
                   ELSE SubSeq(old.chain, 1, old.last) \o [i \in 1..k |-> EmptyBlock]
      /\ x.size \in Int
      /\ x = [chain |-> x.chain, last |-> x.last, size |-> x.size]
  BY <1>1, <1>3 DEF Grown
<1> HIDE DEF x
<1>5. CASE k = 0
  BY <1>1, <1>4, <1>5 DEF FileData, LastIn, x
<1>6. CASE k # 0
  <2>1. PICK s : s = SubSeq(old.chain, 1, old.last)
    OBVIOUS
  <2>2. PICK t : t = [i \in 1..k |-> EmptyBlock]
    OBVIOUS
  <2>6. s \in Seq(Blocks) /\ Len(s) = old.last
    BY <1>1, <2>1, SubSeqProperties
  <2>7. t \in Seq(Blocks) /\ Len(t) = k
    BY <2>2, EmptyIsABlock, IsASeq
  <2>3. x.chain \in Seq(Blocks) /\ Len(x.chain) = old.last + k
    BY <1>4, <1>6, <2>1, <2>2, <2>6, <2>7, ConcatProperties
  <2>4. x \in FileData
    <3>1. old.last + k \in Nat
      BY <1>1
    <3> QED BY <1>4, <2>3, <3>1 DEF FileData
  <2>5. x.chain # << >>
    BY <1>1, <1>6, <2>3
  <2> QED BY <1>1, <1>4, <1>6, <2>3, <2>4, <2>5 DEF LastIn, x
<1> QED BY <1>5, <1>6

LEMMA ShrunkIsSound ==
  ASSUME NEW old \in FileData, LastIn(old), NEW newSize \in Nat
  PROVE  Shrunk(old, newSize) \in FileData /\ LastIn(Shrunk(old, newSize))
<1>1. /\ old.chain \in Seq(Blocks) /\ old.last \in Nat /\ Len(old.chain) \in Nat
  BY DEF FileData
<1>2. ASSUME NEW i \in 1..Len(old.chain)
      PROVE  Cleared(old, newSize, i) \in Blocks
  <2>0. old.chain[i] \in Blocks
    BY <1>1, <1>2, ElementOfSeq
  <2>1. old.chain[i].occupied \in Int /\ old.chain[i].memory \in [0..(BlockSize - 1) -> Byte]
    BY <2>0 DEF Blocks
  <2>2. 0 \in Byte
    BY DEF Byte
  <2> QED BY <2>1, <2>2 DEF Cleared, Blocks
<1>3. PICK new : new = [i \in DOMAIN old.chain |-> Cleared(old, newSize, i)]
  OBVIOUS
<1>4. new \in Seq(Blocks) /\ Len(new) = Len(old.chain)
  BY <1>1, <1>2, <1>3
<1>5. Shrunk(old, newSize) = [chain |-> new, last |-> old.last, size |-> newSize]
  BY <1>3 DEF Shrunk
<1> QED BY <1>1, <1>4, <1>5 DEF FileData, LastIn

-----------------------------------------------------------------------------
(* The invariant of the data under all calls. *)
DataInv ==
  /\ data \in [Files -> FileData]
  /\ offset \in [Fds -> Int]
  /\ \A f \in Files : LastIn(data[f])

LEMMA InitDataInv == Init => DataInv
  BY EmptyIsData DEF Init, DataInv

(* At most one file's data and one descriptor's offset change in a call. *)
LEMMA DataChanges ==
  ASSUME DataInv,
         \/ UNCHANGED data
         \/ \E f \in Files, x \in FileData : LastIn(x) /\ data' = [data EXCEPT ![f] = x],
         \/ UNCHANGED offset
         \/ \E d \in Fds, o \in Int : offset' = [offset EXCEPT ![d] = o]
  PROVE  DataInv'
  BY DEF DataInv

(* A descriptor that is open has a file. *)
LEMMA OpenHasFile ==
  ASSUME IInv, NEW d, IsOpen(d)
  PROVE  d \in Fds /\ file[d] \in Files
<1>1. capacity \in 0..MaxCapacity /\ file \in [Fds -> Files \cup {NULL}]
  BY DEF IInv, TypeOK
<1> QED BY <1>1, CapacityAssumption DEF IsOpen, Fds

LEMMA BadFdDataInv ==
  ASSUME DataInv, NEW d, BadFd(d)
  PROVE  DataInv'
  BY DataChanges DEF BadFd, Crashes

LEMMA WriteDataInv ==
  ASSUME IInv, DataInv, NEW d, NEW buf \in Buffers, NEW spare \in Nat, Write(d, buf, spare)
  PROVE  DataInv'
<1>1. CASE BadFd(d)
  BY <1>1, BadFdDataInv
<1>2. CASE IsOpen(d) /\ "READ_ONLY" \notin flags[d] /\ ~BadFd(d)
  <2>1. d \in Fds /\ file[d] \in Files
    BY <1>2, OpenHasFile
  <2>2. PICK w : w = Written(data[file[d]], offset[d], buf, spare)
    OBVIOUS
  <2>3. w \in SoundWrites
    <3>1. data[file[d]] \in FileData /\ LastIn(data[file[d]]) /\ offset[d] \in Int
      BY <2>1 DEF DataInv
    <3>2. buf \in Seq(Byte)
      BY BuffersAssumption
    <3> QED BY <2>2, <3>1, <3>2, WrittenIsSound
  <2>4. w.data \in FileData /\ LastIn(w.data) /\ w.offset \in Int
    BY <2>3 DEF SoundWrites, Writes
  <2>5. \/ Crashes
        \/ /\ data' = [data EXCEPT ![file[d]] = w.data]
           /\ offset' = [offset EXCEPT ![d] = w.offset]
    BY <1>2, <2>2 DEF Write
  <2>6. CASE Crashes
    BY <2>6, DataChanges DEF Crashes
  <2>7. CASE /\ data' = [data EXCEPT ![file[d]] = w.data]
             /\ offset' = [offset EXCEPT ![d] = w.offset]
    BY <2>1, <2>4, <2>7, DataChanges
  <2> QED BY <2>5, <2>6, <2>7
<1>3. CASE UNCHANGED << data, offset >>
  BY <1>3, DataChanges
<1> QED BY <1>1, <1>2, <1>3 DEF Write

LEMMA ReadDataInv ==
  ASSUME IInv, DataInv, NEW d, NEW n \in Counts, Read(d, n)
  PROVE  DataInv'
<1>1. CASE BadFd(d)
  BY <1>1, BadFdDataInv
<1>2. CASE UNCHANGED << data, offset >>
  BY <1>2, DataChanges
<1>3. CASE /\ IsOpen(d) /\ data' = data
           /\ offset' = [offset EXCEPT ![d] = @ + Len(ReadBytes(data[file[d]], offset[d], n))]
  <2>1. d \in Fds /\ file[d] \in Files
    BY <1>3, OpenHasFile
  <2>2. data[file[d]].size \in Int /\ offset[d] \in Int /\ n \in Nat
    BY <2>1, SizesAssumption DEF DataInv, FileData
  <2>3. ReadCount(data[file[d]], offset[d], n) \in Nat
    BY <2>2 DEF ReadCount, LesserOf
  <2>4. Len(ReadBytes(data[file[d]], offset[d], n)) \in Nat
    BY <2>3 DEF ReadBytes
  <2>5. PICK o \in Int : o = offset[d] + Len(ReadBytes(data[file[d]], offset[d], n))
    BY <2>2, <2>4
  <2>6. offset' = [offset EXCEPT ![d] = o]
    BY <1>3, <2>5
  <2> QED BY <1>3, <2>1, <2>6, DataChanges
<1> QED BY <1>1, <1>2, <1>3 DEF Read, Crashes

LEMMA ResizeDataInv ==
  ASSUME IInv, DataInv, NEW d, NEW newSize \in NewSizes, NEW spare \in Nat,
         Resize(d, newSize, spare)
  PROVE  DataInv'
<1>1. CASE BadFd(d)
  BY <1>1, BadFdDataInv
<1>2. CASE UNCHANGED << data, offset >>
  BY <1>2, DataChanges
<1>3. CASE IsOpen(d) /\ UNCHANGED offset /\
           \/ /\ Grows(data[file[d]], newSize)
              /\ data' = [data EXCEPT ![file[d]] = Grown(data[file[d]], newSize, spare)]
           \/ data' = [data EXCEPT ![file[d]] = Shrunk(data[file[d]], newSize)]
  <2>1. d \in Fds /\ file[d] \in Files
    BY <1>3, OpenHasFile
  <2>2. data[file[d]] \in FileData /\ LastIn(data[file[d]]) /\ newSize \in Nat
    BY <2>1, SizesAssumption DEF DataInv
  <2>3. CASE /\ Grows(data[file[d]], newSize)
             /\ data' = [data EXCEPT ![file[d]] = Grown(data[file[d]], newSize, spare)]
    <3>1. PICK x \in FileData : LastIn(x) /\ data' = [data EXCEPT ![file[d]] = x]
      BY <2>2, <2>3, GrownIsSound
    <3> QED BY <1>3, <2>1, <3>1, DataChanges
  <2>4. CASE data' = [data EXCEPT ![file[d]] = Shrunk(data[file[d]], newSize)]
    <3>1. PICK x \in FileData : LastIn(x) /\ data' = [data EXCEPT ![file[d]] = x]
      BY <2>2, <2>4, ShrunkIsSound
    <3> QED BY <1>3, <2>1, <3>1, DataChanges
  <2> QED BY <1>3, <2>3, <2>4
<1> QED BY <1>1, <1>2, <1>3 DEF Resize, Crashes

LEMMA OccupyFdOffset ==
  ASSUME IInv, NEW f, NEW flagSet, NEW heap, OccupyFd(f, flagSet, heap)
  PROVE  UNCHANGED offset \/ \E d \in Fds, o \in Nat : offset' = [offset EXCEPT ![d] = o]
<1>1. Capacity0 \in Nat /\ MaxCapacity \in Nat
  BY CapacityAssumption DEF Capacity0, IInv, TypeOK
<1>2. /\ capacity' = IF TableFull THEN 2 * Capacity0 ELSE Capacity0
      /\ capacity' <= MaxCapacity
  BY DEF OccupyFd
<1>3. capacity' \in 0..MaxCapacity
  BY <1>1, <1>2
<1>4. FreeFds \subseteq Fds
  BY <1>3, CapacityAssumption DEF FreeFds, Fds
<1>5. UNCHANGED offset \/ \E d \in FreeFds : offset' = [offset EXCEPT ![d] = 0]
  BY DEF OccupyFd
<1> QED BY <1>4, <1>5

LEMMA OpenDataInv ==
  ASSUME IInv, DataInv, NEW n, NEW flagSet, NEW heap, Open(n, flagSet, heap)
  PROVE  DataInv'
<1>1. CASE UNCHANGED << data, offset >>
  BY <1>1, DataChanges
<1>2. CASE OpenNew(n, flagSet, heap) /\ ~UNCHANGED << data, offset >>
  <2>1. PICK f \in Files : /\ data' = [data EXCEPT ![f] = EmptyData]
                           /\ OccupyFd(f, flagSet, Heap0(heap) - 2)
    BY <1>2 DEF OpenNew, Crashes
  <2>2. UNCHANGED offset \/ \E d \in Fds, o \in Int : offset' = [offset EXCEPT ![d] = o]
    BY <2>1, OccupyFdOffset
  <2> QED BY <2>1, <2>2, EmptyIsData, DataChanges
<1>3. CASE OpenAgain(n, flagSet, heap) /\ ~UNCHANGED << data, offset >>
  <2>1. PICK f \in FilesNamed(n) : /\ data' = [data EXCEPT ![f].size = 0]
                                   /\ OccupyFd(f, flagSet, Heap0(heap))
    BY <1>3 DEF OpenAgain, Crashes
  <2>2. UNCHANGED offset \/ \E d \in Fds, o \in Int : offset' = [offset EXCEPT ![d] = o]
    BY <2>1, OccupyFdOffset
  <2>3. f \in Files
    BY DEF FilesNamed, IInv, TypeOK
  <2>4. PICK x : x = [data[f] EXCEPT !.size = 0]
    OBVIOUS
  <2>5. x \in FileData /\ LastIn(x)
    <3>1. data[f] \in FileData /\ LastIn(data[f])
      BY <2>3 DEF DataInv
    <3>2. x \in FileData /\ x.chain = data[f].chain /\ x.last = data[f].last
      BY <2>4, <3>1 DEF FileData
    <3> QED BY <3>1, <3>2 DEF LastIn
  <2>6. data' = [data EXCEPT ![f] = x]
    BY <2>1, <2>4
  <2> QED BY <2>2, <2>3, <2>5, <2>6, DataChanges
<1>4. CASE OpenExisting(n, flagSet, heap) /\ ~UNCHANGED << data, offset >>
  <2>1. PICK f : UNCHANGED data /\ OccupyFd(f, flagSet, Heap0(heap))
    BY <1>4 DEF OpenExisting, Crashes
  <2>2. UNCHANGED offset \/ \E d \in Fds, o \in Int : offset' = [offset EXCEPT ![d] = o]
    BY <2>1, OccupyFdOffset
  <2> QED BY <2>1, <2>2, DataChanges
<1> QED BY <1>1, <1>2, <1>3, <1>4 DEF Open, OpenMissing, OpenWithoutTable

LEMMA CloseDataInv ==
  ASSUME IInv, DataInv, NEW d, Close(d)
  PROVE  DataInv'
<1>1. CASE BadFd(d)
  BY <1>1, BadFdDataInv
<1>2. CASE IsOpen(d) /\ ~BadFd(d)
  <2>1. d \in Fds /\ \E o \in Int : offset' = [offset EXCEPT ![d] = o]
    BY <1>2, OpenHasFile DEF Close, FreeFd
  <2>2. UNCHANGED data \/ \E g \in Files : data' = [data EXCEPT ![g] = EmptyData]
    BY <1>2 DEF Close, Destroy, FilesNamed, IInv, TypeOK
  <2> QED BY <2>1, <2>2, EmptyIsData, DataChanges
<1> QED BY <1>1, <1>2 DEF Close

LEMMA DeleteDataInv ==
  ASSUME IInv, DataInv, NEW n, Delete(n)
  PROVE  DataInv'
<1>1. UNCHANGED data \/ \E g \in Files : data' = [data EXCEPT ![g] = EmptyData]
  BY DEF Delete, Destroy, FilesNamed, IInv, TypeOK
<1>2. UNCHANGED offset
  BY DEF Delete
<1> QED BY <1>1, <1>2, EmptyIsData, DataChanges

LEMMA NextDataInv == IInv /\ DataInv /\ [Next]_vars => DataInv'
<1> SUFFICES ASSUME IInv, DataInv, [Next]_vars PROVE DataInv'
  OBVIOUS
<1>1. CASE Next
  BY <1>1, HeapAssumption, OpenDataInv, WriteDataInv, ReadDataInv, ResizeDataInv,
     CloseDataInv, DeleteDataInv DEF Next
<1>2. CASE UNCHANGED vars
  BY <1>2, DataChanges DEF vars
<1> QED BY <1>1, <1>2

LEMMA DataInvariance == Spec => [](IInv /\ DataInv)
  BY InitIInv, InitDataInv, NextIInv, NextDataInv, PTL DEF Spec

(* last_block is in the list of every file, or NULL if there is none: for  *)
(* any calls, offsets, sizes and failing allocations.                      *)
THEOREM LastBlocksAreInLists == Spec => []LastBlockInList
<1>1. IInv /\ DataInv => LastBlockInList
  BY DEF IInv, TypeOK, DataInv, LastIn, LastBlockInList
<1> QED BY <1>1, DataInvariance, PTL
=============================================================================
