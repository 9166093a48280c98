-------------------------------- MODULE UserFs --------------------------------
(***************************************************************************)
(* The user file system of fs/userfs.c: the files, the descriptor table    *)
(* and the calls ufs_open, ufs_write, ufs_read, ufs_close, ufs_delete and  *)
(* ufs_resize, each of them one action.  The library is sequential, so a   *)
(* behaviour is any sequence of calls with any arguments.                  *)
(*                                                                         *)
(* file_list is here the set of the files that are linked in it; FileList  *)
(* shows that the doubly linked list of the code is such a set.            *)
(*                                                                         *)
(* heap, the argument of every call that allocates, is the number of       *)
(* allocations that succeed before one fails.                              *)
(***************************************************************************)
EXTENDS BlockFile, FiniteSets

CONSTANTS
  Names,        \* file names
  Files,        \* addresses a struct file can have
  MaxCapacity,  \* BOUND: the descriptor table does not grow beyond it
  MaxBlocks,    \* BOUND: ufs_resize is not called where a file would get more
  OpenFlags,    \* the flags ufs_open is called with: sets of flag names
  Buffers,      \* the buffers ufs_write is called with
  Counts,       \* the sizes ufs_read is called with
  NewSizes,     \* the sizes ufs_resize is called with
  Heaps,        \* what is left on the heap when a call starts
  NULL

ASSUME NullAssumption == NULL \notin Files \cup Names
ASSUME CapacityAssumption == MaxCapacity \in Nat \ {0}
ASSUME BlocksAssumption == MaxBlocks \in Nat
ASSUME FlagsAssumption ==
  OpenFlags \subseteq SUBSET {"CREATE", "READ_ONLY", "WRITE_ONLY", "READ_WRITE"}
ASSUME HeapAssumption == Heaps \subseteq Nat
ASSUME BuffersAssumption == Buffers \subseteq Seq(Byte)
ASSUME SizesAssumption == Counts \subseteq Nat /\ NewSizes \subseteq Nat

VARIABLES
  file_list,   \* the files linked in the list
  name,        \* name of each of them, NULL for the others
  refs,        \* descriptors open on each file, as the file counts them
  del_flag,    \* files deleted while descriptors were open: ghosts
  data,        \* block_list, last_block and file_size of each file
  table,       \* fd_table: "absent", "no_array" (its array is NULL) or "ready"
  capacity,    \* file_descriptor_capacity
  count,       \* file_descriptor_count
  file,        \* the file of each descriptor, NULL for an empty slot
  offset,      \* the descriptors' offsets
  flags,       \* and flags
  ufs_error_code,
  result,      \* what the last call returned: its value and the bytes read
  fault        \* the process has dereferenced NULL or left a block

dirVars   == << file_list, name, del_flag >>
tableVars == << table, capacity, count, file >>
vars == << file_list, name, refs, del_flag, data, table, capacity, count, file,
           offset, flags, ufs_error_code, result, fault >>

Fds == 0..(MaxCapacity - 1)
FdArguments == -1..MaxCapacity

Init ==
  /\ file_list = {}
  /\ name = [f \in Files |-> NULL]
  /\ refs = [f \in Files |-> 0]
  /\ del_flag = [f \in Files |-> FALSE]
  /\ data = [f \in Files |-> EmptyData]
  /\ table = "absent" /\ capacity = 0 /\ count = 0
  /\ file = [d \in Fds |-> NULL]
  /\ offset = [d \in Fds |-> 0]
  /\ flags = [d \in Fds |-> {}]
  /\ ufs_error_code = "NO_ERR"
  /\ result = [value |-> 0, bytes |-> << >>]
  /\ fault = FALSE

-----------------------------------------------------------------------------
Returns(v) == result' = [value |-> v, bytes |-> << >>]

Succeeds(v) == Returns(v) /\ UNCHANGED << ufs_error_code, fault >>

(* conditional_set_error *)
Fails(error) == Returns(-1) /\ ufs_error_code' = error /\ UNCHANGED fault

(* The process dies of a segmentation fault. *)
Crashes ==
  /\ fault' = TRUE
  /\ UNCHANGED << file_list, name, refs, del_flag, data, table, capacity, count,
                  file, offset, flags, ufs_error_code, result >>

(* find_file_by_name: it finds a ghost as well as any other file.  The     *)
(* variant is a search that skips ghosts.                                  *)
FilesNamedWithoutGhosts(n) == {f \in file_list : name[f] = n /\ ~del_flag[f]}
FilesNamed(n) == {f \in file_list : name[f] = n}

(* get_at_fd reads the table of a file system that was never opened, or    *)
(* the array that a failed reallocarray has replaced by NULL.              *)
LookupFaults(d) ==
  \/ table = "absent"
  \/ table = "no_array" /\ d \in 0..(capacity - 1)

IsOpen(d) == table = "ready" /\ d \in 0..(capacity - 1) /\ file[d] # NULL

(* What ufs_write, ufs_read, ufs_close and ufs_resize do with a number     *)
(* that is not an open descriptor.                                         *)
BadFd(d) ==
  \/ LookupFaults(d) /\ Crashes
  \/ /\ ~LookupFaults(d) /\ ~IsOpen(d)
     /\ Fails("NO_FILE")
     /\ UNCHANGED << dirVars, refs, data, tableVars, offset, flags >>

-----------------------------------------------------------------------------
(***************************************************************************)
(* ufs_open.  Capacity0 and Heap0 are the table and the heap as they are   *)
(* behind lazy_init, which allocates the table and its array.              *)
(***************************************************************************)
LazyInitFails(heap) == table = "absent" /\ heap < 2

Capacity0 == IF table = "absent" THEN 1 ELSE capacity
Heap0(heap) == IF table = "absent" THEN heap - 2 ELSE heap

(* The half initialized table stays: the next call finds it allocated. *)
OpenWithoutTable(heap) ==
  /\ LazyInitFails(heap)
  /\ table' = IF heap = 0 THEN "absent" ELSE "no_array"
  /\ capacity' = IF heap = 0 THEN capacity ELSE 1
  /\ Fails("NO_MEM")
  /\ UNCHANGED << dirVars, refs, data, count, file, offset, flags >>

(* occupy_fd and the rest of ufs_open, for file f and what is left of the  *)
(* heap.  A full table is doubled first.                                   *)
TableFull == count = Capacity0
HeapForFd(heap) == IF TableFull THEN heap - 1 ELSE heap
FreeFds == {d \in 0..(capacity' - 1) : file[d] = NULL}

(* The variant does not count the new descriptor. *)
RefsNotCounted(f) == refs
RefsOpened(f) == [refs EXCEPT ![f] = @ + 1]

OccupyFd(f, flagSet, heap) ==
  /\ capacity' = IF TableFull THEN 2 * Capacity0 ELSE Capacity0
  /\ capacity' <= MaxCapacity
  /\ table' = IF HeapForFd(heap) < 0 THEN "no_array" ELSE "ready"
  /\ \/ /\ HeapForFd(heap) <= 0 \/ FreeFds = {}
        /\ Fails("NO_MEM")
        /\ UNCHANGED << refs, count, file, offset, flags >>
     \/ /\ HeapForFd(heap) > 0
        /\ \E d \in FreeFds :
             /\ \A e \in FreeFds : d <= e
             /\ file' = [file EXCEPT ![d] = f]
             /\ offset' = [offset EXCEPT ![d] = 0]
             /\ flags' = [flags EXCEPT ![d] = flagSet \cup {"READ_WRITE"}]
             /\ Succeeds(d)
        /\ count' = count + 1
        /\ refs' = RefsOpened(f)

(* UFS_CREATE and no such file: a file is allocated, named and linked.     *)
(* The name's allocation is not checked before strcpy.                     *)
OpenNew(n, flagSet, heap) ==
  /\ "CREATE" \in flagSet /\ FilesNamed(n) = {}
  /\ \E f \in Files \ file_list :
       \/ /\ Heap0(heap) = 0
          /\ Fails("NO_MEM")
          /\ table' = IF table = "absent" THEN "ready" ELSE table
          /\ capacity' = Capacity0
          /\ UNCHANGED << dirVars, refs, data, count, file, offset, flags >>
       \/ /\ Heap0(heap) = 1 \/ (Heap0(heap) > 1 /\ table = "no_array")
          /\ Crashes
       \/ /\ Heap0(heap) > 1 /\ table # "no_array"
          /\ file_list' = file_list \cup {f}
          /\ name' = [name EXCEPT ![f] = n]
          /\ del_flag' = [del_flag EXCEPT ![f] = FALSE]
          /\ data' = [data EXCEPT ![f] = EmptyData]
          /\ OccupyFd(f, flagSet, Heap0(heap) - 2)

(* UFS_CREATE and the file, or its ghost, exists: it is cut to size 0 and  *)
(* is no ghost any more.                                                   *)
OpenAgain(n, flagSet, heap) ==
  /\ "CREATE" \in flagSet
  /\ \E f \in FilesNamed(n) :
       \/ table = "no_array" /\ Crashes
       \/ /\ table # "no_array"
          /\ del_flag' = [del_flag EXCEPT ![f] = FALSE]
          /\ data' = [data EXCEPT ![f].size = 0]
          /\ UNCHANGED << file_list, name >>
          /\ OccupyFd(f, flagSet, Heap0(heap))

OpenExisting(n, flagSet, heap) ==
  /\ "CREATE" \notin flagSet
  /\ \E f \in FilesNamed(n) :
       /\ ~del_flag[f]
       /\ \/ table = "no_array" /\ Crashes
          \/ /\ table # "no_array"
             /\ UNCHANGED << dirVars, data >>
             /\ OccupyFd(f, flagSet, Heap0(heap))

OpenMissing(n, flagSet) ==
  /\ "CREATE" \notin flagSet
  /\ \A f \in FilesNamed(n) : del_flag[f]
  /\ Fails("NO_FILE")
  /\ table' = IF table = "absent" THEN "ready" ELSE table
  /\ capacity' = Capacity0
  /\ UNCHANGED << dirVars, refs, data, count, file, offset, flags >>

Open(n, flagSet, heap) ==
  \/ OpenWithoutTable(heap)
  \/ /\ ~LazyInitFails(heap)
     /\ \/ OpenNew(n, flagSet, heap)
        \/ OpenAgain(n, flagSet, heap)
        \/ OpenExisting(n, flagSet, heap)
        \/ OpenMissing(n, flagSet)

-----------------------------------------------------------------------------
(***************************************************************************)
(* ufs_write, ufs_read and ufs_resize through an open descriptor.          *)
(***************************************************************************)
Write(d, buf, spare) ==
  \/ BadFd(d)
  \/ /\ IsOpen(d) /\ "READ_ONLY" \in flags[d]
     /\ Fails("NO_PERMISSION")
     /\ UNCHANGED << dirVars, refs, data, tableVars, offset, flags >>
  \/ /\ IsOpen(d) /\ "READ_ONLY" \notin flags[d]
     /\ LET w == Written(data[file[d]], offset[d], buf, spare)
        IN  \/ w.status = "fault" /\ Crashes
            \/ /\ w.status # "fault"
               /\ data' = [data EXCEPT ![file[d]] = w.data]
               /\ offset' = [offset EXCEPT ![d] = w.offset]
               /\ IF w.status = "nomem" THEN Fails("NO_MEM") ELSE Succeeds(Len(buf))
               /\ UNCHANGED << dirVars, refs, tableVars, flags >>

Read(d, n) ==
  \/ BadFd(d)
  \/ /\ IsOpen(d) /\ "WRITE_ONLY" \in flags[d]
     /\ Fails("NO_PERMISSION")
     /\ UNCHANGED << dirVars, refs, data, tableVars, offset, flags >>
  \/ /\ IsOpen(d) /\ "WRITE_ONLY" \notin flags[d]
     /\ ReadFaults(data[file[d]], offset[d], n)
     /\ Crashes
  \/ /\ IsOpen(d) /\ "WRITE_ONLY" \notin flags[d]
     /\ ~ReadFaults(data[file[d]], offset[d], n)
     /\ LET bytes == ReadBytes(data[file[d]], offset[d], n)
        IN  /\ result' = [value |-> Len(bytes), bytes |-> bytes]
            /\ offset' = [offset EXCEPT ![d] = @ + Len(bytes)]
     /\ UNCHANGED << dirVars, refs, data, tableVars, flags, ufs_error_code, fault >>

Resize(d, newSize, spare) ==
  \/ BadFd(d)
  \/ /\ IsOpen(d)
     /\ LET old == data[file[d]]
            Becomes(new) == data' = [data EXCEPT ![file[d]] = new]
        IN  \/ /\ Grows(old, newSize)
               /\ Len(Grown(old, newSize, spare).chain) <= MaxBlocks
               /\ Becomes(Grown(old, newSize, spare))
               /\ IF spare < MissingBlocks(old, newSize) THEN Fails("NO_MEM") ELSE Succeeds(0)
               /\ UNCHANGED << dirVars, refs, tableVars, offset, flags >>
            \/ /\ Shrinks(old, newSize) /\ newSize > MaxFileSize
               /\ Fails("NO_MEM")
               /\ UNCHANGED << dirVars, refs, data, tableVars, offset, flags >>
            \/ /\ Shrinks(old, newSize) /\ newSize <= MaxFileSize
               /\ ShrinkFaults(old, newSize)
               /\ Crashes
            \/ /\ Shrinks(old, newSize) /\ newSize <= MaxFileSize
               /\ ~ShrinkFaults(old, newSize)
               /\ Becomes(Shrunk(old, newSize))
               /\ Succeeds(0)
               /\ UNCHANGED << dirVars, refs, tableVars, offset, flags >>
            \/ /\ newSize = old.size
               /\ Succeeds(0)
               /\ UNCHANGED << dirVars, refs, data, tableVars, offset, flags >>

-----------------------------------------------------------------------------
(***************************************************************************)
(* ufs_delete and ufs_close, which deletes a ghost with its last           *)
(* descriptor.                                                             *)
(***************************************************************************)

(* Unlinking the file and destroy_file. *)
Destroy(f) ==
  /\ file_list' = file_list \ {f}
  /\ name' = [name EXCEPT ![f] = NULL]
  /\ del_flag' = [del_flag EXCEPT ![f] = FALSE]
  /\ data' = [data EXCEPT ![f] = EmptyData]

(* The variant frees a file whose descriptors are still open. *)
NeverInUse(f) == FALSE
InUse(f)      == refs[f] # 0

Delete(n) ==
  \/ /\ FilesNamed(n) = {}
     /\ Fails("NO_FILE")
     /\ UNCHANGED << dirVars, refs, data, tableVars, offset, flags >>
  \/ \E f \in FilesNamed(n) :
       /\ \/ /\ InUse(f)
             /\ del_flag' = [del_flag EXCEPT ![f] = TRUE]
             /\ UNCHANGED << file_list, name, data >>
          \/ ~InUse(f) /\ Destroy(f)
       /\ Succeeds(0)
       /\ UNCHANGED << refs, tableVars, offset, flags >>

(* Whether closing a descriptor of f makes ufs_close call ufs_delete.  The *)
(* variant tests the counter before it is decremented.                     *)
LastCloseTooLate(f) == del_flag[f] /\ refs[f] = 0
LastClose(f)        == del_flag[f] /\ refs[f] = 1

(* free_fd.  The variant forgets to count down.                            *)
FreeFdUncounted(d) ==
  /\ file' = [file EXCEPT ![d] = NULL]
  /\ offset' = [offset EXCEPT ![d] = 0]
  /\ flags' = [flags EXCEPT ![d] = {}]
  /\ UNCHANGED << table, capacity, count >>

FreeFd(d) ==
  /\ file' = [file EXCEPT ![d] = NULL]
  /\ offset' = [offset EXCEPT ![d] = 0]
  /\ flags' = [flags EXCEPT ![d] = {}]
  /\ count' = count - 1
  /\ UNCHANGED << table, capacity >>

(* The ghost is looked up by its name again. *)
Close(d) ==
  \/ BadFd(d)
  \/ /\ IsOpen(d)
     /\ LET f == file[d]
        IN  /\ refs' = [refs EXCEPT ![f] = @ - 1]
            /\ IF LastClose(f)
               THEN \E g \in FilesNamed(name[f]) :
                      IF refs'[g] = 0 THEN Destroy(g)
                      ELSE /\ del_flag' = [del_flag EXCEPT ![g] = TRUE]
                           /\ UNCHANGED << file_list, name, data >>
               ELSE UNCHANGED << dirVars, data >>
     /\ FreeFd(d)
     /\ Succeeds(0)

Next ==
  /\ ~fault
  /\ \/ \E n \in Names, fl \in OpenFlags, heap \in Heaps : Open(n, fl, heap)
     \/ \E d \in FdArguments, buf \in Buffers, spare \in Heaps : Write(d, buf, spare)
     \/ \E d \in FdArguments, n \in Counts : Read(d, n)
     \/ \E d \in FdArguments, size \in NewSizes, spare \in Heaps : Resize(d, size, spare)
     \/ \E d \in FdArguments : Close(d)
     \/ \E n \in Names : Delete(n)

Spec == Init /\ [][Next]_vars

-----------------------------------------------------------------------------
TypeOK ==
  /\ file_list \subseteq Files
  /\ name \in [Files -> Names \cup {NULL}]
  /\ refs \in [Files -> Nat]
  /\ del_flag \in [Files -> BOOLEAN]
  /\ table \in {"absent", "no_array", "ready"}
  /\ capacity \in 0..MaxCapacity /\ count \in 0..MaxCapacity
  /\ file \in [Fds -> Files \cup {NULL}]
  /\ fault \in BOOLEAN

(* The two ways of counting the descriptors of a file agree, and a         *)
(* descriptor never outlives its file: whatever the order of opens,        *)
(* deletes, re-creations and closes, ufs_close decrements a counter that   *)
(* is the number of descriptors still open (userfs.c:104, 230), so that a  *)
(* ghost is freed with the last of them and never before.                  *)
DescriptorsOf(f) == {d \in Fds : file[d] = f}

RefsCountDescriptors ==
  \A f \in Files : refs[f] = Cardinality(DescriptorsOf(f))

NoDanglingDescriptor ==
  \A d \in Fds : file[d] # NULL => file[d] \in file_list

(* The table's count is the number of its occupied slots and no descriptor *)
(* lies behind its capacity, so that a table that is not full has a free   *)
(* slot below it: the return at the end of occupy_fd is never reached.     *)
TableAccounts ==
  /\ count = Cardinality({d \in Fds : file[d] # NULL})
  /\ \A d \in Fds : file[d] # NULL => d < capacity

(* A deleted file without descriptors does not stay in the list            *)
(* (userfs.h:123: its content lives until the last descriptor is closed).  *)
GhostsAreOpen ==
  \A f \in file_list : del_flag[f] => refs[f] > 0

(* last_block is NULL for the files without blocks and points into the     *)
(* file's list otherwise, whatever sequence of writes, resizes and failed  *)
(* allocations the file has seen: ufs_write tests last_block where it      *)
(* means an empty block_list, and would replace the list (userfs.c:121).   *)
LastBlockInList ==
  \A f \in file_list :
    /\ data[f].last <= Len(data[f].chain)
    /\ data[f].last = 0 <=> data[f].chain = << >>

(* A file has an unique file name (userfs.h:6), ghosts included: the first *)
(* match of find_file_by_name is the only one, in ufs_close as well.       *)
NamesAreUnique ==
  \A f, g \in file_list : name[f] = name[g] => f = g
=============================================================================
