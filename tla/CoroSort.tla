-------------------------------- MODULE CoroSort --------------------------------
(***************************************************************************)
(* The program coro-sort: main, the coroutine that reads all files with    *)
(* POSIX asynchronous I/O, a coroutine for every file that counts and      *)
(* sorts its numbers, and the coroutine that merges the sorted arrays, on  *)
(* the scheduler of CoroScheduler.  The kernel completes the reads at any  *)
(* moment.                                                                 *)
(*                                                                         *)
(* A coroutine works without interruption from one yield to the next.  How *)
(* the numbers are found, sorted and merged is in NumberLine, PrepareSort  *)
(* and MergeSortedArrays; here a file is the number of its numbers, or a   *)
(* text whose end the loop around strtol never comes to.                   *)
(*                                                                         *)
(* Every allocation and every switch of contexts may fail, which ends the  *)
(* program.                                                                *)
(***************************************************************************)
EXTENDS Integers, FiniteSets, Functions

CONSTANTS
  num_files,   \* how many files the command line names
  MaxNumbers   \* BOUND: numbers in a file

ASSUME NumFilesAssumption == num_files \in Nat
ASSUME MaxNumbersAssumption == MaxNumbers \in Nat

VARIABLES
  cpu, statuses, free_slot, running_coroutine, phase, scheduler_ctx, link,
                   \* the scheduler's, see CoroScheduler
  main_pc,         \* what main does next
  job,             \* what each coroutine was made for: a file to sort,
                   \* AioRead, MergeArrays or nothing yet
  aio,             \* the state of each file's request
  processed_mask,  \* the requests the reader has seen finished
  num_finished,    \* and their number, as the reader counts them
  scan,            \* i of the reader's loop, -1 before the requests are made
  numbers,         \* how many numbers the buffer of a file holds, or Endless
  sizes,           \* how many of them its coroutine has counted
  sorted,          \* the files whose arrays are sorted
  total_size       \* what main has added up

schedulerVars ==
  << cpu, statuses, free_slot, running_coroutine, phase, scheduler_ctx, link >>
readerVars == << aio, processed_mask, num_finished, scan, numbers >>
sorterVars == << sizes, sorted >>
programVars == << main_pc, job, readerVars, sorterVars, total_size >>
vars == << schedulerVars, programVars >>

(* make_scheduler(&global_coro_scheduler, &main_ctx, num_files + 2). *)
Capacity == num_files + 2
Scheduler == INSTANCE CoroScheduler WITH MaxCoroutines <- Capacity, MaxReuses <- 1

Files == 0..(num_files - 1)

(* A text on which the loop of prepare_sort never ends: one with trailing  *)
(* white space or with anything that is no number.                         *)
Endless == MaxNumbers + 1
Stuck   == {f \in Files : numbers[f] = Endless}

AioRead == -1
MergeArrays == -2
NoJob == -3

Init ==
  /\ Scheduler!Init
  /\ main_pc = "spawn_reader"
  /\ job = [i \in Scheduler!Capacity |-> NoJob]
  /\ aio = [f \in Files |-> "none"]
  /\ processed_mask = {} /\ num_finished = 0 /\ scan = -1
  /\ numbers = [f \in Files |-> 0]
  /\ sizes = [f \in Files |-> 0]
  /\ sorted = {}
  /\ total_size = 0

Gets(what) == job' = [job EXCEPT ![free_slot] = what]

HasEnded == cpu \in {"no_space", "exited"}

Works(what) == cpu = "coroutine" /\ job[running_coroutine] = what

-----------------------------------------------------------------------------
(***************************************************************************)
(* main.                                                                   *)
(***************************************************************************)
MainSpawnsReader ==
  /\ main_pc = "spawn_reader"
  /\ Scheduler!MainSpawns
  /\ \/ HasEnded' /\ UNCHANGED programVars
     \/ /\ ~HasEnded'
        /\ Gets(AioRead)
        /\ main_pc' = "join_sorters"
        /\ UNCHANGED << readerVars, sorterVars, total_size >>

MainJumps ==
  /\ main_pc \in {"join_sorters", "join_merge"}
  /\ Scheduler!JumpToScheduler
  /\ UNCHANGED programVars

(* The sizes are added up and the scheduler is prepared for the merge. *)
MainReuses ==
  /\ main_pc = "join_sorters"
  /\ Scheduler!ReuseScheduler
  /\ \/ HasEnded' /\ UNCHANGED programVars
     \/ /\ ~HasEnded'
        /\ total_size' = SumFunction(sizes)
        /\ main_pc' = "spawn_merge"
        /\ UNCHANGED << job, readerVars, sorterVars >>

MainSpawnsMerge ==
  /\ main_pc = "spawn_merge"
  /\ Scheduler!MainSpawns
  /\ \/ HasEnded' /\ UNCHANGED programVars
     \/ /\ ~HasEnded'
        /\ Gets(MergeArrays)
        /\ main_pc' = "join_merge"
        /\ UNCHANGED << readerVars, sorterVars, total_size >>

MainOutputs ==
  /\ main_pc = "join_merge" /\ cpu = "main" /\ phase = "returned"
  /\ main_pc' = "done"
  /\ UNCHANGED << schedulerVars, job, readerVars, sorterVars, total_size >>

Schedule == Scheduler!Schedule /\ UNCHANGED programVars

-----------------------------------------------------------------------------
(***************************************************************************)
(* aio_read_util and the kernel.                                           *)
(***************************************************************************)

(* Opening the files and making the requests; a file that cannot be        *)
(* opened, like a failed allocation, ends the program.                     *)
Submit ==
  /\ Works(AioRead) /\ scan = -1
  /\ \/ aio' = [f \in Files |-> "EINPROGRESS"] /\ scan' = 0 /\ UNCHANGED schedulerVars
     \/ Scheduler!Exits /\ UNCHANGED << aio, scan >>
  /\ UNCHANGED << main_pc, job, processed_mask, num_finished, numbers, sorterVars, total_size >>

(* A request ends, with an error, with less than the file or with all of   *)
(* it: the reader treats them the same.  The buffer holds any numbers, and *)
(* with or without an error it may be a text that prepare_sort never       *)
(* leaves.                                                                 *)
Completes(f) ==
  /\ ~HasEnded /\ aio[f] = "EINPROGRESS"
  /\ aio' = [aio EXCEPT ![f] = "ended"]
  /\ \E n \in 0..Endless : numbers' = [numbers EXCEPT ![f] = n]
  /\ UNCHANGED << schedulerVars, main_pc, job, processed_mask, num_finished, scan,
                  sorterVars, total_size >>

(* The variant forgets the mask. *)
EndedEver(f) == aio[f] # "EINPROGRESS"
EndedNow(f) == aio[f] # "EINPROGRESS" /\ f \notin processed_mask

(* One turn of the inner loop.  The outer loop's test is at scan = 0. *)
Scan ==
  /\ Works(AioRead) /\ scan \in Files
  /\ scan = 0 => num_finished # num_files
  /\ \/ /\ EndedNow(scan)
        /\ Scheduler!CoroutineSpawns
        /\ \/ HasEnded' /\ UNCHANGED << job, num_finished, processed_mask, scan >>
           \/ /\ ~HasEnded'
              /\ Gets(scan)
              /\ num_finished' = num_finished + 1
              /\ processed_mask' = processed_mask \cup {scan}
              /\ scan' = scan + 1
     \/ /\ ~EndedNow(scan)
        /\ scan' = scan + 1
        /\ UNCHANGED << schedulerVars, job, num_finished, processed_mask >>
  /\ UNCHANGED << main_pc, aio, numbers, sorterVars, total_size >>

ReaderYields ==
  /\ Works(AioRead) /\ scan = num_files /\ num_files # 0
  /\ Scheduler!Yield
  /\ scan' = 0
  /\ UNCHANGED << main_pc, job, aio, processed_mask, num_finished, numbers,
                  sorterVars, total_size >>

(* The requests are freed. *)
ReaderFinishes ==
  /\ Works(AioRead) /\ scan = 0 /\ num_finished = num_files
  /\ Scheduler!FinishCoroutine
  /\ UNCHANGED programVars

-----------------------------------------------------------------------------
(***************************************************************************)
(* prepare_sort of file f, which yields behind each of its statements, and *)
(* merge_sorted_arrays, which does not yield.                              *)
(***************************************************************************)
SorterYields(f) ==
  /\ Works(f)
  /\ Scheduler!Yield
  /\ UNCHANGED programVars

(* Work between two yields: a number is counted, the array gets sorted.    *)
(* The variant counts one too many.                                        *)
HasMoreOrOne(f) == sizes[f] <= numbers[f]
HasMore(f) == sizes[f] < numbers[f]

CountsNumber(f) ==
  /\ HasMore(f)
  /\ sizes' = [sizes EXCEPT ![f] = @ + 1]
  /\ Scheduler!Yield
  /\ UNCHANGED sorted

(* BOUND: in a text without an end the count stays where it is. *)
CountsOn(f) ==
  /\ f \in Stuck /\ ~HasMore(f)
  /\ Scheduler!Yield
  /\ UNCHANGED sorterVars

SortsArray(f) ==
  /\ f \notin Stuck /\ ~HasMore(f)
  /\ sorted' = sorted \cup {f}
  /\ Scheduler!Yield
  /\ UNCHANGED sizes

(* An allocation fails, in front of the first number or behind the last    *)
(* one; or the zeros counted in a text without an end have filled the      *)
(* array and leave it.  What they overwrite is not modelled: the behaviour *)
(* ends there.                                                             *)
SorterExits(f) ==
  /\ sizes[f] = 0 \/ ~HasMore(f)
  /\ Scheduler!Exits
  /\ UNCHANGED sorterVars

SorterWorks(f) ==
  /\ Works(f) /\ f \notin sorted
  /\ CountsNumber(f) \/ CountsOn(f) \/ SortsArray(f) \/ SorterExits(f)
  /\ UNCHANGED << main_pc, job, readerVars, total_size >>

SorterFinishes(f) ==
  /\ Works(f) /\ f \in sorted
  /\ Scheduler!FinishCoroutine
  /\ UNCHANGED programVars

Merge ==
  /\ Works(MergeArrays)
  /\ Scheduler!FinishCoroutine
  /\ UNCHANGED programVars

Next ==
  \/ MainSpawnsReader \/ MainJumps \/ MainReuses \/ MainSpawnsMerge \/ MainOutputs
  \/ Schedule
  \/ Submit \/ Scan \/ ReaderYields \/ ReaderFinishes
  \/ \E f \in Files : Completes(f)
  \/ \E f \in Files : SorterYields(f) \/ SorterWorks(f) \/ SorterFinishes(f)
  \/ Merge

(* The process runs on, the kernel ends every request, and a sorter yields *)
(* only a few times before it does its next piece of work or returns.      *)
Fairness ==
  /\ WF_vars(Next)
  /\ \A f \in Files : /\ WF_vars(Completes(f))
                      /\ SF_vars(SorterWorks(f)) /\ SF_vars(SorterFinishes(f))

Spec == Init /\ [][Next]_vars /\ Fairness

-----------------------------------------------------------------------------
TypeOK ==
  /\ Scheduler!TypeOK
  /\ main_pc \in {"spawn_reader", "join_sorters", "spawn_merge", "join_merge", "done"}
  /\ processed_mask \subseteq Files /\ num_finished \in Nat
  /\ scan \in -1..num_files
  /\ sizes \in [Files -> 0..Endless] /\ numbers \in [Files -> 0..Endless]
  /\ sorted \subseteq Files

(* The merge sees the arrays of all files, sorted, and their total size:   *)
(* the jump of main waits for the sorters, which did not exist yet when    *)
(* main jumped (main.c:67, 71, 84; README.md:3-4).                         *)
MergeSeesSortedArrays ==
  Works(MergeArrays) => /\ sorted = Files
                    /\ total_size = SumFunction(numbers)

(* num_files + 2 slots are enough (main.c:59), although slots are never    *)
(* given back: nobody spawns a coroutine when the scheduler is full        *)
(* (coroutine.c:16-18).                                                    *)
SlotsSuffice == cpu # "no_space"

(* The reader frees the requests only when the kernel is done with them    *)
(* (aio_read_util.c:66-69, 102), and a sorter never looks at a buffer that *)
(* is still being read.                                                    *)
RequestsOutliveReads ==
  /\ \A i \in Scheduler!Slots :
       job[i] = AioRead /\ statuses[i] = "FINISHED" => \A f \in Files : aio[f] = "ended"
  /\ \A f \in Files : Works(f) => aio[f] = "ended"

(* The program comes to its end, by the output or by a failure, if all     *)
(* texts do (sort.c:67-75), although the reader waits busily and the       *)
(* scheduler lets only the two lowest unfinished coroutines run: the reads *)
(* end without help, and the coroutines that work become fewer.            *)
Terminates == <>(main_pc = "done" \/ cpu = "exited" \/ Stuck # {})

(* One text without an end keeps the program from ending, but no other     *)
(* file from being sorted, wherever its sorter stands in the scheduler's   *)
(* order (scheduler.c:72-79): it alternates with the lowest of the others. *)
(* Two such sorters alternate with each other, and those behind starve.    *)
OthersAreSorted ==
  <>(cpu = "exited" \/ Cardinality(Stuck) > 1 \/ sorted \cup Stuck = Files)
=============================================================================
