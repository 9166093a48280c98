----------------------------- MODULE CoroSortProofs -----------------------------
(***************************************************************************)
(* The program coro-sort on its scheduler, for any number of files: each   *)
(* of its steps is a step of CoroScheduler or leaves the scheduler alone,  *)
(* so the scheduler's invariants hold here, and with them those of the     *)
(* program.                                                                *)
(***************************************************************************)
EXTENDS CoroSort, FiniteSetTheorems, TLAPS

Proved == INSTANCE CoroSchedulerProofs WITH MaxCoroutines <- Capacity, MaxReuses <- 1

InUse == 0..(free_slot - 1)
IsFinished(i) == statuses[i] = "FINISHED"
HasMerge  == main_pc \in {"join_merge", "done"}

(***************************************************************************)
(* The inductive invariant: beside the scheduler's, which slots are in use *)
(* and for what, how far the reader and the sorters are, and what main has *)
(* when it has come back from its first jump.                              *)
(***************************************************************************)
Types ==
  /\ main_pc \in {"spawn_reader", "join_sorters", "spawn_merge", "join_merge", "done"}
  /\ job \in [0..(num_files + 1) -> Int]
  /\ aio \in [Files -> {"none", "EINPROGRESS", "ended"}]
  /\ processed_mask \subseteq Files
  /\ num_finished = Cardinality(processed_mask)
  /\ scan \in -1..num_files
  /\ sizes \in [Files -> 0..Endless] /\ numbers \in [Files -> 0..Endless]
  /\ sorted \subseteq Files

SlotsCounted ==
  /\ free_slot = (IF main_pc = "spawn_reader" THEN 0 ELSE 1) + num_finished
                   + (IF HasMerge THEN 1 ELSE 0)
  /\ main_pc = "spawn_reader" => num_finished = 0

Jobs ==
  /\ \A i \in InUse :
       /\ job[i] \in Files \cup {AioRead, MergeArrays}
       /\ job[i] = AioRead <=> i = 0
       /\ job[i] \in Files => job[i] \in processed_mask
       /\ job[i] = MergeArrays => HasMerge
  /\ \A f \in processed_mask : \E i \in InUse : job[i] = f

FinishedJobs ==
  \A i \in InUse : IsFinished(i) =>
    /\ job[i] = AioRead => processed_mask = Files
    /\ job[i] \in Files => job[i] \in sorted

Reads ==
  /\ scan = -1 => processed_mask = {} /\ \A f \in Files : aio[f] = "none"
  /\ scan # -1 => \A f \in Files : aio[f] # "none"
  /\ \A f \in processed_mask : aio[f] = "ended"
  /\ \A f \in Files :
       /\ aio[f] # "ended" => sizes[f] = 0 /\ f \notin sorted
       /\ sizes[f] <= numbers[f]
       /\ f \in sorted => sizes[f] = numbers[f]

Joined ==
  main_pc \in {"spawn_merge", "join_merge", "done"} =>
    /\ \A i \in InUse : job[i] # MergeArrays => IsFinished(i)
    /\ processed_mask = Files /\ sorted = Files
    /\ total_size = SumFunction(sizes)

Program == Types /\ SlotsCounted /\ Jobs /\ FinishedJobs /\ Reads /\ Joined /\ SlotsSuffice
IInv == Proved!IInv /\ Program

(* Slots and capacity are plain numbers. *)
LEMMA Numbers ==
  /\ num_files \in Nat /\ Capacity = num_files + 2 /\ Capacity \in Nat \ {0}
  /\ Scheduler!Capacity = 0..(num_files + 1) /\ Proved!Capacity = 0..(num_files + 1)
<1>1. Capacity \in Nat \ {0} /\ Capacity = num_files + 2
  BY NumFilesAssumption DEF Capacity
<1>2. Capacity - 1 = num_files + 1
  BY <1>1, NumFilesAssumption
<1> QED BY <1>1, <1>2, NumFilesAssumption DEF Scheduler!Capacity, Proved!Capacity

(***************************************************************************)
(* The program's steps are the scheduler's.                                *)
(***************************************************************************)
LEMMA InitsAgree == Scheduler!Init => Proved!IInv
<1>1. Scheduler!Init => Proved!Init
  BY DEF Scheduler!Init, Proved!Init, Scheduler!Capacity, Proved!Capacity
<1> QED BY Proved!InitIInv, <1>1, Numbers

LEMMA SpawnsAgree ==
  /\ Scheduler!MainSpawns => Proved!MainSpawns
  /\ Scheduler!CoroutineSpawns => Proved!CoroutineSpawns
  BY DEF Scheduler!MainSpawns, Proved!MainSpawns, Scheduler!CoroutineSpawns,
         Proved!CoroutineSpawns, Scheduler!SpawnCoroutine, Proved!SpawnCoroutine,
         Scheduler!IsFull, Proved!IsFull, Scheduler!Exits, Proved!Exits,
         Scheduler!Ends, Proved!Ends

LEMMA SwitchesAgree ==
  /\ Scheduler!JumpToScheduler => Proved!JumpToScheduler
  /\ Scheduler!ReuseScheduler => Proved!ReuseScheduler
  /\ Scheduler!Yield => Proved!Yield
  /\ Scheduler!FinishCoroutine => Proved!FinishCoroutine
  BY DEF Scheduler!JumpToScheduler, Proved!JumpToScheduler, Scheduler!ReuseScheduler,
         Proved!ReuseScheduler, Scheduler!Yield, Proved!Yield,
         Scheduler!FinishCoroutine, Proved!FinishCoroutine,
         Scheduler!Exits, Proved!Exits, Scheduler!Ends, Proved!Ends

LEMMA SchedulesAgree == Scheduler!Schedule => Proved!Schedule
<1>1. /\ Scheduler!Slots = Proved!Slots /\ Scheduler!Running = Proved!Running
      /\ Scheduler!Suspended = Proved!Suspended
  BY DEF Scheduler!Slots, Proved!Slots, Scheduler!Running, Proved!Running,
         Scheduler!Suspended, Proved!Suspended
<1>2. /\ Scheduler!TooManyRunning <=> Proved!TooManyRunning
      /\ Scheduler!NothingToRun <=> Proved!NothingToRun
  BY <1>1 DEF Scheduler!TooManyRunning, Proved!TooManyRunning,
              Scheduler!NothingToRun, Proved!NothingToRun
<1>3. Scheduler!Exits => Proved!Exits
  BY DEF Scheduler!Exits, Proved!Exits, Scheduler!Ends, Proved!Ends
<1>4. Scheduler!ReturnToMain => Proved!ReturnToMain
  BY DEF Scheduler!ReturnToMain, Proved!ReturnToMain
<1>5. ASSUME NEW r, NEW new
      PROVE  /\ Scheduler!IsRunningIndex(r) <=> Proved!IsRunningIndex(r)
             /\ Scheduler!StatusesAtPick(r) = Proved!StatusesAtPick(r)
             /\ Scheduler!IsPicked(new, r) <=> Proved!IsPicked(new, r)
  <2>1. Scheduler!IsRunningIndex(r) <=> Proved!IsRunningIndex(r)
    BY <1>1 DEF Scheduler!IsRunningIndex, Proved!IsRunningIndex
  <2>2. Scheduler!StatusesAtPick(r) = Proved!StatusesAtPick(r)
    BY <1>1 DEF Scheduler!StatusesAtPick, Proved!StatusesAtPick
  <2>3. Scheduler!Waiting(r) = Proved!Waiting(r)
    BY <1>1, <2>2 DEF Scheduler!Waiting, Proved!Waiting
  <2>4. Scheduler!IsPicked(new, r) <=> Proved!IsPicked(new, r)
    BY <2>3 DEF Scheduler!IsPicked, Proved!IsPicked
  <2> QED BY <2>1, <2>2, <2>4
<1>6. Scheduler!Pick => Proved!Pick
  BY <1>5, Numbers DEF Scheduler!Pick, Proved!Pick
<1> QED BY <1>2, <1>3, <1>4, <1>6 DEF Scheduler!Schedule, Proved!Schedule

LEMMA StepsAgree == Scheduler!Next => Proved!Next
  BY SpawnsAgree, SwitchesAgree, SchedulesAgree DEF Scheduler!Next, Proved!Next

(* A step of the program that is one of the scheduler, or leaves it alone, *)
(* keeps the scheduler's invariant.                                        *)
LEMMA SchedulerKeeps ==
  ASSUME Proved!IInv, Scheduler!Next \/ Scheduler!Exits \/ UNCHANGED schedulerVars
  PROVE  Proved!IInv'
<1>1. 1 \in Nat
  OBVIOUS
<1>2. CASE Scheduler!Exits
  <2>1. Proved!Ends("exited")
    BY <1>2 DEF Scheduler!Exits, Scheduler!Ends, Proved!Ends
  <2> QED BY <1>1, <2>1, Numbers, Proved!EndsKeepIInv
<1>3. CASE ~Scheduler!Exits
  <2>1. [Proved!Next]_(Proved!vars)
    BY <1>3, StepsAgree DEF schedulerVars, Proved!vars
  <2> QED BY <1>1, <2>1, Numbers, Proved!NextIInv
<1> QED BY <1>2, <1>3

(***************************************************************************)
(* What the program needs to know of the scheduler's steps.  SameSlots:    *)
(* the slots in use and those that are finished stay the same.             *)
(***************************************************************************)
SameSlots ==
  /\ free_slot' = free_slot
  /\ \A i \in InUse : IsFinished(i)' <=> IsFinished(i)

GoesOn == cpu' = "no_space" => cpu = "no_space"

AddsSlot ==
  /\ free_slot' = free_slot + 1
  /\ \A i \in InUse : IsFinished(i)' <=> IsFinished(i)
  /\ statuses'[free_slot] # "FINISHED"
  /\ cpu' = cpu

FinishesCurrent ==
  /\ free_slot' = free_slot
  /\ \A i \in InUse : IsFinished(i)' <=> IsFinished(i) \/ i = running_coroutine

(* The slots in use, and the current coroutine, which has not finished. *)
LEMMA SlotFacts ==
  ASSUME Proved!IInv
  PROVE  /\ free_slot \in 0..(num_files + 2)
         /\ InUse \subseteq 0..(num_files + 1)
         /\ DOMAIN statuses = 0..(num_files + 1)
         /\ cpu = "coroutine" => /\ running_coroutine \in InUse
                                 /\ ~IsFinished(running_coroutine)
                                 /\ phase = "entered"
<1>1. free_slot \in 0..(num_files + 2) /\ DOMAIN statuses = 0..(num_files + 1)
  BY Numbers DEF Proved!IInv, Proved!TypeOK
<1>2. InUse \subseteq 0..(num_files + 1)
  BY <1>1, NumFilesAssumption DEF InUse
<1>3. cpu = "coroutine" => /\ running_coroutine \in InUse
                           /\ ~IsFinished(running_coroutine)
                           /\ phase = "entered"
  BY DEF Proved!IInv, Proved!OnlyTheCurrentRuns, Proved!AllFinishedAfterReturn,
         Proved!Slots, InUse, IsFinished
<1> QED BY <1>1, <1>2, <1>3

LEMMA SwitchEffect ==
  ASSUME Proved!IInv,
         Scheduler!JumpToScheduler \/ Scheduler!ReuseScheduler \/ Scheduler!Yield
           \/ Scheduler!Exits \/ UNCHANGED schedulerVars
  PROVE  SameSlots /\ GoesOn
  BY DEF Scheduler!JumpToScheduler, Scheduler!ReuseScheduler, Scheduler!Yield,
         Scheduler!Exits, Scheduler!Ends, schedulerVars, SameSlots, GoesOn, IsFinished

LEMMA ScheduleEffect ==
  ASSUME Proved!IInv, Scheduler!Schedule
  PROVE  SameSlots /\ GoesOn
<1>1. Proved!Schedule
  BY SchedulesAgree
<1>2. ~Proved!TooManyRunning
  BY DEF Proved!IInv, Proved!OnlyTheCurrentRuns, Proved!TooManyRunning, Proved!Running
<1>3. CASE Proved!NothingToRun
  BY <1>1, <1>2, <1>3
  DEF Proved!Schedule, Proved!ReturnToMain, SameSlots, GoesOn, IsFinished
<1>4. CASE ~Proved!NothingToRun
  <2>1. Proved!Pick
    BY <1>1, <1>2, <1>4 DEF Proved!Schedule
  <2>2. /\ running_coroutine' \in Proved!Slots
        /\ statuses[running_coroutine'] \in {"SUSPENDED", "RUNNING"}
        /\ statuses' = [i \in Proved!Capacity |->
              IF i = running_coroutine' THEN "RUNNING"
              ELSE IF statuses[i] = "RUNNING" THEN "SUSPENDED" ELSE statuses[i]]
    BY <2>1, <1>4, Numbers, Proved!PickFacts
  <2>3. free_slot' = free_slot /\ cpu' \in {"coroutine", "exited"}
    BY <2>1 DEF Proved!Pick
  <2>4. \A i \in InUse : IsFinished(i)' <=> IsFinished(i)
    BY <2>2, SlotFacts, Numbers DEF IsFinished
  <2> QED BY <2>3, <2>4 DEF SameSlots, GoesOn
<1> QED BY <1>3, <1>4

(* With a slot left a spawn fails only for want of memory. *)
LEMMA SpawnsOrExits ==
  ASSUME Scheduler!SpawnCoroutine, free_slot # num_files + 2,
         cpu \in {"main", "coroutine"}, HasEnded'
  PROVE  Scheduler!Exits
  BY Numbers DEF Scheduler!SpawnCoroutine, Scheduler!IsFull, HasEnded

LEMMA SpawnEffect ==
  ASSUME Proved!IInv, Scheduler!SpawnCoroutine, free_slot # num_files + 2, ~HasEnded'
  PROVE  AddsSlot
<1>1. ~Scheduler!IsFull
  BY Numbers DEF Scheduler!IsFull
<1>2. /\ statuses' = [statuses EXCEPT ![free_slot] = "SUSPENDED"]
      /\ free_slot' = free_slot + 1 /\ cpu' = cpu
  BY <1>1 DEF Scheduler!SpawnCoroutine, Scheduler!Exits, Scheduler!Ends, HasEnded
<1>3. free_slot \in 0..(num_files + 1) /\ free_slot \notin InUse
  BY SlotFacts, NumFilesAssumption DEF InUse
<1>4. /\ statuses'[free_slot] = "SUSPENDED"
      /\ \A i \in InUse : statuses'[i] = statuses[i]
  BY <1>2, <1>3, SlotFacts
<1> QED BY <1>1, <1>2, <1>4 DEF AddsSlot, IsFinished

LEMMA FinishEffect ==
  ASSUME Proved!IInv, Scheduler!FinishCoroutine
  PROVE  FinishesCurrent /\ cpu' # "no_space"
<1>1. \A i \in InUse :
        statuses'[i] = IF i = running_coroutine THEN "FINISHED" ELSE statuses[i]
  BY SlotFacts DEF Scheduler!FinishCoroutine
<1>2. free_slot' = free_slot /\ cpu' # "no_space"
  BY DEF Scheduler!FinishCoroutine
<1> QED BY <1>1, <1>2 DEF FinishesCurrent, IsFinished

(***************************************************************************)
(* The state behind a coroutine that works.                                *)
(***************************************************************************)
LEMMA MaskCounts ==
  ASSUME Types
  PROVE  /\ IsFiniteSet(processed_mask)
         /\ num_finished \in 0..num_files
         /\ num_finished = num_files <=> processed_mask = Files
<1>1. IsFiniteSet(Files) /\ Cardinality(Files) = num_files
  <2>1. 0 \in Int /\ num_files - 1 \in Int
    BY NumFilesAssumption
  <2>2. IsFiniteSet(Files)
        /\ Cardinality(Files) = IF 0 > num_files - 1 THEN 0 ELSE num_files - 1 - 0 + 1
    BY <2>1, FS_Interval DEF Files
  <2> QED BY <2>2, NumFilesAssumption
<1>2. processed_mask \subseteq Files /\ num_finished = Cardinality(processed_mask)
  BY DEF Types
<1>3. /\ IsFiniteSet(processed_mask)
      /\ Cardinality(processed_mask) <= Cardinality(Files)
      /\ Cardinality(processed_mask) = Cardinality(Files) => processed_mask = Files
  BY <1>1, <1>2, FS_Subset
<1>4. Cardinality(processed_mask) \in Nat
  BY <1>3, FS_CardinalityType
<1> QED BY <1>1, <1>2, <1>3, <1>4, NumFilesAssumption

LEMMA CurrentWorks ==
  ASSUME IInv, NEW what, Works(what)
  PROVE  /\ cpu = "coroutine" /\ phase = "entered"
         /\ running_coroutine \in InUse /\ ~IsFinished(running_coroutine)
         /\ job[running_coroutine] = what
         /\ what \in Files \cup {AioRead, MergeArrays}
<1>1. /\ cpu = "coroutine" /\ phase = "entered" /\ job[running_coroutine] = what
      /\ running_coroutine \in InUse /\ ~IsFinished(running_coroutine)
  BY SlotFacts DEF IInv, Works
<1> QED BY <1>1 DEF IInv, Program, Jobs

(* The reader and the sorters work while main waits for its first jump. *)
LEMMA ReadAndSortFirst ==
  ASSUME IInv, NEW what, Works(what), what # MergeArrays
  PROVE  main_pc = "join_sorters"
<1>1. ~(main_pc \in {"spawn_merge", "join_merge", "done"})
  BY CurrentWorks DEF IInv, Program, Joined
<1>2. main_pc # "spawn_reader"
  <2>1. running_coroutine \in InUse
    BY CurrentWorks
  <2>2. main_pc = "spawn_reader" => free_slot = 0
    BY DEF IInv, Program, SlotsCounted, HasMerge
  <2> QED BY <2>1, <2>2 DEF InUse
<1> QED BY <1>1, <1>2 DEF IInv, Program, Types

LEMMA MergesLast ==
  ASSUME IInv, Works(MergeArrays)
  PROVE  main_pc \in {"join_merge", "done"}
  BY CurrentWorks DEF IInv, Program, Jobs, HasMerge

(* The file of a sorter has been read. *)
LEMMA SortsWhatIsRead ==
  ASSUME IInv, NEW f \in Files, Works(f)
  PROVE  f \in processed_mask /\ aio[f] = "ended" /\ main_pc = "join_sorters"
<1>1. f # MergeArrays
  BY NumFilesAssumption DEF Files, MergeArrays
<1>2. f \in processed_mask
  BY CurrentWorks DEF IInv, Program, Jobs
<1> QED BY <1>1, <1>2, ReadAndSortFirst DEF IInv, Program, Reads

(***************************************************************************)
(* The steps keep the invariant.                                           *)
(***************************************************************************)
dataVars == << job, aio, processed_mask, num_finished, numbers, sizes, sorted >>

(* Nobody does anything but switch. *)
LEMMA SwitchKeeps ==
  ASSUME IInv, SameSlots, GoesOn, UNCHANGED << main_pc, dataVars, total_size >>,
         scan' = scan \/ (scan \in 0..num_files /\ scan' \in 0..num_files)
  PROVE  Program'
<1> USE DEF dataVars, IInv, Program
<1>0. InUse' = InUse
  BY DEF InUse, SameSlots
<1>1. Types'
  BY DEF Types
<1>2. SlotsCounted'
  BY DEF SlotsCounted, SameSlots, HasMerge
<1>3. Jobs'
  BY <1>0 DEF Jobs, HasMerge
<1>4. FinishedJobs'
  BY <1>0 DEF FinishedJobs, SameSlots
<1>5. Reads'
  BY DEF Reads
<1>6. Joined'
  BY <1>0 DEF Joined, SameSlots
<1>7. SlotsSuffice'
  BY DEF SlotsSuffice, GoesOn
<1> QED BY <1>1, <1>2, <1>3, <1>4, <1>5, <1>6, <1>7

(* Nor does a failure that ends the program. *)
LEMMA FailureKeeps ==
  ASSUME IInv, Scheduler!Exits, UNCHANGED programVars
  PROVE  Program'
<1>1. SameSlots /\ GoesOn
  BY SwitchEffect DEF IInv
<1> QED BY <1>1, SwitchKeeps DEF programVars, readerVars, sorterVars, dataVars

(* A coroutine that is done returns. *)
LEMMA FinishKeeps ==
  ASSUME IInv, FinishesCurrent, cpu' # "no_space",
         UNCHANGED << main_pc, dataVars, scan, total_size >>,
         job[running_coroutine] = AioRead => processed_mask = Files,
         job[running_coroutine] \in Files => job[running_coroutine] \in sorted
  PROVE  Program'
<1> USE DEF dataVars, IInv, Program
<1>0. InUse' = InUse
  BY DEF InUse, FinishesCurrent
<1>1. Types'
  BY DEF Types
<1>2. SlotsCounted'
  BY DEF SlotsCounted, FinishesCurrent, HasMerge
<1>3. Jobs'
  BY <1>0 DEF Jobs, HasMerge
<1>4. FinishedJobs'
  BY <1>0 DEF FinishedJobs, FinishesCurrent
<1>5. Reads'
  BY DEF Reads
<1>6. Joined'
  BY <1>0 DEF Joined, FinishesCurrent
<1>7. SlotsSuffice'
  BY DEF SlotsSuffice
<1> QED BY <1>1, <1>2, <1>3, <1>4, <1>5, <1>6, <1>7

(* A spawn makes a slot for the job. *)
LEMMA SpawnedJobs ==
  ASSUME IInv, AddsSlot, free_slot # num_files + 2, NEW what \in Int, Gets(what)
  PROVE  /\ InUse' = InUse \cup {free_slot} /\ free_slot \notin InUse
         /\ job' \in [0..(num_files + 1) -> Int]
         /\ job'[free_slot] = what
         /\ \A i \in InUse : job'[i] = job[i]
<1>1. free_slot \in 0..(num_files + 1) /\ InUse \subseteq 0..(num_files + 1)
  BY SlotFacts, NumFilesAssumption DEF IInv
<1>2. InUse' = InUse \cup {free_slot} /\ free_slot \notin InUse
  BY <1>1, NumFilesAssumption DEF InUse, AddsSlot
<1>3. job \in [0..(num_files + 1) -> Int]
  BY DEF IInv, Program, Types
<1> QED BY <1>1, <1>2, <1>3 DEF Gets

LEMMA MainSpawnsReaderKeeps ==
  ASSUME IInv, MainSpawnsReader, ~HasEnded'
  PROVE  Program'
<1> USE DEF IInv, Program
<1>1. free_slot = 0 /\ num_finished = 0 /\ main_pc' = "join_sorters" /\ AioRead \in Int
  BY DEF MainSpawnsReader, SlotsCounted, HasMerge, AioRead
<1>2. AddsSlot
  BY <1>1, SpawnEffect, NumFilesAssumption DEF MainSpawnsReader, Scheduler!MainSpawns
<1>3. /\ InUse' = InUse \cup {0} /\ job'[0] = AioRead /\ InUse = {}
      /\ job' \in [0..(num_files + 1) -> Int]
  BY <1>1, <1>2, SpawnedJobs, NumFilesAssumption DEF MainSpawnsReader, InUse
<1>4. UNCHANGED << readerVars, sorterVars, total_size >>
  BY DEF MainSpawnsReader
<1>5. processed_mask = {}
  BY <1>1, MaskCounts, FS_EmptySet DEF Types
<1>6. Types'
  BY <1>1, <1>3, <1>4 DEF Types, readerVars, sorterVars
<1>7. SlotsCounted'
  BY <1>1, <1>2, <1>4 DEF SlotsCounted, AddsSlot, HasMerge, readerVars
<1>8. Jobs'
  BY <1>1, <1>3, <1>4, <1>5, NumFilesAssumption
  DEF Jobs, HasMerge, AioRead, MergeArrays, Files, readerVars
<1>9. FinishedJobs'
  BY <1>1, <1>2, <1>3 DEF FinishedJobs, AddsSlot, IsFinished
<1>10. Reads'
  BY <1>4 DEF Reads, readerVars, sorterVars
<1>11. Joined'
  BY <1>1 DEF Joined
<1>12. SlotsSuffice'
  BY <1>2, <1>4 DEF SlotsSuffice, AddsSlot, readerVars
<1> QED BY <1>6, <1>7, <1>8, <1>9, <1>10, <1>11, <1>12

LEMMA MainSpawnsMergeKeeps ==
  ASSUME IInv, MainSpawnsMerge, ~HasEnded'
  PROVE  Program'
<1> USE DEF IInv, Program
<1>1. processed_mask = Files /\ num_finished = num_files
  BY MaskCounts DEF MainSpawnsMerge, Joined
<1>2. free_slot = num_files + 1 /\ main_pc' = "join_merge" /\ MergeArrays \in Int
  BY <1>1, NumFilesAssumption DEF MainSpawnsMerge, SlotsCounted, HasMerge, MergeArrays
<1>3. AddsSlot
  BY <1>2, SpawnEffect, NumFilesAssumption DEF MainSpawnsMerge, Scheduler!MainSpawns
<1>4. /\ InUse' = InUse \cup {free_slot} /\ free_slot \notin InUse
      /\ job' \in [0..(num_files + 1) -> Int]
      /\ job'[free_slot] = MergeArrays
      /\ \A i \in InUse : job'[i] = job[i]
  BY <1>2, <1>3, SpawnedJobs, NumFilesAssumption DEF MainSpawnsMerge
<1>5. UNCHANGED << readerVars, sorterVars, total_size >>
  BY DEF MainSpawnsMerge
<1>6. Types'
  BY <1>2, <1>4, <1>5 DEF Types, readerVars, sorterVars
<1>7. SlotsCounted'
  BY <1>1, <1>2, <1>3, <1>5, NumFilesAssumption DEF SlotsCounted, AddsSlot, HasMerge, readerVars
<1>8. Jobs'
  BY <1>2, <1>4, <1>5, NumFilesAssumption
  DEF Jobs, HasMerge, AioRead, MergeArrays, Files, readerVars
<1>9. FinishedJobs'
  BY <1>1, <1>3, <1>4, <1>5, NumFilesAssumption
  DEF FinishedJobs, AddsSlot, IsFinished, AioRead, MergeArrays, Files, readerVars, sorterVars
<1>10. Reads'
  BY <1>5 DEF Reads, readerVars, sorterVars
<1>11. Joined'
  BY <1>3, <1>4, <1>5 DEF MainSpawnsMerge, Joined, AddsSlot, readerVars, sorterVars
<1>12. SlotsSuffice'
  BY <1>3, <1>5 DEF SlotsSuffice, AddsSlot, readerVars
<1> QED BY <1>6, <1>7, <1>8, <1>9, <1>10, <1>11, <1>12

(* The jump of main has joined all: the reader has seen all requests end,  *)
(* so there was a sorter for every file, and it has finished.              *)
LEMMA MainReusesKeeps ==
  ASSUME IInv, MainReuses, ~HasEnded'
  PROVE  Program'
<1> USE DEF IInv, Program
<1>1. /\ main_pc = "join_sorters" /\ main_pc' = "spawn_merge"
      /\ total_size' = SumFunction(sizes) /\ phase = "returned"
      /\ UNCHANGED << job, readerVars, sorterVars >>
  BY DEF MainReuses, Scheduler!ReuseScheduler
<1>2. SameSlots /\ GoesOn /\ InUse' = InUse
  BY SwitchEffect DEF MainReuses, SameSlots, InUse
<1>3. \A i \in InUse : IsFinished(i)
  BY <1>1 DEF Proved!IInv, Proved!AllFinishedAfterReturn, Proved!Slots, InUse, IsFinished
<1>4. 0 \in InUse
  BY <1>1, MaskCounts, NumFilesAssumption DEF SlotsCounted, HasMerge, InUse
<1>5. processed_mask = Files
  BY <1>3, <1>4 DEF Jobs, FinishedJobs
<1>6. sorted = Files
  BY <1>3, <1>5 DEF Jobs, FinishedJobs, Types
<1>7. Types'
  BY <1>1 DEF Types, readerVars, sorterVars
<1>8. SlotsCounted'
  BY <1>1, <1>2 DEF SlotsCounted, SameSlots, HasMerge, readerVars
<1>9. Jobs'
  BY <1>1, <1>2 DEF Jobs, HasMerge, readerVars
<1>10. FinishedJobs'
  BY <1>1, <1>2 DEF FinishedJobs, SameSlots, readerVars, sorterVars
<1>11. Reads'
  BY <1>1 DEF Reads, readerVars, sorterVars
<1>12. Joined'
  BY <1>1, <1>2, <1>3, <1>5, <1>6 DEF Joined, SameSlots, readerVars, sorterVars
<1>13. SlotsSuffice'
  BY <1>1, <1>2 DEF SlotsSuffice, GoesOn, readerVars
<1> QED BY <1>7, <1>8, <1>9, <1>10, <1>11, <1>12, <1>13

LEMMA SubmitKeeps ==
  ASSUME IInv, Submit
  PROVE  Program'
<1> USE DEF IInv, Program
<1>1. /\ UNCHANGED << main_pc, job, processed_mask, num_finished, numbers, sizes, sorted,
                      total_size >>
      /\ SameSlots /\ GoesOn /\ InUse' = InUse
  <2>1. SameSlots /\ GoesOn
    BY SwitchEffect DEF Submit
  <2> QED BY <2>1 DEF Submit, sorterVars, SameSlots, InUse
<1>2. SlotsCounted' /\ Jobs' /\ FinishedJobs' /\ Joined'
  BY <1>1 DEF SlotsCounted, Jobs, FinishedJobs, Joined, HasMerge, SameSlots
<1>3. SlotsSuffice'
  BY <1>1 DEF SlotsSuffice, GoesOn
<1>4. processed_mask = {} /\ \A f \in Files : aio[f] = "none"
  BY DEF Submit, Reads
<1>5. CASE aio' = [f \in Files |-> "EINPROGRESS"] /\ scan' = 0
  <2>1. Types'
    BY <1>1, <1>5, NumFilesAssumption DEF Types
  <2>2. Reads'
    BY <1>1, <1>4, <1>5 DEF Reads
  <2> QED BY <1>2, <1>3, <2>1, <2>2
<1>6. CASE UNCHANGED << aio, scan >>
  <2>1. Types' /\ Reads'
    BY <1>1, <1>6 DEF Types, Reads
  <2> QED BY <1>2, <1>3, <2>1
<1> QED BY <1>5, <1>6 DEF Submit

(* A read that ends is one the reader has not counted, and nobody sorts.   *)
LEMMA CompletesKeeps ==
  ASSUME IInv, NEW f \in Files, Completes(f)
  PROVE  Program'
<1> USE DEF IInv, Program
<1>1. /\ UNCHANGED << cpu, statuses, free_slot, main_pc, job, processed_mask, num_finished,
                      scan, sizes, sorted, total_size >>
      /\ InUse' = InUse
      /\ \A i \in InUse : IsFinished(i)' <=> IsFinished(i)
  BY DEF Completes, schedulerVars, sorterVars, InUse, IsFinished
<1>2. /\ aio[f] = "EINPROGRESS" /\ f \notin processed_mask
      /\ aio' = [aio EXCEPT ![f] = "ended"]
  BY DEF Completes, Reads
<1>3. PICK n \in 0..Endless : numbers' = [numbers EXCEPT ![f] = n]
  BY DEF Completes
<1>4. Types'
  BY <1>1, <1>2, <1>3 DEF Types
<1>5. Reads'
  BY <1>1, <1>2, <1>3, MaxNumbersAssumption DEF Reads, Types, Endless
<1>6. SlotsCounted' /\ Jobs' /\ FinishedJobs' /\ Joined' /\ SlotsSuffice'
  BY <1>1 DEF SlotsCounted, Jobs, FinishedJobs, Joined, HasMerge, SlotsSuffice
<1> QED BY <1>4, <1>5, <1>6

LEMMA SorterWorksKeeps ==
  ASSUME IInv, NEW f \in Files, SorterWorks(f)
  PROVE  Program'
<1> USE DEF IInv, Program
<1>1. UNCHANGED << main_pc, job, aio, processed_mask, num_finished, scan, numbers, total_size >>
  BY DEF SorterWorks, readerVars
<1>2. SameSlots /\ GoesOn /\ InUse' = InUse
  <2>1. SameSlots /\ GoesOn
    BY SwitchEffect DEF SorterWorks, CountsNumber, CountsOn, SortsArray, SorterExits
  <2> QED BY <2>1 DEF SameSlots, InUse
<1>3. main_pc = "join_sorters" /\ aio[f] = "ended" /\ f \in processed_mask
  BY SortsWhatIsRead DEF SorterWorks
<1>4. \/ /\ sizes[f] < numbers[f]
         /\ sizes' = [sizes EXCEPT ![f] = @ + 1] /\ sorted' = sorted
      \/ /\ sizes[f] >= numbers[f]
         /\ sorted' = sorted \cup {f} /\ sizes' = sizes
      \/ sizes' = sizes /\ sorted' = sorted
  <2>1. sizes[f] \in Nat /\ numbers[f] \in Nat
    BY MaxNumbersAssumption DEF Types, Endless
  <2> QED BY <2>1 DEF SorterWorks, CountsNumber, CountsOn, SortsArray, SorterExits,
                      HasMore, sorterVars
<1>5. f \notin sorted
  BY DEF SorterWorks
<1>6. Types'
  <2>1. Types
    OBVIOUS
  <2>2. sizes' \in [Files -> 0..Endless]
    BY <1>4, <2>1, MaxNumbersAssumption DEF Types, Endless
  <2>3. sorted' \subseteq Files
    BY <1>4, <2>1 DEF Types
  <2> QED BY <1>1, <2>1, <2>2, <2>3 DEF Types
<1>7. Reads'
  <2>1. sizes \in [Files -> Nat] /\ numbers \in [Files -> Nat]
    BY MaxNumbersAssumption DEF Types, Endless
  <2>2. \A g \in Files : aio[g] # "ended" => sizes'[g] = 0 /\ g \notin sorted'
    BY <1>3, <1>4 DEF Reads, Types
  <2>3. sizes'[f] <= numbers[f] /\ (f \in sorted' => sizes'[f] = numbers[f])
    <3>1. sizes[f] \in Nat /\ numbers[f] \in Nat /\ sizes[f] <= numbers[f]
      BY <2>1 DEF Reads
    <3>2. CASE sizes[f] < numbers[f] /\ sizes' = [sizes EXCEPT ![f] = @ + 1] /\ sorted' = sorted
      BY <1>5, <2>1, <3>1, <3>2
    <3>3. CASE sizes[f] >= numbers[f] /\ sizes' = sizes
      BY <3>1, <3>3
    <3>4. CASE sizes' = sizes /\ sorted' = sorted
      BY <1>5, <3>1, <3>4
    <3> QED BY <1>4, <3>2, <3>3, <3>4
  <2>4. \A g \in Files \ {f} : sizes'[g] = sizes[g] /\ (g \in sorted' <=> g \in sorted)
    BY <1>4, <2>1
  <2>5. \A g \in Files : sizes'[g] <= numbers[g] /\ (g \in sorted' => sizes'[g] = numbers[g])
    BY <2>3, <2>4 DEF Reads
  <2> QED BY <1>1, <2>2, <2>5 DEF Reads
<1>8. SlotsCounted' /\ Jobs'
  BY <1>1, <1>2 DEF SlotsCounted, Jobs, HasMerge, SameSlots
<1>9. FinishedJobs'
  BY <1>1, <1>2, <1>4 DEF FinishedJobs, SameSlots
<1>10. Joined'
  BY <1>1, <1>3 DEF Joined
<1>11. SlotsSuffice'
  BY <1>1, <1>2 DEF SlotsSuffice, GoesOn
<1> QED BY <1>6, <1>7, <1>8, <1>9, <1>10, <1>11

(* The reader never finds the scheduler full: it has counted fewer files   *)
(* than there are.                                                         *)
LEMMA ReaderHasSlot ==
  ASSUME IInv, Scan, EndedNow(scan)
  PROVE  /\ main_pc = "join_sorters" /\ free_slot = 1 + num_finished
         /\ free_slot # num_files + 2
<1>1. AioRead # MergeArrays
  BY DEF AioRead, MergeArrays
<1>2. main_pc = "join_sorters"
  BY <1>1, ReadAndSortFirst DEF Scan
<1>3. num_finished \in 0..num_files
  BY MaskCounts DEF IInv, Program
<1> QED BY <1>2, <1>3, NumFilesAssumption DEF IInv, Program, SlotsCounted, HasMerge

(* A spawn or the preparation for the merge that fails is an exit like     *)
(* others: there is always a slot left.                                    *)
LEMMA FailuresExit ==
  ASSUME IInv, HasEnded', MainSpawnsReader \/ MainReuses \/ MainSpawnsMerge \/ Scan
  PROVE  Scheduler!Exits /\ UNCHANGED programVars
<1> USE DEF IInv, Program
<1>1. CASE MainSpawnsReader
  <2>1. free_slot = 0 /\ free_slot # num_files + 2
    BY <1>1, NumFilesAssumption DEF MainSpawnsReader, SlotsCounted, HasMerge
  <2>2. Scheduler!Exits
    BY <1>1, <2>1, SpawnsOrExits DEF MainSpawnsReader, Scheduler!MainSpawns
  <2> QED BY <1>1, <2>2 DEF MainSpawnsReader
<1>2. CASE MainReuses
  BY <1>2 DEF MainReuses, Scheduler!ReuseScheduler, HasEnded
<1>3. CASE MainSpawnsMerge
  <2>1. free_slot # num_files + 2
    BY <1>3, MaskCounts, NumFilesAssumption DEF MainSpawnsMerge, Joined, SlotsCounted, HasMerge
  <2>2. Scheduler!Exits
    BY <1>3, <2>1, SpawnsOrExits DEF MainSpawnsMerge, Scheduler!MainSpawns
  <2> QED BY <1>3, <2>2 DEF MainSpawnsMerge
<1>4. CASE Scan
  <2>1. cpu = "coroutine" /\ EndedNow(scan)
    BY <1>4 DEF Scan, Works, HasEnded, schedulerVars
  <2>2. Scheduler!Exits
    BY <1>4, <2>1, ReaderHasSlot, SpawnsOrExits DEF Scan, Scheduler!CoroutineSpawns
  <2> QED BY <1>4, <2>1, <2>2 DEF Scan, programVars, readerVars
<1> QED BY <1>1, <1>2, <1>3, <1>4

LEMMA ScanKeeps ==
  ASSUME IInv, Scan, ~HasEnded'
  PROVE  Program'
<1> USE DEF IInv, Program
<1>1. /\ scan \in Files /\ scan' = scan + 1 /\ scan' \in 0..num_files
      /\ UNCHANGED << main_pc, aio, numbers, sizes, sorted, total_size >>
  BY NumFilesAssumption DEF Scan, sorterVars, Files
<1>2. CASE ~EndedNow(scan)
  <2>1. UNCHANGED << schedulerVars, job, num_finished, processed_mask >>
    BY <1>2 DEF Scan
  <2>2. SameSlots /\ GoesOn
    BY <2>1, SwitchEffect
  <2> QED BY <1>1, <2>1, <2>2, SwitchKeeps, NumFilesAssumption DEF dataVars, Files
<1>3. CASE EndedNow(scan)
  <2>1. /\ main_pc = "join_sorters" /\ free_slot = 1 + num_finished
        /\ free_slot # num_files + 2
    BY <1>3, ReaderHasSlot
  <2>2. AddsSlot
    BY <1>3, <2>1, SpawnEffect DEF Scan, Scheduler!CoroutineSpawns
  <2>3. Gets(scan) /\ scan \in Int
    BY <1>1, <1>3, NumFilesAssumption DEF Scan, Files
  <2>4. /\ InUse' = InUse \cup {free_slot} /\ free_slot \notin InUse
        /\ job' \in [0..(num_files + 1) -> Int]
        /\ job'[free_slot] = scan
        /\ \A i \in InUse : job'[i] = job[i]
    BY <2>1, <2>2, <2>3, SpawnedJobs
  <2>5. /\ num_finished' = num_finished + 1
        /\ processed_mask' = processed_mask \cup {scan}
        /\ scan \notin processed_mask
    BY <1>3 DEF Scan, EndedNow
  <2>6. num_finished' = Cardinality(processed_mask')
    BY <2>5, MaskCounts, FS_AddElement DEF Types
  <2>7. free_slot # 0 /\ num_finished \in Nat
    BY <2>1, MaskCounts
  <2>8. aio[scan] = "ended"
    BY <1>1, <1>3, NumFilesAssumption DEF EndedNow, Reads, Types, Files
  <2>9. Types'
    BY <1>1, <2>4, <2>5, <2>6 DEF Types
  <2>10. SlotsCounted'
    BY <1>1, <2>1, <2>2, <2>5, <2>7 DEF SlotsCounted, AddsSlot, HasMerge
  <2>11. Jobs'
    <3>1. scan # AioRead /\ scan # MergeArrays
      BY <1>1, NumFilesAssumption DEF AioRead, MergeArrays, Files
    <3>2. HasMerge' = HasMerge
      BY <1>1 DEF HasMerge
    <3>3. /\ job'[free_slot] \in Files \cap processed_mask'
          /\ job'[free_slot] # AioRead /\ job'[free_slot] # MergeArrays
      BY <1>1, <2>4, <2>5, <3>1
    <3>4. \A i \in InUse :
            /\ job'[i] \in Files \cup {AioRead, MergeArrays}
            /\ job'[i] = AioRead <=> i = 0
            /\ job'[i] \in Files => job'[i] \in processed_mask'
            /\ job'[i] = MergeArrays => HasMerge'
      BY <2>4, <2>5, <3>2 DEF Jobs
    <3>5. \A f \in processed_mask' : \E i \in InUse' : job'[i] = f
      <4>1. \A f \in processed_mask : \E i \in InUse : job'[i] = f
        BY <2>4 DEF Jobs
      <4> QED BY <2>4, <2>5, <4>1
    <3> QED BY <2>4, <2>7, <3>3, <3>4, <3>5 DEF Jobs, AioRead, MergeArrays, Files
  <2>12. FinishedJobs'
    <3>1. \A i \in InUse' : IsFinished(i)' => i \in InUse /\ IsFinished(i)
      BY <2>2, <2>4 DEF AddsSlot, IsFinished
    <3>2. processed_mask = Files => processed_mask' = Files
      BY <1>1, <2>5
    <3> QED BY <1>1, <2>4, <3>1, <3>2 DEF FinishedJobs
  <2>13. Reads'
    BY <1>1, <2>5, <2>8, NumFilesAssumption DEF Reads, Files
  <2>14. Joined'
    BY <1>1, <2>1 DEF Joined
  <2>15. SlotsSuffice'
    BY <2>2 DEF SlotsSuffice, AddsSlot, Scan, Works
  <2> QED BY <2>9, <2>10, <2>11, <2>12, <2>13, <2>14, <2>15
<1> QED BY <1>2, <1>3

(* The returns of the reader, of a sorter and of the merge. *)
LEMMA ReturnsKeep ==
  ASSUME IInv, ReaderFinishes \/ (\E f \in Files : SorterFinishes(f)) \/ Merge
  PROVE  Program'
<1>1. /\ Scheduler!FinishCoroutine
      /\ UNCHANGED << main_pc, dataVars, scan, total_size >>
  BY DEF ReaderFinishes, SorterFinishes, Merge, programVars, readerVars, sorterVars, dataVars
<1>2. FinishesCurrent /\ cpu' # "no_space"
  BY <1>1, FinishEffect DEF IInv
<1>3. AioRead \notin Files /\ MergeArrays \notin Files /\ AioRead # MergeArrays
  BY DEF AioRead, MergeArrays, Files
<1>4. CASE ReaderFinishes
  <2>1. job[running_coroutine] = AioRead /\ processed_mask = Files
    BY <1>4, MaskCounts DEF ReaderFinishes, Works, IInv, Program
  <2> QED BY <1>1, <1>2, <1>3, <2>1, FinishKeeps
<1>5. CASE \E f \in Files : SorterFinishes(f)
  <2>1. job[running_coroutine] \in Files /\ job[running_coroutine] \in sorted
    BY <1>5 DEF SorterFinishes, Works
  <2> QED BY <1>1, <1>2, <1>3, <2>1, FinishKeeps
<1>6. CASE Merge
  <2>1. job[running_coroutine] = MergeArrays
    BY <1>6 DEF Merge, Works
  <2> QED BY <1>1, <1>2, <1>3, <2>1, FinishKeeps
<1> QED BY <1>4, <1>5, <1>6

(* Each step of the program is one of the scheduler's, leaves the          *)
(* scheduler alone, or is the exit of the reader or of a sorter.           *)
LEMMA StepsOfScheduler ==
  ASSUME [Next]_vars
  PROVE  Scheduler!Next \/ Scheduler!Exits \/ UNCHANGED schedulerVars
<1>1. ASSUME NEW f \in Files, SorterWorks(f)
      PROVE  Scheduler!Next \/ Scheduler!Exits
  BY <1>1 DEF SorterWorks, CountsNumber, CountsOn, SortsArray, SorterExits, Scheduler!Next
<1>2. CASE \E f \in Files : Completes(f) \/ SorterYields(f) \/ SorterFinishes(f)
  BY <1>2 DEF Completes, SorterYields, SorterFinishes, Scheduler!Next
<1> QED BY <1>1, <1>2
  DEF Next, vars, MainSpawnsReader, MainJumps, MainReuses, MainSpawnsMerge, MainOutputs,
      Schedule, Submit, Scan, ReaderYields, ReaderFinishes, Merge, Scheduler!Next

LEMMA InitIInv == Init => IInv
<1> SUFFICES ASSUME Init PROVE IInv
  OBVIOUS
<1>1. Proved!IInv
  BY InitsAgree DEF Init
<1>2. free_slot = 0 /\ cpu = "main"
  BY DEF Init, Scheduler!Init
<1>3. Types
  BY Numbers, MaxNumbersAssumption, NumFilesAssumption, FS_EmptySet
  DEF Init, Types, NoJob, Endless
<1>4. SlotsCounted /\ Jobs /\ FinishedJobs /\ Joined /\ SlotsSuffice
  BY <1>2 DEF Init, SlotsCounted, Jobs, FinishedJobs, Joined, SlotsSuffice, InUse, HasMerge
<1>5. Reads
  BY MaxNumbersAssumption DEF Init, Reads
<1> QED BY <1>1, <1>3, <1>4, <1>5 DEF IInv, Program

LEMMA NextIInv == IInv /\ [Next]_vars => IInv'
<1> SUFFICES ASSUME IInv, [Next]_vars PROVE IInv'
  OBVIOUS
<1>1. Proved!IInv'
  BY StepsOfScheduler, SchedulerKeeps DEF IInv
<1>2. Program'
  <2>1. CASE HasEnded' /\ (MainSpawnsReader \/ MainReuses \/ MainSpawnsMerge \/ Scan)
    BY <2>1, FailuresExit, FailureKeeps
  <2>2. CASE ~HasEnded' \/ ~(MainSpawnsReader \/ MainReuses \/ MainSpawnsMerge \/ Scan)
    <3>1. CASE MainSpawnsReader
      BY <3>1, <2>2, MainSpawnsReaderKeeps
    <3>2. CASE MainJumps
      BY <3>2, SwitchEffect, SwitchKeeps
      DEF MainJumps, programVars, readerVars, sorterVars, dataVars, IInv
    <3>3. CASE MainReuses
      BY <3>3, <2>2, MainReusesKeeps
    <3>4. CASE MainSpawnsMerge
      BY <3>4, <2>2, MainSpawnsMergeKeeps
    <3>5. CASE MainOutputs
      BY <3>5 DEF MainOutputs, schedulerVars, readerVars, sorterVars, IInv, Program, Types,
                  SlotsCounted, Jobs, FinishedJobs, Reads, Joined, SlotsSuffice, HasMerge,
                  InUse, IsFinished
    <3>6. CASE Schedule
      BY <3>6, ScheduleEffect, SwitchKeeps
      DEF Schedule, programVars, readerVars, sorterVars, dataVars, IInv
    <3>7. CASE Scan
      BY <3>7, <2>2, ScanKeeps
    <3>8. CASE ReaderYields
      BY <3>8, SwitchEffect, SwitchKeeps, NumFilesAssumption
      DEF ReaderYields, sorterVars, dataVars, IInv
    <3>9. CASE ReaderFinishes \/ (\E f \in Files : SorterFinishes(f)) \/ Merge
      BY <3>9, ReturnsKeep
    <3>10. ASSUME NEW f \in Files, Completes(f) PROVE Program'
      BY <3>10, CompletesKeeps
    <3>11. ASSUME NEW f \in Files, SorterYields(f) PROVE Program'
      BY <3>11, SwitchEffect, SwitchKeeps
      DEF SorterYields, programVars, readerVars, sorterVars, dataVars, IInv
    <3>12. ASSUME NEW f \in Files, SorterWorks(f) PROVE Program'
      BY <3>12, SorterWorksKeeps
    <3>13. CASE UNCHANGED vars
      BY <3>13, SwitchEffect, SwitchKeeps
      DEF vars, programVars, readerVars, sorterVars, dataVars, IInv
    <3>14. CASE Submit
      BY <3>14, SubmitKeeps
    <3> QED BY <3>1, <3>2, <3>3, <3>4, <3>5, <3>6, <3>7, <3>8, <3>9, <3>10, <3>11,
               <3>12, <3>13, <3>14 DEF Next
  <2> QED BY <2>1, <2>2
<1> QED BY <1>1, <1>2 DEF IInv

LEMMA Invariance == Spec => []IInv
  BY InitIInv, NextIInv, PTL DEF Spec

(* The state of the program, the scheduler's included, is well-formed. *)
THEOREM ProgramTypes == Spec => []TypeOK
<1>1. IInv => TypeOK
  <2> SUFFICES ASSUME IInv PROVE TypeOK
    OBVIOUS
  <2>1. Scheduler!TypeOK
    BY DEF IInv, Proved!IInv, Proved!TypeOK, Scheduler!TypeOK, Scheduler!Capacity,
           Proved!Capacity
  <2>2. num_finished \in Nat
    BY MaskCounts DEF IInv, Program
  <2> QED BY <2>1, <2>2 DEF IInv, Program, Types, TypeOK
<1> QED BY <1>1, Invariance, PTL

(* num_files + 2 slots are enough, for any number of files: no spawn finds *)
(* the scheduler full.                                                     *)
THEOREM SlotsAlwaysSuffice == Spec => []SlotsSuffice
<1>1. IInv => SlotsSuffice
  BY DEF IInv, Program
<1> QED BY <1>1, Invariance, PTL

(* The reader frees no request the kernel still works on, and nobody sorts *)
(* a buffer that is being read.                                            *)
THEOREM ReadsEndFirst == Spec => []RequestsOutliveReads
<1>1. IInv => RequestsOutliveReads
  <2> SUFFICES ASSUME IInv PROVE RequestsOutliveReads
    OBVIOUS
  <2>1. Scheduler!Slots = InUse
    BY DEF Scheduler!Slots, InUse
  <2>2. ASSUME NEW i \in InUse, job[i] = AioRead, statuses[i] = "FINISHED", NEW f \in Files
        PROVE  aio[f] = "ended"
    BY <2>2 DEF IInv, Program, FinishedJobs, IsFinished, Reads
  <2>3. \A f \in Files : Works(f) => aio[f] = "ended"
    BY SortsWhatIsRead
  <2> QED BY <2>1, <2>2, <2>3 DEF RequestsOutliveReads
<1> QED BY <1>1, Invariance, PTL

(* The merge works on the sorted arrays of all files, and on as many       *)
(* numbers as the files have.                                              *)
THEOREM MergeIsLast == Spec => []MergeSeesSortedArrays
<1>1. IInv => MergeSeesSortedArrays
  <2> SUFFICES ASSUME IInv, Works(MergeArrays)
               PROVE  sorted = Files /\ total_size = SumFunction(numbers)
    BY DEF MergeSeesSortedArrays
  <2>1. sorted = Files /\ total_size = SumFunction(sizes)
    BY MergesLast DEF IInv, Program, Joined
  <2>2. \A f \in Files : sizes[f] = numbers[f]
    BY <2>1 DEF IInv, Program, Reads
  <2>3. sizes = numbers
    BY <2>2 DEF IInv, Program, Types
  <2> QED BY <2>1, <2>3
<1> QED BY <1>1, Invariance, PTL

(* The program uses the scheduler as CoroScheduler says, and beyond that   *)
(* only exits: with its scheduler's variables a behaviour of coro-sort is  *)
(* one of the scheduler.                                                   *)
THEOREM ProgramIsScheduled ==
  Spec => Scheduler!Init /\ [][Scheduler!Next \/ Scheduler!Exits]_schedulerVars
<1>1. Init => Scheduler!Init
  BY DEF Init
<1>2. [Next]_vars => [Scheduler!Next \/ Scheduler!Exits]_schedulerVars
  <2> SUFFICES ASSUME [Next]_vars
               PROVE  Scheduler!Next \/ Scheduler!Exits \/ UNCHANGED schedulerVars
    OBVIOUS
  <2> QED BY StepsOfScheduler
<1> QED BY <1>1, <1>2, PTL DEF Spec

(* So what the scheduler guarantees to all programs it guarantees here.    *)
THEOREM SchedulerHolds ==
  Spec => [](Scheduler!OneRunning /\ Scheduler!LinksAreLive /\ Scheduler!JumpJoinsAll)
<1>1. IInv => Scheduler!OneRunning /\ Scheduler!LinksAreLive /\ Scheduler!JumpJoinsAll
  <2> SUFFICES ASSUME Proved!IInv
               PROVE  Scheduler!OneRunning /\ Scheduler!LinksAreLive /\ Scheduler!JumpJoinsAll
    BY DEF IInv
  <2>1. Scheduler!Slots = Proved!Slots
    BY DEF Scheduler!Slots, Proved!Slots
  <2>2. Scheduler!OneRunning
    BY <2>1 DEF Proved!IInv, Proved!OnlyTheCurrentRuns, Scheduler!OneRunning,
                Scheduler!TooManyRunning, Scheduler!Running
  <2>3. Scheduler!LinksAreLive
    BY <2>1 DEF Proved!IInv, Proved!LinkedToCurrent, Scheduler!LinksAreLive,
                Scheduler!Unfinished
  <2>4. Scheduler!JumpJoinsAll
    BY <2>1 DEF Proved!IInv, Proved!AllFinishedAfterReturn, Scheduler!JumpJoinsAll,
                Scheduler!Unfinished
  <2> QED BY <2>2, <2>3, <2>4
<1> QED BY <1>1, Invariance, PTL
=============================================================================
