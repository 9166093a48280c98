-------------------------- MODULE CoroSchedulerProofs --------------------------
(***************************************************************************)
(* The invariants of CoroScheduler and what the scheduler never does, for  *)
(* any number of coroutines and of reuses.                                 *)
(***************************************************************************)
EXTENDS CoroScheduler, TLAPS

(* The inductive invariant.  Beyond the invariants to be proved it says    *)
(* which slots are in use, that whoever is marked RUNNING is the current   *)
(* coroutine, and that main only runs before the first jump and when all   *)
(* coroutines have finished, or have been spawned since.                   *)
SlotsInUse ==
  \A i \in Capacity : statuses[i] = "NONE" <=> i >= free_slot

OnlyTheCurrentRuns ==
  /\ \A i \in Slots : statuses[i] = "RUNNING" =>
       i = running_coroutine /\ cpu \in {"scheduler", "coroutine", "no_space", "exited"}
  /\ cpu = "coroutine" =>
       running_coroutine \in Slots /\ statuses[running_coroutine] = "RUNNING"

LinkedToCurrent ==
  /\ cpu # "lost"
  /\ \A i \in Slots : statuses[i] # "FINISHED" => link[i] = scheduler_ctx

AllFinishedAfterReturn ==
  /\ phase = "returned" => \A i \in Slots : statuses[i] = "FINISHED"
  /\ cpu \in {"scheduler", "coroutine"} => phase = "entered"

IInv ==
  /\ TypeOK
  /\ SlotsInUse
  /\ OnlyTheCurrentRuns
  /\ LinkedToCurrent
  /\ AllFinishedAfterReturn

(* make_scheduler establishes the inductive invariant. *)
LEMMA InitIInv == Init => IInv
  BY MaxCoroutinesAssumption, MaxReusesAssumption
  DEF Init, IInv, TypeOK, SlotsInUse, OnlyTheCurrentRuns, LinkedToCurrent,
      AllFinishedAfterReturn, Capacity, Slots

(* So does an error exit, of whatever kind and in whatever state. *)
LEMMA EndsKeepIInv ==
  ASSUME IInv, NEW how \in {"no_space", "exited"}, Ends(how)
  PROVE  IInv'
  BY DEF Ends, IInv, TypeOK, SlotsInUse, OnlyTheCurrentRuns, LinkedToCurrent,
         AllFinishedAfterReturn, Capacity, Slots

(* Spawning a coroutine, by whomever, keeps it. *)
LEMMA SpawnKeepsIInv ==
  ASSUME IInv, SpawnCoroutine, cpu \in {"main", "coroutine"}, phase # "returned"
  PROVE  IInv'
<1>1. CASE (IsFull /\ Ends("no_space")) \/ (~IsFull /\ Exits)
  BY <1>1, EndsKeepIInv DEF Exits
<1>2. CASE ~IsFull /\ ~Exits
  <2>1. /\ free_slot \in Capacity
        /\ free_slot' = free_slot + 1
        /\ statuses' = [statuses EXCEPT ![free_slot] = "SUSPENDED"]
        /\ link' = [link EXCEPT ![free_slot] = scheduler_ctx]
        /\ UNCHANGED << cpu, running_coroutine, phase, scheduler_ctx >>
    BY <1>2, MaxCoroutinesAssumption
    DEF SpawnCoroutine, IsFull, Capacity, IInv, TypeOK
  <2>2. TypeOK'
    BY <2>1, MaxCoroutinesAssumption DEF IInv, TypeOK, Capacity
  <2>3. SlotsInUse'
    BY <2>1, MaxCoroutinesAssumption DEF IInv, TypeOK, SlotsInUse, Capacity
  <2>4. OnlyTheCurrentRuns'
    BY <2>1, MaxCoroutinesAssumption
    DEF IInv, TypeOK, OnlyTheCurrentRuns, Capacity, Slots
  <2>5. LinkedToCurrent'
    BY <2>1, MaxCoroutinesAssumption
    DEF IInv, TypeOK, LinkedToCurrent, Capacity, Slots
  <2>6. AllFinishedAfterReturn'
    BY <2>1 DEF IInv, AllFinishedAfterReturn
  <2> QED BY <2>2, <2>3, <2>4, <2>5, <2>6 DEF IInv
<1> QED BY <1>1, <1>2 DEF SpawnCoroutine

(* At a pick the coroutine that yielded, r, is suspended again. *)
LEMMA YielderIsSuspended ==
  ASSUME IInv, NEW r \in Capacity, IsRunningIndex(r)
  PROVE  StatusesAtPick(r) = [i \in Capacity |->
           IF statuses[i] = "RUNNING" THEN "SUSPENDED" ELSE statuses[i]]
<1>1. \A i \in Capacity : statuses[i] = "RUNNING" => i \in Running
  BY MaxCoroutinesAssumption
  DEF Running, IInv, TypeOK, SlotsInUse, Slots, Capacity
<1>2. CASE Running = {}
  BY <1>1, <1>2 DEF StatusesAtPick, IInv, TypeOK
<1>3. CASE Running # {}
  <2>1. r \in Running
    BY <1>3 DEF IsRunningIndex
  <2>2. \A i \in Capacity : statuses[i] = "RUNNING" <=> i = r
    BY <2>1, <1>1 DEF Running, IInv, OnlyTheCurrentRuns
  <2> QED
    BY <1>3, <2>2 DEF StatusesAtPick, IInv, TypeOK
<1> QED BY <1>2, <1>3

LEMMA SlotsFit == IInv => Slots \subseteq Capacity
  BY MaxCoroutinesAssumption DEF IInv, TypeOK, Slots, Capacity

(* The coroutine that is picked is suspended or has just yielded. *)
LEMMA PickFacts ==
  ASSUME IInv, Pick, ~NothingToRun
  PROVE  /\ running_coroutine' \in Slots
         /\ statuses[running_coroutine'] \in {"SUSPENDED", "RUNNING"}
         /\ statuses' = [i \in Capacity |->
              IF i = running_coroutine' THEN "RUNNING"
              ELSE IF statuses[i] = "RUNNING" THEN "SUSPENDED" ELSE statuses[i]]
<1>1. PICK r \in Capacity, new \in Capacity :
        /\ IsRunningIndex(r) /\ IsPicked(new, r)
        /\ statuses' = [StatusesAtPick(r) EXCEPT ![new] = "RUNNING"]
        /\ running_coroutine' = new
  BY DEF Pick
<1>2. StatusesAtPick(r) = [i \in Capacity |->
        IF statuses[i] = "RUNNING" THEN "SUSPENDED" ELSE statuses[i]]
  BY <1>1, YielderIsSuspended
<1>3. new \in Slots /\ statuses[new] \in {"SUSPENDED", "RUNNING"}
  <2>1. CASE new \in Waiting(r)
    BY <2>1, <1>2, SlotsFit DEF Waiting
  <2>2. CASE Waiting(r) = {} /\ new = r
    <3>1. CASE Running = {}
      <4>1. PICK i \in Slots : statuses[i] = "SUSPENDED"
        BY <3>1 DEF NothingToRun, Suspended
      <4>2. i = r
        BY <4>1, <2>2, <3>1 DEF Waiting, StatusesAtPick
      <4> QED BY <4>1, <4>2, <2>2
    <3>2. CASE Running # {}
      BY <3>2, <2>2, <1>1 DEF IsRunningIndex, Running
    <3> QED BY <3>1, <3>2
  <2> QED BY <1>1, <2>1, <2>2 DEF IsPicked
<1> QED BY <1>1, <1>2, <1>3

(* Everybody else who could be picked has a higher slot, but for one. *)
LEMMA PickOrder ==
  ASSUME IInv, Pick
  PROVE  \E r \in Capacity :
           /\ IsRunningIndex(r)
           /\ \A i \in Unfinished : i # r => running_coroutine' <= i
           /\ (\E i \in Unfinished : i # r) => running_coroutine' # r
<1>1. PICK r \in Capacity, new \in Capacity :
        IsRunningIndex(r) /\ IsPicked(new, r) /\ running_coroutine' = new
  BY DEF Pick
<1>2. \A i \in Unfinished : i # r => i \in Waiting(r)
  <2> SUFFICES ASSUME NEW i \in Unfinished, i # r
               PROVE  i \in Waiting(r)
    OBVIOUS
  <2>1. i \in Capacity /\ i \in Slots /\ statuses[i] \in {"SUSPENDED", "RUNNING"}
    BY SlotsFit, MaxCoroutinesAssumption
    DEF Unfinished, IInv, TypeOK, SlotsInUse, Slots, Capacity
  <2> QED BY <2>1, <1>1, YielderIsSuspended DEF Waiting
<1>3. \A i \in Unfinished : i # r => new <= i /\ new # r
  BY <1>1, <1>2 DEF IsPicked, Waiting
<1> QED BY <1>1, <1>3

(* The scheduler's turn keeps it. *)
LEMMA ScheduleKeepsIInv ==
  ASSUME IInv, Schedule
  PROVE  IInv'
<1>1. cpu = "scheduler" /\ phase = "entered"
  BY DEF Schedule, IInv, AllFinishedAfterReturn
<1>2. ~TooManyRunning
  BY DEF TooManyRunning, Running, IInv, OnlyTheCurrentRuns
<1>3. CASE NothingToRun
  <2>1. ReturnToMain
    BY <1>2, <1>3 DEF Schedule
  <2>2. \A i \in Slots : statuses[i] = "FINISHED"
    <3>1. \A i \in Slots : i \in Capacity /\ ~(i >= free_slot)
      BY MaxCoroutinesAssumption DEF IInv, TypeOK, Slots, Capacity
    <3>2. \A i \in Slots : statuses[i] \in {"SUSPENDED", "RUNNING", "FINISHED"}
      BY <3>1 DEF IInv, TypeOK, SlotsInUse
    <3> QED BY <1>3, <3>2 DEF NothingToRun, Running, Suspended
  <2> QED BY <2>1, <2>2 DEF ReturnToMain, IInv, TypeOK, SlotsInUse, OnlyTheCurrentRuns,
                            LinkedToCurrent, AllFinishedAfterReturn, Slots
<1>4. CASE ~NothingToRun
  <2>1. Pick
    BY <1>2, <1>4 DEF Schedule
  <2>2. /\ running_coroutine' \in Slots
        /\ statuses[running_coroutine'] \in {"SUSPENDED", "RUNNING"}
        /\ statuses' = [i \in Capacity |->
              IF i = running_coroutine' THEN "RUNNING"
              ELSE IF statuses[i] = "RUNNING" THEN "SUSPENDED" ELSE statuses[i]]
    BY <2>1, <1>4, PickFacts
  <2>3. cpu' \in {"coroutine", "exited"} /\ UNCHANGED << free_slot, phase, scheduler_ctx, link >>
    BY <2>1 DEF Pick
  <2>4. Slots \subseteq Capacity /\ Slots' = Slots
    BY <2>3, MaxCoroutinesAssumption DEF IInv, TypeOK, Slots, Capacity
  <2>5. TypeOK'
    BY <2>2, <2>3, <2>4 DEF IInv, TypeOK
  <2>6. SlotsInUse'
    BY <2>2, <2>3, <2>4, MaxCoroutinesAssumption DEF IInv, TypeOK, SlotsInUse, Slots, Capacity
  <2>7. OnlyTheCurrentRuns'
    BY <2>2, <2>3, <2>4 DEF OnlyTheCurrentRuns
  <2>8. LinkedToCurrent'
    BY <2>2, <2>3, <2>4 DEF IInv, LinkedToCurrent
  <2>9. AllFinishedAfterReturn'
    BY <2>3, <1>1 DEF AllFinishedAfterReturn
  <2> QED BY <2>5, <2>6, <2>7, <2>8, <2>9 DEF IInv
<1> QED BY <1>3, <1>4

(* Every step keeps the inductive invariant. *)
LEMMA NextIInv == IInv /\ [Next]_vars => IInv'
<1> SUFFICES ASSUME IInv, [Next]_vars PROVE IInv'
  OBVIOUS
<1> USE DEF IInv
<1>1. CASE MainSpawns
  BY <1>1, SpawnKeepsIInv DEF MainSpawns
<1>2. CASE CoroutineSpawns
  BY <1>2, SpawnKeepsIInv DEF CoroutineSpawns, AllFinishedAfterReturn
<1>3. CASE JumpToScheduler
  <2>1. CASE Exits
    BY <2>1, <1>3, EndsKeepIInv DEF Exits, JumpToScheduler
  <2>2. CASE ~Exits
    BY <2>2, <1>3 DEF JumpToScheduler, TypeOK, SlotsInUse, OnlyTheCurrentRuns,
                      LinkedToCurrent, AllFinishedAfterReturn, Slots
  <2> QED BY <2>1, <2>2
<1>4. CASE ReuseScheduler
  <2>1. CASE Exits
    BY <2>1, <1>4, EndsKeepIInv DEF Exits, ReuseScheduler
  <2>2. CASE ~Exits
    BY <2>2, <1>4, MaxReusesAssumption
    DEF ReuseScheduler, TypeOK, SlotsInUse, OnlyTheCurrentRuns,
        LinkedToCurrent, AllFinishedAfterReturn, Slots
  <2> QED BY <2>1, <2>2
<1>5. CASE Schedule
  BY <1>5, ScheduleKeepsIInv
<1>6. CASE Yield
  BY <1>6 DEF Yield, TypeOK, SlotsInUse, OnlyTheCurrentRuns,
              LinkedToCurrent, AllFinishedAfterReturn, Slots
<1>7. CASE FinishCoroutine
  <2>1. running_coroutine \in Slots /\ statuses[running_coroutine] = "RUNNING"
    BY <1>7 DEF FinishCoroutine, OnlyTheCurrentRuns
  <2>2. link[running_coroutine] = scheduler_ctx /\ cpu' = "scheduler"
    BY <1>7, <2>1 DEF FinishCoroutine, LinkedToCurrent
  <2> QED
    BY <1>7, <2>1, <2>2, MaxCoroutinesAssumption
    DEF FinishCoroutine, TypeOK, SlotsInUse, OnlyTheCurrentRuns,
        LinkedToCurrent, AllFinishedAfterReturn, Slots, Capacity
<1>8. CASE UNCHANGED vars
  BY <1>8 DEF vars, TypeOK, SlotsInUse, OnlyTheCurrentRuns,
              LinkedToCurrent, AllFinishedAfterReturn, Slots
<1> QED BY <1>1, <1>2, <1>3, <1>4, <1>5, <1>6, <1>7, <1>8 DEF Next

LEMMA Invariance == Spec => []IInv
  BY InitIInv, NextIInv, PTL DEF Spec

(* The state of the scheduler is always well-formed. *)
THEOREM SchedulerTypes == Spec => []TypeOK
<1>1. IInv => TypeOK
  BY DEF IInv
<1> QED BY <1>1, Invariance, PTL

(* The assertion in schedule never fails: at most one coroutine is marked  *)
(* as running, and it is the one that runs.                                *)
THEOREM SchedulerAssertion == Spec => []OneRunning
<1>1. IInv => OneRunning
  BY DEF IInv, OnlyTheCurrentRuns, OneRunning, TooManyRunning, Running
<1> QED BY <1>1, Invariance, PTL

(* No coroutine returns into a scheduler context that was freed. *)
THEOREM LiveLinks == Spec => []LinksAreLive
<1>1. IInv => LinksAreLive
  BY DEF IInv, LinkedToCurrent, LinksAreLive, Unfinished
<1> QED BY <1>1, Invariance, PTL

(* A jump to the scheduler returns when all coroutines have finished. *)
THEOREM JumpJoins == Spec => []JumpJoinsAll
<1>1. IInv => JumpJoinsAll
  BY DEF IInv, AllFinishedAfterReturn, JumpJoinsAll, Unfinished
<1> QED BY <1>1, Invariance, PTL

(* Only a pick gives the processor from the scheduler to a coroutine. *)
LEMMA ResumingIsPicking ==
  ASSUME Next, cpu = "scheduler", cpu' = "coroutine"
  PROVE  Pick /\ ~NothingToRun
<1>1. Schedule
  BY DEF Next, MainSpawns, JumpToScheduler, ReuseScheduler, CoroutineSpawns,
         Yield, FinishCoroutine, Exits, Ends
<1> QED BY <1>1 DEF Schedule, Exits, Ends, ReturnToMain

(* The scheduler never resumes a coroutine that has finished. *)
THEOREM FinishedStayFinished == Spec => NeverResumesFinished
<1> DEFINE Resumes == cpu = "scheduler" /\ cpu' = "coroutine"
           NotFinished == /\ running_coroutine' \in Slots
                          /\ statuses[running_coroutine'] # "FINISHED"
<1>1. IInv /\ [Next]_vars => [Resumes => NotFinished]_vars
  <2> SUFFICES ASSUME IInv, Next, Resumes
               PROVE  NotFinished
    BY DEF vars
  <2> QED BY ResumingIsPicking, PickFacts
<1> QED BY <1>1, Invariance, PTL DEF Spec, NeverResumesFinished

(* The scheduler passes over at most one unfinished coroutine of a lower   *)
(* slot.                                                                   *)
THEOREM FirstSlotsFirst == Spec => LowestSlotsFirst
<1> DEFINE Resumes == cpu = "scheduler" /\ cpu' = "coroutine"
           OneIsPassed == \A i, j \in Unfinished :
             i < running_coroutine' /\ j < running_coroutine' => i = j
<1>1. IInv /\ [Next]_vars => [Resumes => OneIsPassed]_vars
  <2> SUFFICES ASSUME IInv, Next, Resumes
               PROVE  OneIsPassed
    BY DEF vars
  <2>1. Pick
    BY ResumingIsPicking
  <2>2. PICK r \in Capacity : \A i \in Unfinished : i # r => running_coroutine' <= i
    BY <2>1, PickOrder
  <2>3. running_coroutine' \in Int /\ Unfinished \subseteq Int
    BY <2>1, SlotsFit DEF Pick, Unfinished, Capacity, Slots
  <2> QED BY <2>2, <2>3
<1> QED BY <1>1, Invariance, PTL DEF Spec, LowestSlotsFirst

(* A coroutine that yields is not resumed while another one is suspended. *)
THEOREM YieldersGiveWay == Spec => YieldGivesWay
<1> DEFINE Resumes == /\ cpu = "scheduler" /\ cpu' = "coroutine"
                      /\ Running # {} /\ Suspended # {}
           Another == running_coroutine' # running_coroutine
<1>1. IInv /\ [Next]_vars => [Resumes => Another]_vars
  <2> SUFFICES ASSUME IInv, Next, Resumes
               PROVE  Another
    BY DEF vars
  <2>1. Pick
    BY ResumingIsPicking
  <2>2. PICK r \in Capacity :
          /\ IsRunningIndex(r)
          /\ (\E i \in Unfinished : i # r) => running_coroutine' # r
    BY <2>1, PickOrder
  <2>3. r \in Running /\ r = running_coroutine
    BY <2>2 DEF IsRunningIndex, Running, IInv, OnlyTheCurrentRuns
  <2>4. PICK i \in Suspended : TRUE
    OBVIOUS
  <2>5. i \in Unfinished /\ i # r
    BY <2>3, <2>4 DEF Suspended, Running, Unfinished
  <2> QED BY <2>2, <2>3, <2>5
<1> QED BY <1>1, Invariance, PTL DEF Spec, YieldGivesWay
=============================================================================
