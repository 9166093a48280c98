----------------------------- MODULE CoroScheduler -----------------------------
(***************************************************************************)
(* The coroutine scheduler of coro-sort: schedule, yield, spawn_coroutine, *)
(* finish_coroutine, jump_to_scheduler and reuse_scheduler, for coroutines *)
(* that yield, spawn others and return whenever they like.                 *)
(*                                                                         *)
(* There is one thread, so a state says who has the processor.  Contexts   *)
(* are abstracted to the one thing that can go wrong with them: the        *)
(* context a finished coroutine continues in, its link, is the scheduler   *)
(* context there was when it was spawned, and reuse_scheduler frees that   *)
(* context and makes another.  The runtime statistics are left out.        *)
(***************************************************************************)
EXTENDS Integers

CONSTANTS
  MaxCoroutines,  \* max_coroutines, the argument of make_scheduler
  MaxReuses       \* BOUND: how often main calls reuse_scheduler

ASSUME MaxCoroutinesAssumption == MaxCoroutines \in Nat \ {0}
ASSUME MaxReusesAssumption == MaxReuses \in Nat

VARIABLES
  cpu,                \* who runs: "main", "scheduler", "coroutine", or nobody
                      \* after a spawn without a slot ("no_space"), another
                      \* error exit ("exited") or a switch to a freed context
                      \* ("lost")
  statuses,           \* "SUSPENDED", "RUNNING" or "FINISHED", "NONE" for the
                      \* slots that are not in use
  free_slot,
  running_coroutine,
  phase,              \* of the scheduler's context: "made", "entered", and
                      \* "returned" to main
  scheduler_ctx,      \* its number: reuse_scheduler makes a new one
  link                \* the scheduler context each coroutine will return to

vars == << cpu, statuses, free_slot, running_coroutine, phase, scheduler_ctx, link >>

Capacity == 0..(MaxCoroutines - 1)
Slots == 0..(free_slot - 1)
Unfinished == {i \in Slots : statuses[i] # "FINISHED"}

(* main behind make_scheduler. *)
Init ==
  /\ cpu = "main"
  /\ statuses = [i \in Capacity |-> "NONE"]
  /\ free_slot = 0
  /\ running_coroutine = 0
  /\ phase = "made"
  /\ scheduler_ctx = 0
  /\ link = [i \in Capacity |-> 0]

Ends(how) == cpu' = how /\ UNCHANGED << statuses, free_slot, running_coroutine,
                                        phase, scheduler_ctx, link >>
Exits     == Ends("exited")

(***************************************************************************)
(* spawn_coroutine, called by main or by a coroutine.                      *)
(***************************************************************************)

(* The variant is one slot too generous. *)
IsFullTooLate == free_slot > MaxCoroutines
IsFull        == free_slot = MaxCoroutines

(* An allocation or getcontext may fail.  Nobody tests the stacks: making a *)
(* context on one that was not allocated ends the process, too.            *)
SpawnCoroutine ==
  \/ IsFull /\ Ends("no_space")
  \/ ~IsFull /\ Exits
  \/ /\ ~IsFull
     /\ statuses' = [statuses EXCEPT ![free_slot] = "SUSPENDED"]
     /\ link' = [link EXCEPT ![free_slot] = scheduler_ctx]
     /\ free_slot' = free_slot + 1
     /\ UNCHANGED << cpu, running_coroutine, phase, scheduler_ctx >>

MainSpawns == cpu = "main" /\ phase = "made" /\ SpawnCoroutine

CoroutineSpawns == cpu = "coroutine" /\ SpawnCoroutine

(* Any swapcontext may fail. *)
JumpToScheduler ==
  /\ cpu = "main" /\ phase = "made"
  /\ \/ Exits
     \/ /\ cpu' = "scheduler" /\ phase' = "entered"
        /\ UNCHANGED << statuses, free_slot, running_coroutine, scheduler_ctx, link >>

(* An allocation or getcontext may fail. *)
ReuseScheduler ==
  /\ cpu = "main" /\ phase = "returned"
  /\ scheduler_ctx < MaxReuses
  /\ \/ Exits
     \/ /\ scheduler_ctx' = scheduler_ctx + 1
        /\ phase' = "made"
        /\ UNCHANGED << cpu, statuses, free_slot, running_coroutine, link >>

(***************************************************************************)
(* schedule: one turn of the loop, up to the switch to a coroutine or the  *)
(* return to main.  Running is empty when the last coroutine finished, and *)
(* the code then goes on as if slot 0 had been the running one.            *)
(***************************************************************************)
Running   == {i \in Slots : statuses[i] = "RUNNING"}
Suspended == {i \in Slots : statuses[i] = "SUSPENDED"}

IsRunningIndex(i) ==
  IF Running = {} THEN i = 0 ELSE i \in Running /\ \A j \in Running : j <= i

(* The statuses once the coroutine that yielded, if any, is suspended.     *)
(* The variant leaves it running.                                          *)
StatusesUnchanged(r) == statuses
StatusesAtPick(r) ==
  IF Running = {} THEN statuses ELSE [statuses EXCEPT ![r] = "SUSPENDED"]

Waiting(r) == {i \in Slots : StatusesAtPick(r)[i] = "SUSPENDED" /\ i # r}

(* The slot that is picked: the first suspended one that is not r, or r.   *)
(* The variants start to look behind r, as a round robin would, and forget *)
(* the test running_index != i.                                            *)
IsPickedRoundRobin(new, r) ==
  LET behind == {i \in Waiting(r) : i > r}
  IN  \/ Waiting(r) = {} /\ new = r
      \/ behind = {} /\ new \in Waiting(r) /\ \A j \in Waiting(r) : new <= j
      \/ new \in behind /\ \A j \in behind : new <= j

IsPickedWithoutTest(new, r) ==
  LET suspended == Waiting(r) \cup {r}
  IN  new \in suspended /\ \A j \in suspended : new <= j

IsPicked(new, r) ==
  \/ Waiting(r) = {} /\ new = r
  \/ new \in Waiting(r) /\ \A j \in Waiting(r) : new <= j

Pick ==
  /\ \E r, new \in Capacity :
       /\ IsRunningIndex(r) /\ IsPicked(new, r)
       /\ statuses' = [StatusesAtPick(r) EXCEPT ![new] = "RUNNING"]
       /\ running_coroutine' = new
  /\ cpu' \in {"coroutine", "exited"}
  /\ UNCHANGED << free_slot, phase, scheduler_ctx, link >>

(* The return of schedule, through the uc_link of its context. *)
ReturnToMain ==
  /\ cpu' = "main" /\ phase' = "returned"
  /\ UNCHANGED << statuses, free_slot, running_coroutine, scheduler_ctx, link >>

(* "number of running coroutines is more than one" (scheduler.c:60). *)
TooManyRunning == \E i, j \in Running : i # j

(* The variants do not look at the suspended coroutines, do not look at    *)
(* the last slot, or stop only when there has never been a coroutine.      *)
NothingRunning == Running = {}
NothingInFront == Running = {} /\ Suspended \subseteq {free_slot - 1}
NothingSpawned == Running = {} /\ free_slot = 0
NothingToRun   == Running = {} /\ Suspended = {}

Schedule ==
  /\ cpu = "scheduler"
  /\ IF TooManyRunning THEN Exits
     ELSE IF NothingToRun THEN ReturnToMain ELSE Pick

(***************************************************************************)
(* What a coroutine does: yield, or return, which goes through             *)
(* finish_coroutine to the coroutine's link.                               *)
(***************************************************************************)
Yield ==
  /\ cpu = "coroutine"
  /\ cpu' \in {"scheduler", "exited"}
  /\ UNCHANGED << statuses, free_slot, running_coroutine, phase, scheduler_ctx, link >>

FinishCoroutine ==
  /\ cpu = "coroutine"
  /\ statuses' = [statuses EXCEPT ![running_coroutine] = "FINISHED"]
  /\ cpu' = IF link[running_coroutine] = scheduler_ctx THEN "scheduler" ELSE "lost"
  /\ UNCHANGED << free_slot, running_coroutine, phase, scheduler_ctx, link >>

Next ==
  \/ MainSpawns \/ JumpToScheduler \/ ReuseScheduler
  \/ Schedule
  \/ CoroutineSpawns \/ Yield \/ FinishCoroutine

Spec == Init /\ [][Next]_vars

-----------------------------------------------------------------------------
TypeOK ==
  /\ cpu \in {"main", "scheduler", "coroutine", "no_space", "exited", "lost"}
  /\ statuses \in [Capacity -> {"NONE", "SUSPENDED", "RUNNING", "FINISHED"}]
  /\ free_slot \in 0..MaxCoroutines
  /\ running_coroutine \in Capacity
  /\ phase \in {"made", "entered", "returned"}
  /\ scheduler_ctx \in 0..MaxReuses
  /\ link \in [Capacity -> 0..MaxReuses]

(* The assertion of schedule never fails, whatever the coroutines do: the  *)
(* coroutine that has the processor is the one that is marked, and nobody  *)
(* is marked when main runs.                                               *)
OneRunning ==
  /\ ~TooManyRunning
  /\ cpu = "coroutine" => Running = {running_coroutine}
  /\ cpu = "main" => Running = {}

(* No coroutine returns into a scheduler context that reuse_scheduler has  *)
(* freed (scheduler.c:96-97, coroutine.c:25): only coroutines that are     *)
(* finished by then have their link to it.                                 *)
LinksAreLive ==
  /\ cpu # "lost"
  /\ \A i \in Unfinished : link[i] = scheduler_ctx

(* Jumping to the scheduler waits for all coroutines, those that were      *)
(* spawned meanwhile included (README.md:3-4): when main goes on after a   *)
(* jump, every coroutine that was ever spawned has finished.               *)
JumpJoinsAll ==
  phase = "returned" => Unfinished = {}

(* A context that has finished is never resumed: its stack frame is gone   *)
(* (scheduler.c:72-82, where the default is slot 0 when none is running).  *)
NeverResumesFinished ==
  [][cpu = "scheduler" /\ cpu' = "coroutine" =>
       /\ running_coroutine' \in Slots
       /\ statuses[running_coroutine'] # "FINISHED"]_vars

(* The scheduler takes the coroutines in the order of their slots: at most *)
(* one unfinished coroutine of a lower number is passed over, the one that *)
(* has just yielded, or the first one after another has finished.  So two  *)
(* coroutines alternate until one of them finishes, and the others wait.   *)
LowestSlotsFirst ==
  [][cpu = "scheduler" /\ cpu' = "coroutine" =>
       \A i, j \in Unfinished :
         i < running_coroutine' /\ j < running_coroutine' => i = j]_vars

(* yield lets another coroutine work if there is one (README.md:6-8). *)
YieldGivesWay ==
  [][/\ cpu = "scheduler" /\ cpu' = "coroutine"
     /\ Running # {} /\ Suspended # {}
     => running_coroutine' # running_coroutine]_vars
=============================================================================
