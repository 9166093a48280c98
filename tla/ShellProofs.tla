------------------------------- MODULE ShellProofs -------------------------------
(***************************************************************************)
(* Invariants of Shell, for any input, any number of jobs and pipes of any *)
(* capacity.  The first part is about the processes and the pipes, where   *)
(* it plays no part what a query is made of.  The second part is about the *)
(* text: what get_line and parse make of a line of any length is what an   *)
(* automaton makes of it that reads it once, and what form_query makes of  *)
(* the tokens is what stands in the line.                                  *)
(***************************************************************************)
EXTENDS Shell, TLAPS, FiniteSetTheorems, WellFoundedInduction, SequenceTheorems

Statuses == {Killed, 0, 1}
PipeNumbers == 0..Len(pipes)   \* 0 is no pipe

(* What TypeOK says of executor e, and of the pipes its command was given. *)
Typed(e) ==
  /\ DOMAIN proc[e] = {"pc", "query", "i", "k", "status", "prev", "skip", "pipe_in"}
  /\ DOMAIN child[e] = {"state", "in", "out", "pipe", "ends", "wants", "reads", "status"}
  /\ proc[e].pc \in {"none", "prompt", "parse", "execute", "pipelines", "commands",
                     "wait", "ended"}
  /\ proc[e].status \in Statuses /\ proc[e].prev \in {0, 1}
  /\ proc[e].pipe_in \in PipeNumbers
  /\ child[e].state \in {"none", "running", "zombie"}
  /\ child[e].status \in Statuses
  /\ child[e].wants \in Nat
  /\ child[e].in \in PipeNumbers /\ child[e].out \in PipeNumbers /\ child[e].pipe \in PipeNumbers
  /\ child[e].wants > 0 => child[e].out # 0
  /\ child[e].reads => child[e].in # 0
  /\ ends[e] \cup child[e].ends \subseteq {"r", "w"} \X (1..Len(pipes))
  /\ proc[e].pc = "wait" <=> child[e].state # "none"

AllTyped ==
  /\ DOMAIN proc = Executors /\ DOMAIN child = Executors
  /\ DOMAIN ends = Executors
  /\ pipes \in Seq(0..PipeCapacity)
  /\ \A e \in Executors : Typed(e)

(* Who holds a write end.  A pipe that was made for a command is held by   *)
(* the executor that waits for this command and by the command, and by     *)
(* nobody from then on: not by a job either, because a job is started when *)
(* the shell does not wait.                                                *)
CommandReadsPipeIn(e) == child[e].state # "none" => child[e].in = proc[e].pipe_in
NoCommandNoPipe(e)    == child[e].state = "none" => child[e].pipe = 0 /\ child[e].ends = {}
InputHasEnded(e)      == proc[e].pipe_in # 0 =>
                           \A x \in Executors : ~HoldsWriteEnd(x, proc[e].pipe_in)
OwnPipe(e)            == child[e].pipe # 0 =>
                           \A x \in Executors \ {e} : ~HoldsWriteEnd(x, child[e].pipe)

PipeEnds ==
  \A e \in Executors :
    CommandReadsPipeIn(e) /\ NoCommandNoPipe(e) /\ InputHasEnded(e) /\ OwnPipe(e)

IInv == AllTyped /\ PipeEnds

-----------------------------------------------------------------------------
LEMMA ExecutorsAreNumbers == 0 \in Executors /\ Executors \subseteq Nat
  BY ShellAssumption DEF Executors

LEMMA InitIInv == Init => IInv
<1> SUFFICES ASSUME Init PROVE IInv
  OBVIOUS
<1>1. /\ DOMAIN proc = Executors /\ DOMAIN child = Executors /\ DOMAIN ends = Executors
      /\ pipes = << >>
  BY DEF Init
<1>2. ASSUME NEW e \in Executors
      PROVE  /\ child[e] = NoChild /\ ends[e] = {}
             /\ \E pc \in {"prompt", "none"} : proc[e] = At(pc, NewQuery)
  BY DEF Init
<1>3. AllTyped
  <2>1. pipes \in Seq(0..PipeCapacity) /\ Len(pipes) = 0
    BY <1>1
  <2>2. ASSUME NEW e \in Executors PROVE Typed(e)
    BY <1>2, <2>1 DEF Typed, At, NoChild, Statuses, PipeNumbers
  <2> QED BY <1>1, <2>1, <2>2 DEF AllTyped
<1>4. PipeEnds
  BY <1>2 DEF PipeEnds, CommandReadsPipeIn, NoCommandNoPipe, InputHasEnded, OwnPipe, At, NoChild
<1> QED BY <1>3, <1>4 DEF IInv

(***************************************************************************)
(* A step is one of executor e when nobody else's place, command and ends  *)
(* change, and no pipe goes away.                                          *)
(***************************************************************************)
StepOf(e) ==
  /\ DOMAIN proc' = DOMAIN proc /\ DOMAIN child' = DOMAIN child /\ DOMAIN ends' = DOMAIN ends
  /\ \A x \in Executors \ {e} : proc'[x] = proc[x] /\ child'[x] = child[x] /\ ends'[x] = ends[x]
  /\ pipes' \in Seq(0..PipeCapacity)
  /\ Len(pipes) <= Len(pipes')

LEMMA OthersStayTyped ==
  ASSUME AllTyped, NEW e \in Executors, StepOf(e), Typed(e)'
  PROVE  AllTyped'
<1>1. ASSUME NEW x \in Executors \ {e} PROVE Typed(x)'
  <2>1. Typed(x) /\ Len(pipes) \in Nat /\ Len(pipes') \in Nat
    BY DEF AllTyped, StepOf
  <2> QED BY <2>1 DEF StepOf, Typed, PipeNumbers
<1> QED BY <1>1 DEF AllTyped, StepOf

(* A step of e that takes no write end of an old pipe and changes neither  *)
(* its input nor its command's pipes keeps the pipe ends in order.         *)
LEMMA NoNewEnds ==
  ASSUME IInv, NEW e \in Executors, StepOf(e), Typed(e)',
         proc'[e].pipe_in \in {0, proc[e].pipe_in},
         child'[e].pipe = child[e].pipe,
         CommandReadsPipeIn(e)', NoCommandNoPipe(e)',
         ends'[e] \cup child'[e].ends \subseteq ends[e] \cup child[e].ends
  PROVE  IInv'
<1>1. AllTyped'
  BY OthersStayTyped DEF IInv
<1>2. ASSUME NEW x \in Executors, NEW p, HoldsWriteEnd(x, p)' PROVE HoldsWriteEnd(x, p)
  BY <1>2 DEF HoldsWriteEnd, StepOf
<1>3. ASSUME NEW x \in Executors
      PROVE  CommandReadsPipeIn(x)' /\ NoCommandNoPipe(x)' /\ InputHasEnded(x)' /\ OwnPipe(x)'
  BY <1>2 DEF IInv, PipeEnds, StepOf, CommandReadsPipeIn, NoCommandNoPipe, InputHasEnded, OwnPipe
<1> QED BY <1>1, <1>3 DEF IInv, PipeEnds

-----------------------------------------------------------------------------
(***************************************************************************)
(* The steps that make and close no pipe, and take no command in or out.   *)
(***************************************************************************)

(* An executor that does not wait has no command. *)
LEMMA NoCommand ==
  ASSUME IInv, NEW e \in Executors, proc[e].pc # "wait"
  PROVE  child[e].state = "none" /\ child[e].pipe = 0 /\ child[e].ends = {}
  BY DEF IInv, AllTyped, Typed, PipeEnds, NoCommandNoPipe

(* An executor that stays or ends where no command is, with the input it   *)
(* had or none.                                                            *)
LEMMA MoveIInv ==
  ASSUME IInv, NEW e \in Executors, proc[e].pc # "wait",
         NEW r, proc' = [proc EXCEPT ![e] = r],
         DOMAIN r = DOMAIN proc[e],
         r.pc \in {"none", "prompt", "parse", "execute", "pipelines", "commands", "ended"},
         r.status \in Statuses, r.prev \in {0, 1}, r.pipe_in \in {0, proc[e].pipe_in},
         \/ UNCHANGED ends
         \/ ends' = [ends EXCEPT ![e] = {}],
         UNCHANGED << child, pipes >>
  PROVE  IInv'
<1>1. child[e].state = "none" /\ child[e].pipe = 0 /\ child[e].ends = {}
  BY NoCommand
<1>2. proc'[e] = r /\ ends'[e] \subseteq ends[e] /\ AllTyped /\ Typed(e)
  BY DEF IInv, AllTyped
<1>3. StepOf(e)
  BY DEF StepOf, IInv, AllTyped
<1>4. Typed(e)'
  BY <1>1, <1>2 DEF Typed, PipeNumbers, AllTyped
<1>5. CommandReadsPipeIn(e)' /\ NoCommandNoPipe(e)'
  BY <1>1 DEF CommandReadsPipeIn, NoCommandNoPipe
<1> QED BY <1>1, <1>2, <1>3, <1>4, <1>5, NoNewEnds

LEMMA ExitsIInv ==
  ASSUME IInv, NEW e \in Executors, proc[e].pc # "wait", Exits(e), UNCHANGED << child, pipes >>
  PROVE  IInv'
<1> DEFINE r == At("ended", NewQuery)
<1>1. /\ proc' = [proc EXCEPT ![e] = r] /\ ends' = [ends EXCEPT ![e] = {}]
  BY DEF Exits
<1>2. /\ DOMAIN r = DOMAIN proc[e] /\ r.pc = "ended" /\ r.status \in Statuses
      /\ r.prev \in {0, 1} /\ r.pipe_in = 0
  BY DEF At, Statuses, IInv, AllTyped, Typed
<1> HIDE DEF r
<1> QED BY <1>1, <1>2, MoveIInv

(* The shell's own steps, but for starting a job. *)
LEMMA ReadingIInv ==
  ASSUME IInv, \/ EndOfInput \/ ReadsLine \/ Refuses \/ FormsQuery \/ ExecutesHere
               \/ CannotStartJob
  PROVE  IInv'
<1>1. 0 \in Executors
  BY ExecutorsAreNumbers
<1>2. DOMAIN proc = Executors /\ Typed(0)
  BY <1>1 DEF IInv, AllTyped
<1>3. CASE EndOfInput \/ Refuses \/ CannotStartJob
  BY <1>1, <1>3, ExitsIInv DEF EndOfInput, Refuses, CannotStartJob
<1>4. CASE FormsQuery
  <2> DEFINE r == At("execute", FormQuery(Parse(line).vec).query)
  <2>1. proc' = [proc EXCEPT ![0] = r] /\ proc[0].pc # "wait" /\ UNCHANGED << child, ends, pipes >>
    BY <1>4 DEF FormsQuery
  <2>2. /\ DOMAIN r = DOMAIN proc[0] /\ r.pc = "execute" /\ r.status \in Statuses
        /\ r.prev \in {0, 1} /\ r.pipe_in = 0
    BY <1>2 DEF At, Statuses, Typed
  <2> HIDE DEF r
  <2> QED BY <1>1, <2>1, <2>2, MoveIInv
<1>5. ASSUME NEW pc \in {"parse", "pipelines"}, proc' = [proc EXCEPT ![0].pc = pc],
             proc[0].pc # "wait", UNCHANGED << child, ends, pipes >>
      PROVE  IInv'
  <2> DEFINE r == [proc[0] EXCEPT !.pc = pc]
  <2>1. proc' = [proc EXCEPT ![0] = r]
    BY <1>5
  <2>2. /\ DOMAIN r = DOMAIN proc[0] /\ r.pc = pc /\ r.status \in Statuses
        /\ r.prev \in {0, 1} /\ r.pipe_in = proc[0].pipe_in
    BY <1>2 DEF Typed
  <2> HIDE DEF r
  <2> QED BY <1>1, <1>5, <2>1, <2>2, MoveIInv
<1>6. CASE ReadsLine
  BY <1>5, <1>6 DEF ReadsLine
<1>7. CASE ExecutesHere
  BY <1>5, <1>7 DEF ExecutesHere
<1> QED BY <1>3, <1>4, <1>6, <1>7

LEMMA ExitStatusIsCode == \A status \in Statuses : ExitStatus(status) \in {0, 1}
  BY DEF ExitStatus, Statuses, Killed

(* From pipeline to pipeline and past cd, without a command. *)
LEMMA PipelineIInv ==
  ASSUME IInv, NEW e \in Executors,
         \/ SkipsPipeline(e) \/ StartsPipeline(e) \/ EndsPipeline(e) \/ EndsQuery(e)
         \/ ChangesDirectory(e) \/ Quits(e) \/ CannotStart(e)
  PROVE  IInv'
<1>1. DOMAIN proc = Executors /\ Typed(e)
  BY DEF IInv, AllTyped
<1>2. ASSUME NEW r, proc' = [proc EXCEPT ![e] = r], proc[e].pc # "wait",
             DOMAIN r = DOMAIN proc[e], r.pc \in {"pipelines", "commands"},
             r.status \in {0, proc[e].status}, r.prev \in {0, 1},
             r.pipe_in \in {0, proc[e].pipe_in}, UNCHANGED << child, ends, pipes >>
      PROVE  IInv'
  <2>1. r.status \in Statuses
    BY <1>1, <1>2 DEF Typed, Statuses
  <2> QED BY <1>2, <2>1, MoveIInv
<1>3. CASE SkipsPipeline(e)
  <2> DEFINE r == [proc[e] EXCEPT !.skip = FALSE, !.i = @ + 1]
  <2>1. proc' = [proc EXCEPT ![e] = r] /\ proc[e].pc = "pipelines" /\ UNCHANGED << child, ends, pipes >>
    BY <1>3 DEF SkipsPipeline, AtPipeline
  <2>2. /\ DOMAIN r = DOMAIN proc[e] /\ r.pc = proc[e].pc /\ r.status = proc[e].status
        /\ r.prev \in {0, 1} /\ r.pipe_in = proc[e].pipe_in
    BY <1>1 DEF Typed
  <2> HIDE DEF r
  <2> QED BY <1>2, <2>1, <2>2
<1>4. CASE StartsPipeline(e)
  <2> DEFINE r == [proc[e] EXCEPT !.pc = "commands", !.k = 1, !.status = 0, !.pipe_in = 0]
  <2>1. proc' = [proc EXCEPT ![e] = r] /\ proc[e].pc = "pipelines" /\ UNCHANGED << child, ends, pipes >>
    BY <1>4 DEF StartsPipeline, AtPipeline
  <2>2. /\ DOMAIN r = DOMAIN proc[e] /\ r.pc = "commands" /\ r.status = 0
        /\ r.prev \in {0, 1} /\ r.pipe_in = 0
    BY <1>1 DEF Typed
  <2> HIDE DEF r
  <2> QED BY <1>2, <2>1, <2>2
<1>5. CASE EndsPipeline(e)
  <2> DEFINE code == ExitStatus(proc[e].status)
             r == [proc[e] EXCEPT !.pc = "pipelines", !.i = @ + 1, !.prev = code,
                                  !.skip = SkipsNext(PipelineOf(e), code)]
  <2>1. /\ proc' = [proc EXCEPT ![e] = r] /\ proc[e].pc = "commands"
        /\ UNCHANGED << child, ends, pipes >>
    BY <1>5 DEF EndsPipeline
  <2>2. code \in {0, 1}
    BY <1>1, ExitStatusIsCode DEF Typed
  <2>3. /\ DOMAIN r = DOMAIN proc[e] /\ r.pc = "pipelines" /\ r.status = proc[e].status
        /\ r.prev \in {0, 1} /\ r.pipe_in = proc[e].pipe_in
    BY <1>1, <2>2 DEF Typed
  <2> HIDE DEF r
  <2> QED BY <1>2, <2>1, <2>3
<1>6. CASE EndsQuery(e)
  <2>1. CASE e # 0
    BY <1>6, <2>1, ExitsIInv DEF EndsQuery
  <2>2. CASE e = 0
    <3> DEFINE r == At("prompt", NewQuery)
    <3>1. proc' = [proc EXCEPT ![e] = r] /\ proc[e].pc = "pipelines" /\ UNCHANGED << child, ends, pipes >>
      BY <1>6, <2>2 DEF EndsQuery
    <3>2. /\ DOMAIN r = DOMAIN proc[e] /\ r.pc = "prompt" /\ r.status \in Statuses
          /\ r.prev \in {0, 1} /\ r.pipe_in = 0
      BY <1>1 DEF At, Statuses, Typed
    <3> HIDE DEF r
    <3> QED BY <3>1, <3>2, MoveIInv
  <2> QED BY <2>1, <2>2
<1>7. CASE ChangesDirectory(e)
  <2> DEFINE r == [proc[e] EXCEPT !.k = @ + 1]
  <2>1. proc' = [proc EXCEPT ![e] = r] /\ proc[e].pc = "commands" /\ UNCHANGED << child, ends, pipes >>
    BY <1>7 DEF ChangesDirectory, AtCommand
  <2>2. /\ DOMAIN r = DOMAIN proc[e] /\ r.pc = proc[e].pc /\ r.status = proc[e].status
        /\ r.prev \in {0, 1} /\ r.pipe_in = proc[e].pipe_in
    BY <1>1 DEF Typed
  <2> HIDE DEF r
  <2> QED BY <1>2, <2>1, <2>2
<1>8. CASE Quits(e) \/ CannotStart(e)
  BY <1>8, ExitsIInv DEF Quits, CannotStart, IsProgram, AtCommand
<1> QED BY <1>3, <1>4, <1>5, <1>6, <1>7, <1>8

-----------------------------------------------------------------------------
(***************************************************************************)
(* The steps that make pipes, and those of the commands.                   *)
(***************************************************************************)

(* A new pipe is nobody's yet, and the pipes there were stay. *)
LEMMA NewPipe ==
  ASSUME IInv, pipes' = Append(pipes, 0)
  PROVE  /\ pipes' \in Seq(0..PipeCapacity)
         /\ Len(pipes) \in Nat /\ Len(pipes') = Len(pipes) + 1
         /\ \A x \in Executors : ~HoldsWriteEnd(x, Len(pipes) + 1)
<1>1. pipes \in Seq(0..PipeCapacity) /\ 0 \in 0..PipeCapacity
  BY ShellAssumption DEF IInv, AllTyped
<1>2. pipes' \in Seq(0..PipeCapacity) /\ Len(pipes) \in Nat /\ Len(pipes') = Len(pipes) + 1
  BY <1>1
<1>3. ASSUME NEW x \in Executors PROVE ~HoldsWriteEnd(x, Len(pipes) + 1)
  BY <1>2 DEF HoldsWriteEnd, WriteEnd, IInv, AllTyped, Typed
<1> QED BY <1>2, <1>3

(* A job: what it inherits are write ends that no command reads, and both  *)
(* ends of a pipe that is new.                                             *)
LEMMA JobIInv ==
  ASSUME IInv, ExecutesInBackground
  PROVE  IInv'
<1> DEFINE p    == Len(pipes) + 1
           both == ends[0] \cup {ReadEnd(p), WriteEnd(p)}
           here == At("prompt", NewQuery)
           job  == At("pipelines", proc[0].query)
<1>1. 0 \in Executors
  BY ExecutorsAreNumbers
<1>2. PICK e \in Executors :
        /\ proc[e].pc = "none"
        /\ proc' = [proc EXCEPT ![0] = here, ![e] = job]
        /\ ends' = [ends EXCEPT ![0] = both, ![e] = both]
  BY DEF ExecutesInBackground
<1>3. proc[0].pc = "execute" /\ pipes' = Append(pipes, 0) /\ child' = child
  BY DEF ExecutesInBackground
<1>4. /\ pipes' \in Seq(0..PipeCapacity) /\ Len(pipes) \in Nat /\ Len(pipes') = p
      /\ \A x \in Executors : ~HoldsWriteEnd(x, p)
  BY <1>3, NewPipe
<1>5. /\ child[0].state = "none" /\ child[0].pipe = 0 /\ child[0].ends = {}
      /\ child[e].state = "none" /\ child[e].pipe = 0 /\ child[e].ends = {}
  BY <1>1, <1>2, <1>3, NoCommand
<1>6. AllTyped /\ DOMAIN proc = Executors /\ DOMAIN ends = Executors
  BY DEF IInv, AllTyped
<1>7. /\ proc'[e] = job /\ ends'[e] = both /\ proc'[0] \in {here, job} /\ ends'[0] = both
      /\ \A x \in Executors \ {0, e} : proc'[x] = proc[x] /\ ends'[x] = ends[x]
  BY <1>1, <1>2, <1>6
<1>8. ASSUME NEW x \in {0, e}
      PROVE  /\ DOMAIN proc'[x] = DOMAIN proc[x] /\ proc'[x].pc \in {"prompt", "pipelines"}
             /\ proc'[x].status \in Statuses /\ proc'[x].prev \in {0, 1} /\ proc'[x].pipe_in = 0
  <2>1. ASSUME NEW r \in {here, job}
        PROVE  /\ DOMAIN r = {"pc", "query", "i", "k", "status", "prev", "skip", "pipe_in"}
               /\ r.pc \in {"prompt", "pipelines"}
               /\ r.status = 0 /\ r.prev = 0 /\ r.pipe_in = 0
    BY DEF At
  <2>2. proc'[x] \in {here, job}
    BY <1>7
  <2>3. DOMAIN proc[x] = {"pc", "query", "i", "k", "status", "prev", "skip", "pipe_in"}
    BY <1>1, <1>6 DEF AllTyped, Typed
  <2> HIDE DEF here, job
  <2> QED BY <2>1, <2>2, <2>3 DEF Statuses
<1> HIDE DEF here, job
<1>9. AllTyped'
  <2>1. ASSUME NEW x \in Executors PROVE Typed(x)'
    <3>1. Typed(x)
      BY <1>6 DEF AllTyped
    <3>2. both \subseteq {"r", "w"} \X (1..p)
      BY <1>1, <1>4, <1>6 DEF AllTyped, Typed, ReadEnd, WriteEnd
    <3>3. CASE x \in {0, e}
      BY <1>3, <1>4, <1>5, <1>7, <1>8, <3>1, <3>2, <3>3 DEF Typed, PipeNumbers
    <3>4. CASE x \notin {0, e}
      BY <1>3, <1>4, <1>7, <3>1, <3>4 DEF Typed, PipeNumbers
    <3> QED BY <3>3, <3>4
  <2> QED BY <1>2, <1>3, <1>4, <1>6, <2>1 DEF AllTyped
<1>10. ASSUME NEW x \in Executors, NEW q \in 1..Len(pipes), HoldsWriteEnd(x, q)'
       PROVE  HoldsWriteEnd(x, q) \/ (x = e /\ HoldsWriteEnd(0, q))
  BY <1>1, <1>3, <1>4, <1>5, <1>7, <1>10 DEF HoldsWriteEnd, ReadEnd, WriteEnd
<1>11. ASSUME NEW x \in Executors
       PROVE  CommandReadsPipeIn(x)' /\ NoCommandNoPipe(x)' /\ InputHasEnded(x)' /\ OwnPipe(x)'
  <2>1. /\ CommandReadsPipeIn(x) /\ NoCommandNoPipe(x) /\ InputHasEnded(x) /\ OwnPipe(x)
        /\ Typed(x)
    BY <1>6 DEF IInv, PipeEnds, AllTyped
  <2>2. CommandReadsPipeIn(x)' /\ NoCommandNoPipe(x)'
    BY <1>3, <1>5, <1>7, <2>1 DEF CommandReadsPipeIn, NoCommandNoPipe
  <2>3. InputHasEnded(x)'
    BY <1>1, <1>4, <1>7, <1>8, <1>10, <2>1 DEF InputHasEnded, Typed, PipeNumbers
  <2>4. OwnPipe(x)'
    BY <1>1, <1>3, <1>4, <1>5, <1>10, <2>1 DEF OwnPipe, Typed, PipeNumbers
  <2> QED BY <2>2, <2>3, <2>4
<1> QED BY <1>9, <1>11 DEF IInv, PipeEnds

(* What fork makes of an executor that is at a program. *)
LEMMA ForksFacts ==
  ASSUME IInv, NEW e \in Executors, NEW out \in Nat, NEW pipe \in Nat, NEW held,
         IsProgram(e), Forks(e, out, pipe, held)
  PROVE  /\ DOMAIN proc' = Executors /\ DOMAIN child' = Executors
         /\ \A x \in Executors \ {e} : proc'[x] = proc[x] /\ child'[x] = child[x]
         /\ DOMAIN proc'[e] = DOMAIN proc[e]
         /\ proc'[e].pc = "wait" /\ proc'[e].pipe_in = proc[e].pipe_in
         /\ proc'[e].status = proc[e].status /\ proc'[e].prev = proc[e].prev
         /\ DOMAIN child'[e] = DOMAIN child[e]
         /\ child'[e].state = "running" /\ child'[e].in = proc[e].pipe_in
         /\ child'[e].out = out /\ child'[e].pipe = pipe /\ child'[e].ends = held
         /\ child'[e].status = 0 /\ child'[e].wants \in Nat
         /\ child'[e].wants > 0 => child'[e].out # 0
         /\ child'[e].reads => child'[e].in # 0
<1>1. PICK wants \in (IF out = 0 THEN {0} ELSE 0..(PipeCapacity + 1)),
           reads \in (IF proc[e].pipe_in = 0 THEN {FALSE} ELSE BOOLEAN) :
        /\ child' = [child EXCEPT ![e] =
             [NoChild EXCEPT !.state = "running", !.in = proc[e].pipe_in, !.out = out,
                             !.pipe = pipe, !.ends = held, !.wants = wants, !.reads = reads]]
        /\ proc' = [proc EXCEPT ![e].pc = "wait"]
  BY DEF Forks
<1>2. DOMAIN proc = Executors /\ DOMAIN child = Executors /\ Typed(e)
  BY DEF IInv, AllTyped
<1>3. wants \in Nat /\ (wants > 0 => out # 0)
  BY ShellAssumption
<1>4. reads => proc[e].pipe_in # 0
  OBVIOUS
<1>5. /\ DOMAIN child'[e] = DOMAIN child[e]
      /\ child'[e].state = "running" /\ child'[e].in = proc[e].pipe_in
      /\ child'[e].out = out /\ child'[e].pipe = pipe /\ child'[e].ends = held
      /\ child'[e].status = 0 /\ child'[e].wants = wants /\ child'[e].reads = reads
  BY <1>1, <1>2 DEF NoChild, Typed
<1> QED BY <1>1, <1>2, <1>3, <1>4, <1>5 DEF Typed

(* A command in front of a pipe: its output goes into a new pipe, of which *)
(* it inherits the write end.                                              *)
LEMMA PipedIInv ==
  ASSUME IInv, NEW e \in Executors, StartsPiped(e)
  PROVE  IInv'
<1>1. PICK p, out, held :
        /\ p = Len(pipes) + 1 /\ out \in {0, p} /\ held \subseteq ends[e] \cup {WriteEnd(p)}
        /\ IsProgram(e) /\ Forks(e, out, p, held)
        /\ ends' = [ends EXCEPT ![e] = @ \cup {ReadEnd(p), WriteEnd(p)}]
        /\ pipes' = Append(pipes, 0)
  <2> DEFINE q    == Len(pipes) + 1
             out  == IF proc[e].k < Len(PipelineOf(e).commands) THEN q ELSE 0
             held == ends[e] \cup (IF out = q THEN {WriteEnd(q)} ELSE {})
  <2>1. /\ IsProgram(e) /\ Forks(e, out, q, held)
        /\ ends' = [ends EXCEPT ![e] = @ \cup {ReadEnd(q), WriteEnd(q)}]
        /\ pipes' = Append(pipes, 0)
    BY DEF StartsPiped
  <2>2. out \in {0, q} /\ held \subseteq ends[e] \cup {WriteEnd(q)}
    OBVIOUS
  <2> HIDE DEF q, out, held
  <2> QED BY <2>1, <2>2 DEF q
<1>2. /\ pipes' \in Seq(0..PipeCapacity) /\ Len(pipes) \in Nat /\ Len(pipes') = p
      /\ \A x \in Executors : ~HoldsWriteEnd(x, p)
  BY <1>1, NewPipe
<1>3. p \in Nat /\ p = Len(pipes) + 1 /\ out \in {0, p} /\ held \subseteq ends[e] \cup {WriteEnd(p)}
  BY <1>1, <1>2
<1>4. proc[e].pc = "commands" /\ child[e].state = "none"
  BY <1>1, NoCommand DEF IsProgram, AtCommand
<1>5. /\ AllTyped /\ Typed(e)
      /\ ends'[e] = ends[e] \cup {ReadEnd(p), WriteEnd(p)}
      /\ \A x \in Executors \ {e} : ends'[x] = ends[x]
      /\ DOMAIN ends' = Executors
  BY <1>1 DEF IInv, AllTyped
<1>6. /\ DOMAIN proc' = Executors /\ DOMAIN child' = Executors
      /\ \A x \in Executors \ {e} : proc'[x] = proc[x] /\ child'[x] = child[x]
      /\ DOMAIN proc'[e] = DOMAIN proc[e]
      /\ proc'[e].pc = "wait" /\ proc'[e].pipe_in = proc[e].pipe_in
      /\ proc'[e].status = proc[e].status /\ proc'[e].prev = proc[e].prev
      /\ DOMAIN child'[e] = DOMAIN child[e]
      /\ child'[e].state = "running" /\ child'[e].in = proc[e].pipe_in
      /\ child'[e].out = out /\ child'[e].pipe = p /\ child'[e].ends = held
      /\ child'[e].status = 0 /\ child'[e].wants \in Nat
      /\ child'[e].wants > 0 => child'[e].out # 0
      /\ child'[e].reads => child'[e].in # 0
  <2>1. p \in Nat /\ out \in Nat /\ IsProgram(e) /\ Forks(e, out, p, held)
    BY <1>1, <1>3
  <2> QED BY ONLY IInv, e \in Executors, <2>1, ForksFacts
<1>7. AllTyped'
  <2>1. ends[e] \subseteq {"r", "w"} \X (1..Len(pipes))
    BY <1>5 DEF Typed
  <2>2. ends'[e] \cup child'[e].ends \subseteq {"r", "w"} \X (1..p)
    BY <1>2, <1>3, <1>5, <1>6, <2>1 DEF ReadEnd, WriteEnd
  <2>3. Typed(e)'
    BY <1>2, <1>3, <1>5, <1>6, <2>2 DEF Typed, PipeNumbers, Statuses
  <2>4. StepOf(e)
    BY <1>2, <1>3, <1>5, <1>6 DEF StepOf, AllTyped
  <2> QED BY <1>5, <2>3, <2>4, OthersStayTyped
<1>8. ASSUME NEW x \in Executors, NEW q \in 1..Len(pipes), HoldsWriteEnd(x, q)'
      PROVE  HoldsWriteEnd(x, q)
  BY <1>2, <1>3, <1>5, <1>6, <1>8 DEF HoldsWriteEnd, ReadEnd, WriteEnd
<1>9. \A x \in Executors \ {e} : ~HoldsWriteEnd(x, p)'
  BY <1>2, <1>5, <1>6 DEF HoldsWriteEnd, WriteEnd
<1>10. ASSUME NEW x \in Executors
       PROVE  CommandReadsPipeIn(x)' /\ NoCommandNoPipe(x)' /\ InputHasEnded(x)' /\ OwnPipe(x)'
  <2>1. /\ CommandReadsPipeIn(x) /\ NoCommandNoPipe(x) /\ InputHasEnded(x) /\ OwnPipe(x)
        /\ Typed(x)
    BY <1>5 DEF IInv, PipeEnds, AllTyped
  <2>2. CommandReadsPipeIn(x)' /\ NoCommandNoPipe(x)'
    BY <1>6, <2>1 DEF CommandReadsPipeIn, NoCommandNoPipe
  <2>3. InputHasEnded(x)'
    BY <1>6, <1>8, <2>1 DEF InputHasEnded, Typed, PipeNumbers
  <2>4. OwnPipe(x)'
    BY <1>6, <1>8, <1>9, <2>1 DEF OwnPipe, Typed, PipeNumbers
  <2> QED BY <2>2, <2>3, <2>4
<1> QED BY <1>7, <1>10 DEF IInv, PipeEnds

(* A command with no pipe behind it inherits what the executor has. *)
LEMMA LastIInv ==
  ASSUME IInv, NEW e \in Executors, StartsLast(e)
  PROVE  IInv'
<1>1. IsProgram(e) /\ Forks(e, 0, 0, ends[e]) /\ UNCHANGED << ends, pipes >>
  BY DEF StartsLast
<1>2. proc[e].pc = "commands" /\ child[e].state = "none" /\ child[e].pipe = 0
  BY <1>1, NoCommand DEF IsProgram, AtCommand
<1>3. /\ DOMAIN proc' = Executors /\ DOMAIN child' = Executors
      /\ \A x \in Executors \ {e} : proc'[x] = proc[x] /\ child'[x] = child[x]
      /\ DOMAIN proc'[e] = DOMAIN proc[e]
      /\ proc'[e].pc = "wait" /\ proc'[e].pipe_in = proc[e].pipe_in
      /\ proc'[e].status = proc[e].status /\ proc'[e].prev = proc[e].prev
      /\ DOMAIN child'[e] = DOMAIN child[e]
      /\ child'[e].state = "running" /\ child'[e].in = proc[e].pipe_in
      /\ child'[e].out = 0 /\ child'[e].pipe = 0 /\ child'[e].ends = ends[e]
      /\ child'[e].status = 0 /\ child'[e].wants \in Nat
      /\ child'[e].wants > 0 => child'[e].out # 0
      /\ child'[e].reads => child'[e].in # 0
  BY <1>1, ForksFacts
<1>4. AllTyped /\ Typed(e) /\ Len(pipes) \in Nat
  BY DEF IInv, AllTyped
<1>5. StepOf(e)
  BY <1>1, <1>3, <1>4 DEF StepOf, AllTyped
<1>6. Typed(e)'
  BY <1>1, <1>3, <1>4 DEF Typed, PipeNumbers, Statuses
<1>7. CommandReadsPipeIn(e)' /\ NoCommandNoPipe(e)'
  BY <1>3 DEF CommandReadsPipeIn, NoCommandNoPipe
<1> QED BY <1>1, <1>2, <1>3, <1>5, <1>6, <1>7, NoNewEnds

(* The command is gone, and the shell closes the write end of its pipe: it *)
(* was the last to hold it.                                                *)
LEMMA WaitsIInv ==
  ASSUME IInv, NEW e \in Executors, Waits(e)
  PROVE  IInv'
<1> DEFINE p == child[e].pipe
<1>1. /\ child[e].state = "zombie" /\ proc[e].pc = "wait"
      /\ proc' = [proc EXCEPT ![e].pc = "commands", ![e].k = @ + 1,
                              ![e].status = child[e].status,
                              ![e].pipe_in = IF p = 0 THEN @ ELSE p]
      /\ ends' = [ends EXCEPT ![e] = ends[e] \ {WriteEnd(p)}]
      /\ child' = [child EXCEPT ![e] = NoChild]
      /\ pipes' = pipes
  BY DEF Waits, EndsAfterWait
<1>2. /\ AllTyped /\ Typed(e) /\ Len(pipes) \in Nat
      /\ InputHasEnded(e) /\ OwnPipe(e)
  BY DEF IInv, AllTyped, PipeEnds
<1>3. /\ DOMAIN proc' = Executors /\ DOMAIN child' = Executors /\ DOMAIN ends' = Executors
      /\ \A x \in Executors \ {e} : proc'[x] = proc[x] /\ child'[x] = child[x] /\ ends'[x] = ends[x]
      /\ ends'[e] = ends[e] \ {WriteEnd(p)}
      /\ DOMAIN proc'[e] = DOMAIN proc[e]
      /\ proc'[e].pc = "commands" /\ proc'[e].status = child[e].status
      /\ proc'[e].prev = proc[e].prev
      /\ proc'[e].pipe_in = IF p = 0 THEN proc[e].pipe_in ELSE p
      /\ child'[e] = NoChild
  BY <1>1, <1>2 DEF AllTyped, Typed
<1>4. /\ DOMAIN child'[e] = DOMAIN child[e]
      /\ child'[e].state = "none" /\ child'[e].in = 0 /\ child'[e].out = 0
      /\ child'[e].pipe = 0 /\ child'[e].ends = {} /\ child'[e].wants = 0
      /\ child'[e].reads = FALSE /\ child'[e].status = 0
  BY <1>2, <1>3 DEF NoChild, Typed
<1>5. AllTyped'
  <2>1. StepOf(e)
    BY <1>1, <1>2, <1>3 DEF StepOf, AllTyped
  <2>2. Typed(e)'
    BY <1>1, <1>2, <1>3, <1>4 DEF Typed, PipeNumbers, Statuses
  <2> QED BY <1>2, <2>1, <2>2, OthersStayTyped
<1>6. ASSUME NEW x \in Executors, NEW q, HoldsWriteEnd(x, q)'
      PROVE  HoldsWriteEnd(x, q) /\ (x = e => q # p)
  <2>1. WriteEnd(q) = WriteEnd(p) <=> q = p
    BY DEF WriteEnd
  <2> QED BY <1>3, <1>4, <1>6, <2>1 DEF HoldsWriteEnd
<1>7. ASSUME NEW x \in Executors
      PROVE  CommandReadsPipeIn(x)' /\ NoCommandNoPipe(x)' /\ InputHasEnded(x)' /\ OwnPipe(x)'
  <2>1. CommandReadsPipeIn(x) /\ NoCommandNoPipe(x) /\ InputHasEnded(x) /\ OwnPipe(x)
    BY DEF IInv, PipeEnds
  <2>2. CommandReadsPipeIn(x)' /\ NoCommandNoPipe(x)' /\ OwnPipe(x)'
    BY <1>3, <1>4, <1>6, <2>1 DEF CommandReadsPipeIn, NoCommandNoPipe, OwnPipe
  <2>3. CASE x # e
    BY <1>3, <1>6, <2>1, <2>2, <2>3 DEF InputHasEnded
  <2>4. CASE x = e /\ p = 0
    BY <1>3, <1>6, <2>1, <2>2, <2>4 DEF InputHasEnded
  <2>5. CASE x = e /\ p # 0
    BY <1>2, <1>3, <1>6, <2>2, <2>5 DEF InputHasEnded, OwnPipe
  <2> QED BY <2>3, <2>4, <2>5
<1> QED BY <1>5, <1>7 DEF IInv, PipeEnds

LEMMA Elements ==
  ASSUME NEW S, NEW s \in Seq(S), NEW i \in 1..Len(s) PROVE s[i] \in S
  OBVIOUS

(* Changing how much is in pipe p. *)
LEMMA PipeContent ==
  ASSUME AllTyped, NEW p \in 1..Len(pipes)
  PROVE  /\ pipes[p] \in 0..PipeCapacity
         /\ \A n \in 0..PipeCapacity :
              /\ [pipes EXCEPT ![p] = n] \in Seq(0..PipeCapacity)
              /\ Len([pipes EXCEPT ![p] = n]) = Len(pipes)
<1>1. pipes \in Seq(0..PipeCapacity)
  BY DEF AllTyped
<1>2. pipes = [i \in 1..Len(pipes) |-> pipes[i]] /\ Len(pipes) \in Nat
  BY <1>1
<1>3. pipes[p] \in 0..PipeCapacity
  BY <1>1, Elements
<1>4. ASSUME NEW n \in 0..PipeCapacity
      PROVE  /\ [pipes EXCEPT ![p] = n] \in Seq(0..PipeCapacity)
             /\ Len([pipes EXCEPT ![p] = n]) = Len(pipes)
  BY <1>1
<1> QED BY <1>3, <1>4

(* What a command does: it moves bytes, or it is gone with its ends. *)
LEMMA CommandIInv ==
  ASSUME IInv, NEW e \in Executors,
         ChildWrites(e) \/ ChildReads(e) \/ ChildExits(e) \/ ChildIsKilled(e)
  PROVE  IInv'
<1>1. AllTyped /\ Typed(e) /\ CommandReadsPipeIn(e) /\ NoCommandNoPipe(e) /\ Len(pipes) \in Nat
  BY DEF IInv, AllTyped, PipeEnds
<1>2. child[e].state = "running" /\ UNCHANGED << proc, ends >>
  BY DEF ChildWrites, ChildReads, ChildExits, ChildIsKilled, Ends
<1>3. ASSUME /\ DOMAIN child' = DOMAIN child
             /\ \A x \in Executors \ {e} : child'[x] = child[x]
             /\ DOMAIN child'[e] = DOMAIN child[e]
             /\ child'[e].in = child[e].in /\ child'[e].out = child[e].out
             /\ child'[e].pipe = child[e].pipe /\ child'[e].reads = child[e].reads
             /\ child'[e].wants \in Nat /\ child'[e].wants <= child[e].wants
             /\ child'[e].state \in {"running", "zombie"} /\ child'[e].status \in Statuses
             /\ child'[e].ends \subseteq child[e].ends,
             pipes' \in Seq(0..PipeCapacity), Len(pipes') = Len(pipes)
      PROVE  IInv'
  <2>1. StepOf(e)
    BY <1>1, <1>2, <1>3 DEF StepOf
  <2>2. Typed(e)'
    BY <1>1, <1>2, <1>3 DEF Typed, PipeNumbers
  <2>3. CommandReadsPipeIn(e)' /\ NoCommandNoPipe(e)'
    BY <1>1, <1>2, <1>3 DEF CommandReadsPipeIn, NoCommandNoPipe
  <2> QED BY <1>2, <1>3, <2>1, <2>2, <2>3, NoNewEnds
<1>4. CASE ChildWrites(e)
  <2>1. /\ child' = [child EXCEPT ![e].wants = @ - 1] /\ child[e].wants > 0
        /\ pipes[child[e].out] < PipeCapacity
        /\ pipes' = [pipes EXCEPT ![child[e].out] = @ + 1]
    BY <1>4 DEF ChildWrites
  <2>2. child[e].out \in 1..Len(pipes)
    BY <1>1, <2>1 DEF Typed, PipeNumbers
  <2>3. pipes' \in Seq(0..PipeCapacity) /\ Len(pipes') = Len(pipes)
    <3>1. pipes[child[e].out] \in 0..PipeCapacity
      BY <1>1, <2>2, PipeContent
    <3>2. pipes[child[e].out] + 1 \in 0..PipeCapacity
      BY <2>1, <3>1, ShellAssumption
    <3> QED BY <1>1, <2>1, <2>2, <3>2, PipeContent
  <2> QED BY <1>1, <1>2, <1>3, <2>1, <2>3 DEF AllTyped, Typed
<1>5. CASE ChildReads(e)
  <2>1. /\ child' = child /\ pipes[child[e].in] > 0
        /\ pipes' = [pipes EXCEPT ![child[e].in] = @ - 1]
    BY <1>5 DEF ChildReads
  <2>2. child[e].in \in 1..Len(pipes)
    BY <1>1, <1>5 DEF ChildReads, Typed, PipeNumbers
  <2>3. pipes' \in Seq(0..PipeCapacity) /\ Len(pipes') = Len(pipes)
    <3>1. pipes[child[e].in] \in 0..PipeCapacity
      BY <1>1, <2>2, PipeContent
    <3>2. pipes[child[e].in] - 1 \in 0..PipeCapacity
      BY <2>1, <3>1, ShellAssumption
    <3> QED BY <1>1, <2>1, <2>2, <3>2, PipeContent
  <2>4. child[e].wants \in Nat /\ child[e].status \in Statuses
    BY <1>1 DEF Typed
  <2> QED BY <1>2, <1>3, <2>1, <2>3, <2>4
<1>6. CASE ChildExits(e) \/ ChildIsKilled(e)
  <2>1. PICK status \in Statuses :
          /\ child' = [child EXCEPT ![e].state = "zombie", ![e].ends = {}, ![e].status = status]
          /\ pipes' = pipes
    BY <1>6 DEF ChildExits, ChildIsKilled, Ends, Statuses
  <2> QED BY <1>1, <1>2, <1>3, <2>1 DEF AllTyped, Typed
<1> QED BY <1>4, <1>5, <1>6

-----------------------------------------------------------------------------
LEMMA StutterIInv ==
  ASSUME IInv, UNCHANGED vars
  PROVE  IInv'
<1>1. AllTyped'
  <2>1. \A e \in Executors : Typed(e)'
    BY DEF vars, IInv, AllTyped, Typed, PipeNumbers
  <2> QED BY <2>1 DEF vars, IInv, AllTyped
<1>2. PipeEnds'
  BY DEF vars, IInv, PipeEnds, CommandReadsPipeIn, NoCommandNoPipe, InputHasEnded, OwnPipe,
         HoldsWriteEnd
<1> QED BY <1>1, <1>2 DEF IInv

(* Every step keeps the inductive invariant. *)
LEMMA NextIInv == IInv /\ [Next]_vars => IInv'
<1> SUFFICES ASSUME IInv, [Next]_vars PROVE IInv'
  OBVIOUS
<1>1. CASE ShellStep \/ CannotStartJob
  BY <1>1, ReadingIInv, JobIInv DEF ShellStep
<1>2. ASSUME NEW e \in Executors, ExecutorStep(e) \/ CannotStart(e) PROVE IInv'
  BY <1>2, PipelineIInv, PipedIInv, LastIInv, WaitsIInv DEF ExecutorStep
<1>3. ASSUME NEW e \in Executors, ChildStep(e) \/ ChildIsKilled(e) PROVE IInv'
  BY <1>3, CommandIInv DEF ChildStep
<1>4. CASE UNCHANGED vars
  BY <1>4, StutterIInv
<1> QED BY <1>1, <1>2, <1>3, <1>4 DEF Next

LEMMA Invariance == Spec => []IInv
  BY InitIInv, NextIInv, PTL DEF Spec

(* The shell, its jobs and the pipes are always well-formed, whatever the  *)
(* input and however many jobs there are.                                  *)
THEOREM ShellTypes == Spec => []TypeOK
<1>1. IInv => TypeOK
  BY DEF IInv, AllTyped, Typed, TypeOK, Statuses, PipeNumbers
<1> QED BY <1>1, Invariance, PTL

(* Whoever reads from a pipe finds its end: nobody holds its write end. *)
THEOREM ReadersFindTheEnd == Spec => []ReadersSeeTheEnd
<1>1. IInv => ReadersSeeTheEnd
  BY DEF IInv, PipeEnds, CommandReadsPipeIn, InputHasEnded, ReadersSeeTheEnd
<1> QED BY <1>1, Invariance, PTL

-----------------------------------------------------------------------------
(***************************************************************************)
(* Which pipelines of a query run (execute_query): an executor goes        *)
(* through the pipelines of any query FormQuery may deliver, and where &&  *)
(* and || alternate, skip_next does what evaluation from left to right     *)
(* does.                                                                   *)
(***************************************************************************)

InPipeline(e) == proc[e].pc \in {"commands", "wait"}
InQuery(e)    == proc[e].pc = "pipelines" \/ InPipeline(e)

(* The last pipeline of which it is decided if it runs. *)
Reached(e) == IF InPipeline(e) THEN proc[e].i ELSE proc[e].i - 1

(* Pipeline j is in the record s of what ran; c is the last code of it. *)
HasRun(s, j)    == \E n \in DOMAIN s : s[n][1] = j
LastCode(s, j, c) == \E n \in DOMAIN s :
                     /\ s[n][1] = j /\ s[n][2] = c
                     /\ \A m \in DOMAIN s : s[m][1] = j => m <= n

(* What keeps pipeline j from running: the one in front ran and ended so. *)
Inhibited(e, j) ==
  \E c \in {0, 1} :
    LastCode(ran[e], j - 1, c) /\ SkipsNext(proc[e].query.pipelines[j - 1], c)

(***************************************************************************)
(* The invariant of an executor's way through its query.                   *)
(***************************************************************************)
NotStarted(e)   == ~InQuery(e) => proc[e].i = 1 /\ ~proc[e].skip
Fresh(e)     == proc[e].pc = "none" => ran[e] = << >>
Progress(e)  ==
  InQuery(e) =>
    /\ proc[e].i \in Nat \ {0}
    /\ 1..Reached(e) \subseteq DOMAIN proc[e].query.pipelines
    /\ ran[e] \in Seq(Nat \X {0, 1})
    /\ \A n \in DOMAIN ran[e] : ran[e][n][1] \in 1..Reached(e)
    /\ InPipeline(e) => HasRun(ran[e], proc[e].i)
Decisions(e)   ==
  InQuery(e) =>
    \A j \in 1..Reached(e) :
      /\ HasRun(ran[e], j) <=> ~Inhibited(e, j)
      /\ HasRun(ran[e], j) => \E c \in {0, 1} : LastCode(ran[e], j, c)
SkipNext(e)  ==
  proc[e].pc = "pipelines" => (proc[e].skip <=> Inhibited(e, proc[e].i))
Code(e)      ==
  /\ proc[e].pc = "commands" => LastCode(ran[e], proc[e].i, ExitStatus(proc[e].status))
  /\ child[e].state = "zombie" => LastCode(ran[e], proc[e].i, ExitStatus(child[e].status))

Chained(e) == NotStarted(e) /\ Fresh(e) /\ Progress(e) /\ Decisions(e) /\ SkipNext(e) /\ Code(e)

ChainInv == DOMAIN ran = Executors /\ \A e \in Executors : Chained(e)

-----------------------------------------------------------------------------
(***************************************************************************)
(* The record of what ran.                                                 *)
(***************************************************************************)
Records == Seq(Nat \X {0, 1})

(* There is one last code at most. *)
LEMMA OneLastCode ==
  ASSUME NEW s \in Records, NEW j, NEW c, NEW d, LastCode(s, j, c), LastCode(s, j, d)
  PROVE  c = d
<1>1. PICK n \in DOMAIN s :
        s[n][1] = j /\ s[n][2] = c /\ \A m \in DOMAIN s : s[m][1] = j => m <= n
  BY DEF LastCode
<1>2. PICK k \in DOMAIN s :
        s[k][1] = j /\ s[k][2] = d /\ \A m \in DOMAIN s : s[m][1] = j => m <= k
  BY DEF LastCode
<1>3. n <= k /\ k <= n /\ n \in Nat /\ k \in Nat
  BY <1>1, <1>2 DEF Records
<1> QED BY <1>1, <1>2, <1>3

(* A code put at the end is the last of its pipeline, and nothing else     *)
(* changes.                                                                *)
AddsCode(s, i, c, t) ==
  /\ t \in Records /\ HasRun(t, i) /\ LastCode(t, i, c)
  /\ \A n \in DOMAIN t : t[n][1] = i \/ \E m \in DOMAIN s : t[n][1] = s[m][1]
  /\ \A j : j # i => (HasRun(t, j) <=> HasRun(s, j))
  /\ \A j, d : j # i => (LastCode(t, j, d) <=> LastCode(s, j, d))

LEMMA AddCode ==
  ASSUME NEW s \in Records, NEW i \in Nat, NEW c \in {0, 1}
  PROVE  AddsCode(s, i, c, Append(s, << i, c >>))
<1> DEFINE t == Append(s, << i, c >>)
<1>1. << i, c >> \in Nat \X {0, 1} /\ << i, c >>[1] = i /\ << i, c >>[2] = c
  OBVIOUS
<1>2. /\ t \in Records /\ Len(s) \in Nat /\ Len(t) = Len(s) + 1
      /\ DOMAIN s = 1..Len(s) /\ DOMAIN t = 1..(Len(s) + 1)
      /\ t[Len(s) + 1] = << i, c >>
      /\ \A n \in 1..Len(s) : t[n] = s[n]
  BY <1>1 DEF Records
<1> DEFINE last == Len(s) + 1
<1> HIDE DEF t
<1>3. last \in DOMAIN t /\ t[last][1] = i /\ t[last][2] = c /\ \A m \in DOMAIN t : m <= last
  BY <1>1, <1>2
<1>4. \A n \in DOMAIN t : n = last \/ (n \in DOMAIN s /\ t[n] = s[n])
  BY <1>2
<1>5. \A n \in DOMAIN s : n \in DOMAIN t /\ t[n] = s[n]
  BY <1>2
<1> HIDE DEF last
<1>6. HasRun(t, i) /\ LastCode(t, i, c)
  BY <1>3 DEF HasRun, LastCode
<1>7. \A n \in DOMAIN t : t[n][1] = i \/ \E m \in DOMAIN s : t[n][1] = s[m][1]
  BY <1>3, <1>4
<1>8. ASSUME NEW j, j # i PROVE HasRun(t, j) <=> HasRun(s, j)
  BY <1>3, <1>4, <1>5, <1>8 DEF HasRun
<1>9. ASSUME NEW j, j # i, NEW d PROVE LastCode(t, j, d) <=> LastCode(s, j, d)
  BY <1>3, <1>4, <1>5, <1>9 DEF LastCode
<1>10. AddsCode(s, i, c, t)
  BY <1>2, <1>6, <1>7, <1>8, <1>9 DEF AddsCode
<1> QED BY <1>10 DEF t

-----------------------------------------------------------------------------
(***************************************************************************)
(* What a step may do to an executor.                                      *)
(***************************************************************************)
LEMMA InitChain == Init => ChainInv
<1> SUFFICES ASSUME Init PROVE ChainInv
  OBVIOUS
<1>1. ASSUME NEW e \in Executors
      PROVE  /\ child[e] = NoChild /\ ran[e] = << >>
             /\ \E pc \in {"prompt", "none"} : proc[e] = At(pc, NewQuery)
  BY DEF Init
<1>2. ASSUME NEW e \in Executors PROVE Chained(e)
  <2>1. PICK pc \in {"prompt", "none"} : proc[e] = At(pc, NewQuery)
    BY <1>1
  <2>2. proc[e].pc \in {"prompt", "none"} /\ proc[e].i = 1 /\ proc[e].skip = FALSE
    BY <2>1 DEF At
  <2>3. child[e].state = "none"
    BY <1>1 DEF NoChild
  <2> QED BY <1>1, <2>2, <2>3 DEF Chained, NotStarted, Fresh, Progress, Decisions, SkipNext,
                                  Code, InQuery, InPipeline
<1> QED BY <1>2 DEF ChainInv, Init

(* Nothing happens to it. *)
LEMMA StaysChained ==
  ASSUME NEW e \in Executors, Chained(e),
         proc'[e] = proc[e], child'[e] = child[e], ran'[e] = ran[e]
  PROVE  Chained(e)'
  BY DEF Chained, NotStarted, Fresh, Progress, Decisions, SkipNext, Code, InQuery, InPipeline,
         Reached, Inhibited

(* It is in no query. *)
LEMMA IdleChained ==
  ASSUME NEW e \in Executors, proc'[e].pc \in {"prompt", "parse", "execute", "ended"},
         proc'[e].i = 1, ~proc'[e].skip, child'[e].state # "zombie"
  PROVE  Chained(e)'
  BY DEF Chained, NotStarted, Fresh, Progress, Decisions, SkipNext, Code, InQuery, InPipeline

(* It begins with a query. *)
LEMMA BeginChained ==
  ASSUME NEW e \in Executors, proc'[e].pc = "pipelines",
         proc'[e].i = 1, ~proc'[e].skip, ran'[e] = << >>, child'[e].state # "zombie"
  PROVE  Chained(e)'
<1>1. Reached(e)' = 0 /\ ~InPipeline(e)' /\ InQuery(e)'
  BY DEF Reached, InPipeline, InQuery
<1>2. \A j, c : ~LastCode(ran'[e], j, c)
  BY DEF LastCode
<1>3. \A j : ~Inhibited(e, j)'
  BY <1>2 DEF Inhibited
<1>4. ran'[e] \in Seq(Nat \X {0, 1})
  OBVIOUS
<1> QED BY <1>1, <1>3, <1>4 DEF Chained, NotStarted, Fresh, Progress, Decisions, SkipNext, Code

(* It goes on in its pipeline, and nothing is put on record. *)
LEMMA InsideChained ==
  ASSUME NEW e \in Executors, Chained(e), InPipeline(e), InPipeline(e)',
         proc'[e].i = proc[e].i, proc'[e].query = proc[e].query, ran'[e] = ran[e],
         Code(e)'
  PROVE  Chained(e)'
<1>1. Reached(e)' = Reached(e) /\ InQuery(e) /\ InQuery(e)'
  BY DEF Reached, InQuery
<1>2. \A j : Inhibited(e, j)' <=> Inhibited(e, j)
  BY DEF Inhibited
<1>3. NotStarted(e)' /\ Fresh(e)' /\ SkipNext(e)'
  BY <1>1 DEF NotStarted, Fresh, SkipNext, InPipeline
<1>4. Progress(e)'
  BY <1>1 DEF Chained, Progress
<1>5. Decisions(e)'
  BY <1>1, <1>2 DEF Chained, Decisions
<1> QED BY <1>3, <1>4, <1>5 DEF Chained

(* A code of the pipeline that is reached is put on record. *)
LEMMA RecordChained ==
  ASSUME NEW e \in Executors, Chained(e), InPipeline(e)', InQuery(e),
         NEW i, i = proc[e].i, NEW c \in {0, 1},
         proc'[e].i = i, proc'[e].query = proc[e].query, ran'[e] = Append(ran[e], << i, c >>),
         InPipeline(e) \/ (proc[e].pc = "pipelines" /\ ~proc[e].skip
                           /\ i \in DOMAIN proc[e].query.pipelines),
         Code(e)'
  PROVE  Chained(e)'
<1>1. InQuery(e)' /\ Reached(e)' = i
  BY DEF Reached, InQuery
<1>2. /\ i \in Nat \ {0} /\ Reached(e) \in {i, i - 1}
      /\ ran[e] \in Records /\ \A n \in DOMAIN ran[e] : ran[e][n][1] \in 1..Reached(e)
      /\ 1..Reached(e) \subseteq DOMAIN proc[e].query.pipelines
      /\ \A j \in 1..Reached(e) :
           /\ HasRun(ran[e], j) <=> ~Inhibited(e, j)
           /\ HasRun(ran[e], j) => \E d \in {0, 1} : LastCode(ran[e], j, d)
  BY DEF Chained, Progress, Decisions, Reached, Records
<1>3. /\ ran'[e] \in Records /\ HasRun(ran'[e], i) /\ LastCode(ran'[e], i, c)
      /\ \A n \in DOMAIN ran'[e] : ran'[e][n][1] = i \/ \E m \in DOMAIN ran[e] : ran'[e][n][1] = ran[e][m][1]
      /\ \A j : j # i => (HasRun(ran'[e], j) <=> HasRun(ran[e], j))
      /\ \A j, d : j # i => (LastCode(ran'[e], j, d) <=> LastCode(ran[e], j, d))
  <2>1. AddsCode(ran[e], i, c, ran'[e])
    BY <1>2, AddCode
  <2> QED BY <2>1 DEF AddsCode
<1>4. \A j \in 1..i : Inhibited(e, j)' <=> Inhibited(e, j)
  <2>1. \A j \in 1..i : j - 1 # i
    BY <1>2
  <2> QED BY <1>3, <2>1 DEF Inhibited
<1>5. NotStarted(e)' /\ Fresh(e)' /\ SkipNext(e)'
  BY <1>1 DEF NotStarted, Fresh, SkipNext, InPipeline
<1>6. 1..i \subseteq DOMAIN proc[e].query.pipelines
  BY <1>2 DEF Reached
<1>7. \A n \in DOMAIN ran'[e] : ran'[e][n][1] \in 1..i
  BY <1>2, <1>3
<1>8. Progress(e)'
  BY <1>1, <1>2, <1>3, <1>6, <1>7 DEF Progress, Records
<1>9. ASSUME NEW j \in 1..i
      PROVE  /\ HasRun(ran'[e], j) <=> ~Inhibited(e, j)
             /\ HasRun(ran'[e], j) => \E d \in {0, 1} : LastCode(ran'[e], j, d)
  <2>1. CASE j # i
    <3>1. j \in 1..Reached(e)
      BY <1>2, <1>9, <2>1
    <3> QED BY <1>2, <1>3, <2>1, <3>1
  <2>2. CASE j = i
    <3>1. ~Inhibited(e, i)
      <4>1. CASE InPipeline(e)
        <5>1. i \in 1..Reached(e) /\ proc[e].pc # "pipelines"
          BY <1>2, <4>1 DEF Reached, InPipeline
        <5>2. HasRun(ran[e], i)
          BY <4>1 DEF Chained, Progress
        <5> QED BY <1>2, <5>1, <5>2
      <4>2. CASE ~InPipeline(e)
        BY <4>2 DEF Chained, SkipNext
      <4> QED BY <4>1, <4>2
    <3> QED BY <1>3, <2>2, <3>1
  <2> QED BY <2>1, <2>2
<1>10. Decisions(e)'
  BY <1>1, <1>4, <1>9 DEF Decisions
<1> QED BY <1>5, <1>8, <1>10 DEF Chained

-----------------------------------------------------------------------------
(***************************************************************************)
(* The steps.                                                              *)
(***************************************************************************)

(* The shell's own steps. *)
LEMMA ShellChain ==
  ASSUME IInv, ChainInv, ShellStep \/ CannotStartJob
  PROVE  ChainInv'
<1>1. /\ 0 \in Executors /\ Typed(0) /\ Chained(0)
      /\ DOMAIN proc = Executors /\ DOMAIN ran = Executors
      /\ \A x \in Executors : Chained(x)
  BY ExecutorsAreNumbers DEF IInv, AllTyped, ChainInv
<1>2. ASSUME Chained(0)', DOMAIN ran' = Executors,
             \A x \in Executors \ {0} : proc'[x] = proc[x] /\ child'[x] = child[x] /\ ran'[x] = ran[x]
      PROVE  ChainInv'
  BY <1>1, <1>2, StaysChained DEF ChainInv
<1>3. CASE EndOfInput \/ Refuses \/ CannotStartJob
  <2>1. /\ proc' = [proc EXCEPT ![0] = At("ended", NewQuery)] /\ child' = child /\ ran' = ran
        /\ child[0].state = "none"
    BY <1>1, <1>3, NoCommand DEF EndOfInput, Refuses, CannotStartJob, Exits
  <2>2. proc'[0] = At("ended", NewQuery)
    BY <1>1, <2>1
  <2>3. proc'[0].pc = "ended" /\ proc'[0].i = 1 /\ ~proc'[0].skip
    BY <2>2 DEF At
  <2>4. Chained(0)'
    BY <1>1, <2>1, <2>3, IdleChained
  <2> QED BY <1>1, <1>2, <2>1, <2>4
<1>4. CASE ReadsLine
  <2>1. /\ proc' = [proc EXCEPT ![0].pc = "parse"] /\ child' = child /\ ran' = ran
        /\ child[0].state = "none" /\ proc[0].pc = "prompt"
    BY <1>1, <1>4, NoCommand DEF ReadsLine
  <2>2. proc'[0].pc = "parse" /\ proc'[0].i = proc[0].i /\ proc'[0].skip = proc[0].skip
    BY <1>1, <2>1 DEF Typed
  <2>3. proc[0].i = 1 /\ ~proc[0].skip
    BY <1>1, <2>1 DEF Chained, NotStarted, InQuery, InPipeline
  <2>4. Chained(0)'
    BY <1>1, <2>1, <2>2, <2>3, IdleChained
  <2> QED BY <1>1, <1>2, <2>1, <2>4
<1>5. CASE FormsQuery
  <2> DEFINE query == FormQuery(Parse(line).vec).query
  <2>1. /\ proc' = [proc EXCEPT ![0] = At("execute", query)] /\ child' = child /\ ran' = ran
        /\ child[0].state = "none"
    BY <1>1, <1>5, NoCommand DEF FormsQuery
  <2> HIDE DEF query
  <2>2. proc'[0] = At("execute", query)
    BY <1>1, <2>1
  <2>3. proc'[0].pc = "execute" /\ proc'[0].i = 1 /\ ~proc'[0].skip
    BY <2>2 DEF At
  <2>4. Chained(0)'
    BY <1>1, <2>1, <2>3, IdleChained
  <2> QED BY <1>1, <1>2, <2>1, <2>4
<1>6. CASE ExecutesHere
  <2>1. /\ proc' = [proc EXCEPT ![0].pc = "pipelines"] /\ child' = child
        /\ ran' = [ran EXCEPT ![0] = << >>]
        /\ child[0].state = "none" /\ proc[0].pc = "execute"
    BY <1>1, <1>6, NoCommand DEF ExecutesHere
  <2>2. /\ proc'[0].pc = "pipelines" /\ proc'[0].i = proc[0].i /\ proc'[0].skip = proc[0].skip
        /\ ran'[0] = << >>
    BY <1>1, <2>1 DEF Typed
  <2>3. proc[0].i = 1 /\ ~proc[0].skip
    BY <1>1, <2>1 DEF Chained, NotStarted, InQuery, InPipeline
  <2>4. Chained(0)'
    BY <1>1, <2>1, <2>2, <2>3, BeginChained
  <2> QED BY <1>1, <1>2, <2>1, <2>4
<1>7. CASE ExecutesInBackground
  <2> DEFINE here == At("prompt", NewQuery)
             job  == At("pipelines", proc[0].query)
  <2>1. PICK e \in Executors : /\ proc[e].pc = "none"
                               /\ proc' = [proc EXCEPT ![0] = here, ![e] = job]
    BY <1>7 DEF ExecutesInBackground
  <2>2. child' = child /\ ran' = ran /\ proc[0].pc = "execute"
    BY <1>7 DEF ExecutesInBackground
  <2>3. child[0].state = "none" /\ child[e].state = "none" /\ e # 0
    BY <1>1, <2>1, <2>2, NoCommand
  <2>4. here.pc = "prompt" /\ here.i = 1 /\ ~here.skip /\ job.pc = "pipelines" /\ job.i = 1 /\ ~job.skip
    BY DEF At
  <2> HIDE DEF here, job
  <2>5. proc'[0] = here /\ proc'[e] = job /\ \A x \in Executors \ {0, e} : proc'[x] = proc[x]
    BY <1>1, <2>1, <2>3
  <2>6. ran[e] = << >>
    BY <1>1, <2>1 DEF Chained, Fresh
  <2>7. Chained(0)'
    BY <1>1, <2>2, <2>3, <2>4, <2>5, IdleChained
  <2>8. Chained(e)'
    BY <2>2, <2>3, <2>4, <2>5, <2>6, BeginChained
  <2>9. ASSUME NEW x \in Executors \ {0, e} PROVE Chained(x)'
    BY <1>1, <2>2, <2>5, StaysChained
  <2> QED BY <1>1, <2>2, <2>7, <2>8, <2>9 DEF ChainInv
<1> QED BY <1>3, <1>4, <1>5, <1>6, <1>7 DEF ShellStep

(* From pipeline to pipeline. *)
LEMMA PipelineChain ==
  ASSUME NEW e \in Executors, IInv, Typed(e), Chained(e),
         DOMAIN proc = Executors, DOMAIN child = Executors, DOMAIN ran = Executors,
         SkipsPipeline(e) \/ StartsPipeline(e) \/ EndsPipeline(e)
  PROVE  Chained(e)'
<1> DEFINE i == proc[e].i
           P == proc[e].query.pipelines
<1>1. InQuery(e) /\ NotStarted(e) /\ Fresh(e) /\ Progress(e) /\ Decisions(e) /\ SkipNext(e) /\ Code(e)
  BY DEF SkipsPipeline, StartsPipeline, EndsPipeline, AtPipeline, InQuery, InPipeline, Chained
<1>2. /\ i \in Nat \ {0} /\ 1..Reached(e) \subseteq DOMAIN P /\ ran[e] \in Records
      /\ \A n \in DOMAIN ran[e] : ran[e][n][1] \in 1..Reached(e)
      /\ InPipeline(e) => HasRun(ran[e], i)
      /\ \A j \in 1..Reached(e) :
           /\ HasRun(ran[e], j) <=> ~Inhibited(e, j)
           /\ HasRun(ran[e], j) => \E c \in {0, 1} : LastCode(ran[e], j, c)
  BY <1>1 DEF Progress, Decisions, Records
(* It comes to the next pipeline, and knows whether to skip it. *)
<1>3. ASSUME proc'[e].pc = "pipelines", proc'[e].i = i + 1, proc'[e].query = proc[e].query,
             ran'[e] = ran[e], child'[e].state # "zombie",
             i \in DOMAIN P, \A j \in 1..i :
               /\ HasRun(ran[e], j) <=> ~Inhibited(e, j)
               /\ HasRun(ran[e], j) => \E c \in {0, 1} : LastCode(ran[e], j, c),
             proc'[e].skip <=> Inhibited(e, i + 1)
      PROVE  Chained(e)'
  <2>1. InQuery(e)' /\ ~InPipeline(e)' /\ Reached(e)' = i
    BY <1>2, <1>3 DEF InQuery, InPipeline, Reached
  <2>2. Reached(e) \in {i - 1, i}
    BY <1>2 DEF Reached
  <2>3. 1..i \subseteq DOMAIN P
    BY <1>2, <1>3, <2>2
  <2>4. \A n \in DOMAIN ran[e] : ran[e][n][1] \in 1..i
    BY <1>2, <2>2
  <2>5. \A j : Inhibited(e, j)' <=> Inhibited(e, j)
    BY <1>3 DEF Inhibited
  <2>6. Progress(e)'
    BY <1>2, <1>3, <2>1, <2>3, <2>4 DEF Progress, Records
  <2>7. Decisions(e)' /\ SkipNext(e)'
    BY <1>3, <2>1, <2>5 DEF Decisions, SkipNext
  <2>8. NotStarted(e)' /\ Fresh(e)' /\ Code(e)'
    BY <1>3, <2>1 DEF NotStarted, Fresh, Code
  <2> QED BY <2>6, <2>7, <2>8 DEF Chained
<1>4. \A c : ~(HasRun(ran[e], i)) => ~LastCode(ran[e], i, c)
  BY DEF HasRun, LastCode
<1>5. CASE SkipsPipeline(e)
  <2>1. /\ proc[e].pc = "pipelines" /\ i \in DOMAIN P /\ proc[e].skip
        /\ proc' = [proc EXCEPT ![e].skip = FALSE, ![e].i = @ + 1]
        /\ child' = child /\ ran' = ran
    BY <1>5 DEF SkipsPipeline, AtPipeline
  <2>2. /\ proc'[e].pc = "pipelines" /\ proc'[e].i = i + 1 /\ proc'[e].query = proc[e].query
        /\ ~proc'[e].skip
    BY <2>1 DEF Typed
  <2>3. child'[e].state # "zombie"
    BY <2>1 DEF Typed
  <2>4. Reached(e) = i - 1
    BY <2>1 DEF Reached, InPipeline
  <2>5. ~HasRun(ran[e], i) /\ Inhibited(e, i)
    BY <1>1, <1>2, <2>1, <2>4 DEF HasRun, SkipNext
  <2>6. ~Inhibited(e, i + 1)
    <3>1. \A c : ~LastCode(ran[e], i, c)
      BY <1>4, <2>5
    <3>2. PICK n : n = i + 1 /\ n - 1 = i
      BY <1>2
    <3>3. ~Inhibited(e, n)
      BY <3>1, <3>2 DEF Inhibited
    <3> QED BY <3>2, <3>3
  <2>7. \A j \in 1..i : /\ HasRun(ran[e], j) <=> ~Inhibited(e, j)
                        /\ HasRun(ran[e], j) => \E c \in {0, 1} : LastCode(ran[e], j, c)
    <3>1. \A j \in 1..i : j = i \/ j \in 1..(i - 1)
      BY <1>2
    <3> QED BY <1>2, <2>4, <2>5, <3>1
  <2> QED BY <1>3, <2>1, <2>2, <2>3, <2>6, <2>7
<1>6. CASE StartsPipeline(e)
  <2>1. /\ proc[e].pc = "pipelines" /\ i \in DOMAIN P /\ ~proc[e].skip
        /\ proc' = [proc EXCEPT ![e].pc = "commands", ![e].k = 1, ![e].status = 0, ![e].pipe_in = 0]
        /\ ran' = [ran EXCEPT ![e] = Append(@, << i, 0 >>)]
        /\ child' = child
    BY <1>6 DEF StartsPipeline, AtPipeline
  <2>2. /\ proc'[e].pc = "commands" /\ proc'[e].i = i /\ proc'[e].query = proc[e].query
        /\ proc'[e].status = 0 /\ ran'[e] = Append(ran[e], << i, 0 >>)
    BY <2>1 DEF Typed
  <2>3. LastCode(ran'[e], i, 0)
    <3>1. AddsCode(ran[e], i, 0, ran'[e])
      BY <1>2, <2>2, AddCode
    <3> QED BY <3>1 DEF AddsCode
  <2>4. ExitStatus(0) = 0 /\ child'[e].state # "zombie"
    BY <2>1 DEF ExitStatus, Killed, Typed
  <2>5. Code(e)'
    BY <2>2, <2>3, <2>4 DEF Code
  <2>6. InPipeline(e)'
    BY <2>2 DEF InPipeline
  <2> QED BY <1>1, <2>1, <2>2, <2>5, <2>6, RecordChained
<1>7. CASE EndsPipeline(e)
  <2> DEFINE code == ExitStatus(proc[e].status)
  <2>1. /\ proc[e].pc = "commands"
        /\ proc' = [proc EXCEPT ![e].pc = "pipelines", ![e].i = @ + 1, ![e].prev = code,
                                ![e].skip = SkipsNext(P[i], code)]
        /\ child' = child /\ ran' = ran
    BY <1>7 DEF EndsPipeline, PipelineOf
  <2>2. code \in {0, 1}
    BY ExitStatusIsCode DEF Typed
  <2>3. LastCode(ran[e], i, code)
    BY <1>1, <2>1 DEF Code
  <2> HIDE DEF code
  <2>4. /\ proc'[e].pc = "pipelines" /\ proc'[e].i = i + 1 /\ proc'[e].query = proc[e].query
        /\ proc'[e].skip = SkipsNext(P[i], code)
    BY <2>1 DEF Typed
  <2>5. child'[e].state # "zombie"
    BY <2>1 DEF Typed
  <2>6. Reached(e) = i
    BY <2>1 DEF Reached, InPipeline
  <2>7. i + 1 - 1 = i /\ i \in 1..i
    BY <1>2
  <2>8. Inhibited(e, i + 1) <=> SkipsNext(P[i], code)
    <3>1. \A c : LastCode(ran[e], i, c) => c = code
      BY <1>2, <2>3, OneLastCode
    <3> QED BY <2>2, <2>3, <2>7, <3>1 DEF Inhibited
  <2>9. i \in DOMAIN P
    BY <1>2, <2>6, <2>7
  <2> QED BY <1>2, <1>3, <2>1, <2>4, <2>5, <2>6, <2>8, <2>9
<1> QED BY <1>5, <1>6, <1>7

(* In a pipeline, and out of the query. *)
LEMMA CommandChain ==
  ASSUME NEW e \in Executors, IInv, Typed(e), Chained(e),
         DOMAIN proc = Executors, DOMAIN child = Executors, DOMAIN ran = Executors,
         \/ EndsQuery(e) \/ ChangesDirectory(e) \/ Quits(e) \/ CannotStart(e)
         \/ StartsPiped(e) \/ StartsLast(e) \/ Waits(e)
         \/ ChildWrites(e) \/ ChildReads(e) \/ ChildExits(e) \/ ChildIsKilled(e)
  PROVE  Chained(e)'
<1>1. Code(e)
  BY DEF Chained
<1>2. CASE EndsQuery(e) \/ Quits(e) \/ CannotStart(e)
  <2>1. PICK pc \in {"prompt", "ended"} : proc' = [proc EXCEPT ![e] = At(pc, NewQuery)]
    BY <1>2 DEF EndsQuery, Quits, CannotStart, Exits
  <2>2. child' = child /\ child[e].state = "none"
    BY <1>2, NoCommand DEF EndsQuery, Quits, CannotStart, IsProgram, AtCommand
  <2>3. proc'[e] = At(pc, NewQuery)
    BY <2>1
  <2>4. proc'[e].pc = pc /\ proc'[e].i = 1 /\ ~proc'[e].skip
    BY <2>3 DEF At
  <2> QED BY <2>2, <2>4, IdleChained
<1>3. CASE ChangesDirectory(e)
  <2>1. /\ proc[e].pc = "commands" /\ proc' = [proc EXCEPT ![e].k = @ + 1]
        /\ child' = child /\ ran' = ran
    BY <1>3 DEF ChangesDirectory, AtCommand
  <2>2. /\ proc'[e].pc = "commands" /\ proc'[e].i = proc[e].i /\ proc'[e].query = proc[e].query
        /\ proc'[e].status = proc[e].status
    BY <2>1 DEF Typed
  <2>3. Code(e)'
    BY <1>1, <2>1, <2>2 DEF Code
  <2> QED BY <2>1, <2>2, <2>3, InsideChained DEF InPipeline
<1>4. CASE StartsPiped(e) \/ StartsLast(e)
  <2>1. PICK out, p, held : Forks(e, out, p, held)
    BY <1>4 DEF StartsPiped, StartsLast
  <2>2. proc[e].pc = "commands" /\ ran' = ran
    BY <1>4 DEF StartsPiped, StartsLast, IsProgram, AtCommand
  <2>3. proc' = [proc EXCEPT ![e].pc = "wait"] /\ child'[e].state = "running"
    <3>1. PICK wants, reads :
            /\ child' = [child EXCEPT ![e] =
                 [NoChild EXCEPT !.state = "running", !.in = proc[e].pipe_in, !.out = out,
                                 !.pipe = p, !.ends = held, !.wants = wants, !.reads = reads]]
            /\ proc' = [proc EXCEPT ![e].pc = "wait"]
      BY <2>1 DEF Forks
    <3> QED BY <3>1 DEF NoChild
  <2>4. /\ proc'[e].pc = "wait" /\ proc'[e].i = proc[e].i /\ proc'[e].query = proc[e].query
    BY <2>3 DEF Typed
  <2>5. Code(e)'
    BY <2>3, <2>4 DEF Code
  <2> QED BY <2>2, <2>4, <2>5, InsideChained DEF InPipeline
<1>5. CASE Waits(e)
  <2>1. /\ proc[e].pc = "wait" /\ child[e].state = "zombie" /\ ran' = ran
        /\ child' = [child EXCEPT ![e] = NoChild]
        /\ \E in : proc' = [proc EXCEPT ![e].pc = "commands", ![e].k = @ + 1,
                                        ![e].status = child[e].status, ![e].pipe_in = in]
    BY <1>5 DEF Waits
  <2>2. /\ proc'[e].pc = "commands" /\ proc'[e].i = proc[e].i /\ proc'[e].query = proc[e].query
        /\ proc'[e].status = child[e].status
    BY <2>1 DEF Typed
  <2>3. child'[e].state = "none"
    BY <2>1 DEF NoChild
  <2>4. Code(e)'
    BY <1>1, <2>1, <2>2, <2>3 DEF Code
  <2> QED BY <2>1, <2>2, <2>4, InsideChained DEF InPipeline
<1>6. CASE ChildWrites(e) \/ ChildReads(e)
  <2>1. /\ child[e].state = "running" /\ proc' = proc /\ ran' = ran
        /\ child' = child \/ child' = [child EXCEPT ![e].wants = @ - 1]
    BY <1>6 DEF ChildWrites, ChildReads
  <2>2. child'[e].state = "running" /\ proc[e].pc = "wait"
    BY <2>1 DEF Typed
  <2>3. Code(e)'
    BY <2>1, <2>2 DEF Code
  <2> QED BY <2>1, <2>2, <2>3, InsideChained DEF InPipeline
<1>7. CASE ChildExits(e) \/ ChildIsKilled(e)
  <2>1. child[e].state = "running" /\ \E status \in Statuses : Ends(e, status)
    BY <1>7 DEF ChildExits, ChildIsKilled, Statuses
  <2>2. PICK status \in Statuses : Ends(e, status)
    BY <2>1
  <2> DEFINE c == ExitStatus(status)
  <2>3. /\ proc' = proc /\ ran' = [ran EXCEPT ![e] = Append(@, << proc[e].i, c >>)]
        /\ child' = [child EXCEPT ![e].state = "zombie", ![e].ends = {}, ![e].status = status]
    BY <2>2 DEF Ends, ExitStatus
  <2>4. c \in {0, 1} /\ proc[e].pc = "wait"
    BY <2>1, ExitStatusIsCode DEF Typed
  <2>5. child'[e].status = status /\ ran'[e] = Append(ran[e], << proc[e].i, c >>)
    BY <2>3 DEF Typed
  <2>6. LastCode(ran'[e], proc[e].i, c)
    <3>1. ran[e] \in Records /\ proc[e].i \in Nat
      BY <2>4 DEF Chained, Progress, InQuery, InPipeline, Records
    <3> HIDE DEF c
    <3>2. AddsCode(ran[e], proc[e].i, c, ran'[e])
      BY <2>4, <2>5, <3>1, AddCode
    <3> QED BY <3>2 DEF AddsCode
  <2>7. Code(e)'
    BY <2>3, <2>4, <2>5, <2>6 DEF Code
  <2> HIDE DEF c
  <2> QED BY <2>3, <2>4, <2>5, <2>7, RecordChained DEF InPipeline, InQuery
<1> QED BY <1>2, <1>3, <1>4, <1>5, <1>6, <1>7

(* Everybody else's way is untouched. *)
LEMMA ExecutorChain ==
  ASSUME IInv, ChainInv, NEW e \in Executors,
         ExecutorStep(e) \/ ChildStep(e) \/ CannotStart(e) \/ ChildIsKilled(e)
  PROVE  ChainInv'
<1>1. /\ Typed(e) /\ Chained(e) /\ \A x \in Executors : Chained(x)
      /\ DOMAIN proc = Executors /\ DOMAIN child = Executors /\ DOMAIN ran = Executors
  BY DEF IInv, AllTyped, ChainInv
<1>2. Chained(e)'
  BY <1>1, PipelineChain, CommandChain DEF ExecutorStep, ChildStep
<1>3. /\ DOMAIN ran' = Executors
      /\ \A x \in Executors \ {e} : proc'[x] = proc[x] /\ child'[x] = child[x] /\ ran'[x] = ran[x]
  <2>1. CASE SkipsPipeline(e) \/ StartsPipeline(e) \/ EndsPipeline(e) \/ ChangesDirectory(e) \/ Waits(e)
    BY <1>1, <2>1 DEF SkipsPipeline, StartsPipeline, EndsPipeline, ChangesDirectory, Waits
  <2>2. CASE EndsQuery(e) \/ Quits(e) \/ CannotStart(e)
    BY <1>1, <2>2 DEF EndsQuery, Quits, CannotStart, Exits
  <2>3. CASE StartsPiped(e) \/ StartsLast(e)
    BY <1>1, <2>3 DEF StartsPiped, StartsLast, Forks
  <2>4. CASE ChildStep(e) \/ ChildIsKilled(e)
    BY <1>1, <2>4 DEF ChildStep, ChildWrites, ChildReads, ChildExits, ChildIsKilled, Ends
  <2> QED BY <2>1, <2>2, <2>3, <2>4 DEF ExecutorStep
<1> QED BY <1>1, <1>2, <1>3, StaysChained DEF ChainInv

LEMMA NextChain == IInv /\ ChainInv /\ [Next]_vars => ChainInv'
<1> SUFFICES ASSUME IInv, ChainInv, [Next]_vars PROVE ChainInv'
  OBVIOUS
<1>1. CASE UNCHANGED vars
  BY <1>1, StaysChained DEF vars, ChainInv
<1> QED BY <1>1, ShellChain, ExecutorChain DEF Next

LEMMA ChainInvariance == Spec => []ChainInv
  BY InitChain, NextChain, Invariance, PTL DEF Spec

-----------------------------------------------------------------------------
(***************************************************************************)
(* From left to right.                                                     *)
(***************************************************************************)
LEMMA StatusIsLastCode ==
  ASSUME NEW e, ran[e] \in Records, NEW j, NEW c, LastCode(ran[e], j, c)
  PROVE  StatusOf(e, j) = c
<1> DEFINE Is(n) == /\ ran[e][n][1] = j
                    /\ \A m \in DOMAIN ran[e] : ran[e][m][1] = j => m <= n
           k == CHOOSE n \in DOMAIN ran[e] : Is(n)
<1>1. \E n \in DOMAIN ran[e] : Is(n)
  BY DEF LastCode
<1>2. k \in DOMAIN ran[e] /\ Is(k)
  BY <1>1
<1>3. StatusOf(e, j) = ran[e][k][2]
  BY DEF StatusOf
<1> HIDE DEF k
<1>4. LastCode(ran[e], j, ran[e][k][2])
  BY <1>2 DEF LastCode
<1> QED BY <1>3, <1>4, OneLastCode

(* The last pipeline in front of i that ran. *)
LEMMA LastThatRan ==
  ASSUME NEW e, NEW i \in Nat, NEW last \in 1..(i - 1), RanPipeline(e, last),
         \A m \in (last + 1)..(i - 1) : ~RanPipeline(e, m)
  PROVE  ToRun(e, i) <=> (proc[e].query.pipelines[i - 1].is_and <=> StatusOf(e, last) = 0)
<1> DEFINE Is(j) == RanPipeline(e, j) /\ \A m \in (j + 1)..(i - 1) : ~RanPipeline(e, m)
           k == CHOOSE j \in 1..(i - 1) : Is(j)
<1>1. k \in 1..(i - 1) /\ Is(k)
  OBVIOUS
<1>2. ToRun(e, i) <=> (proc[e].query.pipelines[i - 1].is_and <=> StatusOf(e, k) = 0)
  BY DEF ToRun
<1> HIDE DEF k
<1>3. ~(k < last) /\ ~(last < k)
  BY <1>1
<1>4. k = last
  BY <1>1, <1>3
<1> QED BY <1>2, <1>4

LEMMA SkipsByCombinator ==
  ASSUME NEW p, p.has_combinator_next, NEW c \in {0, 1}
  PROVE  SkipsNext(p, c) <=> ~(p.is_and <=> c = 0)
  BY DEF SkipsNext

LEMMA DecidedRun ==
  ASSUME NEW e \in Executors, Chained(e), OnlyAndOr(e), Alternates(e), NEW i \in Decided(e)
  PROVE  RanPipeline(e, i) <=> ToRun(e, i)
<1> DEFINE P == proc[e].query.pipelines
<1>1. InQuery(e) /\ i \in 2..Reached(e) /\ i \in Nat
  BY DEF Decided, Chained, NotStarted, InQuery, InPipeline, Reached
<1>2. /\ Reached(e) \in Nat /\ 1..Reached(e) \subseteq DOMAIN P /\ ran[e] \in Records
      /\ \A j \in 1..Reached(e) :
           /\ HasRun(ran[e], j) <=> ~Inhibited(e, j)
           /\ HasRun(ran[e], j) => \E c \in {0, 1} : LastCode(ran[e], j, c)
      /\ \A n \in DOMAIN ran[e] : ran[e][n][1] \in 1..Reached(e)
  BY <1>1 DEF Chained, Progress, Decisions, Records, Reached
<1>3. \A j : RanPipeline(e, j) <=> HasRun(ran[e], j)
  BY DEF RanPipeline, HasRun
(* A pipeline that ran, and is followed by another. *)
<1>4. ASSUME NEW j \in 1..(i - 1), HasRun(ran[e], j)
      PROVE  Inhibited(e, j + 1) <=> ~(P[j].is_and <=> StatusOf(e, j) = 0)
  <2>1. PICK c \in {0, 1} : LastCode(ran[e], j, c)
    BY <1>1, <1>2, <1>4
  <2>2. StatusOf(e, j) = c /\ \A d : LastCode(ran[e], j, d) => d = c
    BY <1>2, <2>1, StatusIsLastCode, OneLastCode
  <2>3. j \in DOMAIN P /\ j + 1 \in DOMAIN P
    BY <1>1, <1>2
  <2>4. P[j].has_combinator_next
    BY <2>3 DEF OnlyAndOr, Combinators
  <2>5. PICK n : n = j + 1 /\ n - 1 = j
    OBVIOUS
  <2>6. Inhibited(e, n) <=> SkipsNext(P[j], c)
    BY <2>1, <2>2, <2>5 DEF Inhibited
  <2> QED BY <2>2, <2>4, <2>5, <2>6, SkipsByCombinator
<1>5. PICK h : h = i - 1 /\ h + 1 = i /\ h \in 1..(i - 1) /\ h \in 1..Reached(e) /\ i \in 1..Reached(e)
  <2>1. /\ i - 1 + 1 = i /\ i - 1 \in 1..(i - 1) /\ i - 1 \in 1..Reached(e)
        /\ i \in 1..Reached(e)
    BY <1>1, <1>2
  <2> QED BY <2>1
<1>6. HasRun(ran[e], i) <=> ~Inhibited(e, i)
  BY <1>2, <1>5
<1>7. CASE HasRun(ran[e], h)
  <2>1. ToRun(e, i) <=> (P[h].is_and <=> StatusOf(e, h) = 0)
    <3>1. \A m \in (h + 1)..(i - 1) : FALSE
      BY <1>1, <1>5
    <3> QED BY <1>1, <1>3, <1>5, <1>7, <3>1, LastThatRan
  <2>2. Inhibited(e, i) <=> ~(P[h].is_and <=> StatusOf(e, h) = 0)
    BY <1>4, <1>5, <1>7
  <2> QED BY <1>3, <1>6, <2>1, <2>2
<1>8. CASE ~HasRun(ran[e], h)
  <2>1. Inhibited(e, h)
    BY <1>2, <1>5, <1>8
  <2>2. HasRun(ran[e], h - 1)
    BY <2>1 DEF Inhibited, LastCode, HasRun
  <2>3. PICK g : g = h - 1 /\ g + 1 = h /\ g \in 1..(i - 1) /\ g \in Nat
    <3>1. h - 1 \in 1..Reached(e)
      BY <1>2, <2>2 DEF HasRun
    <3> QED BY <1>1, <1>5, <3>1
  <2>4. ~(P[g].is_and <=> StatusOf(e, g) = 0)
    BY <1>4, <2>1, <2>2, <2>3
  <2>5. P[g].is_and <=> ~P[h].is_and
    <3>1. g \in DOMAIN P /\ h \in DOMAIN P /\ i \in DOMAIN P
      BY <1>1, <1>2, <1>5, <2>3
    <3> QED BY <1>5, <2>3, <3>1 DEF Alternates, Combinators
  <2>6. ToRun(e, i) <=> (P[h].is_and <=> StatusOf(e, g) = 0)
    <3>1. \A m \in (g + 1)..(i - 1) : m = h
      BY <1>1, <1>5, <2>3
    <3> QED BY <1>1, <1>3, <1>5, <1>8, <2>2, <2>3, <3>1, LastThatRan
  <2>7. ~Inhibited(e, i)
    BY <1>5, <1>8 DEF Inhibited, LastCode, HasRun
  <2> QED BY <1>3, <1>6, <2>4, <2>5, <2>6, <2>7
<1> QED BY <1>7, <1>8

(* Where && and || alternate, the pipelines that run are those that run    *)
(* when the query is evaluated from left to right, in the shell and in any *)
(* number of jobs, for queries of any length.                              *)
THEOREM AlternatingRunsLeftToRight == Spec => []LeftToRightWhenAlternating
<1>1. ChainInv => LeftToRightWhenAlternating
  BY DecidedRun DEF ChainInv, LeftToRightWhenAlternating, RunsLeftToRight
<1> QED BY <1>1, ChainInvariance, PTL

-----------------------------------------------------------------------------
(***************************************************************************)
(* Induction, and folds over sequences, as the text lemmas below need them. *)
(***************************************************************************)

(* The order of the natural numbers is well founded. *)
LEMMA LeastNumber ==
  ASSUME NEW T, T \subseteq Nat, T # {}
  PROVE  \E x \in T : \A y \in T : x <= y
<1>1. IsWellFoundedOn(OpToRel(<, Nat), Nat)
  BY NatLessThanWellFounded
<1>2. \E x \in T : \A y \in T : << y, x >> \notin OpToRel(<, Nat)
  BY <1>1, WFMin
<1>3. PICK x \in T : \A y \in T : << y, x >> \notin OpToRel(<, Nat)
  BY <1>2
<1>4. \A y \in T : ~(y < x)
  BY <1>3 DEF OpToRel
<1> QED BY <1>4

(* Induction up to a bound; T is the set of the numbers it holds of. *)
LEMMA UpTo ==
  ASSUME NEW N \in Nat, NEW T, 0 \in T,
         \A n \in 0..(N - 1) : n \in T => n + 1 \in T
  PROVE  0..N \subseteq T
<1> DEFINE Bad == {n \in 0..N : n \notin T}
<1>1. Bad = {}
  <2> SUFFICES ASSUME Bad # {} PROVE FALSE
    OBVIOUS
  <2>1. PICK k \in Bad : \A j \in Bad : k <= j
    <3>1. Bad \subseteq Nat
      OBVIOUS
    <3> HIDE DEF Bad
    <3> QED BY <3>1, LeastNumber
  <2>2. k \in 0..N /\ k \notin T /\ k # 0
    OBVIOUS
  <2>3. k - 1 \in 0..(N - 1) /\ (k - 1) + 1 = k
    BY <2>2
  <2>4. k - 1 \in T
    BY <2>1, <2>3
  <2> QED BY <2>2, <2>3, <2>4
<1> QED BY <1>1

(* The folds take the greatest place that is left. *)
LEMMA MaxIsGreatest ==
  ASSUME NEW N \in Nat, NEW s, s \subseteq 1..N, s # {}
  PROVE  Max(s) \in s /\ \A y \in s : y <= Max(s)
<1> DEFINE T == {N - y : y \in s}
<1>1. T \subseteq Nat /\ T # {}
  <2>1. \A y \in s : y \in 1..N
    OBVIOUS
  <2>2. \A y \in s : N - y \in Nat
    BY <2>1
  <2> QED BY <2>2
<1>2. PICK x \in T : \A y \in T : x <= y
  <2> HIDE DEF T
  <2> QED BY <1>1, LeastNumber
<1>3. PICK m \in s : x = N - m
  BY <1>2
<1>4. \A y \in s : m >= y
  <2> SUFFICES ASSUME NEW y \in s PROVE m >= y
    OBVIOUS
  <2>1. N - y \in T /\ y \in Int /\ m \in Int
    OBVIOUS
  <2>2. N - m <= N - y
    BY <1>2, <1>3, <2>1
  <2> QED BY <2>1, <2>2
<1>5. Max(s) \in s /\ \A y \in s : Max(s) >= y
  BY <1>3, <1>4 DEF Max
<1> QED BY <1>5

(* From the first k places that is place k. *)
LEMMA UpToMax ==
  ASSUME NEW k \in Nat \ {0}
  PROVE  Max(1..k) = k /\ (1..k) \ {k} = 1..(k - 1)
<1>1. 1..k \subseteq 1..k /\ 1..k # {}
  OBVIOUS
<1>2. Max(1..k) \in 1..k /\ \A y \in 1..k : y <= Max(1..k)
  BY <1>1, MaxIsGreatest
<1>3. k \in 1..k
  OBVIOUS
<1> QED BY <1>2, <1>3

(* h has the value of a fold for every set of the numbers to k. *)
FoldsUpTo(base, step, k, h) ==
  \A s \in SUBSET (1..k) :
    h[s] = IF s = {} THEN base ELSE step[<< h[s \ {Max(s)}], Max(s) >>]

(* A fold of a step that stays among some values is a function that exists. *)
LEMMA FoldExists ==
  ASSUME NEW V, NEW base \in V, NEW N \in Nat, NEW step \in [V \X (1..N) -> V]
  PROVE  \E h \in [SUBSET (1..N) -> V] : FoldsUpTo(base, step, N, h)
<1> DEFINE T == {k \in 0..N : \E h \in [SUBSET (1..k) -> V] : FoldsUpTo(base, step, k, h)}
<1>1. 0 \in T
  <2> DEFINE h == [s \in SUBSET (1..0) |-> base]
  <2>1. \A s \in SUBSET (1..0) : s = {}
    OBVIOUS
  <2>2. h \in [SUBSET (1..0) -> V] /\ FoldsUpTo(base, step, 0, h)
    BY <2>1 DEF FoldsUpTo
  <2>3. \E f \in [SUBSET (1..0) -> V] : FoldsUpTo(base, step, 0, f)
    <3> HIDE DEF h
    <3> QED BY <2>2
  <2>4. 0 \in 0..N
    OBVIOUS
  <2> QED BY <2>3, <2>4
<1>2. ASSUME NEW k \in 0..(N - 1), k \in T PROVE k + 1 \in T
  <2>1. PICK h \in [SUBSET (1..k) -> V] : FoldsUpTo(base, step, k, h)
    BY <1>2
  <2> HIDE DEF T
  <2>2. k \in Nat /\ k + 1 \in 1..N
    OBVIOUS
  <2> DEFINE g == [s \in SUBSET (1..(k + 1)) |->
                     IF k + 1 \in s THEN step[<< h[s \ {k + 1}], k + 1 >>] ELSE h[s]]
  <2>3. ASSUME NEW s \in SUBSET (1..(k + 1)), k + 1 \notin s
        PROVE  s \in SUBSET (1..k) /\ g[s] = h[s]
    BY <2>2, <2>3
  <2>4. ASSUME NEW s \in SUBSET (1..(k + 1)) PROVE s \ {k + 1} \in SUBSET (1..k)
    BY <2>2
  <2>5. g \in [SUBSET (1..(k + 1)) -> V]
    <3>1. ASSUME NEW s \in SUBSET (1..(k + 1)) PROVE g[s] \in V
      <4>1. h[s \ {k + 1}] \in V
        BY <2>4
      <4>2. step[<< h[s \ {k + 1}], k + 1 >>] \in V
        BY <4>1, <2>2
      <4> QED BY <2>3, <4>2
    <3> QED BY <3>1
  <2>6. ASSUME NEW s \in SUBSET (1..(k + 1))
        PROVE  g[s] = IF s = {} THEN base ELSE step[<< g[s \ {Max(s)}], Max(s) >>]
    <3>1. CASE k + 1 \in s
      <4>1. Max(s) \in s /\ \A y \in s : y <= Max(s)
        <5>1. k + 1 \in Nat /\ s \subseteq 1..(k + 1) /\ s # {}
          BY <3>1, <2>2
        <5> HIDE DEF g
        <5> QED BY <5>1, MaxIsGreatest
      <4>2. Max(s) = k + 1
        <5>1. Max(s) \in 1..(k + 1) /\ k + 1 <= Max(s)
          BY <4>1, <3>1
        <5> QED BY <5>1, <2>2
      <4>3. s \ {k + 1} \in SUBSET (1..(k + 1)) /\ k + 1 \notin s \ {k + 1}
        OBVIOUS
      <4>4. g[s \ {k + 1}] = h[s \ {k + 1}]
        BY <4>3, <2>3
      <4> QED BY <3>1, <4>2, <4>4
    <3>2. CASE k + 1 \notin s
      <4>1. s \in SUBSET (1..k) /\ g[s] = h[s]
        BY <2>3, <3>2
      <4>2. s \ {Max(s)} \in SUBSET (1..(k + 1)) /\ k + 1 \notin s \ {Max(s)}
        BY <3>2
      <4>3. g[s \ {Max(s)}] = h[s \ {Max(s)}]
        BY <4>2, <2>3
      <4> HIDE DEF g
      <4> QED BY <2>1, <4>1, <4>3 DEF FoldsUpTo
    <3> QED BY <3>1, <3>2
  <2> HIDE DEF g
  <2>7. FoldsUpTo(base, step, k + 1, g)
    BY <2>6 DEF FoldsUpTo
  <2>8. k + 1 \in 0..N
    BY <2>2
  <2> QED BY <2>5, <2>7, <2>8 DEF T
<1> HIDE DEF T
<1>3. 0..N \subseteq T
  BY <1>1, <1>2, UpTo
<1>4. N \in T
  BY <1>3
<1> QED BY <1>4 DEF T

(* Two walks that start at the same place and take the same steps. *)
StepsBy(g, base, step, V, N) ==
  g[0] = base /\ \A k \in 1..N : g[k - 1] \in V => g[k] = step[<< g[k - 1], k >>]
SameWalks(g, h, V, N) == \A k \in 0..N : g[k] = h[k] /\ g[k] \in V

LEMMA SameWalk ==
  ASSUME NEW V, NEW base \in V, NEW N \in Nat, NEW step \in [V \X (1..N) -> V],
         NEW g, NEW h, StepsBy(g, base, step, V, N), StepsBy(h, base, step, V, N)
  PROVE  SameWalks(g, h, V, N)
<1> DEFINE T == {k \in 0..N : g[k] = h[k] /\ g[k] \in V}
<1>1. 0 \in T
  BY DEF StepsBy
<1>2. ASSUME NEW k \in 0..(N - 1), k \in T PROVE k + 1 \in T
  <2>1. k + 1 \in 1..N /\ (k + 1) - 1 = k /\ k + 1 \in 0..N
    OBVIOUS
  <2>2. g[k] = h[k] /\ g[k] \in V
    BY <1>2
  <2>3. PICK n \in 1..N : n = k + 1
    BY <2>1
  <2>4. n \in 0..N /\ n - 1 = k
    BY <2>1, <2>3
  <2>5. g[n] = step[<< g[k], n >>] /\ h[n] = step[<< h[k], n >>]
    BY <2>2, <2>3, <2>4 DEF StepsBy
  <2>6. step[<< g[k], n >>] \in V
    BY <2>2, <2>3
  <2>7. n \in T
    BY <2>2, <2>4, <2>5, <2>6
  <2> QED BY <2>3, <2>7
<1> HIDE DEF T
<1>3. 0..N \subseteq T
  BY <1>1, <1>2, UpTo
<1> QED BY <1>3 DEF T, SameWalks

-----------------------------------------------------------------------------
(* Scan over a text. *)
ScanStart == [in |-> NoQuote, token |-> << >>, tokens |-> << >>, slash |-> FALSE, hidden |-> FALSE]
(* The characters and the names of the automaton's places. *)
Symbols == STRING \cup {Slash, NoQuote, "word", "comment"}
Text == Seq(Symbols)
ScanStates ==
  [in : Symbols, token : Text, tokens : Seq(Text), slash : BOOLEAN, hidden : BOOLEAN]
Scans(text) == FoldLeft(Scan, ScanStart, text)

(* A text is a sequence of characters. *)
LEMMA TextAppend ==
  /\ << >> \in Text
  /\ \A c \in Symbols : << c >> \in Text
  /\ \A t \in Text, c \in Symbols : Append(t, c) \in Text
  BY DEF Text

(* The automaton stays among its states. *)
LEMMA EndedTyped == ASSUME NEW a \in ScanStates PROVE Ended(a) \in ScanStates
<1>1. << >> \in Text /\ NoQuote \in Symbols
  BY TextAppend DEF Symbols
<1>2. Append(a.tokens, a.token) \in Seq(Text)
  BY AppendProperties DEF ScanStates
<1> QED BY <1>1, <1>2 DEF ScanStates, Ended

LEMMA ScanTyped ==
  ASSUME NEW a \in ScanStates, NEW c \in Symbols
  PROVE  Scan(a, c) \in ScanStates
<1>1. ASSUME NEW b \in ScanStates PROVE Ended(b) \in ScanStates
  BY EndedTyped
<1>2. ASSUME NEW b \in ScanStates, NEW what \in Symbols
      PROVE  [b EXCEPT !.in = what] \in ScanStates /\ Enters(b, what) \in ScanStates
  BY <1>1 DEF ScanStates, Enters
<1>3. ASSUME NEW b \in ScanStates
      PROVE  /\ [b EXCEPT !.slash = TRUE] \in ScanStates
             /\ [b EXCEPT !.token = << c >>] \in ScanStates
  <2>1. << c >> \in Text
    BY TextAppend
  <2> QED BY <2>1 DEF ScanStates
<1>4. [a EXCEPT !.token = Append(@, c), !.slash = FALSE, !.hidden = @ \/ c = "#"] \in ScanStates
  <2>1. Append(a.token, c) \in Text
    BY TextAppend DEF ScanStates
  <2>2. PICK b \in BOOLEAN : b = (a.hidden \/ c = "#")
    OBVIOUS
  <2>3. [a EXCEPT !.token = Append(@, c), !.slash = FALSE, !.hidden = b] \in ScanStates
    BY <2>1 DEF ScanStates
  <2> QED BY <2>2, <2>3
<1>5. {"word", "comment"} \subseteq Symbols
  BY DEF Symbols
<1> QED BY <1>1, <1>2, <1>3, <1>4, <1>5 DEF Scan

LEMMA ScanStartTyped == ScanStart \in ScanStates
<1>1. << >> \in Text /\ << >> \in Seq(Text) /\ NoQuote \in Symbols
  BY TextAppend DEF Symbols
<1> QED BY <1>1 DEF ScanStart, ScanStates

(* g goes through the states of the automaton. *)
ScanWalk(text, g) ==
  /\ g[0] = ScanStart
  /\ \A k \in 1..Len(text) : g[k] = Scan(g[k - 1], text[k])

(* Scanning a text goes through its characters one by one. *)
LEMMA ScanWalks ==
  ASSUME NEW text \in Text
  PROVE  \E g : ScanWalk(text, g) /\ Scans(text) = g[Len(text)]
<1> DEFINE N == Len(text)
           step == [x \in ScanStates \X (1..N) |-> Scan(x[1], text[x[2]])]
           Rec(f) == [s \in SUBSET DOMAIN text |->
                        IF s = {} THEN ScanStart
                        ELSE Scan(f[s \ {Max(s)}], text[Max(s)])]
           iter == CHOOSE f : f = Rec(f)
<1>1. Scans(text) = iter[DOMAIN text]
  BY DEF Scans, FoldLeft, MapThenFoldSet
<1>2. /\ N \in Nat /\ DOMAIN text = 1..N /\ \A i \in 1..N : text[i] \in Symbols
      /\ ScanStart \in ScanStates
      /\ step \in [ScanStates \X (1..N) -> ScanStates]
  <2>1. N \in Nat /\ DOMAIN text = 1..N /\ \A i \in 1..N : text[i] \in Symbols
    BY DEF Text
  <2>2. ASSUME NEW x \in ScanStates \X (1..N) PROVE Scan(x[1], text[x[2]]) \in ScanStates
    <3>1. x[1] \in ScanStates /\ text[x[2]] \in Symbols
      BY <2>1
    <3> HIDE DEF N, step
    <3> QED BY <3>1, ScanTyped
  <2>3. ScanStart \in ScanStates
    BY ScanStartTyped
  <2>4. step \in [ScanStates \X (1..N) -> ScanStates]
    <3> HIDE DEF N
    <3> QED BY <2>2
  <2> HIDE DEF N, step
  <2> QED BY <2>1, <2>3, <2>4
<1>3. PICK h \in [SUBSET (1..N) -> ScanStates] : FoldsUpTo(ScanStart, step, N, h)
  <2> HIDE DEF N, step
  <2> QED BY <1>2, FoldExists
<1>4. ASSUME NEW s \in SUBSET (1..N), s # {}
      PROVE  step[<< h[s \ {Max(s)}], Max(s) >>] = Scan(h[s \ {Max(s)}], text[Max(s)])
  <2>1. Max(s) \in 1..N
    <3> HIDE DEF N
    <3> QED BY <1>2, <1>4, MaxIsGreatest
  <2> QED BY <2>1
<1>5. h = Rec(h)
  <2>1. ASSUME NEW s \in SUBSET (1..N)
        PROVE  h[s] = IF s = {} THEN ScanStart ELSE Scan(h[s \ {Max(s)}], text[Max(s)])
    <3> HIDE DEF N, step
    <3> QED BY <1>3, <1>4 DEF FoldsUpTo
  <2> HIDE DEF N, step
  <2> QED BY <1>2, <2>1
<1>6. iter = Rec(iter)
  <2>1. \E f : f = Rec(f)
    BY <1>5
  <2> HIDE DEF Rec
  <2> QED BY <2>1
<1> DEFINE g == [k \in 0..N |-> iter[1..k]]
<1>7. g[0] = ScanStart
  <2>1. iter[{}] = ScanStart
    <3> HIDE DEF iter
    <3> QED BY <1>6
  <2>2. 1..0 = {}
    OBVIOUS
  <2> HIDE DEF iter
  <2> QED BY <1>2, <2>1, <2>2
<1>8. ASSUME NEW k \in 1..N PROVE g[k] = Scan(g[k - 1], text[k])
  <2> HIDE DEF iter
  <2>1. Max(1..k) = k /\ (1..k) \ {k} = 1..(k - 1)
    BY UpToMax
  <2>2. 1..k \in SUBSET DOMAIN text /\ 1..k # {}
    <3>1. N \in Nat /\ DOMAIN text = 1..N
      BY <1>2
    <3> HIDE DEF N, step, Rec, g
    <3>2. k \in 1..k /\ \A j \in 1..k : j \in 1..N
      BY <3>1
    <3> QED BY <3>1, <3>2
  <2>3. iter[1..k] = Scan(iter[1..(k - 1)], text[k])
    BY <1>6, <2>1, <2>2
  <2>4. k \in 0..N /\ k - 1 \in 0..N
    BY <1>2
  <2> QED BY <2>3, <2>4
<1>9. g[N] = Scans(text)
  <2> HIDE DEF iter
  <2> QED BY <1>1, <1>2
<1> HIDE DEF g
<1> QED BY <1>7, <1>8, <1>9 DEF ScanWalk

(* Scanning a text with a character more is one step more. *)
LEMMA ScanFolds ==
  ASSUME NEW text \in Text, NEW c \in Symbols
  PROVE  /\ Scans(<< >>) = ScanStart
         /\ Scans(text) \in ScanStates
         /\ Scans(Append(text, c)) = Scan(Scans(text), c)
<1>1. Scans(<< >>) = ScanStart
  <2>1. << >> \in Text /\ Len(<< >>) = 0
    BY TextAppend
  <2> QED BY <2>1, ScanWalks DEF ScanWalk
<1> DEFINE N == Len(text)
           more == Append(text, c)
           step == [x \in ScanStates \X (1..N) |-> Scan(x[1], text[x[2]])]
<1>2. /\ N \in Nat /\ more \in Text /\ Len(more) = N + 1 /\ more[N + 1] = c
      /\ \A k \in 1..N : more[k] = text[k] /\ text[k] \in Symbols
      /\ ScanStart \in ScanStates
  BY ScanStartTyped DEF Text
<1>3. PICK g : ScanWalk(text, g) /\ Scans(text) = g[N]
  BY ScanWalks
<1>4. PICK h : ScanWalk(more, h) /\ Scans(more) = h[N + 1]
  <2> HIDE DEF more, N
  <2> QED BY <1>2, ScanWalks
<1>5. step \in [ScanStates \X (1..N) -> ScanStates]
  <2>1. ASSUME NEW x \in ScanStates \X (1..N) PROVE Scan(x[1], text[x[2]]) \in ScanStates
    <3>1. x[1] \in ScanStates /\ text[x[2]] \in Symbols
      BY <1>2
    <3> HIDE DEF N, step
    <3> QED BY <3>1, ScanTyped
  <2> HIDE DEF N
  <2> QED BY <2>1
<1>6. \A k \in 0..N : h[k] = g[k] /\ h[k] \in ScanStates
  <2>1. ASSUME NEW k \in 1..N
        PROVE  /\ g[k - 1] \in ScanStates => g[k] = step[<< g[k - 1], k >>]
               /\ h[k - 1] \in ScanStates => h[k] = step[<< h[k - 1], k >>]
    <3>1. g[k] = Scan(g[k - 1], text[k]) /\ h[k] = Scan(h[k - 1], text[k])
      <4>1. k \in 1..Len(more) /\ more[k] = text[k]
        BY <1>2
      <4> HIDE DEF more
      <4> QED BY <1>3, <1>4, <4>1 DEF ScanWalk
    <3>2. ASSUME NEW v \in ScanStates PROVE step[<< v, k >>] = Scan(v, text[k])
      OBVIOUS
    <3> HIDE DEF N, step
    <3> QED BY <3>1, <3>2
  <2>2. g[0] = ScanStart /\ h[0] = ScanStart
    <3> HIDE DEF more
    <3> QED BY <1>3, <1>4 DEF ScanWalk
  <2> HIDE DEF N, more, step
  <2>3. StepsBy(g, ScanStart, step, ScanStates, N) /\ StepsBy(h, ScanStart, step, ScanStates, N)
    BY <2>1, <2>2 DEF StepsBy
  <2>4. SameWalks(g, h, ScanStates, N)
    BY <1>2, <1>5, <2>3, SameWalk
  <2> QED BY <2>4 DEF SameWalks
<1>7. h[N + 1] = Scan(h[N], c)
  <2>1. N + 1 \in 1..Len(more) /\ (N + 1) - 1 = N
    BY <1>2
  <2> HIDE DEF N, more
  <2> QED BY <1>2, <1>4, <2>1 DEF ScanWalk
<1>8. N \in 0..N
  BY <1>2
<1> HIDE DEF N
<1> QED BY <1>1, <1>3, <1>4, <1>6, <1>7, <1>8

-----------------------------------------------------------------------------
(***************************************************************************)
(* WithoutSlashes over a text.                                             *)
(***************************************************************************)

UnslashStart == [word |-> << >>, slash |-> FALSE]
UnslashStates == [word : Text, slash : BOOLEAN]
Unslash(t, c) ==
  IF c # Slash \/ t.slash THEN [word |-> Append(t.word, c), slash |-> FALSE]
  ELSE [t EXCEPT !.slash = TRUE]
Unslashes(text) == FoldLeft(Unslash, UnslashStart, text)

(* The loop that deletes backslashes, with a name for its step. *)
LEMMA WordOfUnslashes == ASSUME NEW text PROVE WithoutSlashes(text) = Unslashes(text).word
  BY DEF WithoutSlashes, Unslashes, UnslashStart, FoldLeft, MapThenFoldSet, Unslash

LEMMA UnslashTyped ==
  ASSUME NEW t \in UnslashStates, NEW c \in Symbols
  PROVE  Unslash(t, c) \in UnslashStates
<1>1. Append(t.word, c) \in Text
  BY TextAppend DEF UnslashStates
<1> QED BY <1>1 DEF UnslashStates, Unslash

LEMMA UnslashStartTyped == UnslashStart \in UnslashStates
  BY TextAppend DEF UnslashStart, UnslashStates

(* g goes through the states of the automaton. *)
UnslashWalk(text, g) ==
  /\ g[0] = UnslashStart
  /\ \A k \in 1..Len(text) : g[k] = Unslash(g[k - 1], text[k])

(* Deleting backslashes goes through the characters one by one. *)
LEMMA UnslashWalks ==
  ASSUME NEW text \in Text
  PROVE  \E g : UnslashWalk(text, g) /\ Unslashes(text) = g[Len(text)]
<1> DEFINE N == Len(text)
           step == [x \in UnslashStates \X (1..N) |-> Unslash(x[1], text[x[2]])]
           Rec(f) == [s \in SUBSET DOMAIN text |->
                        IF s = {} THEN UnslashStart
                        ELSE Unslash(f[s \ {Max(s)}], text[Max(s)])]
           iter == CHOOSE f : f = Rec(f)
<1>1. Unslashes(text) = iter[DOMAIN text]
  BY DEF Unslashes, FoldLeft, MapThenFoldSet
<1>2. /\ N \in Nat /\ DOMAIN text = 1..N /\ \A i \in 1..N : text[i] \in Symbols
      /\ UnslashStart \in UnslashStates
      /\ step \in [UnslashStates \X (1..N) -> UnslashStates]
  <2>1. N \in Nat /\ DOMAIN text = 1..N /\ \A i \in 1..N : text[i] \in Symbols
    BY DEF Text
  <2>2. ASSUME NEW x \in UnslashStates \X (1..N) PROVE Unslash(x[1], text[x[2]]) \in UnslashStates
    <3>1. x[1] \in UnslashStates /\ text[x[2]] \in Symbols
      BY <2>1
    <3> HIDE DEF N, step
    <3> QED BY <3>1, UnslashTyped
  <2>3. UnslashStart \in UnslashStates
    BY UnslashStartTyped
  <2>4. step \in [UnslashStates \X (1..N) -> UnslashStates]
    <3> HIDE DEF N
    <3> QED BY <2>2
  <2> HIDE DEF N, step
  <2> QED BY <2>1, <2>3, <2>4
<1>3. PICK h \in [SUBSET (1..N) -> UnslashStates] : FoldsUpTo(UnslashStart, step, N, h)
  <2> HIDE DEF N, step
  <2> QED BY <1>2, FoldExists
<1>4. ASSUME NEW s \in SUBSET (1..N), s # {}
      PROVE  step[<< h[s \ {Max(s)}], Max(s) >>] = Unslash(h[s \ {Max(s)}], text[Max(s)])
  <2>1. Max(s) \in 1..N
    <3> HIDE DEF N
    <3> QED BY <1>2, <1>4, MaxIsGreatest
  <2> QED BY <2>1
<1>5. h = Rec(h)
  <2>1. ASSUME NEW s \in SUBSET (1..N)
        PROVE  h[s] = IF s = {} THEN UnslashStart ELSE Unslash(h[s \ {Max(s)}], text[Max(s)])
    <3> HIDE DEF N, step
    <3> QED BY <1>3, <1>4 DEF FoldsUpTo
  <2> HIDE DEF N, step
  <2> QED BY <1>2, <2>1
<1>6. iter = Rec(iter)
  <2>1. \E f : f = Rec(f)
    BY <1>5
  <2> HIDE DEF Rec
  <2> QED BY <2>1
<1> DEFINE g == [k \in 0..N |-> iter[1..k]]
<1>7. g[0] = UnslashStart
  <2>1. iter[{}] = UnslashStart
    <3> HIDE DEF iter
    <3> QED BY <1>6
  <2>2. 1..0 = {}
    OBVIOUS
  <2> HIDE DEF iter
  <2> QED BY <1>2, <2>1, <2>2
<1>8. ASSUME NEW k \in 1..N PROVE g[k] = Unslash(g[k - 1], text[k])
  <2> HIDE DEF iter
  <2>1. Max(1..k) = k /\ (1..k) \ {k} = 1..(k - 1)
    BY UpToMax
  <2>2. 1..k \in SUBSET DOMAIN text /\ 1..k # {}
    <3>1. N \in Nat /\ DOMAIN text = 1..N
      BY <1>2
    <3> HIDE DEF N, step, Rec, g
    <3>2. k \in 1..k /\ \A j \in 1..k : j \in 1..N
      BY <3>1
    <3> QED BY <3>1, <3>2
  <2>3. iter[1..k] = Unslash(iter[1..(k - 1)], text[k])
    BY <1>6, <2>1, <2>2
  <2>4. k \in 0..N /\ k - 1 \in 0..N
    BY <1>2
  <2> QED BY <2>3, <2>4
<1>9. g[N] = Unslashes(text)
  <2> HIDE DEF iter
  <2> QED BY <1>1, <1>2
<1> HIDE DEF g
<1> QED BY <1>7, <1>8, <1>9 DEF UnslashWalk

(* A character more is one step more. *)
LEMMA UnslashFolds ==
  ASSUME NEW text \in Text, NEW c \in Symbols
  PROVE  /\ Unslashes(<< >>) = UnslashStart
         /\ Unslashes(text) \in UnslashStates
         /\ Unslashes(Append(text, c)) = Unslash(Unslashes(text), c)
<1>1. Unslashes(<< >>) = UnslashStart
  <2>1. << >> \in Text /\ Len(<< >>) = 0
    BY TextAppend
  <2> QED BY <2>1, UnslashWalks DEF UnslashWalk
<1> DEFINE N == Len(text)
           more == Append(text, c)
           step == [x \in UnslashStates \X (1..N) |-> Unslash(x[1], text[x[2]])]
<1>2. /\ N \in Nat /\ more \in Text /\ Len(more) = N + 1 /\ more[N + 1] = c
      /\ \A k \in 1..N : more[k] = text[k] /\ text[k] \in Symbols
      /\ UnslashStart \in UnslashStates
  BY UnslashStartTyped DEF Text
<1>3. PICK g : UnslashWalk(text, g) /\ Unslashes(text) = g[N]
  BY UnslashWalks
<1>4. PICK h : UnslashWalk(more, h) /\ Unslashes(more) = h[N + 1]
  <2> HIDE DEF more, N
  <2> QED BY <1>2, UnslashWalks
<1>5. step \in [UnslashStates \X (1..N) -> UnslashStates]
  <2>1. ASSUME NEW x \in UnslashStates \X (1..N) PROVE Unslash(x[1], text[x[2]]) \in UnslashStates
    <3>1. x[1] \in UnslashStates /\ text[x[2]] \in Symbols
      BY <1>2
    <3> HIDE DEF N, step
    <3> QED BY <3>1, UnslashTyped
  <2> HIDE DEF N
  <2> QED BY <2>1
<1>6. \A k \in 0..N : h[k] = g[k] /\ h[k] \in UnslashStates
  <2>1. ASSUME NEW k \in 1..N
        PROVE  /\ g[k - 1] \in UnslashStates => g[k] = step[<< g[k - 1], k >>]
               /\ h[k - 1] \in UnslashStates => h[k] = step[<< h[k - 1], k >>]
    <3>1. g[k] = Unslash(g[k - 1], text[k]) /\ h[k] = Unslash(h[k - 1], text[k])
      <4>1. k \in 1..Len(more) /\ more[k] = text[k]
        BY <1>2
      <4> HIDE DEF more
      <4> QED BY <1>3, <1>4, <4>1 DEF UnslashWalk
    <3>2. ASSUME NEW v \in UnslashStates PROVE step[<< v, k >>] = Unslash(v, text[k])
      OBVIOUS
    <3> HIDE DEF N, step
    <3> QED BY <3>1, <3>2
  <2>2. g[0] = UnslashStart /\ h[0] = UnslashStart
    <3> HIDE DEF more
    <3> QED BY <1>3, <1>4 DEF UnslashWalk
  <2> HIDE DEF N, more, step
  <2>3. StepsBy(g, UnslashStart, step, UnslashStates, N) /\ StepsBy(h, UnslashStart, step, UnslashStates, N)
    BY <2>1, <2>2 DEF StepsBy
  <2>4. SameWalks(g, h, UnslashStates, N)
    BY <1>2, <1>5, <2>3, SameWalk
  <2> QED BY <2>4 DEF SameWalks
<1>7. h[N + 1] = Unslash(h[N], c)
  <2>1. N + 1 \in 1..Len(more) /\ (N + 1) - 1 = N
    BY <1>2
  <2> HIDE DEF N, more
  <2> QED BY <1>2, <1>4, <2>1 DEF UnslashWalk
<1>8. N \in 0..N
  BY <1>2
<1> HIDE DEF N
<1> QED BY <1>1, <1>3, <1>4, <1>6, <1>7, <1>8

(* The automaton after the first k characters of a text. *)
After(text, k) == Scans(SubSeq(text, 1, k))

(* From a prefix of a text to the next is a step of the automaton. *)
LEMMA AfterSteps ==
  ASSUME NEW text \in Text
  PROVE  /\ After(text, 0) = ScanStart
         /\ After(text, Len(text)) = Scans(text)
         /\ \A k \in 0..Len(text) : After(text, k) \in ScanStates
         /\ \A k \in 1..Len(text) : After(text, k) = Scan(After(text, k - 1), text[k])
<1>1. Len(text) \in Nat /\ \A k \in 1..Len(text) : text[k] \in Symbols
  BY DEF Text
<1>2. SubSeq(text, 1, 0) = << >> /\ SubSeq(text, 1, Len(text)) = text
  BY SubSeqEmpty, SubSeqFull DEF Text
<1>3. ASSUME NEW k \in 0..Len(text) PROVE SubSeq(text, 1, k) \in Text
  BY <1>1 DEF Text
<1>4. ASSUME NEW k \in 1..Len(text)
      PROVE  SubSeq(text, 1, k) = Append(SubSeq(text, 1, k - 1), text[k])
  <2>1. SubSeq(text, 1, k - 1) \in Text /\ SubSeq(text, 1, k) \in Text
    BY <1>1, <1>3
  <2>2. /\ Len(SubSeq(text, 1, k)) = k /\ Len(SubSeq(text, 1, k - 1)) = k - 1
        /\ \A j \in 1..k : SubSeq(text, 1, k)[j] = text[j]
        /\ \A j \in 1..(k - 1) : SubSeq(text, 1, k - 1)[j] = text[j]
    BY <1>1 DEF Text
  <2> QED BY <1>1, <2>1, <2>2 DEF Text
<1>5. ASSUME NEW k \in 1..Len(text) PROVE After(text, k) = Scan(After(text, k - 1), text[k])
  <2>1. SubSeq(text, 1, k - 1) \in Text
    BY <1>1, <1>3
  <2> QED BY <1>1, <1>4, <2>1, ScanFolds DEF After
<1>6. ASSUME NEW k \in 0..Len(text) PROVE After(text, k) \in ScanStates
  <2>1. NoQuote \in Symbols
    BY DEF Symbols
  <2> QED BY <1>3, <2>1, ScanFolds DEF After
<1>7. After(text, 0) = ScanStart
  <2>1. NoQuote \in Symbols
    BY DEF Symbols
  <2> QED BY <1>2, <2>1, ScanFolds DEF After
<1> QED BY <1>2, <1>5, <1>6, <1>7 DEF After

(* What is hidden stays hidden, and a comment ends with the line. *)
LEMMA ScanKeeps ==
  ASSUME NEW a \in ScanStates, NEW c \in Symbols
  PROVE  /\ a.hidden => Scan(a, c).hidden
         /\ a.in = "comment" => Scan(a, c) = a
         /\ c # "#" /\ a.in # "comment" => Scan(a, c).in # "comment"
  BY DEF Scan, ScanStates, Enters, Ended, Quotes, Operators, NoQuote

(* So it is over the rest of a text. *)
LEMMA AfterKeeps ==
  ASSUME NEW text \in Text, NEW k \in 0..Len(text)
  PROVE  /\ After(text, k).hidden => Scans(text).hidden
         /\ After(text, k).in = "comment" => Scans(text) = After(text, k)
<1> DEFINE N == Len(text) - k
           T == {n \in 0..N : /\ After(text, k).hidden => After(text, k + n).hidden
                              /\ After(text, k).in = "comment" => After(text, k + n) = After(text, k)}
<1>1. Len(text) \in Nat /\ N \in Nat /\ k + N = Len(text) /\ \A n \in 1..Len(text) : text[n] \in Symbols
  BY DEF Text
<1>2. 0 \in T
  BY <1>1
<1>3. ASSUME NEW n \in 0..(N - 1), n \in T PROVE n + 1 \in T
  <2>1. PICK m \in 1..Len(text) : m = k + (n + 1)
    BY <1>1
  <2>2. m - 1 = k + n /\ m - 1 \in 0..Len(text) /\ n + 1 \in 0..N
    BY <1>1, <2>1
  <2>3. After(text, m) = Scan(After(text, k + n), text[m]) /\ After(text, k + n) \in ScanStates
    BY <2>2, AfterSteps
  <2>4. /\ After(text, k + n).hidden => After(text, m).hidden
        /\ After(text, k + n).in = "comment" => After(text, m) = After(text, k + n)
    BY <1>1, <2>3, ScanKeeps
  <2>5. /\ After(text, k).hidden => After(text, k + n).hidden
        /\ After(text, k).in = "comment" => After(text, k + n) = After(text, k)
    BY <1>3
  <2>6. /\ After(text, k).hidden => After(text, m).hidden
        /\ After(text, k).in = "comment" => After(text, m) = After(text, k)
    BY <2>4, <2>5
  <2> HIDE DEF N
  <2> QED BY <2>1, <2>2, <2>6
<1>4. N \in T
  <2>1. 0..N \subseteq T
    <3> HIDE DEF T, N
    <3> QED BY <1>1, <1>2, <1>3, UpTo
  <2> HIDE DEF T
  <2> QED BY <1>1, <2>1
<1> QED BY <1>1, <1>4, AfterSteps

-----------------------------------------------------------------------------
(***************************************************************************)
(* get_line, and the quotes it has seen closed.                            *)
(***************************************************************************)

ReadStart ==
  [line |-> << >>, rest |-> << >>, open |-> NoQuote, slash |-> FALSE, done |-> FALSE]
ReadStates ==
  [line : Text, rest : Text, open : Symbols, slash : BOOLEAN, done : BOOLEAN]

(* get_line keeps a line and a rest. *)
LEMMA ReadSymbolTyped ==
  ASSUME NEW g \in ReadStates, NEW c \in Symbols
  PROVE  ReadSymbol(g, c) \in ReadStates
<1>1. /\ Append(g.rest, c) \in Text /\ Append(g.line, c) \in Text
      /\ g.line \o << Slash, c >> \in Text
  <2>1. Slash \in Symbols
    BY DEF Symbols
  <2> QED BY <2>1 DEF ReadStates, Text
<1>2. QuoteAfter(g.open, c) \in Symbols
  BY DEF QuoteAfter, ReadStates, Symbols
<1> QED BY <1>1, <1>2 DEF ReadSymbol, Escaped, ReadStates

LEMMA ReadStartTyped == ReadStart \in ReadStates
<1>1. << >> \in Text /\ NoQuote \in Symbols
  BY TextAppend DEF Symbols
<1> QED BY <1>1 DEF ReadStart, ReadStates

(* g goes through the states of get_line. *)
ReadSymbolWalk(text, g) ==
  /\ g[0] = ReadStart
  /\ \A k \in 1..Len(text) : g[k] = ReadSymbol(g[k - 1], text[k])

(* get_line goes through the input one character at a time. *)
LEMMA ReadSymbolWalks ==
  ASSUME NEW text \in Text
  PROVE  \E g : ReadSymbolWalk(text, g) /\ GetLine(text) = g[Len(text)]
<1> DEFINE N == Len(text)
           step == [x \in ReadStates \X (1..N) |-> ReadSymbol(x[1], text[x[2]])]
           Rec(f) == [s \in SUBSET DOMAIN text |->
                        IF s = {} THEN ReadStart
                        ELSE ReadSymbol(f[s \ {Max(s)}], text[Max(s)])]
           iter == CHOOSE f : f = Rec(f)
<1>1. GetLine(text) = iter[DOMAIN text]
  BY DEF GetLine, ReadStart, FoldLeft, MapThenFoldSet
<1>2. /\ N \in Nat /\ DOMAIN text = 1..N /\ \A i \in 1..N : text[i] \in Symbols
      /\ ReadStart \in ReadStates
      /\ step \in [ReadStates \X (1..N) -> ReadStates]
  <2>1. N \in Nat /\ DOMAIN text = 1..N /\ \A i \in 1..N : text[i] \in Symbols
    BY DEF Text
  <2>2. ASSUME NEW x \in ReadStates \X (1..N) PROVE ReadSymbol(x[1], text[x[2]]) \in ReadStates
    <3>1. x[1] \in ReadStates /\ text[x[2]] \in Symbols
      BY <2>1
    <3> HIDE DEF N, step
    <3> QED BY <3>1, ReadSymbolTyped
  <2>3. ReadStart \in ReadStates
    BY ReadStartTyped
  <2>4. step \in [ReadStates \X (1..N) -> ReadStates]
    <3> HIDE DEF N
    <3> QED BY <2>2
  <2> HIDE DEF N, step
  <2> QED BY <2>1, <2>3, <2>4
<1>3. PICK h \in [SUBSET (1..N) -> ReadStates] : FoldsUpTo(ReadStart, step, N, h)
  <2> HIDE DEF N, step
  <2> QED BY <1>2, FoldExists
<1>4. ASSUME NEW s \in SUBSET (1..N), s # {}
      PROVE  step[<< h[s \ {Max(s)}], Max(s) >>] = ReadSymbol(h[s \ {Max(s)}], text[Max(s)])
  <2>1. Max(s) \in 1..N
    <3> HIDE DEF N
    <3> QED BY <1>2, <1>4, MaxIsGreatest
  <2> QED BY <2>1
<1>5. h = Rec(h)
  <2>1. ASSUME NEW s \in SUBSET (1..N)
        PROVE  h[s] = IF s = {} THEN ReadStart ELSE ReadSymbol(h[s \ {Max(s)}], text[Max(s)])
    <3> HIDE DEF N, step
    <3> QED BY <1>3, <1>4 DEF FoldsUpTo
  <2> HIDE DEF N, step
  <2> QED BY <1>2, <2>1
<1>6. iter = Rec(iter)
  <2>1. \E f : f = Rec(f)
    BY <1>5
  <2> HIDE DEF Rec
  <2> QED BY <2>1
<1> DEFINE g == [k \in 0..N |-> iter[1..k]]
<1>7. g[0] = ReadStart
  <2>1. iter[{}] = ReadStart
    <3> HIDE DEF iter
    <3> QED BY <1>6
  <2>2. 1..0 = {}
    OBVIOUS
  <2> HIDE DEF iter
  <2> QED BY <1>2, <2>1, <2>2
<1>8. ASSUME NEW k \in 1..N PROVE g[k] = ReadSymbol(g[k - 1], text[k])
  <2> HIDE DEF iter
  <2>1. Max(1..k) = k /\ (1..k) \ {k} = 1..(k - 1)
    BY UpToMax
  <2>2. 1..k \in SUBSET DOMAIN text /\ 1..k # {}
    <3>1. N \in Nat /\ DOMAIN text = 1..N
      BY <1>2
    <3> HIDE DEF N, step, Rec, g
    <3>2. k \in 1..k /\ \A j \in 1..k : j \in 1..N
      BY <3>1
    <3> QED BY <3>1, <3>2
  <2>3. iter[1..k] = ReadSymbol(iter[1..(k - 1)], text[k])
    BY <1>6, <2>1, <2>2
  <2>4. k \in 0..N /\ k - 1 \in 0..N
    BY <1>2
  <2> QED BY <2>3, <2>4
<1>9. g[N] = GetLine(text)
  <2> HIDE DEF iter
  <2> QED BY <1>1, <1>2
<1> HIDE DEF g
<1> QED BY <1>7, <1>8, <1>9 DEF ReadSymbolWalk

(* Where the line ends no quote is open and no backslash waits. *)
Closed(text) == Scans(text).in # "comment" => Scans(text).in \notin Quotes /\ ~Scans(text).slash

(* get_line's quote is the automaton's, as long as that is in no comment.  *)
Follows(g) ==
  /\ Scans(g.line).in # "comment" =>
       /\ ~Scans(g.line).slash
       /\ g.open = IF Scans(g.line).in \in Quotes THEN Scans(g.line).in ELSE NoQuote
  /\ g.done => g.open = NoQuote

(* A plain character changes the quote in both in the same way. *)
LEMMA ScanPlain ==
  ASSUME NEW a \in ScanStates, NEW c \in Symbols, ~a.slash, c # Slash,
         Scan(a, c).in # "comment"
  PROVE  /\ ~Scan(a, c).slash
         /\ (IF Scan(a, c).in \in Quotes THEN Scan(a, c).in ELSE NoQuote) =
              QuoteAfter(IF a.in \in Quotes THEN a.in ELSE NoQuote, c)
  BY DEF Scan, ScanStates, Enters, Ended, Quotes, Operators, Blanks, NoQuote, Slash, QuoteAfter, Newline

(* An escaped one changes it in neither. *)
LEMMA ScanEscaped ==
  ASSUME NEW a \in ScanStates, NEW c \in Symbols, ~a.slash, a.in # "comment"
  PROVE  LET b == Scan(Scan(a, Slash), c)
         IN  /\ ~b.slash
             /\ b.in = IF a.in \in Quotes \cup {"word"} THEN a.in ELSE "word"
<1>1. PICK b \in ScanStates : b = Scan(a, Slash)
  <2>1. Slash \in Symbols
    BY DEF Symbols
  <2> QED BY <2>1, ScanTyped
<1>2. b.slash /\ b.in = IF a.in \in Quotes \cup {"word"} THEN a.in ELSE "word"
  BY <1>1 DEF Scan, ScanStates, Enters, Ended, Slash
<1>3. b.in # "comment"
  BY <1>2 DEF Quotes
<1>4. Scan(b, c) = [b EXCEPT !.token = Append(@, c), !.slash = FALSE, !.hidden = @ \/ c = "#"]
  BY <1>2, <1>3 DEF Scan
<1> QED BY <1>1, <1>2, <1>4 DEF ScanStates

(* get_line's next character keeps both together. *)
LEMMA ReadFollows ==
  ASSUME NEW g \in ReadStates, NEW c \in Symbols, Follows(g)
  PROVE  Follows(ReadSymbol(g, c))
<1> DEFINE a == Scans(g.line)
           n == ReadSymbol(g, c)
           q(s) == IF s.in \in Quotes THEN s.in ELSE NoQuote
<1>1. a \in ScanStates /\ g.line \in Text /\ Slash \in Symbols
  BY ScanFolds DEF ReadStates, Symbols
<1>2. CASE g.done
  BY <1>2 DEF ReadSymbol, ReadStates, Follows
<1>3. CASE ~g.done /\ g.slash
  <2>1. CASE c = Newline
    BY <1>3, <2>1 DEF ReadSymbol, Escaped, ReadStates, Follows
  <2>2. CASE c # Newline
    <3>1. n.line = Append(Append(g.line, Slash), c) /\ n.open = g.open /\ ~n.done
      <4>1. g.line \o << Slash, c >> = Append(Append(g.line, Slash), c)
        BY <1>1 DEF Text
      <4> QED BY <1>3, <2>2, <4>1 DEF ReadSymbol, Escaped, ReadStates
    <3>2. Append(g.line, Slash) \in Text
      BY <1>1, TextAppend
    <3>3. Scans(n.line) = Scan(Scan(a, Slash), c)
      BY <1>1, <3>1, <3>2, ScanFolds
    <3>4. CASE a.in = "comment"
      <4>1. Scans(n.line) = a
        BY <1>1, <3>3, <3>4, ScanKeeps
      <4> QED BY <3>1, <3>4, <4>1 DEF Follows
    <3>5. CASE a.in # "comment"
      <4>1. ~a.slash /\ g.open = q(a)
        BY <3>5 DEF Follows
      <4>2. ~Scans(n.line).slash /\ q(Scans(n.line)) = q(a)
        <5>1. /\ ~Scans(n.line).slash
              /\ Scans(n.line).in = IF a.in \in Quotes \cup {"word"} THEN a.in ELSE "word"
          BY <1>1, <3>3, <3>5, <4>1, ScanEscaped
        <5> QED BY <5>1 DEF Quotes
      <4> QED BY <3>1, <4>1, <4>2 DEF Follows
    <3> QED BY <3>4, <3>5
  <2> QED BY <2>1, <2>2
<1>4. CASE ~g.done /\ ~g.slash /\ c = Slash
  BY <1>4 DEF ReadSymbol, ReadStates, Follows
<1>5. CASE ~g.done /\ ~g.slash /\ c # Slash /\ c = Newline /\ g.open = NoQuote
  BY <1>5 DEF ReadSymbol, ReadStates, Follows
<1>6. CASE ~g.done /\ ~g.slash /\ c # Slash /\ ~(c = Newline /\ g.open = NoQuote)
  <2>1. n.line = Append(g.line, c) /\ n.open = QuoteAfter(g.open, c) /\ ~n.done
    BY <1>6 DEF ReadSymbol, ReadStates
  <2>2. Scans(n.line) = Scan(a, c)
    BY <1>1, <2>1, ScanFolds
  <2>3. CASE Scan(a, c).in = "comment"
    BY <2>1, <2>2, <2>3 DEF Follows
  <2>4. CASE Scan(a, c).in # "comment"
    <3>1. a.in # "comment"
      BY <1>1, <2>4, ScanKeeps
    <3>2. ~a.slash /\ g.open = q(a)
      BY <3>1 DEF Follows
    <3>3. ~Scan(a, c).slash /\ q(Scan(a, c)) = QuoteAfter(q(a), c)
      <4> HIDE DEF a
      <4> QED BY <1>1, <1>6, <2>4, <3>2, ScanPlain
    <3> QED BY <2>1, <2>2, <3>2, <3>3 DEF Follows
  <2> QED BY <2>3, <2>4
<1> QED BY <1>2, <1>3, <1>4, <1>5, <1>6

(* What get_line returns is closed. *)
LEMMA GetLineCloses ==
  ASSUME NEW text \in Text
  PROVE  /\ GetLine(text).line \in Text /\ GetLine(text).rest \in Text
         /\ GetLine(text).done => Closed(GetLine(text).line)
<1>1. PICK g : ReadSymbolWalk(text, g) /\ GetLine(text) = g[Len(text)]
  BY ReadSymbolWalks
<1>2. Len(text) \in Nat /\ \A k \in 1..Len(text) : text[k] \in Symbols
  BY DEF Text
<1> DEFINE T == {k \in 0..Len(text) : g[k] \in ReadStates /\ Follows(g[k])}
<1>3. 0 \in T
  <2>1. Scans(<< >>) = ScanStart
    <3>1. << >> \in Text /\ NoQuote \in Symbols
      BY TextAppend DEF Symbols
    <3> QED BY <3>1, ScanFolds
  <2>2. Follows(ReadStart)
    <3>1. Scans(ReadStart.line) = ScanStart /\ ReadStart.open = NoQuote
      BY <2>1 DEF ReadStart
    <3>2. ScanStart.in = NoQuote /\ ScanStart.slash = FALSE /\ NoQuote \notin Quotes
      BY DEF ScanStart, NoQuote, Quotes
    <3> QED BY <3>1, <3>2 DEF Follows
  <2>3. g[0] = ReadStart
    BY <1>1 DEF ReadSymbolWalk
  <2> QED BY <1>2, <2>2, <2>3, ReadStartTyped
<1>4. ASSUME NEW k \in 0..(Len(text) - 1), k \in T PROVE k + 1 \in T
  <2>1. PICK m \in 1..Len(text) : m = k + 1
    BY <1>2
  <2>2. m - 1 = k /\ m \in 0..Len(text) /\ text[m] \in Symbols
    BY <1>2, <2>1
  <2>3. g[m] = ReadSymbol(g[k], text[m])
    BY <1>1, <2>1, <2>2 DEF ReadSymbolWalk
  <2>4. g[m] \in ReadStates /\ Follows(g[m])
    BY <1>4, <2>2, <2>3, ReadSymbolTyped, ReadFollows
  <2> QED BY <2>1, <2>2, <2>4
<1>5. Len(text) \in T
  <2>1. 0..Len(text) \subseteq T
    <3> HIDE DEF T
    <3> QED BY <1>2, <1>3, <1>4, UpTo
  <2> HIDE DEF T
  <2> QED BY <1>2, <2>1
<1> QED BY <1>1, <1>5 DEF ReadStates, Follows, Closed, Quotes, NoQuote

-----------------------------------------------------------------------------
(***************************************************************************)
(* The comment of a line.                                                  *)
(***************************************************************************)

(* A text that is cut from a line at its first hash. *)
CutAtHash(l, text) ==
  /\ l \in Text /\ text \in Text
  /\ Len(text) <= Len(l)
  /\ \A k \in 1..Len(text) : text[k] = l[k] /\ text[k] # "#"
  /\ Len(text) < Len(l) => l[Len(text) + 1] = "#"

TwoHashes(l) == Len(l) > 1 /\ l[1] = "#" /\ l[2] = "#"

(* The least of some positions in a line. *)
LEMMA FirstPosition ==
  ASSUME NEW T, T \subseteq Nat, T # {}
  PROVE  LET k == CHOOSE k \in T : \A m \in T : k <= m
         IN  k \in T /\ \A m \in T : k <= m
  BY LeastNumber

(* What parse cuts from a line is what strtok finds in it. *)
LEMMA CommentIsCut ==
  ASSUME NEW l \in Text, ~TwoHashes(l)
  PROVE  CutAtHash(l, WithoutComment(l))
<1> DEFINE found == {k \in DOMAIN l : l[k] # "#"}
           first == CHOOSE k \in found : \A m \in found : k <= m
           hashes == {k \in DOMAIN l : l[k] = "#" /\ k > first}
           least == CHOOSE k \in hashes : \A m \in hashes : k <= m
           end == IF hashes = {} THEN Len(l) + 1 ELSE least
<1>1. WithoutComment(l) = IF found = {} \/ first = 2 THEN << >> ELSE SubSeq(l, 1, end - first)
  BY DEF WithoutComment
<1>2. Len(l) \in Nat /\ DOMAIN l = 1..Len(l) /\ \A k \in 1..Len(l) : l[k] \in Symbols
  BY DEF Text
<1>3. CASE found = {}
  <2>1. \A k \in 1..Len(l) : l[k] = "#"
    BY <1>2, <1>3
  <2>2. Len(l) > 1 => TwoHashes(l)
    BY <1>2, <2>1 DEF TwoHashes
  <2>3. WithoutComment(l) = << >>
    BY <1>1, <1>3
  <2> QED BY <1>2, <2>1, <2>2, <2>3, TextAppend DEF CutAtHash
<1>4. CASE found # {}
  <2>1. first \in found /\ \A m \in found : first <= m
    <3>1. found \subseteq Nat
      BY <1>2
    <3> HIDE DEF found
    <3> QED BY <1>4, <3>1, FirstPosition
  <2>2. first \in 1..Len(l) /\ \A k \in 1..Len(l) : k < first => l[k] = "#"
    <3>1. \A k \in 1..Len(l) : l[k] # "#" => k \in found
      BY <1>2
    <3> HIDE DEF first
    <3>2. first \in 1..Len(l)
      BY <1>2, <2>1
    <3> HIDE DEF found
    <3> QED BY <1>2, <2>1, <3>1, <3>2
  <2>3. CASE first = 2
    <3>1. WithoutComment(l) = << >>
      BY <1>1, <2>3
    <3>2. l[1] = "#"
      BY <1>2, <2>2, <2>3
    <3> QED BY <1>2, <3>1, <3>2, TextAppend DEF CutAtHash
  <2>4. CASE first # 2
    <3>1. first = 1
      <4> HIDE DEF first
      <4>1. first > 2 => l[1] = "#" /\ l[2] = "#" /\ Len(l) > 1
        BY <1>2, <2>2
      <4> QED BY <2>2, <2>4, <4>1 DEF TwoHashes
    <3>2. end \in 1..(Len(l) + 1) /\ (end <= Len(l) => l[end] = "#")
          /\ \A k \in 1..(end - 1) : l[k] # "#"
      <4> HIDE DEF first
      <4>1. l[1] # "#"
        BY <2>1, <3>1
      <4>2. hashes \subseteq 1..Len(l) /\ \A k \in 1..Len(l) : l[k] = "#" => k \in hashes
        BY <1>2, <3>1, <4>1
      <4>3. \A k \in hashes : l[k] = "#"
        OBVIOUS
      <4>4. CASE hashes = {}
        BY <1>2, <4>2, <4>4
      <4>5. CASE hashes # {}
        <5> HIDE DEF hashes
        <5>1. hashes \subseteq Nat
          BY <4>2
        <5>2. least \in hashes /\ \A m \in hashes : least <= m
          BY <4>5, <5>1, FirstPosition
        <5> HIDE DEF least
        <5>3. least \in 1..Len(l) /\ l[least] = "#"
          BY <4>2, <4>3, <5>2
        <5>4. \A k \in 1..(least - 1) : l[k] # "#"
          <6>1. \A k \in 1..(least - 1) : k \in 1..Len(l) /\ ~(least <= k)
            BY <1>2, <5>3
          <6> QED BY <4>2, <5>2, <6>1
        <5> QED BY <1>2, <4>5, <5>3, <5>4
      <4> QED BY <4>4, <4>5
    <3>3. PICK n \in 0..Len(l) : end = n + 1
      <4> HIDE DEF end
      <4>1. end - 1 \in 0..Len(l) /\ end = (end - 1) + 1
        BY <1>2, <3>2
      <4> QED BY <4>1
    <3>4. WithoutComment(l) = SubSeq(l, 1, n)
      <4> HIDE DEF found, end
      <4>1. end - first = n
        <5> HIDE DEF first
        <5>1. (n + 1) - 1 = n
          BY <1>2
        <5> QED BY <3>1, <3>3, <5>1
      <4> QED BY <1>1, <1>4, <2>4, <4>1
    <3>5. /\ (n < Len(l) => l[n + 1] = "#")
          /\ \A k \in 1..n : l[k] # "#"
      <4> HIDE DEF end
      <4>1. n + 1 <= Len(l) => l[n + 1] = "#"
        BY <3>2, <3>3
      <4>2. 1..n = 1..(end - 1)
        BY <3>3
      <4> QED BY <1>2, <3>2, <4>1, <4>2
    <3>6. /\ SubSeq(l, 1, n) \in Text /\ Len(SubSeq(l, 1, n)) = n
          /\ \A k \in 1..n : SubSeq(l, 1, n)[k] = l[k]
      BY <1>2 DEF Text
    <3> HIDE DEF end, first, found, hashes
    <3> QED BY <1>2, <3>4, <3>5, <3>6 DEF CutAtHash
  <2> QED BY <2>3, <2>4
<1> QED BY <1>3, <1>4

(* Without a hash the automaton sees no comment. *)
LEMMA NoHashNoComment ==
  ASSUME NEW l, NEW text, CutAtHash(l, text)
  PROVE  \A k \in 0..Len(text) : After(text, k) = After(l, k) /\ After(text, k).in # "comment"
<1> DEFINE T == {k \in 0..Len(text) : After(text, k) = After(l, k) /\ After(text, k).in # "comment"}
<1>1. /\ l \in Text /\ text \in Text /\ Len(text) \in Nat /\ Len(l) \in Nat /\ Len(text) <= Len(l)
      /\ \A k \in 1..Len(text) : text[k] \in Symbols /\ text[k] = l[k] /\ text[k] # "#"
  BY DEF CutAtHash, Text
<1>2. 0 \in T
  <2>1. After(text, 0) = ScanStart /\ After(l, 0) = ScanStart
    BY <1>1, AfterSteps
  <2>2. ScanStart.in # "comment"
    BY DEF ScanStart, NoQuote
  <2> QED BY <1>1, <2>1, <2>2
<1>3. ASSUME NEW k \in 0..(Len(text) - 1), k \in T PROVE k + 1 \in T
  <2>1. PICK m \in 1..Len(text) : m = k + 1
    BY <1>1
  <2>2. m - 1 = k /\ m \in 0..Len(text) /\ k \in 0..Len(text) /\ m \in 1..Len(l)
    BY <1>1, <2>1
  <2>3. /\ After(text, m) = Scan(After(text, k), text[m])
        /\ After(l, m) = Scan(After(l, k), l[m])
        /\ After(text, k) \in ScanStates
    BY <1>1, <2>2, AfterSteps
  <2>4. After(text, m) = After(l, m) /\ After(text, m).in # "comment"
    BY <1>1, <1>3, <2>3, ScanKeeps
  <2> QED BY <2>1, <2>2, <2>4
<1>4. 0..Len(text) \subseteq T
  <2> HIDE DEF T
  <2> QED BY <1>1, <1>2, <1>3, UpTo
<1> QED BY <1>4

(* What the automaton makes of a line it has already when the comment      *)
(* begins, unless a hash is hidden.                                        *)
LEMMA CutIsClosed ==
  ASSUME NEW l, NEW text, CutAtHash(l, text), Closed(l), ~Scanned(l).hidden
  PROVE  /\ Scans(text).in # "comment" /\ Scans(text).in \notin Quotes /\ ~Scans(text).slash
         /\ Ended(Scans(text)).tokens = Scanned(l).tokens
<1>1. /\ l \in Text /\ text \in Text /\ Len(text) \in Nat /\ Len(l) \in Nat /\ Len(text) <= Len(l)
      /\ \A k \in 1..Len(l) : l[k] \in Symbols
  BY DEF CutAtHash, Text
<1> DEFINE L == Len(text)
<1>2. Scans(text) = After(l, L) /\ Scans(text).in # "comment" /\ Scans(text) \in ScanStates
  <2>1. After(text, L) = Scans(text) /\ After(text, L) \in ScanStates
    BY <1>1, AfterSteps
  <2> QED BY <1>1, <2>1, NoHashNoComment
<1>3. Scans(l) \in ScanStates /\ Scanned(l) = Ended(Scans(l))
  <2>1. Scans(l) \in ScanStates
    BY <1>1, AfterSteps
  <2> QED BY <2>1 DEF Scanned, Scans, ScanStart
<1>4. ~Scans(l).hidden
  BY <1>3 DEF Ended, ScanStates
<1>5. CASE L = Len(l)
  <2>1. Scans(text) = Scans(l)
    BY <1>1, <1>2, <1>5, AfterSteps
  <2> QED BY <1>2, <1>3, <2>1 DEF Closed
<1>6. CASE L # Len(l)
  <2>1. PICK m \in 1..Len(l) : m = L + 1
    BY <1>1, <1>6
  <2>2. l[m] = "#" /\ m - 1 = L /\ m \in 0..Len(l)
    BY <1>1, <1>6, <2>1 DEF CutAtHash
  <2>3. After(l, m) = Scan(Scans(text), "#")
    BY <1>1, <1>2, <2>1, <2>2, AfterSteps
  <2>4. ~Scan(Scans(text), "#").hidden
    BY <1>1, <1>4, <2>2, <2>3, AfterKeeps
  <2>5. Scans(text).in \notin Quotes /\ ~Scans(text).slash
        /\ Scan(Scans(text), "#") = Enters(Scans(text), "comment")
    BY <1>2, <2>4 DEF Scan, ScanStates, Ended, Slash, Quotes
  <2>6. Scans(l) = Enters(Scans(text), "comment")
    <3>1. After(l, m).in = "comment"
      BY <1>2, <2>3, <2>5 DEF Enters, Ended, ScanStates
    <3> QED BY <1>1, <2>2, <2>3, <2>5, <3>1, AfterKeeps
  <2>7. Scanned(l).tokens = Ended(Scans(text)).tokens
    <3>1. Ended(Scans(text)) \in ScanStates
      BY <1>2, EndedTyped
    <3>2. Scans(l).tokens = Ended(Scans(text)).tokens /\ Scans(l).in = "comment"
      BY <2>6, <3>1 DEF Enters, ScanStates
    <3>3. Scanned(l) = Scans(l)
      BY <1>3, <3>2 DEF Ended, Operators
    <3> QED BY <3>2, <3>3
  <2> QED BY <1>2, <2>5, <2>7
<1> QED BY <1>5, <1>6

-----------------------------------------------------------------------------
(***************************************************************************)
(* The loops that look for the end of a quote and of a word.               *)
(***************************************************************************)

(* A function on positions that asks a later position or gives a value.    *)
Jumps(next, value, M, m, e) ==
  /\ DOMAIN e = 1..M
  /\ \A p \in 1..M : p > m => e[p] = IF next[p] = 0 THEN value[p] ELSE e[next[p]]

JumpsForward(next, M) ==
  next \in [1..M -> 0..M] /\ \A p \in 1..M : next[p] # 0 => next[p] > p
JumpEquation(next, value, M, e) ==
  e = [p \in 1..M |-> IF next[p] = 0 THEN value[p] ELSE e[next[p]]]

(* A function that only asks later positions exists. *)
LEMMA JumpExists ==
  ASSUME NEW M \in Nat, NEW value, NEW next, JumpsForward(next, M)
  PROVE  \E e : JumpEquation(next, value, M, e)
<1> USE DEF JumpsForward
<1> DEFINE T == {k \in 0..M : \E e : Jumps(next, value, M, M - k, e)}
<1>1. 0 \in T
  <2> DEFINE e == [p \in 1..M |-> 0]
  <2>1. Jumps(next, value, M, M - 0, e)
    BY DEF Jumps
  <2> HIDE DEF e
  <2> QED BY <2>1
<1>2. ASSUME NEW k \in 0..(M - 1), k \in T PROVE k + 1 \in T
  <2>1. PICK m \in 1..M : m = M - k
    OBVIOUS
  <2>2. PICK e : Jumps(next, value, M, m, e)
    BY <1>2, <2>1
  <2>3. M - (k + 1) = m - 1 /\ k + 1 \in 0..M
    BY <2>1
  <2> HIDE DEF T
  <2> DEFINE d == [p \in 1..M |-> IF p = m THEN IF next[p] = 0 THEN value[p] ELSE e[next[p]]
                                  ELSE e[p]]
  <2>4. ASSUME NEW p \in 1..M, p > m - 1
        PROVE  d[p] = IF next[p] = 0 THEN value[p] ELSE d[next[p]]
    <3>1. next[p] # 0 => next[p] \in 1..M /\ next[p] > m
      BY <2>4, <2>1
    <3>2. next[p] # 0 => d[next[p]] = e[next[p]]
      BY <2>1, <3>1
    <3>3. CASE p = m
      BY <3>2, <3>3
    <3>4. CASE p # m
      <4>1. p > m /\ d[p] = e[p]
        BY <2>1, <2>4, <3>4
      <4> HIDE DEF d
      <4> QED BY <2>2, <3>2, <4>1 DEF Jumps
    <3> QED BY <3>3, <3>4
  <2>5. Jumps(next, value, M, m - 1, d)
    <3>1. DOMAIN d = 1..M
      OBVIOUS
    <3> HIDE DEF d
    <3> QED BY <2>4, <3>1 DEF Jumps
  <2> HIDE DEF d
  <2>6. \E f : Jumps(next, value, M, M - (k + 1), f)
    BY <2>3, <2>5
  <2> QED BY <2>3, <2>6 DEF T
<1>3. M \in T
  <2>1. 0..M \subseteq T
    <3> HIDE DEF T
    <3> QED BY <1>1, <1>2, UpTo
  <2> HIDE DEF T
  <2> QED BY <2>1
<1>4. PICK e : Jumps(next, value, M, 0, e)
  <2>1. M - M = 0
    OBVIOUS
  <2> QED BY <1>3, <2>1
<1> DEFINE r == [p \in 1..M |-> e[p]]
<1>5. r = [p \in 1..M |-> IF next[p] = 0 THEN value[p] ELSE r[next[p]]]
  <2>1. ASSUME NEW p \in 1..M PROVE r[p] = IF next[p] = 0 THEN value[p] ELSE r[next[p]]
    <3>1. next[p] # 0 => next[p] \in 1..M
      OBVIOUS
    <3>2. next[p] # 0 => r[next[p]] = e[next[p]]
      BY <3>1
    <3>3. r[p] = e[p] /\ p > 0
      OBVIOUS
    <3> HIDE DEF r
    <3> QED BY <1>4, <3>2, <3>3 DEF Jumps
  <2> DEFINE f == [p \in 1..M |-> IF next[p] = 0 THEN value[p] ELSE r[next[p]]]
  <2>2. \A p \in 1..M : r[p] = f[p]
    BY <2>1
  <2>3. r = [p \in 1..M |-> r[p]] /\ f = [p \in 1..M |-> f[p]]
    OBVIOUS
  <2> HIDE DEF r, f
  <2>4. r = f
    BY <2>2, <2>3
  <2> QED BY <2>4 DEF f
<1> HIDE DEF r
<1> QED BY <1>5 DEF JumpEquation

(* The positions that the two loops ask, one after the other. *)
QuoteEnds(text, c, e) ==
  \A p \in 1..(Len(text) + 2) :
    e[p] = IF p > Len(text) THEN 0
           ELSE IF text[p] = c THEN p ELSE e[p + IF text[p] = Slash THEN 2 ELSE 1]
WordEnds(text, e) ==
  \A p \in 1..(Len(text) + 2) :
    e[p] = IF p > Len(text) THEN p
           ELSE IF text[p] = Slash THEN e[p + 2]
           ELSE IF IsControl(text[p]) THEN p ELSE e[p + 1]

(* handle_quotes finds the end of a quote by such a function. *)
LEMMA QuoteEndsExist ==
  ASSUME NEW text \in Text, NEW i \in 1..Len(text)
  PROVE  \E e : QuoteEnds(text, text[i], e) /\ QuoteEnd(text, i) = e[i + 1]
<1> DEFINE M == Len(text) + 2
           next == [p \in 1..M |-> IF p > Len(text) THEN 0 ELSE IF text[p] = text[i] THEN 0
                                   ELSE p + IF text[p] = Slash THEN 2 ELSE 1]
           value == [p \in 1..M |-> IF p > Len(text) THEN 0 ELSE p]
           Rec(f) == [p \in 1..(Len(text) + 2) |->
                        IF p > Len(text) THEN 0
                        ELSE IF text[p] = text[i] THEN p
                        ELSE f[p + IF text[p] = Slash THEN 2 ELSE 1]]
           end == CHOOSE f : f = Rec(f)
<1>1. QuoteEnd(text, i) = end[i + 1]
  BY DEF QuoteEnd
<1>2. Len(text) \in Nat /\ M \in Nat
  BY DEF Text
<1>3. JumpsForward(next, M)
  BY <1>2 DEF JumpsForward
<1>4. PICK f : JumpEquation(next, value, M, f)
  <2> HIDE DEF next, value, M
  <2> QED BY <1>2, <1>3, JumpExists
<1>5. f = Rec(f)
  <2>1. ASSUME NEW p \in 1..M
        PROVE  (IF next[p] = 0 THEN value[p] ELSE f[next[p]]) = Rec(f)[p]
    BY <1>2
  <2> DEFINE d == Rec(f)
  <2>2. \A p \in 1..M : f[p] = d[p]
    <3> HIDE DEF next, value, M, d
    <3> QED BY <1>4, <2>1 DEF d, JumpEquation
  <2>3. d = [p \in 1..M |-> d[p]] /\ f = [p \in 1..M |-> f[p]]
    <3>1. d = [p \in 1..M |-> d[p]]
      OBVIOUS
    <3>2. f = [p \in 1..M |-> f[p]]
      <4> HIDE DEF next, value, M, d
      <4> QED BY <1>4 DEF JumpEquation
    <3> QED BY <3>1, <3>2
  <2> HIDE DEF d, M
  <2>4. f = d
    BY <2>2, <2>3
  <2> QED BY <2>4 DEF d
<1>6. end = Rec(end)
  <2>1. \E g : g = Rec(g)
    BY <1>5
  <2> HIDE DEF Rec
  <2> QED BY <2>1
<1>7. QuoteEnds(text, text[i], end)
  <2> HIDE DEF end
  <2> QED BY <1>6 DEF QuoteEnds
<1> HIDE DEF end
<1> QED BY <1>1, <1>7

(* handle_str finds the end of a word by one. *)
LEMMA WordEndsExist ==
  ASSUME NEW text \in Text, NEW i \in 1..Len(text)
  PROVE  \E e : WordEnds(text, e) /\ WordEnd(text, i) = e[i]
<1> DEFINE M == Len(text) + 2
           next == [p \in 1..M |-> IF p > Len(text) THEN 0 ELSE IF text[p] = Slash THEN p + 2
                                   ELSE IF IsControl(text[p]) THEN 0 ELSE p + 1]
           value == [p \in 1..M |-> p]
           Rec(f) == [p \in 1..(Len(text) + 2) |->
                        IF p > Len(text) THEN p
                        ELSE IF text[p] = Slash THEN f[p + 2]
                        ELSE IF IsControl(text[p]) THEN p ELSE f[p + 1]]
           end == CHOOSE f : f = Rec(f)
<1>1. WordEnd(text, i) = end[i]
  BY DEF WordEnd
<1>2. Len(text) \in Nat /\ M \in Nat
  BY DEF Text
<1>3. JumpsForward(next, M)
  BY <1>2 DEF JumpsForward
<1>4. PICK f : JumpEquation(next, value, M, f)
  <2> HIDE DEF next, value, M
  <2> QED BY <1>2, <1>3, JumpExists
<1>5. f = Rec(f)
  <2>1. ASSUME NEW p \in 1..M
        PROVE  (IF next[p] = 0 THEN value[p] ELSE f[next[p]]) = Rec(f)[p]
    BY <1>2
  <2> DEFINE d == Rec(f)
  <2>2. \A p \in 1..M : f[p] = d[p]
    <3> HIDE DEF next, value, M, d
    <3> QED BY <1>4, <2>1 DEF d, JumpEquation
  <2>3. d = [p \in 1..M |-> d[p]] /\ f = [p \in 1..M |-> f[p]]
    <3>1. d = [p \in 1..M |-> d[p]]
      OBVIOUS
    <3>2. f = [p \in 1..M |-> f[p]]
      <4> HIDE DEF next, value, M, d
      <4> QED BY <1>4 DEF JumpEquation
    <3> QED BY <3>1, <3>2
  <2> HIDE DEF d, M
  <2>4. f = d
    BY <2>2, <2>3
  <2> QED BY <2>4 DEF d
<1>6. end = Rec(end)
  <2>1. \E g : g = Rec(g)
    BY <1>5
  <2> HIDE DEF Rec
  <2> QED BY <2>1
<1>7. WordEnds(text, end)
  <2> HIDE DEF end
  <2> QED BY <1>6 DEF WordEnds
<1> HIDE DEF end
<1> QED BY <1>1, <1>7

-----------------------------------------------------------------------------
(***************************************************************************)
(* The automaton inside of a quote or a word.                              *)
(***************************************************************************)

(* What is left of the characters from m to p without the backslashes. *)
Piece(text, m, p) == Unslashes(SubSeq(text, m, p))

(* A character more of a word is one step more. *)
LEMMA PieceSteps ==
  ASSUME NEW text \in Text, NEW m \in 1..(Len(text) + 1)
  PROVE  /\ Piece(text, m, m - 1) = UnslashStart
         /\ \A p \in m..Len(text) : Piece(text, m, p) = Unslash(Piece(text, m, p - 1), text[p])
<1>1. Len(text) \in Nat /\ \A k \in 1..Len(text) : text[k] \in Symbols
  BY DEF Text
<1>2. NoQuote \in Symbols /\ << >> \in Text
  BY TextAppend DEF Symbols
<1>3. Piece(text, m, m - 1) = UnslashStart
  <2>1. SubSeq(text, m, m - 1) = << >>
    BY <1>1, SubSeqEmpty
  <2> QED BY <1>2, <2>1, UnslashFolds DEF Piece
<1>4. ASSUME NEW p \in m..Len(text)
      PROVE  Piece(text, m, p) = Unslash(Piece(text, m, p - 1), text[p])
  <2>1. SubSeq(text, m, p - 1) \in Text /\ SubSeq(text, m, p) \in Text
    BY <1>1 DEF Text
  <2>2. /\ Len(SubSeq(text, m, p)) = p - m + 1 /\ Len(SubSeq(text, m, p - 1)) = p - m
        /\ \A j \in 1..(p - m + 1) : SubSeq(text, m, p)[j] = text[m + j - 1]
        /\ \A j \in 1..(p - m) : SubSeq(text, m, p - 1)[j] = text[m + j - 1]
    BY <1>1 DEF Text
  <2>3. SubSeq(text, m, p) = Append(SubSeq(text, m, p - 1), text[p])
    <3>1. PICK n \in Nat : n = p - m
      BY <1>1
    <3>2. m + (n + 1) - 1 = p /\ p - m + 1 = n + 1
      BY <1>1, <3>1
    <3>3. /\ Len(SubSeq(text, m, p)) = n + 1 /\ Len(SubSeq(text, m, p - 1)) = n
          /\ SubSeq(text, m, p)[n + 1] = text[p]
          /\ \A j \in 1..n : SubSeq(text, m, p)[j] = SubSeq(text, m, p - 1)[j]
      <4>1. n + 1 \in 1..(p - m + 1)
        BY <1>1, <3>1
      <4>2. SubSeq(text, m, p)[n + 1] = text[m + (n + 1) - 1]
        BY <2>2, <4>1
      <4>3. \A j \in 1..n : j \in 1..(p - m) /\ j \in 1..(p - m + 1)
        BY <1>1, <3>1
      <4> QED BY <2>2, <3>1, <3>2, <4>2, <4>3
    <3>4. PICK s \in Text, r \in Text : s = SubSeq(text, m, p) /\ r = SubSeq(text, m, p - 1)
      BY <2>1
    <3>5. PICK c \in Symbols : c = text[p]
      BY <1>1
    <3>6. /\ Len(s) = n + 1 /\ Len(r) = n /\ s[n + 1] = c
          /\ \A j \in 1..n : s[j] = r[j]
      BY <3>3, <3>4, <3>5
    <3>7. s = Append(r, c)
      BY <3>6 DEF Text
    <3> QED BY <3>4, <3>5, <3>7
  <2> QED BY <1>1, <2>1, <2>3, UnslashFolds DEF Piece
<1> QED BY <1>3, <1>4

(* The automaton is in a quote c, or in a word, that started at m and has  *)
(* come to p; the tokens before it are given.                              *)
Inside(text, in, m, tokens, p) ==
  /\ p \in m..(Len(text) + 1)
  /\ After(text, p - 1).in = in /\ ~After(text, p - 1).slash
  /\ After(text, p - 1).tokens = tokens
  /\ Piece(text, m, p - 1) = [word |-> After(text, p - 1).token, slash |-> FALSE]

(* The text ends neither in a quote nor behind a backslash. *)
EndsOutside(text) == Scans(text).in \notin Quotes /\ ~Scans(text).slash

(* A character that is taken keeps the automaton inside. *)
LEMMA TakenInside ==
  ASSUME NEW text \in Text, NEW in, NEW m \in 1..(Len(text) + 1), NEW tokens, NEW p \in Nat,
         Inside(text, in, m, tokens, p), in \in Quotes \cup {"word"}, p <= Len(text),
         text[p] # Slash,
         IF in = "word" THEN ~IsControl(text[p]) /\ text[p] # "#" ELSE text[p] # in
  PROVE  Inside(text, in, m, tokens, p + 1)
<1>1. Len(text) \in Nat /\ p \in 1..Len(text) /\ p \in m..Len(text) /\ text[p] \in Symbols
  BY DEF Inside, Text
<1>2. After(text, p) = Scan(After(text, p - 1), text[p]) /\ After(text, p - 1) \in ScanStates
  BY <1>1, AfterSteps
<1>3. Piece(text, m, p) = Unslash(Piece(text, m, p - 1), text[p])
  BY <1>1, PieceSteps
<1> DEFINE a == After(text, p - 1)
<1>4. a.in = in /\ ~a.slash /\ a.tokens = tokens /\ in # "comment"
  BY DEF Inside, Quotes
<1>5. After(text, p) = [a EXCEPT !.token = Append(@, text[p]), !.slash = FALSE,
                                 !.hidden = @ \/ text[p] = "#"]
  <2>1. CASE in \in Quotes
    <3>1. in # "word" /\ text[p] # in
      BY <2>1 DEF Quotes
    <3> HIDE DEF a
    <3> QED BY <1>2, <1>4, <2>1, <3>1 DEF Scan, a
  <2>2. CASE in = "word"
    <3>1. text[p] \notin Quotes \cup Blanks \cup Operators /\ text[p] # "#" /\ in \notin Quotes
      BY <2>2 DEF IsControl, Quotes
    <3> HIDE DEF a
    <3> QED BY <1>2, <1>4, <2>2, <3>1 DEF Scan, a
  <2> QED BY <2>1, <2>2
<1>6. /\ After(text, p).in = in /\ ~After(text, p).slash /\ After(text, p).tokens = tokens
      /\ After(text, p).token = Append(a.token, text[p])
  <2> HIDE DEF a
  <2> QED BY <1>2, <1>4, <1>5 DEF ScanStates, a
<1>7. Piece(text, m, p) = [word |-> After(text, p).token, slash |-> FALSE]
  <2>1. Piece(text, m, p - 1) = [word |-> a.token, slash |-> FALSE]
    BY DEF Inside
  <2>2. PICK t : t = Piece(text, m, p - 1)
    OBVIOUS
  <2> HIDE DEF a
  <2>3. Unslash(t, text[p]) = [word |-> Append(a.token, text[p]), slash |-> FALSE]
    <3>1. t = [word |-> a.token, slash |-> FALSE]
      BY <2>1, <2>2
    <3>2. t.word = a.token
      BY <3>1
    <3> QED BY <3>2 DEF Unslash
  <2> QED BY <1>3, <1>6, <2>2, <2>3
<1>8. p + 1 \in m..(Len(text) + 1) /\ (p + 1) - 1 = p
  BY <1>1
<1> QED BY <1>6, <1>7, <1>8 DEF Inside

(* So does a backslash with the next character; there is a next one.       *)
LEMMA EscapedInside ==
  ASSUME NEW text \in Text, NEW in, NEW m \in 1..(Len(text) + 1), NEW tokens, NEW p \in Nat,
         Inside(text, in, m, tokens, p), in \in Quotes \cup {"word"}, p <= Len(text),
         text[p] = Slash, EndsOutside(text)
  PROVE  Inside(text, in, m, tokens, p + 2)
<1>1. Len(text) \in Nat /\ p \in 1..Len(text) /\ p \in m..Len(text) /\ text[p] \in Symbols
  BY DEF Inside, Text
<1>2. After(text, p) = Scan(After(text, p - 1), Slash) /\ After(text, p - 1) \in ScanStates
  BY <1>1, AfterSteps
<1>3. Piece(text, m, p) = Unslash(Piece(text, m, p - 1), Slash)
  BY <1>1, PieceSteps
<1> DEFINE a == After(text, p - 1)
           b == After(text, p)
<1>4. a.in = in /\ ~a.slash /\ a.tokens = tokens /\ in # "comment"
      /\ Piece(text, m, p - 1) = [word |-> a.token, slash |-> FALSE]
  BY DEF Inside, Quotes
<1>5. b = [a EXCEPT !.slash = TRUE]
  <2> HIDE DEF a
  <2> QED BY <1>2, <1>4 DEF Scan, a
<1>6. b.in = in /\ b.slash /\ b.tokens = tokens /\ b.token = a.token /\ b \in ScanStates
  <2> HIDE DEF a, b
  <2> QED BY <1>2, <1>4, <1>5 DEF ScanStates, a
<1>7. Piece(text, m, p) = [word |-> a.token, slash |-> TRUE]
  <2>1. PICK t : t = Piece(text, m, p - 1)
    OBVIOUS
  <2> HIDE DEF a
  <2>2. t = [word |-> a.token, slash |-> FALSE]
    BY <1>4, <2>1
  <2>3. Unslash(t, Slash) = [word |-> a.token, slash |-> TRUE]
    BY <2>2 DEF Unslash
  <2> QED BY <1>3, <2>1, <2>3
<1>8. p # Len(text)
  <2> HIDE DEF a
  <2> QED BY <1>6, AfterSteps DEF EndsOutside
<1>9. PICK q \in 1..Len(text) : q = p + 1
  BY <1>1, <1>8
<1>10. q - 1 = p /\ q \in m..Len(text) /\ text[q] \in Symbols /\ p + 2 = q + 1
       /\ q + 1 \in m..(Len(text) + 1) /\ (q + 1) - 1 = q
  BY <1>1, <1>9 DEF Text
<1>11. After(text, q) = Scan(b, text[q])
  BY <1>9, <1>10, AfterSteps
<1>12. Piece(text, m, q) = Unslash(Piece(text, m, p), text[q])
  BY <1>10, PieceSteps
<1>13. After(text, q) = [b EXCEPT !.token = Append(@, text[q]), !.slash = FALSE,
                                  !.hidden = @ \/ text[q] = "#"]
  <2> HIDE DEF a, b
  <2> QED BY <1>4, <1>6, <1>11 DEF Scan
<1>14. /\ After(text, q).in = in /\ ~After(text, q).slash /\ After(text, q).tokens = tokens
       /\ After(text, q).token = Append(a.token, text[q])
  <2> HIDE DEF a, b
  <2> QED BY <1>6, <1>13 DEF ScanStates
<1>15. Piece(text, m, q) = [word |-> After(text, q).token, slash |-> FALSE]
  <2> HIDE DEF a, b
  <2> QED BY <1>7, <1>12, <1>14 DEF Unslash
<1> QED BY <1>10, <1>14, <1>15 DEF Inside

(* The loops come to the end that the automaton comes to. *)
LEMMA QuoteLoop ==
  ASSUME NEW text \in Text, NEW c \in Quotes, NEW m \in 1..(Len(text) + 1), NEW tokens,
         NEW e, QuoteEnds(text, c, e), EndsOutside(text), Inside(text, c, m, tokens, m)
  PROVE  /\ e[m] \in m..Len(text) /\ text[e[m]] = c
         /\ Inside(text, c, m, tokens, e[m])
<1> DEFINE Reaches(p) == /\ e[p] \in m..Len(text) /\ text[e[p]] = c
                         /\ Inside(text, c, m, tokens, e[p])
           Bad == {p \in m..(Len(text) + 1) : Inside(text, c, m, tokens, p) /\ ~Reaches(p)}
<1>1. Len(text) \in Nat /\ c # "word"
  <2>1. Len(text) \in Nat
    BY DEF Text
  <2>2. c # "word"
    BY DEF Quotes
  <2> QED BY <2>1, <2>2
<1>2. Bad = {}
  <2> SUFFICES ASSUME Bad # {} PROVE FALSE
    OBVIOUS
  <2>1. PICK p \in Bad : \A q \in Bad : q <= p
    <3>1. Bad \subseteq 1..(Len(text) + 1) /\ Len(text) + 1 \in Nat
      BY <1>1
    <3> HIDE DEF Bad
    <3> QED BY <3>1, MaxIsGreatest
  <2>2. p \in m..(Len(text) + 1) /\ Inside(text, c, m, tokens, p) /\ ~Reaches(p) /\ p \in Nat
    BY <1>1
  <2>3. ASSUME NEW q \in Nat, q > p, Inside(text, c, m, tokens, q), e[p] = e[q] PROVE FALSE
    <3>1. q \in m..(Len(text) + 1) /\ q \notin Bad
      <4>1. ~(q <= p)
        BY <1>1, <2>2, <2>3
      <4>2. q \in m..(Len(text) + 1)
        BY <2>3 DEF Inside
      <4> HIDE DEF Bad
      <4> QED BY <2>1, <4>1, <4>2
    <3>2. Reaches(q)
      BY <2>3, <3>1
    <3> HIDE DEF Bad
    <3> QED BY <2>2, <2>3, <3>2
  <2>4. p \in 1..(Len(text) + 2)
    BY <1>1, <2>2
  <2> HIDE DEF Bad
  <2>5. CASE p > Len(text)
    <3>1. p - 1 = Len(text)
      BY <1>1, <2>2, <2>5
    <3> QED BY <2>2, <3>1, AfterSteps DEF Inside, EndsOutside
  <2>6. CASE p <= Len(text) /\ text[p] = c
    <3>1. e[p] = p
      BY <1>1, <2>4, <2>6 DEF QuoteEnds
    <3> QED BY <1>1, <2>2, <2>6, <3>1
  <2>7. CASE p <= Len(text) /\ text[p] # c /\ text[p] = Slash
    <3>1. e[p] = e[p + 2]
      BY <1>1, <2>4, <2>7 DEF QuoteEnds
    <3>2. Inside(text, c, m, tokens, p + 2)
      BY <2>2, <2>7, EscapedInside
    <3> QED BY <2>2, <2>3, <3>1, <3>2
  <2>8. CASE p <= Len(text) /\ text[p] # c /\ text[p] # Slash
    <3>1. e[p] = e[p + 1]
      BY <1>1, <2>4, <2>8 DEF QuoteEnds
    <3>2. Inside(text, c, m, tokens, p + 1)
      BY <1>1, <2>2, <2>8, TakenInside
    <3> QED BY <2>2, <2>3, <3>1, <3>2
  <2> QED BY <1>1, <2>2, <2>5, <2>6, <2>7, <2>8
<1>3. m \in m..(Len(text) + 1)
  BY <1>1
<1> QED BY <1>2, <1>3

LEMMA WordLoop ==
  ASSUME NEW text \in Text, NEW m \in 1..(Len(text) + 1), NEW tokens, NEW e, WordEnds(text, e),
         EndsOutside(text), \A k \in 1..Len(text) : text[k] # "#",
         NEW p \in Nat, Inside(text, "word", m, tokens, p)
  PROVE  /\ Inside(text, "word", m, tokens, e[p]) /\ e[p] \in p..(Len(text) + 1)
         /\ e[p] <= Len(text) => text[e[p]] \in Quotes \cup Blanks \cup Operators
<1> DEFINE Reaches(q) ==
             /\ Inside(text, "word", m, tokens, e[q]) /\ e[q] \in q..(Len(text) + 1)
             /\ e[q] <= Len(text) => text[e[q]] \in Quotes \cup Blanks \cup Operators
           Bad == {q \in m..(Len(text) + 1) : Inside(text, "word", m, tokens, q) /\ ~Reaches(q)}
<1>1. Len(text) \in Nat
  BY DEF Text
<1>2. Bad = {}
  <2> SUFFICES ASSUME Bad # {} PROVE FALSE
    OBVIOUS
  <2>1. PICK q \in Bad : \A r \in Bad : r <= q
    <3>1. Bad \subseteq 1..(Len(text) + 1) /\ Len(text) + 1 \in Nat
      BY <1>1
    <3> HIDE DEF Bad
    <3> QED BY <3>1, MaxIsGreatest
  <2>2. q \in m..(Len(text) + 1) /\ Inside(text, "word", m, tokens, q) /\ ~Reaches(q) /\ q \in Nat
    BY <1>1
  <2>3. ASSUME NEW r \in Nat, r > q, Inside(text, "word", m, tokens, r), e[q] = e[r] PROVE FALSE
    <3>1. r \in m..(Len(text) + 1) /\ r \notin Bad
      <4>1. ~(r <= q)
        BY <1>1, <2>2, <2>3
      <4>2. r \in m..(Len(text) + 1)
        BY <2>3 DEF Inside
      <4> HIDE DEF Bad
      <4> QED BY <2>1, <4>1, <4>2
    <3>2. Reaches(r)
      BY <2>3, <3>1
    <3>3. e[q] \in q..(Len(text) + 1)
      BY <1>1, <2>2, <2>3, <3>2
    <3> HIDE DEF Bad
    <3> QED BY <2>2, <2>3, <3>2, <3>3
  <2>4. q \in 1..(Len(text) + 2)
    BY <1>1, <2>2
  <2> HIDE DEF Bad
  <2>5. CASE q > Len(text)
    <3>1. e[q] = q
      BY <1>1, <2>4, <2>5 DEF WordEnds
    <3> QED BY <1>1, <2>2, <2>5, <3>1
  <2>6. CASE q <= Len(text) /\ text[q] = Slash
    <3>1. e[q] = e[q + 2]
      BY <1>1, <2>4, <2>6 DEF WordEnds
    <3>2. Inside(text, "word", m, tokens, q + 2)
      BY <2>2, <2>6, EscapedInside
    <3> QED BY <2>2, <2>3, <3>1, <3>2
  <2>7. CASE q <= Len(text) /\ text[q] # Slash /\ IsControl(text[q])
    <3>1. e[q] = q
      BY <1>1, <2>4, <2>7 DEF WordEnds
    <3>2. text[q] \in Quotes \cup Blanks \cup Operators
      BY <2>7 DEF IsControl
    <3> QED BY <1>1, <2>2, <2>7, <3>1, <3>2
  <2>8. CASE q <= Len(text) /\ text[q] # Slash /\ ~IsControl(text[q])
    <3>1. e[q] = e[q + 1]
      BY <1>1, <2>4, <2>8 DEF WordEnds
    <3>2. text[q] # "#"
      BY <1>1, <2>2, <2>8
    <3>3. Inside(text, "word", m, tokens, q + 1)
      BY <1>1, <2>2, <2>8, <3>2, TakenInside
    <3> QED BY <2>2, <2>3, <3>1, <3>3
  <2> QED BY <1>1, <2>2, <2>5, <2>6, <2>7, <2>8
<1>3. p \in m..(Len(text) + 1)
  BY DEF Inside
<1> QED BY <1>2, <1>3

-----------------------------------------------------------------------------
(***************************************************************************)
(* The automaton between two tokens.                                       *)
(***************************************************************************)

Vectors == [elems : Seq(Text), max_size : Nat]

(* A growing vector keeps its elements. *)
LEMMA VectorGrows ==
  ASSUME NEW v \in Vectors, NEW x \in Text
  PROVE  /\ EmplaceBack(v, x) \in Vectors /\ EmplaceBack(v, x).elems = Append(v.elems, x)
         /\ PushBackStr(v, x) \in Vectors /\ PushBackStr(v, x).elems = Append(v.elems, x)
<1>1. ASSUME NEW w \in Vectors PROVE ResizeVector(w) \in Vectors /\ ResizeVector(w).elems = w.elems
  BY DEF ResizeVector, Vectors
<1>2. Append(v.elems, x) \in Seq(Text)
  BY AppendProperties DEF Vectors
<1>3. ASSUME NEW w \in Vectors, w.elems = v.elems
      PROVE  EmplaceBack(w, x) \in Vectors /\ EmplaceBack(w, x).elems = Append(v.elems, x)
  <2>1. ResizeVector(w) \in Vectors /\ ResizeVector(w).elems = v.elems
    BY <1>1, <1>3
  <2> QED BY <1>2, <2>1 DEF EmplaceBack, Vectors
<1> QED BY <1>1, <1>3 DEF PushBackStr

(* The automaton before position i of a text, where the tokens so far are  *)
(* elems and the next character begins something new.                      *)
Between(text, i, elems) ==
  LET a == After(text, i - 1)
  IN  /\ i \in 1..(Len(text) + 1)
      /\ a.in \in Operators \cup {NoQuote, "word"} /\ ~a.slash
      /\ a.in = NoQuote => a.token = << >>
      /\ Ended(a).tokens = elems
      /\ i <= Len(text) => /\ a.in = "word" => text[i] \in Quotes \cup Blanks \cup Operators
                           /\ a.in \in Operators => text[i] # a.in

(* What ending a token does. *)
LEMMA EndedFields ==
  ASSUME NEW a \in ScanStates
  PROVE  /\ Ended(a).slash = a.slash
         /\ a.in \in Operators \cup {"word"} =>
              /\ Ended(a).in = NoQuote /\ Ended(a).token = << >>
              /\ Ended(a).tokens = Append(a.tokens, a.token)
         /\ a.in \notin Operators \cup {"word"} => Ended(a) = a
  BY DEF Ended, ScanStates

(* What the next character makes of it. *)
LEMMA BetweenScan ==
  ASSUME NEW text \in Text, NEW i \in 1..Len(text), NEW elems, Between(text, i, elems),
         text[i] # "#"
  PROVE  LET c == text[i]
             b == After(text, i)
         IN  /\ b \in ScanStates
             /\ c \in Blanks => b.in = NoQuote /\ ~b.slash /\ b.token = << >> /\ b.tokens = elems
             /\ c \in Quotes => b.in = c /\ ~b.slash /\ b.token = << >> /\ b.tokens = elems
             /\ c \in Operators => b.in = c /\ ~b.slash /\ b.token = << c >> /\ b.tokens = elems
             /\ c = Slash => b.in = "word" /\ b.slash /\ b.token = << >> /\ b.tokens = elems
             /\ ~IsControl(c) => b.in = "word" /\ ~b.slash /\ b.token = << c >> /\ b.tokens = elems
<1> DEFINE c == text[i]
<1>1. PICK a \in ScanStates : a = After(text, i - 1)
  <2>1. Len(text) \in Nat /\ i - 1 \in 0..Len(text)
    BY DEF Text
  <2> QED BY <2>1, AfterSteps
<1>2. After(text, i) = Scan(a, c) /\ After(text, i) \in ScanStates /\ c \in Symbols
  <2>1. Len(text) \in Nat /\ i \in 0..Len(text) /\ c \in Symbols
    BY DEF Text
  <2> QED BY <1>1, <2>1, AfterSteps
<1>3. /\ a.in \in Operators \cup {NoQuote, "word"} /\ ~a.slash /\ a.in \notin Quotes \cup {"comment"}
      /\ a.in = NoQuote => a.token = << >>
      /\ Ended(a).tokens = elems
      /\ a.in = "word" => c \in Quotes \cup Blanks \cup Operators
      /\ a.in \in Operators => c # a.in
  <2>1. i <= Len(text)
    BY DEF Text
  <2>2. /\ a.in \in Operators \cup {NoQuote, "word"} /\ ~a.slash
        /\ a.in = NoQuote => a.token = << >>
        /\ Ended(a).tokens = elems
        /\ a.in = "word" => c \in Quotes \cup Blanks \cup Operators
        /\ a.in \in Operators => c # a.in
    <3> HIDE DEF c
    <3> QED BY <1>1, <2>1 DEF Between, c
  <2>3. \A w \in Operators \cup {NoQuote, "word"} : w \notin Quotes \cup {"comment"}
    BY DEF Operators, Quotes, NoQuote
  <2> HIDE DEF c
  <2> QED BY <2>2, <2>3
<1>4. PICK d \in ScanStates : d = Ended(a)
  BY EndedTyped
<1>5. d.in = NoQuote /\ d.token = << >> /\ d.tokens = elems /\ ~d.slash
  BY <1>3, <1>4, EndedFields
<1>6. \A w \in Symbols : Enters(a, w) = [d EXCEPT !.in = w]
  BY <1>4 DEF Enters
<1> HIDE DEF c
<1>7. CASE c \in Blanks
  <2>1. Scan(a, c) = d /\ c \notin Quotes \cup Operators \cup {Slash}
    BY <1>3, <1>4, <1>7 DEF Scan, Blanks, Quotes, Operators, Slash, Newline
  <2> QED BY <1>2, <1>5, <1>7, <2>1 DEF IsControl, c
<1>8. CASE c \in Quotes
  <2>1. c \notin Blanks \cup Operators \cup {Slash} /\ c # "#"
    BY <1>8 DEF Blanks, Quotes, Operators, Slash, Newline
  <2>2. Scan(a, c) = [d EXCEPT !.in = c]
    BY <1>2, <1>3, <1>6, <1>8, <2>1 DEF Scan
  <2> QED BY <1>2, <1>5, <1>8, <2>1, <2>2 DEF IsControl, ScanStates, c
<1>9. CASE c \in Operators
  <2>1. c \notin Blanks \cup Quotes \cup {Slash} /\ c # "#"
    BY <1>9 DEF Blanks, Quotes, Operators, Slash, Newline
  <2>2. Scan(a, c) = [[d EXCEPT !.in = c] EXCEPT !.token = << c >>]
    BY <1>2, <1>3, <1>6, <1>9, <2>1 DEF Scan
  <2> QED BY <1>2, <1>5, <1>9, <2>1, <2>2 DEF IsControl, ScanStates, c
<1>10. CASE c = Slash
  <2>1. c \notin Blanks \cup Quotes \cup Operators /\ "word" \in Symbols /\ a.in # "word"
    BY <1>3, <1>10 DEF Blanks, Quotes, Operators, Slash, Newline, Symbols
  <2>2. Scan(a, c) = [[d EXCEPT !.in = "word"] EXCEPT !.slash = TRUE]
    BY <1>2, <1>3, <1>6, <1>10, <2>1 DEF Scan
  <2> QED BY <1>2, <1>5, <1>10, <2>1, <2>2 DEF IsControl, ScanStates, c
<1>11. CASE ~IsControl(c)
  <2>1. c \notin Blanks \cup Quotes \cup Operators \cup {Slash} /\ "word" \in Symbols
    BY <1>11 DEF IsControl, Symbols
  <2>2. a.in # "word" /\ c # "#"
    BY <1>3, <2>1 DEF c
  <2>3. Scan(a, c) = [[d EXCEPT !.in = "word"] EXCEPT !.token = << c >>]
    BY <1>2, <1>3, <1>6, <2>1, <2>2 DEF Scan
  <2> QED BY <1>2, <1>5, <2>1, <2>3 DEF ScanStates, c
<1> QED BY <1>7, <1>8, <1>9, <1>10, <1>11 DEF IsControl, c

-----------------------------------------------------------------------------
(***************************************************************************)
(* The turns of parse, each beside what the automaton does meanwhile.      *)
(***************************************************************************)

ParseStates == [i : Nat, vec : Vectors, panics : BOOLEAN]

(* parse has come to a place between two tokens and has those before it.   *)
InOrder(text, s) == s \in ParseStates /\ ~s.panics /\ Between(text, s.i, s.vec.elems)

(* A turn keeps the order and gets further on in the text. *)
Later(s, j) == j > s.i
Onward(text, s, t) == InOrder(text, t) /\ Later(s, t.i)

LEMMA MovesOn ==
  ASSUME NEW text, NEW s, InOrder(text, s), NEW j \in Nat, Later(s, j),
         NEW v \in Vectors, Between(text, j, v.elems),
         NEW t, t = [s EXCEPT !.i = j, !.vec = v]
  PROVE  Onward(text, s, t)
<1>1. t \in ParseStates /\ ~t.panics /\ t.i = j /\ t.vec = v
  BY DEF InOrder, ParseStates
<1> QED BY <1>1 DEF InOrder, Onward

LEMMA TwoOfThem == ASSUME NEW c \in Symbols PROVE Append(<< c >>, c) = << c, c >>
<1>1. << c >> \in Seq(Symbols) /\ Len(<< c >>) = 1 /\ << c, c >> \in Seq(Symbols) /\ Len(<< c, c >>) = 2
  OBVIOUS
<1>2. PICK s \in Seq(Symbols), r \in Seq(Symbols) : s = << c, c >> /\ r = << c >>
  BY <1>1
<1>3. PICK n \in Nat : n = 1
  OBVIOUS
<1>4. Len(s) = n + 1 /\ Len(r) = n /\ s[n + 1] = c /\ \A j \in 1..n : s[j] = r[j]
  BY <1>2, <1>3
<1>5. s = Append(r, c)
  BY <1>4
<1> QED BY <1>2, <1>5

(* A turn at an operator: one character or two of the same. *)
LEMMA OperatorTurn ==
  ASSUME NEW l, NEW text, CutAtHash(l, text), NEW s, InOrder(text, s), s.i <= Len(text),
         text[s.i] \in Operators
  PROVE  Onward(text, s, HandleOperator(s, l))
<1>1. PICK i \in 1..Len(text) : i = s.i
  BY DEF InOrder, Between, ParseStates
<1>2. /\ l \in Text /\ text \in Text /\ Len(text) \in Nat /\ Len(l) \in Nat /\ Len(text) <= Len(l)
      /\ \A k \in 1..Len(text) : text[k] \in Symbols /\ text[k] = l[k] /\ text[k] # "#"
      /\ Len(text) < Len(l) => l[Len(text) + 1] = "#"
  BY DEF CutAtHash, Text
<1>3. PICK c \in Symbols : c = text[i]
  BY <1>2
<1>4. c \in Operators /\ c # "#" /\ c = l[i]
  BY <1>1, <1>2, <1>3
<1>5. PICK elems \in Seq(Text) : elems = s.vec.elems /\ Between(text, i, elems)
  BY <1>1 DEF InOrder, ParseStates, Vectors
<1> DEFINE b == After(text, i)
<1>6. b \in ScanStates /\ b.in = c /\ ~b.slash /\ b.token = << c >> /\ b.tokens = elems
  BY <1>2, <1>3, <1>4, <1>5, BetweenScan
<1> HIDE DEF b
<1>7. /\ << c >> \in Text /\ << c, c >> \in Text /\ Append(<< c >>, c) = << c, c >>
      /\ i + 1 \in 1..(Len(text) + 1) /\ (i + 1) - 1 = i
  <2>1. << c >> \in Text /\ << c, c >> \in Text
    BY DEF Text
  <2>2. Append(<< c >>, c) = << c, c >>
    BY TwoOfThem
  <2>3. i + 1 \in 1..(Len(text) + 1) /\ (i + 1) - 1 = i
    BY <1>2
  <2> QED BY <2>1, <2>2, <2>3
<1>8. CASE i < Len(l) /\ l[i + 1] = c
  <2>1. i # Len(text)
    BY <1>2, <1>4, <1>8
  <2>2. PICK k \in 1..Len(text) : k = i + 1
    BY <1>2, <2>1
  <2>3. k - 1 = i /\ text[k] = c /\ i + 2 = k + 1 /\ k + 1 \in 1..(Len(text) + 1) /\ (k + 1) - 1 = k
    BY <1>2, <1>8, <2>2
  <2>4. After(text, k) = Scan(b, c) /\ After(text, k) \in ScanStates
    <3>1. k \in 0..Len(text)
      BY <2>2
    <3> QED BY <1>2, <2>2, <2>3, <3>1, AfterSteps DEF b
  <2>5. PICK d \in ScanStates : d = [b EXCEPT !.token = Append(@, c), !.slash = FALSE,
                                              !.hidden = @ \/ c = "#"]
    <3>1. Append(b.token, c) \in Text
      BY <1>6, <1>7
    <3>2. PICK h \in BOOLEAN : h = (b.hidden \/ c = "#")
      OBVIOUS
    <3>3. [b EXCEPT !.token = Append(@, c), !.slash = FALSE, !.hidden = h] \in ScanStates
      BY <1>6, <3>1 DEF ScanStates
    <3> QED BY <3>2, <3>3
  <2>6. d.in = c /\ ~d.slash /\ d.token = << c, c >> /\ d.tokens = elems
    BY <1>6, <1>7, <2>5 DEF ScanStates
  <2>7. Scan(b, c) = Ended(d)
    <3>1. c \notin Blanks \cup Quotes \cup {Slash, "comment"}
      BY <1>4 DEF Blanks, Quotes, Operators, Slash, Newline
    <3> QED BY <1>4, <1>6, <2>5, <3>1 DEF Scan
  <2>8. /\ After(text, k).in = NoQuote /\ ~After(text, k).slash /\ After(text, k).token = << >>
        /\ After(text, k).tokens = Append(elems, << c, c >>)
    BY <1>4, <2>4, <2>6, <2>7, EndedFields
  <2>9. Between(text, k + 1, Append(elems, << c, c >>))
    <3>1. NoQuote \notin Operators \cup {"word"}
      BY DEF NoQuote, Operators
    <3>2. Ended(After(text, k)).tokens = Append(elems, << c, c >>)
      BY <2>4, <2>8, <3>1, EndedFields
    <3>3. PICK a : a = After(text, k)
      OBVIOUS
    <3>4. a.in = NoQuote /\ ~a.slash /\ a.token = << >>
          /\ Ended(a).tokens = Append(elems, << c, c >>)
      BY <2>8, <3>2, <3>3
    <3> QED BY <2>3, <3>1, <3>3, <3>4 DEF Between
  <2>10. HandleOperator(s, l) = [s EXCEPT !.i = i + 2, !.vec = PushBackStr(s.vec, << c, c >>)]
    BY <1>1, <1>4, <1>8 DEF HandleOperator
  <2>11. PushBackStr(s.vec, << c, c >>) \in Vectors
         /\ PushBackStr(s.vec, << c, c >>).elems = Append(elems, << c, c >>)
    BY <1>5, <1>7, VectorGrows DEF InOrder, ParseStates
  <2>12. PICK v \in Vectors, j \in Nat : v = PushBackStr(s.vec, << c, c >>) /\ j = i + 2
    BY <2>11
  <2>13. Between(text, j, v.elems)
    BY <2>3, <2>9, <2>11, <2>12
  <2>14. Later(s, j)
    BY <1>1, <2>12 DEF Later
  <2>15. HandleOperator(s, l) = [s EXCEPT !.i = j, !.vec = v]
    BY <2>10, <2>12
  <2> QED BY <2>13, <2>14, <2>15, MovesOn
<1>9. CASE ~(i < Len(l) /\ l[i + 1] = c)
  <2>1. i + 1 <= Len(text) => text[i + 1] # c
    BY <1>2, <1>9
  <2>2. Ended(b).tokens = Append(elems, << c >>)
    BY <1>4, <1>6, EndedFields
  <2>3. Between(text, i + 1, Append(elems, << c >>))
    <3>1. c \notin {NoQuote, "word"}
      BY <1>4 DEF Operators, NoQuote
    <3> QED BY <1>4, <1>6, <1>7, <2>1, <2>2, <3>1 DEF Between, b
  <2>4. HandleOperator(s, l) = [s EXCEPT !.i = i + 1, !.vec = PushBackStr(s.vec, << c >>)]
    BY <1>1, <1>4, <1>9 DEF HandleOperator
  <2>5. PushBackStr(s.vec, << c >>) \in Vectors
        /\ PushBackStr(s.vec, << c >>).elems = Append(elems, << c >>)
    BY <1>5, <1>7, VectorGrows DEF InOrder, ParseStates
  <2>6. PICK v \in Vectors, j \in Nat : v = PushBackStr(s.vec, << c >>) /\ j = i + 1
    BY <2>5
  <2>7. Between(text, j, v.elems)
    BY <2>3, <2>5, <2>6
  <2>8. Later(s, j)
    BY <1>1, <2>6 DEF Later
  <2>9. HandleOperator(s, l) = [s EXCEPT !.i = j, !.vec = v]
    BY <2>4, <2>6
  <2> QED BY <2>7, <2>8, <2>9, MovesOn
<1> QED BY <1>8, <1>9

(* A turn at a blank. *)
LEMMA BlankTurn ==
  ASSUME NEW text \in Text, NEW s, InOrder(text, s), s.i <= Len(text), text[s.i] \in Blanks
  PROVE  Onward(text, s, [s EXCEPT !.i = @ + 1])
<1>1. PICK i \in 1..Len(text) : i = s.i
  BY DEF InOrder, Between, ParseStates, Text
<1>2. PICK elems \in Seq(Text) : elems = s.vec.elems /\ Between(text, i, elems)
  BY <1>1 DEF InOrder, ParseStates, Vectors
<1>3. text[i] \in Blanks /\ text[i] # "#"
  BY <1>1 DEF Blanks, Newline
<1>4. PICK b \in ScanStates : b = After(text, i) /\ b.in = NoQuote /\ ~b.slash /\ b.token = << >>
                              /\ b.tokens = elems
  BY <1>2, <1>3, BetweenScan
<1>5. PICK j \in Nat : j = i + 1 /\ j - 1 = i /\ j \in 1..(Len(text) + 1)
  <2>1. Len(text) \in Nat /\ i + 1 \in Nat /\ (i + 1) - 1 = i /\ i + 1 \in 1..(Len(text) + 1)
    BY DEF Text
  <2> QED BY <2>1
<1>6. NoQuote \notin Operators \cup {"word"}
  BY DEF NoQuote, Operators
<1>7. Ended(b).tokens = elems
  BY <1>4, <1>6, EndedFields
<1>8. Between(text, j, elems)
  BY <1>4, <1>5, <1>6, <1>7 DEF Between
<1>9. s \in ParseStates /\ s.vec \in Vectors
  BY DEF InOrder, ParseStates
<1>10. Later(s, j)
  BY <1>1, <1>5 DEF Later
<1>11. PICK v \in Vectors : v = s.vec
  BY <1>9
<1>12. Between(text, j, v.elems)
  BY <1>2, <1>8, <1>11
<1>13. [s EXCEPT !.i = @ + 1] = [s EXCEPT !.i = j]
  BY <1>1, <1>5
<1>14. [s EXCEPT !.i = j] = [s EXCEPT !.i = j, !.vec = v]
  BY <1>9, <1>11 DEF ParseStates
<1>15. [s EXCEPT !.i = @ + 1] = [s EXCEPT !.i = j, !.vec = v]
  BY <1>13, <1>14
<1> QED BY <1>10, <1>12, <1>15, MovesOn

(* A turn at a quote: its end is where the automaton leaves the quote. *)
LEMMA QuotesTurn ==
  ASSUME NEW text \in Text, EndsOutside(text), NEW s, InOrder(text, s), s.i <= Len(text),
         text[s.i] \in Quotes
  PROVE  Onward(text, s, HandleQuotes(s, text))
<1>1. PICK i \in 1..Len(text) : i = s.i
  BY DEF InOrder, Between, ParseStates, Text
<1>2. PICK elems \in Seq(Text) : elems = s.vec.elems /\ Between(text, i, elems)
  BY <1>1 DEF InOrder, ParseStates, Vectors
<1>3. PICK c \in Quotes : c = text[i] /\ c # "#"
  BY <1>1 DEF Quotes
<1>4. Len(text) \in Nat
  BY DEF Text
<1>5. PICK b \in ScanStates : b = After(text, i) /\ b.in = c /\ ~b.slash /\ b.token = << >>
                              /\ b.tokens = elems
  BY <1>2, <1>3, BetweenScan
<1>6. PICK m \in 1..(Len(text) + 1) : m = i + 1 /\ m - 1 = i /\ m \in m..(Len(text) + 1)
  BY <1>4
<1>7. Inside(text, c, m, elems, m)
  <2>1. Piece(text, m, m - 1) = UnslashStart
    BY PieceSteps
  <2> QED BY <1>5, <1>6, <2>1 DEF Inside, UnslashStart
<1>8. PICK e : QuoteEnds(text, c, e) /\ QuoteEnd(text, i) = e[m]
  BY <1>3, <1>6, QuoteEndsExist
<1>9. e[m] \in m..Len(text) /\ text[e[m]] = c /\ Inside(text, c, m, elems, e[m])
  BY <1>7, <1>8, QuoteLoop
<1>10. PICK q \in 1..Len(text) : q = e[m] /\ q >= m /\ q # 0
  BY <1>4, <1>9
<1>11. q - 1 \in 0..Len(text) /\ q \in 0..Len(text)
  BY <1>4
<1>12. PICK a \in ScanStates :
         /\ a = After(text, q - 1) /\ a.in = c /\ ~a.slash /\ a.tokens = elems
         /\ Piece(text, m, q - 1) = [word |-> a.token, slash |-> FALSE]
  BY <1>9, <1>10, <1>11, AfterSteps DEF Inside
<1>13. /\ After(text, q) = Ended([a EXCEPT !.in = "word"])
       /\ [a EXCEPT !.in = "word"] \in ScanStates
  <2>1. After(text, q) = Scan(a, c)
    BY <1>9, <1>10, <1>12, AfterSteps
  <2>2. c # "comment" /\ c # Slash /\ "word" \in Symbols
    BY DEF Quotes, Slash, Symbols
  <2>3. Scan(a, c) = Ended([a EXCEPT !.in = "word"])
    BY <1>12, <2>2 DEF Scan
  <2> QED BY <2>1, <2>2, <2>3 DEF ScanStates
<1>14. /\ After(text, q).in = NoQuote /\ ~After(text, q).slash /\ After(text, q).token = << >>
       /\ After(text, q).tokens = Append(elems, a.token) /\ After(text, q) \in ScanStates
  <2>1. PICK d \in ScanStates : d = [a EXCEPT !.in = "word"]
    BY <1>13
  <2>2. d.in = "word" /\ ~d.slash /\ d.tokens = elems /\ d.token = a.token
    BY <1>12, <2>1 DEF ScanStates
  <2> QED BY <1>13, <2>1, <2>2, EndedFields, EndedTyped
<1>15. NoQuote \notin Operators \cup {"word"}
  BY DEF NoQuote, Operators
<1>16. Between(text, q + 1, Append(elems, a.token))
  <2>1. PICK d \in ScanStates : d = After(text, q)
    BY <1>14
  <2>2. d.in = NoQuote /\ ~d.slash /\ d.token = << >> /\ Ended(d).tokens = Append(elems, a.token)
    BY <1>14, <1>15, <2>1, EndedFields
  <2>3. (q + 1) - 1 = q /\ q + 1 \in 1..(Len(text) + 1)
    BY <1>4
  <2> QED BY <1>15, <2>1, <2>2, <2>3 DEF Between
<1>17. PICK word \in Text : word = a.token /\ word = WithoutSlashes(SubSeq(text, i + 1, q - 1))
  <2>1. Piece(text, m, q - 1).word = a.token
    BY <1>12
  <2>2. WithoutSlashes(SubSeq(text, m, q - 1)) = a.token
    BY <2>1, WordOfUnslashes DEF Piece
  <2> QED BY <1>6, <2>2 DEF ScanStates
<1>18. HandleQuotes(s, text) = [s EXCEPT !.i = q + 1, !.vec = EmplaceBack(s.vec, word)]
  BY <1>1, <1>8, <1>10, <1>17 DEF HandleQuotes
<1>19. PICK v \in Vectors :
         v = EmplaceBack(s.vec, word) /\ v.elems = Append(elems, word)
  BY <1>2, VectorGrows DEF InOrder, ParseStates
<1>20. PICK j \in Nat : j = q + 1
  BY <1>10
<1>21. Later(s, j)
  BY <1>1, <1>4, <1>6, <1>10, <1>20 DEF Later
<1>22. Between(text, j, v.elems)
  BY <1>16, <1>17, <1>19, <1>20
<1>23. HandleQuotes(s, text) = [s EXCEPT !.i = j, !.vec = v]
  BY <1>18, <1>19, <1>20
<1> QED BY <1>21, <1>22, <1>23, MovesOn

(* The first character of a word, with the one behind it when it is a      *)
(* backslash.                                                              *)
LEMMA WordBegins ==
  ASSUME NEW text \in Text, EndsOutside(text), \A k \in 1..Len(text) : text[k] # "#",
         NEW i \in 1..Len(text), NEW elems, Between(text, i, elems),
         text[i] \notin Operators \cup Quotes \cup Blanks, NEW e, WordEnds(text, e)
  PROVE  \E p \in Nat : Inside(text, "word", i, elems, p) /\ e[i] = e[p] /\ p \in (i + 1)..(i + 2)
<1>1. Len(text) \in Nat /\ text[i] \in Symbols /\ text[i] # "#" /\ i \in i..Len(text)
      /\ i \in 1..(Len(text) + 1) /\ i \in 1..(Len(text) + 2) /\ ~(i > Len(text))
  BY DEF Text
<1> DEFINE c == text[i]
           b == After(text, i)
<1>2. Piece(text, i, i) = Unslash(UnslashStart, c)
  BY <1>1, PieceSteps
<1>3. e[i] = IF c = Slash THEN e[i + 2] ELSE IF IsControl(c) THEN i ELSE e[i + 1]
  BY <1>1 DEF WordEnds
<1>4. b \in ScanStates
  BY <1>1, BetweenScan
<1>5. CASE ~IsControl(c)
  <2>1. b.in = "word" /\ ~b.slash /\ b.token = << c >> /\ b.tokens = elems
    BY <1>1, <1>5, BetweenScan
  <2>2. c # Slash
    BY <1>5 DEF IsControl
  <2>3. Piece(text, i, i) = [word |-> << c >>, slash |-> FALSE]
    <3> HIDE DEF c
    <3> QED BY <1>2, <2>2 DEF Unslash, UnslashStart
  <2>4. PICK p \in Nat : p = i + 1
    OBVIOUS
  <2>5. p - 1 = i /\ p \in i..(Len(text) + 1) /\ p \in (i + 1)..(i + 2)
    BY <1>1, <2>4
  <2>6. Inside(text, "word", i, elems, p)
    <3> HIDE DEF c
    <3> QED BY <2>1, <2>3, <2>5 DEF Inside
  <2>7. e[i] = e[p]
    BY <1>3, <1>5, <2>2, <2>4
  <2> QED BY <2>5, <2>6, <2>7
<1>6. CASE c = Slash
  <2>1. b.in = "word" /\ b.slash /\ b.token = << >> /\ b.tokens = elems
    BY <1>1, <1>6, BetweenScan
  <2>2. Piece(text, i, i) = [word |-> << >>, slash |-> TRUE]
    <3> HIDE DEF c
    <3> QED BY <1>2, <1>6 DEF Unslash, UnslashStart
  <2>3. i # Len(text)
    <3>1. After(text, Len(text)) = Scans(text)
      BY AfterSteps
    <3> HIDE DEF c
    <3> QED BY <2>1, <3>1 DEF EndsOutside
  <2>4. PICK q \in 1..Len(text) : q = i + 1
    BY <1>1, <2>3
  <2>5. q - 1 = i /\ q \in i..Len(text) /\ text[q] \in Symbols
    BY <1>1, <2>4 DEF Text
  <2>6. After(text, q) = Scan(b, text[q])
    BY <2>4, <2>5, AfterSteps
  <2>7. Piece(text, i, q) = Unslash(Piece(text, i, i), text[q])
    BY <1>1, <2>5, PieceSteps
  <2>8. After(text, q) = [b EXCEPT !.token = Append(@, text[q]), !.slash = FALSE,
                                   !.hidden = @ \/ text[q] = "#"]
    <3> HIDE DEF b, c
    <3> QED BY <2>1, <2>6 DEF Scan
  <2>9. /\ After(text, q).in = "word" /\ ~After(text, q).slash /\ After(text, q).tokens = elems
        /\ After(text, q).token = Append(<< >>, text[q])
    <3> HIDE DEF b, c
    <3> QED BY <1>4, <2>1, <2>8 DEF ScanStates
  <2>10. Piece(text, i, q) = [word |-> After(text, q).token, slash |-> FALSE]
    <3> HIDE DEF b, c
    <3> QED BY <2>2, <2>7, <2>9 DEF Unslash
  <2>11. PICK p \in Nat : p = q + 1
    BY <2>4
  <2>12. p - 1 = q /\ p \in i..(Len(text) + 1) /\ p \in (i + 1)..(i + 2) /\ p = i + 2
    BY <1>1, <2>4, <2>11
  <2>13. Inside(text, "word", i, elems, p)
    <3> HIDE DEF b, c
    <3> QED BY <2>9, <2>10, <2>12 DEF Inside
  <2>14. e[i] = e[p]
    BY <1>3, <1>6, <2>12
  <2> QED BY <2>12, <2>13, <2>14
<1>7. c = Slash \/ ~IsControl(c)
  BY DEF IsControl
<1> QED BY <1>5, <1>6, <1>7

(* A turn at a word. *)
LEMMA WordTurn ==
  ASSUME NEW text \in Text, EndsOutside(text), \A k \in 1..Len(text) : text[k] # "#",
         NEW s, InOrder(text, s), s.i <= Len(text),
         text[s.i] \notin Operators \cup Quotes \cup Blanks
  PROVE  Onward(text, s, HandleStr(s, text))
<1>1. PICK i \in 1..Len(text) : i = s.i
  BY DEF InOrder, Between, ParseStates, Text
<1>2. PICK elems \in Seq(Text) : elems = s.vec.elems /\ Between(text, i, elems)
  BY <1>1 DEF InOrder, ParseStates, Vectors
<1>3. PICK e : WordEnds(text, e) /\ WordEnd(text, i) = e[i]
  BY WordEndsExist
<1>4. Len(text) \in Nat /\ i \in Nat /\ i \in 1..(Len(text) + 1)
  BY DEF Text
<1>5. PICK p \in Nat : Inside(text, "word", i, elems, p) /\ e[i] = e[p] /\ p \in (i + 1)..(i + 2)
  BY <1>1, <1>2, <1>3, WordBegins
<1>6. /\ Inside(text, "word", i, elems, e[p]) /\ e[p] \in p..(Len(text) + 1)
      /\ e[p] <= Len(text) => text[e[p]] \in Quotes \cup Blanks \cup Operators
  BY <1>3, <1>4, <1>5, WordLoop
<1>7. PICK q \in Nat : q = e[p] /\ q > i /\ q <= Len(text) + 1 /\ q \in 1..(Len(text) + 1)
  BY <1>4, <1>5, <1>6
<1>8. q - 1 \in 0..Len(text) /\ WordEnd(text, i) = q
      /\ (IF q > Len(text) THEN Len(text) ELSE q - 1) = q - 1
  BY <1>3, <1>4, <1>5, <1>7
<1>9. PICK a \in ScanStates :
        /\ a = After(text, q - 1) /\ a.in = "word" /\ ~a.slash /\ a.tokens = elems
        /\ Piece(text, i, q - 1) = [word |-> a.token, slash |-> FALSE]
  BY <1>6, <1>7, <1>8, AfterSteps DEF Inside
<1>10. PICK word \in Text : word = a.token /\ word = WithoutSlashes(SubSeq(text, i, q - 1))
  <2>1. Piece(text, i, q - 1).word = a.token
    BY <1>9
  <2>2. WithoutSlashes(SubSeq(text, i, q - 1)) = a.token
    BY <2>1, WordOfUnslashes DEF Piece
  <2> QED BY <2>2 DEF ScanStates
<1>11. Between(text, q, Append(elems, word))
  <2>1. "word" \notin Operators \cup {NoQuote}
    BY DEF NoQuote, Operators
  <2>2. Ended(a).tokens = Append(elems, word)
    BY <1>9, <1>10, EndedFields
  <2> QED BY <1>6, <1>7, <1>9, <2>1, <2>2 DEF Between
<1>12. HandleStr(s, text) = [s EXCEPT !.i = q, !.vec = EmplaceBack(s.vec, word)]
  BY <1>1, <1>8, <1>10 DEF HandleStr
<1>13. PICK v \in Vectors : v = EmplaceBack(s.vec, word) /\ v.elems = Append(elems, word)
  BY <1>2, VectorGrows DEF InOrder, ParseStates
<1>14. Later(s, q)
  BY <1>1, <1>7 DEF Later
<1>15. Between(text, q, v.elems)
  BY <1>11, <1>13
<1>16. HandleStr(s, text) = [s EXCEPT !.i = q, !.vec = v]
  BY <1>12, <1>13
<1> QED BY <1>14, <1>15, <1>16, MovesOn

-----------------------------------------------------------------------------
(***************************************************************************)
(* parse from the first turn to the last.                                  *)
(***************************************************************************)

(* What strtok leaves of a line, when it ends outside of quotes.            *)
Readable(l, text) ==
  CutAtHash(l, text) /\ EndsOutside(text) /\ Scans(text).in # "comment"

(* Every turn of parse keeps what it has in the order of the line. *)
LEMMA TurnKeeps ==
  ASSUME NEW l, NEW text, Readable(l, text), NEW s, InOrder(text, s)
  PROVE  /\ InOrder(text, Turn(s, text, l))
         /\ s.i <= Len(text) => Onward(text, s, Turn(s, text, l))
<1>1. CASE s.i > Len(text)
  <2>1. Turn(s, text, l) = s
    BY <1>1 DEF Turn
  <2>2. Len(text) \in Nat /\ s.i \in Nat
    BY DEF Readable, CutAtHash, Text, InOrder, ParseStates
  <2> QED BY <1>1, <2>1, <2>2
<1>2. CASE ~(s.i > Len(text))
  <2>1. /\ text \in Text /\ EndsOutside(text) /\ CutAtHash(l, text)
        /\ \A k \in 1..Len(text) : text[k] # "#"
    BY DEF Readable, CutAtHash
  <2>2. s.i <= Len(text)
    <3>1. Len(text) \in Nat /\ s.i \in Nat
      BY <2>1 DEF Text, InOrder, ParseStates
    <3> QED BY <1>2, <3>1
  <2>3. ~s.panics
    BY DEF InOrder
  <2>4. CASE text[s.i] \in Operators
    <3>1. s.i \in 1..Len(text)
      BY <2>1, <2>2 DEF InOrder, Between, Text
    <3>2. Turn(s, text, l) = HandleOperator(s, l)
      BY <1>2, <2>3, <2>4 DEF Turn
    <3> QED BY <2>1, <2>2, <2>4, <3>2, OperatorTurn DEF Onward
  <2>5. CASE text[s.i] \in Quotes
    <3>1. text[s.i] \notin Operators
      BY <2>5 DEF Quotes, Operators
    <3>2. Turn(s, text, l) = HandleQuotes(s, text)
      BY <1>2, <2>3, <2>5, <3>1 DEF Turn
    <3> QED BY <2>1, <2>2, <2>5, <3>2, QuotesTurn DEF Onward
  <2>6. CASE text[s.i] \in Blanks
    <3>1. text[s.i] \notin Operators \cup Quotes
      BY <2>6 DEF Quotes, Operators, Blanks, Newline
    <3>2. Turn(s, text, l) = [s EXCEPT !.i = @ + 1]
      BY <1>2, <2>3, <2>6, <3>1 DEF Turn
    <3> QED BY <2>1, <2>2, <2>6, <3>2, BlankTurn DEF Onward
  <2>7. CASE text[s.i] \notin Operators \cup Quotes \cup Blanks
    <3>1. Turn(s, text, l) = HandleStr(s, text)
      BY <1>2, <2>3, <2>7 DEF Turn
    <3> QED BY <2>1, <2>2, <2>7, <3>1, WordTurn DEF Onward
  <2> QED BY <2>4, <2>5, <2>6, <2>7
<1> QED BY <1>1, <1>2

ParseStart == [i |-> 1, vec |-> CreateVector, panics |-> FALSE]
OrderedStates(text) == {s \in ParseStates : InOrder(text, s)}

LEMMA ParseStartsInOrder ==
  ASSUME NEW text \in Text
  PROVE  ParseStart \in OrderedStates(text)
<1>1. Len(text) \in Nat /\ 1 \in 1..(Len(text) + 1) /\ 1 - 1 = 0
  BY DEF Text
<1>2. CreateVector \in Vectors /\ CreateVector.elems = << >>
  BY DEF CreateVector, Vectors
<1>3. ParseStart \in ParseStates /\ ParseStart.i = 1 /\ ParseStart.vec = CreateVector
      /\ ~ParseStart.panics
  BY <1>2 DEF ParseStart, ParseStates
<1>4. After(text, 0) = ScanStart /\ ScanStart \in ScanStates
  BY ScanStartTyped, AfterSteps
<1>5. /\ ScanStart.in = NoQuote /\ ~ScanStart.slash /\ ScanStart.token = << >>
      /\ ScanStart.tokens = << >>
  BY DEF ScanStart
<1>6. NoQuote \notin Operators \cup {"word"}
  BY DEF NoQuote, Operators
<1>7. Ended(ScanStart).tokens = << >>
  BY <1>4, <1>5, <1>6, EndedFields
<1>8. Between(text, 1, << >>)
  BY <1>1, <1>4, <1>5, <1>6, <1>7 DEF Between
<1>9. InOrder(text, ParseStart)
  BY <1>2, <1>3, <1>8 DEF InOrder
<1> QED BY <1>3, <1>9 DEF OrderedStates

(* The states that parse goes through. *)
ParseWalk(l, text, g) ==
  /\ g[0] = ParseStart
  /\ \A k \in 1..Len(text) : g[k] = Turn(g[k - 1], text, l)

(* parse goes through as many turns as the text has characters. *)
LEMMA ParseWalks ==
  ASSUME NEW l, NEW text \in Text, text = WithoutComment(l), NEW States,
         ParseStart \in States, \A s \in States : Turn(s, text, l) \in States
  PROVE  \E g : ParseWalk(l, text, g) /\ Parse(l) = g[Len(text)]
<1> DEFINE N == Len(text)
           step == [x \in States \X (1..N) |-> Turn(x[1], text, l)]
           Rec(f) == [s \in SUBSET DOMAIN text |->
                        IF s = {} THEN ParseStart
                        ELSE Turn(f[s \ {Max(s)}], text, l)]
           iter == CHOOSE f : f = Rec(f)
<1>1. Parse(l) = iter[DOMAIN text]
  BY DEF Parse, ParseStart, FoldLeft, MapThenFoldSet
<1>2. /\ N \in Nat /\ DOMAIN text = 1..N /\ \A i \in 1..N : text[i] \in Symbols
      /\ ParseStart \in States
      /\ step \in [States \X (1..N) -> States]
  <2>1. N \in Nat /\ DOMAIN text = 1..N /\ \A i \in 1..N : text[i] \in Symbols
    BY DEF Text
  <2>2. step \in [States \X (1..N) -> States]
    <3> HIDE DEF N
    <3> QED OBVIOUS
  <2> HIDE DEF N, step
  <2> QED BY <2>1, <2>2
<1>3. PICK h \in [SUBSET (1..N) -> States] : FoldsUpTo(ParseStart, step, N, h)
  <2> HIDE DEF N, step
  <2> QED BY <1>2, FoldExists
<1>4. ASSUME NEW s \in SUBSET (1..N), s # {}
      PROVE  step[<< h[s \ {Max(s)}], Max(s) >>] = Turn(h[s \ {Max(s)}], text, l)
  <2>1. Max(s) \in 1..N
    <3> HIDE DEF N
    <3> QED BY <1>2, <1>4, MaxIsGreatest
  <2> QED BY <2>1
<1>5. h = Rec(h)
  <2>1. ASSUME NEW s \in SUBSET (1..N)
        PROVE  h[s] = IF s = {} THEN ParseStart ELSE Turn(h[s \ {Max(s)}], text, l)
    <3> HIDE DEF N, step
    <3> QED BY <1>3, <1>4 DEF FoldsUpTo
  <2> HIDE DEF N, step
  <2> QED BY <1>2, <2>1
<1>6. iter = Rec(iter)
  <2>1. \E f : f = Rec(f)
    BY <1>5
  <2> HIDE DEF Rec
  <2> QED BY <2>1
<1> DEFINE g == [k \in 0..N |-> iter[1..k]]
<1>7. g[0] = ParseStart
  <2>1. iter[{}] = ParseStart
    <3> HIDE DEF iter
    <3> QED BY <1>6
  <2>2. 1..0 = {}
    OBVIOUS
  <2> HIDE DEF iter
  <2> QED BY <1>2, <2>1, <2>2
<1>8. ASSUME NEW k \in 1..N PROVE g[k] = Turn(g[k - 1], text, l)
  <2> HIDE DEF iter
  <2>1. Max(1..k) = k /\ (1..k) \ {k} = 1..(k - 1)
    BY UpToMax
  <2>2. 1..k \in SUBSET DOMAIN text /\ 1..k # {}
    <3>1. N \in Nat /\ DOMAIN text = 1..N
      BY <1>2
    <3> HIDE DEF N, step, Rec, g
    <3>2. k \in 1..k /\ \A j \in 1..k : j \in 1..N
      BY <3>1
    <3> QED BY <3>1, <3>2
  <2>3. iter[1..k] = Turn(iter[1..(k - 1)], text, l)
    BY <1>6, <2>1, <2>2
  <2>4. k \in 0..N /\ k - 1 \in 0..N
    BY <1>2
  <2> QED BY <2>3, <2>4
<1>9. g[N] = Parse(l)
  <2> HIDE DEF iter
  <2> QED BY <1>1, <1>2
<1> HIDE DEF g
<1> QED BY <1>7, <1>8, <1>9 DEF ParseWalk

(* parse has as many turns as there are characters, and each gets on.       *)
LEMMA ParseReachesTheEnd ==
  ASSUME NEW l, NEW text, Readable(l, text), text = WithoutComment(l)
  PROVE  InOrder(text, Parse(l)) /\ Parse(l).i = Len(text) + 1
<1>2. text \in Text /\ Len(text) \in Nat
  BY DEF Readable, CutAtHash, Text
<1>1. PICK g : ParseWalk(l, text, g) /\ Parse(l) = g[Len(text)]
  <2>1. ParseStart \in OrderedStates(text)
    BY <1>2, ParseStartsInOrder
  <2>2. \A s \in OrderedStates(text) : Turn(s, text, l) \in OrderedStates(text)
    BY TurnKeeps DEF OrderedStates, InOrder
  <2> QED BY <1>2, <2>1, <2>2, ParseWalks
<1> DEFINE Far(k) == InOrder(text, g[k]) /\ g[k].i \in (k + 1)..(Len(text) + 1)
           P == {k \in 0..Len(text) : Far(k)}
<1>3. 0 \in P
  <2>1. InOrder(text, ParseStart) /\ ParseStart.i = 1
    BY <1>2, ParseStartsInOrder DEF OrderedStates, ParseStart
  <2>2. 1 \in (0 + 1)..(Len(text) + 1) /\ 0 \in 0..Len(text)
    BY <1>2
  <2> QED BY <1>1, <2>1, <2>2 DEF ParseWalk
<1>4. ASSUME NEW k \in 0..Len(text), k \in P, k + 1 \in 0..Len(text) PROVE k + 1 \in P
  <2>1. InOrder(text, g[k]) /\ g[k].i \in (k + 1)..(Len(text) + 1)
    BY <1>4
  <2>2. PICK m \in 1..Len(text) : m = k + 1 /\ m - 1 = k
    BY <1>2, <1>4
  <2>3. g[m] = Turn(g[k], text, l)
    BY <1>1, <2>2 DEF ParseWalk
  <2>4. PICK s : s = g[k]
    OBVIOUS
  <2>5. PICK t : t = g[m]
    OBVIOUS
  <2>6. InOrder(text, t) /\ t = Turn(s, text, l)
    BY <2>1, <2>3, <2>4, <2>5, TurnKeeps
  <2>7. PICK i \in Nat, j \in Nat : i = s.i /\ j = t.i /\ i \in (k + 1)..(Len(text) + 1)
                                    /\ j \in 1..(Len(text) + 1)
    BY <1>2, <2>1, <2>4, <2>6 DEF InOrder, ParseStates, Between
  <2>8. CASE i <= Len(text)
    <3>1. Onward(text, s, t)
      BY <2>1, <2>4, <2>6, <2>7, <2>8, TurnKeeps
    <3>2. j > i
      BY <2>7, <3>1 DEF Onward, Later
    <3>3. j \in (m + 1)..(Len(text) + 1)
      BY <1>2, <2>2, <2>7, <3>2
    <3>4. m \in 0..Len(text) /\ Far(m)
      BY <2>5, <2>6, <2>7, <3>3
    <3> HIDE DEF Far
    <3> QED BY <2>2, <3>4
  <2>9. CASE i > Len(text)
    <3>1. t = s
      BY <2>6, <2>7, <2>9 DEF Turn
    <3>2. j \in (m + 1)..(Len(text) + 1)
      BY <1>2, <2>2, <2>7, <2>9, <3>1
    <3>3. m \in 0..Len(text) /\ Far(m)
      BY <2>5, <2>6, <2>7, <3>2
    <3> HIDE DEF Far
    <3> QED BY <2>2, <3>3
  <2> QED BY <1>2, <2>7, <2>8, <2>9
<1>5. \A k \in 0..Len(text) : k \in P
  <2> HIDE DEF P
  <2> QED BY <1>2, <1>3, <1>4, UpTo
<1>6. Far(Len(text))
  BY <1>2, <1>5
<1> QED BY <1>1, <1>2, <1>6

(* What parse makes of a line is what the automaton makes of it.            *)
LEMMA ParseIsScan ==
  ASSUME NEW l \in Text, Closed(l), ~Scanned(l).hidden, ~TwoHashes(l)
  PROVE  ~Parse(l).panics /\ Parse(l).vec.elems = Scanned(l).tokens
<1>2. PICK text : text = WithoutComment(l)
  OBVIOUS
<1>3. CutAtHash(l, text)
  BY <1>2, CommentIsCut
<1>4. Readable(l, text) /\ Ended(Scans(text)).tokens = Scanned(l).tokens
  BY <1>3, CutIsClosed DEF Readable, EndsOutside
<1>5. PICK s : s = Parse(l) /\ InOrder(text, s) /\ s.i = Len(text) + 1
  BY <1>2, <1>4, ParseReachesTheEnd
<1>6. After(text, Len(text)) = Scans(text) /\ Len(text) \in Nat /\ (Len(text) + 1) - 1 = Len(text)
  BY <1>3, AfterSteps DEF CutAtHash, Text
<1>7. Ended(Scans(text)).tokens = s.vec.elems
  <2>1. After(text, s.i - 1) = Scans(text)
    BY <1>5, <1>6
  <2> QED BY <1>5, <2>1 DEF InOrder, Between
<1> QED BY <1>4, <1>5, <1>7 DEF InOrder

-----------------------------------------------------------------------------
(***************************************************************************)
(* The line in the states of the shell.                                    *)
(***************************************************************************)

(* The line that is parsed is one whose quotes get_line has seen closed.    *)
LineInv == /\ stdin \in Text /\ line \in Text
           /\ proc[0].pc = "parse" => Closed(line)

LEMMA InitLine == Init => LineInv
<1> SUFFICES ASSUME Init PROVE LineInv
  OBVIOUS
<1>1. stdin \in Text
  <2>1. stdin \in Seq(STRING)
    BY ShellAssumption DEF Init
  <2>2. STRING \subseteq Symbols
    BY DEF Symbols
  <2> QED BY <2>1, <2>2, SeqMonotonic DEF Text
<1>2. line \in Text
  BY TextAppend DEF Init
<1>3. proc[0].pc = "prompt"
  BY ExecutorsAreNumbers DEF Init, At
<1> QED BY <1>1, <1>2, <1>3 DEF LineInv

(* Only the one who reads a line comes to parse it. *)
NoNewLine == /\ line' = line /\ stdin' \in {stdin, << >>}
             /\ proc'[0].pc = "parse" => proc[0].pc = "parse"

LEMMA KeepsLine == ASSUME LineInv, NoNewLine PROVE LineInv'
  BY TextAppend DEF LineInv, NoNewLine

(* get_line closes the quotes of the line it reads. *)
LEMMA ReadsLineKept == ASSUME LineInv, ReadsLine PROVE LineInv'
<1>1. GetLine(stdin).done /\ line' = GetLine(stdin).line /\ stdin' = GetLine(stdin).rest
  BY DEF ReadsLine
<1>2. Closed(GetLine(stdin).line) /\ GetLine(stdin).line \in Text /\ GetLine(stdin).rest \in Text
  BY <1>1, GetLineCloses DEF LineInv
<1>3. Closed(line)'
  BY <1>1, <1>2 DEF Closed
<1> QED BY <1>1, <1>2, <1>3 DEF LineInv

LEMMA ShellStepLine ==
  ASSUME IInv, ShellStep \/ CannotStartJob, ~ReadsLine PROVE NoNewLine
<1>1. /\ DOMAIN proc = Executors /\ 0 \in Executors
      /\ \A e \in Executors : "pc" \in DOMAIN proc[e]
  BY ExecutorsAreNumbers DEF IInv, AllTyped, Typed
<1>2. ASSUME NEW e \in Executors, NEW q, At("ended", q).pc = "parse" PROVE FALSE
  BY <1>2 DEF At
<1>3. CASE EndOfInput \/ Refuses \/ CannotStartJob
  BY <1>1, <1>3 DEF EndOfInput, Refuses, CannotStartJob, Exits, At, NoNewLine
<1>4. CASE FormsQuery
  BY <1>1, <1>4 DEF FormsQuery, At, NoNewLine
<1>5. CASE ExecutesHere
  BY <1>1, <1>5 DEF ExecutesHere, NoNewLine
<1>6. CASE ExecutesInBackground
  BY <1>1, <1>6 DEF ExecutesInBackground, At, NoNewLine
<1> QED BY <1>3, <1>4, <1>5, <1>6 DEF ShellStep

LEMMA ExecutorStepLine ==
  ASSUME IInv, NEW e \in Executors, ExecutorStep(e) \/ CannotStart(e) PROVE NoNewLine
<1>1. /\ DOMAIN proc = Executors /\ 0 \in Executors
      /\ \A x \in Executors : "pc" \in DOMAIN proc[x]
  BY ExecutorsAreNumbers DEF IInv, AllTyped, Typed
<1>2. CASE SkipsPipeline(e)
  BY <1>1, <1>2 DEF SkipsPipeline, NoNewLine
<1>3. CASE StartsPipeline(e)
  BY <1>1, <1>3 DEF StartsPipeline, NoNewLine
<1>4. CASE EndsPipeline(e)
  BY <1>1, <1>4 DEF EndsPipeline, NoNewLine
<1>5. CASE EndsQuery(e)
  BY <1>1, <1>5 DEF EndsQuery, Exits, At, NoNewLine
<1>6. CASE ChangesDirectory(e)
  BY <1>1, <1>6 DEF ChangesDirectory, NoNewLine
<1>7. CASE Quits(e) \/ CannotStart(e)
  BY <1>1, <1>7 DEF Quits, CannotStart, Exits, At, NoNewLine
<1>8. CASE StartsPiped(e)
  BY <1>1, <1>8 DEF StartsPiped, Forks, NoNewLine
<1>9. CASE StartsLast(e)
  BY <1>1, <1>9 DEF StartsLast, Forks, NoNewLine
<1>10. CASE Waits(e)
  BY <1>1, <1>10 DEF Waits, NoNewLine
<1> QED BY <1>2, <1>3, <1>4, <1>5, <1>6, <1>7, <1>8, <1>9, <1>10 DEF ExecutorStep

LEMMA ChildStepLine ==
  ASSUME NEW e \in Executors, ChildStep(e) \/ ChildIsKilled(e) PROVE NoNewLine
BY DEF ChildStep, ChildIsKilled, ChildWrites, ChildReads, ChildExits, Ends, NoNewLine

LEMMA NextLine == IInv /\ LineInv /\ [Next]_vars => LineInv'
<1> SUFFICES ASSUME IInv, LineInv, [Next]_vars PROVE LineInv'
  OBVIOUS
<1>1. CASE ReadsLine
  BY <1>1, ReadsLineKept
<1>2. CASE ~ReadsLine /\ (ShellStep \/ CannotStartJob)
  BY <1>2, ShellStepLine, KeepsLine
<1>3. ASSUME NEW e \in Executors, ExecutorStep(e) \/ CannotStart(e) PROVE LineInv'
  BY <1>3, ExecutorStepLine, KeepsLine
<1>4. ASSUME NEW e \in Executors, ChildStep(e) \/ ChildIsKilled(e) PROVE LineInv'
  BY <1>4, ChildStepLine, KeepsLine
<1>5. CASE UNCHANGED vars
  BY <1>5, KeepsLine DEF vars, NoNewLine
<1> QED BY <1>1, <1>2, <1>3, <1>4, <1>5 DEF Next

(* The line that is parsed is always a closed text. *)
LEMMA LineInvariance == Spec => []LineInv
  BY InitLine, NextLine, Invariance, PTL DEF Spec

(* At such a line parse and the automaton agree. *)
LEMMA ParsedLine ==
  ASSUME LineInv, proc[0].pc = "parse", ~HashesMislead
  PROVE  ~Parse(line).panics /\ Parse(line).vec.elems = Scanned(line).tokens
<1>1. line \in Text /\ Closed(line)
  BY DEF LineInv
<1>2. ~Scanned(line).hidden /\ ~TwoHashes(line)
  BY DEF HashesMislead, TwoHashes
<1> QED BY <1>1, <1>2, ParseIsScan

(* What get_line has closed, parse finds closed, in a line of any length.   *)
THEOREM ParseFindsTheQuotes == Spec => []QuotesAgree
<1>1. LineInv => QuotesAgree
  BY ParsedLine DEF QuotesAgree
<1> QED BY <1>1, LineInvariance, PTL

(* The tokens of parse are those of the automaton that reads the line once. *)
THEOREM ParseFindsTheTokens == Spec => []TokensAreTheLine
<1>1. LineInv => TokensAreTheLine
  BY ParsedLine DEF TokensAreTheLine
<1> QED BY <1>1, LineInvariance, PTL

-----------------------------------------------------------------------------
(***************************************************************************)
(* form_query beside the line: what its state says of the words and        *)
(* redirections it has taken, and what the line says of them.              *)
(***************************************************************************)

(* What a query says of its words and redirections, command by command.     *)
CommandWords(p, n, command) ==
  LET words == << command.name >> \o command.argv
  IN  {<< p, n, k, words[k] >> : k \in DOMAIN words}
PipelineWords(p, commands) == UNION {CommandWords(p, n, commands[n]) : n \in DOMAIN commands}
QueryWords(pipelines) ==
  UNION {PipelineWords(p, pipelines[p].commands) : p \in DOMAIN pipelines}

CommandRedir(p, n, command) == IF command.has_redir THEN {<< p, n, command.dest >>} ELSE {}
PipelineRedirs(p, commands) == UNION {CommandRedir(p, n, commands[n]) : n \in DOMAIN commands}
QueryRedirs(pipelines) ==
  UNION {PipelineRedirs(p, pipelines[p].commands) : p \in DOMAIN pipelines}

(* The words that form_query has put somewhere, and the redirections of the *)
(* commands it has finished.                                                *)
Number(f) == Len(f.query.pipelines) + 1
CommandsSoFar(f) == Len(f.pipeline.commands) + 1
AllWords(f) ==
  QueryWords(f.query.pipelines) \cup PipelineWords(Number(f), f.pipeline.commands)
    \cup (IF f.command_needs_flush THEN CommandWords(Number(f), CommandsSoFar(f), f.command) ELSE {})
FlushedRedirs(f) ==
  QueryRedirs(f.query.pipelines) \cup PipelineRedirs(Number(f), f.pipeline.commands)

(* The same of a line, before token i.                                      *)
WordsBehind(tokens, i) == {w \in Words(tokens) : w < i /\ SameCommand(tokens, i, w)}
WordPlace(tokens, w) ==
  << PipelineNumber(tokens, w), CommandNumber(tokens, w), PlaceOf(tokens, w), tokens[w] >>
WordPlaces(tokens, i) == {WordPlace(tokens, w) : w \in {v \in Words(tokens) : v < i}}
HasWord(tokens, i) == \E w \in Words(tokens) : SameCommand(tokens, i, w)
Counts(tokens) ==
  {r \in Redirects(tokens) :
     /\ HasWord(tokens, r)
     /\ \A s \in Redirects(tokens) : SameCommand(tokens, r, s) => s <= r}
CountsBefore(tokens, i) == {r \in Counts(tokens) : \E s \in Splits(tokens) : r < s /\ s < i}
RedirPlace(vec, r) ==
  << PipelineNumber(vec.elems, r), CommandNumber(vec.elems, r), GetAt(vec, r + 1) >>
RedirPlaces(vec, rs) == {RedirPlace(vec, r) : r \in rs}
RefusedBefore(tokens, i) == \E s \in Splits(tokens) : s < i /\ ~HasWord(tokens, s)

(* The redirection that the command around i has before i.                  *)
RedirectsBehind(tokens, i) == {s \in Redirects(tokens) : s < i /\ SameCommand(tokens, i, s)}
LastRedirects(tokens, i) ==
  {r \in RedirectsBehind(tokens, i) : \A s \in RedirectsBehind(tokens, i) : s <= r}

(* form_query has taken the tokens before i.                                *)
Formed(vec, i, f) ==
  LET tokens == vec.elems
  IN  /\ PipelineNumber(tokens, i) = Number(f)
      /\ CommandNumber(tokens, i) = CommandsSoFar(f)
      /\ Cardinality(WordsBehind(tokens, i)) =
           IF f.command_needs_flush THEN Len(f.command.argv) + 1 ELSE 0
      /\ ~f.command_needs_flush => f.command.argv = << >>
      /\ f.pipeline_needs_flush <=> f.command_needs_flush \/ f.pipeline.commands # << >>
      /\ f.is_target <=> i > 1 /\ tokens[i - 1] \in Redirections /\ ~IsTarget(tokens)[i - 1]
      /\ AllWords(f) = WordPlaces(tokens, i)
      /\ FlushedRedirs(f) = RedirPlaces(vec, CountsBefore(tokens, i))
      /\ f.command.has_redir =>
           \E r \in LastRedirects(tokens, i) : f.command.dest = GetAt(vec, r + 1)
      /\ ~f.command.has_redir => RedirectsBehind(tokens, i) = {}
FormInv(vec, i, f) ==
  /\ f.panics <=> RefusedBefore(vec.elems, i)
  /\ ~f.panics => Formed(vec, i, f)

-----------------------------------------------------------------------------
(* Two, and one character: the separators and redirections differ.          *)
LEMMA TokensDiffer ==
  /\ And # Or /\ And # Background /\ And # Pipe /\ Or # Background /\ Or # Pipe
  /\ Background # Pipe
  /\ \A t \in Redirections : t \notin Separators
<1>1. /\ Len(And) = 2 /\ Len(Or) = 2 /\ Len(Background) = 1 /\ Len(Pipe) = 1
      /\ And[1] = "&" /\ Or[1] = "|" /\ Background[1] = "&" /\ Pipe[1] = "|"
  BY DEF And, Or, Background, Pipe
<1>2. \A t \in Redirections : t[1] = ">"
  BY DEF Redirections
<1> QED BY <1>1, <1>2 DEF Separators

(* Which tokens are targets is decided from left to right. *)
LEMMA TargetSteps ==
  ASSUME NEW T \in Seq(Text)
  PROVE  /\ \A i \in 1..Len(T) : IsTarget(T)[i] \in BOOLEAN
         /\ \A i \in 1..Len(T) :
              IsTarget(T)[i] <=> i > 1 /\ T[i - 1] \in Redirections /\ ~IsTarget(T)[i - 1]
<1> DEFINE N == Len(T)
           step == [x \in BOOLEAN \X (1..N) |->
                      x[2] > 1 /\ T[x[2] - 1] \in Redirections /\ ~x[1]]
           Rec(f) == [i \in DOMAIN T |-> i > 1 /\ T[i - 1] \in Redirections /\ ~f[i - 1]]
           target == CHOOSE f : f = Rec(f)
<1>1. N \in Nat /\ DOMAIN T = 1..N
  OBVIOUS
<1>2. step \in [BOOLEAN \X (1..N) -> BOOLEAN]
  OBVIOUS
<1>3. PICK h \in [SUBSET (1..N) -> BOOLEAN] : FoldsUpTo(FALSE, step, N, h)
  <2> HIDE DEF N, step
  <2> QED BY <1>1, <1>2, FoldExists
<1> DEFINE g == [i \in 1..N |-> h[1..i]]
<1>4. ASSUME NEW i \in 1..N
      PROVE  h[1..i] <=> i > 1 /\ T[i - 1] \in Redirections /\ ~h[1..(i - 1)]
  <2>1. Max(1..i) = i /\ (1..i) \ {i} = 1..(i - 1)
    BY UpToMax
  <2>2. 1..i \in SUBSET (1..N) /\ 1..i # {} /\ 1..(i - 1) \in SUBSET (1..N)
    BY <1>1
  <2>3. h[1..i] = step[<< h[1..(i - 1)], i >>]
    <3> HIDE DEF N, step
    <3> QED BY <1>3, <2>1, <2>2 DEF FoldsUpTo
  <2>4. PICK b \in BOOLEAN : b = h[1..(i - 1)]
    BY <2>2
  <2>5. step[<< b, i >>] = (i > 1 /\ T[i - 1] \in Redirections /\ ~b)
    OBVIOUS
  <2> HIDE DEF step
  <2> QED BY <2>3, <2>4, <2>5
<1>5. ASSUME NEW i \in 1..N
      PROVE  g[i] = (i > 1 /\ T[i - 1] \in Redirections /\ ~g[i - 1])
  <2>1. g[i] = h[1..i] /\ g[i] \in BOOLEAN
    BY <1>1
  <2>2. i > 1 => g[i - 1] = h[1..(i - 1)]
    BY <1>1
  <2> HIDE DEF g, step
  <2> QED BY <1>4, <2>1, <2>2
<1>6. g = Rec(g)
  <2> HIDE DEF step
  <2>1. DOMAIN g = DOMAIN T
    BY <1>1
  <2> QED BY <1>1, <1>5
<1>7. target = Rec(target)
  <2>1. \E f : f = Rec(f)
    BY <1>6
  <2> HIDE DEF Rec
  <2> QED BY <2>1
<1>8. IsTarget(T) = target
  BY DEF IsTarget
<1>9. \A i \in 1..N : target[i] = (i > 1 /\ T[i - 1] \in Redirections /\ ~target[i - 1])
  <2> HIDE DEF target, g, step
  <2> QED BY <1>1, <1>7
<1> HIDE DEF target, g, step
<1> QED BY <1>8, <1>9

(* What a token is. *)
LEMMA Kinds ==
  ASSUME NEW T \in Seq(Text)
  PROVE  /\ Splits(T) \subseteq 1..Len(T) /\ Words(T) \subseteq 1..Len(T)
         /\ Redirects(T) \subseteq 1..Len(T)
         /\ \A k \in 1..Len(T) :
              /\ k \in Splits(T) <=> T[k] \in Separators /\ ~IsTarget(T)[k]
              /\ k \in Redirects(T) <=> T[k] \in Redirections /\ ~IsTarget(T)[k]
              /\ k \in Words(T) <=> T[k] \notin Separators \cup Redirections /\ ~IsTarget(T)[k]
              /\ k \in Splits(T) => k \notin Redirects(T)
<1>1. DOMAIN T = 1..Len(T)
  OBVIOUS
<1> QED BY <1>1, TokensDiffer DEF Splits, Words, Redirects

-----------------------------------------------------------------------------
(***************************************************************************)
(* What a token changes of what the line says.                             *)
(***************************************************************************)

(* Some of the tokens are finitely many. *)
LEMMA SomeOfThem ==
  ASSUME NEW n \in Nat, NEW s, s \subseteq 1..n
  PROVE  IsFiniteSet(s) /\ Cardinality(s) \in Nat
<1>1. IsFiniteSet(1..n)
  BY FS_Interval
<1>2. IsFiniteSet(s)
  BY <1>1, FS_Subset
<1> QED BY <1>2, FS_CardinalityType

LEMMA OneMore ==
  ASSUME NEW n \in Nat, NEW s, s \subseteq 1..n, NEW x, x \notin s
  PROVE  Cardinality(s \cup {x}) = Cardinality(s) + 1
<1>1. IsFiniteSet(s)
  BY SomeOfThem
<1> QED BY <1>1, FS_AddElement

(* Which tokens are in one command, and how this changes with a token.      *)
LEMMA SplitStep ==
  ASSUME NEW T \in Seq(Text), NEW k \in 1..Len(T)
  PROVE  /\ k \notin SplitsBefore(T, k)
         /\ SplitsBefore(T, k + 1) =
              IF k \in Splits(T) THEN SplitsBefore(T, k) \cup {k} ELSE SplitsBefore(T, k)
         /\ SplitsBefore(T, k) \subseteq 1..Len(T) /\ SplitsBefore(T, k + 1) \subseteq 1..Len(T)
<1>1. Splits(T) \subseteq 1..Len(T) /\ Len(T) \in Nat
  BY Kinds
<1>2. \A s \in Splits(T) : s < k + 1 <=> s < k \/ s = k
  BY <1>1
<1>3. ~(k < k)
  BY <1>1
<1> QED BY <1>1, <1>2, <1>3 DEF SplitsBefore

LEMMA CommandStep ==
  ASSUME NEW T \in Seq(Text), NEW k \in 1..Len(T)
  PROVE  /\ k \notin Splits(T) => \A j : SameCommand(T, k + 1, j) <=> SameCommand(T, k, j)
         /\ k \in Splits(T) => \A j \in 1..k : ~SameCommand(T, k + 1, j)
         /\ \A j \in 1..Len(T) : k \in Splits(T) /\ j > k => ~SameCommand(T, k, j)
<1>1. Splits(T) \subseteq 1..Len(T) /\ Len(T) \in Nat
  BY Kinds
<1>2. ASSUME k \in Splits(T), NEW j \in 1..k PROVE ~SameCommand(T, k + 1, j)
  <2>1. k \in SplitsBefore(T, k + 1)
    BY <1>2, SplitStep
  <2>2. k \notin SplitsBefore(T, j)
    BY <1>1 DEF SplitsBefore
  <2> QED BY <2>1, <2>2 DEF SameCommand
<1>3. ASSUME k \in Splits(T), NEW j \in 1..Len(T), j > k PROVE ~SameCommand(T, k, j)
  <2>1. k \in SplitsBefore(T, j)
    BY <1>1, <1>3 DEF SplitsBefore
  <2>2. k \notin SplitsBefore(T, k)
    BY SplitStep
  <2> QED BY <2>1, <2>2 DEF SameCommand
<1> QED BY <1>2, <1>3, SplitStep DEF SameCommand

(* The numbers of pipelines and commands count up at the separators.        *)
EndsPipelines(T, i) == {s \in SplitsBefore(T, i) : T[s] # Pipe}

LEMMA PipelineNumbers ==
  ASSUME NEW T \in Seq(Text)
  PROVE  /\ \A i \in 1..(Len(T) + 1) : PipelineNumber(T, i) \in Nat
         /\ \A k \in 1..Len(T) :
              PipelineNumber(T, k + 1) = IF k \in Splits(T) /\ T[k] # Pipe
                                         THEN PipelineNumber(T, k) + 1 ELSE PipelineNumber(T, k)
         /\ PipelineNumber(T, 1) = 1
<1>1. Splits(T) \subseteq 1..Len(T) /\ Len(T) \in Nat
  BY Kinds
<1>2. \A i : PipelineNumber(T, i) = 1 + Cardinality(EndsPipelines(T, i))
  BY DEF PipelineNumber, EndsPipelines
<1>3. \A i : EndsPipelines(T, i) \subseteq 1..Len(T)
  BY <1>1 DEF EndsPipelines, SplitsBefore
<1>4. \A i : Cardinality(EndsPipelines(T, i)) \in Nat
  BY <1>1, <1>3, SomeOfThem
<1>5. ASSUME NEW k \in 1..Len(T)
      PROVE  PipelineNumber(T, k + 1) = IF k \in Splits(T) /\ T[k] # Pipe
                                         THEN PipelineNumber(T, k) + 1 ELSE PipelineNumber(T, k)
  <2>1. CASE k \in Splits(T) /\ T[k] # Pipe
    <3>1. /\ EndsPipelines(T, k + 1) = EndsPipelines(T, k) \cup {k}
          /\ k \notin EndsPipelines(T, k)
      BY <2>1, SplitStep DEF EndsPipelines
    <3>2. Cardinality(EndsPipelines(T, k + 1)) = Cardinality(EndsPipelines(T, k)) + 1
      BY <1>1, <1>3, <3>1, OneMore
    <3> QED BY <1>2, <1>4, <2>1, <3>2
  <2>2. CASE ~(k \in Splits(T) /\ T[k] # Pipe)
    <3>1. EndsPipelines(T, k + 1) = EndsPipelines(T, k)
      BY <2>2, SplitStep DEF EndsPipelines
    <3> QED BY <1>2, <2>2, <3>1
  <2> QED BY <2>1, <2>2
<1>6. PipelineNumber(T, 1) = 1
  <2>1. EndsPipelines(T, 1) = {}
    BY <1>1 DEF EndsPipelines, SplitsBefore
  <2>2. Cardinality(EndsPipelines(T, 1)) = 0
    BY <2>1, FS_EmptySet
  <2> QED BY <1>2, <2>2
<1> QED BY <1>2, <1>4, <1>5, <1>6

LEMMA PipelinesInOrder ==
  ASSUME NEW T \in Seq(Text), NEW i \in 1..(Len(T) + 1), NEW j \in 1..i
  PROVE  PipelineNumber(T, j) <= PipelineNumber(T, i)
<1>1. Splits(T) \subseteq 1..Len(T) /\ Len(T) \in Nat
  BY Kinds
<1>2. EndsPipelines(T, j) \subseteq EndsPipelines(T, i) /\ EndsPipelines(T, i) \subseteq 1..Len(T)
  BY <1>1 DEF EndsPipelines, SplitsBefore
<1>3. IsFiniteSet(EndsPipelines(T, i))
  BY <1>1, <1>2, SomeOfThem
<1>4. Cardinality(EndsPipelines(T, j)) <= Cardinality(EndsPipelines(T, i))
  BY <1>2, <1>3, FS_Subset
<1>5. Cardinality(EndsPipelines(T, j)) \in Nat /\ Cardinality(EndsPipelines(T, i)) \in Nat
  BY <1>1, <1>2, SomeOfThem
<1> QED BY <1>4, <1>5 DEF PipelineNumber, EndsPipelines

SplitsOfPipeline(T, i) ==
  {s \in SplitsBefore(T, i) : PipelineNumber(T, s) = PipelineNumber(T, i)}

LEMMA CommandNumbers ==
  ASSUME NEW T \in Seq(Text)
  PROVE  /\ \A i \in 1..(Len(T) + 1) : CommandNumber(T, i) \in Nat
         /\ \A k \in 1..Len(T) :
              CommandNumber(T, k + 1) =
                IF k \notin Splits(T) THEN CommandNumber(T, k)
                ELSE IF T[k] = Pipe THEN CommandNumber(T, k) + 1 ELSE 1
         /\ CommandNumber(T, 1) = 1
<1>1. Splits(T) \subseteq 1..Len(T) /\ Len(T) \in Nat
  BY Kinds
<1>2. \A i : CommandNumber(T, i) = 1 + Cardinality(SplitsOfPipeline(T, i))
  BY DEF CommandNumber, SplitsOfPipeline
<1>3. \A i : SplitsOfPipeline(T, i) \subseteq 1..Len(T)
  BY <1>1 DEF SplitsOfPipeline, SplitsBefore
<1>4. \A i : Cardinality(SplitsOfPipeline(T, i)) \in Nat
  BY <1>1, <1>3, SomeOfThem
<1>5. ASSUME NEW k \in 1..Len(T)
      PROVE  CommandNumber(T, k + 1) =
               IF k \notin Splits(T) THEN CommandNumber(T, k)
               ELSE IF T[k] = Pipe THEN CommandNumber(T, k) + 1 ELSE 1
  <2>1. CASE k \notin Splits(T)
    <3>1. SplitsOfPipeline(T, k + 1) = SplitsOfPipeline(T, k)
      BY <2>1, SplitStep, PipelineNumbers DEF SplitsOfPipeline
    <3> QED BY <1>2, <2>1, <3>1
  <2>2. CASE k \in Splits(T) /\ T[k] = Pipe
    <3>1. /\ SplitsOfPipeline(T, k + 1) = SplitsOfPipeline(T, k) \cup {k}
          /\ k \notin SplitsOfPipeline(T, k)
      BY <2>2, SplitStep, PipelineNumbers DEF SplitsOfPipeline
    <3>2. Cardinality(SplitsOfPipeline(T, k + 1)) = Cardinality(SplitsOfPipeline(T, k)) + 1
      BY <1>1, <1>3, <3>1, OneMore
    <3> QED BY <1>2, <1>4, <2>2, <3>2
  <2>3. CASE k \in Splits(T) /\ T[k] # Pipe
    <3>1. k + 1 \in 1..(Len(T) + 1) /\ k \in 1..(Len(T) + 1)
      BY <1>1
    <3>2. PICK p \in Nat : p = PipelineNumber(T, k) /\ PipelineNumber(T, k + 1) = p + 1
      BY <2>3, <3>1, PipelineNumbers
    <3>3. ASSUME NEW s \in SplitsBefore(T, k + 1) PROVE PipelineNumber(T, s) # p + 1
      <4>1. s \in 1..k
        BY <1>1 DEF SplitsBefore
      <4>2. PICK r \in Nat : r = PipelineNumber(T, s)
        <5>1. s \in 1..(Len(T) + 1)
          BY <1>1, <4>1
        <5> QED BY <5>1, PipelineNumbers
      <4>3. r <= p
        BY <3>1, <3>2, <4>1, <4>2, PipelinesInOrder
      <4> QED BY <4>2, <4>3
    <3>4. SplitsOfPipeline(T, k + 1) = {}
      BY <3>2, <3>3 DEF SplitsOfPipeline
    <3>5. Cardinality(SplitsOfPipeline(T, k + 1)) = 0
      BY <3>4, FS_EmptySet
    <3> QED BY <1>2, <2>3, <3>5
  <2> QED BY <2>1, <2>2, <2>3
<1>6. CommandNumber(T, 1) = 1
  <2>1. SplitsOfPipeline(T, 1) = {}
    BY <1>1 DEF SplitsOfPipeline, SplitsBefore
  <2>2. Cardinality(SplitsOfPipeline(T, 1)) = 0
    BY <2>1, FS_EmptySet
  <2> QED BY <1>2, <2>2
<1> QED BY <1>2, <1>4, <1>5, <1>6

(* The words of the command that is not complete.                           *)
LEMMA WordsStep ==
  ASSUME NEW T \in Seq(Text)
  PROVE  /\ WordsBehind(T, 1) = {}
         /\ \A k \in 1..Len(T) :
              /\ WordsBehind(T, k) \subseteq 1..Len(T) /\ k \notin WordsBehind(T, k)
              /\ k \in Splits(T) => WordsBehind(T, k + 1) = {}
              /\ k \in Words(T) => /\ WordsBehind(T, k + 1) = WordsBehind(T, k) \cup {k}
                                   /\ PlaceOf(T, k) = Cardinality(WordsBehind(T, k)) + 1
              /\ k \notin Splits(T) \cup Words(T) => WordsBehind(T, k + 1) = WordsBehind(T, k)
              /\ k \in Splits(T) => (HasWord(T, k) <=> WordsBehind(T, k) # {})
<1>1. Words(T) \subseteq 1..Len(T) /\ Len(T) \in Nat
  BY Kinds
<1>2. WordsBehind(T, 1) = {}
  BY <1>1 DEF WordsBehind
<1>3. ASSUME NEW k \in 1..Len(T)
      PROVE  /\ WordsBehind(T, k) \subseteq 1..Len(T) /\ k \notin WordsBehind(T, k)
             /\ \A w \in Words(T) : w < k + 1 <=> w < k \/ w = k
             /\ \A w \in Words(T) : w <= k <=> w < k \/ w = k
  BY <1>1 DEF WordsBehind
<1>4. ASSUME NEW k \in 1..Len(T), k \in Splits(T) PROVE WordsBehind(T, k + 1) = {}
  <2>1. \A w \in Words(T) : w < k + 1 => w \in 1..k
    BY <1>1
  <2> QED BY <1>4, <2>1, CommandStep DEF WordsBehind
<1>5. ASSUME NEW k \in 1..Len(T), k \in Words(T)
      PROVE  /\ WordsBehind(T, k + 1) = WordsBehind(T, k) \cup {k}
             /\ PlaceOf(T, k) = Cardinality(WordsBehind(T, k)) + 1
  <2>1. k \notin Splits(T) /\ SameCommand(T, k, k)
    BY <1>5, Kinds DEF SameCommand
  <2>2. WordsBehind(T, k + 1) = WordsBehind(T, k) \cup {k}
    <3>1. \A w : SameCommand(T, k + 1, w) <=> SameCommand(T, k, w)
      BY <2>1, CommandStep
    <3>2. \A w \in Words(T) : w < k + 1 /\ SameCommand(T, k + 1, w)
                             <=> (w < k /\ SameCommand(T, k, w)) \/ w = k
      BY <1>3, <2>1, <3>1
    <3> QED BY <1>5, <3>2 DEF WordsBehind
  <2>3. {w \in Words(T) : w <= k /\ SameCommand(T, k, w)} = WordsBehind(T, k) \cup {k}
    <3>1. \A w \in Words(T) : w <= k /\ SameCommand(T, k, w)
                             <=> (w < k /\ SameCommand(T, k, w)) \/ w = k
      BY <1>3, <2>1
    <3> QED BY <1>5, <3>1 DEF WordsBehind
  <2>4. Cardinality(WordsBehind(T, k) \cup {k}) = Cardinality(WordsBehind(T, k)) + 1
    BY <1>1, <1>3, OneMore
  <2> QED BY <2>2, <2>3, <2>4 DEF PlaceOf
<1>6. ASSUME NEW k \in 1..Len(T), k \notin Splits(T) \cup Words(T)
      PROVE  WordsBehind(T, k + 1) = WordsBehind(T, k)
  BY <1>3, <1>6, CommandStep DEF WordsBehind
<1>7. ASSUME NEW k \in 1..Len(T), k \in Splits(T)
      PROVE  HasWord(T, k) <=> WordsBehind(T, k) # {}
  <2>1. k \notin Words(T)
    BY <1>7, Kinds
  <2>2. \A w \in Words(T) : SameCommand(T, k, w) => w < k
    <3> SUFFICES ASSUME NEW w \in Words(T), SameCommand(T, k, w) PROVE w < k
      OBVIOUS
    <3>1. ~(w > k)
      BY <1>1, <1>7, CommandStep
    <3> QED BY <1>1, <2>1, <3>1
  <2> QED BY <2>2 DEF HasWord, WordsBehind
<1> QED BY <1>2, <1>3, <1>4, <1>5, <1>6, <1>7

(* The words before a token, and how a token adds to them. *)
LEMMA PlacesStep ==
  ASSUME NEW T \in Seq(Text)
  PROVE  /\ WordPlaces(T, 1) = {} /\ WordPlaces(T, Len(T) + 1) = WordsOfLine(T)
         /\ \A k \in 1..Len(T) :
              WordPlaces(T, k + 1) = IF k \in Words(T) THEN WordPlaces(T, k) \cup {WordPlace(T, k)}
                                     ELSE WordPlaces(T, k)
<1>1. Words(T) \subseteq 1..Len(T) /\ Len(T) \in Nat
  BY Kinds
<1>2. \A w \in Words(T) : w < Len(T) + 1 /\ ~(w < 1)
  BY <1>1
<1>3. WordPlaces(T, 1) = {}
  BY <1>2 DEF WordPlaces
<1>4. WordPlaces(T, Len(T) + 1) = WordsOfLine(T)
  <2>1. {w \in Words(T) : w < Len(T) + 1} = Words(T)
    BY <1>2
  <2> QED BY <2>1 DEF WordPlaces, WordsOfLine, WordPlace
<1>5. ASSUME NEW k \in 1..Len(T)
      PROVE  WordPlaces(T, k + 1) = IF k \in Words(T) THEN WordPlaces(T, k) \cup {WordPlace(T, k)}
                                    ELSE WordPlaces(T, k)
  <2>1. \A w \in Words(T) : w < k + 1 <=> w < k \/ w = k
    BY <1>1
  <2>2. {w \in Words(T) : w < k + 1} =
          IF k \in Words(T) THEN {w \in Words(T) : w < k} \cup {k} ELSE {w \in Words(T) : w < k}
    BY <2>1
  <2> QED BY <2>2 DEF WordPlaces
<1> QED BY <1>3, <1>4, <1>5

(* A line is refused from the first separator that has no word behind it. *)
LEMMA RefusalStep ==
  ASSUME NEW T \in Seq(Text)
  PROVE  /\ ~RefusedBefore(T, 1) /\ (RefusedBefore(T, Len(T) + 1) <=> IsRefused(T))
         /\ \A k \in 1..Len(T) :
              RefusedBefore(T, k + 1) <=>
                RefusedBefore(T, k) \/ (k \in Splits(T) /\ WordsBehind(T, k) = {})
<1>1. Splits(T) \subseteq 1..Len(T) /\ Len(T) \in Nat
  BY Kinds
<1>2. \A s \in Splits(T) : s < Len(T) + 1 /\ ~(s < 1)
  BY <1>1
<1>3. ~RefusedBefore(T, 1) /\ (RefusedBefore(T, Len(T) + 1) <=> IsRefused(T))
  BY <1>2 DEF RefusedBefore, IsRefused, HasWord
<1>4. ASSUME NEW k \in 1..Len(T)
      PROVE  RefusedBefore(T, k + 1) <=>
                RefusedBefore(T, k) \/ (k \in Splits(T) /\ WordsBehind(T, k) = {})
  <2>1. \A s \in Splits(T) : s < k + 1 <=> s < k \/ s = k
    BY <1>1
  <2>2. k \in Splits(T) => (HasWord(T, k) <=> WordsBehind(T, k) # {})
    BY WordsStep
  <2> QED BY <2>1, <2>2 DEF RefusedBefore
<1> QED BY <1>3, <1>4

(* The redirections of the command that is not complete. *)
LEMMA RedirectsStep ==
  ASSUME NEW T \in Seq(Text)
  PROVE  /\ RedirectsBehind(T, 1) = {}
         /\ \A k \in 1..Len(T) :
              /\ k \in Splits(T) => RedirectsBehind(T, k + 1) = {}
              /\ k \in Redirects(T) => /\ k \in LastRedirects(T, k + 1)
                                       /\ LastRedirects(T, k + 1) = {k}
              /\ k \notin Splits(T) \cup Redirects(T) =>
                   /\ RedirectsBehind(T, k + 1) = RedirectsBehind(T, k)
                   /\ LastRedirects(T, k + 1) = LastRedirects(T, k)
<1>1. Redirects(T) \subseteq 1..Len(T) /\ Len(T) \in Nat
  BY Kinds
<1>2. RedirectsBehind(T, 1) = {}
  <2>1. \A s \in Redirects(T) : ~(s < 1)
    BY <1>1
  <2> QED BY <2>1 DEF RedirectsBehind
<1>3. ASSUME NEW k \in 1..Len(T), k \in Splits(T) PROVE RedirectsBehind(T, k + 1) = {}
  <2>1. \A s \in Redirects(T) : s < k + 1 => s \in 1..k
    BY <1>1
  <2> QED BY <1>3, <2>1, CommandStep DEF RedirectsBehind
<1>4. ASSUME NEW k \in 1..Len(T), k \notin Splits(T)
      PROVE  \A s \in Redirects(T) : s < k + 1 /\ SameCommand(T, k + 1, s)
                                     <=> (s < k /\ SameCommand(T, k, s)) \/ s = k
  <2>1. SameCommand(T, k, k)
    BY DEF SameCommand
  <2>2. \A w : SameCommand(T, k + 1, w) <=> SameCommand(T, k, w)
    BY <1>4, CommandStep
  <2>3. \A s \in Redirects(T) : s < k + 1 <=> s < k \/ s = k
    BY <1>1
  <2> QED BY <2>1, <2>2, <2>3
<1>5. ASSUME NEW k \in 1..Len(T), k \in Redirects(T) PROVE LastRedirects(T, k + 1) = {k}
  <2>1. k \notin Splits(T)
    BY <1>5, Kinds
  <2>2. RedirectsBehind(T, k + 1) = RedirectsBehind(T, k) \cup {k}
    BY <1>4, <1>5, <2>1 DEF RedirectsBehind
  <2>3. \A s \in RedirectsBehind(T, k) : s <= k /\ ~(k <= s)
    BY <1>1 DEF RedirectsBehind
  <2>4. k <= k
    BY <1>1
  <2> QED BY <2>2, <2>3, <2>4 DEF LastRedirects
<1>6. ASSUME NEW k \in 1..Len(T), k \notin Splits(T) \cup Redirects(T)
      PROVE  RedirectsBehind(T, k + 1) = RedirectsBehind(T, k)
  BY <1>4, <1>6 DEF RedirectsBehind
<1>7. ASSUME NEW k \in 1..Len(T), k \notin Splits(T) \cup Redirects(T)
      PROVE  LastRedirects(T, k + 1) = LastRedirects(T, k)
  BY <1>6, <1>7 DEF LastRedirects
<1> QED BY <1>2, <1>3, <1>5, <1>6, <1>7

(* The redirection of a command counts from the separator behind it.        *)
LEMMA CountsStep ==
  ASSUME NEW T \in Seq(Text)
  PROVE  /\ CountsBefore(T, 1) = {}
         /\ \A k \in 1..Len(T) :
              CountsBefore(T, k + 1) =
                IF k \in Splits(T) /\ WordsBehind(T, k) # {}
                THEN CountsBefore(T, k) \cup LastRedirects(T, k) ELSE CountsBefore(T, k)
<1>1. /\ Redirects(T) \subseteq 1..Len(T) /\ Splits(T) \subseteq 1..Len(T) /\ Len(T) \in Nat
      /\ Counts(T) \subseteq Redirects(T)
  BY Kinds DEF Counts
<1>2. CountsBefore(T, 1) = {}
  <2>1. \A s \in Splits(T) : ~(s < 1)
    BY <1>1
  <2> QED BY <2>1 DEF CountsBefore
<1>3. ASSUME NEW k \in 1..Len(T), k \notin Splits(T)
      PROVE  CountsBefore(T, k + 1) = CountsBefore(T, k)
  <2>1. \A s \in Splits(T) : s < k + 1 <=> s < k
    BY <1>1, <1>3
  <2> QED BY <2>1 DEF CountsBefore
<1>4. ASSUME NEW k \in 1..Len(T), k \in Splits(T), NEW r \in LastRedirects(T, k),
             WordsBehind(T, k) # {}
      PROVE  r \in CountsBefore(T, k + 1)
  <2>1. r \in Redirects(T) /\ r < k /\ SameCommand(T, k, r)
        /\ \A s \in Redirects(T) : s < k /\ SameCommand(T, k, s) => s <= r
    BY DEF LastRedirects, RedirectsBehind
  <2>2. HasWord(T, r)
    BY <1>4, <2>1 DEF WordsBehind, HasWord, SameCommand
  <2>3. ASSUME NEW s \in Redirects(T), SameCommand(T, r, s) PROVE s <= r
    <3>1. SameCommand(T, k, s)
      BY <2>1, <2>3 DEF SameCommand
    <3>2. ~(s > k) /\ s # k
      BY <1>1, <1>4, <3>1, CommandStep, Kinds
    <3>3. s < k
      BY <1>1, <3>2
    <3> QED BY <2>1, <3>1, <3>3
  <2>4. k < k + 1
    BY <1>1
  <2> QED BY <1>4, <2>1, <2>2, <2>3, <2>4 DEF Counts, CountsBefore
<1>5. ASSUME NEW k \in 1..Len(T), k \in Splits(T)
      PROVE  CountsBefore(T, k) \subseteq CountsBefore(T, k + 1)
  <2>1. \A s \in Splits(T) : s < k => s < k + 1
    BY <1>1
  <2> QED BY <2>1 DEF CountsBefore
<1>6. ASSUME NEW k \in 1..Len(T), k \in Splits(T), NEW r \in CountsBefore(T, k + 1),
             r \notin CountsBefore(T, k)
      PROVE  r \in LastRedirects(T, k) /\ WordsBehind(T, k) # {}
  <2>1. r \in Counts(T) /\ r \in Redirects(T) /\ r \in Nat /\ k \in Nat /\ r \notin Splits(T)
    BY <1>1, Kinds DEF CountsBefore
  <2>2. \A s \in Splits(T) : r < s => ~(s < k)
    BY <1>6, <2>1 DEF CountsBefore
  <2>3. r < k
    <3>1. PICK s \in Splits(T) : r < s /\ s < k + 1
      BY <1>6 DEF CountsBefore
    <3> QED BY <1>1, <2>1, <3>1
  <2>4. SplitsBefore(T, k) = SplitsBefore(T, r)
    <3>1. \A s \in Splits(T) : s < k <=> s < r
      <4>1. \A s \in Splits(T) : s \in Nat /\ s # r
        BY <1>1, <2>1
      <4> QED BY <2>1, <2>2, <2>3, <4>1
    <3> QED BY <3>1 DEF SplitsBefore
  <2>5. HasWord(T, k)
    BY <2>1, <2>4 DEF Counts, HasWord, SameCommand
  <2>6. WordsBehind(T, k) # {}
    BY <1>6, <2>5, WordsStep
  <2>7. r \in RedirectsBehind(T, k) /\ \A s \in RedirectsBehind(T, k) : s <= r
    BY <2>1, <2>3, <2>4 DEF RedirectsBehind, SameCommand, Counts
  <2> QED BY <2>6, <2>7 DEF LastRedirects
<1>7. ASSUME NEW k \in 1..Len(T), k \in Splits(T)
      PROVE  CountsBefore(T, k + 1) =
                IF WordsBehind(T, k) # {}
                THEN CountsBefore(T, k) \cup LastRedirects(T, k) ELSE CountsBefore(T, k)
  BY <1>4, <1>5, <1>6, <1>7
<1> QED BY <1>2, <1>3, <1>7

-----------------------------------------------------------------------------
(***************************************************************************)
(* What form_query adds to the query.                                      *)
(***************************************************************************)

(* What form_query works on.                                                *)
Values == Text \cup {Uninitialized, Outside}
CommandStates ==
  [name : Values, argv : Seq(Values), has_pipe_next : BOOLEAN, has_redir : BOOLEAN,
   append : BOOLEAN, dest : Values]
PipelineStates ==
  [commands : Seq(CommandStates), has_combinator_next : BOOLEAN, is_and : BOOLEAN]
QueryStates == [pipelines : Seq(PipelineStates), in_background : BOOLEAN]
FormStates ==
  [command : CommandStates, pipeline : PipelineStates, query : QueryStates,
   command_needs_flush : BOOLEAN, pipeline_needs_flush : BOOLEAN,
   is_target : BOOLEAN, panics : BOOLEAN]

(* A command, a pipeline more.                                              *)
LEMMA CommandsGrow ==
  ASSUME NEW p, NEW S, NEW cs \in Seq(S), NEW c \in S
  PROVE  /\ PipelineWords(p, Append(cs, c)) =
              PipelineWords(p, cs) \cup CommandWords(p, Len(cs) + 1, c)
         /\ PipelineRedirs(p, Append(cs, c)) =
              PipelineRedirs(p, cs) \cup CommandRedir(p, Len(cs) + 1, c)
<1>1. Len(cs) \in Nat /\ DOMAIN cs = 1..Len(cs) /\ DOMAIN Append(cs, c) = 1..(Len(cs) + 1)
      /\ Append(cs, c)[Len(cs) + 1] = c /\ \A n \in 1..Len(cs) : Append(cs, c)[n] = cs[n]
  BY AppendProperties
<1>2. PICK ds : ds = Append(cs, c)
  OBVIOUS
<1>3. PICK m \in Nat : m = Len(cs) + 1 /\ DOMAIN ds = DOMAIN cs \cup {m} /\ ds[m] = c
                       /\ \A n \in DOMAIN cs : ds[n] = cs[n]
  BY <1>1, <1>2
<1>4. PipelineWords(p, ds) = PipelineWords(p, cs) \cup CommandWords(p, m, c)
  BY <1>3 DEF PipelineWords
<1>5. PipelineRedirs(p, ds) = PipelineRedirs(p, cs) \cup CommandRedir(p, m, c)
  BY <1>3 DEF PipelineRedirs
<1> QED BY <1>2, <1>3, <1>4, <1>5

LEMMA PipelinesGrow ==
  ASSUME NEW S, NEW ps \in Seq(S), NEW p \in S
  PROVE  /\ QueryWords(Append(ps, p)) =
              QueryWords(ps) \cup PipelineWords(Len(ps) + 1, p.commands)
         /\ QueryRedirs(Append(ps, p)) =
              QueryRedirs(ps) \cup PipelineRedirs(Len(ps) + 1, p.commands)
<1>1. Len(ps) \in Nat /\ DOMAIN ps = 1..Len(ps) /\ DOMAIN Append(ps, p) = 1..(Len(ps) + 1)
      /\ Append(ps, p)[Len(ps) + 1] = p /\ \A n \in 1..Len(ps) : Append(ps, p)[n] = ps[n]
  BY AppendProperties
<1>2. PICK qs : qs = Append(ps, p)
  OBVIOUS
<1>3. PICK m \in Nat : m = Len(ps) + 1 /\ DOMAIN qs = DOMAIN ps \cup {m} /\ qs[m] = p
                       /\ \A n \in DOMAIN ps : qs[n] = ps[n]
  BY <1>1, <1>2
<1>4. QueryWords(qs) = QueryWords(ps) \cup PipelineWords(m, p.commands)
  BY <1>3 DEF QueryWords
<1>5. QueryRedirs(qs) = QueryRedirs(ps) \cup PipelineRedirs(m, p.commands)
  BY <1>3 DEF QueryRedirs
<1> QED BY <1>2, <1>3, <1>4, <1>5

(* A word more in a command.                                                *)
HasArgument(c, d, m, t) ==
  d.name = c.name /\ d.argv = Append(c.argv, t) /\ m = Len(c.argv) + 2
AddsWord(p, n, c, d, m, t) == CommandWords(p, n, d) = CommandWords(p, n, c) \cup {<< p, n, m, t >>}

LEMMA ArgumentsGrow ==
  ASSUME NEW p, NEW n, NEW c \in CommandStates, NEW d \in CommandStates, NEW t \in Values,
         NEW m \in Nat, HasArgument(c, d, m, t)
  PROVE  AddsWord(p, n, c, d, m, t)
<1> DEFINE v == << c.name >> \o c.argv
           w == << d.name >> \o d.argv
<1>0. d.name = c.name /\ d.argv = Append(c.argv, t) /\ m = Len(c.argv) + 2
  BY DEF HasArgument
<1>1. << c.name >> \in Seq(Values) /\ c.argv \in Seq(Values) /\ << t >> \in Seq(Values)
      /\ Len(<< c.name >>) = 1
  BY DEF CommandStates
<1>2. v \in Seq(Values) /\ Len(v) = Len(c.argv) + 1 /\ Len(c.argv) \in Nat
  BY <1>1, ConcatProperties
<1>3. w = Append(v, t)
  <2>1. Append(c.argv, t) = c.argv \o << t >> /\ Append(v, t) = v \o << t >>
    BY <1>1, <1>2, AppendIsConcat
  <2>2. (<< c.name >> \o c.argv) \o << t >> = << c.name >> \o (c.argv \o << t >>)
    <3>1. PICK a \in Seq(Values), b \in Seq(Values), u \in Seq(Values) :
            a = << c.name >> /\ b = c.argv /\ u = << t >>
      BY <1>1
    <3>2. (a \o b) \o u = a \o (b \o u)
      BY ConcatAssociative
    <3> QED BY <3>1, <3>2
  <2> QED BY <1>0, <2>1, <2>2
<1> HIDE DEF v
<1>4. DOMAIN v = 1..Len(v) /\ DOMAIN Append(v, t) = 1..(Len(v) + 1)
      /\ Append(v, t)[Len(v) + 1] = t /\ \A k \in 1..Len(v) : Append(v, t)[k] = v[k]
  BY <1>2, AppendProperties
<1>5. m = Len(c.argv) + 2 /\ m = Len(v) + 1
  BY <1>0, <1>2
<1> HIDE DEF w
<1>6. DOMAIN w = DOMAIN v \cup {m} /\ w[m] = t /\ \A k \in DOMAIN v : w[k] = v[k]
  <2>1. DOMAIN w = 1..m /\ DOMAIN v = 1..(m - 1)
    BY <1>2, <1>3, <1>4, <1>5
  <2>2. 1..m = 1..(m - 1) \cup {m}
    BY <1>2, <1>5
  <2> QED BY <1>3, <1>4, <1>5, <2>1, <2>2
<1>7. CommandWords(p, n, c) = {<< p, n, k, v[k] >> : k \in DOMAIN v}
      /\ CommandWords(p, n, d) = {<< p, n, k, w[k] >> : k \in DOMAIN w}
  BY DEF CommandWords, v, w
<1> QED BY <1>5, <1>6, <1>7 DEF AddsWord

LEMMA NameAlone ==
  ASSUME NEW p, NEW n, NEW d, d.argv = << >>
  PROVE  CommandWords(p, n, d) = {<< p, n, 1, d.name >>}
<1>1. PICK w : w = << d.name >> \o d.argv
  OBVIOUS
<1>2. w = << d.name >>
  <2>1. << d.name >> \in Seq({d.name})
    OBVIOUS
  <2> QED BY <1>1, <2>1, ConcatEmptySeq
<1>3. DOMAIN w = {1} /\ w[1] = d.name
  <2>1. DOMAIN w = 1..1 /\ w[1] = d.name
    BY <1>2
  <2> QED BY <2>1
<1>4. CommandWords(p, n, d) = {<< p, n, k, w[k] >> : k \in DOMAIN w}
  BY <1>1 DEF CommandWords
<1> QED BY <1>3, <1>4

(* The query's own account is this one.                                     *)
LEMMA QueryAccount ==
  ASSUME NEW q
  PROVE  /\ WordsOfQuery(q) = QueryWords(q.pipelines)
         /\ RedirectedInQuery(q) = QueryRedirs(q.pipelines)
<1>1. \A x : x \in Commands(q) <=> \E p \in DOMAIN q.pipelines :
               \E n \in DOMAIN q.pipelines[p].commands : x = << p, n >>
  BY DEF Commands
<1>2. \A p, n : CommandAt(q, << p, n >>) = q.pipelines[p].commands[n]
  BY DEF CommandAt
<1> DEFINE OfCommand(pc) == CommandWords(pc[1], pc[2], CommandAt(q, pc))
<1>3. WordsOfQuery(q) = UNION {OfCommand(pc) : pc \in Commands(q)}
  BY DEF WordsOfQuery, CommandWords
<1>4. \A p, n : OfCommand(<< p, n >>) = CommandWords(p, n, q.pipelines[p].commands[n])
  BY <1>2
<1> HIDE DEF OfCommand
<1>5. \A x : x \in WordsOfQuery(q) <=>
               \E p \in DOMAIN q.pipelines : \E n \in DOMAIN q.pipelines[p].commands :
                 x \in CommandWords(p, n, q.pipelines[p].commands[n])
  <2>1. \A x : x \in WordsOfQuery(q) <=> \E pc \in Commands(q) : x \in OfCommand(pc)
    BY <1>3
  <2>2. \A p \in DOMAIN q.pipelines : \A n \in DOMAIN q.pipelines[p].commands :
          << p, n >> \in Commands(q)
          /\ CommandWords(p, n, q.pipelines[p].commands[n]) = OfCommand(<< p, n >>)
    BY <1>1, <1>4
  <2>3. \A pc \in Commands(q) :
          \E p \in DOMAIN q.pipelines : \E n \in DOMAIN q.pipelines[p].commands :
            OfCommand(pc) = CommandWords(p, n, q.pipelines[p].commands[n])
    BY <1>1, <1>4
  <2>4. ASSUME NEW x, x \in WordsOfQuery(q)
        PROVE  \E p \in DOMAIN q.pipelines : \E n \in DOMAIN q.pipelines[p].commands :
                 x \in CommandWords(p, n, q.pipelines[p].commands[n])
    <3>1. PICK pc \in Commands(q) : x \in OfCommand(pc)
      BY <2>1, <2>4
    <3>2. PICK p \in DOMAIN q.pipelines : \E n \in DOMAIN q.pipelines[p].commands :
            OfCommand(pc) = CommandWords(p, n, q.pipelines[p].commands[n])
      BY <2>3
    <3> QED BY <3>1, <3>2
  <2>5. ASSUME NEW x, NEW p \in DOMAIN q.pipelines, NEW n \in DOMAIN q.pipelines[p].commands,
               x \in CommandWords(p, n, q.pipelines[p].commands[n])
        PROVE  x \in WordsOfQuery(q)
    <3>1. PICK pc \in Commands(q) : pc = << p, n >>
      BY <2>2
    <3>2. x \in OfCommand(pc)
      BY <2>2, <2>5, <3>1
    <3> QED BY <2>1, <3>2
  <2> QED BY <2>4, <2>5
<1>6. WordsOfQuery(q) = QueryWords(q.pipelines)
  BY <1>5 DEF QueryWords, PipelineWords
<1>7. \A x : x \in RedirectedInQuery(q) <=>
               \E p \in DOMAIN q.pipelines : \E n \in DOMAIN q.pipelines[p].commands :
                 x \in CommandRedir(p, n, q.pipelines[p].commands[n])
  <2>1. \A x : x \in RedirectedInQuery(q) <=>
                 \E pc \in Commands(q) : /\ CommandAt(q, pc).has_redir
                                         /\ x = << pc[1], pc[2], CommandAt(q, pc).dest >>
    BY DEF RedirectedInQuery
  <2>2. \A x, p, n : x \in CommandRedir(p, n, q.pipelines[p].commands[n]) <=>
                       /\ CommandAt(q, << p, n >>).has_redir
                       /\ x = << p, n, CommandAt(q, << p, n >>).dest >>
    BY <1>2 DEF CommandRedir
  <2>3. \A p \in DOMAIN q.pipelines : \A n \in DOMAIN q.pipelines[p].commands :
          << p, n >> \in Commands(q) /\ << p, n >>[1] = p /\ << p, n >>[2] = n
    BY <1>1
  <2>4. \A pc \in Commands(q) :
          \E p \in DOMAIN q.pipelines : \E n \in DOMAIN q.pipelines[p].commands :
            pc = << p, n >> /\ pc[1] = p /\ pc[2] = n
    BY <1>1
  <2>5. ASSUME NEW x, x \in RedirectedInQuery(q)
        PROVE  \E p \in DOMAIN q.pipelines : \E n \in DOMAIN q.pipelines[p].commands :
                 x \in CommandRedir(p, n, q.pipelines[p].commands[n])
    <3>1. PICK pc \in Commands(q) : /\ CommandAt(q, pc).has_redir
                                    /\ x = << pc[1], pc[2], CommandAt(q, pc).dest >>
      BY <2>1, <2>5
    <3> QED BY <2>2, <2>4, <3>1
  <2>6. ASSUME NEW x, NEW p \in DOMAIN q.pipelines, NEW n \in DOMAIN q.pipelines[p].commands,
               x \in CommandRedir(p, n, q.pipelines[p].commands[n])
        PROVE  x \in RedirectedInQuery(q)
    <3>1. /\ CommandAt(q, << p, n >>).has_redir
          /\ x = << p, n, CommandAt(q, << p, n >>).dest >>
      BY <2>2, <2>6
    <3>2. PICK pc \in Commands(q) : pc = << p, n >> /\ pc[1] = p /\ pc[2] = n
      BY <2>3
    <3> QED BY <2>1, <3>1, <3>2
  <2> QED BY <2>5, <2>6
<1>8. RedirectedInQuery(q) = QueryRedirs(q.pipelines)
  BY <1>7 DEF QueryRedirs, PipelineRedirs
<1> QED BY <1>6, <1>8

(* What is new is empty. *)
LEMMA NewOnes ==
  /\ NewCommand \in CommandStates /\ NewCommand.argv = << >> /\ ~NewCommand.has_redir
  /\ NewPipeline \in PipelineStates /\ NewPipeline.commands = << >>
  /\ NewQuery \in QueryStates /\ NewQuery.pipelines = << >>
<1>1. << >> \in Text /\ << >> \in Values
  BY TextAppend DEF Values
<1>2. NewCommand \in CommandStates /\ NewCommand.argv = << >> /\ ~NewCommand.has_redir
  BY <1>1 DEF NewCommand, CommandStates
<1>3. NewPipeline \in PipelineStates /\ NewPipeline.commands = << >>
  BY DEF NewPipeline, PipelineStates
<1>4. NewQuery \in QueryStates /\ NewQuery.pipelines = << >>
  BY DEF NewQuery, QueryStates
<1> QED BY <1>2, <1>3, <1>4

(* What flushing does to the state of form_query. *)
LEMMA FlushCommandFacts ==
  ASSUME NEW f \in FormStates
  PROVE  /\ FlushCommand(f) \in FormStates
         /\ ~f.command_needs_flush => FlushCommand(f).panics
         /\ f.command_needs_flush =>
              /\ FlushCommand(f).pipeline.commands = Append(f.pipeline.commands, f.command)
              /\ FlushCommand(f).command = NewCommand
              /\ ~FlushCommand(f).command_needs_flush
              /\ FlushCommand(f).query = f.query
              /\ FlushCommand(f).pipeline_needs_flush = f.pipeline_needs_flush
              /\ FlushCommand(f).is_target = f.is_target
              /\ FlushCommand(f).panics = f.panics
<1>1. PICK cs \in Seq(CommandStates) : cs = Append(f.pipeline.commands, f.command)
  BY AppendProperties DEF FormStates, PipelineStates
<1>2. PICK p \in PipelineStates : p = [f.pipeline EXCEPT !.commands = cs]
  BY <1>1 DEF FormStates, PipelineStates
<1>3. p.commands = cs
  BY <1>2 DEF FormStates, PipelineStates
<1>4. f.command_needs_flush =>
        FlushCommand(f) = [f EXCEPT !.pipeline = p, !.command = NewCommand,
                                    !.command_needs_flush = FALSE]
  BY <1>1, <1>2 DEF FlushCommand
<1>5. ~f.command_needs_flush => FlushCommand(f) = [f EXCEPT !.panics = TRUE]
  BY DEF FlushCommand
<1> QED BY <1>1, <1>2, <1>3, <1>4, <1>5, NewOnes DEF FormStates

LEMMA FlushPipelineFacts ==
  ASSUME NEW f \in FormStates
  PROVE  /\ FlushPipeline(f) \in FormStates
         /\ f.panics \/ ~f.pipeline_needs_flush => FlushPipeline(f).panics
         /\ ~f.panics /\ f.pipeline_needs_flush =>
              /\ FlushPipeline(f).query.pipelines = Append(f.query.pipelines, f.pipeline)
              /\ FlushPipeline(f).pipeline = NewPipeline
              /\ ~FlushPipeline(f).pipeline_needs_flush
              /\ FlushPipeline(f).command = f.command
              /\ FlushPipeline(f).command_needs_flush = f.command_needs_flush
              /\ FlushPipeline(f).is_target = f.is_target
              /\ ~FlushPipeline(f).panics
<1>1. PICK ps \in Seq(PipelineStates) : ps = Append(f.query.pipelines, f.pipeline)
  BY AppendProperties DEF FormStates, QueryStates
<1>2. PICK q \in QueryStates : q = [f.query EXCEPT !.pipelines = ps]
  BY <1>1 DEF FormStates, QueryStates
<1>3. q.pipelines = ps
  BY <1>2 DEF FormStates, QueryStates
<1>4. ~f.panics /\ f.pipeline_needs_flush =>
        FlushPipeline(f) = [f EXCEPT !.query = q, !.pipeline = NewPipeline,
                                     !.pipeline_needs_flush = FALSE]
  BY <1>1, <1>2 DEF FlushPipeline
<1>5. f.panics \/ ~f.pipeline_needs_flush => FlushPipeline(f) = [f EXCEPT !.panics = TRUE]
  BY DEF FlushPipeline
<1> QED BY <1>1, <1>2, <1>3, <1>4, <1>5, NewOnes DEF FormStates

(* A flush moves words, and adds a redirection to the finished ones.        *)
LEMMA FlushCommandMoves ==
  ASSUME NEW f \in FormStates, f.command_needs_flush, NEW h, h = FlushCommand(f)
  PROVE  /\ Number(h) = Number(f) /\ CommandsSoFar(h) = CommandsSoFar(f) + 1
         /\ AllWords(h) = AllWords(f)
         /\ FlushedRedirs(h) =
              FlushedRedirs(f) \cup CommandRedir(Number(f), CommandsSoFar(f), f.command)
         /\ h.pipeline.commands # << >>
<1>1. /\ h.pipeline.commands = Append(f.pipeline.commands, f.command)
      /\ h.query = f.query /\ ~h.command_needs_flush
  BY FlushCommandFacts
<1>2. PICK cs \in Seq(CommandStates), c \in CommandStates :
        cs = f.pipeline.commands /\ c = f.command
  BY DEF FormStates, PipelineStates
<1>3. Number(h) = Number(f)
  BY <1>1 DEF Number
<1>4. CommandsSoFar(h) = CommandsSoFar(f) + 1 /\ h.pipeline.commands # << >>
  <2>1. Len(Append(cs, c)) = Len(cs) + 1 /\ Len(cs) \in Nat /\ Append(cs, c) # << >>
    BY AppendProperties
  <2> QED BY <1>1, <1>2, <2>1 DEF CommandsSoFar
<1>5. /\ PipelineWords(Number(f), Append(cs, c)) =
           PipelineWords(Number(f), cs) \cup CommandWords(Number(f), CommandsSoFar(f), c)
      /\ PipelineRedirs(Number(f), Append(cs, c)) =
           PipelineRedirs(Number(f), cs) \cup CommandRedir(Number(f), CommandsSoFar(f), c)
  <2>1. CommandsSoFar(f) = Len(cs) + 1
    BY <1>2 DEF CommandsSoFar
  <2>2. PICK n : n = Number(f)
    OBVIOUS
  <2>3. /\ PipelineWords(n, Append(cs, c)) =
              PipelineWords(n, cs) \cup CommandWords(n, Len(cs) + 1, c)
        /\ PipelineRedirs(n, Append(cs, c)) =
              PipelineRedirs(n, cs) \cup CommandRedir(n, Len(cs) + 1, c)
    BY CommandsGrow
  <2> QED BY <2>1, <2>2, <2>3
<1>6. AllWords(h) = AllWords(f)
  BY <1>1, <1>2, <1>3, <1>5 DEF AllWords
<1>7. FlushedRedirs(h) =
        FlushedRedirs(f) \cup CommandRedir(Number(f), CommandsSoFar(f), f.command)
  BY <1>1, <1>2, <1>3, <1>5 DEF FlushedRedirs
<1> QED BY <1>3, <1>4, <1>6, <1>7

LEMMA FlushPipelineMoves ==
  ASSUME NEW f \in FormStates, ~f.command_needs_flush, ~f.panics, f.pipeline_needs_flush,
         NEW h, h = FlushPipeline(f)
  PROVE  /\ Number(h) = Number(f) + 1 /\ CommandsSoFar(h) = 1
         /\ AllWords(h) = AllWords(f) /\ FlushedRedirs(h) = FlushedRedirs(f)
         /\ h.pipeline.commands = << >>
<1>1. /\ h.query.pipelines = Append(f.query.pipelines, f.pipeline)
      /\ h.pipeline = NewPipeline /\ ~h.command_needs_flush
  BY FlushPipelineFacts
<1>2. h.pipeline.commands = << >>
  BY <1>1, NewOnes
<1>3. PICK ps \in Seq(PipelineStates), p \in PipelineStates :
        ps = f.query.pipelines /\ p = f.pipeline
  BY DEF FormStates, QueryStates
<1>4. Number(h) = Number(f) + 1
  <2>1. Len(Append(ps, p)) = Len(ps) + 1 /\ Len(ps) \in Nat
    OBVIOUS
  <2> QED BY <1>1, <1>3, <2>1 DEF Number
<1>5. CommandsSoFar(h) = 1
  BY <1>2 DEF CommandsSoFar
<1>6. /\ QueryWords(Append(ps, p)) = QueryWords(ps) \cup PipelineWords(Number(f), p.commands)
      /\ QueryRedirs(Append(ps, p)) = QueryRedirs(ps) \cup PipelineRedirs(Number(f), p.commands)
  BY <1>3, PipelinesGrow DEF Number
<1>7. \A n : PipelineWords(n, << >>) = {} /\ PipelineRedirs(n, << >>) = {}
  BY DEF PipelineWords, PipelineRedirs
<1>8. AllWords(h) = AllWords(f)
  BY <1>1, <1>2, <1>3, <1>6, <1>7 DEF AllWords
<1>9. FlushedRedirs(h) = FlushedRedirs(f)
  BY <1>1, <1>2, <1>3, <1>6, <1>7 DEF FlushedRedirs
<1> QED BY <1>2, <1>4, <1>5, <1>8, <1>9

-----------------------------------------------------------------------------
(***************************************************************************)
(* A separator.                                                            *)
(***************************************************************************)

(* The redirection of the command that form_query builds is the last one of *)
(* the line's command.                                                      *)
LEMMA RedirOfCommand ==
  ASSUME NEW vec, vec.elems \in Seq(Text), NEW i \in 1..(Len(vec.elems) + 1), NEW f,
         Formed(vec, i, f)
  PROVE  RedirPlaces(vec, LastRedirects(vec.elems, i)) =
           CommandRedir(Number(f), CommandsSoFar(f), f.command)
<1>1. PICK T \in Seq(Text) : T = vec.elems
  OBVIOUS
<1>2. ASSUME NEW r \in LastRedirects(T, i)
      PROVE  /\ PipelineNumber(T, r) = Number(f) /\ CommandNumber(T, r) = CommandsSoFar(f)
             /\ \A s \in LastRedirects(T, i) : s = r
  <2>1. SplitsBefore(T, i) = SplitsBefore(T, r)
    BY DEF LastRedirects, RedirectsBehind, SameCommand
  <2>2. PipelineNumber(T, r) = PipelineNumber(T, i)
    BY <2>1 DEF PipelineNumber
  <2>3. CommandNumber(T, r) = CommandNumber(T, i)
    BY <2>1, <2>2 DEF CommandNumber
  <2>4. LastRedirects(T, i) \subseteq Nat
    BY Kinds DEF LastRedirects, RedirectsBehind
  <2>5. \A s \in LastRedirects(T, i) : s <= r /\ r <= s
    BY DEF LastRedirects
  <2>6. \A s \in LastRedirects(T, i) : s = r
    <3> SUFFICES ASSUME NEW s \in LastRedirects(T, i) PROVE s = r
      OBVIOUS
    <3>1. s \in Nat /\ r \in Nat /\ s <= r /\ r <= s
      BY <2>4, <2>5
    <3> QED BY <3>1
  <2>7. PipelineNumber(T, i) = Number(f) /\ CommandNumber(T, i) = CommandsSoFar(f)
    BY <1>1 DEF Formed
  <2> QED BY <2>2, <2>3, <2>6, <2>7
<1>3. CASE f.command.has_redir
  <2>1. PICK r \in LastRedirects(T, i) : f.command.dest = GetAt(vec, r + 1)
    BY <1>1, <1>3 DEF Formed
  <2>2. LastRedirects(T, i) = {r}
    BY <1>2
  <2>3. RedirPlace(vec, r) = << Number(f), CommandsSoFar(f), f.command.dest >>
    BY <1>1, <1>2, <2>1 DEF RedirPlace
  <2> QED BY <1>1, <1>3, <2>2, <2>3 DEF RedirPlaces, CommandRedir
<1>4. CASE ~f.command.has_redir
  <2>1. LastRedirects(T, i) = {}
    BY <1>1, <1>4 DEF Formed, LastRedirects
  <2> QED BY <1>1, <1>4, <2>1 DEF RedirPlaces, CommandRedir
<1> QED BY <1>3, <1>4

(* A command is at work if the line has a word for it. *)
LEMMA NoWordBehind ==
  ASSUME NEW vec, vec.elems \in Seq(Text), NEW i \in 1..(Len(vec.elems) + 1),
         NEW f \in FormStates, Formed(vec, i, f)
  PROVE  f.command_needs_flush <=> WordsBehind(vec.elems, i) # {}
<1>1. PICK T \in Seq(Text) : T = vec.elems
  OBVIOUS
<1>2. WordsBehind(T, i) \subseteq 1..Len(T) /\ Len(T) \in Nat
  BY Kinds DEF WordsBehind
<1>3. IsFiniteSet(WordsBehind(T, i))
  BY <1>2, SomeOfThem
<1>4. Cardinality(WordsBehind(T, i)) = 0 <=> WordsBehind(T, i) = {}
  BY <1>3, FS_EmptySet
<1>5. PICK n \in Nat : n = Len(f.command.argv)
  BY DEF FormStates, CommandStates
<1>6. Cardinality(WordsBehind(T, i)) = IF f.command_needs_flush THEN n + 1 ELSE 0
  BY <1>1, <1>5 DEF Formed
<1>7. n + 1 # 0
  BY <1>5
<1> QED BY <1>1, <1>4, <1>6, <1>7

(* A separator ends a command, if there is one.                             *)
LEMMA SeparatorFlushes ==
  ASSUME NEW vec, vec.elems \in Seq(Text), NEW k \in 1..Len(vec.elems),
         k \in Splits(vec.elems), NEW f \in FormStates, ~f.panics, FormInv(vec, k, f),
         NEW h, h = FlushCommand(f)
  PROVE  /\ h \in FormStates
         /\ h.panics <=> RefusedBefore(vec.elems, k + 1)
         /\ ~h.panics =>
              /\ h.command = NewCommand /\ ~h.command_needs_flush /\ h.pipeline_needs_flush
              /\ ~h.is_target /\ h.pipeline.commands # << >>
              /\ Number(h) = PipelineNumber(vec.elems, k)
              /\ CommandsSoFar(h) = CommandNumber(vec.elems, k) + 1
              /\ AllWords(h) = WordPlaces(vec.elems, k + 1)
              /\ FlushedRedirs(h) = RedirPlaces(vec, CountsBefore(vec.elems, k + 1))
<1>1. PICK T \in Seq(Text) : T = vec.elems
  OBVIOUS
<1>2. k \in 1..Len(T) /\ k \in 1..(Len(T) + 1) /\ k \in Splits(T)
  BY <1>1
<1>3. Formed(vec, k, f) /\ ~RefusedBefore(T, k)
  BY <1>1 DEF FormInv
<1>4. f.command_needs_flush <=> WordsBehind(T, k) # {}
  BY <1>1, <1>2, <1>3, NoWordBehind
<1>5. h \in FormStates
  BY FlushCommandFacts
<1>6. h.panics <=> RefusedBefore(T, k + 1)
  <2>1. RefusedBefore(T, k + 1) <=> WordsBehind(T, k) = {}
    BY <1>2, <1>3, RefusalStep
  <2> QED BY <1>4, <2>1, FlushCommandFacts
<1>7. ASSUME ~h.panics
      PROVE  /\ h.command = NewCommand /\ ~h.command_needs_flush /\ h.pipeline_needs_flush
             /\ ~h.is_target /\ h.pipeline.commands # << >>
             /\ Number(h) = PipelineNumber(T, k)
             /\ CommandsSoFar(h) = CommandNumber(T, k) + 1
             /\ AllWords(h) = WordPlaces(T, k + 1)
             /\ FlushedRedirs(h) = RedirPlaces(vec, CountsBefore(T, k + 1))
  <2>1. f.command_needs_flush
    BY <1>7, FlushCommandFacts
  <2>2. h.command = NewCommand /\ ~h.command_needs_flush
    BY <2>1, FlushCommandFacts
  <2>3. h.pipeline_needs_flush
    BY <1>3, <2>1, FlushCommandFacts DEF Formed, FormStates
  <2>4. ~h.is_target
    <3>1. f.is_target <=> IsTarget(T)[k]
      BY <1>1, <1>2, <1>3, TargetSteps DEF Formed
    <3>2. ~IsTarget(T)[k]
      BY <1>2, Kinds
    <3> QED BY <2>1, <3>1, <3>2, FlushCommandFacts
  <2>5. /\ Number(h) = PipelineNumber(T, k) /\ CommandsSoFar(h) = CommandNumber(T, k) + 1
        /\ h.pipeline.commands # << >>
    BY <1>1, <1>3, <2>1, FlushCommandMoves DEF Formed
  <2>6. AllWords(h) = WordPlaces(T, k + 1)
    <3>1. WordPlaces(T, k + 1) = WordPlaces(T, k)
      BY <1>2, PlacesStep, Kinds
    <3>2. AllWords(f) = WordPlaces(T, k)
      BY <1>1, <1>3 DEF Formed
    <3> QED BY <2>1, <3>1, <3>2, FlushCommandMoves
  <2>7. FlushedRedirs(h) = RedirPlaces(vec, CountsBefore(T, k + 1))
    <3>1. CountsBefore(T, k + 1) = CountsBefore(T, k) \cup LastRedirects(T, k)
      BY <1>2, <1>4, <2>1, CountsStep
    <3>2. RedirPlaces(vec, LastRedirects(T, k)) =
            CommandRedir(Number(f), CommandsSoFar(f), f.command)
      BY <1>1, <1>2, <1>3, RedirOfCommand
    <3>3. FlushedRedirs(f) = RedirPlaces(vec, CountsBefore(T, k))
      BY <1>1, <1>3 DEF Formed
    <3>4. RedirPlaces(vec, CountsBefore(T, k) \cup LastRedirects(T, k)) =
            RedirPlaces(vec, CountsBefore(T, k)) \cup RedirPlaces(vec, LastRedirects(T, k))
      BY DEF RedirPlaces
    <3> QED BY <2>1, <3>1, <3>2, <3>3, <3>4, FlushCommandMoves
  <2> QED BY <2>2, <2>3, <2>4, <2>5, <2>6, <2>7
<1> QED BY <1>1, <1>5, <1>6, <1>7

(* Behind a separator nothing has been taken of the next command.           *)
LEMMA BehindSeparator ==
  ASSUME NEW vec, vec.elems \in Seq(Text), NEW k \in 1..Len(vec.elems), k \in Splits(vec.elems),
         NEW f \in FormStates, f.command = NewCommand, ~f.command_needs_flush, ~f.is_target,
         f.pipeline_needs_flush <=> f.pipeline.commands # << >>,
         Number(f) = PipelineNumber(vec.elems, k + 1),
         CommandsSoFar(f) = CommandNumber(vec.elems, k + 1),
         AllWords(f) = WordPlaces(vec.elems, k + 1),
         FlushedRedirs(f) = RedirPlaces(vec, CountsBefore(vec.elems, k + 1))
  PROVE  Formed(vec, k + 1, f)
<1>1. PICK T \in Seq(Text) : T = vec.elems
  OBVIOUS
<1>2. k \in 1..Len(T) /\ k \in Splits(T)
  BY <1>1
<1>3. Cardinality(WordsBehind(T, k + 1)) = 0
  <2>1. WordsBehind(T, k + 1) = {}
    BY <1>2, WordsStep
  <2> QED BY <2>1, FS_EmptySet
<1>4. ~(T[(k + 1) - 1] \in Redirections)
  <2>1. (k + 1) - 1 = k
    BY <1>2
  <2>2. T[k] \in Separators
    BY <1>2, Kinds
  <2> QED BY <2>1, <2>2, TokensDiffer
<1>5. RedirectsBehind(T, k + 1) = {}
  BY <1>2, RedirectsStep
<1>6. f.command.argv = << >> /\ ~f.command.has_redir
  BY NewOnes
<1> QED BY <1>1, <1>3, <1>4, <1>5, <1>6 DEF Formed

(* The separator that goes on with the pipeline, and those that end it. *)
LEMMA PipeStep ==
  ASSUME NEW vec, vec.elems \in Seq(Text), NEW k \in 1..Len(vec.elems),
         k \in Splits(vec.elems), vec.elems[k] = Pipe,
         NEW f \in FormStates, ~f.panics, FormInv(vec, k, f)
  PROVE  FlushCommand(f) \in FormStates /\ FormInv(vec, k + 1, FlushCommand(f))
<1>1. PICK T \in Seq(Text) : T = vec.elems
  OBVIOUS
<1>2. PICK h : h = FlushCommand(f)
  OBVIOUS
<1>3. /\ h \in FormStates
      /\ h.panics <=> RefusedBefore(T, k + 1)
      /\ ~h.panics =>
              /\ h.command = NewCommand /\ ~h.command_needs_flush /\ h.pipeline_needs_flush
              /\ ~h.is_target /\ h.pipeline.commands # << >>
              /\ Number(h) = PipelineNumber(T, k)
              /\ CommandsSoFar(h) = CommandNumber(T, k) + 1
              /\ AllWords(h) = WordPlaces(T, k + 1)
              /\ FlushedRedirs(h) = RedirPlaces(vec, CountsBefore(T, k + 1))
  BY <1>1, <1>2, SeparatorFlushes
<1>4. /\ PipelineNumber(T, k + 1) = PipelineNumber(T, k)
      /\ CommandNumber(T, k + 1) = CommandNumber(T, k) + 1
  BY <1>1, PipelineNumbers, CommandNumbers
<1>5. ASSUME ~h.panics PROVE Formed(vec, k + 1, h)
  BY <1>1, <1>3, <1>4, <1>5, BehindSeparator
<1> QED BY <1>1, <1>2, <1>3, <1>5 DEF FormInv

LEMMA PipelineEndStep ==
  ASSUME NEW vec, vec.elems \in Seq(Text), NEW k \in 1..Len(vec.elems),
         k \in Splits(vec.elems), vec.elems[k] # Pipe,
         NEW f \in FormStates, ~f.panics, FormInv(vec, k, f),
         NEW g, g = FlushPipeline(FlushCommand(f))
  PROVE  g \in FormStates /\ FormInv(vec, k + 1, g)
<1>1. PICK T \in Seq(Text) : T = vec.elems
  OBVIOUS
<1>2. PICK h : h = FlushCommand(f)
  OBVIOUS
<1>3. /\ h \in FormStates
      /\ h.panics <=> RefusedBefore(T, k + 1)
      /\ ~h.panics =>
              /\ h.command = NewCommand /\ ~h.command_needs_flush /\ h.pipeline_needs_flush
              /\ ~h.is_target /\ h.pipeline.commands # << >>
              /\ Number(h) = PipelineNumber(T, k)
              /\ CommandsSoFar(h) = CommandNumber(T, k) + 1
              /\ AllWords(h) = WordPlaces(T, k + 1)
              /\ FlushedRedirs(h) = RedirPlaces(vec, CountsBefore(T, k + 1))
  BY <1>1, <1>2, SeparatorFlushes
<1>4. PipelineNumber(T, k + 1) = PipelineNumber(T, k) + 1 /\ CommandNumber(T, k + 1) = 1
  BY <1>1, PipelineNumbers, CommandNumbers
<1>5. g \in FormStates /\ g = FlushPipeline(h)
  BY <1>2, <1>3, FlushPipelineFacts
<1>6. g.panics <=> h.panics
  BY <1>3, <1>5, FlushPipelineFacts DEF FormStates
<1>7. ASSUME ~h.panics PROVE Formed(vec, k + 1, g)
  <2>1. /\ g.command = NewCommand /\ ~g.command_needs_flush /\ ~g.pipeline_needs_flush
        /\ ~g.is_target
    BY <1>3, <1>5, <1>7, FlushPipelineFacts
  <2>2. /\ Number(g) = Number(h) + 1 /\ CommandsSoFar(g) = 1
        /\ AllWords(g) = AllWords(h) /\ FlushedRedirs(g) = FlushedRedirs(h)
        /\ g.pipeline.commands = << >>
    BY <1>3, <1>5, <1>7, FlushPipelineMoves
  <2>3. Number(g) = PipelineNumber(T, k + 1) /\ CommandsSoFar(g) = CommandNumber(T, k + 1)
    BY <1>3, <1>4, <1>7, <2>2
  <2>4. AllWords(g) = WordPlaces(T, k + 1)
        /\ FlushedRedirs(g) = RedirPlaces(vec, CountsBefore(T, k + 1))
    BY <1>3, <1>7, <2>2
  <2> QED BY <1>1, <1>5, <2>1, <2>2, <2>3, <2>4, BehindSeparator
<1> QED BY <1>1, <1>3, <1>5, <1>6, <1>7 DEF FormInv

-----------------------------------------------------------------------------
(***************************************************************************)
(* A target and a redirection.                                             *)
(***************************************************************************)

(* What the account of a query does not depend on: the flags of commands,   *)
(* pipelines and queries.                                                   *)
Alike(f, g) ==
  /\ g.query.pipelines = f.query.pipelines
  /\ g.pipeline.commands = f.pipeline.commands
  /\ g.command.name = f.command.name /\ g.command.argv = f.command.argv
  /\ g.command.has_redir = f.command.has_redir /\ g.command.dest = f.command.dest
  /\ g.command_needs_flush = f.command_needs_flush
  /\ g.pipeline_needs_flush = f.pipeline_needs_flush
  /\ g.is_target = f.is_target /\ g.panics = f.panics

LEMMA AlikeFormed ==
  ASSUME NEW vec, NEW i, NEW f, NEW g, Alike(f, g), FormInv(vec, i, f)
  PROVE  FormInv(vec, i, g)
<1>1. Number(g) = Number(f) /\ CommandsSoFar(g) = CommandsSoFar(f)
  BY DEF Alike, Number, CommandsSoFar
<1>2. \A p, n : CommandWords(p, n, g.command) = CommandWords(p, n, f.command)
  BY DEF Alike, CommandWords
<1>3. AllWords(g) = AllWords(f) /\ FlushedRedirs(g) = FlushedRedirs(f)
  BY <1>1, <1>2 DEF Alike, AllWords, FlushedRedirs
<1> QED BY <1>1, <1>3 DEF Alike, FormInv, Formed

LEMMA FlagsAlike ==
  ASSUME NEW f \in FormStates, NEW b \in BOOLEAN
  PROVE  /\ LET g == [f EXCEPT !.pipeline.has_combinator_next = TRUE, !.pipeline.is_and = b]
            IN  g \in FormStates /\ Alike(f, g)
         /\ LET g == [f EXCEPT !.query.in_background = TRUE]
            IN  g \in FormStates /\ Alike(f, g)
         /\ LET g == [f EXCEPT !.command.has_pipe_next = TRUE]
            IN  g \in FormStates /\ Alike(f, g)
<1> DEFINE pipeline == [[f.pipeline EXCEPT !.has_combinator_next = TRUE] EXCEPT !.is_and = b]
           query == [f.query EXCEPT !.in_background = TRUE]
           command == [f.command EXCEPT !.has_pipe_next = TRUE]
<1>0. f.pipeline \in PipelineStates /\ f.query \in QueryStates /\ f.command \in CommandStates
  BY DEF FormStates
<1>1. PICK p \in PipelineStates : p = pipeline /\ p.commands = f.pipeline.commands
  <2>1. pipeline \in PipelineStates /\ pipeline.commands = f.pipeline.commands
    BY <1>0 DEF PipelineStates
  <2> HIDE DEF pipeline
  <2> QED BY <2>1
<1>2. PICK q \in QueryStates : q = query /\ q.pipelines = f.query.pipelines
  <2>1. query \in QueryStates /\ query.pipelines = f.query.pipelines
    BY <1>0 DEF QueryStates
  <2> HIDE DEF query
  <2> QED BY <2>1
<1>3. PICK c \in CommandStates : c = command
        /\ c.name = f.command.name /\ c.argv = f.command.argv
        /\ c.has_redir = f.command.has_redir /\ c.dest = f.command.dest
  <2>1. /\ command \in CommandStates
        /\ command.name = f.command.name /\ command.argv = f.command.argv
        /\ command.has_redir = f.command.has_redir /\ command.dest = f.command.dest
    BY <1>0 DEF CommandStates
  <2> HIDE DEF command
  <2> QED BY <2>1
<1>4. [f EXCEPT !.pipeline.has_combinator_next = TRUE, !.pipeline.is_and = b]
        = [f EXCEPT !.pipeline = p]
  BY <1>1 DEF FormStates
<1>5. [f EXCEPT !.query.in_background = TRUE] = [f EXCEPT !.query = q]
  BY <1>2 DEF FormStates
<1>6. [f EXCEPT !.command.has_pipe_next = TRUE] = [f EXCEPT !.command = c]
  BY <1>3 DEF FormStates
<1>7. [f EXCEPT !.pipeline = p] \in FormStates /\ Alike(f, [f EXCEPT !.pipeline = p])
  BY <1>1 DEF FormStates, Alike
<1>8. [f EXCEPT !.query = q] \in FormStates /\ Alike(f, [f EXCEPT !.query = q])
  BY <1>2 DEF FormStates, Alike
<1>9. [f EXCEPT !.command = c] \in FormStates /\ Alike(f, [f EXCEPT !.command = c])
  BY <1>3 DEF FormStates, Alike
<1> QED BY <1>4, <1>5, <1>6, <1>7, <1>8, <1>9

(* A token that is neither word nor separator changes nothing else.         *)
LEMMA QuietStep ==
  ASSUME NEW T \in Seq(Text), NEW k \in 1..Len(T), k \notin Splits(T) \cup Words(T)
  PROVE  /\ PipelineNumber(T, k + 1) = PipelineNumber(T, k)
         /\ CommandNumber(T, k + 1) = CommandNumber(T, k)
         /\ WordsBehind(T, k + 1) = WordsBehind(T, k)
         /\ WordPlaces(T, k + 1) = WordPlaces(T, k)
         /\ CountsBefore(T, k + 1) = CountsBefore(T, k)
         /\ RefusedBefore(T, k + 1) <=> RefusedBefore(T, k)
  BY PipelineNumbers, CommandNumbers, WordsStep, PlacesStep, CountsStep, RefusalStep

(* The target of a redirection is passed over. *)
LEMMA TargetStep ==
  ASSUME NEW vec, vec.elems \in Seq(Text), NEW k \in 1..Len(vec.elems),
         NEW f \in FormStates, ~f.panics, f.is_target, FormInv(vec, k, f),
         NEW g, g = [f EXCEPT !.is_target = FALSE]
  PROVE  g \in FormStates /\ FormInv(vec, k + 1, g)
<1>1. PICK T \in Seq(Text) : T = vec.elems
  OBVIOUS
<1>2. k \in 1..Len(T) /\ (k + 1) - 1 = k
  BY <1>1
<1>3. Formed(vec, k, f) /\ ~RefusedBefore(T, k)
  BY <1>1 DEF FormInv
<1>4. IsTarget(T)[k]
  BY <1>1, <1>2, <1>3, TargetSteps DEF Formed
<1>5. k \notin Splits(T) \cup Words(T) \cup Redirects(T)
  BY <1>2, <1>4, Kinds
<1>6. /\ PipelineNumber(T, k + 1) = PipelineNumber(T, k)
      /\ CommandNumber(T, k + 1) = CommandNumber(T, k)
      /\ WordsBehind(T, k + 1) = WordsBehind(T, k)
      /\ WordPlaces(T, k + 1) = WordPlaces(T, k)
      /\ CountsBefore(T, k + 1) = CountsBefore(T, k)
      /\ RefusedBefore(T, k + 1) <=> RefusedBefore(T, k)
      /\ RedirectsBehind(T, k + 1) = RedirectsBehind(T, k)
      /\ LastRedirects(T, k + 1) = LastRedirects(T, k)
  BY <1>2, <1>5, QuietStep, RedirectsStep
<1>7. /\ g \in FormStates /\ ~g.is_target /\ ~g.panics
      /\ g.query = f.query /\ g.pipeline = f.pipeline /\ g.command = f.command
      /\ g.command_needs_flush = f.command_needs_flush
      /\ g.pipeline_needs_flush = f.pipeline_needs_flush
  BY DEF FormStates
<1>8. /\ Number(g) = Number(f) /\ CommandsSoFar(g) = CommandsSoFar(f)
      /\ AllWords(g) = AllWords(f) /\ FlushedRedirs(g) = FlushedRedirs(f)
  BY <1>7 DEF Number, CommandsSoFar, AllWords, FlushedRedirs
<1>9. Formed(vec, k + 1, g)
  BY <1>1, <1>2, <1>3, <1>4, <1>6, <1>7, <1>8 DEF Formed
<1> QED BY <1>1, <1>3, <1>6, <1>7, <1>9 DEF FormInv

(* A redirection notes the token behind it. *)
LEMMA RedirectedFacts ==
  ASSUME NEW vec, vec.elems \in Seq(Text), NEW k \in 1..Len(vec.elems),
         NEW f \in FormStates, NEW g, g = Redirected(f, vec, k)
  PROVE  /\ g \in FormStates /\ g.is_target /\ g.panics = f.panics
         /\ g.query = f.query /\ g.pipeline = f.pipeline
         /\ g.command_needs_flush = f.command_needs_flush
         /\ g.pipeline_needs_flush = f.pipeline_needs_flush
         /\ g.command.name = f.command.name /\ g.command.argv = f.command.argv
         /\ g.command.has_redir /\ g.command.dest = GetAt(vec, k + 1)
<1>1. PICK T \in Seq(Text) : T = vec.elems
  OBVIOUS
<1>2. PICK d \in Values : d = GetAt(vec, k + 1)
  <2>1. k + 1 <= Len(T) => T[k + 1] \in Text
    BY <1>1
  <2> QED BY <1>1, <2>1 DEF GetAt, Values
<1>3. PICK b \in BOOLEAN : b = (f.command.append \/ vec.elems[k] = << ">", ">" >>)
  OBVIOUS
<1> DEFINE command ==
             [[[f.command EXCEPT !.has_redir = TRUE] EXCEPT !.append = b] EXCEPT !.dest = d]
<1>4. PICK c \in CommandStates :
        /\ c = command /\ c.name = f.command.name /\ c.argv = f.command.argv
        /\ c.has_redir /\ c.dest = d
  <2>1. f.command \in CommandStates
    BY DEF FormStates
  <2>2. /\ command \in CommandStates
        /\ command.name = f.command.name /\ command.argv = f.command.argv
        /\ command.has_redir /\ command.dest = d
    BY <2>1 DEF CommandStates
  <2> HIDE DEF command
  <2> QED BY <2>2
<1>5. g = [f EXCEPT !.command = c, !.is_target = TRUE]
  <2>1. f.command \in CommandStates /\ "append" \in DOMAIN f.command
    BY DEF FormStates, CommandStates
  <2>2. [f.command EXCEPT !.has_redir = TRUE].append = f.command.append
    BY <2>1 DEF CommandStates
  <2> QED BY <1>2, <1>3, <1>4, <2>1, <2>2 DEF FormStates, Redirected
<1> QED BY <1>2, <1>4, <1>5 DEF FormStates

LEMMA RedirectStep ==
  ASSUME NEW vec, vec.elems \in Seq(Text), NEW k \in 1..Len(vec.elems),
         k \in Redirects(vec.elems),
         NEW f \in FormStates, ~f.panics, FormInv(vec, k, f),
         NEW g, g = Redirected(f, vec, k)
  PROVE  g \in FormStates /\ FormInv(vec, k + 1, g)
<1>1. PICK T \in Seq(Text) : T = vec.elems
  OBVIOUS
<1>2. k \in 1..Len(T) /\ (k + 1) - 1 = k /\ k + 1 > 1 /\ Len(T) \in Nat
  BY <1>1
<1>3. Formed(vec, k, f) /\ ~RefusedBefore(T, k)
  BY <1>1 DEF FormInv
<1>4. T[k] \in Redirections /\ ~IsTarget(T)[k] /\ k \notin Splits(T) \cup Words(T)
  BY <1>1, <1>2, Kinds
<1>5. /\ PipelineNumber(T, k + 1) = PipelineNumber(T, k)
      /\ CommandNumber(T, k + 1) = CommandNumber(T, k)
      /\ WordsBehind(T, k + 1) = WordsBehind(T, k)
      /\ WordPlaces(T, k + 1) = WordPlaces(T, k)
      /\ CountsBefore(T, k + 1) = CountsBefore(T, k)
      /\ RefusedBefore(T, k + 1) <=> RefusedBefore(T, k)
      /\ k \in LastRedirects(T, k + 1)
  BY <1>1, <1>2, <1>4, QuietStep, RedirectsStep
<1>6. /\ g \in FormStates /\ g.is_target /\ ~g.panics
      /\ g.query = f.query /\ g.pipeline = f.pipeline
      /\ g.command_needs_flush = f.command_needs_flush
      /\ g.pipeline_needs_flush = f.pipeline_needs_flush
      /\ g.command.name = f.command.name /\ g.command.argv = f.command.argv
      /\ g.command.has_redir /\ g.command.dest = GetAt(vec, k + 1)
  BY RedirectedFacts
<1>7. Number(g) = Number(f) /\ CommandsSoFar(g) = CommandsSoFar(f)
      /\ FlushedRedirs(g) = FlushedRedirs(f)
  BY <1>6 DEF Number, CommandsSoFar, FlushedRedirs
<1>8. AllWords(g) = AllWords(f)
  <2>1. \A p, n : CommandWords(p, n, g.command) = CommandWords(p, n, f.command)
    BY <1>6 DEF CommandWords
  <2> QED BY <1>6, <1>7, <2>1 DEF AllWords
<1>9. Formed(vec, k + 1, g)
  BY <1>1, <1>2, <1>3, <1>4, <1>5, <1>6, <1>7, <1>8 DEF Formed
<1> QED BY <1>1, <1>3, <1>5, <1>6, <1>9 DEF FormInv

-----------------------------------------------------------------------------
(***************************************************************************)
(* A word, and any token.                                                  *)
(***************************************************************************)

(* A word becomes the name of a command or an argument more. *)
LEMMA WordFacts ==
  ASSUME NEW f \in FormStates, NEW t \in Values, NEW g, g = Word(f, t)
  PROVE  /\ g \in FormStates /\ g.query = f.query /\ g.pipeline = f.pipeline
         /\ g.is_target = f.is_target /\ g.panics = f.panics
         /\ g.command.has_redir = f.command.has_redir /\ g.command.dest = f.command.dest
         /\ g.command_needs_flush
         /\ f.command_needs_flush =>
              /\ g.command.name = f.command.name
              /\ g.command.argv = Append(f.command.argv, t)
              /\ g.pipeline_needs_flush = f.pipeline_needs_flush
         /\ ~f.command_needs_flush =>
              g.command.name = t /\ g.command.argv = f.command.argv /\ g.pipeline_needs_flush
<1>1. f.command \in CommandStates
  BY DEF FormStates
<1>2. CASE f.command_needs_flush
  <2>1. PICK args \in Seq(Values) : args = Append(f.command.argv, t)
    BY <1>1, AppendProperties DEF CommandStates
  <2> DEFINE command == [f.command EXCEPT !.argv = args]
  <2>2. /\ command \in CommandStates /\ command.name = f.command.name /\ command.argv = args
        /\ command.has_redir = f.command.has_redir /\ command.dest = f.command.dest
    BY <1>1 DEF CommandStates
  <2>3. g = [f EXCEPT !.command = command]
    BY <1>2, <2>1 DEF Word
  <2> HIDE DEF command
  <2> QED BY <1>2, <2>1, <2>2, <2>3 DEF FormStates
<1>3. CASE ~f.command_needs_flush
  <2> DEFINE command == [f.command EXCEPT !.name = t]
  <2>1. /\ command \in CommandStates /\ command.name = t /\ command.argv = f.command.argv
        /\ command.has_redir = f.command.has_redir /\ command.dest = f.command.dest
    BY <1>1 DEF CommandStates
  <2>2. g = [f EXCEPT !.command = command, !.command_needs_flush = TRUE,
                      !.pipeline_needs_flush = TRUE]
    BY <1>3 DEF Word
  <2> HIDE DEF command
  <2> QED BY <1>3, <2>1, <2>2 DEF FormStates
<1> QED BY <1>2, <1>3

LEMMA WordStep ==
  ASSUME NEW vec, vec.elems \in Seq(Text), NEW k \in 1..Len(vec.elems),
         k \in Words(vec.elems),
         NEW f \in FormStates, ~f.panics, FormInv(vec, k, f),
         NEW g, g = Word(f, vec.elems[k])
  PROVE  g \in FormStates /\ FormInv(vec, k + 1, g)
<1>1. PICK T \in Seq(Text) : T = vec.elems
  OBVIOUS
<1>2. k \in 1..Len(T) /\ (k + 1) - 1 = k /\ k \in Words(T) /\ Len(T) \in Nat
  BY <1>1
<1>3. Formed(vec, k, f) /\ ~RefusedBefore(T, k)
  BY <1>1 DEF FormInv
<1>4. T[k] \notin Redirections /\ ~IsTarget(T)[k] /\ k \notin Splits(T) \cup Redirects(T)
  BY <1>2, Kinds
<1>5. PICK t \in Values : t = T[k] /\ g = Word(f, t)
  BY <1>1, <1>2 DEF Values
<1>6. /\ PipelineNumber(T, k + 1) = PipelineNumber(T, k)
      /\ CommandNumber(T, k + 1) = CommandNumber(T, k)
      /\ WordPlaces(T, k + 1) = WordPlaces(T, k) \cup {WordPlace(T, k)}
      /\ CountsBefore(T, k + 1) = CountsBefore(T, k)
      /\ RefusedBefore(T, k + 1) <=> RefusedBefore(T, k)
      /\ RedirectsBehind(T, k + 1) = RedirectsBehind(T, k)
      /\ LastRedirects(T, k + 1) = LastRedirects(T, k)
  BY <1>2, <1>4, PipelineNumbers, CommandNumbers, PlacesStep, CountsStep, RefusalStep,
     RedirectsStep
<1>7. PICK n \in Nat : /\ n = Cardinality(WordsBehind(T, k)) /\ PlaceOf(T, k) = n + 1
                       /\ Cardinality(WordsBehind(T, k + 1)) = n + 1
  <2>1. /\ WordsBehind(T, k + 1) = WordsBehind(T, k) \cup {k}
        /\ PlaceOf(T, k) = Cardinality(WordsBehind(T, k)) + 1
        /\ WordsBehind(T, k) \subseteq 1..Len(T) /\ k \notin WordsBehind(T, k)
    BY <1>2, WordsStep
  <2>2. /\ Cardinality(WordsBehind(T, k + 1)) = Cardinality(WordsBehind(T, k)) + 1
        /\ Cardinality(WordsBehind(T, k)) \in Nat
    BY <1>2, <2>1, OneMore, SomeOfThem
  <2> QED BY <2>1, <2>2
<1>8. ~f.command_needs_flush => f.command.argv = << >>
  BY <1>3 DEF Formed
<1>9. /\ g \in FormStates /\ g.query = f.query /\ g.pipeline = f.pipeline
      /\ g.is_target = f.is_target /\ g.panics = f.panics
      /\ g.command.has_redir = f.command.has_redir /\ g.command.dest = f.command.dest
      /\ g.command_needs_flush
      /\ f.command_needs_flush =>
           /\ g.command.name = f.command.name
           /\ g.command.argv = Append(f.command.argv, t)
           /\ g.pipeline_needs_flush = f.pipeline_needs_flush
      /\ ~f.command_needs_flush =>
           g.command.name = t /\ g.command.argv = << >> /\ g.pipeline_needs_flush
  BY <1>5, <1>8, WordFacts
<1>10. Number(g) = Number(f) /\ CommandsSoFar(g) = CommandsSoFar(f)
       /\ FlushedRedirs(g) = FlushedRedirs(f)
  BY <1>9 DEF Number, CommandsSoFar, FlushedRedirs
<1>11. WordPlace(T, k) = << Number(f), CommandsSoFar(f), n + 1, t >>
  BY <1>1, <1>3, <1>5, <1>7 DEF Formed, WordPlace
<1>12. PICK m \in Nat : m = Len(f.command.argv)
  BY DEF FormStates, CommandStates
<1>13. n = IF f.command_needs_flush THEN m + 1 ELSE 0
  BY <1>1, <1>3, <1>7, <1>12 DEF Formed
<1>14. AllWords(g) = AllWords(f) \cup {WordPlace(T, k)}
       /\ n + 1 = Len(g.command.argv) + 1
  <2>1. CASE f.command_needs_flush
    <3>1. PICK c \in CommandStates, d \in CommandStates : c = f.command /\ d = g.command
      BY <1>9 DEF FormStates
    <3>2. d.name = c.name /\ d.argv = Append(c.argv, t)
      BY <1>9, <2>1, <3>1
    <3>3. PICK q \in Nat : q = n + 1 /\ q = Len(c.argv) + 2 /\ q = m + 2
      BY <1>12, <1>13, <2>1, <3>1
    <3>4. CommandWords(Number(f), CommandsSoFar(f), d) =
            CommandWords(Number(f), CommandsSoFar(f), c)
              \cup {<< Number(f), CommandsSoFar(f), q, t >>}
      <4>1. t \in Values /\ c \in CommandStates /\ d \in CommandStates /\ q \in Nat
        BY <1>5, <3>1, <3>3
      <4>2. HasArgument(c, d, q, t)
        BY <3>2, <3>3 DEF HasArgument
      <4>3. AddsWord(Number(f), CommandsSoFar(f), c, d, q, t)
        BY <4>1, <4>2, ArgumentsGrow
      <4> QED BY <4>3 DEF AddsWord
    <3>5. Len(d.argv) = m + 1
      BY <1>12, <3>1, <3>2, AppendProperties DEF CommandStates
    <3>6. AllWords(g) = AllWords(f) \cup {WordPlace(T, k)}
      BY <1>9, <1>10, <1>11, <2>1, <3>1, <3>3, <3>4 DEF AllWords
    <3>7. n + 1 = Len(g.command.argv) + 1
      BY <3>1, <3>3, <3>5
    <3> QED BY <3>6, <3>7
  <2>2. CASE ~f.command_needs_flush
    <3>1. n = 0 /\ n + 1 = 1
      BY <1>13, <2>2
    <3>2. g.command.argv = << >> /\ g.command.name = t
      BY <1>9, <2>2
    <3>3. CommandWords(Number(f), CommandsSoFar(f), g.command) =
            {<< Number(f), CommandsSoFar(f), 1, t >>}
      BY <3>2, NameAlone
    <3>4. AllWords(g) = AllWords(f) \cup {WordPlace(T, k)}
      BY <1>9, <1>10, <1>11, <2>2, <3>1, <3>3 DEF AllWords
    <3>5. n + 1 = Len(g.command.argv) + 1
      BY <3>1, <3>2
    <3> QED BY <3>4, <3>5
  <2> QED BY <2>1, <2>2
<1>15. ~g.is_target
  <2>1. f.is_target <=> IsTarget(T)[k]
    BY <1>1, <1>2, <1>3, TargetSteps DEF Formed
  <2> QED BY <1>4, <1>9, <2>1
<1>16. g.pipeline_needs_flush
  BY <1>3, <1>9 DEF Formed, FormStates
<1>17. AllWords(g) = WordPlaces(T, k + 1)
  BY <1>1, <1>3, <1>6, <1>14 DEF Formed
<1>18. Cardinality(WordsBehind(T, k + 1)) = Len(g.command.argv) + 1
  BY <1>7, <1>14
<1>19. /\ PipelineNumber(T, k + 1) = Number(g) /\ CommandNumber(T, k + 1) = CommandsSoFar(g)
       /\ FlushedRedirs(g) = RedirPlaces(vec, CountsBefore(T, k + 1))
       /\ g.command.has_redir =>
            \E r \in LastRedirects(T, k + 1) : g.command.dest = GetAt(vec, r + 1)
       /\ ~g.command.has_redir => RedirectsBehind(T, k + 1) = {}
  BY <1>1, <1>3, <1>6, <1>9, <1>10 DEF Formed
<1>20. Formed(vec, k + 1, g)
  BY <1>1, <1>2, <1>4, <1>9, <1>15, <1>16, <1>17, <1>18, <1>19 DEF Formed
<1> QED BY <1>1, <1>3, <1>6, <1>9, <1>20 DEF FormInv

(* Every token keeps form_query's account true.                             *)
LEMMA TokenStep ==
  ASSUME NEW vec, vec.elems \in Seq(Text), NEW k \in 1..Len(vec.elems),
         NEW f \in FormStates, FormInv(vec, k, f)
  PROVE  TakeToken(f, vec, k) \in FormStates /\ FormInv(vec, k + 1, TakeToken(f, vec, k))
<1>1. PICK T \in Seq(Text) : T = vec.elems
  OBVIOUS
<1>2. PICK g : g = TakeToken(f, vec, k)
  OBVIOUS
<1>3. k \in 1..Len(T) /\ (f.is_target /\ ~f.panics => IsTarget(T)[k])
      /\ (~f.is_target /\ ~f.panics => ~IsTarget(T)[k])
  BY <1>1, TargetSteps DEF FormInv, Formed
<1>4. CASE f.panics
  <2>1. g = f
    BY <1>2, <1>4 DEF TakeToken
  <2>2. RefusedBefore(T, k + 1)
    BY <1>1, <1>3, <1>4, RefusalStep DEF FormInv
  <2> QED BY <1>1, <1>2, <1>4, <2>1, <2>2 DEF FormInv
<1>5. CASE ~f.panics /\ f.is_target
  <2>1. g = [f EXCEPT !.is_target = FALSE]
    BY <1>2, <1>5 DEF TakeToken
  <2> QED BY <1>2, <1>5, <2>1, TargetStep
<1>6. CASE ~f.panics /\ ~f.is_target /\ T[k] \in {And, Or, Background}
  <2>1. k \in Splits(T) /\ T[k] # Pipe
    BY <1>3, <1>6, Kinds, TokensDiffer DEF Separators
  <2>2. \E h \in FormStates : Alike(f, h) /\ g = FlushPipeline(FlushCommand(h))
    <3>1. CASE T[k] = And
      <4>1. g = Combined(f, TRUE)
        BY <1>1, <1>2, <1>6, <3>1 DEF TakeToken
      <4> QED BY <4>1, FlagsAlike DEF Combined
    <3>2. CASE T[k] = Or
      <4>1. g = Combined(f, FALSE)
        BY <1>1, <1>2, <1>6, <3>2, TokensDiffer DEF TakeToken
      <4> QED BY <4>1, FlagsAlike DEF Combined
    <3>3. CASE T[k] = Background
      <4>1. g = FlushPipeline(FlushCommand([f EXCEPT !.query.in_background = TRUE]))
        BY <1>1, <1>2, <1>6, <3>3, TokensDiffer DEF TakeToken
      <4> QED BY <4>1, FlagsAlike
    <3> QED BY <1>6, <3>1, <3>2, <3>3
  <2>3. PICK h \in FormStates : Alike(f, h) /\ g = FlushPipeline(FlushCommand(h))
    BY <2>2
  <2>4. FormInv(vec, k, h) /\ ~h.panics
    BY <1>6, <2>3, AlikeFormed DEF Alike
  <2> QED BY <1>1, <1>2, <2>1, <2>3, <2>4, PipelineEndStep
<1>7. CASE ~f.panics /\ ~f.is_target /\ T[k] = Pipe
  <2>1. k \in Splits(T)
    BY <1>3, <1>7, Kinds DEF Separators
  <2>2. g = FlushCommand([f EXCEPT !.command.has_pipe_next = TRUE])
    BY <1>1, <1>2, <1>7, TokensDiffer DEF TakeToken
  <2>3. PICK h \in FormStates : Alike(f, h) /\ g = FlushCommand(h)
    BY <2>2, FlagsAlike
  <2>4. FormInv(vec, k, h) /\ ~h.panics
    BY <1>7, <2>3, AlikeFormed DEF Alike
  <2> QED BY <1>1, <1>2, <1>7, <2>1, <2>3, <2>4, PipeStep
<1>8. CASE ~f.panics /\ ~f.is_target /\ T[k] \in Redirections
  <2>1. k \in Redirects(T)
    BY <1>3, <1>8, Kinds
  <2>2. T[k] \notin {And, Or, Background, Pipe}
    BY <1>8, TokensDiffer DEF Separators
  <2>3. g = Redirected(f, vec, k)
    BY <1>1, <1>2, <1>8, <2>2 DEF TakeToken
  <2> QED BY <1>1, <1>2, <1>8, <2>1, <2>3, RedirectStep
<1>9. CASE ~f.panics /\ ~f.is_target /\ T[k] \notin Separators \cup Redirections
  <2>1. k \in Words(T)
    BY <1>3, <1>9, Kinds
  <2>2. g = Word(f, vec.elems[k])
    BY <1>1, <1>2, <1>9 DEF TakeToken, Separators
  <2> QED BY <1>1, <1>2, <1>9, <2>1, <2>2, WordStep
<1> QED BY <1>4, <1>5, <1>6, <1>7, <1>8, <1>9 DEF Separators

-----------------------------------------------------------------------------
(***************************************************************************)
(* form_query from the first token to the last.                            *)
(***************************************************************************)

(* The last command's redirection counts from the line's end.               *)
LEMMA CountsAtTheEnd ==
  ASSUME NEW T \in Seq(Text)
  PROVE  Counts(T) =
           IF WordsBehind(T, Len(T) + 1) # {}
           THEN CountsBefore(T, Len(T) + 1) \cup LastRedirects(T, Len(T) + 1)
           ELSE CountsBefore(T, Len(T) + 1)
<1>1. PICK n \in Nat : n = Len(T) + 1 /\ 1..Len(T) = 1..(n - 1)
  OBVIOUS
<1>2. /\ Redirects(T) \subseteq 1..(n - 1) /\ Splits(T) \subseteq 1..(n - 1)
      /\ Words(T) \subseteq 1..(n - 1) /\ Counts(T) \subseteq Redirects(T)
  BY <1>1, Kinds DEF Counts
<1>3. ASSUME NEW r \in LastRedirects(T, n), WordsBehind(T, n) # {}
      PROVE  r \in Counts(T)
  <2>1. r \in Redirects(T) /\ SameCommand(T, n, r)
        /\ \A s \in Redirects(T) : s < n /\ SameCommand(T, n, s) => s <= r
    BY DEF LastRedirects, RedirectsBehind
  <2>2. HasWord(T, r)
    BY <1>3, <2>1 DEF WordsBehind, HasWord, SameCommand
  <2>3. \A s \in Redirects(T) : s < n
    BY <1>2
  <2>4. ASSUME NEW s \in Redirects(T), SameCommand(T, r, s) PROVE s <= r
    <3>1. SameCommand(T, n, s)
      BY <2>1, <2>4 DEF SameCommand
    <3> QED BY <2>1, <2>3, <3>1
  <2> QED BY <2>1, <2>2, <2>4 DEF Counts
<1>4. CountsBefore(T, n) \subseteq Counts(T)
  BY DEF CountsBefore
<1>5. ASSUME NEW r \in Counts(T), r \notin CountsBefore(T, n)
      PROVE  r \in LastRedirects(T, n) /\ WordsBehind(T, n) # {}
  <2>1. r \in Redirects(T) /\ r \in 1..(n - 1) /\ r < n /\ r \notin Splits(T)
    <3>1. r \in Redirects(T) /\ r \in 1..(n - 1)
      BY <1>2
    <3> QED BY <1>1, <3>1, Kinds
  <2>2. \A s \in Splits(T) : s < n /\ s \in Nat
    BY <1>2
  <2>3. \A s \in Splits(T) : ~(r < s)
    BY <1>5, <2>2 DEF CountsBefore
  <2>4. SplitsBefore(T, n) = SplitsBefore(T, r)
    <3>1. \A s \in Splits(T) : s < n <=> s < r
      BY <2>1, <2>2, <2>3
    <3> QED BY <3>1 DEF SplitsBefore
  <2>5. PICK w \in Words(T) : SameCommand(T, r, w)
    BY DEF Counts, HasWord
  <2>6. w < n
    BY <1>2
  <2>7. WordsBehind(T, n) # {}
    BY <2>4, <2>5, <2>6 DEF WordsBehind, SameCommand
  <2>8. r \in RedirectsBehind(T, n) /\ \A s \in RedirectsBehind(T, n) : s <= r
    BY <2>1, <2>4 DEF RedirectsBehind, SameCommand, Counts
  <2> QED BY <2>7, <2>8 DEF LastRedirects
<1>6. Counts(T) = IF WordsBehind(T, n) # {} THEN CountsBefore(T, n) \cup LastRedirects(T, n)
                  ELSE CountsBefore(T, n)
  BY <1>3, <1>4, <1>5
<1> QED BY <1>1, <1>6

FormStart ==
  [command |-> NewCommand, pipeline |-> NewPipeline, query |-> NewQuery,
   command_needs_flush |-> FALSE, pipeline_needs_flush |-> FALSE,
   is_target |-> FALSE, panics |-> FALSE]

(* At the first token nothing is behind. *)
LEMMA FormStarts ==
  ASSUME NEW vec, vec.elems \in Seq(Text)
  PROVE  FormStart \in FormStates /\ FormInv(vec, 1, FormStart)
<1>1. PICK T \in Seq(Text) : T = vec.elems
  OBVIOUS
<1>0. FormStart \in FormStates
  BY NewOnes DEF FormStates, FormStart
<1>2. PICK f \in FormStates :
        /\ f = FormStart /\ f.command = NewCommand /\ f.pipeline = NewPipeline
        /\ f.query = NewQuery /\ ~f.command_needs_flush /\ ~f.pipeline_needs_flush
        /\ ~f.is_target /\ ~f.panics
  BY <1>0 DEF FormStart
<1>3. /\ f.command.argv = << >> /\ ~f.command.has_redir /\ f.pipeline.commands = << >>
      /\ f.query.pipelines = << >>
  BY <1>2, NewOnes
<1>4. PipelineNumber(T, 1) = 1 /\ CommandNumber(T, 1) = 1
  BY PipelineNumbers, CommandNumbers
<1>5. Number(f) = 1 /\ CommandsSoFar(f) = 1
  BY <1>3 DEF Number, CommandsSoFar
<1>6. Cardinality(WordsBehind(T, 1)) = 0
  <2>1. WordsBehind(T, 1) = {}
    BY WordsStep
  <2> QED BY <2>1, FS_EmptySet
<1>7. /\ \A n : PipelineWords(n, << >>) = {} /\ PipelineRedirs(n, << >>) = {}
      /\ QueryWords(<< >>) = {} /\ QueryRedirs(<< >>) = {}
  BY DEF PipelineWords, PipelineRedirs, QueryWords, QueryRedirs
<1>8. AllWords(f) = {} /\ FlushedRedirs(f) = {}
  BY <1>2, <1>3, <1>7 DEF AllWords, FlushedRedirs
<1>9. WordPlaces(T, 1) = {} /\ CountsBefore(T, 1) = {} /\ RedirectsBehind(T, 1) = {}
      /\ ~RefusedBefore(T, 1)
  BY PlacesStep, CountsStep, RedirectsStep, RefusalStep
<1>10. RedirPlaces(vec, {}) = {}
  BY DEF RedirPlaces
<1>11. Formed(vec, 1, f)
  BY <1>1, <1>2, <1>3, <1>4, <1>5, <1>6, <1>8, <1>9, <1>10 DEF Formed
<1> QED BY <1>1, <1>2, <1>9, <1>11 DEF FormInv

(* form_query at a token does not leave its states. *)
LEMMA TokenTyped ==
  ASSUME NEW vec, vec.elems \in Seq(Text), NEW k \in 1..Len(vec.elems), NEW f \in FormStates
  PROVE  TakeToken(f, vec, k) \in FormStates
<1>1. PICK t \in Values : t = vec.elems[k]
  <2>1. vec.elems[k] \in Text
    OBVIOUS
  <2> QED BY <2>1 DEF Values
<1>2. PICK g : g = TakeToken(f, vec, k)
  OBVIOUS
<1>3. CASE g = f
  BY <1>2, <1>3
<1>4. CASE g = [f EXCEPT !.is_target = FALSE]
  BY <1>2, <1>4 DEF FormStates
<1>5. ASSUME NEW b \in BOOLEAN, g = Combined(f, b) PROVE g \in FormStates
  BY <1>5, FlagsAlike, FlushCommandFacts, FlushPipelineFacts DEF Combined
<1>6. CASE g = FlushPipeline(FlushCommand([f EXCEPT !.query.in_background = TRUE]))
  <2>1. PICK h \in FormStates : h = [f EXCEPT !.query.in_background = TRUE]
    BY FlagsAlike
  <2> QED BY <1>2, <1>6, <2>1, FlushCommandFacts, FlushPipelineFacts
<1>7. CASE g = FlushCommand([f EXCEPT !.command.has_pipe_next = TRUE])
  <2>1. PICK h \in FormStates : h = [f EXCEPT !.command.has_pipe_next = TRUE]
    BY FlagsAlike
  <2> QED BY <1>2, <1>7, <2>1, FlushCommandFacts
<1>8. CASE g = Redirected(f, vec, k)
  BY <1>2, <1>8, RedirectedFacts
<1>9. CASE g = Word(f, t)
  BY <1>2, <1>9, WordFacts
<1>10. \/ g = f \/ g = [f EXCEPT !.is_target = FALSE]
       \/ g = Combined(f, TRUE) \/ g = Combined(f, FALSE)
       \/ g = FlushPipeline(FlushCommand([f EXCEPT !.query.in_background = TRUE]))
       \/ g = FlushCommand([f EXCEPT !.command.has_pipe_next = TRUE])
       \/ g = Redirected(f, vec, k) \/ g = Word(f, t)
  BY <1>1, <1>2 DEF TakeToken
<1> QED BY <1>2, <1>3, <1>4, <1>5, <1>6, <1>7, <1>8, <1>9, <1>10

(* The states that form_query goes through. *)
FormWalk(vec, g) ==
  /\ g[0] = FormStart
  /\ \A k \in 1..Len(vec.elems) : g[k] = TakeToken(g[k - 1], vec, k)

(* form_query goes through the tokens one by one. *)
LEMMA FormWalks ==
  ASSUME NEW vec, vec.elems \in Seq(Text)
  PROVE  \E g : FormWalk(vec, g) /\ FormQuery(vec) = LastFlush(g[Len(vec.elems)])
<1> DEFINE N == Len(vec.elems)
           places == [i \in DOMAIN vec.elems |-> i]
           step == [x \in FormStates \X (1..N) |-> TakeToken(x[1], vec, x[2])]
           Rec(f) == [s \in SUBSET DOMAIN places |->
                        IF s = {} THEN FormStart
                        ELSE TakeToken(f[s \ {Max(s)}], vec, places[Max(s)])]
           iter == CHOOSE f : f = Rec(f)
<1>1. FormQuery(vec) = LastFlush(iter[DOMAIN places])
  BY DEF FormQuery, FormStart, FoldLeft, MapThenFoldSet
<1>2. /\ N \in Nat /\ DOMAIN vec.elems = 1..N /\ DOMAIN places = 1..N
      /\ \A i \in 1..N : places[i] = i
      /\ FormStart \in FormStates
      /\ step \in [FormStates \X (1..N) -> FormStates]
  <2>1. N \in Nat /\ DOMAIN vec.elems = 1..N
    OBVIOUS
  <2>2. DOMAIN places = 1..N /\ \A i \in 1..N : places[i] = i
    BY <2>1
  <2>3. FormStart \in FormStates
    BY FormStarts
  <2>4. ASSUME NEW x \in FormStates \X (1..N) PROVE TakeToken(x[1], vec, x[2]) \in FormStates
    BY TokenTyped
  <2>5. step \in [FormStates \X (1..N) -> FormStates]
    <3> HIDE DEF N
    <3> QED BY <2>4
  <2> HIDE DEF N, places, step
  <2> QED BY <2>1, <2>2, <2>3, <2>5
<1>3. PICK h \in [SUBSET (1..N) -> FormStates] : FoldsUpTo(FormStart, step, N, h)
  <2> HIDE DEF N, step
  <2> QED BY <1>2, FoldExists
<1>4. ASSUME NEW s \in SUBSET (1..N), s # {}
      PROVE  step[<< h[s \ {Max(s)}], Max(s) >>] = TakeToken(h[s \ {Max(s)}], vec, places[Max(s)])
  <2>1. Max(s) \in 1..N
    <3> HIDE DEF N
    <3> QED BY <1>2, <1>4, MaxIsGreatest
  <2>2. places[Max(s)] = Max(s)
    <3> HIDE DEF N, places
    <3> QED BY <1>2, <2>1
  <2> HIDE DEF places
  <2> QED BY <2>1, <2>2
<1>5. h = Rec(h)
  <2>1. ASSUME NEW s \in SUBSET (1..N)
        PROVE  h[s] = IF s = {} THEN FormStart
                      ELSE TakeToken(h[s \ {Max(s)}], vec, places[Max(s)])
    <3> HIDE DEF N, places, step
    <3> QED BY <1>3, <1>4 DEF FoldsUpTo
  <2> HIDE DEF N, places, step
  <2> QED BY <1>2, <2>1
<1>6. iter = Rec(iter)
  <2>1. \E f : f = Rec(f)
    BY <1>5
  <2> HIDE DEF Rec
  <2> QED BY <2>1
<1> DEFINE g == [k \in 0..N |-> iter[1..k]]
<1>7. g[0] = FormStart
  <2>1. iter[{}] = FormStart
    <3> HIDE DEF iter
    <3> QED BY <1>6
  <2>2. 1..0 = {}
    OBVIOUS
  <2> HIDE DEF iter
  <2> QED BY <1>2, <2>1, <2>2
<1>8. ASSUME NEW k \in 1..N PROVE g[k] = TakeToken(g[k - 1], vec, k)
  <2> HIDE DEF iter
  <2>1. Max(1..k) = k /\ (1..k) \ {k} = 1..(k - 1)
    BY UpToMax
  <2>2. 1..k \in SUBSET DOMAIN places /\ 1..k # {} /\ places[k] = k
    <3>1. N \in Nat /\ DOMAIN places = 1..N /\ places[k] = k
      BY <1>2
    <3> HIDE DEF N, places, step, Rec, g
    <3>2. k \in 1..k /\ \A j \in 1..k : j \in 1..N
      BY <3>1
    <3> QED BY <3>1, <3>2
  <2>3. iter[1..k] = TakeToken(iter[1..(k - 1)], vec, k)
    <3> HIDE DEF places
    <3> QED BY <1>6, <2>1, <2>2
  <2>4. k \in 0..N /\ k - 1 \in 0..N
    BY <1>2
  <2> QED BY <2>3, <2>4
<1>9. LastFlush(g[N]) = FormQuery(vec)
  <2> HIDE DEF iter, places
  <2> QED BY <1>1, <1>2
<1> HIDE DEF g, iter, places, step, Rec
<1> QED BY <1>7, <1>8, <1>9 DEF FormWalk

(* form_query's account holds when all tokens are taken.                    *)
LEMMA FormTakesAll ==
  ASSUME NEW vec, vec.elems \in Seq(Text)
  PROVE  \E f \in FormStates :
           FormInv(vec, Len(vec.elems) + 1, f) /\ FormQuery(vec) = LastFlush(f)
<1>1. PICK g : FormWalk(vec, g) /\ FormQuery(vec) = LastFlush(g[Len(vec.elems)])
  BY FormWalks
<1>2. PICK N \in Nat : N = Len(vec.elems)
  OBVIOUS
<1> DEFINE P == {k \in 0..N : g[k] \in FormStates /\ FormInv(vec, k + 1, g[k])}
<1>3. 0 \in P
  BY <1>1, <1>2, FormStarts DEF FormWalk
<1>4. ASSUME NEW k \in 0..N, k \in P, k + 1 \in 0..N PROVE k + 1 \in P
  <2>1. PICK m \in 1..N : m = k + 1 /\ m - 1 = k
    BY <1>2, <1>4
  <2>2. PICK f \in FormStates : f = g[k] /\ FormInv(vec, m, f)
    BY <1>4, <2>1
  <2>3. g[m] = TakeToken(f, vec, m)
    BY <1>1, <1>2, <2>1, <2>2 DEF FormWalk
  <2>4. g[m] \in FormStates /\ FormInv(vec, m + 1, g[m])
    BY <1>2, <2>2, <2>3, TokenStep
  <2>5. m \in P
    BY <2>4
  <2> HIDE DEF P
  <2> QED BY <2>1, <2>5
<1> HIDE DEF P
<1>5. \A k \in 0..(N - 1) : k \in P => k + 1 \in P
  <2>1. \A k \in 0..(N - 1) : k \in 0..N /\ k + 1 \in 0..N
    BY <1>2
  <2> QED BY <1>4, <2>1
<1>6. 0..N \subseteq P
  BY <1>2, <1>3, <1>5, UpTo
<1>7. N \in P
  BY <1>2, <1>6
<1>8. g[N] \in FormStates /\ FormInv(vec, N + 1, g[N])
  BY <1>7 DEF P
<1> QED BY <1>1, <1>2, <1>8

-----------------------------------------------------------------------------
(***************************************************************************)
(* The last flush.                                                         *)
(***************************************************************************)

(* Behind the line's last token the command and the pipeline at work are    *)
(* flushed, and that is what a query is.                                    *)
LEMMA LastFlushEmpties ==
  ASSUME NEW f \in FormStates, ~f.panics,
         f.pipeline_needs_flush <=> f.command_needs_flush \/ f.pipeline.commands # << >>,
         NEW g, g = LastFlush(f)
  PROVE  /\ g \in FormStates /\ ~g.panics
         /\ QueryWords(g.query.pipelines) = AllWords(f)
         /\ QueryRedirs(g.query.pipelines) =
              IF f.command_needs_flush
              THEN FlushedRedirs(f) \cup CommandRedir(Number(f), CommandsSoFar(f), f.command)
              ELSE FlushedRedirs(f)
<1>1. \A n : PipelineWords(n, << >>) = {} /\ PipelineRedirs(n, << >>) = {}
  BY DEF PipelineWords, PipelineRedirs
<1>2. ASSUME NEW h, ~h.command_needs_flush, h.pipeline.commands = << >>
      PROVE  /\ AllWords(h) = QueryWords(h.query.pipelines)
             /\ FlushedRedirs(h) = QueryRedirs(h.query.pipelines)
  BY <1>1, <1>2 DEF AllWords, FlushedRedirs
<1>3. ASSUME NEW h \in FormStates, ~h.command_needs_flush, ~h.panics, h.pipeline_needs_flush,
             g = FlushPipeline(h)
      PROVE  /\ g \in FormStates /\ ~g.panics
             /\ QueryWords(g.query.pipelines) = AllWords(h)
             /\ QueryRedirs(g.query.pipelines) = FlushedRedirs(h)
  <2>1. /\ g \in FormStates /\ ~g.panics /\ ~g.command_needs_flush
    BY <1>3, FlushPipelineFacts
  <2>2. /\ AllWords(g) = AllWords(h) /\ FlushedRedirs(g) = FlushedRedirs(h)
        /\ g.pipeline.commands = << >>
    BY <1>3, FlushPipelineMoves
  <2> QED BY <1>2, <2>1, <2>2
<1>4. CASE f.command_needs_flush
  <2>1. PICK h : h = FlushCommand(f)
    OBVIOUS
  <2>2. /\ h \in FormStates /\ ~h.command_needs_flush /\ ~h.panics /\ h.pipeline_needs_flush
    BY <1>4, <2>1, FlushCommandFacts DEF FormStates
  <2>3. AllWords(h) = AllWords(f)
        /\ FlushedRedirs(h) =
             FlushedRedirs(f) \cup CommandRedir(Number(f), CommandsSoFar(f), f.command)
    BY <1>4, <2>1, FlushCommandMoves
  <2>4. g = FlushPipeline(h)
    BY <1>4, <2>1 DEF LastFlush
  <2> QED BY <1>3, <1>4, <2>2, <2>3, <2>4
<1>5. CASE ~f.command_needs_flush /\ f.pipeline_needs_flush
  <2>1. g = FlushPipeline(f)
    BY <1>5 DEF LastFlush
  <2> QED BY <1>3, <1>5, <2>1
<1>6. CASE ~f.command_needs_flush /\ ~f.pipeline_needs_flush
  <2>1. g = f
    BY <1>6 DEF LastFlush
  <2> QED BY <1>2, <1>6, <2>1
<1> QED BY <1>4, <1>5, <1>6

(* form_query makes of the tokens what the reference says of the line.      *)
LEMMA FormIsTheLine ==
  ASSUME NEW vec, vec.elems \in Seq(Text), NEW formed, formed = FormQuery(vec)
  PROVE  /\ formed.panics = IsRefused(vec.elems)
         /\ ~formed.panics =>
              /\ WordsOfQuery(formed.query) = WordsOfLine(vec.elems)
              /\ RedirectedInQuery(formed.query) = RedirectedInLine(vec)
<1>1. PICK T \in Seq(Text) : T = vec.elems
  OBVIOUS
<1>2. PICK n \in 1..(Len(T) + 1) : n = Len(T) + 1
  <2>1. Len(T) + 1 \in 1..(Len(T) + 1)
    OBVIOUS
  <2> QED BY <2>1
<1>3. PICK f \in FormStates : FormInv(vec, n, f) /\ formed = LastFlush(f)
  BY <1>1, <1>2, FormTakesAll
<1>4. f.panics <=> IsRefused(T)
  BY <1>1, <1>2, <1>3, RefusalStep DEF FormInv
<1>5. CASE f.panics
  <2>1. formed = f
    BY <1>3, <1>5 DEF LastFlush
  <2>2. f.panics \in BOOLEAN /\ IsRefused(T) \in BOOLEAN
    BY DEF FormStates, IsRefused
  <2> QED BY <1>1, <1>4, <1>5, <2>1, <2>2
<1>6. CASE ~f.panics
  <2>1. Formed(vec, n, f)
    BY <1>3, <1>6 DEF FormInv
  <2>2. f.pipeline_needs_flush <=> f.command_needs_flush \/ f.pipeline.commands # << >>
    BY <2>1 DEF Formed
  <2>3. /\ formed \in FormStates /\ ~formed.panics
        /\ QueryWords(formed.query.pipelines) = AllWords(f)
        /\ QueryRedirs(formed.query.pipelines) =
              IF f.command_needs_flush
              THEN FlushedRedirs(f) \cup CommandRedir(Number(f), CommandsSoFar(f), f.command)
              ELSE FlushedRedirs(f)
    BY <1>3, <1>6, <2>2, LastFlushEmpties
  <2>4. formed.panics = IsRefused(T)
    <3>1. formed.panics \in BOOLEAN /\ IsRefused(T) \in BOOLEAN
      BY <2>3 DEF FormStates, IsRefused
    <3> QED BY <1>4, <1>6, <2>3, <3>1
  <2>5. WordsOfQuery(formed.query) = WordsOfLine(T)
    <3>1. WordPlaces(T, n) = WordsOfLine(T)
      BY <1>2, PlacesStep
    <3>2. AllWords(f) = WordPlaces(T, n)
      BY <1>1, <2>1 DEF Formed
    <3> QED BY <2>3, <3>1, <3>2, QueryAccount
  <2>6. RedirectedInQuery(formed.query) = RedirectedInLine(vec)
    <3>1. RedirectedInLine(vec) = RedirPlaces(vec, Counts(T))
      BY <1>1 DEF RedirectedInLine, RedirPlaces, RedirPlace, Counts, HasWord
    <3>2. Counts(T) = IF WordsBehind(T, n) # {} THEN CountsBefore(T, n) \cup LastRedirects(T, n)
                      ELSE CountsBefore(T, n)
      BY <1>2, CountsAtTheEnd
    <3>3. f.command_needs_flush <=> WordsBehind(T, n) # {}
      BY <1>1, <2>1, NoWordBehind
    <3>4. RedirPlaces(vec, LastRedirects(T, n)) =
            CommandRedir(Number(f), CommandsSoFar(f), f.command)
      BY <1>1, <2>1, RedirOfCommand
    <3>5. FlushedRedirs(f) = RedirPlaces(vec, CountsBefore(T, n))
      BY <1>1, <2>1 DEF Formed
    <3>6. RedirPlaces(vec, CountsBefore(T, n) \cup LastRedirects(T, n)) =
            RedirPlaces(vec, CountsBefore(T, n)) \cup RedirPlaces(vec, LastRedirects(T, n))
      BY DEF RedirPlaces
    <3>7. QueryRedirs(formed.query.pipelines) = RedirPlaces(vec, Counts(T))
      BY <2>3, <3>2, <3>3, <3>4, <3>5, <3>6
    <3> QED BY <3>1, <3>7, QueryAccount
  <2> QED BY <1>1, <2>3, <2>4, <2>5, <2>6
<1> QED BY <1>5, <1>6

-----------------------------------------------------------------------------
(***************************************************************************)
(* Lines whose hashes mislead: what parse makes of them is not what they   *)
(* say, but it is tokens, and form_query takes them like any other.        *)
(***************************************************************************)

(* The tokens of any line, also of one whose hashes mislead, are texts.     *)
Held(l, text) == l \in Text /\ text \in Text /\ Len(text) <= Len(l)

LEMMA CommentIsHeld == ASSUME NEW l \in Text PROVE Held(l, WithoutComment(l))
<1>1. CASE ~TwoHashes(l)
  BY <1>1, CommentIsCut DEF CutAtHash, Held
<1>2. CASE TwoHashes(l)
  <2> DEFINE found == {k \in DOMAIN l : l[k] # "#"}
             first == CHOOSE k \in found : \A m \in found : k <= m
             hashes == {k \in DOMAIN l : l[k] = "#" /\ k > first}
             least == CHOOSE k \in hashes : \A m \in hashes : k <= m
             end == IF hashes = {} THEN Len(l) + 1 ELSE least
  <2>1. WithoutComment(l) = IF found = {} \/ first = 2 THEN << >> ELSE SubSeq(l, 1, end - first)
    BY DEF WithoutComment
  <2>2. Len(l) \in Nat /\ DOMAIN l = 1..Len(l)
    BY DEF Text
  <2>3. CASE found = {} \/ first = 2
    <3>1. WithoutComment(l) = << >> /\ Len(<< >>) = 0
      BY <2>1, <2>3
    <3> QED BY <2>2, <3>1, TextAppend DEF Held
  <2>4. CASE ~(found = {} \/ first = 2)
    <3>1. first \in 1..Len(l)
      <4>1. found \subseteq Nat /\ found \subseteq 1..Len(l)
        BY <2>2
      <4> HIDE DEF found
      <4> QED BY <2>4, <4>1, FirstPosition
    <3>2. end \in 1..(Len(l) + 1)
      <4>1. hashes \subseteq Nat /\ hashes \subseteq 1..Len(l)
        <5> HIDE DEF first
        <5> QED BY <2>2
      <4> HIDE DEF hashes
      <4>2. hashes # {} => least \in 1..Len(l)
        BY <4>1, FirstPosition
      <4> HIDE DEF least
      <4> QED BY <2>2, <4>2
    <3> HIDE DEF found, first, hashes, end
    <3>3. PICK n \in Int : n = end - first
      BY <3>1, <3>2
    <3>4. n <= Len(l)
      BY <2>2, <3>1, <3>2, <3>3
    <3>5. WithoutComment(l) = SubSeq(l, 1, n)
      BY <2>1, <2>4, <3>3
    <3>6. SubSeq(l, 1, n) \in Text /\ Len(SubSeq(l, 1, n)) <= Len(l)
      BY <2>2, <3>4 DEF Text
    <3> QED BY <3>5, <3>6 DEF Held
  <2> QED BY <2>3, <2>4
<1> QED BY <1>1, <1>2

(* The two loops end in the text or at its end. *)
LEMMA QuoteEndTyped ==
  ASSUME NEW text \in Text, NEW i \in 1..Len(text)
  PROVE  QuoteEnd(text, i) \in 0..Len(text)
<1>1. PICK e : QuoteEnds(text, text[i], e) /\ QuoteEnd(text, i) = e[i + 1]
  BY QuoteEndsExist
<1>2. PICK L \in Nat : L = Len(text)
  BY DEF Text
<1> DEFINE Bad == {p \in 1..(L + 2) : e[p] \notin 0..L}
<1>3. Bad = {}
  <2> SUFFICES ASSUME Bad # {} PROVE FALSE
    OBVIOUS
  <2>1. PICK p \in Bad : \A q \in Bad : q <= p
    <3>1. L + 2 \in Nat /\ Bad \subseteq 1..(L + 2)
      OBVIOUS
    <3> HIDE DEF Bad
    <3> QED BY <3>1, MaxIsGreatest
  <2>2. p \in 1..(L + 2) /\ e[p] \notin 0..L
    OBVIOUS
  <2>3. e[p] = IF p > L THEN 0
               ELSE IF text[p] = text[i] THEN p ELSE e[p + IF text[p] = Slash THEN 2 ELSE 1]
    BY <1>1, <1>2, <2>2 DEF QuoteEnds
  <2>4. PICK q \in Nat : q = p + IF text[p] = Slash THEN 2 ELSE 1
    BY <2>2
  <2>5. p <= L /\ e[p] = e[q]
    BY <1>2, <2>2, <2>3, <2>4
  <2>6. q \in 1..(L + 2) /\ q > p
    BY <2>2, <2>4, <2>5
  <2> QED BY <2>1, <2>2, <2>5, <2>6
<1>4. i + 1 \in 1..(L + 2) /\ i + 1 \notin Bad
  BY <1>2, <1>3
<1> QED BY <1>1, <1>2, <1>4

LEMMA WordEndTyped ==
  ASSUME NEW text \in Text, NEW i \in 1..Len(text)
  PROVE  WordEnd(text, i) \in 1..(Len(text) + 2)
<1>1. PICK e : WordEnds(text, e) /\ WordEnd(text, i) = e[i]
  BY WordEndsExist
<1>2. PICK L \in Nat : L = Len(text)
  BY DEF Text
<1> DEFINE Bad == {p \in 1..(L + 2) : e[p] \notin 1..(L + 2)}
<1>3. Bad = {}
  <2> SUFFICES ASSUME Bad # {} PROVE FALSE
    OBVIOUS
  <2>1. PICK p \in Bad : \A q \in Bad : q <= p
    <3>1. L + 2 \in Nat /\ Bad \subseteq 1..(L + 2)
      OBVIOUS
    <3> HIDE DEF Bad
    <3> QED BY <3>1, MaxIsGreatest
  <2>2. p \in 1..(L + 2) /\ e[p] \notin 1..(L + 2)
    OBVIOUS
  <2>3. e[p] = IF p > L THEN p
               ELSE IF text[p] = Slash THEN e[p + 2]
               ELSE IF IsControl(text[p]) THEN p ELSE e[p + 1]
    BY <1>1, <1>2, <2>2 DEF WordEnds
  <2>4. PICK q \in Nat : q = IF text[p] = Slash THEN p + 2 ELSE p + 1
    BY <2>2
  <2>5. p <= L /\ e[p] = e[q]
    BY <1>2, <2>2, <2>3, <2>4
  <2>6. q \in 1..(L + 2) /\ q > p
    BY <2>2, <2>4, <2>5
  <2> QED BY <2>1, <2>2, <2>5, <2>6
<1>4. i \in 1..(L + 2) /\ i \notin Bad
  BY <1>2, <1>3
<1> QED BY <1>1, <1>2, <1>4

LEMMA UnslashedText == ASSUME NEW t \in Text PROVE WithoutSlashes(t) \in Text
<1>1. Slash \in Symbols
  BY DEF Symbols
<1> QED BY <1>1, WordOfUnslashes, UnslashFolds DEF UnslashStates

(* A state that every turn can start from and leaves behind. *)
TurnStates == {s \in ParseStates : s.i > 0}

LEMMA TurnTyped ==
  ASSUME NEW l, NEW text, Held(l, text), NEW s \in TurnStates
  PROVE  Turn(s, text, l) \in TurnStates
<1>1. /\ l \in Text /\ text \in Text /\ Len(l) \in Nat /\ Len(text) \in Nat
      /\ Len(text) <= Len(l)
  BY DEF Held, Text
<1>2. s \in ParseStates /\ s.i \in Nat /\ s.i > 0 /\ s.vec \in Vectors
  BY DEF TurnStates, ParseStates
<1>3. CASE s.panics \/ s.i > Len(text)
  BY <1>3 DEF Turn
<1>4. CASE ~s.panics /\ ~(s.i > Len(text))
  <2>1. PICK i \in 1..Len(text) : i = s.i
    BY <1>1, <1>2, <1>4
  <2>2. i \in 1..Len(l) /\ text[i] \in Symbols
    BY <1>1 DEF Text
  <2>3. PICK c \in Symbols : c = l[i]
    BY <1>1, <2>2 DEF Text
  <2>4. ASSUME NEW j \in Nat, j > 0, NEW v \in Vectors
        PROVE  [s EXCEPT !.i = j, !.vec = v] \in TurnStates
    <3>1. PICK t : t = [s EXCEPT !.i = j, !.vec = v]
      OBVIOUS
    <3>2. t \in ParseStates /\ t.i = j
      BY <1>2, <3>1 DEF ParseStates
    <3> QED BY <2>4, <3>1, <3>2 DEF TurnStates
  <2>5. HandleOperator(s, l) \in TurnStates
    <3>1. << c >> \in Text /\ << c, c >> \in Text
      BY DEF Text
    <3>2. PICK j \in Nat, v \in Vectors :
            j > 0 /\ HandleOperator(s, l) = [s EXCEPT !.i = j, !.vec = v]
      <4>1. PICK j \in Nat, k \in Nat : j = i + 1 /\ k = i + 2 /\ j > 0 /\ k > 0
        OBVIOUS
      <4>2. PICK v \in Vectors : v = PushBackStr(s.vec, << c >>)
        BY <1>2, <3>1, VectorGrows
      <4>3. PICK w \in Vectors : w = PushBackStr(s.vec, << c, c >>)
        BY <1>2, <3>1, VectorGrows
      <4>4. \/ HandleOperator(s, l) = [s EXCEPT !.i = j, !.vec = v]
            \/ HandleOperator(s, l) = [s EXCEPT !.i = k, !.vec = w]
        BY <2>1, <2>3, <4>1, <4>2, <4>3 DEF HandleOperator
      <4> QED BY <4>1, <4>4
    <3> QED BY <2>4, <3>2
  <2>6. HandleQuotes(s, text) \in TurnStates
    <3>1. PICK end \in 0..Len(text) : end = QuoteEnd(text, i)
      BY <1>1, QuoteEndTyped
    <3>2. CASE end = 0
      <4>1. HandleQuotes(s, text) = [s EXCEPT !.panics = TRUE]
        BY <2>1, <3>1, <3>2 DEF HandleQuotes
      <4>2. PICK t : t = [s EXCEPT !.panics = TRUE]
        OBVIOUS
      <4>3. t \in ParseStates /\ t.i = s.i
        BY <1>2, <4>2 DEF ParseStates
      <4> QED BY <1>2, <4>1, <4>2, <4>3 DEF TurnStates
    <3>3. CASE end # 0
      <4>1. PICK word \in Text : word = WithoutSlashes(SubSeq(text, i + 1, end - 1))
        <5>1. SubSeq(text, i + 1, end - 1) \in Text
          BY <1>1, <3>1, <3>3 DEF Text
        <5> QED BY <5>1, UnslashedText
      <4>2. PICK v \in Vectors : v = EmplaceBack(s.vec, word)
        BY <1>2, VectorGrows
      <4>3. PICK j \in Nat : j = end + 1 /\ j > 0
        BY <1>1, <3>1
      <4>4. HandleQuotes(s, text) = [s EXCEPT !.i = j, !.vec = v]
        BY <2>1, <3>1, <3>3, <4>1, <4>2, <4>3 DEF HandleQuotes
      <4> QED BY <2>4, <4>3, <4>4
    <3> QED BY <3>2, <3>3
  <2>7. [s EXCEPT !.i = @ + 1] \in TurnStates
    <3>1. PICK j \in Nat : j = s.i + 1 /\ j > 0
      BY <1>2
    <3>2. [s EXCEPT !.i = @ + 1] = [s EXCEPT !.i = j, !.vec = s.vec]
      BY <1>2, <3>1 DEF ParseStates
    <3> QED BY <1>2, <2>4, <3>1, <3>2
  <2>8. HandleStr(s, text) \in TurnStates
    <3>1. PICK end \in 1..(Len(text) + 2) : end = WordEnd(text, i)
      BY <1>1, WordEndTyped
    <3>2. PICK last \in 0..Len(text) : last = IF end > Len(text) THEN Len(text) ELSE end - 1
      BY <1>1, <3>1
    <3>3. PICK word \in Text : word = WithoutSlashes(SubSeq(text, i, last))
      <4>1. SubSeq(text, i, last) \in Text
        BY <1>1, <3>2 DEF Text
      <4> QED BY <4>1, UnslashedText
    <3>4. PICK v \in Vectors : v = EmplaceBack(s.vec, word)
      BY <1>2, VectorGrows
    <3>5. HandleStr(s, text) = [s EXCEPT !.i = end, !.vec = v]
      BY <2>1, <3>1, <3>2, <3>3, <3>4 DEF HandleStr
    <3>6. end \in Nat /\ end > 0
      BY <1>1, <3>1
    <3> QED BY <2>4, <3>4, <3>5, <3>6
  <2>9. \/ Turn(s, text, l) = HandleOperator(s, l) \/ Turn(s, text, l) = HandleQuotes(s, text)
        \/ Turn(s, text, l) = [s EXCEPT !.i = @ + 1] \/ Turn(s, text, l) = HandleStr(s, text)
    BY <1>4 DEF Turn
  <2> QED BY <2>5, <2>6, <2>7, <2>8, <2>9
<1> QED BY <1>3, <1>4

(* So the tokens of any line are texts. *)
LEMMA ParseTyped == ASSUME NEW l \in Text PROVE Parse(l).vec.elems \in Seq(Text)
<1>1. PICK text : text = WithoutComment(l) /\ Held(l, text)
  BY CommentIsHeld
<1>2. text \in Text
  BY <1>1 DEF Held
<1>3. PICK N \in Nat : N = Len(text)
  BY <1>2 DEF Text
<1>4. ParseStart \in TurnStates
  <2>1. CreateVector \in Vectors
    BY DEF CreateVector, Vectors
  <2>2. ParseStart \in ParseStates /\ ParseStart.i = 1
    BY <2>1 DEF ParseStart, ParseStates
  <2> QED BY <2>2 DEF TurnStates
<1>5. \A s \in TurnStates : Turn(s, text, l) \in TurnStates
  BY <1>1, TurnTyped
<1>6. PICK g : ParseWalk(l, text, g) /\ Parse(l) = g[N]
  BY <1>1, <1>2, <1>3, <1>4, <1>5, ParseWalks
<1> DEFINE P == {k \in 0..N : g[k] \in TurnStates}
<1>7. 0 \in P
  BY <1>4, <1>6 DEF ParseWalk
<1>8. \A k \in 0..(N - 1) : k \in P => k + 1 \in P
  <2> SUFFICES ASSUME NEW k \in 0..(N - 1), k \in P PROVE k + 1 \in P
    OBVIOUS
  <2>1. PICK m \in 1..N : m = k + 1 /\ m - 1 = k
    BY <1>3
  <2>2. g[m] = Turn(g[k], text, l)
    BY <1>3, <1>6, <2>1 DEF ParseWalk
  <2>3. m \in P
    BY <1>5, <2>2
  <2> HIDE DEF P
  <2> QED BY <2>1, <2>3
<1>9. N \in P
  <2> HIDE DEF P
  <2>1. 0..N \subseteq P
    BY <1>7, <1>8, UpTo
  <2> QED BY <2>1
<1> QED BY <1>6, <1>9 DEF TurnStates, ParseStates, Vectors

(* form_query makes of any line's tokens the commands that stand there.     *)
THEOREM FormsWhatTheLineSays == Spec => []QueryIsTheLine
<1>1. LineInv => QueryIsTheLine
  <2> SUFFICES ASSUME LineInv PROVE QueryIsTheLine
    OBVIOUS
  <2>1. PICK vec : vec = Parse(line).vec
    OBVIOUS
  <2>2. vec.elems \in Seq(Text)
    BY <2>1, ParseTyped DEF LineInv
  <2>3. PICK formed : formed = FormQuery(vec)
    OBVIOUS
  <2> QED BY <2>1, <2>2, <2>3, FormIsTheLine DEF QueryIsTheLine
<1> QED BY <1>1, LineInvariance, PTL
=============================================================================
