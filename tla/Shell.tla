--------------------------------- MODULE Shell ---------------------------------
(***************************************************************************)
(* The shell of src/shell: run_shell of client.c and the execution of a    *)
(* query in handlers.c, with the processes and the pipes this takes.       *)
(*                                                                         *)
(* A query is executed by the shell itself (executor 0) or by a job, a     *)
(* forked copy of the shell that runs in the background.  An executor has  *)
(* at most one command running, for which it waits.                        *)
(***************************************************************************)
EXTENDS ShellLine, ShellQuery, Integers

CONSTANTS Inputs,        \* what may come in on stdin: sequences of characters
          PipeCapacity,  \* how much fits into a pipe
          MaxJobs        \* BOUND: the jobs that are started

ASSUME ShellAssumption ==
  /\ Inputs \subseteq Seq(STRING)
  /\ PipeCapacity \in Nat \ {0}
  /\ MaxJobs \in Nat

Executors == 0..MaxJobs

(* These two names stand for one character each. *)
Cd   == << "cd" >>
Quit == << "quit" >>

VARIABLES stdin,   \* what was not read yet
          line,    \* the line that was read last
          proc,    \* for each executor: where it is in its query
          child,   \* for each executor: the command it waits for
          ends,    \* for each executor: its open pipe ends
          pipes,   \* how much is in each of the pipes made so far
          ran      \* for each executor: pipelines that ran and the codes in them

vars == << stdin, line, proc, child, ends, pipes, ran >>

ReadEnd(p)  == << "r", p >>
WriteEnd(p) == << "w", p >>

(* A command that was killed; its WEXITSTATUS is 0.  The variant takes     *)
(* waitpid's status as it is.                                              *)
Killed == -1
RawStatus(status) == status
ExitStatus(status) == IF status = Killed THEN 0 ELSE status

At(pc, query) ==
  [pc |-> pc, query |-> query, i |-> 1, k |-> 1, status |-> 0, prev |-> 0,
   skip |-> FALSE, pipe_in |-> 0]
NoChild ==
  [state |-> "none", in |-> 0, out |-> 0, pipe |-> 0, ends |-> {}, wants |-> 0,
   reads |-> FALSE, status |-> 0]

Init ==
  /\ stdin \in Inputs
  /\ line = << >>
  /\ proc = [e \in Executors |-> At(IF e = 0 THEN "prompt" ELSE "none", NewQuery)]
  /\ child = [e \in Executors |-> NoChild]
  /\ ends = [e \in Executors |-> {}]
  /\ pipes = << >>
  /\ ran = [e \in Executors |-> << >>]

-----------------------------------------------------------------------------
(***************************************************************************)
(* The shell reads a line and makes a query of it.                         *)
(***************************************************************************)

(* exit: the process is gone, and its ends of pipes are closed. *)
Exits(e) ==
  /\ proc' = [proc EXCEPT ![e] = At("ended", NewQuery)]
  /\ ends' = [ends EXCEPT ![e] = {}]

EndOfInput ==
  /\ proc[0].pc = "prompt"
  /\ ~GetLine(stdin).done
  /\ Exits(0)
  /\ stdin' = << >>
  /\ UNCHANGED << line, child, pipes, ran >>

ReadsLine ==
  /\ proc[0].pc = "prompt"
  /\ GetLine(stdin).done
  /\ line' = GetLine(stdin).line
  /\ stdin' = GetLine(stdin).rest
  /\ proc' = [proc EXCEPT ![0].pc = "parse"]
  /\ UNCHANGED << child, ends, pipes, ran >>

(* A quote that is not closed or a command that is missing ends the shell. *)
Refused == Parse(line).panics \/ FormQuery(Parse(line).vec).panics

Refuses ==
  /\ proc[0].pc = "parse"
  /\ Refused
  /\ Exits(0)
  /\ UNCHANGED << stdin, line, child, pipes, ran >>

FormsQuery ==
  /\ proc[0].pc = "parse"
  /\ ~Refused
  /\ proc' = [proc EXCEPT ![0] = At("execute", FormQuery(Parse(line).vec).query)]
  /\ UNCHANGED << stdin, line, child, ends, pipes, ran >>

ExecutesHere ==
  /\ proc[0].pc = "execute"
  /\ ~proc[0].query.in_background
  /\ proc' = [proc EXCEPT ![0].pc = "pipelines"]
  /\ ran' = [ran EXCEPT ![0] = << >>]
  /\ UNCHANGED << stdin, line, child, ends, pipes >>

(* The job gets a pipe that nobody uses: both ends stay open, here and     *)
(* there.  Nobody waits for the job.                                       *)
ExecutesInBackground ==
  LET p    == Len(pipes) + 1
      both == ends[0] \cup {ReadEnd(p), WriteEnd(p)}
      free == {e \in Executors : proc[e].pc = "none"}
  IN  /\ proc[0].pc = "execute"
      /\ proc[0].query.in_background
      /\ \E e \in free :
           /\ \A x \in free : e <= x
           /\ proc' = [proc EXCEPT ![0] = At("prompt", NewQuery),
                                   ![e] = At("pipelines", proc[0].query)]
           /\ ends' = [ends EXCEPT ![0] = both, ![e] = both]
      /\ pipes' = Append(pipes, 0)
      /\ UNCHANGED << stdin, line, child, ran >>

(* pipe or fork fails. *)
CannotStartJob ==
  /\ proc[0].pc = "execute"
  /\ proc[0].query.in_background
  /\ Exits(0)
  /\ UNCHANGED << stdin, line, child, pipes, ran >>

-----------------------------------------------------------------------------
(***************************************************************************)
(* execute_query: which pipelines an executor runs.                        *)
(***************************************************************************)
PipelineOf(e) == proc[e].query.pipelines[proc[e].i]

AtPipeline(e) ==
  /\ proc[e].pc = "pipelines"
  /\ proc[e].i \in DOMAIN proc[e].query.pipelines

SkipsPipeline(e) ==
  /\ AtPipeline(e)
  /\ proc[e].skip
  /\ proc' = [proc EXCEPT ![e].skip = FALSE, ![e].i = @ + 1]
  /\ UNCHANGED << stdin, line, child, ends, pipes, ran >>

StartsPipeline(e) ==
  /\ AtPipeline(e)
  /\ ~proc[e].skip
  /\ proc' = [proc EXCEPT ![e].pc = "commands", ![e].k = 1,
                          ![e].status = 0, ![e].pipe_in = 0]
  /\ ran' = [ran EXCEPT ![e] = Append(@, << proc[e].i, 0 >>)]
  /\ UNCHANGED << stdin, line, child, ends, pipes >>

(* The variant knows only &&. *)
SkipsAfterFailure(pipeline, code) == ~pipeline.has_combinator_next \/ code # 0
SkipsNext(pipeline, code) ==
  \/ ~pipeline.has_combinator_next
  \/ pipeline.is_and /\ code # 0
  \/ ~pipeline.is_and /\ code = 0

EndsPipeline(e) ==
  LET code == ExitStatus(proc[e].status)
  IN  /\ proc[e].pc = "commands"
      /\ proc[e].k > Len(PipelineOf(e).commands)
      /\ proc' = [proc EXCEPT ![e].pc = "pipelines", ![e].i = @ + 1, ![e].prev = code,
                              ![e].skip = SkipsNext(PipelineOf(e), code)]
      /\ UNCHANGED << stdin, line, child, ends, pipes, ran >>

EndsQuery(e) ==
  /\ proc[e].pc = "pipelines"
  /\ proc[e].i \notin DOMAIN proc[e].query.pipelines
  /\ IF e = 0
     THEN proc' = [proc EXCEPT ![0] = At("prompt", NewQuery)] /\ UNCHANGED ends
     ELSE Exits(e)
  /\ UNCHANGED << stdin, line, child, pipes, ran >>

-----------------------------------------------------------------------------
(***************************************************************************)
(* execute_pipeline: the commands of a pipeline, one after the other.      *)
(***************************************************************************)
Command(e) == PipelineOf(e).commands[proc[e].k]

AtCommand(e) ==
  /\ proc[e].pc = "commands"
  /\ proc[e].k <= Len(PipelineOf(e).commands)

(* cd changes neither the status nor the input of the next command. *)
ChangesDirectory(e) ==
  /\ AtCommand(e)
  /\ Command(e).name = Cd
  /\ proc' = [proc EXCEPT ![e].k = @ + 1]
  /\ UNCHANGED << stdin, line, child, ends, pipes, ran >>

Quits(e) ==
  /\ AtCommand(e)
  /\ Command(e).name = Quit
  /\ Exits(e)
  /\ UNCHANGED << stdin, line, child, pipes, ran >>

IsProgram(e) == AtCommand(e) /\ Command(e).name \notin {Cd, Quit}

(* pipe, open or fork fails. *)
CannotStart(e) ==
  /\ IsProgram(e)
  /\ Exits(e)
  /\ UNCHANGED << stdin, line, child, pipes, ran >>

(* A command wants to write an amount, at most one more than fits, and     *)
(* reads either nothing or all there is.  Without a pipe its input is the  *)
(* shell's own, of which commands are taken to read nothing.               *)
Forks(e, out, pipe, held) ==
  \E wants \in (IF out = 0 THEN {0} ELSE 0..(PipeCapacity + 1)),
     reads \in (IF proc[e].pipe_in = 0 THEN {FALSE} ELSE BOOLEAN) :
       /\ child' = [child EXCEPT ![e] =
            [NoChild EXCEPT !.state = "running", !.in = proc[e].pipe_in, !.out = out,
                            !.pipe = pipe, !.ends = held, !.wants = wants, !.reads = reads]]
       /\ proc' = [proc EXCEPT ![e].pc = "wait"]

(* A redirection is not looked at here. *)
StartsPiped(e) ==
  LET p   == Len(pipes) + 1
      out == IF proc[e].k < Len(PipelineOf(e).commands) THEN p ELSE 0
  IN  /\ IsProgram(e)
      /\ Command(e).has_pipe_next
      /\ Forks(e, out, p, ends[e] \cup (IF out = p THEN {WriteEnd(p)} ELSE {}))
      /\ ends' = [ends EXCEPT ![e] = @ \cup {ReadEnd(p), WriteEnd(p)}]
      /\ pipes' = Append(pipes, 0)
      /\ UNCHANGED << stdin, line, ran >>

(* With a redirection or without: the output goes into no pipe. *)
StartsLast(e) ==
  /\ IsProgram(e)
  /\ ~Command(e).has_pipe_next
  /\ Forks(e, 0, 0, ends[e])
  /\ UNCHANGED << stdin, line, ends, pipes, ran >>

(* The shell closes the end it does not read from.  The variant forgets.   *)
KeepsWriteEnd(e) == ends[e]
EndsAfterWait(e) == ends[e] \ {WriteEnd(child[e].pipe)}

Waits(e) ==
  /\ proc[e].pc = "wait"
  /\ child[e].state = "zombie"
  /\ proc' = [proc EXCEPT ![e].pc = "commands", ![e].k = @ + 1,
                          ![e].status = child[e].status,
                          ![e].pipe_in = IF child[e].pipe = 0 THEN @ ELSE child[e].pipe]
  /\ ends' = [ends EXCEPT ![e] = EndsAfterWait(e)]
  /\ child' = [child EXCEPT ![e] = NoChild]
  /\ UNCHANGED << stdin, line, pipes, ran >>

-----------------------------------------------------------------------------
(***************************************************************************)
(* The commands, as the shell sees them.                                   *)
(***************************************************************************)
ChildWrites(e) ==
  /\ child[e].state = "running"
  /\ child[e].wants > 0
  /\ pipes[child[e].out] < PipeCapacity
  /\ pipes' = [pipes EXCEPT ![child[e].out] = @ + 1]
  /\ child' = [child EXCEPT ![e].wants = @ - 1]
  /\ UNCHANGED << stdin, line, proc, ends, ran >>

ChildReads(e) ==
  /\ child[e].state = "running"
  /\ child[e].reads
  /\ pipes[child[e].in] > 0
  /\ pipes' = [pipes EXCEPT ![child[e].in] = @ - 1]
  /\ UNCHANGED << stdin, line, proc, child, ends, ran >>

HoldsWriteEnd(x, p) == WriteEnd(p) \in ends[x] \cup child[x].ends

SeesTheEnd(e) ==
  /\ pipes[child[e].in] = 0
  /\ \A x \in Executors : ~HoldsWriteEnd(x, child[e].in)

Ends(e, status) ==
  /\ child' = [child EXCEPT ![e].state = "zombie", ![e].ends = {}, ![e].status = status]
  /\ ran' = [ran EXCEPT ![e] = Append(@, << proc[e].i, IF status = Killed THEN 0 ELSE status >>)]
  /\ UNCHANGED << stdin, line, proc, ends, pipes >>

ChildExits(e) ==
  /\ child[e].state = "running"
  /\ child[e].wants = 0
  /\ child[e].reads => SeesTheEnd(e)
  /\ \E status \in {0, 1} : Ends(e, status)

ChildIsKilled(e) ==
  /\ child[e].state = "running"
  /\ Ends(e, Killed)

-----------------------------------------------------------------------------
ShellStep == EndOfInput \/ ReadsLine \/ Refuses \/ FormsQuery \/ ExecutesHere
             \/ ExecutesInBackground

ExecutorStep(e) ==
  \/ SkipsPipeline(e) \/ StartsPipeline(e) \/ EndsPipeline(e) \/ EndsQuery(e)
  \/ ChangesDirectory(e) \/ Quits(e) \/ StartsPiped(e) \/ StartsLast(e) \/ Waits(e)

ChildStep(e) == ChildWrites(e) \/ ChildReads(e) \/ ChildExits(e)

Next ==
  \/ ShellStep
  \/ CannotStartJob
  \/ \E e \in Executors :
       ExecutorStep(e) \/ ChildStep(e) \/ CannotStart(e) \/ ChildIsKilled(e)

(* A process that can run does run in the end.  Nothing makes anybody type *)
(* a line.                                                                 *)
Fairness ==
  \A e \in Executors : WF_vars(ExecutorStep(e)) /\ WF_vars(ChildStep(e))

Spec == Init /\ [][Next]_vars /\ Fairness

-----------------------------------------------------------------------------
(***************************************************************************)
(* Properties.                                                             *)
(***************************************************************************)

(* Types; a prev_return_code is an exit status, whatever waitpid said.     *)
TypeOK ==
  /\ \A e \in Executors :
       /\ proc[e].pc \in {"none", "prompt", "parse", "execute", "pipelines", "commands",
                          "wait", "ended"}
       /\ proc[e].status \in {Killed, 0, 1} /\ proc[e].prev \in {0, 1}
       /\ proc[e].pipe_in \in 0..Len(pipes)
       /\ child[e].state \in {"none", "running", "zombie"}
       /\ ends[e] \cup child[e].ends \subseteq {"r", "w"} \X (1..Len(pipes))
       /\ proc[e].pc = "wait" <=> child[e].state # "none"
  /\ pipes \in Seq(0..PipeCapacity)

(* What strtok does to the line, parse does not notice: it knows neither   *)
(* quoted hashes nor a second hash in front.                               *)
HashesMislead ==
  \/ Scanned(line).hidden
  \/ Len(line) > 1 /\ line[1] = "#" /\ line[2] = "#"

(* get_line and parse find the quotes in two different ways (client.c:36   *)
(* and 158): what the one has closed, the other finds closed.              *)
QuotesAgree ==
  proc[0].pc = "parse" /\ ~HashesMislead => ~Parse(line).panics

(* The tokens of parse, which looks for comments, quotes, operators and    *)
(* backslashes in turn, are those of an automaton that reads the line once.*)
TokensAreTheLine ==
  proc[0].pc = "parse" /\ ~HashesMislead => Parse(line).vec.elems = Scanned(line).tokens

(* form_query refuses just the lines where a separator has no command in   *)
(* front, and puts every other word and redirection where the line has it: *)
(* no command or flag is carried over into the next (client.c:259-279).    *)
QueryIsTheLine ==
  proc[0].pc = "parse" /\ ~Parse(line).panics =>
    LET vec    == Parse(line).vec
        formed == FormQuery(vec)
    IN  /\ formed.panics = IsRefused(vec.elems)
        /\ ~formed.panics =>
             /\ WordsOfQuery(formed.query) = WordsOfLine(vec.elems)
             /\ RedirectedInQuery(formed.query) = RedirectedInLine(vec)

(* The pipelines that ran, the status each ended with, and whether a       *)
(* pipeline is to run when && and || are evaluated from left to right.     *)
RanPipeline(e, i) == \E n \in DOMAIN ran[e] : ran[e][n][1] = i
StatusOf(e, i) == ran[e][CHOOSE n \in DOMAIN ran[e] :
                           /\ ran[e][n][1] = i
                           /\ \A m \in DOMAIN ran[e] : ran[e][m][1] = i => m <= n][2]
ToRun(e, i) ==
  LET last == CHOOSE j \in 1..(i - 1) :
                RanPipeline(e, j) /\ \A m \in (j + 1)..(i - 1) : ~RanPipeline(e, m)
  IN  proc[e].query.pipelines[i - 1].is_and <=> StatusOf(e, last) = 0

(* The pipelines behind the first of which it is decided if they run. *)
Decided(e) == 2..(IF proc[e].pc \in {"commands", "wait"} THEN proc[e].i ELSE proc[e].i - 1)

RunsLeftToRight(e) == \A i \in Decided(e) : RanPipeline(e, i) <=> ToRun(e, i)

Combinators(e) ==
  LET numbers == DOMAIN proc[e].query.pipelines
  IN  {i \in numbers : i + 1 \in numbers}
OnlyAndOr(e) == \A i \in Combinators(e) : proc[e].query.pipelines[i].has_combinator_next
Alternates(e) ==
  \A i \in Combinators(e) :
    i + 1 \in Combinators(e) =>
      (proc[e].query.pipelines[i].is_and <=> ~proc[e].query.pipelines[i + 1].is_and)

(* skip_next skips one pipeline (handlers.c:129).  That is right as long   *)
(* as && and || alternate: then pipelines run as from left to right.       *)
LeftToRightWhenAlternating ==
  \A e \in Executors : OnlyAndOr(e) /\ Alternates(e) => RunsLeftToRight(e)

(* A command that reads from a pipe finds its end: whoever could still     *)
(* write has gone, and the shell, its jobs and their commands have closed  *)
(* the end that they inherited (handlers.c:72-81).                         *)
ReadersSeeTheEnd ==
  \A e, x \in Executors :
    child[e].state = "running" /\ child[e].in # 0 => ~HoldsWriteEnd(x, child[e].in)

(* A pipe is full and the command wants to write more: since the shell     *)
(* waits for it before it starts the reader (handlers.c:77), it will wait. *)
Floods(e) ==
  /\ child[e].state = "running"
  /\ child[e].wants > 0
  /\ pipes[child[e].out] = PipeCapacity

(* That is the only way for a query to hang: every other one comes to its  *)
(* end, in the shell and in a job.                                         *)
EndsUnlessFlooded ==
  \A e \in Executors :
    proc[e].pc = "pipelines" ~> (proc[e].pc \in {"prompt", "ended"} \/ Floods(e))

(* README.md:2, "support of the operators && and ||": pipelines run as     *)
(* from left to right.  The code does not do this.                         *)
RunsChains == \A e \in Executors : OnlyAndOr(e) => RunsLeftToRight(e)
=============================================================================
