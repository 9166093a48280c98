------------------------------ MODULE ShellQuery ------------------------------
(***************************************************************************)
(* form_query of shell/client.c: the tokens of a line become a query, a    *)
(* sequence of pipelines of commands.  A token that was quoted is not told *)
(* apart from one that was not: a quoted operator is an operator.          *)
(***************************************************************************)
EXTENDS ShellVector, SequencesExt, FiniteSets

And == << "&", "&" >>
Or  == << "|", "|" >>
Background == << "&" >>
Pipe == << "|" >>
Redirections == {<< ">" >>, << ">", ">" >>}
Separators == {And, Or, Background, Pipe}

NewCommand ==
  [name |-> << >>, argv |-> << >>, has_pipe_next |-> FALSE,
   has_redir |-> FALSE, append |-> FALSE, dest |-> << >>]
NewPipeline == [commands |-> << >>, has_combinator_next |-> FALSE, is_and |-> FALSE]
NewQuery == [pipelines |-> << >>, in_background |-> FALSE]

(***************************************************************************)
(* form_query at work is a record f: the command, the pipeline and the     *)
(* query it builds, whether the first two need a flush, whether the next   *)
(* token is the target of a redirection, and whether an assertion failed.  *)
(***************************************************************************)

(* The variant keeps the flag. *)
FlushKeepsFlag(f) ==
  IF ~f.command_needs_flush THEN [f EXCEPT !.panics = TRUE]
  ELSE [f EXCEPT !.pipeline.commands = Append(@, f.command),
                 !.command = NewCommand]
FlushCommand(f) ==
  IF ~f.command_needs_flush THEN [f EXCEPT !.panics = TRUE]
  ELSE [f EXCEPT !.pipeline.commands = Append(@, f.command),
                 !.command = NewCommand,
                 !.command_needs_flush = FALSE]

FlushPipeline(f) ==
  IF f.panics \/ ~f.pipeline_needs_flush THEN [f EXCEPT !.panics = TRUE]
  ELSE [f EXCEPT !.query.pipelines = Append(@, f.pipeline),
                 !.pipeline = NewPipeline,
                 !.pipeline_needs_flush = FALSE]

Combined(f, isAnd) ==
  FlushPipeline(FlushCommand(
    [f EXCEPT !.pipeline.has_combinator_next = TRUE, !.pipeline.is_and = isAnd]))

(* The target is the next token, whatever it is and if there is one or not.*)
Redirected(f, vec, i) ==
  [f EXCEPT !.command.has_redir = TRUE,
            !.command.append = @ \/ vec.elems[i] = << ">", ">" >>,
            !.command.dest = GetAt(vec, i + 1),
            !.is_target = TRUE]

Word(f, token) ==
  IF f.command_needs_flush THEN [f EXCEPT !.command.argv = Append(@, token)]
  ELSE [f EXCEPT !.command.name = token,
                 !.command_needs_flush = TRUE, !.pipeline_needs_flush = TRUE]

TakeToken(f, vec, i) ==
  LET token == vec.elems[i]
  IN  IF f.panics THEN f
      ELSE IF f.is_target THEN [f EXCEPT !.is_target = FALSE]
      ELSE IF token = And THEN Combined(f, TRUE)
      ELSE IF token = Or THEN Combined(f, FALSE)
      ELSE IF token = Background
           THEN FlushPipeline(FlushCommand([f EXCEPT !.query.in_background = TRUE]))
      ELSE IF token = Pipe THEN FlushCommand([f EXCEPT !.command.has_pipe_next = TRUE])
      ELSE IF token \in Redirections THEN Redirected(f, vec, i)
      ELSE Word(f, token)

LastFlush(f) ==
  IF f.panics THEN f
  ELSE IF f.command_needs_flush THEN FlushPipeline(FlushCommand(f))
  ELSE IF f.pipeline_needs_flush THEN FlushPipeline(f) ELSE f

FormQuery(vec) ==
  LastFlush(FoldLeft(LAMBDA f, i : TakeToken(f, vec, i),
                     [command |-> NewCommand, pipeline |-> NewPipeline, query |-> NewQuery,
                      command_needs_flush |-> FALSE, pipeline_needs_flush |-> FALSE,
                      is_target |-> FALSE, panics |-> FALSE],
                     [i \in DOMAIN vec.elems |-> i]))

-----------------------------------------------------------------------------
(***************************************************************************)
(* The reference: a line is split at its separators, and a query says of   *)
(* each word in which pipeline, command and place it is.                   *)
(***************************************************************************)
IsTarget(tokens) ==
  LET target[i \in DOMAIN tokens] ==
        i > 1 /\ tokens[i - 1] \in Redirections /\ ~target[i - 1]
  IN  target

Splits(tokens) ==
  {i \in DOMAIN tokens : tokens[i] \in Separators /\ ~IsTarget(tokens)[i]}
Redirects(tokens) ==
  {i \in DOMAIN tokens : tokens[i] \in Redirections /\ ~IsTarget(tokens)[i]}
Words(tokens) ==
  {i \in DOMAIN tokens : ~IsTarget(tokens)[i]} \ (Splits(tokens) \cup Redirects(tokens))

SplitsBefore(tokens, i) == {k \in Splits(tokens) : k < i}
SameCommand(tokens, i, k) == SplitsBefore(tokens, i) = SplitsBefore(tokens, k)

(* Some separator has no command in front of it. *)
IsRefused(tokens) ==
  \E i \in Splits(tokens) : ~\E k \in Words(tokens) : SameCommand(tokens, i, k)

PipelineNumber(tokens, i) ==
  1 + Cardinality({k \in SplitsBefore(tokens, i) : tokens[k] # Pipe})
CommandNumber(tokens, i) ==
  1 + Cardinality({k \in SplitsBefore(tokens, i) :
                     PipelineNumber(tokens, k) = PipelineNumber(tokens, i)})
PlaceOf(tokens, i) ==
  Cardinality({k \in Words(tokens) : k <= i /\ SameCommand(tokens, i, k)})

WordsOfLine(tokens) ==
  {<< PipelineNumber(tokens, i), CommandNumber(tokens, i), PlaceOf(tokens, i), tokens[i] >> :
     i \in Words(tokens)}

(* The last redirection of a command counts; behind the last token there   *)
(* is no target, only memory.                                              *)
RedirectedInLine(vec) ==
  LET tokens == vec.elems
      counts == {r \in Redirects(tokens) :
                   /\ \E w \in Words(tokens) : SameCommand(tokens, r, w)
                   /\ \A s \in Redirects(tokens) : SameCommand(tokens, r, s) => s <= r}
  IN  {<< PipelineNumber(tokens, r), CommandNumber(tokens, r), GetAt(vec, r + 1) >> : r \in counts}

Commands(query) ==
  UNION {{<< p, c >> : c \in DOMAIN query.pipelines[p].commands} : p \in DOMAIN query.pipelines}
CommandAt(query, pc) == query.pipelines[pc[1]].commands[pc[2]]

WordsOfQuery(query) ==
  UNION {LET words == << CommandAt(query, pc).name >> \o CommandAt(query, pc).argv
         IN  {<< pc[1], pc[2], k, words[k] >> : k \in DOMAIN words} : pc \in Commands(query)}

RedirectedInQuery(query) ==
  {<< pc[1], pc[2], CommandAt(query, pc).dest >> :
     pc \in {c \in Commands(query) : CommandAt(query, c).has_redir}}
=============================================================================
