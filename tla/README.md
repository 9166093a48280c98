# TLA+ specifications of tarantool-sysprog

The repository holds three independent C programs: an in-memory file system
with a descriptor table (`src/fs`), a program that sorts files with coroutines
and asynchronous reads (`src/coro-sort`), and a small shell (`src/shell`). This
directory specifies all three in TLA+, checks the specifications with TLC
on small instances, and proves most of what TLC checks with TLAPS for every
instance: the invariants of all three programs, and that the file system
implements an abstract one.

Paths and line numbers are relative to `src/`. `PROJECT.json` maps every
definition that models code to its lines.

## 1. Inventory

### 1.1 File system (`fs/`)

| Part | State | Operations |
|---|---|---|
| Calls, `userfs.c` | `file_list`, `fd_table`, `ufs_error_code`, all global | `ufs_open`, `ufs_write`, `ufs_read`, `ufs_close`, `ufs_delete`, `ufs_resize`, `ufs_errno` |
| Descriptor table, `file_descriptors_table.c`, `filedesc.h` | an array that doubles, its capacity and count; per descriptor a file, an offset and flags | `init_fd_table`, `resize_fd_table`, `occupy_fd`, `get_at_fd`, `free_fd` |
| Storage, `file.c`, `block.c` | per file: a block list, `last_block`, `refs`, `file_size`, `del_flag`, and `next`/`prev` in the list of files; per block: `occupied` and the bytes | `init_file`, `destroy_file`, `init_block`, `destroy_chain`, and the loops in the calls |

The library is sequential. A file has several descriptors, which is where the
interaction is: each call works on what calls through other descriptors have
left. What is hard:

- `refs`, the descriptors, `del_flag` and the list must agree, over any order of
  opens, deletes, re-creations and closes, or a file is freed too early or
  never. `ufs_close` frees a ghost, a deleted file that is still open, by
  looking up its *name*.
- `ufs_write` keeps `file_size`, `occupied` and `last_block` by differences. A
  write that ends inside a block cuts the block there.
- Any allocation may fail in the middle of a call, and the half done work stays.
- `ufs_resize` moves the end of a file under the other descriptors.

What makes it correct: the accounts agree; a descriptor's file exists; deleted
files go with the last descriptor; the bytes read are the bytes written; what
`userfs.h` says of errors.

### 1.2 Coroutine sort (`coro-sort/`)

| Part | State | Operations |
|---|---|---|
| Scheduler, `scheduler.c`, `coroutine.c` | the coroutines and their statuses, `free_slot`, the scheduler's context, a link in every coroutine | `make_scheduler`, `spawn_coroutine`, `jump_to_scheduler`, `schedule`, `yield`, `finish_coroutine`, `reuse_scheduler`, `destroy_scheduler` |
| `main.c` | the files, the arrays, their sizes | spawns the reader, jumps, adds up the sizes, reuses the scheduler, spawns the merge, jumps, writes the output |
| Reader, `aio_read_util.c` | a control block per file, `processed_mask`, `num_finished` | submits all reads, polls them, spawns a sorter for each that has ended, frees them |
| Sorter, `sort.c` | text, array, buffer of one file | finds the numbers with `strtol`, bottom-up merge sort, a `yield` behind each statement |
| Merge, `merge_sorted_arrays.c` | indexes, usage mask, the merging set, the result | one number per turn |

There is one thread; coroutines switch in `yield`, and the kernel completes
reads at any moment. What is hard: `schedule` relies on at most one coroutine
being marked `RUNNING`; a finished coroutine continues in its *link*, the
scheduler context at the time it was spawned, which `reuse_scheduler` frees;
`main` takes the return of the scheduler as the end of all coroutines,
including those that were spawned while it waited; the slots are never given
back; the reader waits busily while the search for the next coroutine always
starts at slot 0; and the merge juggles two index spaces.

### 1.3 Shell (`shell/`)

| Part | State | Operations |
|---|---|---|
| Line and tokens, `client.c:12-257` | quote state, the growing line | `get_line`, `parse` and its handlers |
| Query building, `client.c:259-350` | the command, the pipeline, two flush flags | `form_query`, `flush_command`, `flush_pipeline` |
| Execution, `handlers.c` | `prev_return_code`, `skip_next`; processes, pipes, descriptors | `execute`, `execute_query`, `execute_pipeline`, `execute_cd` |
| `vector.c`, `buffer.c`, `structures.c` | growing arrays | constructors, `emplace_back`, `push_back_str` |

What is hard: each command of a pipeline is waited for before the next one is
started, so a writer that fills the pipe blocks for good (`handlers.c:77`); the
read ends of the pipes stay open in the shell (`handlers.c:81`); `skip_next` skips
exactly one pipeline (`handlers.c:129`), also behind `&` (`handlers.c:137`); a
line that begins with an operator fails an assertion (`client.c:271`); quotes
do not protect `#` (`client.c:234`). Jobs are forked copies of the shell that inherit its open
pipe ends, so whether a reader ever sees the end of its input depends on what the
shell and all jobs have closed. What makes the shell correct: both halves of
`client.c` agree on where a quote ends; the tokens and the query say what the line says;
`&&` and `||` decide from left to right; every query ends.

### 1.4 Not modelled

- Of the sorting program: failures of `main`'s own allocations in front of the first spawn
  (`main.c:49-59`), which end a program that has done nothing yet; and what is overwritten when the zeros counted in a
  text without an end have filled their array, where the behaviour of the model ends. All other error
  exits are in `CoroSort`; `PrepareSort` and `MergeSortedArrays` take their memory as given.
- Of the shell: running out of memory, the working directory, the contents of
  the files that a redirection opens, zombies of jobs, programs that read the shell's own
  input, and what the programs do apart from reading, writing and ending.
- `destroy_scheduler`, `delete_fd_table`: freeing at the end, or never called.
- Output, timing statistics, the contents of messages.
- The test programs; what they say of the program is quoted where a property
  rests on it.

## 2. Modules

| Module | Models | Used by |
|---|---|---|
| `BlockFile` | the data of one file as pure operators: `Written`, `ReadBytes`, `Grown`, `Shrunk` and their helpers | `UserFs` |
| `UserFs` | all calls of the file system, one action each | everything below it |
| `UserFsProofs` | theorems about `UserFs`: directory, table, block lists | the two below |
| `UserFsListsProofs`, `UserFsAppendProofs` | theorems about `UserFsDirectory` and `UserFsOverwrite`; and the refinement of `FlatFs` | |
| `UserFsDirectory` | `UserFs` and `FileList` in one: each call that creates or destroys a file links or unlinks it | |
| `UserFsOverwrite` | `UserFs` with the history of whether callers have resized, re-created or run out of memory, and properties of the block bookkeeping | |
| `UserFsAppend`, `FlatFs` | `FlatFs` is what `userfs.h` promises: names, files as byte sequences, descriptors with positions. `UserFsAppend` is `UserFs` for the callers under which it implements `FlatFs`, with the refinement mapping | |
| `UserFsDoc` | statements of `userfs.h` that the code does not keep | |
| `FileList` | the doubly linked list of files, pointer by pointer | `UserFsDirectory` |
| `CoroScheduler` | the scheduler under coroutines that yield, spawn and return whenever they like | `CoroSort` |
| `CoroSchedulerProofs` | theorems about `CoroScheduler` | `CoroSortProofs` |
| `CoroSort` | the whole sorting program on an instance of `CoroScheduler` | |
| `CoroSortProofs` | theorems about `CoroSort`, from those about the scheduler | |
| `NumberLine`, `PrepareSort` | the loop around `strtol`; and with it the sort of one file, element by element | |
| `PrepareSortProofs` | theorems about both | |
| `MergeSortedArrays`, `MergeSortedArraysProofs` | the merge of the sorted arrays, one number a step; theorems about it | |
| `ShellVector` | the growing array of the shell, and what lies behind its elements | `ShellLine`, `ShellQuery` |
| `ShellLine` | `get_line` and `parse` on sequences of characters; an automaton that takes a line apart in one pass, as the reference | `Shell` |
| `ShellQuery` | `form_query`, token by token; where each word of a line belongs, as the reference | `Shell` |
| `Shell` | `run_shell`, `execute`, `execute_query`, `execute_pipeline` with processes and pipes | |
| `ShellProofs` | theorems about `Shell`: its processes and pipes, and in a second part the text of its lines | |

The `MC...` modules only give values to constants.

### 2.1 How the models correspond to the code

**`UserFs`.** `file_list`, `name`, `refs`, `del_flag` and `data` are the fields of
`struct file` by file; `table`, `capacity` and `count` those of the table; `file`,
`offset` and `flags` those of the descriptors. `table` tells apart a table that was never made
(`"absent"`), a table whose array is NULL after a failed `calloc` or
`reallocarray` (`"no_array"`), and a working one. An action is one call with
everything it does: `Open` includes `lazy_init`, the doubling of the table, the
creation of the file and `occupy_fd`; `Close` includes the `ufs_delete` of a ghost.
Its argument `heap` or `spare` is how many allocations succeed before one fails,
so that every failing allocation of a call is an outcome, with what was done
before it left in place. NULL dereferences and copies to addresses outside of a
block set `fault`, and the behaviour ends.

The data of a file is `[chain, last, size]`: the sequence of its blocks
(`occupied` and the bytes), the position of `last_block` in it, and `file_size`.
`Written` is the whole of `ufs_write`: the first block, the walk to the offset
with the blocks it adds, and the copying loop with its signed and unsigned
arithmetic. `Quot` and `Rem` are C's `/` and `%` for negative numbers. Sizes stay far
below 2^31, so widths play no role here, except that a negative size counts as
a large one where the code compares it with a `size_t`.

**`CoroScheduler`.** `cpu` says who runs; a context is only the information whether
switching to it is possible. `phase` is where the scheduler's own context stands.
`link[i]` is the number of the scheduler context that coroutine i returns to.
`Schedule` is one turn of the loop in `schedule`, with its four scans over the
statuses: who is `RUNNING`, is anybody `SUSPENDED`, mark the one as suspended, find
the next. When nobody is running, the code goes on with slot 0 as
the running one, and so does the model. Any allocation, `getcontext` and `swapcontext` may fail, which ends the
program: `cpu` is then `"exited"`. Only the spawn that finds no slot left has an end of its own, `"no_space"`, because
that one must not happen.

**`CoroSort`.** `main_pc` follows `main`; `job` says what each coroutine was made
for. The steps of a coroutine lie between two yields, which are all the
interleaving there is among coroutines; the kernel's `Completes` happens between
any two steps, also in the middle of the reader's scan. A failed or a short read is like
any other, since the reader looks only for `EINPROGRESS`. Here a file is only
the number of its numbers, or `Endless`: with trailing white space, with anything that is no number, and with
whatever an unfilled buffer holds, the loop around `strtol` never ends (`sort.c:67-75`). Such a sorter goes on working and
yielding (`CountsOn`) until a failure or the end of its array ends the program. Sorters, like everybody else, may
fail to allocate (`SorterExits`). The contents are the subject of the three modules
`NumberLine`, `PrepareSort` and `MergeSortedArrays`. Those run inside one
coroutine on memory nobody else touches, so their yields are left out.

**`MergeSortedArrays`.** `Used` is the set behind `merging_set`, and
`Position` where an array's element lies in it. The code takes the element of
`IsMin` and advances the index of the array whose *number* is that position.

**`UserFsDirectory`.** The set `file_list` of `UserFs` and the pointers of `FileList` change in the
same step, because a call does both. `L!Found` is the walk of `find_file_by_name`, while `UserFs` uses
`FilesNamed`; `WalkFindsTheFile` says that these agree.

**`Shell`.** A character stands for its class: `"a"` for what no test in `client.c` singles out,
`"nl"` for the newline, and the one-character names `"cd"` and `"quit"` for those commands.
`GetLine` and `Parse` are folds whose steps are a turn of the code's loops (`ReadSymbol`, `Turn`); a final
zero is left out. `FormQuery` is a fold as well, on a record with the command and the pipeline at
work, the two flush flags, and `panics` for a failed assertion.

An executor is a process that runs `execute_query`: the shell (0) or a job. `proc[e]` has its place
(`pc`) and its local variables, `i` of `execute_query` and `k` for `i` of `execute_pipeline`, numbered from 1;
`child[e]` is the command it waits for; `ends` are the pipe ends it holds besides 0, 1 and 2, which a fork
copies. A command that reads from a pipe holds that end as its descriptor 0, and one that writes
into a pipe its write end as descriptor 1. Any `pipe`, `open` or `fork` may fail, which ends the executor. A command with
`has_pipe_next` ignores its redirection, and one with a redirection does not differ from a plain one in what
is modelled. `ran` is history: which pipelines ran, and with which codes.

### 2.2 External parts

`strtol` (`Value`, `new_ptr`) is modelled as the code uses it: it skips spaces, takes
one number, and moves nowhere if there is none. The kernel's `aio_read` and
`aio_error` are `Completes`. The programs that the shell starts are `ChildWrites`, `ChildReads`, `ChildExits`
and `ChildIsKilled`: a program writes some amount, at most one unit more than a pipe holds, reads all of
its input or nothing, and ends with 0, with 1, or by a signal. Everything else is translated from the source.

## 3. Runs

Each passing property has been seen to fail when the code has a plausible bug:
the operators named as variants in the modules (`RefsNotCounted`,
`NothingRunning`, ...) are these bugs, listed as mutants in `PROJECT.json`.

| Run | Question | Bounds |
|---|---|---|
| `fs_directory` | Do directory, list and table keep their accounts under any opens, closes, deletes, with any allocation failing? | three names, three addresses, so that a list has a head, an inner and a last file; four descriptors, so that the table doubles twice; files stay empty; symmetry in names and addresses |
| `fs_calls` | Does `last_block` always point into its list, under all six calls and failing allocations; and is the bookkeeping of `ufs_write` sound before the first resize, re-creation or failed allocation? | one file, blocks of two bytes, two of them within the limit, three in the file; writes of one byte and of more than a block, at any offset; two descriptors, one when there are other calls than the plain ones (`AnyCall`); the second allocation of a call may fail, the first one in the runs before and after this one |
| `fs_append` | Do the calls implement the flat file system when writes reach the end of the file? | one name, two descriptors, blocks of two bytes, a limit of three; two different bytes |
| `scheduler` | Is the scheduler right for coroutines that do anything in any order? | four slots, three scheduler contexts |
| `coro_sort` | Does the program merge only sorted arrays, with slots enough, and end if every text does; and what still gets sorted if one does not? | three files with at most one number or without an end; three are needed for sorters that starve; every allocation and every switch may fail |
| `merge_arrays` | Is the merge ordered and never without an element, and when is it right? | all triples of sorted arrays of at most three numbers out of three values |
| `prepare_sort` | Is a file parsed and sorted? | 4-bit numbers (`IntMax` is 7) with *all* sizes such a signed number has, three values; all texts of up to five characters with spaces anywhere |
| `shell` | Does the shell understand lines, run pipelines from left to right, and end its queries? | all inputs of up to four characters of ten classes, so that quotes, escapes, comments and operators meet in every order and over two lines; all chains of three commands, `cd` and `quit` among them, and of four plain ones; two jobs beside the shell; pipes that hold one unit |
| `doc_ghosts`, `doc_proceed`, `doc_merge`, `doc_chain` | disagreements with the documentation, section 6 | |

What the properties say beyond their names:

- `RefsCountDescriptors`, `NoDanglingDescriptor`, `GhostsAreOpen`,
  `NamesAreUnique`, `TableAccounts` together are why `ufs_close` may decrement, look up by
  name and free. They hold although `ufs_open` with `UFS_CREATE` revives ghosts, and
  after every failing allocation.
- `FlatSpec` is the refinement: names are unlinked by `ufs_delete` while the
  content lives on, reads return what was written, a failed write has stored
  a prefix, every error code is a promised one, and no call ends the process. Its premises delimit where the
  promise holds: every write reaches the end of the file, no resize, files are created
  only if there is none and no ghost of the name.
- `CallsStayInBlocks`: no call through a descriptor that is in its file can leave
  the block list. It needs `SizeIsOccupied` and `LastBlockIsLast`.
- `LowestSlotsFirst` states the scheduler's unfairness exactly: two coroutines
  alternate until one finishes, all others wait. `Terminates` shows that the
  program ends in spite of it, by its output or by a failure, if every text has an end.
- `OthersAreSorted` says what is left of that with one text that has none: its sorter alternates with the lowest of the others,
  so the reader and all other sorters come to their ends, although the program does not. With two such
  texts it is false: their sorters alternate with each other, and one behind them never gets the processor.
- `SlotsSuffice` is about one of the ways the program can fail, the spawn on a full scheduler. The others
  (files that cannot be opened, memory, contexts) are in the model and happen.
- `GoodUntilAGap`: the merge is right as long as only the last arrays are used up;
  `MergesAll` (section 6) says what follows otherwise. `NeverDecreases` and
  `AlwaysAnElement` hold even then.

- `WalkFindsTheFile` and `ListIsTheFiles` make the set `file_list` of `UserFs` an
  honest picture of the pointers, with ghosts and failing calls included.
- `QuotesAgree` and `TokensAreTheLine` are about lines in which no `#` is quoted or escaped and that do
  not begin with `##`: in those, `strtok` misleads `parse` (`HashesMislead`). A newline inside of
  quotes, an escaped quote and a quote in a comment are all included.
- `QueryIsTheLine` also says which lines end the shell: just those with a separator that has no command in
  front of it.
- `LeftToRightWhenAlternating` delimits what `skip_next` gets right. The status of a pipeline is that of its
  last program; one that was killed counts as 0, and `cd` has no status.
- `ReadersSeeTheEnd` and `EndsUnlessFlooded`: the shell leaks read ends, but no write end that a reader
  depends on, also with jobs that inherit whatever is open. The only way
  for a query to hang is a program that writes more than a pipe holds.

### 3.1 Bounds

`MaxCapacity`, `MaxBlocks`, `MaxReuses`, `MaxNumbers`, `MaxSize`, `MaxLength`, `MaxJobs`, the guards of
`AnyCall`, the count that stays in `CountsOn` and the array that stays in `FindNumber` are marked BOUND where they are declared. `MaxFileSize` and `BlockSize` are the code's
constants made small; the smallest values for which a write can span blocks, stop
inside one and hit the limit in the middle of one. The properties speak of pairs of
descriptors or of files, of a block and the next one, and of three coroutines at
most; the instances have one more where that costs little. What section 5 proves does not depend on
them at all.

### 3.2 Deadlock

Deadlock is not checked: the file system stops at a `fault`, the other programs end. That they end
where they should is a property, `Terminates`, `SortsTheNumbers` or `EndsUnlessFlooded`.

## 4. Fairness

`CoroSort`, `PrepareSort` and `Shell` state fairness.

- `PrepareSort`: `WF_vars(Next)`. One thread runs on.
- `CoroSort`: `WF_vars(Next)`, for the same reason. `WF_vars(Completes(f))`: the kernel
  ends every request that it accepted. `SF_vars(SorterWorks(f))` and
  `SF_vars(SorterFinishes(f))`: a sorter's code between two pieces of work is a
  fixed number of statements, each followed by a yield; the model leaves the
  number open (`SorterYields`), so fairness has to say that it is finite. It is strong
  because the sorter loses the processor in between. No fairness is assumed of the
  scheduler's choice, which is deterministic, nor of a failure, so nothing ends because it must fail some day.
- `Shell`: `WF_vars(ExecutorStep(e))` and `WF_vars(ChildStep(e))`: the kernel runs every process that can run,
  and a program ends once it has written and read what it wants. No fairness for reading a line, which
  nobody has to type, for failures, nor for signals.

## 5. Proofs

Every invariant and every action property that a passing run checks is proved for all values of the constants; what
has fairness is left to TLC. `YieldGivesWay`, that a coroutine which yields is not picked again while another one waits, is
only proved (`YieldersGiveWay`): in the runs, `OthersAreSorted` fails without it.

**Assumptions.** They are the named ones of the modules, and TLC evaluates them on its instances: blocks have
at least one byte; the table may grow to at least one slot; `NULL` is no file and no name; buffers
are sequences of bytes, counts, sizes and heaps natural numbers; there are finitely many files where a list
holds them; a pipe holds at least one unit; the inputs of the shell are finite sequences of characters, which are
strings here; values are integers; bounds are natural numbers. `Plenty`
is a heap that a call does not exhaust: at least six allocations for `ufs_open`, two more than a
buffer has bytes for `ufs_write`. `IntMax`, the greatest `int32_t`, is any positive number, not only one less
than a power of two; the numbers of a file are at most `IntMax`, there are no more of them than that, and a text has at most
`2 * IntMax - 1` characters, so that its size with the final zero, and one more, fits into a `uint32_t`. Nothing is assumed of the kernel, of what programs do, or of
fairness.

**Directory and table** (`UserFsProofs`). The inductive invariant `IInv` is the conjunction of
`TypeOK`, the five accounts of section 3 and `TableGrows` (the count does not exceed the
capacity, and there is neither before the table is made). They need each other:
closing a descriptor frees the right file only because names are unique; names
stay unique only because a ghost stays in the list while it is open; a
destroyed file has no descriptors only because `refs` is their number; and
a full table is doubled in time only because the count is right. The proof has a
lemma per call (`OpenIInv`, `WriteIInv`, ...), built on `OpenedDescriptors` and `ClosedDescriptors`,
which say how cardinalities change when one slot does.

**Block lists** (`LastBlocksAreInLists`, same module). `DataInv` adds the types of the data and `LastIn` for every
file. The copying loop of `ufs_write` is a recursive function of the number of turns, the walk in front of it one
of the number of blocks. `CopiedIsIn` makes an invariant of the loop out of one of a turn, by the least turn
that breaks it: the library's induction theorems take operators, `P` here is a family of sets, and that every
non-empty set of naturals has a least element is all that is needed. The modules below use the same lemma with
other sets.

**List of files** (`UserFsListsProofs`). The pointers form a list if there is an enumeration `s` of
`file_list`, without repetition, along which `head`, `next` and `prev` are right (`IsListed`). `ListInv` is
inductive together with `IInv`: `ufs_open` puts a file in front of `s`, a destroyed one is taken out of `s`
(`WithoutEnumerates`), the other calls leave all of it alone. `WalkIsPlace` then says what a walk meets, and the
three properties follow. `DirectoryIsUserFs` is the refinement, so that the theorems about `UserFs` hold with the
pointers.

**Bookkeeping of writes** (same module). For callers who do not resize, re-create or exhaust the heap,
each file is `Tidy`: `last_block` is the last one, it always has room, each `occupied` is within the block, and
`file_size` is their sum. That the last block has room is the strengthening the others need: it is why the walk
to an offset inside the file never passes `last_block`, so that a new block is always linked at the end. The sum
is a function that is claimed to exist (`Sums`), which leaves the recursion of `Occupied` to one lemma
(`OccupiedIsTheSum`).

**The refinement** (`UserFsAppendProofs`, `AppendIsFlat`). `AppendInv` adds to the invariants above that each file is
`Dense`: block i of a file of some size holds `HeldBy(size, i)` bytes, so byte n of the content is found at
`n \div BlockSize` blocks and `n % BlockSize` bytes. Descriptors are inside their files, and what is not in the
list is empty and has no name. Each call then has three lemmas: what it does to the state (`WriteDoes`), that it
keeps `AppendInv` (`WriteAppendInv`), and that under the mapping it is a step of `FlatFs` (`WriteIsFlat`). For
`ufs_write` the first rests on `WrittenAppends`, which says of every turn of the copying loop how many bytes are
stored, also when the heap ends in between or the limit cuts the buffer; for `ufs_read` on `ReadIsPart`.

**Scheduler** (`CoroSchedulerProofs`). The inductive
invariant adds which slots are in use (`SlotsInUse`), that the marked coroutine is the current
one (`OnlyTheCurrentRuns`), that whoever has not finished links to the current context
(`LinkedToCurrent`), and that all have finished after a return
(`AllFinishedAfterReturn`). The last is the reason for the third: `reuse_scheduler`
runs only then. The three action properties follow from what a pick can be
(`PickFacts`, `PickOrder`) under the invariant.

**Sorting program** (`CoroSortProofs`). Its steps are the scheduler's (`ProgramIsScheduled`), so the scheduler's
invariant is taken over through the instance `Proved`, which gives it the slots of this program. `Program` adds
what the slots are used for: `SlotsCounted` (one for the reader, one for each file it has processed, one for the
merge), `Jobs`, what a finished coroutine has done, and what `main` knows after its first jump (`Joined`). With
`SlotsCounted` every spawn finds a slot, so one that fails does so for want of memory (`SpawnsOrExits`); a
failure changes nothing but `cpu` and keeps the rest (`FailureKeeps`). That jump
joins all sorters only because all coroutines have finished when the scheduler returns.

**Sort of a file** (`PrepareSortProofs`). The invariant has three parts. `Found`: twice the size of the array is at most
`number_line + 1`, because between two numbers is a space, and the array has each value as often as the text has it
in front of `number_line`; or the loop is stuck behind the last number (`Stuck`). `Runs`: what the theorem says, for
pairs instead of neighbours. `Taken`: the elements in the buffer are no greater than those that are left in either run,
and each value is in the buffer as often as in what was taken. Sizes are at most `IntMax` by the first part, and
from that no index of the loops ever wraps (`NoIndexWraps`): `i` is doubled only while it is smaller than the size. The rest are
multiples of `i` (`MultiplesApart`) and counting (`CountSplit`, `CountMoved`).

**Merge** (`MergeSortedArraysProofs`). The invariant is that no element which is left is smaller than one that was
taken (`LeftAreNotSmaller`), whatever index was advanced, and that the indexes add up to the length of the
result; the latter, with lemmas on sums over finite sets, is why an element is left. `GoodUntilAGap` is inductive with these.

**Shell** (`ShellProofs`). `ReadersSeeTheEnd` rests on who holds write ends: a pipe made for a command is held by this
command and the executor that waits for it, and by nobody else (`OwnPipe`), since jobs are forked only when the
shell waits for nobody; and once a pipe is the input of the next command nobody holds its write end
(`InputHasEnded`). For `LeftToRightWhenAlternating` the invariant `ChainInv` follows an executor through its
pipelines: each pipeline up to the one it has reached has run just if the one in front of it did not run, or
ended in a way that does not inhibit it (`Decisions`), and `skip_next` says the same of the next one (`SkipNext`).
Only `AlternatingRunsLeftToRight` uses that the combinators alternate.

**Lines of the shell** (`ShellProofs`, from "Induction, and folds" on). `GetLine`, `Parse`, `WithoutSlashes`, `FormQuery`
and the reference automaton are folds over sequences of any length. The library's induction theorems take an operator and cannot
be instantiated here; induction over a set of numbers (`UpTo`) takes their place. A fold is a function on the sets of places, it
exists because it does so for each prefix (`FoldExists`), and read off along the prefixes it is a walk `g` with a step per
character (`ScanWalks`, `ParseWalks`, `FormWalks`). Invariants of such walks are then proved step by step.

- `ParseFindsTheQuotes`. At every character `get_line` has the quote open that the automaton is in (`Follows`); so the line
  it returns ends outside of quotes and behind no open backslash (`Closed`). Cutting the comment leaves what the automaton has seen
  before it enters its comment (`CutIsClosed`), if no hash is hidden and the line does not start with two. The invariant
  `LineInv` carries `Closed(line)` to the state in which the line is parsed.
- `ParseFindsTheTokens`. Before each turn `parse` is at a place where the automaton is between two tokens, and the
  vector holds the tokens that it has, with the one it is about to end (`Between`, `InOrder`). A turn takes a whole token: the loops
  of `handle_quotes` and `handle_str`, recursive functions on positions, end where the automaton leaves the quote or the word, and
  deleting backslashes afterwards gives what the automaton has collected without them (`QuoteLoop`, `WordLoop`). As every
  turn gets at least one character on, as many turns as there are characters are enough (`ParseReachesTheEnd`).
- `FormsWhatTheLineSays`. `FormInv` relates the state of `form_query` before token i to the tokens in front of it: an
  assertion has failed just if a separator there has no word in front; the numbers of pipelines and commands are those
  that the separators give; the flush flags say if the command has a word, and if the pipeline has a command; the words in the query,
  the pipeline and the command at work are those of the line, each in its place; the redirections of finished commands are those that
  count, and that of the command at work is the last one behind the separator. The last flush turns that into the property. It
  holds of the tokens of any line, also of one whose hashes mislead (`ParseTyped`).

The theorems about `parse` keep the condition of their properties, `HashesMislead`: where a hash is quoted or
escaped, or the line starts with two, `strtok` cuts somewhere else than a reader of the line would.

**Only model-checked.** Everything with fairness: `Terminates`, `OthersAreSorted`, `SortsTheNumbers` and
`EndsUnlessFlooded`.

## 6. Disagreements between code and documentation

With a run, a counterexample of which TLC prints:

- `doc_ghosts` (`userfs.c:69`): creating a file whose ghost is still open revives the ghost
  and cuts it, against `userfs.h:124-127`.
- `doc_proceed` (`userfs.c:195`): a descriptor behind the new end of a file that was cut
  reads bytes from behind it or dereferences NULL, against `userfs.h:142-143`.
- `doc_merge` (`merge_sorted_arrays.c:43`): the output is no permutation of the
  input once an array was used up before a later one; `test/checker.py` looks only at order
  and length.
- `doc_chain` (`handlers.c:129`): in a chain of equal combinators, such as `a && b && c` with a failing `a`, the command
  behind the skipped one runs, against `shell/README.md:2`. `checker.py:60` has such a chain, where the output does
  not show it.

The model has the following too, and TLC finds each of them when the sentence is
stated as a property of `UserFs` or `UserFsOverwrite`; there is no run for them:

- `ufs_resize` from size 0 to less than a block adds no block (`userfs.c:281`, against
  `userfs.h:138-140`), and does not look at the flags of the descriptor (`userfs.c:276`, against
  `userfs.h:41`).
- `MAX_FILE_SIZE` is tested only when a resize shrinks (`userfs.c:302`, against
  `userfs.h:150-151`).
- Using a descriptor number before the first `ufs_open` dereferences a NULL table
  (`file_descriptors_table.c:61`, against `userfs.h:117`).
- The walk of `ufs_write` does not move `last_block` (`userfs.c:137`, against
  `file.h:14-15`): after a growing resize, writes behind it leave `last_block` inside the list, and a
  later resize loses the blocks behind it.
- A write into a block that was cut adds more to `file_size` than was tested
  (`userfs.c:154`, 159, against `test.c:198`); a write that ends inside a block takes the bytes
  behind it out of the file (`userfs.c:159`).
- `ufs_open` returns descriptor 0, `userfs.h:79` says `> 0`.
- `ufs_open` that fails for lack of memory may have created or cut the file.
- `int32_t` does not hold `1 << 31`, which `test/generator.py:4` takes as the default maximum.
- In the shell, a redirection in front of a pipe is ignored (`handlers.c:60`), `>` behind `>>` still appends
  (`client.c:317`), and what follows an `&` inside of a line is skipped (`handlers.c:137`); no sentence of the repository
  says otherwise.
- A text that ends with white space makes the loop of `prepare_sort` run on
  (`sort.c:67`). In `PrepareSort`, `SortsTheNumbers` and `ArrayIsBigEnough` are therefore about texts that end with a number;
  in `CoroSort`, where such texts are among the inputs, `Terminates` has as its premise that there is none, and
  `OthersAreSorted` says what still holds. A buffer that a failed or a short read leaves unfilled
  (`aio_read_util.c:73-79`) may hold such a text, too.

## 7. Plan

Done: everything in section 2, and a theorem for every property that has no fairness. Left, in this order:

1. What `execute_query` does with chains of equal combinators, as a theorem about what is right of it: the first
   pipeline that is skipped is the one a reader expects.
2. The descriptor table with `refs` as a component of its own, and the vector with its memory, of which only the growth is modelled.
