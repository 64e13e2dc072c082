# Verification of verdiff

`verdiff DIR_A DIR_B` scans two directory trees into two indexes, compares
them with a pool of worker threads, and writes a report and a summary.  This
directory holds TLA+ models of that program, TLC configurations that check
them on small instances, and proofs that TLAPS checks for every instance.
Source paths below are relative to the repository.

## Inventory

| component | code | state it keeps | operations |
|---|---|---|---|
| task queue | `src/thread_pool.c:8-111` | ring `items`, `head`, `tail`, `count`, `shutdown`, two condition variables, one mutex | init, push, pop, shutdown, destroy |
| planner and thread pool | `src/planner.c`, `src/thread_pool.c:113-185` | `rc`, loop positions, thread array, `first_error` under `error_mutex` | `plan_and_compare`, `worker_main`, `thread_pool_init/join`, `compare_context_set/get_error` |
| result set | `src/index.c:209-305` | `items`, four counters, `ordered_root`, one mutex | `result_set_push`, `result_set_note_type` |
| path tree | `src/path_tree.c` | AVL nodes holding positions in `items` | insert, inorder |
| file index | `src/index.c:1-148` | slots, capacity, count, arena | init, find, upsert, rehash |
| file comparison | `src/compare.c`, `src/hash.c`, `src/index.c:150-207` | two descriptors, two hashes, line differences | `compare_candidate_file` and what it calls, `line_diff_vector_push/destroy` |
| directory scanner | `src/scanner.c` | stack of directories | `scan_directory` |
| report, summary | `src/output.c` | a stdio stream | `write_detailed_report`, `write_summary` |
| command line, phases | `src/main.c` | `rc`, config, the objects above | `main` |
| progress | `src/progress.c` | counters, terminal line | phase begin/end, notes |
| string arena | `src/arena.c` | chunks, the head one partly used | copy, destroy |
| xxHash | `third_party/xxhash` | vendored | not examined |

How they interact.  `main` runs the phases one after the other and stops at
the first that fails: scan A, scan B, plan and compare, report, summary.  Only
plan-and-compare is concurrent.  There the main thread is the planner: it
walks the index of A, records REMOVED and size changes itself and enqueues the
paths whose sizes agree; then it walks B for ADDED; then it shuts the queue
down and joins.  The workers pop paths, compare the files and record the
verdicts.  Shared are the queue, the result set and the first error, each
under its own mutex; the indexes are read-only by then.  A worker that fails
stores the error, shuts the queue down and leaves.

Where it is hard, and what would make it right:

- *Sleeping and waking.*  One mutex, two condition variables, one signal per
  push and per pop, two broadcasts at shutdown, from three kinds of callers.
  No wakeup may be lost, and nobody may wait for ever.
- *Failures in the middle*: of thread creation, of a worker, of the planner,
  of an allocation inside a push that has already counted.  A run that
  succeeds must have decided everything; one that failed must say so.
- *Lifetime.*  The queue lives in a stack frame of the planner.
- *Order.*  The verdicts arrive in any order; the report must be sorted, and
  each path must be in it once.
- *Data structures under long call sequences*: probing after two rehashes,
  rotations after many insertions, ring indices around the end.
- *A changing file system.*  A directory is found by `lstat` and opened by its
  path much later; an entry is named by `readdir` and looked up again.  Sizes
  are read in the scan, the contents much later and up to four times.
- *Failing writes.*  The texts go through stdio buffers; a full disk shows
  itself many lines later, or only when the stream is closed.

`PROJECT.json` lists each hazard at its line with the properties that cover it.

## The modules

```
BoundedFifo   <--- TaskQueue ---+
                                +--> PlanAndCompare ---> Comparison
                   ResultSet ---+          :                  |
PathMap <--- PathTree  . . . . . (ordered) :                  |
PathMap <--- FileIndex . . . . . . . . . . (index_a, index_b) |
                Arena --> FileIndex                           |
             Scanner . . . . . . . . (ScanA, ScanB) . . .  +--+-> Main
             LineDiffs --> CompareFile (one Compare step)  |
                                                  Report --+

TaskQueueProofs extends TaskQueue
PlanAndCompareProofs extends PlanAndCompare and TaskQueueProofs
VerdictProofs extends PlanAndCompareProofs
FileIndexProofs extends FileIndex, and so Arena
PathTreeProofs extends PathTree; ScannerProofs extends Scanner
CompareFileProofs extends CompareFile; MainProofs extends Main
```

An arrow to an abstract specification (BoundedFifo, Comparison, PathMap) means
*is checked to implement*; other arrows mean *is part of*; dots mean *is
represented by something simpler there*.

**TaskQueue** models the queue with its variables under their own names.  One
action is one stretch of code that holds the mutex: from the lock, or the
return from a wait, to the unlock or the next wait.  `PushBlock`, `PushStore`,
`PushCanceled` are the three ways through `task_queue_push`, `PopBlock`,
`PopTake`, `PopDrained` those through `task_queue_pop`.  A thread in
`pthread_cond_wait` is a member of `not_empty` or `not_full`; a signal removes
one member, a broadcast all, and `SpuriousWakeup` one at any time.  A thread
that is no longer a member competes for the mutex like any other, so a task
may be stolen between signal and return.  `QueueNext` is the most general
client: pushes anything, shuts down anywhere, repeatedly.

**BoundedFifo** is the promise: a closable FIFO, with no mutex and no ring.

**ResultSet** has the array, its capacity, the counters and the tree's
content (`ordered`), with the two ways `result_set_push` fails and the
rollback of the second.  **PathMap** is the abstract map both the tree and the
index are checked against.

**PathTree** is the AVL tree itself, on the heap as in the code: `tree` has the
links and the fields of the nodes, and a `PathTreeNode **` is a *place*, the
root or a side of a node, where a link is stored.  The recursions take one call
at a time.  `stack` holds the places the calls of `insert_node` in progress
were given: `GoDown` is the recursive call, `Replace`, `Attach` and `NoNode`
are the three ways it ends, and `Climb` is the rebalancing of an outer call
after an inner one has returned.  Of `path_tree_inorder`, `cursor` is the
argument of the innermost call and `open` the nodes whose left subtree is being
walked; a visitor that fails is `WalkEnds` before the walk is done.

**PlanAndCompare** composes planner, workers, queue and result set.  `pc` and
`wpc` say where each thread is; every step is one critical section.  It covers
`thread_pool_init` worker by worker with a failing `pthread_create` and the
shutdown and join that follow, both loops, in any order of the paths,
cancellation of a push, the errors of workers, the final shutdown, join, and
the choice between the planner's `rc` and the workers' error.  **Comparison**
is what a run promises, sequentially.

**FileIndex** is the hash table.  The rehash is one action per migrated slot,
so that the invariants speak of the table halfway through as well.  **Arena**
is the bump allocator that holds its keys, by lengths only: `chunks` with their
`used` marks, and `granted`, which records where each string went.  `Insert`
copies the path into it, `InsertNoString` is the copy that fails.

**CompareFile** is one `compare_candidate_file`, system call by system call:
hashing by mapping or reading, falling back from one to the other, verifying
equal hashes byte by byte, sniffing for text, comparing lines.  Beside it
`Change` writes, replaces or removes one of the files at any moment; a change
in place may or may not be seen through an open descriptor (stdio may have
buffered it), a replacement is not.  `deserved` is a history variable.
**LineDiffs** is the vector of differing lines: its doubling, the two copies
each element owns, the three ways a push fails, and the `destroy` of every
error path.

**Scanner** is `scan_directory`, call by call, over a file system (`fs`) that
others change between any two calls.  `stack` holds the directories still to be
read, `frame` the one being read, `must` and `may` what `readdir` still has to
return or may return, as POSIX leaves open; `entry` is the path about to be
looked up.  `Change` creates, removes, replaces or rewrites anything anywhere;
when it takes away the directory being read, its stream goes on without it.
`errno` is what a call that succeeded may have left there, which must be gone
when `readdir` is asked for the next entry, since its end and its failure differ
in nothing else.  An entry that is dealt with sets `rc` to 0 again, as the code
does, so that an error is only reported if both loops end at once.
`touched` and `been` are history variables.

**Report** gives the two texts as sequences of lines, in the order of
`path_tree_inorder`, and the stdio streams they go through: `held` is in the
buffer, `sent` has been taken by the system.  **Main** is `main`: the arguments
one by one, the phases, the report of the run before emptied by `fopen`, every
line of both texts, a write that fails when a full buffer has to go, what is
lost when a stream is closed, and the exit code.  `plan_and_compare` takes the
steps of Comparison there, which PlanAndCompare implements.

## The runs

| run | instance | shows |
|---|---|---|
| `queue` | 3 workers, 2 tasks, capacity 3 | types, `RingOK`, `NoLostWakeup`, `ImplementsBoundedFifo` |
| `pool` | 2 workers, capacity 1, 4 paths, 3 inputs, 2 failures | `CompleteOnSuccess`, `ReportConsistent`, `NoUseAfterDestroy`, `NoStrandedTask`, `ImplementsComparison` |
| `pool_live` | 2 workers, capacity 1, 4 paths, 2 inputs, 1 failure | `Termination` |
| `file_index` | 5 paths, 2 sizes, first capacity 2, chunks of 5 bytes | `RoomToProbe`, `FindAgrees`, `StringsApart`, `ImplementsPathMap` |
| `path_tree` | 6 paths, 6 records, 1 repeated path | `TreeBalanced`, `ReportSorted`, `ImplementsPathMap` |
| `compare_file` | 10 contents of up to 3 lines, 1 change, 1 failure | `VerdictWasTrue`, `DiffsExact`, `CopiesOwned` |
| `scanner` | 6 paths three directories deep, 3 trees, 2 changes, 1 failure | `UntouchedFound`, `NothingInvented`, `QuietScanExact`, `ScanEnds` |
| `main` | 3 pairs of trees, up to 2 of 7 options, 13 odd command lines, buffers of 3 lines, 2 failures | `ArgsUnderstood`, `OldReportSurvives`, `ExitHonest`, `FiguresAddUp` |
| `error_masked`, `shutdown_drains`, `line_ends`, `lost_write` | as `pool`, `compare_file`, `main` | the findings below |

Why the bounds are enough for what they are asked:

- *queue*: capacity 3 makes the ring wrap at positions that are neither the
  first nor the last; three workers let a signal meet none, one or several
  sleepers.  That it holds for all sizes is proved.
- *pool*: with capacity 1 the planner blocks as soon as two tasks are on their
  way, so a full queue, an empty one, and a shutdown in both are all reached
  with four paths.  The inputs: every kind of verdict with unchanged files
  not listed; candidates with a file of the target only; four candidates.  Two
  failures allow one on each side, or two workers failing, in any order.
  Arrays of the result set start at length 1, so that each growth step, and
  its failure, happens.  Workers are symmetric in the safety runs only: no run
  with a liveness property uses symmetry.
- *file_index*: the hashes are chosen so that two are equal, others share a
  home at each capacity, and homes lie on the last slot.  Five paths in a
  table of two slots take rehashes to 4 and 8 and leave 16 to be reached by an
  update of a crowded table.
- *path_tree*: six insertions in any order include every single and double
  rotation, at the root and below it.  `MaxRepeats` bounds records whose path
  is there already, which in the program never happens but the code handles.
  The theorems have no bound but `MaxRecords`, which may be any number.
- *compare_file*: a line stands for a buffer, a page and a line at once.
  Contents of one size with one hash are there for each length, so that only
  the second reading decides.  With two changes no implementation without a
  snapshot could be right, so the property speaks of at most one.  A read(2)
  on a regular file is taken to return what is there; short reads are not
  modelled.  The vector starts at one element, so that its growth happens.
- *scanner*: six paths have a file in the root, in a directory, and in a
  directory in a directory, so that something can be touched above, beside and
  below the directory being read.  Two changes are a removal and what replaces
  it, or one each in two directories.  One tree is full, one has directories
  only a change can make, one is a root that is a file.  The theorems have no
  bounds.
- *main*: buffers of three lines are written out several times in both texts,
  which are eight to fourteen lines long; two failures are a write and a close,
  or the two streams.  The trees have every kind of verdict, differences only,
  and nothing at all.  `-o --lines` and `-j --help` are
  options whose arguments look like options; `-j` and `-o` have two values each,
  so that the last one can be told from the first.  The other command lines lack
  an argument or a directory, have one too many, or ask for help at their
  start, behind an option, or behind a mistake.

Deadlock is checked in every run; `Terminated`, `Ended`, `Done` and `Exited`
are the stutter of a program that has returned.

*Fairness.*  In `pool_live`: weak fairness of `PlannerStep` and of each
`WorkerStep(w)`: a thread that can take its next critical section is scheduled
and gets the mutex eventually.  Critical sections are finite, no thread takes
the mutex infinitely often while another waits (each worker's loop consumes a
task, and tasks are finite), so weak fairness suffices.  A thread asleep in a
wait takes no step until it is woken, and nothing is assumed of spurious
wakeups.  Comparing a pair of files is assumed to end.  In `scanner`: weak
fairness of `Scan`, all steps of the scanner taken together, which is one
thread that never waits; those who change the tree are under no obligation.
That the changes are bounded is an assumption: against somebody who makes
directories as fast as the scanner reads them, nothing ends.

## What is proved

With TLAPS, for any finite number of workers, any capacity, any trees, any
command lines, any size of chunks and buffers, and any number of changes and
failures:

| theorem | statement |
|---|---|
| `QueueTypeCorrect` | `QueueSpec => []QueueTypeOK` |
| `RingCorrect` | `QueueSpec => []RingOK` |
| `NoLostWakeupEver` | `QueueSpec => []NoLostWakeup` |
| `QueueImplementsFifo` | `QueueSpec => ImplementsBoundedFifo` |
| `PoolIsQueueClient` | `Spec => QueueSpec` |
| `NoUseAfterDestroyEver` | `Spec => []NoUseAfterDestroy` |
| `NoStrandedTaskEver` | `Spec => []NoStrandedTask` |
| `PoolTypeCorrect` | `Spec => []TypeOK` of PlanAndCompare |
| `ReportConsistentEver` | `Spec => []ReportConsistent` |
| `PoolImplementsComparison` | `Spec => ImplementsComparison` |
| `CompleteOnSuccessEver` | `Spec => []CompleteOnSuccess` |
| `StringsApartEver` | `ArenaSpec => []StringsApart` |
| `IndexTypeCorrect` | `Spec => []TypeOK` of FileIndex |
| `ProbingEnds` | `Spec => []RoomToProbe` |
| `KeysOwned` | `Spec => []StringsApart` of FileIndex |
| `LookupsAgree` | `Spec => []FindAgrees` |
| `IndexIsMap` | `Spec => ImplementsPathMap` of FileIndex |
| `CompareTypeCorrect` | `Spec => []TypeOK` of CompareFile |
| `CopiesOwnedEver` | `Spec => []CopiesOwned` |
| `VerdictWasTrueEver` | `Spec => []VerdictWasTrue` |
| `DiffsExactEver` | `Spec => []DiffsExact` |
| `ScanTypeCorrect` | `Spec => []TypeOK` of Scanner |
| `NothingInventedEver` | `Spec => []NothingInvented` |
| `UntouchedFoundEver` | `Spec => []UntouchedFound` |
| `QuietScanExactEver` | `Spec => []QuietScanExact` |
| `TreeTypeCorrect` | `Spec => []TypeOK` of PathTree |
| `TreeBalancedEver` | `Spec => []TreeBalanced` |
| `ReportSortedEver` | `Spec => []ReportSorted` |
| `TreeIsMap` | `Spec => ImplementsPathMap` of PathTree |
| `OldReportSurvivesEver` | `Spec => []OldReportSurvives` of Main |
| `MainTypeCorrect` | `Spec => []TypeOK` of Main |
| `ArgsUnderstoodEver` | `Spec => []ArgsUnderstood` |
| `ExitHonestEver` | `Spec => []ExitHonest` |
| `FiguresAddUpEver` | `Spec => []FiguresAddUp` |

*Assumptions*: `QueueAssumption` (capacity positive, finitely many workers,
the planner is none of them), `PoolAssumption` (tasks are paths, at least one
worker, since `main` rejects a thread count of 0, and inputs of the right
shape, with finitely many files), `CompareAssumption` (contents are sequences
of lines of bytes, `Gone` is none), `LineDiffAssumption`, `ArenaAssumption`,
`IndexAssumption` (hashes are numbers, lengths and the initial capacity
positive, `None` is no entry), `TreeAssumption` (paths are numbers, so that
they are in order), `ScanAssumption` (the paths are closed under prefixes,
the trees to start with are trees), `BufferAssumption` (a buffer holds
something), `ArgsAssumption` and `TreesAssumption` of Main.  `ArgsAssumption`
says that `strtoul` yields a number for every argument, that
`default_thread_count` is not 0 (`src/main.c:24-30` returns 4 instead), and
sorts the command lines: `OptionLists` are lists of options, and no line of
`BadArgvs` is acceptable options and two directories.  But for the names of the
directories, which are always `A` and `B`, every command line is of one kind or
the other, so none is left out by it.
`TreesAssumption` is `PoolAssumption` over again: finitely many paths, in an
order.  TLC evaluates them in the runs.

*The queue.*  `QueueInv` is types, `RingOK` and `NoLostWakeup` together.
`NoLostWakeup` is the interesting part: if any worker sleeps, then the queue
is open and at most as many tasks are queued as workers are awake.  That "some
worker is awake when a task is queued" alone is not inductive: a push with one
signal and a pop by a thief both preserve only the count.  The refinement maps
the ring to the sequence of its occupied slots and shows that a store appends
and a take removes the head; its arithmetic is in three lemmas on `%`.

*The pool.*  `PoolInv` says that what is being enqueued is a path, that no
worker exists before the pool does, that a worker leaves only a queue that is
shut down, and `NoUseAfterDestroy`.  From it every step of planner and workers
is a step of the queue's general client, so `QueueInv` holds in the pool
without being proved again; `NoStrandedTask` then follows from both.

*The verdicts.*  `WorkApart` is the heart: a path is in one place at a time -
still to be met by a loop, about to be enqueued, in the ring, in the hands of a
worker - and a path with a record is in none of them.  It rests on the ring
holding each task once, which a push of a path that is nowhere else and a pop
preserve.  `PlannerWinds` and `WorkersWind` say how a run winds up: the planner
has failed or has met every path, and a worker leaves with its error recorded
or with an empty queue behind it.  With them every step of the program is, for
Comparison, a verdict, a failure, the end, or nothing, which is the refinement;
and as long as nothing has failed, `CompleteSoFar` counts the verdicts given
and to come, which is `CompleteOnSuccess` when none is left.
`ReportConsistent` needs nothing of all this: it is a matter of the two ways a
push fails and the rollback.

*A comparison.*  With nobody touching the files, what has been hashed is a
prefix of what is there (`HashingInv`), so that hashes that differ mean files
that do.  One change splits the call in two.  If it comes before the second
reading, that reading is of the files as they then stay, and finds them equal
only if they are (`VerifyingInv`); if it comes during it, both files were
hashed as they were before, and hashing alike means they were equal then,
collisions of two contents aside.  A call that says MODIFIED is never wrong
about an instant: a change of one of two equal files makes them differ.
`LinesInv` is about `--lines` with untouched files: the two readings are at the
same line number, each stopping at its end, and `DiffsUpTo` says that the
differences kept are exactly those of the lines read so far, in order.  When
both have ended, the line number is past both files; and two files that differ
differ in some line, so that the list is not empty when it is asked for.

*Main.*  `PhaseInv`: the report file is as it was until it is opened, and from
there on plan_and_compare has been a success.

The command line is read from left to right, and `ArgsInv` says what has been
read of it.  Of spelled options followed by two directories it is the first `k`
options, complete, and `config` is what these mean (`ReadWell`): the index
stands after their spelling, so the argument of an option is never taken for
an option, nor the other way round.  That needs the spelling of a sequence to be
that of its parts (`FlatteningIsUnique` and the lemmas after it, by the
smallest counterexample, since `FlattenSeq` is a recursive function).  Of any
other line, too, what has been read is options (`ReadBadly`); were exactly two
arguments left, the line would be options and two directories after all, so
`Directories` is never taken on one.  When such a line asks for help or the
version behind acceptable options (`Asks`), what has been read is a beginning of
these (`OnTheWay`), so the question is reached (`QuestionReached`) and the exit
code is 0; a line that asks nothing can only end in a refusal, with 2.

`TextInv`: of the text being written, what stdio has accepted and what is still to
come make up the whole (`WithRest`), whether it is in the buffer or not; the
other text is complete by then, or not begun.  Between, neither counters nor
records change (`TextsStay`).  Everything that goes wrong on the way leads to
exit code 1 and has cost a fault.

`CountInv`: counters and report are those of the paths decided so far
(`Counted`), which are all of them after a success.  The rest is counting: the
four sets of paths of a type are disjoint and make up both trees (`KindsAreAll`);
`TotalScanned` is the files of A and those ADDED; and the table has as many rows
of a type as there are records (`RowsCounted`), because the walk in order is a
bijection from positions to records (`InOrderIsAll`).  `InOrder` gives each
record the position of its rank; that the tree's walk is that order is
`ReportSortedEver` of PathTree.

*The arena.*  `StringsApart` alone is not inductive: it says nothing of where
the next string will go.  `Marked` adds that every string ends below the `used`
mark of its chunk, and every mark within the chunk.

*The file index.*  `IndexInv` has `Searchable` at its heart: from the home of
an entry, probing meets no free slot before the entry's own.  It is what makes
`Stop`, a search that ends at the first free slot, find every entry, and it
survives because slots are only ever filled.  While the table is rebuilt,
`OldApart` says that what remains to be migrated is not in the new table, and
`OldHadRoom` that the old table had a free slot, so that one more entry fits
when the migration ends, even from a table of one slot.  `RoomToProbe` follows
from the growth rule.  For the refinement, a migration changes where entries
are and not which there are.  That capacities are powers of two, which makes the
code's `& (capacity - 1)` the model's `% capacity`, plays no further part.

*The path tree.*  `TreeInv` says that there is a function `u`, from each node to
the nodes below it, for which the links are a search tree (`SearchTree`): no two
places link to one node, all nodes in use are below the root, what is below a
node is the node and what is below its two sides, with smaller paths on the left
and greater ones on the right.  It stands in for a recursive definition of
"below", which could not be reasoned about; each action shows the `u` of its
next state from that of the last, and only rotations and new nodes change it.
`RotateKeeps` is the rotation: the two nodes' values of `u` are swapped around,
and nothing else's.  `Calls` and `Descent` follow an insertion down: the places
on the stack lead from the root, one side further each, and the new path is
neither where they did not go nor out of order where they did.  On the way up,
`AlmostSettled` says that one subtree of the node to be rebalanced is at most one
higher than its height accounts for, and `RebalanceRepairs` that each of the
four rotations then settles the nodes it moves and makes the whole no more than
one higher than it was, which is the same for the next call.  `Walking` says
that what has been visited comes before all that remains.  The refinement reads
the map off the nodes, one for each path (`Mapped`): `Replace` and `Attach` put
one entry, and a rotation, which moves links only, none; that the links reach
every node in use is `AllReachable`, by the least counterexample in the number of
nodes below.

*The scanner.*  `FoundInv` says of every file that nobody touched that it is in
the index with its size or the scanner will still come to it: a prefix of its
path is on the stack, or among the names `readdir` must return, or is being
looked up.  That opening a directory hands this on to one of its entries needs
that the file system is a tree, which is part of `TypeOK` and is shown to
survive any change; that a change elsewhere takes nothing away is a matter of
prefixes, for which there are six lemmas.  `QuietInv` is about a scan nothing
disturbs: there is one way only on which the scanner comes to a path, and none
to one it has entered (`OneWay`), so that each is entered once and the counts
are those of the files entered; that the index is then exactly the tree follows
from `NothingInvented` and `UntouchedFound`.

*Model-checked only*: liveness (`Termination` of the pool, `ScanEnds` of the scanner),
which is out of the prover's reach.  Every invariant and every refinement that
a run expects to hold is also a theorem.

## Findings

- `error_masked`: a worker fails while the planner is still enqueueing; its
  shutdown makes the push return `ECANCELED`, and `src/planner.c:93` asks for
  the recorded error only if `rc` is 0.  The user sees "Operation canceled".
- `shutdown_drains`: `task_queue_pop` hands out queued tasks after a shutdown,
  as it must for the normal end; so after a failure the other workers go on
  with up to 4096 files.
- `line_ends`: lines are compared with, and stored without, their terminators.
- `lost_write`: `src/main.c:158` throws away the result of `fclose`, and with it
  that of the last write; the program prints its summary and exits with 0
  although the report is cut off.  Exit also loses what stdout still holds.

Noted, without a run: `progress_note_compare_done` has no caller, so the
progress line says `compared=0` for ever; "Detailed report written." is printed
when it was not, too; `scan_directory` does not free `stack.items` when it
succeeds; the text heuristic of `src/hash.c:194` accepts control characters 14
to 31; `MappingCut` of CompareFile is a SIGBUS when a mapped file shrinks; the
list of line numbers of a row is cut at 511 characters.

## Not modelled

- Failure of pthread mutexes and condition variables that are correctly
  initialised; failure of `close`.
- The `destroy` functions of trees, arena and result set: they only free.
- `mtime` in the index: nothing reads it.
- The memory of the scanner's frames and the growth of their array: its stack
  is a sequence.  A symbolic link put in place of a directory between `lstat`
  and `opendir` is taken not to lead to another directory.
- A missing lock in `result_set_push`: the code holds the set's mutex from its
  first line to its last (index.c:251-294), so a push is one action.
- Progress, except for Scanner's counters and what it may leave in `errno`: only
  the main thread writes it, to stderr, and nothing else depends on it.  The
  row of each single line under a path of the detailed report
  (output.c:185-194): `Differences` has the paths only.  The layout of the
  reports: widths, clipping, units, the time.  What `strtoul` makes of an
  argument.  xxHash.

## Plan

Done: task queue; result set; planner and pool; file index with its arena;
path tree; file comparison with its line differences; scanner; report and
main; a proof of every invariant and refinement the runs check.

Next, in this order:

1. Safety facts behind the two liveness properties, which can be proved though
   they cannot: a measure that every step of a worker or of the scanner lowers.
2. What the rows of the report say, beside how many there are: that each
   difference kept by CompareFile is listed under its path.
3. Operators of the report (`clip_text`, `format_line_summary`) over all
   small inputs, if they prove worth it.
