--------------------------- MODULE PlanAndCompare ---------------------------
(***************************************************************************)
(* plan_and_compare in src/planner.c with the thread pool it drives        *)
(* (worker_main, thread_pool_init, thread_pool_join in src/thread_pool.c)  *)
(* and compare_candidate_file of src/compare.c, over the task queue and    *)
(* the result set.                                                         *)
(*                                                                         *)
(* The planner walks both indexes.  It records by itself what the indexes  *)
(* decide (removed, added, size changed) and enqueues the paths whose      *)
(* files have the same size; the workers read those files and record what  *)
(* they find.  Each step of a thread is at most one critical section: on   *)
(* the queue's mutex, the result set's mutex or error_mutex.  What a       *)
(* thread does between two of them touches nothing the others see.         *)
(*                                                                         *)
(* Both indexes are read-only here and appear as path |-> size; the order  *)
(* in which the loops meet the paths is that of a hash table, so any.      *)
(* Progress messages are left out: only the planner writes them.           *)
(***************************************************************************)
EXTENDS TaskQueue, ResultSet

CONSTANTS
  Inputs,          \* the comparisons to try: see IsInput
  MaxFaults        \* bound on the failures of one run

\* index_a, index_b: files of each tree, with their sizes; equal: the paths
\* whose files hold the same bytes; lines: those where --lines finds lines
\* that differ; include_unchanged: of the Config.
IsInput(i) ==
  /\ DOMAIN i.index_a \subseteq Path /\ IsFiniteSet(DOMAIN i.index_a)
  /\ \A p \in DOMAIN i.index_a : i.index_a[p] \in Nat
  /\ DOMAIN i.index_b \subseteq Path /\ IsFiniteSet(DOMAIN i.index_b)
  /\ \A p \in DOMAIN i.index_b : i.index_b[p] \in Nat
  /\ i.equal \subseteq Path
  /\ i.lines \subseteq Path
  /\ i.include_unchanged \in BOOLEAN

ASSUME PoolAssumption ==
  /\ Task = Path
  /\ Workers # {}            \* main rejects a thread count of 0
  /\ MaxFaults \in Nat
  /\ \A i \in Inputs : IsInput(i)

VARIABLES
  input,
  pc,              \* where the planner is
  todo_a, todo_b,  \* paths of each index its loops have yet to meet
  cur,             \* the path it is enqueueing
  rc,              \* its rc
  wpc,             \* where each worker is
  wrc,             \* the rc of each worker's last comparison
  first_error,     \* of the CompareContext, under error_mutex
  faults           \* failures so far

planVars == <<input, pc, todo_a, todo_b, cur, rc>>
workVars == <<wpc, wrc, first_error>>
vars == <<queueVars, resultVars, planVars, workVars, faults>>

Codes == {"OK", "ENOMEM", "EAGAIN", "ECANCELED", "EIO", "ENOENT"}

PlannerLabels == {"start", "create", "abandon", "loop_a", "enqueue",
                  "loop_b", "shutdown", "join", "collect", "done"}

WorkerLabels == {"absent", "pop", "compare", "set_error", "shutdown",
                 "exited"}

TypeOK ==
  /\ QueueTypeOK
  /\ ResultTypeOK
  /\ input \in Inputs
  /\ pc \in PlannerLabels
  /\ todo_a \subseteq DOMAIN input.index_a
  /\ todo_b \subseteq DOMAIN input.index_b
  /\ cur \in Path \cup {NoTask}
  /\ rc \in Codes
  /\ wpc \in [Workers -> WorkerLabels]
  /\ wrc \in [Workers -> Codes]
  /\ first_error \in Codes
  /\ faults \in 0 .. MaxFaults

----------------------------------------------------------------------------

Init ==
  /\ QueueInit
  /\ ResultInit
  /\ input \in Inputs
  /\ pc = "start"
  /\ todo_a = DOMAIN input.index_a
  /\ todo_b = DOMAIN input.index_b
  /\ cur = NoTask
  /\ rc = "OK"
  /\ wpc = [w \in Workers |-> "absent"]
  /\ wrc = [w \in Workers |-> "OK"]
  /\ first_error = "OK"
  /\ faults = 0

Fault ==
  /\ faults < MaxFaults
  /\ faults' = faults + 1

PlannerGoes(from, to) ==
  /\ pc = from
  /\ pc' = to

WorkerGoes(w, from, to) ==
  /\ wpc[w] = from
  /\ wpc' = [wpc EXCEPT ![w] = to]

----------------------------------------------------------------------------
(* The planner: setting up *)

\* error_mutex, queue and thread array are there.
Setup ==
  /\ PlannerGoes("start", "create")
  /\ UNCHANGED <<queueVars, resultVars, input, todo_a, todo_b, cur, rc,
                 workVars, faults>>

\* One of the three cannot be had: what there is is released at once.
SetupFails ==
  /\ PlannerGoes("start", "done")
  /\ rc' = "ENOMEM"
  /\ Fault
  /\ UNCHANGED <<queueVars, resultVars, input, todo_a, todo_b, cur, workVars>>

\* thread_pool_init: pthread_create starts the next worker; with the last
\* one the pool is complete.
CreateWorker(w) ==
  /\ WorkerGoes(w, "absent", "pop")
  /\ PlannerGoes("create",
                 IF "absent" \in {wpc[v] : v \in Workers \ {w}}
                 THEN "create" ELSE "loop_a")
  /\ UNCHANGED <<queueVars, resultVars, input, todo_a, todo_b, cur, rc, wrc,
                 first_error, faults>>

\* pthread_create fails: shut the queue down for the workers there are.
CreateFails ==
  /\ PlannerGoes("create", "abandon")
  /\ QueueShutdown(Planner)
  /\ rc' = "EAGAIN"
  /\ Fault
  /\ UNCHANGED <<resultVars, input, todo_a, todo_b, cur, workVars>>

\* A broken variant: joining one thread of the pool, not each of them.
AnyoneExited == \E w \in Workers : wpc[w] = "exited"

\* Every thread that was created can be joined.
EveryoneExited == \A w \in Workers : wpc[w] \in {"absent", "exited"}

\* Join those workers; plan_and_compare destroys the queue and returns.
AbandonPool ==
  /\ PlannerGoes("abandon", "done")
  /\ EveryoneExited
  /\ UNCHANGED <<queueVars, resultVars, input, todo_a, todo_b, cur, rc,
                 workVars, faults>>

----------------------------------------------------------------------------
(* The planner: the two loops *)

Record(p, type, detail_kind, size_a, size_b) ==
  [path |-> p, type |-> type, detail_kind |-> detail_kind,
   size_a |-> size_a, size_b |-> size_b]

\* push_presence_record, and what its result makes of the loop.
PlannerRecords(rec) ==
  \/ /\ ResultPush(rec)
     /\ UNCHANGED <<pc, rc, faults>>
  \/ /\ ResultPushNoArray \/ ResultPushNoNode(rec)
     /\ pc' = "shutdown"
     /\ rc' = "ENOMEM"
     /\ Fault

\* A path of index_a that index_b does not have.
Removed(p) ==
  /\ pc = "loop_a"
  /\ p \in todo_a \ DOMAIN input.index_b
  /\ todo_a' = todo_a \ {p}
  /\ PlannerRecords(Record(p, "REMOVED", "ONLY_IN_SOURCE",
                           input.index_a[p], 0))
  /\ UNCHANGED <<queueVars, input, todo_b, cur, workVars>>

\* A path of both, with another size.
Resized(p) ==
  /\ pc = "loop_a"
  /\ p \in todo_a \cap DOMAIN input.index_b
  /\ input.index_a[p] # input.index_b[p]
  /\ todo_a' = todo_a \ {p}
  /\ PlannerRecords(Record(p, "MODIFIED", "SIZE_CHANGED",
                           input.index_a[p], input.index_b[p]))
  /\ UNCHANGED <<queueVars, input, todo_b, cur, workVars>>

\* A path of both, with the same size: on to task_queue_push.
Candidate(p) ==
  /\ PlannerGoes("loop_a", "enqueue")
  /\ p \in todo_a \cap DOMAIN input.index_b
  /\ input.index_a[p] = input.index_b[p]
  /\ todo_a' = todo_a \ {p}
  /\ cur' = p
  /\ UNCHANGED <<queueVars, resultVars, input, todo_b, rc, workVars, faults>>

EnqueueBlocks ==
  /\ pc = "enqueue"
  /\ PushBlock(Planner)
  /\ UNCHANGED <<resultVars, planVars, workVars, faults>>

Enqueue ==
  /\ PlannerGoes("enqueue", "loop_a")
  /\ PushStore(Planner, cur)
  /\ UNCHANGED <<resultVars, input, todo_a, todo_b, cur, rc, workVars, faults>>

\* A worker has shut the queue down: rc ends both loops.
EnqueueCanceled ==
  /\ PlannerGoes("enqueue", "shutdown")
  /\ PushCanceled(Planner)
  /\ rc' = "ECANCELED"
  /\ UNCHANGED <<resultVars, input, todo_a, todo_b, cur, workVars, faults>>

LoopADone ==
  /\ PlannerGoes("loop_a", "loop_b")
  /\ todo_a = {}
  /\ UNCHANGED <<queueVars, resultVars, input, todo_a, todo_b, cur, rc,
                 workVars, faults>>

\* A path of index_b that index_a has: the first loop has dealt with it.
Met(p) ==
  /\ pc = "loop_b"
  /\ p \in todo_b \cap DOMAIN input.index_a
  /\ todo_b' = todo_b \ {p}
  /\ UNCHANGED <<queueVars, resultVars, input, pc, todo_a, cur, rc, workVars,
                 faults>>

\* A broken variant: the second loop does not look into index_a.
AddedUnlooked(p) ==
  /\ pc = "loop_b"
  /\ p \in todo_b
  /\ todo_b' = todo_b \ {p}
  /\ PlannerRecords(Record(p, "ADDED", "ONLY_IN_TARGET",
                           0, input.index_b[p]))
  /\ UNCHANGED <<queueVars, input, todo_a, cur, workVars>>

\* A path of index_b only.
Added(p) ==
  /\ pc = "loop_b"
  /\ p \in todo_b \ DOMAIN input.index_a
  /\ todo_b' = todo_b \ {p}
  /\ PlannerRecords(Record(p, "ADDED", "ONLY_IN_TARGET",
                           0, input.index_b[p]))
  /\ UNCHANGED <<queueVars, input, todo_a, cur, workVars>>

LoopBDone ==
  /\ PlannerGoes("loop_b", "shutdown")
  /\ todo_b = {}
  /\ UNCHANGED <<queueVars, resultVars, input, todo_a, todo_b, cur, rc,
                 workVars, faults>>

----------------------------------------------------------------------------
(* The planner: winding up *)

Shutdown ==
  /\ PlannerGoes("shutdown", "join")
  /\ QueueShutdown(Planner)
  /\ UNCHANGED <<resultVars, input, todo_a, todo_b, cur, rc, workVars, faults>>

\* thread_pool_join.
Join ==
  /\ PlannerGoes("join", "collect")
  /\ EveryoneExited
  /\ UNCHANGED <<queueVars, resultVars, input, todo_a, todo_b, cur, rc,
                 workVars, faults>>

\* A broken variant: the workers' error is not looked at.
OutcomeOfPlanner(planner_rc, error) == planner_rc

\* The planner's own error, or else the workers'.
Outcome(planner_rc, error) == IF planner_rc = "OK" THEN error ELSE planner_rc

\* compare_context_get_error; queue and error_mutex are destroyed.
Collect ==
  /\ PlannerGoes("collect", "done")
  /\ rc' = Outcome(rc, first_error)
  /\ UNCHANGED <<queueVars, resultVars, input, todo_a, todo_b, cur, workVars,
                 faults>>

PlannerStep ==
  \/ Setup
  \/ SetupFails
  \/ \E w \in Workers : CreateWorker(w)
  \/ CreateFails
  \/ AbandonPool
  \/ \E p \in Path : Removed(p)
  \/ \E p \in Path : Resized(p)
  \/ \E p \in Path : Candidate(p)
  \/ EnqueueBlocks
  \/ Enqueue
  \/ EnqueueCanceled
  \/ LoopADone
  \/ \E p \in Path : Met(p)
  \/ \E p \in Path : Added(p)
  \/ LoopBDone
  \/ Shutdown
  \/ Join
  \/ Collect

----------------------------------------------------------------------------
(* The workers *)

\* task_queue_pop has nothing to deliver yet.
WorkerWaits(w) ==
  /\ wpc[w] = "pop"
  /\ PopBlock(w)
  /\ UNCHANGED <<resultVars, planVars, workVars, faults>>

WorkerPops(w) ==
  /\ WorkerGoes(w, "pop", "compare")
  /\ PopTake(w)
  /\ UNCHANGED <<resultVars, planVars, wrc, first_error, faults>>

\* task_queue_pop returns false: worker_main returns.
WorkerExits(w) ==
  /\ WorkerGoes(w, "pop", "exited")
  /\ PopDrained(w)
  /\ UNCHANGED <<resultVars, planVars, wrc, first_error, faults>>

InBoth(p) == p \in DOMAIN input.index_a \cap DOMAIN input.index_b

\* What compare_candidate_file finds out about two files it could read.
FoundType(p) ==
  IF input.index_a[p] = input.index_b[p] /\ p \in input.equal
  THEN "UNCHANGED" ELSE "MODIFIED"

FoundDetail(p) ==
  IF input.index_a[p] # input.index_b[p] THEN "SIZE_CHANGED"
  ELSE IF p \in input.equal THEN "NONE"
  ELSE IF p \in input.lines THEN "LINES"
  ELSE "BINARY_CHANGED"

Found(p) ==
  Record(p, FoundType(p), FoundDetail(p), input.index_a[p], input.index_b[p])

\* Everything but an unchanged file nobody asked to see gets a record.
Recorded(p) == FoundType(p) # "UNCHANGED" \/ input.include_unchanged

\* compare_candidate_file succeeds; the worker goes on.
Compare(w) ==
  LET p == task_out[w] IN
  /\ WorkerGoes(w, "compare", "pop")
  /\ InBoth(p)
  /\ IF Recorded(p) THEN ResultPush(Found(p)) ELSE ResultNote(FoundType(p))
  /\ UNCHANGED <<queueVars, planVars, wrc, first_error, faults>>

\* It fails before it has touched the result set: a path the indexes do not
\* have, a file that cannot be read, no memory.
CompareFails(w) ==
  /\ WorkerGoes(w, "compare", "set_error")
  /\ \E e \in IF InBoth(task_out[w]) THEN {"EIO", "ENOMEM"} ELSE {"ENOENT"} :
       wrc' = [wrc EXCEPT ![w] = e]
  /\ Fault
  /\ UNCHANGED <<queueVars, resultVars, planVars, first_error>>

\* It fails in result_set_push.
CompareNotRecorded(w) ==
  LET p == task_out[w] IN
  /\ WorkerGoes(w, "compare", "set_error")
  /\ InBoth(p)
  /\ Recorded(p)
  /\ ResultPushNoArray \/ ResultPushNoNode(Found(p))
  /\ wrc' = [wrc EXCEPT ![w] = "ENOMEM"]
  /\ Fault
  /\ UNCHANGED <<queueVars, planVars, first_error>>

\* compare_context_set_error keeps the first error only.
SetError(w) ==
  /\ WorkerGoes(w, "set_error", "shutdown")
  /\ first_error' = IF first_error = "OK" THEN wrc[w] ELSE first_error
  /\ UNCHANGED <<queueVars, resultVars, planVars, wrc, faults>>

\* The failed worker shuts the queue down and leaves its loop.
WorkerShutsDown(w) ==
  /\ WorkerGoes(w, "shutdown", "exited")
  /\ QueueShutdown(w)
  /\ UNCHANGED <<resultVars, planVars, wrc, first_error, faults>>

WorkerStep(w) ==
  \/ WorkerWaits(w)
  \/ WorkerPops(w)
  \/ WorkerExits(w)
  \/ Compare(w)
  \/ CompareFails(w)
  \/ CompareNotRecorded(w)
  \/ SetError(w)
  \/ WorkerShutsDown(w)

----------------------------------------------------------------------------

\* A wait of the planner or of a worker returns unsignalled.
Spurious(t) ==
  /\ SpuriousWakeup(t)
  /\ UNCHANGED <<resultVars, planVars, workVars, faults>>

\* plan_and_compare has returned.
Terminated ==
  /\ pc = "done"
  /\ UNCHANGED vars

Next ==
  \/ PlannerStep
  \/ \E w \in Workers : WorkerStep(w)
  \/ \E t \in Threads : Spurious(t)
  \/ Terminated

Spec == Init /\ [][Next]_vars

\* Every thread that can take a step is scheduled eventually.  Nothing is
\* assumed of spurious wakeups.
Fairness ==
  /\ WF_vars(PlannerStep)
  /\ \A w \in Workers : WF_vars(WorkerStep(w))

FairSpec == Spec /\ Fairness

----------------------------------------------------------------------------
(* Properties *)

CompareVerdicts == INSTANCE Comparison WITH
  pending <- todo_a
             \cup (todo_b \ DOMAIN input.index_a)
             \cup (IF pc = "enqueue" THEN {cur} ELSE {})
             \cup {Buffered[i] : i \in 1 .. count}
             \cup {task_out[w] : w \in {v \in Workers : wpc[v] = "compare"}},
  report <- {records[i] : i \in 1 .. Len(records)},
  failed <- \/ rc # "OK"
            \/ first_error # "OK"
            \/ \E w \in Workers : wpc[w] = "set_error",
  result <- IF pc # "done" THEN "running"
            ELSE IF rc = "OK" THEN "success" ELSE "failure"

\* Planner, queue and workers together decide every path once, with the
\* right verdict, whatever the interleaving; a failure of anybody, however
\* late, is never reported as success.
ImplementsComparison == CompareVerdicts!Spec

\* When plan_and_compare returns 0 the report is that of a sequential
\* comparison: one record for every path of either tree that is to be listed,
\* none besides, and the summary counts every path once.  No task is left
\* behind in the queue or in a worker's hands.
CompleteOnSuccess ==
  pc = "done" /\ rc = "OK" =>
    /\ {records[i] : i \in 1 .. Len(records)} =
         {CompareVerdicts!Verdict(p) :
            p \in {q \in CompareVerdicts!AllPaths : CompareVerdicts!Listed(q)}}
    /\ \A c \in ChangeType :
         tally[c] = Cardinality({p \in CompareVerdicts!AllPaths :
                                   CompareVerdicts!Type(p) = c})

\* At every moment, failed pushes included, the three views of the result
\* set agree: the tree leads to each record and to nothing else, and the
\* counters count the records (unchanged files not listed are only counted).
ReportConsistent ==
  /\ \A p \in DOMAIN ordered : records[ordered[p]].path = p
  /\ {ordered[p] : p \in DOMAIN ordered} = 1 .. Len(records)
  /\ \A c \in ChangeType :
       \/ tally[c] = Cardinality({i \in 1 .. Len(records) :
                                    records[i].type = c})
       \/ c = "UNCHANGED" /\ ~input.include_unchanged

\* plan_and_compare destroys the queue, and returns the stack frame it lives
\* in, only when every worker it ever started has left worker_main.
NoUseAfterDestroy ==
  pc \in {"collect", "done"} => \A w \in Workers : wpc[w] \in {"absent", "exited"}

\* As long as the queue is open, a queued task has a worker that will come
\* for it: one that is neither asleep nor gone.  And a sleeping planner has
\* a full queue, hence such a worker.
NoStrandedTask ==
  /\ ~shutdown /\ count > 0 =>
       \E w \in Workers : wpc[w] # "exited" /\ w \notin not_empty
  /\ not_full # {} => ~shutdown /\ count = Capacity

\* plan_and_compare returns: nobody waits for a wakeup or a join that never
\* comes, with errors or without.
Termination == <>(pc = "done")

\* include/thread_pool.h:9-10: the context securely records "the FIRST
\* catastrophic error we encountered (because realistically, we're only
\* interested in the first one)".  So when a worker has failed, the error
\* plan_and_compare returns should be the one recorded.
FirstErrorReported ==
  pc = "done" /\ first_error # "OK" => rc = first_error

\* src/thread_pool.c:135-137: a worker that fails slams "the emergency
\* shutdown button on the queue so the whole program can halt", a shutdown
\* that include/thread_pool.h:39 calls an absolute "everybody go home right
\* now".  So once it has done so no worker should take up another file.
EmergencyShutdownHalts ==
  [][(\E w \in Workers : wpc[w] = "exited" /\ wrc[w] # "OK") =>
       \A w \in Workers : wpc[w] = "pop" => wpc'[w] # "compare"]_vars
=============================================================================
