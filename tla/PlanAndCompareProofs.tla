------------------------ MODULE PlanAndCompareProofs ------------------------
(***************************************************************************)
(* plan_and_compare for any number of workers and paths, any pair of trees *)
(* and any number of failures: it uses the task queue as TaskQueue expects *)
(* of a client, so that everything proved of the queue holds here; it      *)
(* releases the queue only when no worker is left; and no queued task is   *)
(* stranded.                                                               *)
(*                                                                         *)
(* PoolInv says what the planner enqueues, that no worker is there before  *)
(* the pool is, that a worker leaves only a queue that is shut down, and   *)
(* that nobody is left when the pool has been joined.                      *)
(***************************************************************************)
EXTENDS PlanAndCompare, TaskQueueProofs

\* The part of TypeOK the proofs rest on.
PoolTypes ==
  /\ wpc \in [Workers -> WorkerLabels]
  /\ todo_a \subseteq Path
  /\ pc = "enqueue" => cur \in Path

\* worker_main returns only after a shutdown, its own or another's.
ExitsAfterShutdown == \A w \in Workers : wpc[w] = "exited" => shutdown

\* Nothing runs beside the planner before thread_pool_init.
AloneAtStart == pc = "start" => \A w \in Workers : wpc[w] = "absent"

PoolInv ==
  /\ PoolTypes
  /\ AloneAtStart
  /\ ExitsAfterShutdown
  /\ NoUseAfterDestroy

----------------------------------------------------------------------------
(* The pool is a client of the queue *)

LEMMA PlannerUsesQueue ==
  ASSUME PoolInv, PlannerStep
  PROVE  [QueueNext]_queueVars
<1>1. CASE EnqueueBlocks
  BY <1>1 DEF EnqueueBlocks, QueueNext
<1>2. CASE Enqueue
  <2>1. cur \in Task
    BY <1>2, PoolAssumption DEF Enqueue, PlannerGoes, PoolInv, PoolTypes
  <2> QED
    BY <1>2, <2>1 DEF Enqueue, QueueNext
<1>3. CASE EnqueueCanceled
  BY <1>3 DEF EnqueueCanceled, QueueNext
<1>4. CASE CreateFails \/ Shutdown
  BY <1>4 DEF CreateFails, Shutdown, QueueNext, Threads
<1>5. CASE UNCHANGED queueVars
  BY <1>5
<1> QED
  BY <1>1, <1>2, <1>3, <1>4, <1>5
  DEF PlannerStep, Setup, SetupFails, CreateWorker, AbandonPool, Removed,
      Resized, Candidate, LoopADone, Met, Added, LoopBDone, Join, Collect

LEMMA WorkerUsesQueue ==
  ASSUME NEW w \in Workers, WorkerStep(w)
  PROVE  [QueueNext]_queueVars
<1>1. CASE WorkerWaits(w)
  BY <1>1 DEF WorkerWaits, QueueNext
<1>2. CASE WorkerPops(w)
  BY <1>2 DEF WorkerPops, QueueNext
<1>3. CASE WorkerExits(w)
  BY <1>3 DEF WorkerExits, QueueNext
<1>4. CASE WorkerShutsDown(w)
  BY <1>4 DEF WorkerShutsDown, QueueNext, Threads
<1> QED
  BY <1>1, <1>2, <1>3, <1>4
  DEF WorkerStep, Compare, CompareFails, CompareNotRecorded, SetError

LEMMA PoolUsesQueue == PoolInv /\ [Next]_vars => [QueueNext]_queueVars
<1> SUFFICES ASSUME PoolInv, [Next]_vars PROVE [QueueNext]_queueVars
  OBVIOUS
<1>1. CASE PlannerStep
  BY <1>1, PlannerUsesQueue
<1>2. ASSUME NEW w \in Workers, WorkerStep(w) PROVE [QueueNext]_queueVars
  BY <1>2, WorkerUsesQueue
<1>3. ASSUME NEW t \in Threads, Spurious(t) PROVE [QueueNext]_queueVars
  BY <1>3 DEF Spurious, QueueNext
<1>4. CASE UNCHANGED vars
  BY <1>4 DEF vars
<1> QED
  BY <1>1, <1>2, <1>3, <1>4 DEF Next, Terminated

----------------------------------------------------------------------------
(* The inductive invariant *)

LEMMA PoolInitInv == Init => PoolInv
<1> SUFFICES ASSUME Init PROVE PoolInv
  OBVIOUS
<1>1. DOMAIN input.index_a \subseteq Path
  BY PoolAssumption DEF Init, IsInput
<1>2. PoolTypes
  BY <1>1 DEF Init, PoolTypes, WorkerLabels
<1>3. AloneAtStart /\ ExitsAfterShutdown /\ NoUseAfterDestroy
  BY DEF Init, AloneAtStart, ExitsAfterShutdown, NoUseAfterDestroy
<1> QED
  BY <1>2, <1>3 DEF PoolInv

\* A queue that has been shut down stays so.
LEMMA ShutdownStays ==
  ASSUME [QueueNext]_queueVars, shutdown
  PROVE  shutdown'
BY DEF QueueNext, queueVars, PushBlock, PushStore, PushCanceled, PopBlock,
       PopTake, PopDrained, QueueShutdown, SpuriousWakeup

LEMMA CreateWorkerInv ==
  ASSUME PoolInv, NEW w \in Workers, CreateWorker(w)
  PROVE  PoolInv'
<1>1. /\ wpc' = [wpc EXCEPT ![w] = "pop"]
      /\ pc' \in {"create", "loop_a"}
      /\ todo_a' = todo_a
      /\ shutdown' = shutdown
  BY DEF CreateWorker, WorkerGoes, PlannerGoes, queueVars
<1>2. wpc \in [Workers -> WorkerLabels]
  BY DEF PoolInv, PoolTypes
<1>3. PoolTypes'
  BY <1>1, <1>2 DEF PoolInv, PoolTypes, WorkerLabels
<1>4. AloneAtStart' /\ NoUseAfterDestroy'
  BY <1>1 DEF AloneAtStart, NoUseAfterDestroy
<1>5. ExitsAfterShutdown'
  BY <1>1, <1>2 DEF PoolInv, ExitsAfterShutdown
<1> QED
  BY <1>3, <1>4, <1>5 DEF PoolInv

\* What the other steps of the planner have in common: they leave the
\* workers where they are, never go back to the start, enqueue a path of
\* index_a, and reach the end only past a join or before the pool.
LEMMA PlannerMoves ==
  ASSUME PoolInv, PlannerStep
  PROVE  \/ \E w \in Workers : CreateWorker(w)
         \/ /\ wpc' = wpc
            /\ todo_a' \subseteq todo_a
            /\ pc' # "start"
            /\ pc' = "enqueue" => cur' \in Path
            /\ pc' \in {"collect", "done"} =>
                 pc \in {"start", "collect"} \/ EveryoneExited
<1>1. todo_a \subseteq Path /\ (pc = "enqueue" => cur \in Path)
  BY DEF PoolInv, PoolTypes
<1>2. CASE Setup \/ SetupFails \/ CreateFails \/ AbandonPool
  BY <1>2
  DEF Setup, SetupFails, CreateFails, AbandonPool, PlannerGoes, workVars
<1>3. ASSUME NEW p \in Path, Removed(p) \/ Resized(p)
      PROVE  wpc' = wpc /\ todo_a' \subseteq todo_a
             /\ pc' \in {"loop_a", "shutdown"}
  BY <1>3 DEF Removed, Resized, PlannerRecords, workVars
<1>4. ASSUME NEW p \in Path, Candidate(p)
      PROVE  wpc' = wpc /\ todo_a' \subseteq todo_a
             /\ pc' = "enqueue" /\ cur' \in Path
  BY <1>4 DEF Candidate, PlannerGoes, workVars
<1>5. CASE EnqueueBlocks \/ Enqueue \/ EnqueueCanceled
  BY <1>1, <1>5
  DEF EnqueueBlocks, Enqueue, EnqueueCanceled, PlannerGoes, workVars, planVars
<1>6. ASSUME NEW p \in Path, Met(p) \/ Added(p)
      PROVE  wpc' = wpc /\ todo_a' = todo_a
             /\ pc' \in {"loop_b", "shutdown"}
  BY <1>6 DEF Met, Added, PlannerRecords, workVars
<1>7. CASE LoopADone \/ LoopBDone \/ Shutdown \/ Join \/ Collect
  BY <1>7
  DEF LoopADone, LoopBDone, Shutdown, Join, Collect, PlannerGoes, workVars
<1> QED
  BY <1>2, <1>3, <1>4, <1>5, <1>6, <1>7 DEF PlannerStep

LEMMA PlannerStepInv ==
  ASSUME PoolInv, PlannerStep
  PROVE  PoolInv'
<1>1. CASE \E w \in Workers : CreateWorker(w)
  BY <1>1, CreateWorkerInv
<1>2. ASSUME wpc' = wpc,
             todo_a' \subseteq todo_a,
             pc' # "start",
             pc' = "enqueue" => cur' \in Path,
             pc' \in {"collect", "done"} =>
               pc \in {"start", "collect"} \/ EveryoneExited
      PROVE  PoolInv'
  <2>1. PoolTypes' /\ AloneAtStart'
    BY <1>2 DEF PoolInv, PoolTypes, AloneAtStart
  <2>2. shutdown => shutdown'
    BY PlannerUsesQueue, ShutdownStays
  <2>3. ExitsAfterShutdown'
    BY <1>2, <2>2 DEF PoolInv, ExitsAfterShutdown
  <2>4. NoUseAfterDestroy'
    BY <1>2 DEF PoolInv, AloneAtStart, NoUseAfterDestroy, EveryoneExited
  <2> QED
    BY <2>1, <2>3, <2>4 DEF PoolInv
<1> QED
  BY <1>1, <1>2, PlannerMoves

\* A worker that takes a step is there, so the planner has neither yet to
\* create the pool nor joined it.
LEMMA WorkerStepInv ==
  ASSUME PoolInv, NEW w \in Workers, WorkerStep(w)
  PROVE  PoolInv'
<1>1. /\ wpc[w] \notin {"absent", "exited"}
      /\ UNCHANGED planVars
      /\ \E l \in WorkerLabels : wpc' = [wpc EXCEPT ![w] = l]
  <2>1. wpc \in [Workers -> WorkerLabels]
    BY DEF PoolInv, PoolTypes
  <2>2. CASE WorkerWaits(w)
    <3>1. wpc' = [wpc EXCEPT ![w] = wpc[w]] /\ wpc[w] \in WorkerLabels
      BY <2>1, <2>2 DEF WorkerWaits, workVars
    <3> QED
      BY <2>2, <3>1 DEF WorkerWaits
  <2>3. CASE WorkerPops(w) \/ WorkerExits(w)
    BY <2>3 DEF WorkerPops, WorkerExits, WorkerGoes, WorkerLabels
  <2>4. CASE Compare(w) \/ CompareFails(w) \/ CompareNotRecorded(w)
    BY <2>4
    DEF Compare, CompareFails, CompareNotRecorded, WorkerGoes, WorkerLabels
  <2>5. CASE SetError(w) \/ WorkerShutsDown(w)
    BY <2>5 DEF SetError, WorkerShutsDown, WorkerGoes, WorkerLabels
  <2> QED
    BY <2>2, <2>3, <2>4, <2>5 DEF WorkerStep
<1>2. /\ wpc \in [Workers -> WorkerLabels]
      /\ wpc' \in [Workers -> WorkerLabels]
      /\ \A v \in Workers \ {w} : wpc'[v] = wpc[v]
  BY <1>1 DEF PoolInv, PoolTypes
<1>3. PoolTypes'
  BY <1>1, <1>2 DEF PoolInv, PoolTypes, planVars
<1>4. pc \notin {"start", "collect", "done"} /\ pc' = pc
  BY <1>1 DEF PoolInv, AloneAtStart, NoUseAfterDestroy, planVars
<1>5. ExitsAfterShutdown'
  <2>1. shutdown => shutdown'
    BY WorkerUsesQueue, ShutdownStays
  <2>2. wpc'[w] = "exited" => shutdown'
    <3>1. CASE WorkerExits(w) \/ WorkerShutsDown(w)
      BY <3>1 DEF WorkerExits, PopDrained, WorkerShutsDown, QueueShutdown
    <3>2. CASE ~(WorkerExits(w) \/ WorkerShutsDown(w))
      BY <1>1, <1>2, <3>2
      DEF WorkerStep, WorkerWaits, WorkerPops, Compare, CompareFails,
          CompareNotRecorded, SetError, WorkerGoes, workVars
    <3> QED
      BY <3>1, <3>2
  <2> QED
    BY <1>2, <2>1, <2>2 DEF PoolInv, ExitsAfterShutdown
<1> QED
  BY <1>3, <1>4, <1>5 DEF PoolInv, AloneAtStart, NoUseAfterDestroy

LEMMA PoolStepInv == PoolInv /\ [Next]_vars => PoolInv'
<1> SUFFICES ASSUME PoolInv, [Next]_vars PROVE PoolInv'
  OBVIOUS
<1>1. CASE PlannerStep
  BY <1>1, PlannerStepInv
<1>2. ASSUME NEW w \in Workers, WorkerStep(w) PROVE PoolInv'
  BY <1>2, WorkerStepInv
<1>3. ASSUME UNCHANGED <<shutdown, planVars, workVars>> PROVE PoolInv'
  BY <1>3
  DEF PoolInv, PoolTypes, AloneAtStart, ExitsAfterShutdown, NoUseAfterDestroy,
      planVars, workVars
<1>4. ASSUME NEW t \in Threads, Spurious(t) PROVE PoolInv'
  BY <1>3, <1>4 DEF Spurious, SpuriousWakeup
<1>5. CASE UNCHANGED vars
  BY <1>3, <1>5 DEF vars, queueVars
<1> QED
  BY <1>1, <1>2, <1>4, <1>5 DEF Next, Terminated

LEMMA PoolInvariant == Spec => []PoolInv
<1>1. Init => PoolInv
  BY PoolInitInv
<1>2. PoolInv /\ [Next]_vars => PoolInv'
  BY PoolStepInv
<1> QED
  BY <1>1, <1>2, PTL DEF Spec

----------------------------------------------------------------------------
(* What follows for plan_and_compare *)

\* plan_and_compare releases the queue, and with it its own stack frame, only
\* when every worker it started has returned: for any number of workers, any
\* trees and any failures, those of thread creation included.
THEOREM NoUseAfterDestroyEver == Spec => []NoUseAfterDestroy
BY PoolInvariant, PTL DEF PoolInv

\* Planner and workers use the queue as one of the clients of QueueSpec, so
\* that all that is proved of the queue holds in the pool.
THEOREM PoolIsQueueClient == Spec => QueueSpec
<1>1. Init => QueueInit
  BY DEF Init
<1>2. PoolInv /\ [Next]_vars => [QueueNext]_queueVars
  BY PoolUsesQueue
<1> QED
  BY <1>1, <1>2, PoolInvariant, PTL DEF Spec, QueueSpec

\* An open queue has been left by nobody; if it holds a task, not everybody
\* sleeps.
LEMMA SomebodyComes ==
  PoolInv /\ QueueInv => NoStrandedTask
<1> SUFFICES ASSUME PoolInv, QueueInv PROVE NoStrandedTask
  OBVIOUS
<1>1. ASSUME ~shutdown, count > 0
      PROVE  \E w \in Workers : wpc[w] # "exited" /\ w \notin not_empty
  <2>1. \A w \in Workers : wpc[w] # "exited"
    BY <1>1 DEF PoolInv, ExitsAfterShutdown
  <2>2. Workers \ not_empty # {}
    <3>1. CASE not_empty = {}
      BY <3>1, PoolAssumption
    <3>2. CASE not_empty # {}
      <4>1. count \in Nat /\ count <= Cardinality(Workers \ not_empty)
        BY <3>2 DEF QueueInv, QueueTypeOK, NoLostWakeup
      <4>2. Workers \ not_empty = {} => Cardinality(Workers \ not_empty) = 0
        BY FS_EmptySet
      <4> QED
        BY <1>1, <4>1, <4>2
    <3> QED
      BY <3>1, <3>2
  <2> QED
    BY <2>1, <2>2
<1> QED
  BY <1>1 DEF NoStrandedTask, QueueInv, NoLostWakeup

\* As long as the queue is open, a queued task has a worker, neither asleep
\* nor gone, that will come for it; a planner that sleeps has a full queue.
\* Whatever the number of workers, the capacity and the failures.
THEOREM NoStrandedTaskEver == Spec => []NoStrandedTask
<1>1. Spec => []QueueInv
  BY PoolIsQueueClient, QueueInvariant, PTL
<1> QED
  BY <1>1, PoolInvariant, SomebodyComes, PTL
=============================================================================
