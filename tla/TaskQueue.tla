----------------------------- MODULE TaskQueue -----------------------------
(***************************************************************************)
(* The TaskQueue of include/common.h and its operations in                 *)
(* src/thread_pool.c: a ring buffer under one mutex with two condition     *)
(* variables.                                                              *)
(*                                                                         *)
(* Every access to the queue happens between pthread_mutex_lock and        *)
(* pthread_mutex_unlock, and pthread_cond_wait releases the mutex only     *)
(* while the thread is blocked.  So one action is one stretch of code that *)
(* holds the mutex: from the lock (or the return from a wait) to the       *)
(* unlock (or the next wait).  A blocked thread is a member of the waiting *)
(* set of its condition variable; once it leaves the set it re-evaluates   *)
(* the loop condition by taking any of the operation's actions again.      *)
(*                                                                         *)
(* Not modelled: failure of the pthread primitives themselves, which for   *)
(* default mutexes and condition variables correctly initialised do not    *)
(* occur.                                                                  *)
(***************************************************************************)
EXTENDS Integers, FiniteSets

CONSTANTS
  Planner,     \* the thread running plan_and_compare, the only producer
  Workers,     \* the threads running worker_main, the only consumers
  Task,        \* the CompareTask values
  NoTask,      \* an unwritten slot or task_out
  Capacity     \* 4096 in plan_and_compare

ASSUME QueueAssumption ==
  /\ Capacity \in Nat \ {0}
  /\ IsFiniteSet(Workers)
  /\ Planner \notin Workers
  /\ NoTask \notin Task

VARIABLES
  items,       \* the ring, indexed 0..Capacity-1
  head, tail,  \* next slot to pop, next slot to push
  count,       \* occupied slots
  shutdown,
  not_empty,   \* threads blocked in pthread_cond_wait(&not_empty)
  not_full,    \* threads blocked in pthread_cond_wait(&not_full)
  task_out,    \* per worker, the task written by its last successful pop
  returned     \* per thread, the result of its last completed call

queueVars == <<items, head, tail, count, shutdown, not_empty, not_full,
               task_out, returned>>

Threads == Workers \cup {Planner}

Slots == 0 .. Capacity - 1

Results == {"none", "pushed", "canceled", "popped", "drained"}

QueueTypeOK ==
  /\ items \in [Slots -> Task \cup {NoTask}]
  /\ head \in Slots
  /\ tail \in Slots
  /\ count \in 0 .. Capacity
  /\ shutdown \in BOOLEAN
  /\ not_empty \in SUBSET Workers
  /\ not_full \in SUBSET {Planner}
  /\ task_out \in [Workers -> Task \cup {NoTask}]
  /\ returned \in [Threads -> Results]

----------------------------------------------------------------------------

\* task_queue_init.
QueueInit ==
  /\ items = [i \in Slots |-> NoTask]
  /\ head = 0
  /\ tail = 0
  /\ count = 0
  /\ shutdown = FALSE
  /\ not_empty = {}
  /\ not_full = {}
  /\ task_out = [w \in Workers |-> NoTask]
  /\ returned = [t \in Threads |-> "none"]

(* Broken variants, named by the mutants of PROJECT.json: a successor that *)
(* does not wrap, one that skips a slot, a signal and a broadcast nobody   *)
(* hears.                                                                  *)
NextSlotUnwrapped(i) == i + 1
NextSlotSkipping(i) == (i + 2) % Capacity
SignalUnheard(waiters) == {waiters}
BroadcastUnheard(waiters) == waiters

\* Where head and tail move to.
NextSlot(i) == (i + 1) % Capacity

\* pthread_cond_signal: one waiter leaves, if there is one.  That POSIX lets
\* it wake more than one is covered by SpuriousWakeup.
Signalled(waiters) ==
  IF waiters = {} THEN {{}} ELSE {waiters \ {t} : t \in waiters}

\* pthread_cond_broadcast: every waiter leaves.
Broadcast(waiters) == {}

----------------------------------------------------------------------------
(* task_queue_push *)

\* The wait loop: open and full, so block on not_full.
PushBlock(t) ==
  /\ t \notin not_full
  /\ ~shutdown
  /\ count = Capacity
  /\ not_full' = not_full \cup {t}
  /\ UNCHANGED <<items, head, tail, count, shutdown, not_empty, task_out,
                 returned>>

\* Room in the ring: store, advance the tail, wake one consumer.
PushStore(t, task) ==
  /\ t \notin not_full
  /\ ~shutdown
  /\ count # Capacity
  /\ items' = [items EXCEPT ![tail] = task]
  /\ tail' = NextSlot(tail)
  /\ count' = count + 1
  /\ not_empty' \in Signalled(not_empty)
  /\ returned' = [returned EXCEPT ![t] = "pushed"]
  /\ UNCHANGED <<head, shutdown, not_full, task_out>>

\* ECANCELED once the queue is shut down, full or not.
PushCanceled(t) ==
  /\ t \notin not_full
  /\ shutdown
  /\ returned' = [returned EXCEPT ![t] = "canceled"]
  /\ UNCHANGED <<items, head, tail, count, shutdown, not_empty, not_full,
                 task_out>>

----------------------------------------------------------------------------
(* task_queue_pop *)

\* The wait loop: open and empty, so block on not_empty.
PopBlock(t) ==
  /\ t \notin not_empty
  /\ ~shutdown
  /\ count = 0
  /\ not_empty' = not_empty \cup {t}
  /\ UNCHANGED <<items, head, tail, count, shutdown, not_full, task_out,
                 returned>>

\* Something in the ring, shut down or not: copy it out, advance the head,
\* wake the producer.
PopTake(t) ==
  /\ t \notin not_empty
  /\ count # 0
  /\ task_out' = [task_out EXCEPT ![t] = items[head]]
  /\ head' = NextSlot(head)
  /\ count' = count - 1
  /\ not_full' \in Signalled(not_full)
  /\ returned' = [returned EXCEPT ![t] = "popped"]
  /\ UNCHANGED <<items, tail, shutdown, not_empty>>

\* A broken variant: a pop that gives up as soon as the queue is shut down,
\* whatever it still holds.
PopDrainedEarly(t) ==
  /\ t \notin not_empty
  /\ shutdown
  /\ returned' = [returned EXCEPT ![t] = "drained"]
  /\ UNCHANGED <<items, head, tail, count, shutdown, not_empty, not_full,
                 task_out>>

\* Shut down and nothing left: pop returns false.
PopDrained(t) ==
  /\ t \notin not_empty
  /\ shutdown
  /\ count = 0
  /\ returned' = [returned EXCEPT ![t] = "drained"]
  /\ UNCHANGED <<items, head, tail, count, shutdown, not_empty, not_full,
                 task_out>>

----------------------------------------------------------------------------

\* task_queue_shutdown: set the flag and broadcast on both conditions.
QueueShutdown(t) ==
  /\ t \notin not_empty \cup not_full
  /\ shutdown' = TRUE
  /\ not_empty' = Broadcast(not_empty)
  /\ not_full' = Broadcast(not_full)
  /\ UNCHANGED <<items, head, tail, count, task_out, returned>>

\* pthread_cond_wait may return without a signal; both waits sit in a loop.
SpuriousWakeup(t) ==
  /\ t \in not_empty \cup not_full
  /\ not_empty' = not_empty \ {t}
  /\ not_full' = not_full \ {t}
  /\ UNCHANGED <<items, head, tail, count, shutdown, task_out, returned>>

\* The most general client: the planner pushes anything, workers pop, any
\* thread may shut the queue down at any time and more than once.
QueueNext ==
  \/ PushBlock(Planner)
  \/ \E x \in Task : PushStore(Planner, x)
  \/ PushCanceled(Planner)
  \/ \E w \in Workers : PopBlock(w)
  \/ \E w \in Workers : PopTake(w)
  \/ \E w \in Workers : PopDrained(w)
  \/ \E t \in Threads : QueueShutdown(t)
  \/ \E t \in Threads : SpuriousWakeup(t)

QueueSpec == QueueInit /\ [][QueueNext]_queueVars

----------------------------------------------------------------------------
(* Properties *)

\* The occupied slots are the count slots from head on, they hold what was
\* pushed, and tail is the slot after them: head, tail and count, which push
\* and pop update separately, never drift apart, not even around the end of
\* the ring.
RingOK ==
  /\ tail = (head + count) % Capacity
  /\ \A i \in 0 .. count - 1 : items[(head + i) % Capacity] \in Task

\* No wakeup is lost.  A consumer sleeps only while the queue is open and
\* every queued task has an awake consumer of its own to pop it; the producer
\* sleeps only while the queue is open and full.  A single signal per push
\* and per pop, and the two broadcasts of shutdown, are enough for that.
NoLostWakeup ==
  /\ not_empty # {} =>
       /\ ~shutdown
       /\ count <= Cardinality(Workers \ not_empty)
  /\ not_full # {} => ~shutdown /\ count = Capacity

\* What the ring holds, oldest first.
Buffered == [i \in 1 .. count |-> items[(head + i - 1) % Capacity]]

Fifo == INSTANCE BoundedFifo WITH queue <- Buffered, closed <- shutdown

\* The ring under its mutex and conditions is a closable bounded FIFO: each
\* task accepted is delivered once and in order, none is accepted after the
\* shutdown, and no consumer is sent home while a task is left.
ImplementsBoundedFifo == Fifo!Spec
=============================================================================
