---------------------------- MODULE BoundedFifo ----------------------------
(***************************************************************************)
(* What the task queue of the thread pool promises its callers: a FIFO of  *)
(* at most Capacity tasks that can be closed once.  A closed queue refuses *)
(* every push, hands out what it still holds in order, and only then tells *)
(* a consumer that there is nothing left.  No mutex, no condition variable *)
(* and no ring: TaskQueue is shown to implement this.                      *)
(***************************************************************************)
EXTENDS Integers, Sequences

CONSTANTS
  Planner,     \* the one thread that pushes
  Workers,     \* the threads that pop
  Task,        \* what can be pushed
  NoTask,      \* content of a task_out that no pop has written yet
  Capacity     \* most tasks the queue holds

VARIABLES
  queue,       \* the tasks pushed and not yet popped, oldest first
  closed,      \* has the queue been shut down?
  task_out,    \* per worker, the task its last successful pop delivered
  returned     \* per thread, the result of its last completed call

vars == <<queue, closed, task_out, returned>>

Init ==
  /\ queue = <<>>
  /\ closed = FALSE
  /\ task_out = [t \in Workers |-> NoTask]
  /\ returned = [t \in Workers \cup {Planner} |-> "none"]

\* A push is accepted while the queue is open and not full.
Push(t, x) ==
  /\ ~closed
  /\ Len(queue) < Capacity
  /\ queue' = Append(queue, x)
  /\ returned' = [returned EXCEPT ![t] = "pushed"]
  /\ UNCHANGED <<closed, task_out>>

\* A push on a closed queue is refused and changes nothing.
Refuse(t) ==
  /\ closed
  /\ returned' = [returned EXCEPT ![t] = "canceled"]
  /\ UNCHANGED <<queue, closed, task_out>>

\* A pop delivers the oldest task, whether the queue is open or closed.
Pop(t) ==
  /\ queue # <<>>
  /\ task_out' = [task_out EXCEPT ![t] = Head(queue)]
  /\ queue' = Tail(queue)
  /\ returned' = [returned EXCEPT ![t] = "popped"]
  /\ UNCHANGED closed

\* Only a queue both closed and empty sends a consumer home.
Drained(t) ==
  /\ closed
  /\ queue = <<>>
  /\ returned' = [returned EXCEPT ![t] = "drained"]
  /\ UNCHANGED <<queue, closed, task_out>>

Close ==
  /\ closed' = TRUE
  /\ UNCHANGED <<queue, task_out, returned>>

Next ==
  \/ \E x \in Task : Push(Planner, x)
  \/ Refuse(Planner)
  \/ \E w \in Workers : Pop(w) \/ Drained(w)
  \/ Close

Spec == Init /\ [][Next]_vars
=============================================================================
