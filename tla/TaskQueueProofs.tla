-------------------------- MODULE TaskQueueProofs --------------------------
(***************************************************************************)
(* The task queue for any number of workers and any capacity: its types,   *)
(* the ring, that no wakeup is lost, and that it implements BoundedFifo.   *)
(*                                                                         *)
(* QueueInv is inductive: the ring needs the types, and NoLostWakeup needs *)
(* the type of the waiting sets to count the awake workers.                *)
(***************************************************************************)
EXTENDS TaskQueue, FiniteSetTheorems, SequenceTheorems, TLAPS

QueueInv == QueueTypeOK /\ RingOK /\ NoLostWakeup

----------------------------------------------------------------------------
(* The arithmetic of the ring *)

\* A position of the ring at most once around needs at most one subtraction.
LEMMA Wrap ==
  ASSUME NEW h \in Slots, NEW i \in 0 .. Capacity
  PROVE  /\ (h + i) % Capacity =
              IF h + i < Capacity THEN h + i ELSE h + i - Capacity
         /\ (h + i) % Capacity \in Slots
<1>1. CASE h + i < Capacity
  <2>1. h + i \in 0 .. Capacity - 1
    BY <1>1, QueueAssumption DEF Slots
  <2>2. (h + i) % Capacity = h + i
    BY <2>1, QueueAssumption, SMT DEF Slots
  <2> QED
    BY <1>1, <2>1, <2>2 DEF Slots
<1>2. CASE ~(h + i < Capacity)
  <2>1. h + i \in Capacity .. 2 * Capacity - 1
    BY <1>2, QueueAssumption DEF Slots
  <2>2. (h + i) % Capacity = h + i - Capacity
    BY <2>1, QueueAssumption, SMT DEF Slots
  <2> QED
    BY <1>2, <2>1, <2>2, QueueAssumption DEF Slots
<1> QED
  BY <1>1, <1>2

\* Two positions less than once around apart are different slots.
LEMMA WrapInjective ==
  ASSUME NEW h \in Slots, NEW i \in 0 .. Capacity - 1,
         NEW j \in 0 .. Capacity - 1, i # j
  PROVE  (h + i) % Capacity # (h + j) % Capacity
<1>1. (h + i) % Capacity =
        IF h + i < Capacity THEN h + i ELSE h + i - Capacity
  BY Wrap, QueueAssumption
<1>2. (h + j) % Capacity =
        IF h + j < Capacity THEN h + j ELSE h + j - Capacity
  BY Wrap, QueueAssumption
<1> QED
  BY <1>1, <1>2, QueueAssumption DEF Slots

\* Moving the head by one is moving every position by one.
LEMMA WrapShift ==
  ASSUME NEW h \in Slots, NEW i \in 0 .. Capacity - 1
  PROVE  (NextSlot(h) + i) % Capacity = (h + (i + 1)) % Capacity
<1>1. /\ NextSlot(h) = IF h + 1 < Capacity THEN h + 1 ELSE h + 1 - Capacity
      /\ NextSlot(h) \in Slots
  BY Wrap, QueueAssumption DEF NextSlot, Slots
<1>2. (NextSlot(h) + i) % Capacity =
        IF NextSlot(h) + i < Capacity THEN NextSlot(h) + i
        ELSE NextSlot(h) + i - Capacity
  BY <1>1, Wrap, QueueAssumption
<1>3. (h + (i + 1)) % Capacity =
        IF h + (i + 1) < Capacity THEN h + (i + 1) ELSE h + (i + 1) - Capacity
  BY Wrap, QueueAssumption
<1> QED
  BY <1>1, <1>2, <1>3, QueueAssumption DEF Slots

----------------------------------------------------------------------------
(* Who is awake *)

\* The workers not asleep are finitely many, and the fewer sleep the more
\* they are.
LEMMA AwakeMonotone ==
  ASSUME NEW S \in SUBSET Workers, NEW T \in SUBSET Workers, S \subseteq T
  PROVE  /\ Cardinality(Workers \ T) \in Nat
         /\ Cardinality(Workers \ T) <= Cardinality(Workers \ S)
<1>1. IsFiniteSet(Workers \ S)
  BY QueueAssumption, FS_Subset
<1>2. Workers \ T \subseteq Workers \ S
  OBVIOUS
<1> QED
  BY <1>1, <1>2, FS_Subset, FS_CardinalityType

\* A signal that reaches a sleeping worker leaves one more awake.
LEMMA AwakeAfterSignal ==
  ASSUME NEW S \in SUBSET Workers, NEW w \in S
  PROVE  Cardinality(Workers \ (S \ {w})) = Cardinality(Workers \ S) + 1
<1>1. IsFiniteSet(Workers \ S)
  BY QueueAssumption, FS_Subset
<1>2. Workers \ (S \ {w}) = (Workers \ S) \cup {w}
  OBVIOUS
<1>3. w \notin Workers \ S
  OBVIOUS
<1> QED
  BY <1>1, <1>2, <1>3, FS_AddElement

----------------------------------------------------------------------------
(* The inductive invariant *)

LEMMA QueueInitInv == QueueInit => QueueInv
<1> SUFFICES ASSUME QueueInit PROVE QueueInv
  OBVIOUS
<1>1. QueueTypeOK
  <2>1. 0 \in Slots /\ 0 \in 0 .. Capacity
    BY QueueAssumption DEF Slots
  <2>2. /\ items \in [Slots -> Task \cup {NoTask}]
        /\ task_out \in [Workers -> Task \cup {NoTask}]
        /\ returned \in [Threads -> Results]
    BY DEF QueueInit, Results
  <2> QED
    BY <2>1, <2>2 DEF QueueInit, QueueTypeOK
<1>2. RingOK
  BY Wrap, QueueAssumption DEF QueueInit, RingOK, Slots
<1>3. NoLostWakeup
  BY DEF QueueInit, NoLostWakeup
<1> QED
  BY <1>1, <1>2, <1>3 DEF QueueInv

LEMMA PushStoreInv ==
  ASSUME QueueInv, NEW x \in Task, PushStore(Planner, x)
  PROVE  QueueInv'
<1> USE QueueAssumption
<1>1. /\ count \in 0 .. Capacity - 1
      /\ count' = count + 1
      /\ head' = head
      /\ head \in Slots
      /\ tail \in Slots
      /\ shutdown' = shutdown
      /\ not_full' = not_full
      /\ items' = [items EXCEPT ![tail] = x]
  BY DEF PushStore, QueueInv, QueueTypeOK
<1>2. tail' = NextSlot(tail) /\ tail' \in Slots
  BY <1>1, Wrap DEF PushStore, NextSlot
<1>3. not_empty' \subseteq not_empty
  BY DEF PushStore, Signalled
<1>4. QueueTypeOK'
  BY <1>1, <1>2, <1>3
  DEF PushStore, QueueInv, QueueTypeOK, Results, Threads
<1>5. RingOK'
  <2>1. tail = (head + count) % Capacity
    BY DEF QueueInv, RingOK
  <2>2. tail' = (head' + count') % Capacity
    <3>1. (head + count) % Capacity =
            IF head + count < Capacity THEN head + count
            ELSE head + count - Capacity
      BY <1>1, Wrap
    <3>2. tail' = IF tail + 1 < Capacity THEN tail + 1 ELSE tail + 1 - Capacity
      BY <1>1, <1>2, Wrap DEF NextSlot
    <3>3. (head + (count + 1)) % Capacity =
            IF head + (count + 1) < Capacity THEN head + (count + 1)
            ELSE head + (count + 1) - Capacity
      BY <1>1, Wrap
    <3> QED
      BY <1>1, <2>1, <3>1, <3>2, <3>3 DEF Slots
  <2>3. ASSUME NEW i \in 0 .. count' - 1
        PROVE  items'[(head' + i) % Capacity] \in Task
    <3>1. (head + i) % Capacity \in Slots
      BY <1>1, Wrap
    <3>2. CASE i = count
      BY <1>1, <2>1, <3>2 DEF QueueInv, QueueTypeOK
    <3>3. CASE i # count
      <4>1. i \in 0 .. count - 1
        BY <1>1, <3>3
      <4>2. (head + i) % Capacity # (head + count) % Capacity
        BY <1>1, <3>3, <4>1, WrapInjective
      <4> QED
        BY <1>1, <2>1, <3>1, <4>1, <4>2 DEF QueueInv, QueueTypeOK, RingOK
    <3> QED
      BY <3>2, <3>3
  <2> QED
    BY <2>2, <2>3 DEF RingOK
<1>6. NoLostWakeup'
  <2>1. not_full = {}
    BY <1>1 DEF QueueInv, NoLostWakeup
  <2>2. ASSUME not_empty' # {}
        PROVE  ~shutdown' /\ count' <= Cardinality(Workers \ not_empty')
    <3>1. PICK w \in not_empty : not_empty' = not_empty \ {w}
      BY <2>2 DEF PushStore, Signalled
    <3>2. ~shutdown /\ count <= Cardinality(Workers \ not_empty)
      BY <3>1 DEF QueueInv, NoLostWakeup
    <3>3. not_empty \in SUBSET Workers
      BY DEF QueueInv, QueueTypeOK
    <3>4. /\ Cardinality(Workers \ not_empty') =
               Cardinality(Workers \ not_empty) + 1
          /\ Cardinality(Workers \ not_empty) \in Nat
      BY <3>1, <3>3, AwakeAfterSignal, AwakeMonotone
    <3> QED
      BY <1>1, <3>2, <3>4
  <2> QED
    BY <1>1, <2>1, <2>2 DEF NoLostWakeup
<1> QED
  BY <1>4, <1>5, <1>6 DEF QueueInv

LEMMA PopTakeInv ==
  ASSUME QueueInv, NEW w \in Workers, PopTake(w)
  PROVE  QueueInv'
<1> USE QueueAssumption
<1>1. /\ count \in 1 .. Capacity
      /\ count' = count - 1
      /\ head \in Slots
      /\ tail \in Slots
      /\ items' = items
      /\ tail' = tail
      /\ shutdown' = shutdown
      /\ not_empty' = not_empty
  BY DEF PopTake, QueueInv, QueueTypeOK
<1>2. head' = NextSlot(head) /\ head' \in Slots
  BY <1>1, Wrap DEF PopTake, NextSlot
<1>3. not_full' = {}
  BY DEF PopTake, Signalled, QueueInv, QueueTypeOK
<1>4. QueueTypeOK'
  BY <1>1, <1>2, <1>3
  DEF PopTake, QueueInv, QueueTypeOK, Results, Threads
<1>5. RingOK'
  <2>1. tail' = (head' + count') % Capacity
    BY <1>1, <1>2, WrapShift DEF QueueInv, RingOK
  <2>2. ASSUME NEW i \in 0 .. count' - 1
        PROVE  items'[(head' + i) % Capacity] \in Task
    <3>1. (head' + i) % Capacity = (head + (i + 1)) % Capacity
      BY <1>1, <1>2, WrapShift
    <3>2. i + 1 \in 0 .. count - 1
      BY <1>1
    <3> QED
      BY <1>1, <3>1, <3>2 DEF QueueInv, RingOK
  <2> QED
    BY <2>1, <2>2 DEF RingOK
<1>6. NoLostWakeup'
  <2>1. Cardinality(Workers \ not_empty) \in Nat
    BY AwakeMonotone DEF QueueInv, QueueTypeOK
  <2> QED
    BY <1>1, <1>3, <2>1 DEF QueueInv, NoLostWakeup
<1> QED
  BY <1>4, <1>5, <1>6 DEF QueueInv

\* The steps that leave the ring alone.
LEMMA OtherStepInv ==
  ASSUME QueueInv, NEW t \in Threads,
         \/ t = Planner /\ (PushBlock(t) \/ PushCanceled(t))
         \/ t \in Workers /\ (PopBlock(t) \/ PopDrained(t))
         \/ QueueShutdown(t)
         \/ SpuriousWakeup(t)
         \/ UNCHANGED queueVars
  PROVE  QueueInv'
<1>1. /\ UNCHANGED <<items, head, tail, count>>
      /\ QueueTypeOK'
  BY DEF QueueInv, QueueTypeOK, PushBlock, PushCanceled, PopBlock, PopDrained,
         QueueShutdown, SpuriousWakeup, Broadcast, queueVars, Threads, Results
<1>2. RingOK'
  BY <1>1 DEF QueueInv, RingOK
<1>3. NoLostWakeup'
  <2>1. CASE PushBlock(t)
    BY <2>1 DEF PushBlock, QueueInv, NoLostWakeup
  <2>2. CASE PopBlock(t)
    <3>1. not_empty' \in SUBSET Workers
      BY <1>1 DEF QueueTypeOK
    <3>2. /\ Cardinality(Workers \ not_empty') \in Nat
      BY <3>1, AwakeMonotone
    <3> QED
      BY <2>2, <3>2 DEF PopBlock, QueueInv, NoLostWakeup
  <2>3. CASE QueueShutdown(t)
    BY <2>3 DEF QueueShutdown, Broadcast, NoLostWakeup
  <2>4. CASE SpuriousWakeup(t)
    <3>1. /\ not_empty \in SUBSET Workers
          /\ not_empty' \in SUBSET Workers
          /\ not_empty' \subseteq not_empty
          /\ count \in Nat
      BY <1>1, <2>4 DEF SpuriousWakeup, QueueInv, QueueTypeOK
    <3>2. /\ Cardinality(Workers \ not_empty) \in Nat
          /\ Cardinality(Workers \ not_empty') \in Nat
          /\ Cardinality(Workers \ not_empty) <=
               Cardinality(Workers \ not_empty')
      BY <3>1, AwakeMonotone
    <3> QED
      BY <2>4, <3>1, <3>2 DEF SpuriousWakeup, QueueInv, NoLostWakeup
  <2>5. CASE UNCHANGED <<items, head, tail, count, shutdown, not_empty,
                         not_full>>
    BY <2>5 DEF QueueInv, NoLostWakeup
  <2> QED
    BY <2>1, <2>2, <2>3, <2>4, <2>5 DEF PushCanceled, PopDrained, queueVars
<1> QED
  BY <1>1, <1>2, <1>3 DEF QueueInv

LEMMA QueueStepInv == QueueInv /\ [QueueNext]_queueVars => QueueInv'
<1> SUFFICES ASSUME QueueInv, [QueueNext]_queueVars PROVE QueueInv'
  OBVIOUS
<1>1. ASSUME NEW x \in Task, PushStore(Planner, x) PROVE QueueInv'
  BY <1>1, PushStoreInv
<1>2. ASSUME NEW w \in Workers, PopTake(w) PROVE QueueInv'
  BY <1>2, PopTakeInv
<1>3. CASE PushBlock(Planner) \/ PushCanceled(Planner) \/ UNCHANGED queueVars
  BY <1>3, OtherStepInv DEF Threads
<1>4. ASSUME NEW w \in Workers, PopBlock(w) \/ PopDrained(w) PROVE QueueInv'
  BY <1>4, OtherStepInv DEF Threads
<1>5. ASSUME NEW t \in Threads, QueueShutdown(t) \/ SpuriousWakeup(t)
      PROVE QueueInv'
  BY <1>5, OtherStepInv
<1> QED
  BY <1>1, <1>2, <1>3, <1>4, <1>5 DEF QueueNext

\* Together: the ring indices stay consistent and no wakeup is lost, for any
\* number of workers, any capacity and any client.
THEOREM QueueInvariant == QueueSpec => []QueueInv
<1>1. QueueInit => QueueInv
  BY QueueInitInv
<1>2. QueueInv /\ [QueueNext]_queueVars => QueueInv'
  BY QueueStepInv
<1> QED
  BY <1>1, <1>2, PTL DEF QueueSpec

\* The variables of the queue keep their types.
THEOREM QueueTypeCorrect == QueueSpec => []QueueTypeOK
BY QueueInvariant, PTL DEF QueueInv

\* head, tail and count always delimit exactly the tasks pushed and not yet
\* popped, around the end of a ring of any capacity.
THEOREM RingCorrect == QueueSpec => []RingOK
BY QueueInvariant, PTL DEF QueueInv

\* No wakeup is lost: with any number of workers, a queued task has an awake
\* worker, and a planner asleep a full queue.
THEOREM NoLostWakeupEver == QueueSpec => []NoLostWakeup
BY QueueInvariant, PTL DEF QueueInv

----------------------------------------------------------------------------
(* The ring holds a FIFO *)

BufferedOK ==
  /\ Buffered \in Seq(Task)
  /\ Len(Buffered) = count
  /\ \A i \in 1 .. count : Buffered[i] = items[(head + i - 1) % Capacity]

LEMMA BufferedSeq == QueueInv => BufferedOK
<1> SUFFICES ASSUME QueueInv PROVE BufferedOK
  OBVIOUS
<1>1. count \in Nat /\ head \in Nat
  BY QueueAssumption DEF QueueInv, QueueTypeOK, Slots
<1>2. ASSUME NEW i \in 1 .. count
      PROVE  items[(head + i - 1) % Capacity] \in Task
  <2>1. i - 1 \in 0 .. count - 1 /\ head + i - 1 = head + (i - 1)
    BY <1>1
  <2> QED
    BY <2>1 DEF QueueInv, RingOK
<1>3. Buffered \in [1 .. count -> Task]
  BY <1>2 DEF Buffered
<1>4. Buffered \in Seq(Task)
  BY <1>1, <1>3, SeqDef
<1>5. Len(Buffered) = count
  BY <1>1, <1>3, <1>4, LenProperties
<1> QED
  BY <1>4, <1>5 DEF Buffered, BufferedOK

\* A push appends to what the ring holds.
LEMMA PushAppends ==
  ASSUME QueueInv, NEW x \in Task, PushStore(Planner, x)
  PROVE  Buffered' = Append(Buffered, x)
<1>1. QueueInv'
  BY PushStoreInv
<1>2. /\ count \in 0 .. Capacity - 1
      /\ count' = count + 1
      /\ head' = head
      /\ head \in Slots
      /\ items' = [items EXCEPT ![tail] = x]
      /\ items \in [Slots -> Task \cup {NoTask}]
      /\ tail = (head + count) % Capacity
      /\ tail \in Slots
  BY QueueAssumption DEF PushStore, QueueInv, QueueTypeOK, RingOK
<1>3. /\ Buffered' \in Seq(Task)
      /\ Len(Buffered') = count + 1
      /\ \A i \in 1 .. count + 1 :
           Buffered'[i] = items'[(head + i - 1) % Capacity]
  <2>1. /\ Buffered' \in Seq(Task)
        /\ Len(Buffered') = count'
        /\ \A i \in 1 .. count' :
             Buffered'[i] = items'[(head' + i - 1) % Capacity]
    <3>1. BufferedOK'
      BY <1>1, BufferedSeq, PTL
    <3> QED
      BY <3>1 DEF BufferedOK
  <2> QED
    BY <1>2, <2>1
<1>4. /\ Append(Buffered, x) \in Seq(Task)
      /\ Len(Append(Buffered, x)) = count + 1
      /\ \A i \in 1 .. count : Append(Buffered, x)[i] = Buffered[i]
      /\ Append(Buffered, x)[count + 1] = x
  BY <1>2, BufferedSeq, AppendProperties DEF BufferedOK
<1>5. ASSUME NEW i \in 1 .. count + 1
      PROVE  Buffered'[i] = Append(Buffered, x)[i]
  <2>1. PICK k \in 0 .. Capacity - 1 : k = i - 1 /\ head + i - 1 = head + k
    <3>1. i - 1 \in 0 .. Capacity - 1 /\ head + i - 1 = head + (i - 1)
      BY <1>2, QueueAssumption DEF Slots
    <3> QED
      BY <3>1
  <2>2. (head + k) % Capacity \in Slots
    <3>1. head \in Slots /\ k \in 0 .. Capacity
      BY <1>2, <2>1, QueueAssumption
    <3> QED
      BY <3>1, Wrap
  <2>3. CASE i = count + 1
    <3>1. head + i - 1 = head + count
      BY <1>2, <2>3 DEF Slots
    <3>2. Buffered'[i] = items'[tail]
      BY <1>2, <1>3, <3>1
    <3> QED
      BY <1>2, <1>4, <2>3, <3>2
  <2>4. CASE i # count + 1
    <3>1. i \in 1 .. count /\ k # count
      BY <1>2, <2>1, <2>4
    <3>2. (head + k) % Capacity # (head + count) % Capacity
      BY <1>2, <3>1, WrapInjective
    <3>3. Buffered'[i] = items[(head + i - 1) % Capacity]
      BY <1>2, <1>3, <2>1, <2>2, <3>2
    <3> QED
      BY <1>4, <3>1, <3>3, BufferedSeq DEF BufferedOK
  <2> QED
    BY <2>3, <2>4
<1> QED
  BY <1>2, <1>3, <1>4, <1>5, SeqEqual

\* A pop takes the head of what the ring holds.
LEMMA PopTakesHead ==
  ASSUME QueueInv, NEW w \in Workers, PopTake(w)
  PROVE  /\ Buffered # <<>>
         /\ items[head] = Head(Buffered)
         /\ Buffered' = Tail(Buffered)
<1>1. QueueInv'
  BY PopTakeInv
<1>2. /\ count \in 1 .. Capacity
      /\ count' = count - 1
      /\ head' = NextSlot(head)
      /\ head \in Slots
      /\ items' = items
  BY QueueAssumption DEF PopTake, QueueInv, QueueTypeOK
<1>3. /\ Buffered' \in Seq(Task)
      /\ Len(Buffered') = count - 1
      /\ \A i \in 1 .. count - 1 :
           Buffered'[i] = items[(NextSlot(head) + i - 1) % Capacity]
  <2>1. /\ Buffered' \in Seq(Task)
        /\ Len(Buffered') = count'
        /\ \A i \in 1 .. count' :
             Buffered'[i] = items'[(head' + i - 1) % Capacity]
    <3>1. BufferedOK'
      BY <1>1, BufferedSeq, PTL
    <3> QED
      BY <3>1 DEF BufferedOK
  <2> QED
    BY <1>2, <2>1
<1>4. Buffered # <<>>
  BY <1>2, BufferedSeq, EmptySeq DEF BufferedOK
<1>5. items[head] = Head(Buffered)
  <2>1. Head(Buffered) = Buffered[1]
    BY <1>4, BufferedSeq DEF BufferedOK
  <2>2. Buffered[1] = items[(head + 1 - 1) % Capacity]
    BY <1>2, BufferedSeq DEF BufferedOK
  <2>3. head + 1 - 1 = head
    BY <1>2 DEF Slots
  <2>4. head % Capacity = head
    BY <1>2, QueueAssumption, SMT DEF Slots
  <2> QED
    BY <2>1, <2>2, <2>3, <2>4
<1>6. /\ Tail(Buffered) \in Seq(Task)
      /\ Len(Tail(Buffered)) = count - 1
      /\ \A i \in 1 .. count - 1 : Tail(Buffered)[i] = Buffered[i + 1]
  BY <1>2, <1>4, BufferedSeq, HeadTailProperties DEF BufferedOK
<1>7. ASSUME NEW i \in 1 .. count - 1
      PROVE  Buffered'[i] = Tail(Buffered)[i]
  <2>1. NextSlot(head) \in Slots
    BY <1>2, Wrap, QueueAssumption DEF NextSlot
  <2>2. /\ NextSlot(head) + i - 1 = NextSlot(head) + (i - 1)
        /\ head + (i + 1) - 1 = head + ((i - 1) + 1)
        /\ i - 1 \in 0 .. Capacity - 1
        /\ i + 1 \in 1 .. count
    BY <1>2, <2>1, QueueAssumption DEF Slots
  <2>3. (NextSlot(head) + (i - 1)) % Capacity =
          (head + ((i - 1) + 1)) % Capacity
    BY <1>2, <2>2, WrapShift
  <2>4. Buffered[i + 1] = items[(head + (i + 1) - 1) % Capacity]
    BY <2>2, BufferedSeq DEF BufferedOK
  <2> QED
    BY <1>3, <1>6, <2>2, <2>3, <2>4
<1>8. Buffered' = Tail(Buffered)
  BY <1>3, <1>6, <1>7, SeqEqual
<1> QED
  BY <1>4, <1>5, <1>8

----------------------------------------------------------------------------
(* The ring implements BoundedFifo *)

LEMMA FifoInit == QueueInit => Fifo!Init
<1> SUFFICES ASSUME QueueInit PROVE Fifo!Init
  OBVIOUS
<1>1. Buffered = <<>>
  BY DEF QueueInit, Buffered
<1> QED
  BY <1>1 DEF QueueInit, Fifo!Init, Threads

\* Every step of the queue is a step of the FIFO, or changes nothing of it.
LEMMA FifoStep ==
  QueueInv /\ [QueueNext]_queueVars => [Fifo!Next]_(Fifo!vars)
<1> SUFFICES ASSUME QueueInv, [QueueNext]_queueVars
             PROVE  [Fifo!Next]_(Fifo!vars)
  OBVIOUS
<1>1. UNCHANGED <<items, head, count>> => Buffered' = Buffered
  BY DEF Buffered
<1>2. ASSUME NEW x \in Task, PushStore(Planner, x)
      PROVE  Fifo!Push(Planner, x)
  <2>1. count \in 0 .. Capacity - 1
    BY <1>2, QueueAssumption DEF PushStore, QueueInv, QueueTypeOK
  <2>2. Len(Buffered) < Capacity
    BY <2>1, BufferedSeq, QueueAssumption DEF BufferedOK
  <2>3. Buffered' = Append(Buffered, x)
    BY <1>2, PushAppends
  <2> QED
    BY <1>2, <2>2, <2>3 DEF PushStore, Fifo!Push
<1>3. ASSUME NEW w \in Workers, PopTake(w)
      PROVE  Fifo!Pop(w)
  BY <1>3, PopTakesHead DEF PopTake, Fifo!Pop
<1>4. ASSUME PushCanceled(Planner)
      PROVE  Fifo!Refuse(Planner)
  BY <1>1, <1>4 DEF PushCanceled, Fifo!Refuse
<1>5. ASSUME NEW w \in Workers, PopDrained(w)
      PROVE  Fifo!Drained(w)
  <2>1. Buffered = <<>>
    BY <1>5, BufferedSeq, EmptySeq DEF PopDrained, BufferedOK
  <2> QED
    BY <1>1, <1>5, <2>1 DEF PopDrained, Fifo!Drained
<1>6. ASSUME NEW t \in Threads, QueueShutdown(t)
      PROVE  Fifo!Close
  BY <1>1, <1>6 DEF QueueShutdown, Fifo!Close
<1>7. ASSUME UNCHANGED <<items, head, count, shutdown, task_out, returned>>
      PROVE  UNCHANGED Fifo!vars
  BY <1>1, <1>7 DEF Fifo!vars
<1>8. CASE PushBlock(Planner) \/ (\E w \in Workers : PopBlock(w))
           \/ (\E t \in Threads : SpuriousWakeup(t)) \/ UNCHANGED queueVars
  BY <1>7, <1>8 DEF PushBlock, PopBlock, SpuriousWakeup, queueVars
<1> QED
  BY <1>2, <1>3, <1>4, <1>5, <1>6, <1>8 DEF QueueNext, Fifo!Next

\* For any number of workers and any capacity, the ring with its mutex and
\* conditions is a closable bounded FIFO.
THEOREM QueueImplementsFifo == QueueSpec => ImplementsBoundedFifo
<1>1. QueueInit => Fifo!Init
  BY FifoInit
<1>2. QueueInv /\ [QueueNext]_queueVars => [Fifo!Next]_(Fifo!vars)
  BY FifoStep
<1> QED
  BY <1>1, <1>2, QueueInvariant, PTL
  DEF QueueSpec, ImplementsBoundedFifo, Fifo!Spec
=============================================================================
