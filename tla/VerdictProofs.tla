-------------------------- MODULE VerdictProofs --------------------------
(***************************************************************************)
(* What plan_and_compare reports, for any number of workers, any capacity, *)
(* any pair of trees and any failures: the views of the result set agree   *)
(* at every moment, planner, queue and workers together implement          *)
(* Comparison, and a run that returns 0 has the complete report.           *)
(*                                                                         *)
(* The heart is WorkApart: a path is in one place at a time - still to be  *)
(* met by a loop, about to be enqueued, in the ring, or in the hands of a  *)
(* worker - and a path with a record is in none of them.                   *)
(***************************************************************************)
EXTENDS PlanAndCompareProofs

----------------------------------------------------------------------------
(* Sequences without repetition *)

Members(s) == {s[i] : i \in 1 .. Len(s)}

Distinct(s) == \A i, j \in 1 .. Len(s) : s[i] = s[j] => i = j

LEMMA AppendDistinct ==
  ASSUME NEW T, NEW s \in Seq(T), NEW x \in T
  PROVE  /\ Members(Append(s, x)) = Members(s) \cup {x}
         /\ Distinct(s) /\ x \notin Members(s) => Distinct(Append(s, x))
<1>1. /\ Len(Append(s, x)) = Len(s) + 1
      /\ Append(s, x)[Len(s) + 1] = x
      /\ \A i \in 1 .. Len(s) : Append(s, x)[i] = s[i]
      /\ Len(s) \in Nat
  BY AppendProperties
<1> DEFINE t == Append(s, x)
<1> HIDE DEF t
<1>2. /\ Len(t) = Len(s) + 1
      /\ t[Len(s) + 1] = x
      /\ \A i \in 1 .. Len(s) : t[i] = s[i]
      /\ Len(s) \in Nat
  BY <1>1 DEF t
<1>3. \A i : i \in 1 .. Len(t) <=> i \in 1 .. Len(s) \/ i = Len(s) + 1
  BY <1>2
<1>4. Members(t) = Members(s) \cup {x}
  BY <1>2, <1>3 DEF Members
<1>5. ASSUME Distinct(s), x \notin Members(s)
      PROVE  Distinct(t)
  BY <1>2, <1>3, <1>5 DEF Distinct, Members
<1> QED BY <1>4, <1>5 DEF t

LEMMA TailDistinct ==
  ASSUME NEW T, NEW s \in Seq(T), s # <<>>, Distinct(s)
  PROVE  /\ Head(s) \in Members(s)
         /\ Members(Tail(s)) = Members(s) \ {Head(s)}
         /\ Distinct(Tail(s))
<1>1. /\ Len(Tail(s)) = Len(s) - 1
      /\ \A i \in 1 .. Len(s) - 1 : Tail(s)[i] = s[i + 1]
      /\ Len(s) \in Nat \ {0}
      /\ Head(s) = s[1]
  BY HeadTailProperties, EmptySeq
<1> DEFINE t == Tail(s)
<1> HIDE DEF t
<1>2. /\ Len(t) = Len(s) - 1
      /\ \A i \in 1 .. Len(s) - 1 : t[i] = s[i + 1]
      /\ Len(s) \in Nat \ {0}
  BY <1>1 DEF t
<1>3. Distinct(t)
  BY <1>2 DEF Distinct
<1>4. s[1] \in Members(s)
  BY <1>2 DEF Members
<1>5. Members(t) = Members(s) \ {s[1]}
  <2>1. ASSUME NEW i \in 1 .. Len(t)
        PROVE  t[i] \in Members(s) \ {s[1]}
    <3>1. i + 1 \in 1 .. Len(s) /\ i + 1 # 1 /\ 1 \in 1 .. Len(s) /\ t[i] = s[i + 1]
      BY <1>2
    <3> QED BY <3>1 DEF Members, Distinct
  <2>2. ASSUME NEW i \in 1 .. Len(s), s[i] # s[1]
        PROVE  s[i] \in Members(t)
    <3>1. i - 1 \in 1 .. Len(t) /\ t[i - 1] = s[i]
      BY <1>2, <2>2
    <3> QED BY <3>1 DEF Members
  <2> QED BY <2>1, <2>2 DEF Members
<1> QED BY <1>1, <1>3, <1>4, <1>5 DEF t

----------------------------------------------------------------------------
(* The result set *)

Reported == {records[i] : i \in 1 .. Len(records)}

OfType(c) == {i \in 1 .. Len(records) : records[i].type = c}

\* A record of a path that has none keeps the three views in step.
LEMMA PushKeepsViews ==
  ASSUME ResultTypeOK, ReportConsistent, input' = input,
         NEW rec \in ChangeRecord, rec.path \notin DOMAIN ordered,
         ResultPush(rec)
  PROVE  /\ ResultTypeOK'
         /\ ReportConsistent'
         /\ DOMAIN ordered' = DOMAIN ordered \cup {rec.path}
         /\ Reported' = Reported \cup {rec}
         /\ tally' = [tally EXCEPT ![rec.type] = @ + 1]
<1> DEFINE n == Len(records)
<1>1. /\ records \in Seq(ChangeRecord)
      /\ n \in Nat
      /\ record_capacity \in Nat
      /\ n <= record_capacity
      /\ tally \in [ChangeType -> Nat]
      /\ DOMAIN ordered \subseteq Path
      /\ \A p \in DOMAIN ordered : ordered[p] \in 1 .. n
  BY DEF ResultTypeOK
<1>2. /\ records' \in Seq(ChangeRecord)
      /\ Len(records') = n + 1
      /\ records'[n + 1] = rec
      /\ \A i \in 1 .. n : records'[i] = records[i]
  BY <1>1, AppendProperties DEF ResultPush
<1>3. /\ DOMAIN ordered' = DOMAIN ordered \cup {rec.path}
      /\ ordered'[rec.path] = n + 1
      /\ \A p \in DOMAIN ordered : ordered'[p] = ordered[p]
  BY DEF ResultPush, Indexed
<1>4. /\ tally' = [tally EXCEPT ![rec.type] = @ + 1]
      /\ rec.type \in ChangeType
      /\ rec.path \in Path
  BY DEF ResultPush, Counted, ChangeRecord
<1>5. record_capacity' \in Nat /\ n + 1 <= record_capacity'
  BY <1>1, ResultSetAssumption DEF ResultPush, GrownCapacity
<1> HIDE DEF n
<1>6. ResultTypeOK'
  <2>1. \A p \in DOMAIN ordered' : ordered'[p] \in 1 .. n + 1
    BY <1>1, <1>3
  <2> QED BY <1>1, <1>2, <1>3, <1>4, <1>5, <2>1 DEF ResultTypeOK
<1>7. Reported' = Reported \cup {rec}
  <2>1. \A i : i \in 1 .. n + 1 <=> i \in 1 .. n \/ i = n + 1
    BY <1>1
  <2> QED BY <1>2, <2>1 DEF Reported, n
<1>8. ReportConsistent'
  <2>1. \A p \in DOMAIN ordered : records[ordered[p]].path = p
    BY DEF ReportConsistent
  <2>2. {ordered[p] : p \in DOMAIN ordered} = 1 .. n
    BY DEF ReportConsistent, n
  <2>3. \A p \in DOMAIN ordered' : records'[ordered'[p]].path = p
    BY <1>1, <1>2, <1>3, <2>1
  <2>4. {ordered'[p] : p \in DOMAIN ordered'} = 1 .. n + 1
    <3>1. {ordered'[p] : p \in DOMAIN ordered'} =
            {ordered[p] : p \in DOMAIN ordered} \cup {n + 1}
      BY <1>3
    <3>2. 1 .. n + 1 = (1 .. n) \cup {n + 1}
      BY <1>1
    <3> QED BY <2>2, <3>1, <3>2
  <2>5. ASSUME NEW c \in ChangeType
        PROVE  \/ tally'[c] = Cardinality(OfType(c)')
               \/ c = "UNCHANGED" /\ ~input'.include_unchanged
    <3>1. \/ tally[c] = Cardinality(OfType(c))
          \/ c = "UNCHANGED" /\ ~input.include_unchanged
      BY DEF ReportConsistent, OfType
    <3>2. IsFiniteSet(OfType(c)) /\ Cardinality(OfType(c)) \in Nat
      <4>1. IsFiniteSet(1 .. n)
        BY <1>1, FS_Interval
      <4>2. OfType(c) \in SUBSET (1 .. n)
        BY DEF OfType, n
      <4> QED BY <4>1, <4>2, FS_Subset, FS_CardinalityType
    <3>3. CASE c = rec.type
      <4>1. OfType(c)' = OfType(c) \cup {n + 1} /\ n + 1 \notin OfType(c)
        BY <1>1, <1>2, <3>3 DEF OfType, n
      <4> DEFINE S == OfType(c)
      <4> HIDE DEF S
      <4>2. Cardinality(S \cup {n + 1}) = Cardinality(S) + 1
        BY <3>2, <4>1, FS_AddElement DEF S
      <4>3. tally'[c] = tally[c] + 1
        BY <1>1, <1>4, <3>3
      <4> QED BY <3>1, <4>1, <4>2, <4>3 DEF S
    <3>4. CASE c # rec.type
      <4>1. OfType(c)' = OfType(c)
        BY <1>1, <1>2, <3>4 DEF OfType, n
      <4>2. tally'[c] = tally[c]
        BY <1>1, <1>4, <3>4
      <4> QED BY <3>1, <4>1, <4>2
    <3> QED BY <3>3, <3>4
  <2> QED BY <1>2, <2>3, <2>4, <2>5 DEF ReportConsistent, OfType
<1> QED BY <1>3, <1>4, <1>6, <1>7, <1>8

\* A push that fails leaves them as they were.
LEMMA FailedPushKeepsViews ==
  ASSUME ResultTypeOK, ReportConsistent, input' = input,
         NEW rec \in ChangeRecord,
         ResultPushNoArray \/ ResultPushNoNode(rec)
  PROVE  /\ ResultTypeOK'
         /\ ReportConsistent'
         /\ UNCHANGED <<ordered, records, tally>>
<1>1. UNCHANGED <<ordered, records, tally>>
  <2>1. CASE ResultPushNoArray
    BY <2>1 DEF ResultPushNoArray, resultVars
  <2>2. CASE ResultPushNoNode(rec)
    <3>1. tally \in [ChangeType -> Nat] /\ rec.type \in ChangeType
      BY DEF ResultTypeOK, ChangeRecord
    <3> DEFINE more == Counted(tally, rec.type)
               less == RolledBack(more, rec.type)
    <3>2. /\ more \in [ChangeType -> Nat]
          /\ more[rec.type] = tally[rec.type] + 1
          /\ \A c \in ChangeType : c # rec.type => more[c] = tally[c]
      BY <3>1 DEF Counted
    <3> HIDE DEF more
    <3>3. less = [more EXCEPT ![rec.type] = more[rec.type] - 1]
      BY DEF RolledBack
    <3>4. more[rec.type] - 1 = tally[rec.type]
      BY <3>1, <3>2
    <3>5. less = [c \in ChangeType |-> tally[c]]
      BY <3>1, <3>2, <3>3, <3>4
    <3>6. tally = [c \in ChangeType |-> tally[c]]
      BY <3>1
    <3> HIDE DEF less
    <3>7. less = tally
      BY <3>5, <3>6
    <3> QED BY <2>2, <3>7 DEF ResultPushNoNode, less, more
  <2> QED BY <2>1, <2>2
<1>2. record_capacity' \in Nat /\ Len(records) <= record_capacity'
  <2>1. CASE ResultPushNoArray
    BY <2>1 DEF ResultPushNoArray, resultVars, ResultTypeOK
  <2>2. CASE ResultPushNoNode(rec)
    <3>1. Len(records) \in Nat /\ record_capacity \in Nat
          /\ Len(records) <= record_capacity
      BY DEF ResultTypeOK
    <3> QED BY <2>2, <3>1, ResultSetAssumption DEF ResultPushNoNode, GrownCapacity
  <2> QED BY <2>1, <2>2
<1>3. ResultTypeOK'
  BY <1>1, <1>2 DEF ResultTypeOK
<1>4. ReportConsistent'
  BY <1>1 DEF ReportConsistent
<1> QED BY <1>1, <1>3, <1>4

LEMMA QuietKeepsViews ==
  ASSUME ResultTypeOK, ReportConsistent, UNCHANGED <<resultVars, input>>
  PROVE  ResultTypeOK' /\ ReportConsistent'
BY DEF ResultTypeOK, ReportConsistent, resultVars

\* Counting an unchanged file that is not to be listed.
LEMMA NoteKeepsViews ==
  ASSUME ResultTypeOK, ReportConsistent, input' = input,
         ~input.include_unchanged, ResultNote("UNCHANGED")
  PROVE  /\ ResultTypeOK'
         /\ ReportConsistent'
         /\ UNCHANGED <<ordered, records>>
         /\ tally' = [tally EXCEPT !["UNCHANGED"] = @ + 1]
<1>1. /\ UNCHANGED <<ordered, records, record_capacity>>
      /\ tally' = [tally EXCEPT !["UNCHANGED"] = @ + 1]
  BY DEF ResultNote, Counted
<1>2. tally \in [ChangeType -> Nat] /\ "UNCHANGED" \in ChangeType
  BY DEF ResultTypeOK, ChangeType
<1>3. tally' \in [ChangeType -> Nat]
      /\ \A c \in ChangeType : c # "UNCHANGED" => tally'[c] = tally[c]
  BY <1>1, <1>2
<1> QED BY <1>1, <1>3 DEF ResultTypeOK, ReportConsistent

----------------------------------------------------------------------------
(* Types *)

PlanTypeOK ==
  /\ input \in Inputs
  /\ pc \in PlannerLabels
  /\ todo_a \subseteq DOMAIN input.index_a
  /\ todo_b \subseteq DOMAIN input.index_b
  /\ cur \in Path \cup {NoTask}
  /\ rc \in Codes
  /\ wpc \in [Workers -> WorkerLabels]
  /\ wrc \in [Workers -> Codes]
  /\ first_error \in Codes
  /\ faults \in 0 .. MaxFaults

LEMMA FaultTyped ==
  ASSUME PlanTypeOK, Fault
  PROVE  faults' \in 0 .. MaxFaults
BY PoolAssumption DEF PlanTypeOK, Fault

LEMMA WorkerTyped ==
  ASSUME PlanTypeOK, NEW w \in Workers, NEW l \in WorkerLabels,
         wpc' = [wpc EXCEPT ![w] = l]
  PROVE  wpc' \in [Workers -> WorkerLabels]
BY DEF PlanTypeOK

LEMMA PlannerTyped ==
  ASSUME PlanTypeOK, PlannerStep
  PROVE  PlanTypeOK'
<1>1. CASE Setup \/ SetupFails \/ CreateFails \/ AbandonPool
  BY <1>1, FaultTyped
  DEF PlanTypeOK, Setup, SetupFails, CreateFails, AbandonPool, PlannerGoes,
      workVars, PlannerLabels, Codes
<1>2. ASSUME NEW w \in Workers, CreateWorker(w)
      PROVE  PlanTypeOK'
  <2>1. wpc' \in [Workers -> WorkerLabels]
    BY <1>2, WorkerTyped DEF CreateWorker, WorkerGoes, WorkerLabels
  <2>2. pc' \in PlannerLabels
    BY <1>2 DEF CreateWorker, PlannerGoes, PlannerLabels
  <2> QED BY <1>2, <2>1, <2>2 DEF PlanTypeOK, CreateWorker
<1>3. ASSUME NEW p \in Path, Removed(p) \/ Resized(p) \/ Added(p)
      PROVE  PlanTypeOK'
  <2>1. /\ UNCHANGED <<input, cur, wpc, wrc, first_error>>
        /\ todo_a' \subseteq todo_a /\ todo_b' \subseteq todo_b
    BY <1>3 DEF Removed, Resized, Added, workVars
  <2>2. \/ UNCHANGED <<pc, rc, faults>>
        \/ pc' = "shutdown" /\ rc' = "ENOMEM" /\ Fault
    BY <1>3 DEF Removed, Resized, Added, PlannerRecords
  <2> QED BY <2>1, <2>2, FaultTyped DEF PlanTypeOK, PlannerLabels, Codes
<1>4. ASSUME NEW p \in Path, Candidate(p) \/ Met(p)
      PROVE  PlanTypeOK'
  BY <1>4
  DEF PlanTypeOK, Candidate, Met, PlannerGoes, workVars, PlannerLabels
<1>5. CASE EnqueueBlocks \/ Enqueue \/ EnqueueCanceled
  BY <1>5
  DEF PlanTypeOK, EnqueueBlocks, Enqueue, EnqueueCanceled, PlannerGoes,
      workVars, planVars, PlannerLabels, Codes
<1>6. CASE LoopADone \/ LoopBDone \/ Shutdown \/ Join \/ Collect
  BY <1>6
  DEF PlanTypeOK, LoopADone, LoopBDone, Shutdown, Join, Collect, Outcome,
      PlannerGoes, workVars, PlannerLabels, Codes
<1> QED
  BY <1>1, <1>2, <1>3, <1>4, <1>5, <1>6 DEF PlannerStep

LEMMA WorkerStepTyped ==
  ASSUME PlanTypeOK, NEW w \in Workers, WorkerStep(w)
  PROVE  PlanTypeOK'
<1>1. CASE WorkerWaits(w)
  BY <1>1 DEF PlanTypeOK, WorkerWaits, workVars, planVars
<1>2. CASE WorkerPops(w) \/ WorkerExits(w) \/ Compare(w) \/ WorkerShutsDown(w)
  <2>1. wpc' \in [Workers -> WorkerLabels]
    BY <1>2, WorkerTyped
    DEF WorkerPops, WorkerExits, Compare, WorkerShutsDown, WorkerGoes,
        WorkerLabels
  <2>2. UNCHANGED <<planVars, wrc, first_error, faults>>
    BY <1>2 DEF WorkerPops, WorkerExits, Compare, WorkerShutsDown
  <2> QED BY <2>1, <2>2 DEF PlanTypeOK, planVars
<1>3. CASE CompareFails(w) \/ CompareNotRecorded(w)
  <2>1. wpc' \in [Workers -> WorkerLabels]
    BY <1>3, WorkerTyped
    DEF CompareFails, CompareNotRecorded, WorkerGoes, WorkerLabels
  <2>2. \E e \in Codes : wrc' = [wrc EXCEPT ![w] = e]
    BY <1>3 DEF CompareFails, CompareNotRecorded, Codes
  <2>3. UNCHANGED <<planVars, first_error>> /\ Fault
    BY <1>3 DEF CompareFails, CompareNotRecorded
  <2> QED BY <2>1, <2>2, <2>3, FaultTyped DEF PlanTypeOK, planVars
<1>4. CASE SetError(w)
  <2>1. wpc' \in [Workers -> WorkerLabels]
    BY <1>4, WorkerTyped DEF SetError, WorkerGoes, WorkerLabels
  <2> QED BY <1>4, <2>1 DEF PlanTypeOK, SetError, planVars
<1> QED
  BY <1>1, <1>2, <1>3, <1>4 DEF WorkerStep

LEMMA QuietTyped ==
  ASSUME PlanTypeOK, UNCHANGED <<planVars, workVars, faults>>
  PROVE  PlanTypeOK'
BY DEF PlanTypeOK, planVars, workVars

LEMMA PlanTyped ==
  ASSUME PlanTypeOK, [Next]_vars
  PROVE  PlanTypeOK'
<1>1. ASSUME NEW t \in Threads, Spurious(t) PROVE PlanTypeOK'
  BY <1>1, QuietTyped DEF Spurious
<1>2. CASE UNCHANGED vars
  BY <1>2, QuietTyped DEF vars
<1> QED
  BY <1>1, <1>2, PlannerTyped, WorkerStepTyped DEF Next, Terminated

\* Nothing but the first choice sets the input.
LEMMA InputStays ==
  ASSUME [Next]_vars
  PROVE  input' = input
<1>1. CASE PlannerStep
  BY <1>1
  DEF PlannerStep, Setup, SetupFails, CreateWorker, CreateFails, AbandonPool,
      Removed, Resized, Candidate, EnqueueBlocks, Enqueue, EnqueueCanceled,
      LoopADone, Met, Added, LoopBDone, Shutdown, Join, Collect, planVars
<1>2. ASSUME NEW w \in Workers, WorkerStep(w)
      PROVE  input' = input
  BY <1>2
  DEF WorkerStep, WorkerWaits, WorkerPops, WorkerExits, Compare, CompareFails,
      CompareNotRecorded, SetError, WorkerShutsDown, planVars
<1>3. ASSUME NEW t \in Threads, Spurious(t)
      PROVE  input' = input
  BY <1>3 DEF Spurious, planVars
<1>4. CASE UNCHANGED vars
  BY <1>4 DEF vars, planVars
<1> QED
  BY <1>1, <1>2, <1>3, <1>4 DEF Next, Terminated

----------------------------------------------------------------------------
(* Where a path can be *)

Coming == IF pc = "enqueue" THEN {cur} ELSE {}

Queued == {Buffered[i] : i \in 1 .. count}

Holders == {v \in Workers : wpc[v] = "compare"}

Held == {task_out[w] : w \in Holders}

ToAdd == todo_b \ DOMAIN input.index_a

Pending == todo_a \cup ToAdd \cup Coming \cup Queued \cup Held

HoldersApart ==
  \A v, w \in Holders : task_out[v] = task_out[w] => v = w

WorkApart ==
  /\ todo_a \cup Coming \cup Queued \cup Held \subseteq DOMAIN input.index_a
  /\ Distinct(Buffered)
  /\ HoldersApart
  /\ todo_a \cap (Coming \cup Queued \cup Held) = {}
  /\ Coming \cap (Queued \cup Held) = {}
  /\ Queued \cap Held = {}
  /\ DOMAIN ordered \cap Pending = {}

QueuedInRing == Queued = Members(Buffered)

LEMMA QueuedAreMembers == QueueInv => QueuedInRing
  BY BufferedSeq DEF BufferedOK, Queued, Members, QueuedInRing

LEMMA QueuedAreMembersNext == QueueInv' => QueuedInRing'
  BY QueuedAreMembers, PTL

LEMMA PushQueues ==
  ASSUME QueueInv, NEW x \in Task, PushStore(Planner, x)
  PROVE  /\ Queued' = Queued \cup {x}
         /\ Distinct(Buffered) /\ x \notin Queued => Distinct(Buffered)'
<1>1. Buffered' = Append(Buffered, x)
  BY PushAppends
<1>2. Buffered \in Seq(Task)
  BY BufferedSeq DEF BufferedOK
<1>3. QueueInv'
  BY PushStoreInv
<1>4. Queued = Members(Buffered) /\ Queued' = Members(Buffered')
  BY <1>3, QueuedAreMembers, QueuedAreMembersNext DEF QueuedInRing, Members
<1>5. /\ Members(Append(Buffered, x)) = Members(Buffered) \cup {x}
      /\ Distinct(Buffered) /\ x \notin Members(Buffered) =>
           Distinct(Append(Buffered, x))
  BY <1>2, AppendDistinct
<1> QED BY <1>1, <1>4, <1>5

LEMMA PopUnqueues ==
  ASSUME QueueInv, NEW w \in Workers, PopTake(w), Distinct(Buffered)
  PROVE  /\ task_out' = [task_out EXCEPT ![w] = Head(Buffered)]
         /\ Head(Buffered) \in Queued
         /\ Queued' = Queued \ {Head(Buffered)}
         /\ Distinct(Buffered)'
<1>1. /\ Buffered # <<>>
      /\ items[head] = Head(Buffered)
      /\ Buffered' = Tail(Buffered)
  BY PopTakesHead
<1>2. Buffered \in Seq(Task)
  BY BufferedSeq DEF BufferedOK
<1>3. QueueInv'
  BY PopTakeInv
<1>4. Queued = Members(Buffered) /\ Queued' = Members(Buffered')
  BY <1>3, QueuedAreMembers, QueuedAreMembersNext DEF QueuedInRing, Members
<1>5. /\ Head(Buffered) \in Members(Buffered)
      /\ Members(Tail(Buffered)) = Members(Buffered) \ {Head(Buffered)}
      /\ Distinct(Tail(Buffered))
  BY <1>1, <1>2, TailDistinct
<1>6. task_out' = [task_out EXCEPT ![w] = Head(Buffered)]
  BY <1>1 DEF PopTake
<1> QED BY <1>1, <1>4, <1>5, <1>6

LEMMA RingAlone ==
  ASSUME UNCHANGED <<items, head, count>>
  PROVE  UNCHANGED <<Buffered, Queued>>
<1>1. Buffered' = Buffered
  BY DEF Buffered
<1> QED BY <1>1 DEF Queued

\* The steps that neither fill nor drain the ring.
LEMMA RingAloneSteps ==
  ASSUME NEW t \in Threads,
         \/ PushBlock(t) \/ PushCanceled(t) \/ PopBlock(t) \/ PopDrained(t)
         \/ QueueShutdown(t) \/ SpuriousWakeup(t) \/ UNCHANGED queueVars
  PROVE  UNCHANGED <<Buffered, Queued, count, task_out>>
<1>1. UNCHANGED <<items, head, count, task_out>>
  BY DEF PushBlock, PushCanceled, PopBlock, PopDrained, QueueShutdown,
         SpuriousWakeup, queueVars
<1> QED BY <1>1, RingAlone

\* A worker gets a task, and is rid of it.
LEMMA HeldAfterPop ==
  ASSUME wpc \in [Workers -> WorkerLabels],
         task_out \in [Workers -> Task \cup {NoTask}],
         NEW w \in Workers, NEW x, x \notin Held, HoldersApart,
         wpc[w] # "compare", wpc' = [wpc EXCEPT ![w] = "compare"],
         task_out' = [task_out EXCEPT ![w] = x]
  PROVE  Held' = Held \cup {x} /\ HoldersApart'
<1>1. /\ Holders' = Holders \cup {w} /\ w \notin Holders
      /\ task_out'[w] = x
      /\ \A v \in Holders : task_out'[v] = task_out[v]
  BY DEF Holders
<1>2. Held' = Held \cup {x}
  BY <1>1 DEF Held
<1>3. HoldersApart'
  BY <1>1 DEF HoldersApart, Held
<1> QED BY <1>2, <1>3

LEMMA HeldAfterCompare ==
  ASSUME wpc \in [Workers -> WorkerLabels], HoldersApart,
         NEW w \in Workers, NEW l, l # "compare",
         wpc[w] = "compare", wpc' = [wpc EXCEPT ![w] = l],
         task_out' = task_out
  PROVE  /\ task_out[w] \in Held
         /\ Held' = Held \ {task_out[w]}
         /\ HoldersApart'
<1>1. Holders' = Holders \ {w} /\ w \in Holders
  BY DEF Holders
<1>2. task_out[w] \in Held /\ Held' = Held \ {task_out[w]}
  BY <1>1 DEF Held, HoldersApart
<1>3. HoldersApart'
  BY <1>1 DEF HoldersApart
<1> QED BY <1>2, <1>3

LEMMA HeldUnmoved ==
  ASSUME wpc \in [Workers -> WorkerLabels],
         task_out' = task_out,
         \/ wpc' = wpc
         \/ \E w \in Workers, l \in WorkerLabels :
              /\ wpc[w] # "compare" /\ l # "compare"
              /\ wpc' = [wpc EXCEPT ![w] = l]
  PROVE  UNCHANGED Held /\ (HoldersApart => HoldersApart')
<1>1. Holders' = Holders
  BY DEF Holders
<1> QED BY <1>1 DEF Held, HoldersApart

----------------------------------------------------------------------------
(* The verdict on a path *)

InA(p) == p \in DOMAIN input.index_a

InB(p) == p \in DOMAIN input.index_b

LEMMA InputShape ==
  ASSUME PlanTypeOK
  PROVE  /\ DOMAIN input.index_a \subseteq Path
         /\ DOMAIN input.index_b \subseteq Path
         /\ IsFiniteSet(CompareVerdicts!AllPaths)
         /\ \A p : InA(p) => input.index_a[p] \in Nat
         /\ \A p : InB(p) => input.index_b[p] \in Nat
<1>1. IsInput(input)
  BY PoolAssumption DEF PlanTypeOK
<1>2. IsFiniteSet(DOMAIN input.index_a \cup DOMAIN input.index_b)
  BY <1>1, FS_Union DEF IsInput
<1> QED BY <1>1, <1>2 DEF IsInput, InA, InB, CompareVerdicts!AllPaths

\* What the first loop records is what the path deserves.
LEMMA RemovedVerdict ==
  ASSUME PlanTypeOK, NEW p \in Path, InA(p), ~InB(p)
  PROVE  /\ CompareVerdicts!Verdict(p) =
              Record(p, "REMOVED", "ONLY_IN_SOURCE", input.index_a[p], 0)
         /\ CompareVerdicts!Verdict(p) \in ChangeRecord
         /\ CompareVerdicts!Type(p) = "REMOVED"
         /\ CompareVerdicts!Listed(p)
<1>1. CompareVerdicts!Type(p) = "REMOVED"
  BY DEF InA, InB, CompareVerdicts!Type
<1>2. CompareVerdicts!Detail(p) = "ONLY_IN_SOURCE"
  BY <1>1 DEF CompareVerdicts!Detail
<1> QED BY <1>1, <1>2, InputShape
  DEF CompareVerdicts!Verdict, CompareVerdicts!Listed, CompareVerdicts!SizeIn,
      Record, ChangeRecord, ChangeType, DetailKind, InA, InB

LEMMA AddedVerdict ==
  ASSUME PlanTypeOK, NEW p \in Path, ~InA(p), InB(p)
  PROVE  /\ CompareVerdicts!Verdict(p) =
              Record(p, "ADDED", "ONLY_IN_TARGET", 0, input.index_b[p])
         /\ CompareVerdicts!Verdict(p) \in ChangeRecord
         /\ CompareVerdicts!Type(p) = "ADDED"
         /\ CompareVerdicts!Listed(p)
<1>1. CompareVerdicts!Type(p) = "ADDED"
  BY DEF InA, InB, CompareVerdicts!Type
<1>2. CompareVerdicts!Detail(p) = "ONLY_IN_TARGET"
  BY <1>1 DEF CompareVerdicts!Detail
<1> QED BY <1>1, <1>2, InputShape
  DEF CompareVerdicts!Verdict, CompareVerdicts!Listed, CompareVerdicts!SizeIn,
      Record, ChangeRecord, ChangeType, DetailKind, InA, InB

LEMMA FoundVerdict ==
  ASSUME PlanTypeOK, NEW p \in Path, InA(p), InB(p)
  PROVE  /\ CompareVerdicts!Verdict(p) = Found(p)
         /\ CompareVerdicts!Verdict(p) \in ChangeRecord
         /\ CompareVerdicts!Type(p) = FoundType(p)
         /\ CompareVerdicts!Listed(p) <=> Recorded(p)
<1>1. CompareVerdicts!Type(p) = FoundType(p)
  BY DEF InA, InB, CompareVerdicts!Type, FoundType
<1>2. FoundType(p) \in {"UNCHANGED", "MODIFIED"}
  BY DEF FoundType
<1>3. CompareVerdicts!Detail(p) = FoundDetail(p)
  <2>1. CASE FoundType(p) = "UNCHANGED"
    <3>1. FoundDetail(p) = "NONE"
      BY <2>1 DEF FoundType, FoundDetail
    <3>2. CompareVerdicts!Detail(p) = "NONE"
      BY <1>1, <2>1 DEF CompareVerdicts!Detail
    <3> QED BY <3>1, <3>2
  <2>2. CASE FoundType(p) = "MODIFIED"
    <3>1. ~(input.index_a[p] = input.index_b[p] /\ p \in input.equal)
      BY <2>2 DEF FoundType
    <3>2. CompareVerdicts!Detail(p) =
            IF input.index_a[p] # input.index_b[p] THEN "SIZE_CHANGED"
            ELSE IF p \in input.lines THEN "LINES" ELSE "BINARY_CHANGED"
      BY <1>1, <2>2 DEF CompareVerdicts!Detail
    <3> QED BY <3>1, <3>2 DEF FoundDetail
  <2> QED BY <1>2, <2>1, <2>2
<1>4. FoundDetail(p) \in DetailKind
  BY DEF FoundDetail, DetailKind
<1>5. CompareVerdicts!Verdict(p) = Found(p)
  BY <1>1, <1>3
  DEF CompareVerdicts!Verdict, CompareVerdicts!SizeIn, Found, Record, InA, InB
<1>6. Found(p) \in ChangeRecord
  BY <1>2, <1>4, InputShape DEF Found, Record, ChangeRecord, ChangeType
<1> QED BY <1>1, <1>5, <1>6 DEF CompareVerdicts!Listed, Recorded

LEMMA ResizedVerdict ==
  ASSUME PlanTypeOK, NEW p \in Path, InA(p), InB(p),
         input.index_a[p] # input.index_b[p]
  PROVE  /\ CompareVerdicts!Verdict(p) =
              Record(p, "MODIFIED", "SIZE_CHANGED",
                     input.index_a[p], input.index_b[p])
         /\ CompareVerdicts!Verdict(p) \in ChangeRecord
         /\ CompareVerdicts!Type(p) = "MODIFIED"
         /\ CompareVerdicts!Listed(p)
<1>1. FoundType(p) = "MODIFIED" /\ FoundDetail(p) = "SIZE_CHANGED"
  BY DEF FoundType, FoundDetail
<1> QED BY <1>1, FoundVerdict DEF Found, Recorded

----------------------------------------------------------------------------
(* What a step means for the comparison *)

\* The three kinds of steps: a path gets its verdict, a path is lost to a
\* failure, or nothing is decided.
Decides(p) ==
  /\ p \in Pending
  /\ Pending' = Pending \ {p}
  /\ Reported' = Reported \cup {v \in {CompareVerdicts!Verdict(p)} :
                                  CompareVerdicts!Listed(p)}
  /\ tally' = [tally EXCEPT ![CompareVerdicts!Type(p)] = @ + 1]

Drops(p) ==
  /\ Pending' = Pending \ {p}
  /\ UNCHANGED <<Reported, tally>>

DecidesNothing == UNCHANGED <<Pending, Reported, tally>>

ViewsOK == ResultTypeOK /\ ReportConsistent

\* The record of a listed path, pushed or not.
LEMMA RecordingDecides ==
  ASSUME ViewsOK, input' = input, NEW p \in Path, p \notin DOMAIN ordered,
         CompareVerdicts!Verdict(p) \in ChangeRecord,
         CompareVerdicts!Listed(p),
         ResultPush(CompareVerdicts!Verdict(p))
  PROVE  /\ ViewsOK'
         /\ DOMAIN ordered' = DOMAIN ordered \cup {p}
         /\ p \in Pending /\ Pending' = Pending \ {p} => Decides(p)
<1> DEFINE rec == CompareVerdicts!Verdict(p)
<1>1. rec.path = p /\ rec.type = CompareVerdicts!Type(p)
  BY DEF CompareVerdicts!Verdict
<1> HIDE DEF rec
<1>2. /\ ResultTypeOK'
      /\ ReportConsistent'
      /\ DOMAIN ordered' = DOMAIN ordered \cup {rec.path}
      /\ Reported' = Reported \cup {rec}
      /\ tally' = [tally EXCEPT ![rec.type] = @ + 1]
  <2>1. rec \in ChangeRecord /\ rec.path \notin DOMAIN ordered /\ ResultPush(rec)
    BY <1>1 DEF rec
  <2> QED BY <2>1, PushKeepsViews DEF ViewsOK
<1>3. {v \in {rec} : CompareVerdicts!Listed(p)} = {rec}
  OBVIOUS
<1> QED BY <1>1, <1>2, <1>3 DEF ViewsOK, Decides, rec

LEMMA NotRecordingDrops ==
  ASSUME ViewsOK, input' = input, NEW rec \in ChangeRecord,
         ResultPushNoArray \/ ResultPushNoNode(rec)
  PROVE  /\ ViewsOK'
         /\ ordered' = ordered
         /\ \A p : Pending' = Pending \ {p} => Drops(p)
<1>1. /\ ViewsOK'
      /\ UNCHANGED <<ordered, records, tally>>
  BY FailedPushKeepsViews DEF ViewsOK
<1>2. Reported' = Reported
  BY <1>1 DEF Reported
<1> QED BY <1>1, <1>2 DEF Drops

Failed ==
  \/ rc # "OK"
  \/ first_error # "OK"
  \/ \E w \in Workers : wpc[w] = "set_error"

Result ==
  IF pc # "done" THEN "running" ELSE IF rc = "OK" THEN "success" ELSE "failure"

\* What holds in every state of places, views and types.
PlacesInv == PoolInv /\ QueueInv /\ PlanTypeOK /\ ViewsOK /\ WorkApart

\* What a step owes while the comparison runs: places and views stay in
\* order, and it decides a path, loses one to a failure, or does neither.
Advances ==
  /\ ViewsOK'
  /\ WorkApart'
  /\ Result = "running" /\ Result' = "running"
  /\ \/ DecidesNothing /\ Failed' = Failed
     \/ DecidesNothing /\ Failed'
     \/ \E p \in Path : Decides(p) /\ Failed' = Failed
     \/ \E p \in Path : Drops(p) /\ Failed'

LEMMA RecordsInLoopA ==
  ASSUME PlacesInv, NEW p \in Path, p \in todo_a, pc = "loop_a",
         todo_a' = todo_a \ {p},
         UNCHANGED <<queueVars, input, todo_b, cur, workVars>>,
         CompareVerdicts!Verdict(p) \in ChangeRecord,
         CompareVerdicts!Listed(p),
         PlannerRecords(CompareVerdicts!Verdict(p))
  PROVE  Advances
<1>1. UNCHANGED <<Buffered, Queued, task_out>>
  BY RingAloneSteps DEF Threads
<1>2. UNCHANGED <<Held, ToAdd, wpc, first_error>> /\ HoldersApart'
  BY <1>1, HeldUnmoved DEF PlacesInv, WorkApart, PlanTypeOK, workVars, ToAdd
<1>3. /\ Coming = {} /\ pc' \in {"loop_a", "shutdown"}
      /\ Coming' = {}
  BY DEF Coming, PlannerRecords
<1>4. p \in DOMAIN input.index_a /\ p \notin DOMAIN ordered /\ p \in Pending
  BY DEF PlacesInv, WorkApart, Pending
<1>5. Pending' = Pending \ {p}
  BY <1>1, <1>2, <1>3, <1>4 DEF Pending, PlacesInv, WorkApart, ToAdd
<1>6. CASE ResultPush(CompareVerdicts!Verdict(p)) /\ UNCHANGED <<pc, rc, faults>>
  <2>1. ViewsOK' /\ DOMAIN ordered' = DOMAIN ordered \cup {p} /\ Decides(p)
    BY <1>4, <1>5, <1>6, RecordingDecides DEF PlacesInv
  <2>2. WorkApart'
    BY <1>1, <1>2, <1>3, <1>5, <2>1 DEF PlacesInv, WorkApart
  <2>3. Failed' = Failed /\ Result = "running" /\ Result' = "running"
    BY <1>2, <1>6 DEF Failed, Result
  <2> QED BY <2>1, <2>2, <2>3 DEF Advances
<1>7. CASE /\ \/ ResultPushNoArray
              \/ ResultPushNoNode(CompareVerdicts!Verdict(p))
           /\ pc' = "shutdown"
           /\ rc' = "ENOMEM"
  <2>1. ViewsOK' /\ ordered' = ordered /\ Drops(p)
    BY <1>5, <1>7, NotRecordingDrops DEF PlacesInv
  <2>2. WorkApart'
    BY <1>1, <1>2, <1>3, <1>5, <2>1 DEF PlacesInv, WorkApart
  <2>3. Failed' /\ Result = "running" /\ Result' = "running"
    BY <1>7 DEF Failed, Result
  <2> QED BY <2>1, <2>2, <2>3 DEF Advances
<1> QED BY <1>6, <1>7 DEF PlannerRecords

LEMMA RecordsInLoopB ==
  ASSUME PlacesInv, NEW p \in Path, p \in ToAdd, pc = "loop_b",
         todo_b' = todo_b \ {p},
         UNCHANGED <<queueVars, input, todo_a, cur, workVars>>,
         CompareVerdicts!Verdict(p) \in ChangeRecord,
         CompareVerdicts!Listed(p),
         PlannerRecords(CompareVerdicts!Verdict(p))
  PROVE  Advances
<1>1. UNCHANGED <<Buffered, Queued, task_out>>
  BY RingAloneSteps DEF Threads
<1>2. /\ UNCHANGED <<Held, wpc, first_error>> /\ HoldersApart'
      /\ ToAdd' = ToAdd \ {p}
  BY <1>1, HeldUnmoved DEF PlacesInv, WorkApart, PlanTypeOK, workVars, ToAdd
<1>3. /\ Coming = {} /\ pc' \in {"loop_b", "shutdown"}
      /\ Coming' = {}
  BY DEF Coming, PlannerRecords
<1>4. p \notin DOMAIN input.index_a /\ p \notin DOMAIN ordered /\ p \in Pending
  BY DEF PlacesInv, WorkApart, Pending, ToAdd
<1>5. Pending' = Pending \ {p}
  BY <1>1, <1>2, <1>3, <1>4 DEF Pending, PlacesInv, WorkApart
<1>6. CASE ResultPush(CompareVerdicts!Verdict(p)) /\ UNCHANGED <<pc, rc, faults>>
  <2>1. ViewsOK' /\ DOMAIN ordered' = DOMAIN ordered \cup {p} /\ Decides(p)
    BY <1>4, <1>5, <1>6, RecordingDecides DEF PlacesInv
  <2>2. WorkApart'
    BY <1>1, <1>2, <1>3, <1>5, <2>1 DEF PlacesInv, WorkApart
  <2>3. Failed' = Failed /\ Result = "running" /\ Result' = "running"
    BY <1>2, <1>6 DEF Failed, Result
  <2> QED BY <2>1, <2>2, <2>3 DEF Advances
<1>7. CASE /\ \/ ResultPushNoArray
              \/ ResultPushNoNode(CompareVerdicts!Verdict(p))
           /\ pc' = "shutdown"
           /\ rc' = "ENOMEM"
  <2>1. ViewsOK' /\ ordered' = ordered /\ Drops(p)
    BY <1>5, <1>7, NotRecordingDrops DEF PlacesInv
  <2>2. WorkApart'
    BY <1>1, <1>2, <1>3, <1>5, <2>1 DEF PlacesInv, WorkApart
  <2>3. Failed' /\ Result = "running" /\ Result' = "running"
    BY <1>7 DEF Failed, Result
  <2> QED BY <2>1, <2>2, <2>3 DEF Advances
<1> QED BY <1>6, <1>7 DEF PlannerRecords

LEMMA LoopStepsAdvance ==
  ASSUME PlacesInv, NEW p \in Path, Removed(p) \/ Resized(p) \/ Added(p)
  PROVE  Advances
<1>1. CASE Removed(p)
  <2>1. InA(p) /\ ~InB(p)
    BY <1>1 DEF Removed, InA, InB, PlacesInv, PlanTypeOK
  <2>2. PlannerRecords(CompareVerdicts!Verdict(p))
    BY <1>1, <2>1, RemovedVerdict DEF Removed, PlacesInv
  <2> QED BY <1>1, <2>1, <2>2, RemovedVerdict, RecordsInLoopA
    DEF Removed, PlacesInv
<1>2. CASE Resized(p)
  <2>1. InA(p) /\ InB(p) /\ input.index_a[p] # input.index_b[p]
    BY <1>2 DEF Resized, InA, InB, PlacesInv, PlanTypeOK
  <2>2. PlannerRecords(CompareVerdicts!Verdict(p))
    BY <1>2, <2>1, ResizedVerdict DEF Resized, PlacesInv
  <2> QED BY <1>2, <2>1, <2>2, ResizedVerdict, RecordsInLoopA
    DEF Resized, PlacesInv
<1>3. CASE Added(p)
  <2>1. ~InA(p) /\ InB(p) /\ p \in ToAdd
    BY <1>3 DEF Added, InA, InB, ToAdd, PlacesInv, PlanTypeOK
  <2>2. PlannerRecords(CompareVerdicts!Verdict(p))
    BY <1>3, <2>1, AddedVerdict DEF Added, PlacesInv
  <2> QED BY <1>3, <2>1, <2>2, AddedVerdict, RecordsInLoopB
    DEF Added, PlacesInv
<1> QED BY <1>1, <1>2, <1>3

\* A step that leaves the records alone keeps their views.
LEMMA RecordsAlone ==
  ASSUME ViewsOK, UNCHANGED <<resultVars, input>>
  PROVE  ViewsOK' /\ UNCHANGED <<Reported, tally, ordered>>
<1>1. ViewsOK'
  BY QuietKeepsViews DEF ViewsOK
<1> QED BY <1>1 DEF resultVars, Reported

\* A path goes from the loop to the ring, or is turned back by a closed one.
LEMMA EnqueueingAdvances ==
  ASSUME PlacesInv,
         (\E p \in Path : Candidate(p)) \/ Enqueue \/ EnqueueCanceled
  PROVE  Advances
<1>1. ViewsOK' /\ UNCHANGED <<Reported, tally, ordered, input>>
  BY RecordsAlone DEF PlacesInv, Candidate, Enqueue, EnqueueCanceled
<1>2. /\ UNCHANGED <<wpc, first_error, task_out, todo_b>>
      /\ UNCHANGED <<Held, ToAdd>> /\ HoldersApart'
  <2>1. UNCHANGED <<wpc, first_error, task_out, todo_b>>
    BY DEF Candidate, Enqueue, EnqueueCanceled, PushStore, PushCanceled,
           queueVars, workVars
  <2> QED BY <1>1, <2>1, HeldUnmoved DEF PlacesInv, WorkApart, PlanTypeOK, ToAdd
<1>3. Result = "running" /\ Result' = "running"
  BY DEF Candidate, Enqueue, EnqueueCanceled, PlannerGoes, Result
<1>4. ASSUME NEW p \in Path, Candidate(p)
      PROVE  Advances
  <2>1. UNCHANGED <<Buffered, Queued>>
    BY <1>4, RingAloneSteps DEF Candidate, Threads
  <2>2. /\ p \in todo_a /\ todo_a' = todo_a \ {p}
        /\ Coming = {} /\ Coming' = {p}
    BY <1>4 DEF Candidate, PlannerGoes, Coming
  <2>3. Pending' = Pending
    BY <1>2, <2>1, <2>2 DEF Pending
  <2>4. WorkApart'
    BY <1>1, <1>2, <2>1, <2>2, <2>3 DEF PlacesInv, WorkApart
  <2>5. Failed' = Failed
    BY <1>2, <1>4 DEF Candidate, Failed
  <2> QED BY <1>1, <1>3, <2>3, <2>4, <2>5 DEF Advances, DecidesNothing
<1>5. CASE Enqueue
  <2>1. Coming = {cur} /\ Coming' = {} /\ cur \in Path
    BY <1>5 DEF Enqueue, PlannerGoes, Coming, PlacesInv, PoolInv, PoolTypes
  <2>2. cur \notin Queued /\ Distinct(Buffered) /\ todo_a' = todo_a
    BY <1>5, <2>1 DEF PlacesInv, WorkApart, Enqueue
  <2>3. Queued' = Queued \cup {cur} /\ Distinct(Buffered)'
    BY <1>5, <2>1, <2>2, PushQueues, PoolAssumption DEF Enqueue, PlacesInv
  <2>4. Pending' = Pending
    BY <1>2, <2>1, <2>2, <2>3 DEF Pending
  <2>5. WorkApart'
    BY <1>1, <1>2, <2>1, <2>2, <2>3, <2>4 DEF PlacesInv, WorkApart
  <2>6. Failed' = Failed
    BY <1>2, <1>5 DEF Enqueue, Failed
  <2> QED BY <1>1, <1>3, <2>4, <2>5, <2>6 DEF Advances, DecidesNothing
<1>6. CASE EnqueueCanceled
  <2>1. Coming = {cur} /\ Coming' = {} /\ cur \in Path /\ todo_a' = todo_a
    BY <1>6
    DEF EnqueueCanceled, PlannerGoes, Coming, PlacesInv, PoolInv, PoolTypes
  <2>2. UNCHANGED <<Buffered, Queued>>
    BY <1>6, RingAloneSteps DEF EnqueueCanceled, Threads
  <2>3. cur \notin todo_a \cup ToAdd \cup Queued \cup Held
    BY <2>1 DEF PlacesInv, WorkApart, ToAdd
  <2>4. Pending' = Pending \ {cur}
    BY <1>2, <2>1, <2>2, <2>3 DEF Pending
  <2>5. WorkApart'
    BY <1>1, <1>2, <2>1, <2>2, <2>4 DEF PlacesInv, WorkApart
  <2>6. Failed'
    BY <1>6 DEF EnqueueCanceled, Failed
  <2> QED BY <1>1, <1>3, <2>1, <2>4, <2>5, <2>6 DEF Advances, Drops
<1> QED BY <1>4, <1>5, <1>6

----------------------------------------------------------------------------
(* How a run winds up *)

\* The planner has an error exactly if it left its loops for one, and has
\* otherwise met every path when it leaves them.
PlannerWinds ==
  /\ pc \in {"start", "create", "loop_a", "enqueue", "loop_b"} => rc = "OK"
  /\ pc = "abandon" => rc # "OK"
  /\ pc \in {"loop_b", "shutdown", "join", "collect"} /\ rc = "OK" =>
       todo_a = {}
  /\ pc \in {"shutdown", "join", "collect"} /\ rc = "OK" => todo_b = {}
  /\ pc \in {"loop_a", "enqueue", "loop_b", "shutdown", "join", "collect"} =>
       \A w \in Workers : wpc[w] # "absent"

\* A worker leaves with its error recorded, or an empty queue behind it.
WorkersWind ==
  \A w \in Workers :
    /\ wpc[w] = "set_error" => wrc[w] # "OK"
    /\ wpc[w] = "shutdown" => first_error # "OK"
    /\ wpc[w] = "exited" => first_error # "OK" \/ count = 0

LEMMA PlannerStepWinds ==
  ASSUME PlanTypeOK, PlannerWinds, PlannerStep
  PROVE  PlannerWinds'
<1>1. CASE Setup \/ SetupFails \/ CreateFails \/ AbandonPool
  BY <1>1
  DEF PlannerWinds, Setup, SetupFails, CreateFails, AbandonPool, PlannerGoes
<1>2. ASSUME NEW w \in Workers, CreateWorker(w)
      PROVE  PlannerWinds'
  <2>1. UNCHANGED <<todo_a, todo_b, rc>> /\ rc = "OK"
    BY <1>2 DEF CreateWorker, PlannerGoes, PlannerWinds
  <2>2. \/ pc' = "create"
        \/ pc' = "loop_a" /\ \A v \in Workers : wpc'[v] # "absent"
    BY <1>2 DEF CreateWorker, PlannerGoes, WorkerGoes, PlanTypeOK
  <2> QED BY <2>1, <2>2 DEF PlannerWinds
<1>3. ASSUME NEW p \in Path, Removed(p) \/ Resized(p) \/ Added(p)
      PROVE  PlannerWinds'
  <2>1. wpc' = wpc /\ pc \in {"loop_a", "loop_b"}
    BY <1>3 DEF Removed, Resized, Added, workVars
  <2>2. \/ UNCHANGED <<pc, rc>>
        \/ pc' = "shutdown" /\ rc' = "ENOMEM"
    BY <1>3 DEF Removed, Resized, Added, PlannerRecords
  <2>3. pc = "loop_b" => todo_a' = todo_a
    BY <1>3 DEF Removed, Resized, Added
  <2> QED BY <2>1, <2>2, <2>3 DEF PlannerWinds
<1>4. ASSUME NEW p \in Path, Candidate(p) \/ Met(p)
      PROVE  PlannerWinds'
  BY <1>4 DEF PlannerWinds, Candidate, Met, PlannerGoes, workVars
<1>5. CASE EnqueueBlocks \/ Enqueue \/ EnqueueCanceled
  BY <1>5
  DEF PlannerWinds, EnqueueBlocks, Enqueue, EnqueueCanceled, PlannerGoes,
      workVars, planVars
<1>6. CASE LoopADone \/ LoopBDone \/ Shutdown \/ Join \/ Collect
  BY <1>6
  DEF PlannerWinds, LoopADone, LoopBDone, Shutdown, Join, Collect,
      PlannerGoes, workVars
<1> QED
  BY <1>1, <1>2, <1>3, <1>4, <1>5, <1>6 DEF PlannerStep

\* A worker step changes no field of the planner and creates no worker.
LEMMA WorkerMoves ==
  ASSUME PoolInv, NEW w \in Workers, WorkerStep(w)
  PROVE  /\ UNCHANGED planVars
         /\ wpc[w] \notin {"absent", "exited"}
         /\ \E l \in WorkerLabels \ {"absent"} : wpc' = [wpc EXCEPT ![w] = l]
<1>1. wpc \in [Workers -> WorkerLabels]
  BY DEF PoolInv, PoolTypes
<1>2. CASE WorkerWaits(w)
  <2>1. wpc' = [wpc EXCEPT ![w] = "pop"]
    BY <1>1, <1>2 DEF WorkerWaits, workVars
  <2> QED BY <1>2, <2>1 DEF WorkerWaits, WorkerLabels
<1>3. CASE WorkerPops(w) \/ WorkerExits(w)
  BY <1>3 DEF WorkerPops, WorkerExits, WorkerGoes, WorkerLabels
<1>4. CASE Compare(w) \/ CompareFails(w) \/ CompareNotRecorded(w)
  BY <1>4
  DEF Compare, CompareFails, CompareNotRecorded, WorkerGoes, WorkerLabels
<1>5. CASE SetError(w) \/ WorkerShutsDown(w)
  BY <1>5 DEF SetError, WorkerShutsDown, WorkerGoes, WorkerLabels
<1> QED BY <1>2, <1>3, <1>4, <1>5 DEF WorkerStep

LEMMA WorkerStepKeepsPlannerWinds ==
  ASSUME PoolInv, PlannerWinds, NEW w \in Workers, WorkerStep(w)
  PROVE  PlannerWinds'
<1>1. wpc \in [Workers -> WorkerLabels]
  BY DEF PoolInv, PoolTypes
<1>2. UNCHANGED planVars
  BY WorkerMoves
<1>3. \A v \in Workers : wpc[v] # "absent" => wpc'[v] # "absent"
  BY <1>1, WorkerMoves
<1> QED BY <1>2, <1>3 DEF PlannerWinds, planVars

\* A queue that is shut down never fills again.
LEMMA ShutdownDrains ==
  ASSUME QueueInv, [QueueNext]_queueVars, shutdown
  PROVE  count = 0 => count' = 0
BY DEF QueueNext, queueVars, PushBlock, PushStore, PushCanceled, PopBlock,
       PopTake, PopDrained, QueueShutdown, SpuriousWakeup

LEMMA PlannerStepKeepsWorkersWind ==
  ASSUME PoolInv, QueueInv, WorkersWind, PlannerStep
  PROVE  WorkersWind'
<1>1. \A w \in Workers : wpc[w] = "exited" /\ count = 0 => count' = 0
  BY PlannerUsesQueue, ShutdownDrains DEF PoolInv, ExitsAfterShutdown
<1>2. UNCHANGED <<wrc, first_error>>
  BY DEF PlannerStep, Setup, SetupFails, CreateWorker, CreateFails, AbandonPool,
      Removed, Resized, Candidate, EnqueueBlocks, Enqueue, EnqueueCanceled,
      LoopADone, Met, Added, LoopBDone, Shutdown, Join, Collect, workVars
<1>3. CASE wpc' = wpc
  BY <1>1, <1>2, <1>3 DEF WorkersWind
<1>4. ASSUME NEW w \in Workers, CreateWorker(w)
      PROVE  WorkersWind'
  <2>1. wpc' = [wpc EXCEPT ![w] = "pop"] /\ wpc \in [Workers -> WorkerLabels]
    BY <1>4 DEF CreateWorker, WorkerGoes, PoolInv, PoolTypes
  <2> QED BY <1>1, <1>2, <2>1 DEF WorkersWind
<1> QED BY <1>3, <1>4, PlannerMoves

LEMMA WorkerStepKeepsWorkersWind ==
  ASSUME PoolInv, QueueInv, PlanTypeOK, WorkersWind, NEW w \in Workers,
         WorkerStep(w)
  PROVE  WorkersWind'
<1>1. \A v \in Workers : wpc[v] = "exited" /\ count = 0 => count' = 0
  BY WorkerUsesQueue, ShutdownDrains DEF PoolInv, ExitsAfterShutdown
<1>2. wpc \in [Workers -> WorkerLabels] /\ wrc \in [Workers -> Codes]
  BY DEF PlanTypeOK
<1>3. CASE WorkerWaits(w)
  BY <1>1, <1>3 DEF WorkerWaits, WorkersWind, workVars
<1>4. CASE WorkerPops(w) \/ Compare(w)
  BY <1>1, <1>2, <1>4 DEF WorkerPops, Compare, WorkerGoes, WorkersWind
<1>5. CASE WorkerExits(w)
  <2>1. count' = 0
    BY <1>5 DEF WorkerExits, PopDrained
  <2> QED BY <1>1, <1>2, <1>5, <2>1 DEF WorkerExits, WorkerGoes, WorkersWind
<1>6. CASE CompareFails(w) \/ CompareNotRecorded(w)
  <2>1. \E e \in Codes \ {"OK"} : wrc' = [wrc EXCEPT ![w] = e]
    BY <1>6 DEF CompareFails, CompareNotRecorded, Codes
  <2>2. wpc' = [wpc EXCEPT ![w] = "set_error"] /\ UNCHANGED <<first_error, count>>
    BY <1>6 DEF CompareFails, CompareNotRecorded, WorkerGoes, queueVars
  <2> QED BY <1>2, <2>1, <2>2 DEF WorkersWind
<1>7. CASE SetError(w)
  <2>1. first_error' # "OK"
    BY <1>7 DEF SetError, WorkerGoes, WorkersWind
  <2>2. wpc' = [wpc EXCEPT ![w] = "shutdown"] /\ wrc' = wrc
    BY <1>7 DEF SetError, WorkerGoes
  <2> QED BY <1>2, <2>1, <2>2 DEF WorkersWind
<1>8. CASE WorkerShutsDown(w)
  <2>1. first_error # "OK" /\ UNCHANGED <<first_error, wrc>>
    BY <1>8 DEF WorkerShutsDown, WorkerGoes, WorkersWind
  <2>2. wpc' = [wpc EXCEPT ![w] = "exited"]
    BY <1>8 DEF WorkerShutsDown, WorkerGoes
  <2> QED BY <1>2, <2>1, <2>2 DEF WorkersWind
<1> QED
  BY <1>3, <1>4, <1>5, <1>6, <1>7, <1>8 DEF WorkerStep

----------------------------------------------------------------------------
(* The other steps *)

VerdictInv == PlacesInv /\ PlannerWinds /\ WorkersWind

\* No path moves.
LEMMA PlacesAlone ==
  ASSUME PlacesInv,
         UNCHANGED <<resultVars, input, todo_a, ToAdd, Coming, Buffered, Queued,
                     Held>>,
         HoldersApart'
  PROVE  ViewsOK' /\ WorkApart' /\ DecidesNothing
<1>1. ViewsOK' /\ UNCHANGED <<Reported, tally, ordered>>
  BY RecordsAlone DEF PlacesInv
<1>2. Pending' = Pending
  BY DEF Pending
<1>3. WorkApart'
  BY <1>1, <1>2 DEF PlacesInv, WorkApart
<1> QED BY <1>1, <1>2, <1>3 DEF DecidesNothing

\* The planner's steps that touch no path: those that end the run among them.
LEMMA PlannerPlacesAlone ==
  ASSUME PlacesInv, [Next]_vars,
         \/ Setup \/ SetupFails \/ CreateFails \/ AbandonPool \/ EnqueueBlocks
         \/ LoopADone \/ LoopBDone \/ Shutdown \/ Join \/ Collect
         \/ \E w \in Workers : CreateWorker(w)
         \/ \E p \in Path : Met(p)
  PROVE  ViewsOK' /\ WorkApart' /\ DecidesNothing
<1>1. UNCHANGED <<resultVars, input, todo_a, ToAdd>>
  <2>1. UNCHANGED <<resultVars, input, todo_a>>
    BY DEF Setup, SetupFails, CreateFails, AbandonPool, EnqueueBlocks,
           LoopADone, LoopBDone, Shutdown, Join, Collect, CreateWorker, Met,
           planVars
  <2>2. CASE \E p \in Path : Met(p)
    BY <2>2 DEF Met, ToAdd
  <2>3. CASE todo_b' = todo_b
    BY <2>1, <2>3 DEF ToAdd
  <2> QED BY <2>1, <2>2, <2>3
    DEF Setup, SetupFails, CreateFails, AbandonPool, EnqueueBlocks,
        LoopADone, LoopBDone, Shutdown, Join, Collect, CreateWorker, planVars
<1>2. UNCHANGED Coming
  BY DEF Coming, Setup, SetupFails, CreateFails, AbandonPool, EnqueueBlocks,
         LoopADone, LoopBDone, Shutdown, Join, Collect, CreateWorker, Met,
         planVars, PlannerGoes
<1>3. UNCHANGED <<Buffered, Queued, task_out>>
  BY RingAloneSteps
  DEF Setup, SetupFails, CreateFails, AbandonPool, EnqueueBlocks, LoopADone,
      LoopBDone, Shutdown, Join, Collect, CreateWorker, Met, Threads
<1>4. UNCHANGED Held /\ HoldersApart'
  <2>1. wpc \in [Workers -> WorkerLabels] /\ HoldersApart
    BY DEF PlacesInv, PlanTypeOK, WorkApart
  <2>2. CASE \E w \in Workers : CreateWorker(w)
    BY <1>3, <2>1, <2>2, HeldUnmoved DEF CreateWorker, WorkerGoes, WorkerLabels
  <2>3. CASE wpc' = wpc
    BY <1>3, <2>1, <2>3, HeldUnmoved
  <2> QED BY <2>2, <2>3
    DEF Setup, SetupFails, CreateFails, AbandonPool, EnqueueBlocks, LoopADone,
        LoopBDone, Shutdown, Join, Collect, Met, workVars
<1> QED BY <1>1, <1>2, <1>3, <1>4, PlacesAlone

LEMMA PlannerQuietlyAdvances ==
  ASSUME PlacesInv, [Next]_vars,
         \/ Setup \/ CreateFails \/ EnqueueBlocks
         \/ LoopADone \/ LoopBDone \/ Shutdown \/ Join
         \/ \E w \in Workers : CreateWorker(w)
         \/ \E p \in Path : Met(p)
  PROVE  Advances
<1>1. ViewsOK' /\ WorkApart' /\ DecidesNothing
  BY PlannerPlacesAlone
<1>2. Result = "running" /\ Result' = "running"
  BY DEF Result, Setup, CreateFails, EnqueueBlocks, LoopADone, LoopBDone,
         Shutdown, Join, CreateWorker, Met, PlannerGoes, planVars
<1>3. Failed' = Failed \/ Failed'
  <2>1. CASE CreateFails
    BY <2>1 DEF CreateFails, Failed
  <2>2. ASSUME NEW w \in Workers, CreateWorker(w)
        PROVE  Failed' = Failed
    <3>1. /\ wpc' = [wpc EXCEPT ![w] = "pop"]
          /\ wpc[w] = "absent"
          /\ wpc \in [Workers -> WorkerLabels]
          /\ UNCHANGED <<rc, first_error>>
      BY <2>2 DEF CreateWorker, WorkerGoes, PlacesInv, PlanTypeOK
    <3> QED BY <3>1 DEF Failed
  <2>3. CASE UNCHANGED <<rc, first_error, wpc>>
    BY <2>3 DEF Failed
  <2> QED BY <2>1, <2>2, <2>3
    DEF Setup, EnqueueBlocks, LoopADone, LoopBDone, Shutdown, Join, Met,
        workVars, planVars
<1> QED BY <1>1, <1>2, <1>3 DEF Advances

\* A worker takes a task from the ring.
LEMMA PopAdvances ==
  ASSUME PlacesInv, NEW w \in Workers, WorkerPops(w), pc # "done"
  PROVE  Advances
<1>1. ViewsOK' /\ UNCHANGED <<Reported, tally, ordered, input>>
  BY RecordsAlone DEF PlacesInv, WorkerPops, planVars
<1>2. UNCHANGED <<pc, cur, rc, todo_a, todo_b, first_error, Coming, ToAdd>>
  BY <1>1 DEF WorkerPops, planVars, Coming, ToAdd
<1> DEFINE x == Head(Buffered)
<1>3. /\ task_out' = [task_out EXCEPT ![w] = x]
      /\ x \in Queued
      /\ Queued' = Queued \ {x}
      /\ Distinct(Buffered)'
  BY PopUnqueues DEF WorkerPops, PlacesInv, WorkApart
<1> HIDE DEF x
<1>4. x \notin Held
  BY <1>3 DEF PlacesInv, WorkApart
<1>5. /\ wpc \in [Workers -> WorkerLabels]
      /\ task_out \in [Workers -> Task \cup {NoTask}]
      /\ wpc[w] = "pop"
      /\ wpc' = [wpc EXCEPT ![w] = "compare"]
      /\ HoldersApart
  BY DEF PlacesInv, PlanTypeOK, QueueInv, QueueTypeOK, WorkerPops, WorkerGoes,
         WorkApart
<1>6. Held' = Held \cup {x} /\ HoldersApart'
  BY <1>3, <1>4, <1>5, HeldAfterPop
<1>7. Pending' = Pending
  BY <1>2, <1>3, <1>6 DEF Pending
<1>8. WorkApart'
  BY <1>1, <1>2, <1>3, <1>4, <1>6, <1>7 DEF PlacesInv, WorkApart
<1>9. Failed' = Failed /\ Result = "running" /\ Result' = "running"
  BY <1>2, <1>5 DEF Failed, Result
<1> QED BY <1>1, <1>7, <1>8, <1>9 DEF Advances, DecidesNothing

\* A worker is done with the two files of its task.
LEMMA CompareAdvances ==
  ASSUME PlacesInv, NEW w \in Workers, pc # "done",
         Compare(w) \/ CompareFails(w) \/ CompareNotRecorded(w)
  PROVE  Advances
<1> DEFINE p == task_out[w]
<1>1. UNCHANGED <<pc, cur, rc, todo_a, todo_b, input, first_error, Coming,
                  ToAdd, task_out, Buffered, Queued>>
  <2>1. UNCHANGED <<queueVars, planVars, first_error>>
    BY DEF Compare, CompareFails, CompareNotRecorded
  <2>2. UNCHANGED <<Buffered, Queued, task_out>>
    BY <2>1, RingAloneSteps DEF Threads
  <2> QED BY <2>1, <2>2 DEF planVars, Coming, ToAdd
<1>2. /\ wpc \in [Workers -> WorkerLabels]
      /\ wpc[w] = "compare"
      /\ \E l \in {"pop", "set_error"} : wpc' = [wpc EXCEPT ![w] = l]
  BY DEF PlacesInv, PlanTypeOK, Compare, CompareFails, CompareNotRecorded,
         WorkerGoes
<1>3. /\ p \in Held
      /\ Held' = Held \ {p}
      /\ HoldersApart'
  BY <1>1, <1>2, HeldAfterCompare DEF PlacesInv, WorkApart
<1> HIDE DEF p
<1>4. /\ p \in Pending /\ p \in DOMAIN input.index_a /\ p \in Path
      /\ p \notin DOMAIN ordered
      /\ p \notin todo_a \cup ToAdd \cup Coming \cup Queued
  BY <1>3, InputShape DEF PlacesInv, WorkApart, Pending, ToAdd
<1>5. Pending' = Pending \ {p}
  BY <1>1, <1>3, <1>4 DEF Pending
<1>6. Result = "running" /\ Result' = "running"
  BY <1>1 DEF Result
<1>7. ASSUME DOMAIN ordered' \subseteq DOMAIN ordered \cup {p}
      PROVE  WorkApart'
  BY <1>1, <1>3, <1>5, <1>7 DEF PlacesInv, WorkApart
<1>8. CASE Compare(w)
  <2>1. Failed' = Failed
    BY <1>1, <1>2, <1>8 DEF Failed, Compare, WorkerGoes
  <2>2. InA(p) /\ InB(p) /\ p \in Path
    BY <1>4, <1>8 DEF Compare, InBoth, InA, InB, p
  <2>3. CASE Recorded(p)
    <3>1. /\ ResultPush(CompareVerdicts!Verdict(p))
          /\ CompareVerdicts!Verdict(p) \in ChangeRecord
          /\ CompareVerdicts!Listed(p)
      BY <1>8, <2>2, <2>3, FoundVerdict DEF Compare, p, PlacesInv
    <3>2. ViewsOK' /\ DOMAIN ordered' = DOMAIN ordered \cup {p} /\ Decides(p)
      BY <1>1, <1>4, <1>5, <3>1, RecordingDecides DEF PlacesInv
    <3> QED BY <1>4, <1>6, <1>7, <2>1, <3>2 DEF Advances
  <2>4. CASE ~Recorded(p)
    <3>1. /\ FoundType(p) = "UNCHANGED" /\ ~input.include_unchanged
          /\ ResultNote("UNCHANGED")
      BY <1>8, <2>4 DEF Compare, p, Recorded
    <3>2. /\ CompareVerdicts!Type(p) = "UNCHANGED"
          /\ ~CompareVerdicts!Listed(p)
      BY <2>2, <2>4, <3>1, FoundVerdict DEF PlacesInv
    <3>3. /\ ViewsOK' /\ UNCHANGED <<ordered, records>>
          /\ tally' = [tally EXCEPT !["UNCHANGED"] = @ + 1]
      BY <1>1, <3>1, NoteKeepsViews DEF PlacesInv, ViewsOK
    <3>4. Reported' = Reported
          /\ {v \in {CompareVerdicts!Verdict(p)} : CompareVerdicts!Listed(p)} = {}
      BY <3>2, <3>3 DEF Reported
    <3>5. Decides(p)
      BY <1>4, <1>5, <3>2, <3>3, <3>4 DEF Decides
    <3> QED BY <1>4, <1>6, <1>7, <2>1, <3>3, <3>5 DEF Advances
  <2> QED BY <2>3, <2>4
<1>9. CASE CompareFails(w) \/ CompareNotRecorded(w)
  <2>1. wpc'[w] = "set_error"
    BY <1>2, <1>9 DEF CompareFails, CompareNotRecorded, WorkerGoes
  <2>2. Failed'
    BY <2>1 DEF Failed
  <2>3. CASE CompareFails(w)
    <3>1. ViewsOK' /\ UNCHANGED <<Reported, tally, ordered>>
      BY <1>1, <2>3, RecordsAlone DEF PlacesInv, CompareFails
    <3>2. Drops(p)
      BY <1>5, <3>1 DEF Drops
    <3> QED BY <1>4, <1>6, <1>7, <2>2, <3>1, <3>2 DEF Advances
  <2>4. CASE CompareNotRecorded(w)
    <3>1. InA(p) /\ InB(p)
      BY <2>4 DEF CompareNotRecorded, InBoth, InA, InB, p
    <3>2. /\ Found(p) \in ChangeRecord
          /\ ResultPushNoArray \/ ResultPushNoNode(Found(p))
      BY <1>4, <2>4, <3>1, FoundVerdict DEF CompareNotRecorded, PlacesInv, p
    <3>3. ViewsOK' /\ ordered' = ordered /\ Drops(p)
      BY <1>1, <1>5, <3>2, NotRecordingDrops DEF PlacesInv
    <3> QED BY <1>4, <1>6, <1>7, <2>2, <3>3 DEF Advances
  <2> QED BY <1>9, <2>3, <2>4
<1> QED BY <1>8, <1>9

\* What else a worker does touches no path.
LEMMA WorkerQuietlyAdvances ==
  ASSUME PlacesInv, WorkersWind, NEW w \in Workers, pc # "done",
         WorkerWaits(w) \/ WorkerExits(w) \/ SetError(w) \/ WorkerShutsDown(w)
  PROVE  Advances
<1>1. UNCHANGED <<resultVars, planVars>>
  BY DEF WorkerWaits, WorkerExits, SetError, WorkerShutsDown
<1>2. UNCHANGED <<Buffered, Queued, task_out>>
  BY RingAloneSteps
  DEF WorkerWaits, WorkerExits, SetError, WorkerShutsDown, Threads
<1>3. /\ wpc \in [Workers -> WorkerLabels]
      /\ wpc[w] # "compare"
      /\ \E l \in WorkerLabels \ {"compare"} : wpc' = [wpc EXCEPT ![w] = l]
  <2>1. wpc \in [Workers -> WorkerLabels]
    BY DEF PlacesInv, PlanTypeOK
  <2>2. CASE WorkerWaits(w)
    <3>1. wpc' = [wpc EXCEPT ![w] = "pop"]
      BY <2>1, <2>2 DEF WorkerWaits, workVars
    <3> QED BY <2>1, <2>2, <3>1 DEF WorkerWaits, WorkerLabels
  <2> QED BY <2>1, <2>2
    DEF WorkerExits, SetError, WorkerShutsDown, WorkerGoes, WorkerLabels
<1>4. UNCHANGED Held /\ HoldersApart'
  BY <1>2, <1>3, HeldUnmoved DEF PlacesInv, WorkApart
<1>5. ViewsOK' /\ WorkApart' /\ DecidesNothing
  BY <1>1, <1>2, <1>4, PlacesAlone DEF planVars, ToAdd, Coming
<1>6. Result = "running" /\ Result' = "running"
  BY <1>1 DEF Result, planVars
<1>7. Failed' = Failed \/ Failed'
  <2>1. CASE SetError(w)
    <3>1. first_error' # "OK"
      BY <2>1 DEF SetError, WorkerGoes, WorkersWind
    <3> QED BY <3>1 DEF Failed
  <2>2. CASE WorkerWaits(w)
    BY <2>2 DEF WorkerWaits, workVars, planVars, Failed
  <2>3. CASE WorkerExits(w) \/ WorkerShutsDown(w)
    <3>1. UNCHANGED <<rc, first_error>> /\ wpc' = [wpc EXCEPT ![w] = "exited"]
          /\ wpc[w] # "set_error"
      BY <2>3 DEF WorkerExits, WorkerShutsDown, WorkerGoes, planVars
    <3> QED BY <1>3, <3>1 DEF Failed
  <2> QED BY <2>1, <2>2, <2>3
<1> QED BY <1>5, <1>6, <1>7 DEF Advances

----------------------------------------------------------------------------
(* How a run ends *)

\* The last step decides no path, and may call the run a success only if
\* nothing failed and every path has its verdict.
Ends ==
  /\ ViewsOK'
  /\ WorkApart'
  /\ DecidesNothing
  /\ Result = "running"
  /\ \/ Failed' /\ Result' = "failure"
     \/ ~Failed /\ ~Failed' /\ Result' = "success" /\ Pending = {}

\* With nothing failed, nothing is left when the workers have been joined.
LEMMA JoinedMeansDone ==
  ASSUME VerdictInv, pc = "collect", ~Failed
  PROVE  Pending = {}
<1>1. rc = "OK" /\ first_error = "OK"
  BY DEF Failed
<1>2. todo_a = {} /\ todo_b = {} /\ \A w \in Workers : wpc[w] # "absent"
  BY <1>1 DEF VerdictInv, PlannerWinds
<1>3. \A w \in Workers : wpc[w] = "exited"
  BY <1>2 DEF VerdictInv, PlacesInv, PoolInv, NoUseAfterDestroy
<1>4. count = 0
  BY <1>1, <1>3, PoolAssumption DEF VerdictInv, WorkersWind
<1>5. Coming = {} /\ ToAdd = {} /\ Held = {} /\ Queued = {}
  BY <1>2, <1>3, <1>4 DEF Coming, ToAdd, Held, Holders, Queued
<1> QED BY <1>2, <1>5 DEF Pending

LEMMA LastStepEnds ==
  ASSUME VerdictInv, [Next]_vars, SetupFails \/ AbandonPool \/ Collect
  PROVE  Ends
<1>1. ViewsOK' /\ WorkApart' /\ DecidesNothing
  BY PlannerPlacesAlone DEF VerdictInv
<1>2. Result = "running" /\ pc' = "done"
  BY DEF SetupFails, AbandonPool, Collect, PlannerGoes, Result
<1>3. CASE SetupFails
  <2>1. rc' = "ENOMEM"
    BY <1>3 DEF SetupFails
  <2> QED BY <1>1, <1>2, <2>1 DEF Ends, Failed, Result
<1>4. CASE AbandonPool
  <2>1. rc' # "OK"
    BY <1>4 DEF AbandonPool, PlannerGoes, VerdictInv, PlannerWinds
  <2> QED BY <1>1, <1>2, <2>1 DEF Ends, Failed, Result
<1>5. CASE Collect
  <2>1. /\ pc = "collect"
        /\ rc' = Outcome(rc, first_error)
        /\ UNCHANGED <<first_error, wpc>>
    BY <1>5 DEF Collect, PlannerGoes, workVars
  <2>2. \A w \in Workers : wpc[w] # "set_error"
    BY <2>1 DEF VerdictInv, PlacesInv, PoolInv, NoUseAfterDestroy
  <2>3. CASE Failed
    <3>1. rc' # "OK"
      BY <2>1, <2>2, <2>3 DEF Failed, Outcome
    <3> QED BY <1>1, <1>2, <3>1 DEF Ends, Failed, Result
  <2>4. CASE ~Failed
    <3>1. rc' = "OK" /\ first_error' = "OK"
      BY <2>1, <2>4 DEF Failed, Outcome
    <3>2. ~Failed' /\ Result' = "success"
      BY <1>2, <2>1, <2>2, <3>1 DEF Failed, Result
    <3>3. Pending = {}
      BY <2>1, <2>4, JoinedMeansDone
    <3> QED BY <1>1, <1>2, <2>4, <3>2, <3>3 DEF Ends
  <2> QED BY <2>3, <2>4
<1> QED BY <1>3, <1>4, <1>5

\* Wakeups, and steps that change nothing.
Idles ==
  /\ ViewsOK'
  /\ WorkApart'
  /\ DecidesNothing
  /\ UNCHANGED <<Failed, Result>>

LEMMA QuietIdles ==
  ASSUME PlacesInv,
         UNCHANGED <<items, head, count, task_out, resultVars, planVars,
                     workVars>>
  PROVE  Idles
<1>1. UNCHANGED <<Buffered, Queued>>
  BY RingAlone
<1>2. UNCHANGED Held /\ HoldersApart'
  BY HeldUnmoved DEF PlacesInv, PlanTypeOK, WorkApart, workVars
<1>3. ViewsOK' /\ WorkApart' /\ DecidesNothing
  BY <1>1, <1>2, PlacesAlone DEF planVars, ToAdd, Coming
<1>4. UNCHANGED <<Failed, Result>>
  BY DEF Failed, Result, planVars, workVars
<1> QED BY <1>3, <1>4 DEF Idles

\* Every step advances the comparison, ends it, or is idle.
LEMMA EveryStep ==
  ASSUME VerdictInv, [Next]_vars
  PROVE  Advances \/ Ends \/ Idles
<1>1. CASE PlannerStep
  <2>1. PlacesInv
    BY DEF VerdictInv
  <2>2. CASE \E p \in Path : Removed(p) \/ Resized(p) \/ Added(p)
    BY <2>1, <2>2, LoopStepsAdvance
  <2>3. CASE (\E p \in Path : Candidate(p)) \/ Enqueue \/ EnqueueCanceled
    BY <2>1, <2>3, EnqueueingAdvances
  <2>4. CASE SetupFails \/ AbandonPool \/ Collect
    BY <2>4, LastStepEnds
  <2>5. CASE \/ Setup \/ CreateFails \/ EnqueueBlocks
             \/ LoopADone \/ LoopBDone \/ Shutdown \/ Join
             \/ \E w \in Workers : CreateWorker(w)
             \/ \E p \in Path : Met(p)
    BY <2>1, <2>5, PlannerQuietlyAdvances
  <2> QED BY <1>1, <2>2, <2>3, <2>4, <2>5 DEF PlannerStep
<1>2. ASSUME NEW w \in Workers, WorkerStep(w)
      PROVE  Advances
  <2>1. PlacesInv /\ WorkersWind
    BY DEF VerdictInv
  <2>2. pc # "done"
    <3>1. wpc[w] \notin {"absent", "exited"}
      BY <1>2, <2>1, WorkerMoves DEF PlacesInv
    <3> QED BY <2>1, <3>1 DEF PlacesInv, PoolInv, NoUseAfterDestroy
  <2> QED
    BY <1>2, <2>1, <2>2, PopAdvances, CompareAdvances, WorkerQuietlyAdvances
    DEF WorkerStep
<1>3. ASSUME NEW t \in Threads, Spurious(t)
      PROVE  Idles
  BY <1>3, QuietIdles DEF Spurious, SpuriousWakeup, VerdictInv
<1>4. CASE UNCHANGED vars
  BY <1>4, QuietIdles DEF vars, queueVars, VerdictInv
<1> QED BY <1>1, <1>2, <1>3, <1>4 DEF Next, Terminated

LEMMA PlannerWindsOn ==
  ASSUME PlacesInv, PlannerWinds, [Next]_vars
  PROVE  PlannerWinds'
<1>1. CASE PlannerStep
  BY <1>1, PlannerStepWinds DEF PlacesInv
<1>2. ASSUME NEW w \in Workers, WorkerStep(w)
      PROVE  PlannerWinds'
  BY <1>2, WorkerStepKeepsPlannerWinds DEF PlacesInv
<1>3. CASE UNCHANGED <<planVars, workVars>>
  BY <1>3 DEF PlannerWinds, planVars, workVars
<1> QED BY <1>1, <1>2, <1>3 DEF Next, Terminated, vars, Spurious

LEMMA WorkersWindOn ==
  ASSUME PlacesInv, WorkersWind, [Next]_vars
  PROVE  WorkersWind'
<1>1. CASE PlannerStep
  BY <1>1, PlannerStepKeepsWorkersWind DEF PlacesInv
<1>2. ASSUME NEW w \in Workers, WorkerStep(w)
      PROVE  WorkersWind'
  BY <1>2, WorkerStepKeepsWorkersWind DEF PlacesInv
<1>3. CASE UNCHANGED <<workVars, count>>
  BY <1>3 DEF WorkersWind, workVars
<1> QED BY <1>1, <1>2, <1>3
  DEF Next, Terminated, vars, queueVars, Spurious, SpuriousWakeup

LEMMA VerdictInvInductive == VerdictInv /\ [Next]_vars => VerdictInv'
<1> SUFFICES ASSUME VerdictInv, [Next]_vars PROVE VerdictInv'
  OBVIOUS
<1>1. PoolInv' /\ QueueInv' /\ PlanTypeOK'
  BY PoolStepInv, PoolUsesQueue, QueueStepInv, PlanTyped
  DEF VerdictInv, PlacesInv
<1>2. ViewsOK' /\ WorkApart'
  BY EveryStep DEF Advances, Ends, Idles
<1>3. PlannerWinds' /\ WorkersWind'
  BY PlannerWindsOn, WorkersWindOn DEF VerdictInv
<1> QED BY <1>1, <1>2, <1>3 DEF VerdictInv, PlacesInv

LEMMA VerdictInvInit == Init => VerdictInv
<1> SUFFICES ASSUME Init PROVE VerdictInv
  OBVIOUS
<1>1. PoolInv /\ QueueInv
  BY PoolInitInv, QueueInitInv DEF Init
<1>2. PlanTypeOK
  BY PoolAssumption
  DEF Init, PlanTypeOK, PlannerLabels, WorkerLabels, Codes
<1>3. ViewsOK
  <2>1. /\ records = <<>> /\ ordered = <<>> /\ record_capacity = 0
        /\ tally = [c \in ChangeType |-> 0]
    BY DEF Init, ResultInit
  <2>2. Len(records) = 0 /\ 1 .. Len(records) = {} /\ DOMAIN ordered = {}
    BY <2>1
  <2>3. \A c \in ChangeType : OfType(c) = {}
    BY <2>2 DEF OfType
  <2>4. ResultTypeOK
    BY <2>1, <2>2 DEF ResultTypeOK
  <2>5. ReportConsistent
    BY <2>1, <2>2, <2>3, FS_EmptySet DEF ReportConsistent, OfType
  <2> QED BY <2>4, <2>5 DEF ViewsOK
<1>4. WorkApart
  <2>1. Buffered = <<>> /\ Queued = {} /\ Coming = {} /\ Holders = {}
    BY DEF Init, QueueInit, Buffered, Queued, Coming, Holders
  <2>2. Held = {} /\ HoldersApart /\ Distinct(Buffered)
    BY <2>1 DEF Held, HoldersApart, Distinct
  <2> QED BY <2>1, <2>2 DEF WorkApart, Init, ResultInit
<1>5. PlannerWinds /\ WorkersWind
  BY DEF Init, PlannerWinds, WorkersWind
<1> QED BY <1>1, <1>2, <1>3, <1>4, <1>5 DEF VerdictInv, PlacesInv

LEMMA VerdictInvariant == Spec => []VerdictInv
<1>1. Init => VerdictInv
  BY VerdictInvInit
<1>2. VerdictInv /\ [Next]_vars => VerdictInv'
  BY VerdictInvInductive
<1> QED BY <1>1, <1>2, PTL DEF Spec

\* The variables of planner, pool, queue and result set keep their types,
\* for any number of workers, any capacity, any trees and any failures.
THEOREM PoolTypeCorrect == Spec => []TypeOK
<1>1. VerdictInv => TypeOK
  BY DEF VerdictInv, PlacesInv, PlanTypeOK, ViewsOK, QueueInv, TypeOK
<1> QED BY <1>1, VerdictInvariant, PTL

\* At every moment, in the middle of a run and after failed pushes, the tree
\* leads to each record and to nothing else, and the counters count the
\* records (result_set_push in src/index.c, called by all threads).
THEOREM ReportConsistentEver == Spec => []ReportConsistent
<1>1. VerdictInv => ReportConsistent
  BY DEF VerdictInv, PlacesInv, ViewsOK
<1> QED BY <1>1, VerdictInvariant, PTL

----------------------------------------------------------------------------
(* plan_and_compare implements Comparison *)

LEMMA ComparisonInit == Init => CompareVerdicts!Init
<1> SUFFICES ASSUME Init PROVE CompareVerdicts!Init
  OBVIOUS
<1>1. Buffered = <<>> /\ Queued = {} /\ Coming = {} /\ Held = {}
  BY DEF Init, QueueInit, Buffered, Queued, Coming, Holders, Held
<1>2. Pending = CompareVerdicts!AllPaths
  BY <1>1 DEF Init, Pending, ToAdd, CompareVerdicts!AllPaths
<1>3. Reported = {} /\ tally = [c \in CompareVerdicts!ChangeType |-> 0]
  BY DEF Init, ResultInit, Reported, ChangeType, CompareVerdicts!ChangeType
<1>4. Failed = FALSE /\ Result = "running" /\ input \in Inputs
  BY DEF Init, Failed, Result
<1> QED BY <1>2, <1>3, <1>4
  DEF CompareVerdicts!Init, Pending, ToAdd, Coming, Queued, Held, Holders,
      Reported, Failed, Result

LEMMA ComparisonStep ==
  ASSUME VerdictInv, [Next]_vars
  PROVE  [CompareVerdicts!Next]_(CompareVerdicts!vars)
<1>1. input' = input
  BY InputStays
<1>2. ASSUME NEW p \in Path, Decides(p), Failed' = Failed,
             Result = "running", Result' = "running"
      PROVE  CompareVerdicts!Decide(p)
  BY <1>1, <1>2
  DEF CompareVerdicts!Decide, Decides, Pending, ToAdd, Coming, Queued, Held,
      Holders, Reported, Failed, Result
<1>3. ASSUME NEW p \in Path, Drops(p), Failed',
             Result = "running", Result' = "running"
      PROVE  CompareVerdicts!Fail({p})
  BY <1>1, <1>3
  DEF CompareVerdicts!Fail, Drops, Pending, ToAdd, Coming, Queued, Held,
      Holders, Reported, Failed, Result
<1>4. ASSUME DecidesNothing, Failed', Result = "running", Result' = "running"
      PROVE  CompareVerdicts!Fail({})
  <2>1. Pending' = Pending \ {}
    BY <1>4 DEF DecidesNothing
  <2> QED BY <1>1, <1>4, <2>1
    DEF CompareVerdicts!Fail, DecidesNothing, Pending, ToAdd, Coming, Queued,
        Held, Holders, Reported, Failed, Result
<1>5. ASSUME DecidesNothing, Failed' = Failed, Result' = Result
      PROVE  UNCHANGED CompareVerdicts!vars
  BY <1>1, <1>5
  DEF CompareVerdicts!vars, DecidesNothing, Pending, ToAdd, Coming, Queued,
      Held, Holders, Reported, Failed, Result
<1>6. ASSUME DecidesNothing, Failed', Result = "running", Result' = "failure"
      PROVE  CompareVerdicts!Refuse
  BY <1>1, <1>6
  DEF CompareVerdicts!Refuse, DecidesNothing, Pending, ToAdd, Coming, Queued,
      Held, Holders, Reported, Failed, Result
<1>7. ASSUME DecidesNothing, ~Failed, ~Failed', Pending = {},
             Result = "running", Result' = "success"
      PROVE  CompareVerdicts!Finish
  BY <1>1, <1>7
  DEF CompareVerdicts!Finish, DecidesNothing, Pending, ToAdd, Coming, Queued,
      Held, Holders, Reported, Failed, Result
<1>8. CASE Advances
  BY <1>2, <1>3, <1>4, <1>5, <1>8 DEF Advances, CompareVerdicts!Next
<1>9. CASE Ends
  BY <1>6, <1>7, <1>9 DEF Ends, CompareVerdicts!Next
<1>10. CASE Idles
  BY <1>5, <1>10 DEF Idles
<1> QED BY <1>8, <1>9, <1>10, EveryStep

\* For any number of workers, any capacity, any trees and any failures,
\* planner, queue and workers together decide every path once and with the
\* right verdict, and never call a run a success in which anything failed
\* (plan_and_compare in src/planner.c).
THEOREM PoolImplementsComparison == Spec => ImplementsComparison
<1>1. Init => CompareVerdicts!Init
  BY ComparisonInit
<1>2. VerdictInv /\ [Next]_vars =>
        [CompareVerdicts!Next]_(CompareVerdicts!vars)
  BY ComparisonStep
<1> QED
  BY <1>1, <1>2, VerdictInvariant, PTL
  DEF Spec, ImplementsComparison, CompareVerdicts!Spec

----------------------------------------------------------------------------
(* A success is complete *)

\* The paths that have had their verdict, those of a type among them, and the
\* records they are due.
Decided == CompareVerdicts!AllPaths \ Pending

DecidedAs(c) == {p \in Decided : CompareVerdicts!Type(p) = c}

DueRecords ==
  {CompareVerdicts!Verdict(p) : p \in {q \in Decided : CompareVerdicts!Listed(q)}}

\* As long as nothing has failed, report and summary are those of the paths
\* decided so far.
CompleteSoFar ==
  ~Failed =>
    /\ Reported = DueRecords
    /\ \A c \in ChangeType : tally[c] = Cardinality(DecidedAs(c))

SuccessIsClean == Result = "success" => ~Failed /\ Pending = {}

LEMMA PendingAreOurs ==
  ASSUME PlacesInv
  PROVE  Pending \subseteq CompareVerdicts!AllPaths
BY DEF PlacesInv, PlanTypeOK, WorkApart, Pending, ToAdd,
       CompareVerdicts!AllPaths

\* The verdict on a path depends on the input alone.
LEMMA VerdictsStay ==
  ASSUME input' = input
  PROVE  /\ CompareVerdicts!AllPaths' = CompareVerdicts!AllPaths
         /\ \A p : /\ CompareVerdicts!Verdict(p)' = CompareVerdicts!Verdict(p)
                   /\ CompareVerdicts!Type(p)' = CompareVerdicts!Type(p)
                   /\ CompareVerdicts!Listed(p)' = CompareVerdicts!Listed(p)
BY DEF CompareVerdicts!AllPaths, CompareVerdicts!Verdict,
       CompareVerdicts!Type, CompareVerdicts!Detail, CompareVerdicts!SizeIn,
       CompareVerdicts!Listed

LEMMA DecidingKeepsComplete ==
  ASSUME VerdictInv, input' = input, NEW p \in Path, Decides(p),
         Failed' = Failed, CompleteSoFar
  PROVE  CompleteSoFar'
<1> SUFFICES ASSUME ~Failed
             PROVE  /\ Reported' = DueRecords'
                    /\ \A c \in ChangeType :
                         tally'[c] = Cardinality(DecidedAs(c)')
  BY DEF CompleteSoFar
<1>1. Decided' = Decided \cup {p} /\ p \notin Decided
  <2>1. p \in CompareVerdicts!AllPaths
    BY PendingAreOurs DEF VerdictInv, Decides
  <2> QED BY <2>1, VerdictsStay DEF Decided, Decides
<1>2. Reported' = DueRecords'
  <2>1. Reported = DueRecords
    BY DEF CompleteSoFar
  <2>2. DueRecords' = {CompareVerdicts!Verdict(q) :
                         q \in {r \in Decided' : CompareVerdicts!Listed(r)}}
    BY VerdictsStay DEF DueRecords
  <2>3. DueRecords' = DueRecords \cup {v \in {CompareVerdicts!Verdict(p)} :
                                         CompareVerdicts!Listed(p)}
    BY <1>1, <2>2 DEF DueRecords
  <2> QED BY <2>1, <2>3 DEF Decides
<1>3. ASSUME NEW c \in ChangeType
      PROVE  tally'[c] = Cardinality(DecidedAs(c)')
  <2>1. tally[c] = Cardinality(DecidedAs(c)) /\ tally \in [ChangeType -> Nat]
    BY DEF CompleteSoFar, VerdictInv, PlacesInv, ViewsOK, ResultTypeOK
  <2>2. IsFiniteSet(DecidedAs(c))
    <3>1. IsFiniteSet(CompareVerdicts!AllPaths)
      BY InputShape DEF VerdictInv, PlacesInv
    <3>2. DecidedAs(c) \subseteq CompareVerdicts!AllPaths
      BY DEF DecidedAs, Decided
    <3> QED BY <3>1, <3>2, FS_Subset
  <2>3. DecidedAs(c)' = {q \in Decided' : CompareVerdicts!Type(q) = c}
    BY VerdictsStay DEF DecidedAs
  <2>4. CASE c = CompareVerdicts!Type(p)
    <3>1. DecidedAs(c)' = DecidedAs(c) \cup {p} /\ p \notin DecidedAs(c)
      BY <1>1, <2>3, <2>4 DEF DecidedAs
    <3> DEFINE S == DecidedAs(c)
    <3> HIDE DEF S
    <3>2. Cardinality(S \cup {p}) = Cardinality(S) + 1
      BY <2>2, <3>1, FS_AddElement DEF S
    <3>3. tally'[c] = tally[c] + 1
      BY <2>1, <2>4 DEF Decides
    <3> QED BY <2>1, <3>1, <3>2, <3>3 DEF S
  <2>5. CASE c # CompareVerdicts!Type(p)
    <3>1. DecidedAs(c)' = DecidedAs(c)
      BY <1>1, <2>3, <2>5 DEF DecidedAs
    <3>2. tally'[c] = tally[c]
      BY <2>1, <2>5 DEF Decides
    <3> QED BY <2>1, <3>1, <3>2
  <2> QED BY <2>4, <2>5
<1> QED BY <1>2, <1>3

LEMMA CompletenessInductive ==
  VerdictInv /\ CompleteSoFar /\ SuccessIsClean /\ [Next]_vars =>
    CompleteSoFar' /\ SuccessIsClean'
<1> SUFFICES ASSUME VerdictInv, CompleteSoFar, SuccessIsClean, [Next]_vars
             PROVE  CompleteSoFar' /\ SuccessIsClean'
  OBVIOUS
<1>1. input' = input
  BY InputStays
<1>2. ASSUME DecidesNothing, ~Failed' => ~Failed
      PROVE  CompleteSoFar'
  <2>1. Reported' = Reported /\ tally' = tally /\ Decided' = Decided
    BY <1>1, <1>2, VerdictsStay DEF DecidesNothing, Decided
  <2>2. DueRecords' = DueRecords /\ \A c : DecidedAs(c)' = DecidedAs(c)
    BY <1>1, <2>1, VerdictsStay DEF DueRecords, DecidedAs
  <2> QED BY <1>2, <2>1, <2>2 DEF CompleteSoFar
<1>3. CASE Advances
  <2>1. SuccessIsClean'
    BY <1>3 DEF Advances, SuccessIsClean
  <2>2. CompleteSoFar'
    <3>1. ASSUME NEW p \in Path, Decides(p), Failed' = Failed
          PROVE  CompleteSoFar'
      BY <1>1, <3>1, DecidingKeepsComplete
    <3>2. CASE Failed'
      BY <3>2 DEF CompleteSoFar
    <3>3. CASE DecidesNothing /\ Failed' = Failed
      BY <1>2, <3>3
    <3> QED BY <1>3, <3>1, <3>2, <3>3 DEF Advances
  <2> QED BY <2>1, <2>2
<1>4. CASE Ends
  <2>1. CompleteSoFar'
    BY <1>2, <1>4 DEF Ends, CompleteSoFar
  <2>2. SuccessIsClean'
    BY <1>4 DEF Ends, SuccessIsClean, DecidesNothing
  <2> QED BY <2>1, <2>2
<1>5. CASE Idles
  <2>1. CompleteSoFar'
    BY <1>2, <1>5 DEF Idles
  <2>2. SuccessIsClean'
    BY <1>5 DEF Idles, SuccessIsClean, DecidesNothing
  <2> QED BY <2>1, <2>2
<1> QED BY <1>3, <1>4, <1>5, EveryStep

LEMMA CompletenessInit == Init => CompleteSoFar /\ SuccessIsClean
<1> SUFFICES ASSUME Init PROVE CompleteSoFar /\ SuccessIsClean
  OBVIOUS
<1>1. Decided = {}
  BY DEF Init, Decided, Pending, ToAdd, CompareVerdicts!AllPaths
<1>2. Reported = {} /\ DueRecords = {}
  BY <1>1 DEF Init, ResultInit, Reported, DueRecords
<1>3. \A c \in ChangeType : tally[c] = 0 /\ DecidedAs(c) = {}
  BY <1>1 DEF Init, ResultInit, DecidedAs
<1>4. Result # "success"
  BY DEF Init, Result
<1> QED BY <1>2, <1>3, <1>4, FS_EmptySet DEF CompleteSoFar, SuccessIsClean

\* When plan_and_compare returns 0, the report has one record for every path
\* of either tree that is to be listed and none besides, and the summary
\* counts every path once: for any number of workers, capacity and trees.
THEOREM CompleteOnSuccessEver == Spec => []CompleteOnSuccess
<1>1. Spec => [](CompleteSoFar /\ SuccessIsClean)
  BY CompletenessInit, CompletenessInductive, VerdictInvariant, PTL DEF Spec
<1>2. CompleteSoFar /\ SuccessIsClean => CompleteOnSuccess
  <2> SUFFICES ASSUME CompleteSoFar, SuccessIsClean, pc = "done", rc = "OK"
               PROVE  CompleteOnSuccess
    BY DEF CompleteOnSuccess
  <2>1. ~Failed /\ Decided = CompareVerdicts!AllPaths
    BY DEF SuccessIsClean, Result, Decided
  <2> QED BY <2>1
    DEF CompleteSoFar, CompleteOnSuccess, Reported, DueRecords, DecidedAs
<1> QED BY <1>1, <1>2, PTL
=============================================================================
