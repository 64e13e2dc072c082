----------------------------- MODULE ResultSet -----------------------------
(***************************************************************************)
(* The ResultSet of include/common.h and its operations in src/index.c:    *)
(* the verdicts of a run, written by the planner and by every worker under *)
(* the set's mutex, so that one operation is one action.                   *)
(*                                                                         *)
(* records is items[0 .. count-1] (numbered from 1 here).  ordered is the  *)
(* content of the tree at ordered_root: which record a path leads to; the  *)
(* tree itself is modelled in PathTree.  The line differences of a record  *)
(* are left out.                                                           *)
(***************************************************************************)
EXTENDS Integers, Sequences, FiniteSets

CONSTANTS
  Path,             \* relative paths
  InitialCapacity   \* first size of the items array, 64 in result_set_push

ASSUME ResultSetAssumption == InitialCapacity \in Nat \ {0}

VARIABLES
  records,          \* the records pushed, in the order they were pushed
  record_capacity,  \* allocated length of the items array
  tally,            \* unchanged_count, modified_count, added_count, removed_count
  ordered           \* path |-> position in records

resultVars == <<records, record_capacity, tally, ordered>>

ChangeType == {"UNCHANGED", "MODIFIED", "ADDED", "REMOVED"}

DetailKind == {"NONE", "LINES", "SIZE_CHANGED", "BINARY_CHANGED",
               "ONLY_IN_TARGET", "ONLY_IN_SOURCE"}

ChangeRecord == [path : Path, type : ChangeType, detail_kind : DetailKind,
                 size_a : Nat, size_b : Nat]

ResultTypeOK ==
  /\ records \in Seq(ChangeRecord)
  /\ record_capacity \in Nat
  /\ Len(records) <= record_capacity
  /\ tally \in [ChangeType -> Nat]
  /\ DOMAIN ordered \subseteq Path
  /\ \A p \in DOMAIN ordered : ordered[p] \in 1 .. Len(records)

----------------------------------------------------------------------------

ResultInit ==
  /\ records = <<>>
  /\ record_capacity = 0
  /\ tally = [c \in ChangeType |-> 0]
  /\ ordered = <<>>

\* Broken variants: counting down, and a rollback that forgets the counter.
CountedDown(t, type) == [t EXCEPT ![type] = @ - 1]
RolledBackNothing(t, type) == t

\* increment_counter, and its inverse in the rollback of result_set_push.
Counted(t, type) == [t EXCEPT ![type] = @ + 1]
RolledBack(t, type) == [t EXCEPT ![type] = @ - 1]

\* A full items array doubles before the next record goes in.
GrownCapacity ==
  IF Len(records) # record_capacity THEN record_capacity
  ELSE IF record_capacity = 0 THEN InitialCapacity
  ELSE 2 * record_capacity

\* path_tree_insert: a path already there leads to the new record.
Indexed(tree, path, i) ==
  [p \in DOMAIN tree \cup {path} |-> IF p = path THEN i ELSE tree[p]]

\* result_set_push, all of it succeeding.
ResultPush(rec) ==
  /\ records' = Append(records, rec)
  /\ record_capacity' = GrownCapacity
  /\ tally' = Counted(tally, rec.type)
  /\ ordered' = Indexed(ordered, rec.path, Len(records) + 1)

\* ENOMEM from the realloc: nothing has been touched.
ResultPushNoArray ==
  /\ Len(records) = record_capacity
  /\ UNCHANGED resultVars

\* ENOMEM from the tree node, which only a new path needs: the array keeps
\* its new size, the record and its count are taken back.
ResultPushNoNode(rec) ==
  /\ rec.path \notin DOMAIN ordered
  /\ record_capacity' = GrownCapacity
  /\ tally' = RolledBack(Counted(tally, rec.type), rec.type)
  /\ UNCHANGED <<records, ordered>>

\* result_set_note_type: count a verdict that gets no record.
ResultNote(type) ==
  /\ tally' = Counted(tally, type)
  /\ UNCHANGED <<records, record_capacity, ordered>>

=============================================================================
