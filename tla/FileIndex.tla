----------------------------- MODULE FileIndex -----------------------------
(***************************************************************************)
(* The FileIndex of include/common.h and its operations in src/index.c: an *)
(* open-addressing hash table with linear probing, filled by the scanner   *)
(* and read-only afterwards.                                               *)
(*                                                                         *)
(* One thread uses an index, so the steps of an upsert are not interleaved *)
(* with anything; they are separate actions because the table is rebuilt   *)
(* slot by slot, and the claims are about the table in the middle of it    *)
(* too.  Capacities are powers of two, where the code's & (capacity - 1)   *)
(* is % capacity.  mtime, which nothing reads, is left out.                *)
(***************************************************************************)
EXTENDS Arena, FiniteSets

CONSTANTS
  Path,
  Size,             \* file sizes
  Hash,             \* vd_hash_path: path |-> 64-bit number, not injective
  Length,           \* strlen of a path, plus 1
  None,             \* a slot that is not occupied; no upsert in progress
  InitialCapacity   \* a power of two: next_pow2 of the one asked for

IndexSlot == [key : Path, hash : Nat, size : Size]

ASSUME IndexAssumption ==
  /\ Hash \in [Path -> Nat]
  /\ Length \in [Path -> Nat \ {0}]
  /\ InitialCapacity \in Nat \ {0}
  /\ None \notin IndexSlot
  /\ None \notin [path : Path, size : Size] \cup [path : Path, value : Size]

VARIABLES
  slots,            \* 0 .. capacity-1, each None or an IndexSlot
  capacity,
  count,
  old_slots,        \* the table being replaced by file_index_rehash
  old_capacity,
  next,             \* the slot of it to be migrated next
  pc,               \* "idle", "rehash", "store"
  arg,              \* path and size of the upsert in progress
  outcome           \* result of the last upsert

vars == <<slots, capacity, count, old_slots, old_capacity, next, pc, arg,
          outcome, arenaVars>>

Table(n) == [0 .. n - 1 -> IndexSlot \cup {None}]

TypeOK ==
  /\ ArenaTypeOK
  /\ capacity \in Nat \ {0}
  /\ slots \in Table(capacity)
  /\ count \in Nat
  /\ old_capacity \in Nat
  /\ old_slots \in Table(old_capacity)
  /\ next \in 0 .. old_capacity
  /\ pc \in {"idle", "rehash", "store"}
  /\ arg \in [path : Path, size : Size] \cup {None}
  /\ pc # "idle" => arg # None
  /\ outcome \in {"none", "ok", "ENOMEM"}

----------------------------------------------------------------------------
(* Probing *)

\* The i-th slot probed for a hash in a table of n slots: probe_index and
\* the step of the probing loops.
Probed(hash, i, n) == (hash + i) % n

\* Where probing for a hash stops: the first slot, in probing order, whose
\* content is one of those given.
Stop(table, n, hash, contents) ==
  LET hits == {i \in 0 .. n - 1 : table[Probed(hash, i, n)] \in contents}
      first == CHOOSE i \in hits : \A j \in hits : i <= j
  IN Probed(hash, first, n)

\* A broken variant: matching on the hash alone.
SameHash(path) == [key : Path, hash : {Hash[path]}, size : Size]

\* The occupied slots file_index_find_slot takes for the path's.
Matching(path) == [key : {path}, hash : {Hash[path]}, size : Size]

\* file_index_find_slot: the slot of the path, or the free one it would take.
FindSlot(path) ==
  Stop(slots, capacity, Hash[path], Matching(path) \cup {None})

\* file_index_find and file_index_find_const: is there one, and its size.
Found(path) == slots[FindSlot(path)] # None

Find(path) == slots[FindSlot(path)].size

----------------------------------------------------------------------------
(* file_index_init, file_index_upsert *)

Init ==
  /\ ArenaInit
  /\ capacity = InitialCapacity
  /\ slots = [i \in 0 .. InitialCapacity - 1 |-> None]
  /\ count = 0
  /\ old_capacity = 0
  /\ old_slots = <<>>
  /\ next = 0
  /\ pc = "idle"
  /\ arg = None
  /\ outcome = "none"

\* A broken variant: growing only when the table is full.
Full(n, cap) == n >= cap

\* More than 70% of the slots would be in use.
Crowded(n, cap) == (n + 1) * 10 >= cap * 7

\* The upsert starts; there is room.
Upsert(path, size) ==
  /\ pc = "idle"
  /\ ~Crowded(count, capacity)
  /\ arg' = [path |-> path, size |-> size]
  /\ pc' = "store"
  /\ UNCHANGED <<slots, capacity, count, old_slots, old_capacity, next,
                 outcome, arenaVars>>

\* A broken variant: the new table without its capacity.
NewTableOnly(n) ==
  /\ slots' = [i \in 0 .. n - 1 |-> None]
  /\ UNCHANGED capacity

\* An empty table of n slots.
NewTable(n) ==
  /\ slots' = [i \in 0 .. n - 1 |-> None]
  /\ capacity' = n

\* The upsert starts with file_index_rehash: an empty table twice as large.
UpsertCrowded(path, size) ==
  /\ pc = "idle"
  /\ Crowded(count, capacity)
  /\ arg' = [path |-> path, size |-> size]
  /\ old_slots' = slots
  /\ old_capacity' = capacity
  /\ NewTable(2 * capacity)
  /\ count' = 0
  /\ next' = 0
  /\ pc' = "rehash"
  /\ UNCHANGED <<outcome, arenaVars>>

\* No memory for it: the upsert fails and the table stays.
UpsertNoTable ==
  /\ pc = "idle"
  /\ Crowded(count, capacity)
  /\ outcome' = "ENOMEM"
  /\ UNCHANGED <<slots, capacity, count, old_slots, old_capacity, next, pc,
                 arg, arenaVars>>

\* A broken variant: an entry keeps its place, home or not.
MigrateInPlace ==
  /\ pc = "rehash"
  /\ next < old_capacity
  /\ next' = next + 1
  /\ IF old_slots[next] = None
     THEN UNCHANGED <<slots, count>>
     ELSE /\ slots' = [slots EXCEPT ![next] = old_slots[next]]
          /\ count' = count + 1
  /\ UNCHANGED <<capacity, old_slots, old_capacity, pc, arg, outcome,
                 arenaVars>>

\* One round of the migration loop: an entry goes to the first free slot.
Migrate ==
  /\ pc = "rehash"
  /\ next < old_capacity
  /\ next' = next + 1
  /\ LET entry == old_slots[next]
     IN IF entry = None
        THEN UNCHANGED <<slots, count>>
        ELSE /\ slots' = [slots EXCEPT
                            ![Stop(slots, capacity, entry.hash, {None})] = entry]
             /\ count' = count + 1
  /\ UNCHANGED <<capacity, old_slots, old_capacity, pc, arg, outcome,
                 arenaVars>>

\* The old table is freed; the upsert goes on.
Migrated ==
  /\ pc = "rehash"
  /\ next = old_capacity
  /\ old_slots' = <<>>
  /\ old_capacity' = 0
  /\ next' = 0
  /\ pc' = "store"
  /\ UNCHANGED <<slots, capacity, count, arg, outcome, arenaVars>>

\* A path that is there already gets its new size.
Update ==
  /\ pc = "store"
  /\ Found(arg.path)
  /\ slots' = [slots EXCEPT ![FindSlot(arg.path)].size = arg.size]
  /\ pc' = "idle"
  /\ arg' = None
  /\ outcome' = "ok"
  /\ UNCHANGED <<capacity, count, old_slots, old_capacity, next, arenaVars>>

\* A new path takes the free slot the search ended at.
Insert ==
  /\ pc = "store"
  /\ ~Found(arg.path)
  /\ ArenaCopy(Length[arg.path])
  /\ slots' = [slots EXCEPT ![FindSlot(arg.path)] =
                 [key |-> arg.path, hash |-> Hash[arg.path],
                  size |-> arg.size]]
  /\ count' = count + 1
  /\ pc' = "idle"
  /\ arg' = None
  /\ outcome' = "ok"
  /\ UNCHANGED <<capacity, old_slots, old_capacity, next>>

\* string_arena_copy has no memory for it: a rehash done before stays done.
InsertNoString ==
  /\ pc = "store"
  /\ ~Found(arg.path)
  /\ ArenaRefuses(Length[arg.path])
  /\ pc' = "idle"
  /\ arg' = None
  /\ outcome' = "ENOMEM"
  /\ UNCHANGED <<slots, capacity, count, old_slots, old_capacity, next>>

Next ==
  \/ \E path \in Path, size \in Size :
       Upsert(path, size) \/ UpsertCrowded(path, size)
  \/ UpsertNoTable
  \/ Migrate
  \/ Migrated
  \/ Update
  \/ Insert
  \/ InsertNoString

Spec == Init /\ [][Next]_vars

----------------------------------------------------------------------------
(* Properties *)

Occupied(table, n) == {i \in 0 .. n - 1 : table[i] # None}

\* The table never fills up, not even halfway through a rehash, so every
\* probing loop meets a free slot and ends.
RoomToProbe ==
  /\ count = Cardinality(Occupied(slots, capacity))
  /\ count < capacity

\* The entries not yet migrated and those of the table: what the index holds
\* at any moment.
Entries ==
  {slots[i] : i \in Occupied(slots, capacity)}
  \cup {old_slots[i] : i \in Occupied(old_slots, old_capacity) \cap
                             next .. old_capacity - 1}

EntryOf(path) == CHOOSE e \in Entries : e.key = path

Map == INSTANCE PathMap WITH
  Value <- Size,
  map <- [path \in {e.key : e \in Entries} |-> EntryOf(path).size],
  pending <- IF arg = None THEN None
             ELSE [path |-> arg.path, value |-> arg.size]

\* The hash table is a map: an upsert changes the entry of its path and no
\* other, and one that fails, before or after a rehash, none at all.  No
\* entry is lost or doubled while the table grows.
ImplementsPathMap == Map!Spec

\* Between upserts a lookup finds a path exactly if it has an entry, and then
\* the size stored last, however hashes collide and probes wrap around.
FindAgrees ==
  pc = "idle" =>
    \A path \in Path :
      /\ Found(path) <=> \E e \in Entries : e.key = path
      /\ Found(path) => Find(path) = EntryOf(path).size
=============================================================================
