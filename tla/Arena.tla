------------------------------- MODULE Arena -------------------------------
(***************************************************************************)
(* The StringArena of src/arena.c: copies of strings are cut one after the *)
(* other from chunks and stay until the arena is destroyed.  Only lengths  *)
(* are modelled, terminator included.  The list of chunks is kept oldest   *)
(* first, so that arena->head is the last one.                             *)
(***************************************************************************)
EXTENDS Integers, Sequences

CONSTANT ChunkSize      \* 1 << 20 in file_index_init

ASSUME ArenaAssumption == ChunkSize \in Nat

VARIABLES
  chunks,
  granted       \* where each string went, in the order they came

arenaVars == <<chunks, granted>>

Chunk == [capacity : Nat, used : Nat]
Place == [chunk : Nat, from : Nat, len : Nat \ {0}]

ArenaTypeOK ==
  /\ chunks \in Seq(Chunk)
  /\ granted \in Seq(Place)

\* string_arena_init.
ArenaInit ==
  /\ chunks = <<>>
  /\ granted = <<>>

\* A broken variant: the terminator is forgotten.
FitsUnterminated(chunk, len) == chunk.capacity - chunk.used >= len - 1

\* The subtraction is of size_t: used never exceeds capacity.
Fits(chunk, len) == chunk.capacity - chunk.used >= len

HeadChunk == chunks[Len(chunks)]

RoomFor(len) == chunks # <<>> /\ Fits(HeadChunk, len)

\* string_arena_copy: the next bytes of the head chunk.
CopyInHead(len) ==
  /\ RoomFor(len)
  /\ chunks' = [chunks EXCEPT ![Len(chunks)].used = @ + len]
  /\ granted' = Append(granted, [chunk |-> Len(chunks),
                                 from |-> HeadChunk.used, len |-> len])

\* arena_alloc_chunk: a new head, larger than usual for a longer string.
CopyInNew(len) ==
  /\ ~RoomFor(len)
  /\ chunks' = Append(chunks, [capacity |-> IF ChunkSize < len THEN len
                                                               ELSE ChunkSize,
                               used |-> len])
  /\ granted' = Append(granted, [chunk |-> Len(chunks) + 1, from |-> 0,
                                 len |-> len])

ArenaCopy(len) == CopyInHead(len) \/ CopyInNew(len)

\* malloc has no chunk to give: nothing changes.
ArenaRefuses(len) == ~RoomFor(len) /\ UNCHANGED arenaVars

\* The most general client.
ArenaSpec ==
  ArenaInit /\ [][\E len \in Nat \ {0} : ArenaCopy(len)]_arenaVars

----------------------------------------------------------------------------

Overlap(x, y) ==
  /\ x.chunk = y.chunk
  /\ x.from < y.from + y.len
  /\ y.from < x.from + x.len

\* Every string handed out lies within its chunk and shares no byte with
\* another: no key of the index is overwritten by one that comes later, in
\* whatever order short and long ones arrive (src/arena.c:47-61).
StringsApart ==
  /\ \A i \in 1 .. Len(granted) :
       /\ granted[i].chunk \in 1 .. Len(chunks)
       /\ granted[i].from + granted[i].len <= chunks[granted[i].chunk].capacity
  /\ \A i, j \in 1 .. Len(granted) : i < j => ~Overlap(granted[i], granted[j])
=============================================================================
