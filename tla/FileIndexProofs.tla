-------------------------- MODULE FileIndexProofs --------------------------
(***************************************************************************)
(* The hash table finds what is in it and is a map, for any paths, any     *)
(* hashes, any capacity to start with and any sequence of upserts, failed  *)
(* ones included; and no byte of the arena that holds its keys is handed   *)
(* out twice.                                                              *)
(***************************************************************************)
EXTENDS FileIndex, SequenceTheorems, FiniteSetTheorems, WellFoundedInduction, TLAPS

----------------------------------------------------------------------------
(* The arena under the index *)

\* What is handed out of a chunk lies below its used mark, and the marks
\* within their chunks: the next string starts where no other one is.
Marked ==
  /\ \A c \in 1 .. Len(chunks) : chunks[c].used <= chunks[c].capacity
  /\ \A i \in 1 .. Len(granted) :
       /\ granted[i].chunk \in 1 .. Len(chunks)
       /\ granted[i].from + granted[i].len <= chunks[granted[i].chunk].used

Apart ==
  \A i, j \in 1 .. Len(granted) : i < j => ~Overlap(granted[i], granted[j])

ArenaInv == ArenaTypeOK /\ Marked /\ Apart

\* A string that starts at the used mark of its chunk, or in a new chunk, is
\* apart from all before it.
LEMMA NewPlaceApart ==
  ASSUME ArenaInv, NEW place \in Place,
         \/ place.chunk = Len(chunks) + 1
         \/ /\ place.chunk \in 1 .. Len(chunks)
            /\ place.from = chunks[place.chunk].used,
         granted' = Append(granted, place)
  PROVE  Apart'
<1>1. /\ granted \in Seq(Place)
      /\ Len(granted) \in Nat
      /\ Len(granted') = Len(granted) + 1
      /\ granted'[Len(granted) + 1] = place
      /\ \A i \in 1 .. Len(granted) : granted'[i] = granted[i]
  BY DEF ArenaInv, ArenaTypeOK
<1> SUFFICES ASSUME NEW i \in 1 .. Len(granted'), NEW j \in 1 .. Len(granted'),
                    i < j
             PROVE  ~Overlap(granted'[i], granted'[j])
  BY DEF Apart
<1>2. i \in 1 .. Len(granted)
  BY <1>1
<1>3. CASE j \in 1 .. Len(granted)
  BY <1>1, <1>2, <1>3 DEF ArenaInv, Apart
<1>4. CASE j = Len(granted) + 1
  <2>1. /\ granted[i] \in Place
        /\ granted[i].chunk \in 1 .. Len(chunks)
        /\ granted[i].from + granted[i].len <= chunks[granted[i].chunk].used
    <3>1. granted[i] \in Place
      BY <1>1, <1>2
    <3> QED BY <1>2, <3>1 DEF ArenaInv, Marked
  <2>2. ~Overlap(granted[i], place)
    <3>1. CASE place.chunk = Len(chunks) + 1
      <4>1. granted[i].chunk # place.chunk
        BY <2>1, <3>1 DEF ArenaInv, ArenaTypeOK
      <4> QED BY <4>1 DEF Overlap
    <3>2. CASE /\ place.chunk \in 1 .. Len(chunks)
               /\ place.from = chunks[place.chunk].used
      <4>1. CASE granted[i].chunk = place.chunk
        <5>1. granted[i].from + granted[i].len <= place.from
          BY <2>1, <3>2, <4>1
        <5> QED BY <2>1, <5>1 DEF Overlap, Place
      <4>2. CASE granted[i].chunk # place.chunk
        BY <4>2 DEF Overlap
      <4> QED BY <4>1, <4>2
    <3> QED BY <3>1, <3>2
  <2> QED BY <1>1, <1>2, <1>4, <2>2
<1> QED BY <1>1, <1>3, <1>4

LEMMA CopyInHeadKeepsInv ==
  ASSUME ArenaInv, NEW len \in Nat \ {0}, CopyInHead(len)
  PROVE  ArenaInv'
<1> DEFINE n == Len(chunks)
           place == [chunk |-> n, from |-> HeadChunk.used, len |-> len]
<1>1. /\ n \in Nat \ {0}
      /\ HeadChunk \in Chunk
      /\ HeadChunk.used + len <= HeadChunk.capacity
  <2>1. chunks \in Seq(Chunk) /\ chunks # <<>>
    BY DEF CopyInHead, RoomFor, ArenaInv, ArenaTypeOK
  <2>2. n \in Nat \ {0} /\ HeadChunk \in Chunk
    BY <2>1 DEF HeadChunk
  <2>3. HeadChunk.capacity - HeadChunk.used >= len
    BY DEF CopyInHead, RoomFor, Fits
  <2> QED BY <2>2, <2>3 DEF Chunk
<1>2. /\ place \in Place
      /\ granted' = Append(granted, place)
  BY <1>1 DEF CopyInHead, Place, Chunk
<1>3. /\ chunks' \in Seq(Chunk)
      /\ Len(chunks') = n
      /\ \A c \in 1 .. n : /\ chunks'[c].capacity = chunks[c].capacity
                           /\ chunks'[c].used = IF c = n THEN chunks[c].used + len
                                                         ELSE chunks[c].used
  <2> DEFINE fuller == [capacity |-> HeadChunk.capacity,
                        used |-> HeadChunk.used + len]
  <2>1. chunks \in Seq(Chunk)
    BY DEF ArenaInv, ArenaTypeOK
  <2>2. fuller \in Chunk
    BY <1>1 DEF Chunk
  <2>3. chunks' = [chunks EXCEPT ![n] = fuller]
    <3>1. [HeadChunk EXCEPT !.used = @ + len] = fuller
      BY <1>1 DEF Chunk
    <3>2. chunks' = [chunks EXCEPT ![n] = [HeadChunk EXCEPT !.used = @ + len]]
      BY DEF CopyInHead, HeadChunk
    <3> QED BY <3>1, <3>2
  <2>4. /\ chunks' \in Seq(Chunk)
        /\ Len(chunks') = n
        /\ \A c \in 1 .. n : chunks'[c] = IF c = n THEN fuller ELSE chunks[c]
    BY <1>1, <2>1, <2>2, <2>3, ExceptSeq
  <2> QED BY <2>4 DEF HeadChunk
<1>4. ArenaTypeOK'
  BY <1>2, <1>3 DEF ArenaInv, ArenaTypeOK
<1>5. Apart'
  BY <1>1, <1>2, NewPlaceApart DEF HeadChunk
<1>6. \A c \in 1 .. Len(chunks') : chunks'[c].used <= chunks'[c].capacity
  <2> SUFFICES ASSUME NEW c \in 1 .. n
               PROVE  chunks'[c].used <= chunks'[c].capacity
    BY <1>3
  <2>1. chunks[c].used <= chunks[c].capacity
    BY DEF ArenaInv, Marked
  <2> QED BY <1>1, <1>3, <2>1 DEF HeadChunk
<1>7. ASSUME NEW i \in 1 .. Len(granted')
      PROVE  /\ granted'[i].chunk \in 1 .. Len(chunks')
             /\ granted'[i].from + granted'[i].len
                  <= chunks'[granted'[i].chunk].used
  <2>1. CASE i \in 1 .. Len(granted)
    <3>1. granted'[i] = granted[i] /\ granted[i] \in Place
      BY <1>2, <2>1 DEF ArenaInv, ArenaTypeOK
    <3>2. PICK c \in 1 .. n :
            /\ granted[i].chunk = c
            /\ granted[i].from + granted[i].len <= chunks[c].used
      BY <2>1 DEF ArenaInv, Marked
    <3>3. chunks[c] \in Chunk
      BY <1>1 DEF ArenaInv, ArenaTypeOK
    <3>4. chunks[c].used <= chunks'[c].used /\ chunks'[c].used \in Nat
      <4>1. chunks[c].used \in Nat /\ len \in Nat
        BY <3>3 DEF Chunk
      <4>2. c = n => chunks'[c].used = chunks[c].used + len
        BY <1>3, <3>3 DEF Chunk, HeadChunk
      <4>3. c # n => chunks'[c].used = chunks[c].used
        BY <1>3
      <4> QED BY <4>1, <4>2, <4>3
    <3>5. granted[i].from + granted[i].len <= chunks'[c].used
      <4>1. granted[i].from + granted[i].len \in Nat /\ chunks[c].used \in Nat
        BY <3>1, <3>3 DEF Place, Chunk
      <4> QED BY <3>2, <3>4, <4>1
    <3> QED BY <1>3, <3>1, <3>2, <3>5
  <2>2. CASE i = Len(granted) + 1
    <3>1. granted'[i] = place
      BY <1>2, <2>2 DEF ArenaInv, ArenaTypeOK
    <3> QED BY <1>1, <1>3, <3>1 DEF HeadChunk, Chunk
  <2> QED BY <1>2, <2>1, <2>2 DEF ArenaInv, ArenaTypeOK
<1> QED BY <1>4, <1>5, <1>6, <1>7 DEF ArenaInv, Marked

LEMMA CopyInNewKeepsInv ==
  ASSUME ArenaInv, NEW len \in Nat \ {0}, CopyInNew(len)
  PROVE  ArenaInv'
<1> DEFINE n == Len(chunks)
           place == [chunk |-> n + 1, from |-> 0, len |-> len]
           chunk == [capacity |-> IF ChunkSize < len THEN len ELSE ChunkSize,
                     used |-> len]
<1>1. n \in Nat
  BY DEF ArenaInv, ArenaTypeOK
<1>2. /\ place \in Place
      /\ granted' = Append(granted, place)
  BY <1>1 DEF CopyInNew, Place
<1>3. /\ chunk \in Chunk
      /\ chunk.used <= chunk.capacity
      /\ chunks' = Append(chunks, chunk)
  BY ArenaAssumption DEF CopyInNew, Chunk
<1>4. ArenaTypeOK'
  BY <1>2, <1>3 DEF ArenaInv, ArenaTypeOK
<1>5. Apart'
  BY <1>2, NewPlaceApart
<1>6. /\ Len(chunks') = n + 1
      /\ chunks'[n + 1] = chunk
      /\ \A c \in 1 .. n : chunks'[c] = chunks[c]
  BY <1>1, <1>3 DEF ArenaInv, ArenaTypeOK
<1>7. \A c \in 1 .. Len(chunks') : chunks'[c].used <= chunks'[c].capacity
  <2> SUFFICES ASSUME NEW c \in 1 .. n + 1
               PROVE  chunks'[c].used <= chunks'[c].capacity
    BY <1>6
  <2>1. CASE c \in 1 .. n
    BY <1>6, <2>1 DEF ArenaInv, Marked
  <2>2. CASE c = n + 1
    BY <1>3, <1>6, <2>2
  <2> QED BY <1>1, <2>1, <2>2
<1>8. ASSUME NEW i \in 1 .. Len(granted')
      PROVE  /\ granted'[i].chunk \in 1 .. Len(chunks')
             /\ granted'[i].from + granted'[i].len
                  <= chunks'[granted'[i].chunk].used
  <2>1. CASE i \in 1 .. Len(granted)
    <3>1. granted'[i] = granted[i]
      BY <1>2, <2>1 DEF ArenaInv, ArenaTypeOK
    <3>2. /\ granted[i].chunk \in 1 .. n
          /\ granted[i].from + granted[i].len <= chunks[granted[i].chunk].used
      BY <2>1 DEF ArenaInv, Marked
    <3> QED BY <1>1, <1>6, <3>1, <3>2
  <2>2. CASE i = Len(granted) + 1
    <3>1. granted'[i] = place
      BY <1>2, <2>2 DEF ArenaInv, ArenaTypeOK
    <3> QED BY <1>1, <1>6, <3>1
  <2> QED BY <1>2, <2>1, <2>2 DEF ArenaInv, ArenaTypeOK
<1> QED BY <1>4, <1>5, <1>7, <1>8 DEF ArenaInv, Marked

LEMMA ArenaInvInductive ==
  ASSUME ArenaInv,
         [\E len \in Nat \ {0} : ArenaCopy(len)]_arenaVars
  PROVE  ArenaInv'
<1>1. CASE UNCHANGED arenaVars
  BY <1>1 DEF arenaVars, ArenaInv, ArenaTypeOK, Marked, Apart
<1>2. ASSUME NEW len \in Nat \ {0}, ArenaCopy(len)
      PROVE  ArenaInv'
  BY <1>2, CopyInHeadKeepsInv, CopyInNewKeepsInv DEF ArenaCopy
<1> QED BY <1>1, <1>2

LEMMA ArenaInvInit == ArenaInit => ArenaInv
  BY DEF ArenaInit, ArenaInv, ArenaTypeOK, Marked, Apart

LEMMA InvSeparates == ArenaInv => StringsApart
<1> SUFFICES ASSUME ArenaInv, NEW i \in 1 .. Len(granted)
             PROVE  granted[i].from + granted[i].len
                      <= chunks[granted[i].chunk].capacity
  BY DEF ArenaInv, Marked, Apart, StringsApart
<1>1. granted[i] \in Place /\ granted[i].chunk \in 1 .. Len(chunks)
  BY DEF ArenaInv, ArenaTypeOK, Marked
<1>2. chunks[granted[i].chunk] \in Chunk
  BY <1>1 DEF ArenaInv, ArenaTypeOK
<1> QED BY <1>1, <1>2 DEF ArenaInv, Marked, Place, Chunk

\* Whatever lengths are asked for, in whatever order, no string overlaps
\* another and none leaves its chunk (src/arena.c:47-61).
THEOREM StringsApartEver == ArenaSpec => []StringsApart
<1>1. ArenaSpec => []ArenaInv
  BY ArenaInvInit, ArenaInvInductive, PTL DEF ArenaSpec
<1> QED BY <1>1, InvSeparates, PTL

----------------------------------------------------------------------------
(* Probing *)

\* Numbers have a smallest one.
LEMMA Smallest ==
  ASSUME NEW T \in SUBSET Nat, T # {}
  PROVE  \E x \in T : \A y \in T : x <= y
<1>1. PICK x \in T : \A y \in T : <<y, x>> \notin OpToRel(<, Nat)
  BY WFMin, NatLessThanWellFounded, Zenon
<1>2. \A y \in T : ~(y < x)
  BY <1>1, Zenon DEF OpToRel
<1>3. \A y \in T : x <= y
  BY <1>2
<1> QED BY <1>3

LEMMA DivMod ==
  ASSUME NEW n \in Nat \ {0}, NEW h \in Nat
  PROVE  \E q \in Nat, r \in 0 .. n - 1 : h = q * n + r
<1>1. /\ h % n \in 0 .. n - 1
      /\ h \div n \in Nat
      /\ h = (h \div n) * n + (h % n)
  OBVIOUS
<1> QED BY <1>1, Zenon

\* Every slot is probed for every hash.
LEMMA ProbedEverywhere ==
  ASSUME NEW n \in Nat \ {0}, NEW h \in Nat, NEW s \in 0 .. n - 1
  PROVE  \E i \in 0 .. n - 1 : Probed(h, i, n) = s
<1>1. PICK q \in Nat, r \in 0 .. n - 1 : h = q * n + r
  BY DivMod
<1>2. CASE r <= s
  <2>1. (q * n + s) % n = s
    OBVIOUS
  <2>2. h + (s - r) = q * n + s /\ s - r \in 0 .. n - 1
    BY <1>1, <1>2
  <2> QED BY <2>1, <2>2 DEF Probed
<1>3. CASE ~(r <= s)
  <2>1. ((q + 1) * n + s) % n = s
    <3>1. q + 1 \in Nat
      OBVIOUS
    <3> DEFINE p == q + 1
    <3> HIDE DEF p
    <3>2. (p * n + s) % n = s
      BY <3>1 DEF p
    <3> QED BY <3>2 DEF p
  <2>2. h + (s - r + n) = (q + 1) * n + s /\ s - r + n \in 0 .. n - 1
    BY <1>1, <1>3
  <2> QED BY <2>1, <2>2 DEF Probed
<1> QED BY <1>2, <1>3

LEMMA ProbedInTable ==
  ASSUME NEW n \in Nat \ {0}, NEW h \in Nat, NEW i \in Nat
  PROVE  Probed(h, i, n) \in 0 .. n - 1
BY DEF Probed

\* Probing stops at the first slot whose content is asked for, if there is
\* one at all.
LEMMA StopsAtFirst ==
  ASSUME NEW n \in Nat \ {0}, NEW h \in Nat, NEW table, NEW contents,
         NEW s \in 0 .. n - 1, table[s] \in contents
  PROVE  \E i \in 0 .. n - 1 :
           /\ Stop(table, n, h, contents) = Probed(h, i, n)
           /\ Probed(h, i, n) \in 0 .. n - 1
           /\ table[Probed(h, i, n)] \in contents
           /\ \A j \in 0 .. n - 1 :
                table[Probed(h, j, n)] \in contents => i <= j
<1> DEFINE hits == {i \in 0 .. n - 1 : table[Probed(h, i, n)] \in contents}
           first == CHOOSE i \in hits : \A j \in hits : i <= j
<1>1. hits # {} /\ hits \in SUBSET Nat
  <2>1. PICK i \in 0 .. n - 1 : Probed(h, i, n) = s
    BY ProbedEverywhere
  <2>2. i \in hits
    BY <2>1
  <2> QED BY <2>2
<1>2. \E i \in hits : \A j \in hits : i <= j
  BY <1>1, Smallest
<1>3. first \in hits /\ \A j \in hits : first <= j
  BY <1>2
<1>4. Stop(table, n, h, contents) = Probed(h, first, n)
  BY DEF Stop
<1>5. first \in 0 .. n - 1 /\ table[Probed(h, first, n)] \in contents
  BY <1>3
<1>6. Probed(h, first, n) \in 0 .. n - 1
  BY <1>5, ProbedInTable
<1>7. \A j \in 0 .. n - 1 : table[Probed(h, j, n)] \in contents => first <= j
  BY <1>3
<1> HIDE DEF first
<1> QED BY <1>4, <1>5, <1>6, <1>7

----------------------------------------------------------------------------
(* What keeps a table searchable *)

\* From the home of the entry in slot s, probing meets no free slot before s.
Reachable(t, n, s) ==
  \E i \in 0 .. n - 1 :
    /\ Probed(t[s].hash, i, n) = s
    /\ \A j \in 0 .. i - 1 : t[Probed(t[s].hash, j, n)] # None

Searchable(t, n) ==
  \A s \in 0 .. n - 1 : t[s] # None =>
    /\ Reachable(t, n, s)
    /\ t[s].hash = Hash[t[s].key]
    /\ \A r \in 0 .. n - 1 : t[r] # None /\ t[r].key = t[s].key => r = s

Holds(t, n, path) == \E s \in 0 .. n - 1 : t[s] # None /\ t[s].key = path

\* A table with fewer entries than slots has a free one.
LEMMA FreeSlot ==
  ASSUME NEW n \in Nat \ {0}, NEW t, Cardinality(Occupied(t, n)) < n
  PROVE  \E s \in 0 .. n - 1 : t[s] = None
<1> SUFFICES ASSUME \A s \in 0 .. n - 1 : t[s] # None
             PROVE  FALSE
  OBVIOUS
<1>1. Occupied(t, n) = 0 .. n - 1
  BY DEF Occupied
<1>2. Cardinality(0 .. n - 1) = n
  BY FS_Interval
<1> QED BY <1>1, <1>2

LEMMA OccupiedFinite ==
  ASSUME NEW n \in Nat, NEW t
  PROVE  IsFiniteSet(Occupied(t, n)) /\ Cardinality(Occupied(t, n)) \in Nat
<1>1. IsFiniteSet(0 .. n - 1)
  BY FS_Interval
<1>2. Occupied(t, n) \in SUBSET (0 .. n - 1)
  BY DEF Occupied
<1> QED BY <1>1, <1>2, FS_Subset, FS_CardinalityType

\* The search for a path ends at its entry, or, if it has none, at a free slot
\* with none before it.
LEMMA Search ==
  ASSUME NEW n \in Nat \ {0}, NEW t \in Table(n), Searchable(t, n),
         Cardinality(Occupied(t, n)) < n, NEW path \in Path
  PROVE  \E i \in 0 .. n - 1 :
           LET s == Probed(Hash[path], i, n) IN
           /\ Stop(t, n, Hash[path], Matching(path) \cup {None}) = s
           /\ s \in 0 .. n - 1
           /\ Holds(t, n, path) => t[s] # None /\ t[s].key = path
           /\ ~Holds(t, n, path) =>
                /\ t[s] = None
                /\ \A j \in 0 .. i - 1 : t[Probed(Hash[path], j, n)] # None
<1> DEFINE h == Hash[path]
           contents == Matching(path) \cup {None}
<1>1. h \in Nat
  BY IndexAssumption
<1>2. PICK free \in 0 .. n - 1 : t[free] = None
  BY FreeSlot
<1>3. t[free] \in contents
  BY <1>2
<1> HIDE DEF h, contents
<1>4. PICK i \in 0 .. n - 1 :
        /\ Stop(t, n, h, contents) = Probed(h, i, n)
        /\ Probed(h, i, n) \in 0 .. n - 1
        /\ t[Probed(h, i, n)] \in contents
        /\ \A j \in 0 .. n - 1 : t[Probed(h, j, n)] \in contents => i <= j
  BY <1>1, <1>3, StopsAtFirst
<1> DEFINE s == Probed(h, i, n)
<1>5. \A j \in 0 .. i - 1 : t[Probed(h, j, n)] # None
  <2> SUFFICES ASSUME NEW j \in 0 .. i - 1, t[Probed(h, j, n)] = None
               PROVE  FALSE
    OBVIOUS
  <2>1. j \in 0 .. n - 1 /\ ~(i <= j)
    OBVIOUS
  <2>2. t[Probed(h, j, n)] \in contents
    BY DEF contents
  <2> QED BY <1>4, <2>1, <2>2
<1>6. t[s] # None => t[s].key = path
  BY <1>4 DEF contents, Matching
<1>7. CASE Holds(t, n, path)
  <2>1. PICK r \in 0 .. n - 1 : t[r] # None /\ t[r].key = path
    BY <1>7 DEF Holds
  <2>2. t[r] \in IndexSlot /\ t[r].hash = h
    BY <2>1 DEF Searchable, Table, h
  <2>3. PICK k \in 0 .. n - 1 :
          /\ Probed(h, k, n) = r
          /\ \A j \in 0 .. k - 1 : t[Probed(h, j, n)] # None
    BY <2>1, <2>2 DEF Searchable, Reachable
  <2>4. t[r] \in contents
    BY <2>1, <2>2 DEF contents, Matching, IndexSlot, h
  <2>5. i <= k
    BY <1>4, <2>3, <2>4
  <2>6. t[s] # None
    <3>1. CASE i = k
      BY <2>1, <2>3, <3>1
    <3>2. CASE i # k
      <4>1. i \in 0 .. k - 1
        BY <2>5, <3>2
      <4> QED BY <2>3, <4>1
    <3> QED BY <3>1, <3>2
  <2> QED BY <1>4, <1>6, <1>7, <2>6 DEF h, contents
<1>8. CASE ~Holds(t, n, path)
  <2>1. t[s] = None
    BY <1>4, <1>6, <1>8 DEF Holds
  <2> QED BY <1>4, <1>5, <1>8, <2>1 DEF h, contents
<1> QED BY <1>7, <1>8

\* Table u is table t with entry e as well.
Filled(t, u, n, e) ==
  /\ u \in Table(n)
  /\ Searchable(u, n)
  /\ Cardinality(Occupied(u, n)) = Cardinality(Occupied(t, n)) + 1
  /\ \A path : Holds(u, n, path) <=> Holds(t, n, path) \/ path = e.key
  /\ {u[r] : r \in Occupied(u, n)} = {t[r] : r \in Occupied(t, n)} \cup {e}

\* An entry put into the first free slot of its path keeps the table
\* searchable.
LEMMA FillFree ==
  ASSUME NEW n \in Nat \ {0}, NEW t \in Table(n), Searchable(t, n),
         NEW e \in IndexSlot, e.hash = Hash[e.key], ~Holds(t, n, e.key),
         NEW i \in 0 .. n - 1, NEW s \in 0 .. n - 1,
         s = Probed(e.hash, i, n), t[s] = None,
         \A j \in 0 .. i - 1 : t[Probed(e.hash, j, n)] # None,
         NEW u, u = [t EXCEPT ![s] = e]
  PROVE  Filled(t, u, n, e)
<1>1. /\ u \in Table(n)
      /\ u[s] = e
      /\ \A r \in 0 .. n - 1 : r # s => u[r] = t[r]
  BY DEF Table
<1>2. e # None
  BY IndexAssumption
<1>3. \A r \in 0 .. n - 1 : t[r] # None => u[r] = t[r] /\ u[r] # None
  BY <1>1
<1>4. ASSUME NEW h \in Nat, NEW j \in Nat, t[Probed(h, j, n)] # None
      PROVE  u[Probed(h, j, n)] # None
  BY <1>3, <1>4, ProbedInTable
<1>5. ASSUME NEW r \in 0 .. n - 1, u[r] # None
      PROVE  /\ Reachable(u, n, r)
             /\ u[r].hash = Hash[u[r].key]
             /\ \A q \in 0 .. n - 1 : u[q] # None /\ u[q].key = u[r].key => q = r
  <2>1. CASE r = s
    <3>1. e.hash \in Nat
      BY DEF IndexSlot
    <3>2. \A j \in 0 .. i - 1 : u[Probed(e.hash, j, n)] # None
      BY <1>4, <3>1
    <3>3. Reachable(u, n, r)
      BY <1>1, <2>1, <3>2 DEF Reachable
    <3>4. \A q \in 0 .. n - 1 : q # s /\ u[q] # None => u[q].key # e.key
      BY <1>1 DEF Holds
    <3> QED BY <1>1, <2>1, <3>3, <3>4
  <2>2. CASE r # s
    <3>1. u[r] = t[r] /\ t[r] # None
      BY <1>1, <1>5, <2>2
    <3>2. t[r].hash \in Nat
      BY <3>1 DEF Table, IndexSlot
    <3>3. Reachable(u, n, r)
      <4>1. PICK k \in 0 .. n - 1 :
              /\ Probed(t[r].hash, k, n) = r
              /\ \A j \in 0 .. k - 1 : t[Probed(t[r].hash, j, n)] # None
        BY <3>1 DEF Searchable, Reachable
      <4>2. \A j \in 0 .. k - 1 : u[Probed(t[r].hash, j, n)] # None
        BY <1>4, <3>2, <4>1
      <4> QED BY <3>1, <4>1, <4>2 DEF Reachable
    <3>4. u[r].hash = Hash[u[r].key]
      BY <3>1 DEF Searchable
    <3>5. ASSUME NEW q \in 0 .. n - 1, u[q] # None, u[q].key = u[r].key
          PROVE  q = r
      <4>1. q # s
        BY <1>1, <3>1, <3>5 DEF Holds
      <4>2. t[q] # None /\ t[q].key = t[r].key
        BY <1>1, <3>1, <3>5, <4>1
      <4> QED BY <3>1, <4>2 DEF Searchable
    <3> QED BY <3>3, <3>4, <3>5
  <2> QED BY <2>1, <2>2
<1>6. Cardinality(Occupied(u, n)) = Cardinality(Occupied(t, n)) + 1
  <2>1. Occupied(u, n) = Occupied(t, n) \cup {s} /\ s \notin Occupied(t, n)
    BY <1>1, <1>2 DEF Occupied
  <2>2. IsFiniteSet(Occupied(t, n))
    BY OccupiedFinite
  <2> DEFINE before == Occupied(t, n)
  <2> HIDE DEF before
  <2>3. Cardinality(before \cup {s}) = Cardinality(before) + 1
    BY <2>1, <2>2, FS_AddElement DEF before
  <2> QED BY <2>1, <2>3 DEF before
<1>7. \A path : Holds(u, n, path) <=> Holds(t, n, path) \/ path = e.key
  BY <1>1, <1>2, <1>3 DEF Holds
<1>8. {u[r] : r \in Occupied(u, n)} = {t[r] : r \in Occupied(t, n)} \cup {e}
  BY <1>1, <1>2, <1>3 DEF Occupied
<1> QED BY <1>1, <1>5, <1>6, <1>7, <1>8 DEF Searchable, Filled

----------------------------------------------------------------------------
(* The inductive invariant *)

\* The slots of the old table that are still to be migrated.
Remaining == {i \in next .. old_capacity - 1 : old_slots[i] # None}

\* What is still to be migrated is in nobody's way: its hashes are right, and
\* no path of it is there twice or in the new table already.
OldApart ==
  \A i \in Remaining :
    /\ old_slots[i].hash = Hash[old_slots[i].key]
    /\ ~Holds(slots, capacity, old_slots[i].key)
    /\ \A j \in Remaining : old_slots[j].key = old_slots[i].key => j = i

\* The old table had a free slot, so what has been migrated is one less than
\* its slots: in the end there is room for one more, even if it had only one.
OldHadRoom ==
  \E f \in 0 .. old_capacity - 1 :
    /\ old_slots[f] = None
    /\ count <= IF f < next THEN next - 1 ELSE next

IndexInv ==
  /\ TypeOK
  /\ ArenaInv
  /\ pc = "idle" => arg = None
  /\ Searchable(slots, capacity)
  /\ RoomToProbe
  /\ pc = "store" => count + 1 < capacity
  /\ pc # "rehash" => old_capacity = 0 /\ next = 0
  /\ pc = "rehash" => /\ capacity = 2 * old_capacity
                      /\ OldApart
                      /\ OldHadRoom

LEMMA EmptyTable ==
  ASSUME NEW n \in Nat, NEW t, t = [i \in 0 .. n - 1 |-> None]
  PROVE  /\ t \in Table(n)
         /\ Searchable(t, n)
         /\ Occupied(t, n) = {}
         /\ Cardinality(Occupied(t, n)) = 0
         /\ \A path : ~Holds(t, n, path)
<1>1. Occupied(t, n) = {}
  BY DEF Occupied
<1> QED BY <1>1, FS_EmptySet DEF Table, Searchable, Holds

LEMMA IndexInvInit == Init => IndexInv
<1> SUFFICES ASSUME Init PROVE IndexInv
  OBVIOUS
<1>1. /\ slots \in Table(capacity)
      /\ Searchable(slots, capacity)
      /\ Cardinality(Occupied(slots, capacity)) = 0
  BY EmptyTable, IndexAssumption DEF Init
<1>2. ArenaInv
  BY ArenaInvInit DEF Init
<1>3. old_slots \in Table(old_capacity)
  BY DEF Init, Table
<1> QED BY <1>1, <1>2, <1>3, IndexAssumption
  DEF Init, IndexInv, TypeOK, RoomToProbe, ArenaInv

LEMMA UpsertKeepsInv ==
  ASSUME IndexInv, NEW path \in Path, NEW size \in Size, Upsert(path, size)
  PROVE  IndexInv'
<1>1. count + 1 < capacity
  BY DEF IndexInv, TypeOK, Upsert, Crowded
<1>2. arg' \in [path : Path, size : Size] /\ arg' # None
  BY IndexAssumption DEF Upsert
<1>3. ArenaInv'
  BY ArenaInvInductive DEF IndexInv, Upsert
<1>4. Searchable(slots, capacity)' /\ RoomToProbe'
  BY DEF IndexInv, Upsert, RoomToProbe
<1> QED BY <1>1, <1>2, <1>3, <1>4 DEF IndexInv, TypeOK, Upsert, ArenaInv

LEMMA UpsertCrowdedKeepsInv ==
  ASSUME IndexInv, NEW path \in Path, NEW size \in Size,
         UpsertCrowded(path, size)
  PROVE  IndexInv'
<1>1. capacity' = 2 * capacity /\ capacity' \in Nat \ {0} /\ count' = 0
  BY DEF IndexInv, TypeOK, UpsertCrowded, NewTable
<1>2. arg' \in [path : Path, size : Size] /\ arg' # None
  BY IndexAssumption DEF UpsertCrowded
<1>3. ArenaInv'
  BY ArenaInvInductive DEF IndexInv, UpsertCrowded
<1>4. slots' = [i \in 0 .. capacity' - 1 |-> None]
  BY DEF UpsertCrowded, NewTable
<1>5. /\ slots' \in Table(capacity')
      /\ Searchable(slots', capacity')
      /\ Cardinality(Occupied(slots', capacity')) = 0
      /\ \A q : ~Holds(slots', capacity', q)
  BY <1>1, <1>4, EmptyTable
<1>6. OldApart'
  <2>1. \A i \in Remaining' : i \in 0 .. capacity - 1 /\ slots[i] # None
    BY DEF Remaining, UpsertCrowded
  <2>2. old_slots' = slots
    BY DEF UpsertCrowded
  <2> QED BY <1>5, <2>1, <2>2 DEF OldApart, IndexInv, Searchable
<1>7. OldHadRoom'
  <2>1. PICK f \in 0 .. capacity - 1 : slots[f] = None
    BY FreeSlot DEF IndexInv, TypeOK, RoomToProbe
  <2> QED BY <1>1, <2>1 DEF OldHadRoom, UpsertCrowded
<1>8. TypeOK'
  BY <1>1, <1>2, <1>3, <1>5 DEF IndexInv, TypeOK, UpsertCrowded, ArenaInv
<1>9. RoomToProbe'
  BY <1>1, <1>5 DEF RoomToProbe
<1>10. pc' = "rehash" /\ capacity' = 2 * old_capacity'
  BY <1>1 DEF UpsertCrowded
<1> QED BY <1>3, <1>5, <1>6, <1>7, <1>8, <1>9, <1>10 DEF IndexInv

LEMMA UpsertNoTableKeepsInv ==
  ASSUME IndexInv, UpsertNoTable
  PROVE  IndexInv'
<1>1. ArenaInv'
  BY ArenaInvInductive DEF IndexInv, UpsertNoTable
<1>2. Searchable(slots, capacity)' /\ RoomToProbe'
  BY DEF IndexInv, UpsertNoTable, RoomToProbe
<1> QED BY <1>1, <1>2 DEF IndexInv, TypeOK, UpsertNoTable, ArenaInv

\* An entry has gone into the table, and the count is right.
Gains(entry) ==
  /\ Filled(slots, slots', capacity, entry)
  /\ count' = Cardinality(Occupied(slots', capacity))
  /\ count' = count + 1

LEMMA MigrateMoves ==
  ASSUME IndexInv, Migrate, old_slots[next] # None
  PROVE  /\ next \in Remaining
         /\ old_slots[next] \in IndexSlot
         /\ Gains(old_slots[next])
<1> DEFINE entry == old_slots[next]
           h == entry.hash
<1>1. next \in 0 .. old_capacity - 1 /\ next \in Remaining
  BY DEF IndexInv, TypeOK, Migrate, Remaining
<1>2. entry \in IndexSlot /\ h \in Nat /\ entry # None
  BY <1>1 DEF IndexInv, TypeOK, Table, IndexSlot
<1>3. /\ capacity \in Nat \ {0}
      /\ slots \in Table(capacity)
      /\ Searchable(slots, capacity)
      /\ count = Cardinality(Occupied(slots, capacity))
      /\ count < capacity
  BY DEF IndexInv, TypeOK, RoomToProbe
<1>4. entry.hash = Hash[entry.key] /\ ~Holds(slots, capacity, entry.key)
  BY <1>1 DEF IndexInv, OldApart, Migrate
<1>5. /\ slots' = [slots EXCEPT ![Stop(slots, capacity, h, {None})] = entry]
      /\ count' = count + 1
  BY <1>2 DEF Migrate
<1> HIDE DEF entry, h
<1>6. PICK free \in 0 .. capacity - 1 : slots[free] \in {None}
  BY <1>3, FreeSlot
<1>7. PICK i \in 0 .. capacity - 1 :
        /\ Stop(slots, capacity, h, {None}) = Probed(h, i, capacity)
        /\ Probed(h, i, capacity) \in 0 .. capacity - 1
        /\ slots[Probed(h, i, capacity)] \in {None}
        /\ \A j \in 0 .. capacity - 1 :
             slots[Probed(h, j, capacity)] \in {None} => i <= j
  BY <1>2, <1>3, <1>6, StopsAtFirst
<1> DEFINE s == Probed(h, i, capacity)
<1>8. \A j \in 0 .. i - 1 : slots[Probed(h, j, capacity)] # None
  <2> SUFFICES ASSUME NEW j \in 0 .. i - 1, slots[Probed(h, j, capacity)] = None
               PROVE  FALSE
    OBVIOUS
  <2>1. j \in 0 .. capacity - 1 /\ ~(i <= j)
    BY <1>3
  <2> QED BY <1>7, <2>1
<1>9. slots' = [slots EXCEPT ![s] = entry] /\ slots[s] = None
  BY <1>5, <1>7
<1> HIDE DEF s
<1>10. s \in 0 .. capacity - 1 /\ s = Probed(entry.hash, i, capacity)
  BY <1>7 DEF s, h
<1>11. \A j \in 0 .. i - 1 : slots[Probed(entry.hash, j, capacity)] # None
  BY <1>8 DEF h
<1>12. Filled(slots, slots', capacity, entry)
  BY <1>2, <1>3, <1>4, <1>9, <1>10, <1>11, FillFree, Zenon
<1>13. Gains(entry)
  BY <1>3, <1>5, <1>12 DEF Gains, Filled
<1> QED BY <1>1, <1>2, <1>13 DEF entry

LEMMA MigrateKeepsInv ==
  ASSUME IndexInv, Migrate
  PROVE  IndexInv'
<1>1. /\ next \in 0 .. old_capacity - 1
      /\ next' = next + 1
      /\ UNCHANGED <<capacity, old_slots, old_capacity, pc, arg, outcome>>
      /\ old_capacity \in Nat /\ count \in Nat
  BY DEF IndexInv, TypeOK, Migrate
<1>2. ArenaInv'
  BY ArenaInvInductive DEF IndexInv, Migrate
<1>3. pc = "rehash" /\ OldApart /\ OldHadRoom /\ capacity = 2 * old_capacity
  BY DEF IndexInv, Migrate
<1>4. /\ slots' \in Table(capacity)
      /\ Searchable(slots', capacity)
      /\ count' = Cardinality(Occupied(slots', capacity))
      /\ count' = IF old_slots[next] = None THEN count ELSE count + 1
  <2>1. CASE old_slots[next] = None
    BY <2>1 DEF Migrate, IndexInv, TypeOK, RoomToProbe
  <2>2. CASE old_slots[next] # None
    BY <2>2, MigrateMoves DEF Gains, Filled
  <2> QED BY <2>1, <2>2
<1>5. OldApart'
  <2>1. Remaining' = Remaining \ {next}
    BY <1>1 DEF Remaining
  <2>2. ASSUME NEW i \in Remaining, i # next
        PROVE  ~Holds(slots', capacity, old_slots[i].key)
    <3>1. ~Holds(slots, capacity, old_slots[i].key)
      BY <1>3 DEF OldApart
    <3>2. CASE old_slots[next] = None
      BY <3>1, <3>2 DEF Migrate
    <3>3. CASE old_slots[next] # None
      <4>1. next \in Remaining /\ Gains(old_slots[next])
        BY <3>3, MigrateMoves
      <4>2. old_slots[i].key # old_slots[next].key
        BY <1>3, <2>2, <4>1 DEF OldApart
      <4> QED BY <3>1, <4>1, <4>2 DEF Gains, Filled
    <3> QED BY <3>2, <3>3
  <2>3. \A i \in Remaining' :
          /\ old_slots'[i].hash = Hash[old_slots'[i].key]
          /\ \A j \in Remaining' : old_slots'[j].key = old_slots'[i].key => j = i
    BY <1>1, <1>3, <2>1 DEF OldApart
  <2> QED BY <1>1, <2>1, <2>2, <2>3 DEF OldApart
<1>6. OldHadRoom'
  <2>1. PICK f \in 0 .. old_capacity - 1 :
          /\ old_slots[f] = None
          /\ count <= IF f < next THEN next - 1 ELSE next
    BY <1>3 DEF OldHadRoom
  <2>2. count' <= IF f < next' THEN next' - 1 ELSE next'
    <3>1. CASE f = next
      BY <1>1, <1>4, <2>1, <3>1
    <3>2. CASE f # next
      BY <1>1, <1>4, <2>1, <3>2
    <3> QED BY <3>1, <3>2
  <2> QED BY <1>1, <2>1, <2>2 DEF OldHadRoom
<1>7. count' < capacity
  BY <1>1, <1>3, <1>4, <1>6 DEF OldHadRoom
<1>8. TypeOK'
  BY <1>1, <1>2, <1>4 DEF IndexInv, TypeOK, ArenaInv
<1>9. RoomToProbe'
  BY <1>1, <1>4, <1>7 DEF RoomToProbe
<1>10. Searchable(slots, capacity)'
  BY <1>1, <1>4
<1> QED BY <1>1, <1>2, <1>3, <1>5, <1>6, <1>8, <1>9, <1>10 DEF IndexInv

LEMMA MigratedKeepsInv ==
  ASSUME IndexInv, Migrated
  PROVE  IndexInv'
<1>1. ArenaInv'
  BY ArenaInvInductive DEF IndexInv, Migrated
<1>2. Searchable(slots, capacity)' /\ RoomToProbe'
  BY DEF IndexInv, Migrated, RoomToProbe
<1>3. count + 1 < capacity
  <2>1. PICK f \in 0 .. old_capacity - 1 :
          count <= IF f < next THEN next - 1 ELSE next
    BY DEF IndexInv, Migrated, OldHadRoom
  <2>2. next = old_capacity /\ capacity = 2 * old_capacity
        /\ old_capacity \in Nat /\ count \in Nat
    BY DEF IndexInv, TypeOK, Migrated
  <2> QED BY <2>1, <2>2
<1>4. old_slots' \in Table(0)
  BY DEF Migrated, Table
<1>5. TypeOK'
  BY <1>1, <1>4 DEF IndexInv, TypeOK, Migrated, ArenaInv
<1> QED BY <1>1, <1>2, <1>3, <1>5 DEF IndexInv, Migrated

\* A lookup finds what is there.
LEMMA FoundIfHeld ==
  ASSUME IndexInv, NEW path \in Path
  PROVE  /\ FindSlot(path) \in 0 .. capacity - 1
         /\ Found(path) <=> Holds(slots, capacity, path)
         /\ Found(path) => slots[FindSlot(path)].key = path
<1>1. /\ capacity \in Nat \ {0}
      /\ slots \in Table(capacity)
      /\ Searchable(slots, capacity)
      /\ Cardinality(Occupied(slots, capacity)) < capacity
  BY DEF IndexInv, TypeOK, RoomToProbe
<1>2. PICK i \in 0 .. capacity - 1 :
        LET s == Probed(Hash[path], i, capacity) IN
        /\ Stop(slots, capacity, Hash[path], Matching(path) \cup {None}) = s
        /\ s \in 0 .. capacity - 1
        /\ Holds(slots, capacity, path) => slots[s] # None /\ slots[s].key = path
        /\ ~Holds(slots, capacity, path) => slots[s] = None
  BY <1>1, Search
<1>3. FindSlot(path) = Probed(Hash[path], i, capacity)
  BY <1>2 DEF FindSlot
<1> QED BY <1>2, <1>3 DEF Found

\* Table u is table t with another size in slot s.
SameButSize(t, u, n, s, size) ==
  /\ u \in Table(n)
  /\ Searchable(u, n)
  /\ Occupied(u, n) = Occupied(t, n)
  /\ u[s] = [key |-> t[s].key, hash |-> t[s].hash, size |-> size]
  /\ \A r \in 0 .. n - 1 : r # s => u[r] = t[r]

LEMMA Resize ==
  ASSUME NEW n \in Nat \ {0}, NEW t \in Table(n), Searchable(t, n),
         NEW s \in 0 .. n - 1, t[s] # None, NEW size \in Size,
         NEW u, u = [t EXCEPT ![s].size = size]
  PROVE  SameButSize(t, u, n, s, size)
<1>1. t[s] \in IndexSlot
  BY DEF Table
<1> DEFINE e == [key |-> t[s].key, hash |-> t[s].hash, size |-> size]
<1>2. /\ e \in IndexSlot
      /\ e # None
      /\ e.key = t[s].key
      /\ e.hash = t[s].hash
      /\ [t[s] EXCEPT !.size = size] = e
  BY <1>1, IndexAssumption DEF IndexSlot
<1>3. u = [t EXCEPT ![s] = e]
  BY <1>2
<1> HIDE DEF e
<1>4. /\ u \in Table(n)
      /\ u[s] = e
      /\ \A r \in 0 .. n - 1 : r # s => u[r] = t[r]
  BY <1>2, <1>3 DEF Table
<1>5. \A r \in 0 .. n - 1 :
        /\ (u[r] # None) = (t[r] # None)
        /\ t[r] # None => u[r].key = t[r].key /\ u[r].hash = t[r].hash
  BY <1>2, <1>4
<1>6. ASSUME NEW r \in 0 .. n - 1, u[r] # None
      PROVE  /\ Reachable(u, n, r)
             /\ u[r].hash = Hash[u[r].key]
             /\ \A q \in 0 .. n - 1 : u[q] # None /\ u[q].key = u[r].key => q = r
  <2>1. t[r] # None /\ t[r].hash \in Nat /\ u[r].hash = t[r].hash
    BY <1>5, <1>6 DEF Table, IndexSlot
  <2>2. PICK k \in 0 .. n - 1 :
          /\ Probed(t[r].hash, k, n) = r
          /\ \A j \in 0 .. k - 1 : t[Probed(t[r].hash, j, n)] # None
    BY <2>1 DEF Searchable, Reachable
  <2>3. ASSUME NEW j \in 0 .. k - 1
        PROVE  u[Probed(t[r].hash, j, n)] # None
    <3>1. Probed(t[r].hash, j, n) \in 0 .. n - 1
      BY <2>1, ProbedInTable
    <3> QED BY <1>5, <2>2, <3>1
  <2>4. Reachable(u, n, r)
    BY <2>1, <2>2, <2>3 DEF Reachable
  <2> QED BY <1>5, <2>1, <2>4 DEF Searchable
<1>7. Occupied(u, n) = Occupied(t, n)
  BY <1>5 DEF Occupied
<1> QED BY <1>4, <1>6, <1>7 DEF Searchable, SameButSize, e

LEMMA UpdateResizes ==
  ASSUME IndexInv, Update
  PROVE  LET s == FindSlot(arg.path) IN
         /\ arg \in [path : Path, size : Size]
         /\ s \in 0 .. capacity - 1
         /\ slots[s] # None
         /\ slots[s].key = arg.path
         /\ SameButSize(slots, slots', capacity, s, arg.size)
<1> DEFINE s == FindSlot(arg.path)
<1>1. arg \in [path : Path, size : Size]
  BY DEF IndexInv, TypeOK, Update
<1>2. s \in 0 .. capacity - 1 /\ slots[s] # None /\ slots[s].key = arg.path
  BY <1>1, FoundIfHeld DEF Update, Found
<1>3. slots' = [slots EXCEPT ![s].size = arg.size]
  BY DEF Update
<1>4. /\ capacity \in Nat \ {0}
      /\ slots \in Table(capacity)
      /\ Searchable(slots, capacity)
      /\ arg.size \in Size
  BY <1>1 DEF IndexInv, TypeOK
<1> HIDE DEF s
<1>5. SameButSize(slots, slots', capacity, s, arg.size)
  BY <1>2, <1>3, <1>4, Resize, Zenon
<1> QED BY <1>1, <1>2, <1>5 DEF s

LEMMA UpdateKeepsInv ==
  ASSUME IndexInv, Update
  PROVE  IndexInv'
<1>1. /\ slots' \in Table(capacity)
      /\ Searchable(slots', capacity)
      /\ Occupied(slots', capacity) = Occupied(slots, capacity)
  BY UpdateResizes DEF SameButSize
<1>2. ArenaInv'
  BY ArenaInvInductive DEF IndexInv, Update
<1>3. TypeOK' /\ RoomToProbe' /\ Searchable(slots, capacity)'
  BY <1>1, <1>2 DEF IndexInv, TypeOK, Update, RoomToProbe, ArenaInv
<1> QED BY <1>2, <1>3 DEF IndexInv, Update

LEMMA InsertGains ==
  ASSUME IndexInv, Insert
  PROVE  /\ arg \in [path : Path, size : Size]
         /\ ~Holds(slots, capacity, arg.path)
         /\ Gains([key |-> arg.path, hash |-> Hash[arg.path], size |-> arg.size])
<1> DEFINE path == arg.path
           e == [key |-> path, hash |-> Hash[path], size |-> arg.size]
<1>1. arg \in [path : Path, size : Size] /\ path \in Path
  BY DEF IndexInv, TypeOK, Insert
<1>2. /\ capacity \in Nat \ {0}
      /\ slots \in Table(capacity)
      /\ Searchable(slots, capacity)
      /\ count = Cardinality(Occupied(slots, capacity))
      /\ Cardinality(Occupied(slots, capacity)) < capacity
  BY DEF IndexInv, TypeOK, RoomToProbe
<1>3. ~Holds(slots, capacity, path)
  BY <1>1, FoundIfHeld DEF Insert
<1>4. e \in IndexSlot /\ e.hash = Hash[e.key] /\ e.key = path /\ e.hash = Hash[path]
  BY <1>1, IndexAssumption DEF IndexSlot
<1>5. /\ slots' = [slots EXCEPT ![FindSlot(path)] = e]
      /\ count' = count + 1
  BY DEF Insert
<1> HIDE DEF e, path
<1>6. PICK i \in 0 .. capacity - 1 :
        LET s == Probed(Hash[path], i, capacity) IN
        /\ Stop(slots, capacity, Hash[path], Matching(path) \cup {None}) = s
        /\ s \in 0 .. capacity - 1
        /\ ~Holds(slots, capacity, path) =>
             /\ slots[s] = None
             /\ \A j \in 0 .. i - 1 : slots[Probed(Hash[path], j, capacity)] # None
  BY <1>1, <1>2, Search
<1> DEFINE s == Probed(Hash[path], i, capacity)
<1>7. /\ slots' = [slots EXCEPT ![s] = e]
      /\ s \in 0 .. capacity - 1
      /\ s = Probed(e.hash, i, capacity)
      /\ slots[s] = None
      /\ \A j \in 0 .. i - 1 : slots[Probed(e.hash, j, capacity)] # None
      /\ ~Holds(slots, capacity, e.key)
  BY <1>3, <1>4, <1>5, <1>6 DEF FindSlot
<1> HIDE DEF s
<1>8. Filled(slots, slots', capacity, e)
  BY <1>2, <1>4, <1>7, FillFree, Zenon
<1>9. Gains(e)
  BY <1>2, <1>5, <1>8 DEF Gains, Filled
<1> QED BY <1>1, <1>3, <1>9 DEF e, path

LEMMA InsertKeepsInv ==
  ASSUME IndexInv, Insert
  PROVE  IndexInv'
<1>1. PICK e : Gains(e)
  BY InsertGains
<1>2. /\ slots' \in Table(capacity)
      /\ Searchable(slots', capacity)
      /\ count' = Cardinality(Occupied(slots', capacity))
      /\ count' = count + 1
  BY <1>1 DEF Gains, Filled
<1>3. count' < capacity
  BY <1>2 DEF IndexInv, Insert
<1>4. ArenaInv'
  <2>1. Length[arg.path] \in Nat \ {0}
    BY InsertGains, IndexAssumption
  <2> QED BY <2>1, ArenaInvInductive DEF IndexInv, Insert
<1>5. TypeOK' /\ RoomToProbe' /\ Searchable(slots, capacity)'
  BY <1>2, <1>3, <1>4 DEF IndexInv, TypeOK, Insert, RoomToProbe, ArenaInv
<1> QED BY <1>4, <1>5 DEF IndexInv, Insert

LEMMA InsertNoStringKeepsInv ==
  ASSUME IndexInv, InsertNoString
  PROVE  IndexInv'
<1>1. ArenaInv'
  BY ArenaInvInductive DEF IndexInv, InsertNoString, ArenaRefuses
<1>2. Searchable(slots, capacity)' /\ RoomToProbe'
  BY DEF IndexInv, InsertNoString, RoomToProbe
<1> QED BY <1>1, <1>2 DEF IndexInv, TypeOK, InsertNoString, ArenaInv

LEMMA IndexInvInductive ==
  ASSUME IndexInv, [Next]_vars
  PROVE  IndexInv'
<1>1. CASE UNCHANGED vars
  <2>1. ArenaInv'
    BY <1>1, ArenaInvInductive DEF IndexInv, vars
  <2>2. /\ UNCHANGED <<slots, capacity, count, old_slots, old_capacity, next>>
        /\ UNCHANGED <<pc, arg, outcome>>
    BY <1>1 DEF vars
  <2>3. TypeOK'
    BY <2>1, <2>2 DEF IndexInv, TypeOK, ArenaInv
  <2>4. Searchable(slots, capacity)' /\ RoomToProbe' /\ (OldApart => OldApart')
        /\ (OldHadRoom => OldHadRoom')
    BY <2>2 DEF IndexInv, RoomToProbe, OldApart, OldHadRoom, Remaining
  <2> QED BY <2>1, <2>2, <2>3, <2>4 DEF IndexInv
<1>2. ASSUME NEW path \in Path, NEW size \in Size, Upsert(path, size)
      PROVE  IndexInv'
  BY <1>2, UpsertKeepsInv
<1>3. ASSUME NEW path \in Path, NEW size \in Size, UpsertCrowded(path, size)
      PROVE  IndexInv'
  BY <1>3, UpsertCrowdedKeepsInv
<1>4. CASE UpsertNoTable
  BY <1>4, UpsertNoTableKeepsInv
<1>5. CASE Migrate
  BY <1>5, MigrateKeepsInv
<1>6. CASE Migrated
  BY <1>6, MigratedKeepsInv
<1>7. CASE Update
  BY <1>7, UpdateKeepsInv
<1>8. CASE Insert
  BY <1>8, InsertKeepsInv
<1>9. CASE InsertNoString
  BY <1>9, InsertNoStringKeepsInv
<1> QED
  BY <1>1, <1>2, <1>3, <1>4, <1>5, <1>6, <1>7, <1>8, <1>9 DEF Next

LEMMA IndexInvAlways == Spec => []IndexInv
  BY IndexInvInit, IndexInvInductive, PTL DEF Spec

\* The fields, counters and phases of the index keep their types
\* (include/common.h, FileIndex), and every key was copied to an arena.
THEOREM IndexTypeCorrect == Spec => []TypeOK
<1>1. IndexInv => TypeOK
  BY DEF IndexInv
<1> QED BY <1>1, IndexInvAlways, PTL

\* For any hashes, capacity and upserts, the table has a free slot at every
\* moment, halfway through a rehash too: the probing loops of src/index.c end.
THEOREM ProbingEnds == Spec => []RoomToProbe
<1>1. IndexInv => RoomToProbe
  BY DEF IndexInv
<1> QED BY <1>1, IndexInvAlways, PTL

\* The keys of the index share no byte, whatever is upserted or refused
\* (file_index_upsert copies them with string_arena_copy).
THEOREM KeysOwned == Spec => []StringsApart
<1>1. IndexInv => StringsApart
  BY InvSeparates DEF IndexInv
<1> QED BY <1>1, IndexInvAlways, PTL

----------------------------------------------------------------------------
(* What the index holds *)

LEMMA EntriesSplit ==
  ASSUME IndexInv
  PROVE  Entries = {slots[i] : i \in Occupied(slots, capacity)}
                   \cup {old_slots[i] : i \in Remaining}
<1>1. next \in Nat /\ old_capacity \in Nat
  BY DEF IndexInv, TypeOK
<1>2. Occupied(old_slots, old_capacity) \cap next .. old_capacity - 1 = Remaining
  BY <1>1 DEF Occupied, Remaining
<1> QED BY <1>2 DEF Entries

LEMMA NothingRemains ==
  ASSUME IndexInv, pc # "rehash"
  PROVE  Entries = {slots[i] : i \in Occupied(slots, capacity)}
<1>1. Remaining = {}
  BY DEF IndexInv, Remaining
<1> QED BY <1>1, EntriesSplit

\* A path has one entry at most, also while the table is rebuilt.
LEMMA EntriesApart ==
  ASSUME IndexInv
  PROVE  /\ Entries \subseteq IndexSlot
         /\ \A d, e \in Entries : d.key = e.key => d = e
<1> DEFINE New == {slots[i] : i \in Occupied(slots, capacity)}
           Old == {old_slots[i] : i \in Remaining}
<1>1. New \subseteq IndexSlot
  BY DEF IndexInv, TypeOK, Table, Occupied
<1>2. Old \subseteq IndexSlot
  <2>1. \A i \in Remaining : i \in 0 .. old_capacity - 1 /\ old_slots[i] # None
    BY DEF IndexInv, TypeOK, Remaining
  <2> QED BY <2>1 DEF IndexInv, TypeOK, Table
<1>3. \A d, e \in New : d.key = e.key => d = e
  BY DEF Occupied, IndexInv, Searchable
<1>4. \A d, e \in Old : d.key = e.key => d = e
  <2>1. CASE pc = "rehash"
    BY <2>1 DEF IndexInv, OldApart
  <2>2. CASE pc # "rehash"
    BY <2>2 DEF IndexInv, Remaining
  <2> QED BY <2>1, <2>2
<1>5. \A d \in New, e \in Old : d.key # e.key
  <2>1. CASE pc = "rehash"
    BY <2>1 DEF IndexInv, OldApart, Holds, Occupied
  <2>2. CASE pc # "rehash"
    BY <2>2 DEF IndexInv, Remaining
  <2> QED BY <2>1, <2>2
<1>6. Entries = New \cup Old
  BY EntriesSplit
<1> HIDE DEF New, Old
<1> QED BY <1>1, <1>2, <1>3, <1>4, <1>5, <1>6

NamedByKeys == \A e \in Entries : EntryOf(e.key) = e

LEMMA EntriesNamedByKeys == IndexInv => NamedByKeys
<1> SUFFICES ASSUME IndexInv, NEW e \in Entries
             PROVE  EntryOf(e.key) = e
  BY DEF NamedByKeys
<1>1. \E d \in Entries : d.key = e.key
  OBVIOUS
<1>2. EntryOf(e.key) \in Entries /\ EntryOf(e.key).key = e.key
  BY <1>1 DEF EntryOf
<1> QED BY <1>2, EntriesApart

LEMMA EntriesNamedByKeysNext == IndexInv' => NamedByKeys'
  BY EntriesNamedByKeys, PTL

\* Between upserts a lookup finds a path exactly if it has an entry, with the
\* size stored last, for any hashes (file_index_find in src/index.c).
THEOREM LookupsAgree == Spec => []FindAgrees
<1>1. IndexInv => FindAgrees
  <2> SUFFICES ASSUME IndexInv, pc = "idle", NEW path \in Path
               PROVE  /\ Found(path) <=> \E e \in Entries : e.key = path
                      /\ Found(path) => Find(path) = EntryOf(path).size
    BY DEF FindAgrees
  <2>1. Entries = {slots[i] : i \in Occupied(slots, capacity)}
    BY NothingRemains
  <2>2. Found(path) <=> \E e \in Entries : e.key = path
    BY <2>1, FoundIfHeld DEF Holds, Occupied
  <2>3. ASSUME Found(path)
        PROVE  Find(path) = EntryOf(path).size
    <3> DEFINE e == slots[FindSlot(path)]
    <3>1. e \in Entries /\ e.key = path
      BY <2>1, <2>3, FoundIfHeld DEF Found, Occupied
    <3>2. EntryOf(path) = e
      BY <3>1, EntriesNamedByKeys DEF NamedByKeys
    <3> QED BY <3>2 DEF Find
  <2> QED BY <2>2, <2>3
<1> QED BY <1>1, IndexInvAlways, PTL

----------------------------------------------------------------------------
(* The table implements a map *)

\* The mapped state.
Keys == {e.key : e \in Entries}

MapNow == [path \in Keys |-> EntryOf(path).size]

PendingNow ==
  IF arg = None THEN None ELSE [path |-> arg.path, value |-> arg.size]

LEMMA SameEntries ==
  ASSUME UNCHANGED Entries
  PROVE  UNCHANGED MapNow
BY DEF MapNow, EntryOf, Keys

\* One entry more, or another one in its place: the map with that path set.
LEMMA EntrySet ==
  ASSUME IndexInv, IndexInv', NEW e \in IndexSlot,
         Entries' = {d \in Entries : d.key # e.key} \cup {e}
  PROVE  MapNow' = Map!With(MapNow, e.key, e.size)
<1>1. Keys' = Keys \cup {e.key}
  BY DEF Keys
<1>2. \A d \in Entries : EntryOf(d.key) = d
  BY EntriesNamedByKeys DEF NamedByKeys
<1>3. \A d \in Entries' : EntryOf(d.key)' = d
  BY EntriesNamedByKeysNext DEF NamedByKeys
<1> QED BY <1>1, <1>2, <1>3 DEF MapNow, Keys, Map!With

InTable == {slots[i] : i \in Occupied(slots, capacity)}

InOld == {old_slots[i] : i \in Remaining}

AllInTable == Entries = InTable

InBoth == Entries = InTable \cup InOld

LEMMA WhereEntriesAre ==
  /\ IndexInv => InBoth
  /\ IndexInv /\ pc # "rehash" => AllInTable
BY EntriesSplit, NothingRemains DEF InBoth, AllInTable, InTable, InOld

LEMMA WhereEntriesAreNext ==
  /\ IndexInv' => InBoth'
  /\ IndexInv' /\ (pc # "rehash")' => AllInTable'
BY WhereEntriesAre, PTL

LEMMA UpsertCrowdedKeepsEntries ==
  ASSUME IndexInv, IndexInv', NEW path \in Path, NEW size \in Size,
         UpsertCrowded(path, size)
  PROVE  UNCHANGED Entries
<1>1. Entries = InTable
  BY WhereEntriesAre DEF IndexInv, UpsertCrowded, AllInTable
<1>2. Entries' = InTable' \cup InOld'
  BY WhereEntriesAreNext DEF InBoth
<1>3. InTable' = {}
  <2>1. Occupied(slots', capacity') = {}
    BY DEF Occupied, UpsertCrowded, NewTable
  <2> QED BY <2>1 DEF InTable
<1>4. InOld' = InTable
  BY DEF InOld, InTable, Remaining, Occupied, UpsertCrowded
<1> QED BY <1>1, <1>2, <1>3, <1>4

LEMMA MigrateKeepsEntries ==
  ASSUME IndexInv, IndexInv', Migrate
  PROVE  UNCHANGED Entries
<1>1. Entries = InTable \cup InOld /\ Entries' = InTable' \cup InOld'
  BY WhereEntriesAre, WhereEntriesAreNext DEF InBoth
<1>2. Remaining' = Remaining \ {next}
  BY DEF IndexInv, TypeOK, Migrate, Remaining
<1>3. UNCHANGED <<old_slots, capacity>>
  BY DEF Migrate
<1>4. CASE old_slots[next] = None
  <2>1. InTable' = InTable
    BY <1>3, <1>4 DEF Migrate, InTable
  <2>2. next \notin Remaining
    BY <1>4 DEF Remaining
  <2> QED BY <1>1, <1>2, <1>3, <2>1, <2>2 DEF InOld
<1>5. CASE old_slots[next] # None
  <2>1. next \in Remaining
    BY <1>5, MigrateMoves
  <2>2. InTable' = InTable \cup {old_slots[next]}
    BY <1>3, <1>5, MigrateMoves DEF Gains, Filled, InTable
  <2>3. InOld = InOld' \cup {old_slots[next]}
    BY <1>2, <1>3, <2>1 DEF InOld
  <2> QED BY <1>1, <2>2, <2>3
<1> QED BY <1>4, <1>5

LEMMA MigratedKeepsEntries ==
  ASSUME IndexInv, IndexInv', Migrated
  PROVE  UNCHANGED Entries
<1>1. Entries = InTable \cup InOld
  BY WhereEntriesAre DEF InBoth
<1>2. Entries' = InTable'
  BY WhereEntriesAreNext DEF Migrated, AllInTable
<1>3. InOld = {}
  BY DEF IndexInv, TypeOK, Migrated, InOld, Remaining
<1> QED BY <1>1, <1>2, <1>3 DEF Migrated, InTable

LEMMA UpdateSets ==
  ASSUME IndexInv, IndexInv', Update
  PROVE  MapNow' = Map!With(MapNow, arg.path, arg.size)
<1> DEFINE s == FindSlot(arg.path)
           e == slots'[s]
<1>1. /\ arg \in [path : Path, size : Size]
      /\ s \in 0 .. capacity - 1
      /\ slots[s] # None
      /\ slots[s].key = arg.path
      /\ SameButSize(slots, slots', capacity, s, arg.size)
  BY UpdateResizes
<1>2. /\ Entries = InTable
      /\ Entries' = InTable'
      /\ capacity' = capacity
  BY WhereEntriesAre, WhereEntriesAreNext DEF Update, AllInTable
<1> HIDE DEF s
<1>3. slots[s] \in IndexSlot
  BY <1>1 DEF IndexInv, TypeOK, Table
<1>4. e \in IndexSlot /\ e.key = arg.path /\ e.size = arg.size
  BY <1>1, <1>3 DEF SameButSize, IndexSlot
<1>5. /\ s \in Occupied(slots, capacity)
      /\ Occupied(slots', capacity) = Occupied(slots, capacity)
      /\ \A r \in Occupied(slots, capacity) : r # s => slots'[r] = slots[r]
      /\ \A r \in Occupied(slots, capacity) :
           slots[r].key = arg.path <=> r = s
  BY <1>1 DEF SameButSize, Occupied, IndexInv, Searchable
<1>6. Entries' = {d \in Entries : d.key # arg.path} \cup {e}
  BY <1>2, <1>5 DEF InTable
<1> HIDE DEF e
<1> QED BY <1>4, <1>6, EntrySet

LEMMA InsertSets ==
  ASSUME IndexInv, IndexInv', Insert
  PROVE  MapNow' = Map!With(MapNow, arg.path, arg.size)
<1> DEFINE e == [key |-> arg.path, hash |-> Hash[arg.path], size |-> arg.size]
<1>1. /\ arg \in [path : Path, size : Size]
      /\ ~Holds(slots, capacity, arg.path)
      /\ Gains(e)
  BY InsertGains
<1>2. e \in IndexSlot /\ e.key = arg.path /\ e.size = arg.size
  BY <1>1, IndexAssumption DEF IndexSlot
<1> HIDE DEF e
<1>3. /\ Entries = InTable
      /\ Entries' = InTable'
      /\ capacity' = capacity
  BY WhereEntriesAre, WhereEntriesAreNext DEF Insert, AllInTable
<1>4. InTable' = InTable \cup {e}
  BY <1>1, <1>3 DEF Gains, Filled, InTable
<1>5. \A d \in InTable : d.key # arg.path
  BY <1>1 DEF Holds, InTable, Occupied
<1>6. Entries' = {d \in Entries : d.key # e.key} \cup {e}
  BY <1>2, <1>3, <1>4, <1>5
<1> QED BY <1>2, <1>6, EntrySet

LEMMA QuietKeepsMap ==
  ASSUME UNCHANGED <<slots, capacity, old_slots, old_capacity, next>>
  PROVE  UNCHANGED MapNow
<1>1. UNCHANGED Entries
  BY DEF Entries, Occupied
<1> QED BY <1>1, SameEntries

LEMMA PendingMapped ==
  ASSUME arg \in [path : Path, size : Size]
  PROVE  /\ PendingNow = [path |-> arg.path, value |-> arg.size]
         /\ PendingNow # None
         /\ PendingNow.path = arg.path
         /\ PendingNow.value = arg.size
<1>1. arg # None
  BY IndexAssumption
<1>2. [path |-> arg.path, value |-> arg.size] \in [path : Path, value : Size]
  OBVIOUS
<1> QED BY <1>1, <1>2, IndexAssumption DEF PendingNow

\* A state as the abstract map sees it.
LEMMA MapInit == Init => Map!Init
<1> SUFFICES ASSUME Init PROVE Map!Init
  OBVIOUS
<1>1. Entries = {}
  BY DEF Init, Entries, Occupied
<1>2. MapNow = [p \in {} |-> p]
  BY <1>1 DEF MapNow, Keys
<1>3. PendingNow = None /\ outcome = "none"
  BY DEF Init, PendingNow
<1> QED BY <1>2, <1>3 DEF Map!Init, MapNow, PendingNow, Keys

LEMMA MapStep ==
  ASSUME IndexInv, IndexInv', [Next]_vars
  PROVE  [Map!Next]_(Map!vars)
<1>1. ASSUME NEW path \in Path, NEW size \in Size,
             Upsert(path, size) \/ UpsertCrowded(path, size)
      PROVE  Map!Call(path, size)
  <2>1. UNCHANGED MapNow
    <3>1. CASE Upsert(path, size)
      BY <3>1, QuietKeepsMap DEF Upsert
    <3>2. CASE UpsertCrowded(path, size)
      BY <3>2, UpsertCrowdedKeepsEntries, SameEntries
    <3> QED BY <1>1, <3>1, <3>2
  <2>2. PendingNow = None /\ UNCHANGED outcome
    BY <1>1 DEF IndexInv, Upsert, UpsertCrowded, PendingNow
  <2>3. PendingNow' = [path |-> path, value |-> size]
    <3>1. arg' = [path |-> path, size |-> size]
      BY <1>1 DEF Upsert, UpsertCrowded
    <3>2. arg' # None
      BY <3>1, IndexAssumption
    <3> QED BY <3>1, <3>2 DEF PendingNow
  <2> QED BY <2>1, <2>2, <2>3 DEF Map!Call, MapNow, PendingNow, Keys
<1>2. CASE UpsertNoTable
  <2>1. UNCHANGED MapNow
    BY <1>2, QuietKeepsMap DEF UpsertNoTable
  <2>2. PendingNow' = None /\ outcome' = "ENOMEM"
    BY <1>2 DEF IndexInv, UpsertNoTable, PendingNow
  <2> QED BY <2>1, <2>2 DEF Map!Next, Map!Refuse, MapNow, PendingNow, Keys
<1>3. CASE Migrate
  <2>1. UNCHANGED MapNow
    BY <1>3, MigrateKeepsEntries, SameEntries
  <2>2. UNCHANGED <<PendingNow, outcome>>
    BY <1>3 DEF Migrate, PendingNow
  <2> QED BY <2>1, <2>2 DEF Map!vars, MapNow, PendingNow, Keys
<1>4. CASE Migrated
  <2>1. UNCHANGED MapNow
    BY <1>4, MigratedKeepsEntries, SameEntries
  <2>2. UNCHANGED <<PendingNow, outcome>>
    BY <1>4 DEF Migrated, PendingNow
  <2> QED BY <2>1, <2>2 DEF Map!vars, MapNow, PendingNow, Keys
<1>5. CASE Update \/ Insert
  <2>1. MapNow' = Map!With(MapNow, arg.path, arg.size)
    BY <1>5, UpdateSets, InsertSets
  <2>2. arg \in [path : Path, size : Size]
    BY <1>5, UpdateResizes, InsertGains
  <2>3. PendingNow # None /\ PendingNow.path = arg.path /\ PendingNow.value = arg.size
    BY <2>2, PendingMapped
  <2>4. PendingNow' = None /\ outcome' = "ok"
    BY <1>5 DEF Update, Insert, PendingNow
  <2>5. MapNow' = Map!With(MapNow, PendingNow.path, PendingNow.value)
    BY <2>1, <2>3
  <2>6. Map!Return
    BY <2>3, <2>4, <2>5 DEF Map!Return, MapNow, PendingNow, Keys
  <2> QED BY <2>6 DEF Map!Next
<1>6. CASE InsertNoString
  <2>1. UNCHANGED MapNow
    BY <1>6, QuietKeepsMap DEF InsertNoString
  <2>2. PendingNow' = None /\ outcome' = "ENOMEM"
    BY <1>6 DEF InsertNoString, PendingNow
  <2> QED BY <2>1, <2>2 DEF Map!Next, Map!Refuse, MapNow, PendingNow, Keys
<1>7. CASE UNCHANGED vars
  <2>1. UNCHANGED MapNow
    BY <1>7, QuietKeepsMap DEF vars
  <2>2. UNCHANGED <<PendingNow, outcome>>
    BY <1>7 DEF vars, PendingNow
  <2> QED BY <2>1, <2>2 DEF Map!vars, MapNow, PendingNow, Keys
<1> QED BY <1>1, <1>2, <1>3, <1>4, <1>5, <1>6, <1>7 DEF Next, Map!Next

\* The hash table is a map for any paths, hashes, capacity and sizes: growing
\* loses and doubles no entry, and an upsert that fails, before or after the
\* table has grown, changes none (file_index_upsert in src/index.c).
THEOREM IndexIsMap == Spec => ImplementsPathMap
<1>1. Init => Map!Init
  BY MapInit
<1>2. IndexInv /\ IndexInv' /\ [Next]_vars => [Map!Next]_(Map!vars)
  BY MapStep
<1> QED BY <1>1, <1>2, IndexInvAlways, PTL DEF Spec, ImplementsPathMap, Map!Spec
=============================================================================
