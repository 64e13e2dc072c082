--------------------------- MODULE ScannerProofs ---------------------------
(***************************************************************************)
(* The walk misses nothing that stays and invents nothing, for any set of  *)
(* names, any trees, any number of changes and any number of failures.     *)
(***************************************************************************)
EXTENDS Scanner, FiniteSetTheorems, SequenceTheorems, TLAPS

----------------------------------------------------------------------------
(* Prefixes *)

\* A prefix, element by element.
LEMMA PrefixElements ==
  ASSUME NEW s \in Seq(Name), NEW t \in Seq(Name)
  PROVE  IsPrefix(s, t) <=>
           Len(s) <= Len(t) /\ \A i \in 1 .. Len(s) : s[i] = t[i]
<1>1. Len(s) \in Nat /\ Len(t) \in Nat
  OBVIOUS
<1>2. CASE Len(s) <= Len(t)
  <2>1. /\ SubSeq(s, 1, Len(s)) = [i \in 1 .. Len(s) |-> s[i]]
        /\ SubSeq(t, 1, Len(s)) = [i \in 1 .. Len(s) |-> t[i]]
    BY <1>1, <1>2, SubSeqProperties
  <2> QED BY <1>2, <2>1 DEF IsPrefix
<1> QED BY <1>2 DEF IsPrefix

LEMMA PrefixRefl ==
  ASSUME NEW s \in Seq(Name)
  PROVE  IsPrefix(s, s)
BY PrefixElements

LEMMA PrefixTrans ==
  ASSUME NEW s \in Seq(Name), NEW t \in Seq(Name), NEW u \in Seq(Name),
         IsPrefix(s, t), IsPrefix(t, u)
  PROVE  IsPrefix(s, u)
<1>1. Len(s) \in Nat /\ Len(t) \in Nat /\ Len(u) \in Nat
  OBVIOUS
<1>2. Len(s) <= Len(t) /\ \A i \in 1 .. Len(s) : s[i] = t[i]
  BY PrefixElements
<1>3. Len(t) <= Len(u) /\ \A i \in 1 .. Len(t) : t[i] = u[i]
  BY PrefixElements
<1>4. Len(s) <= Len(u) /\ \A i \in 1 .. Len(s) : s[i] = u[i]
  BY <1>1, <1>2, <1>3
<1> QED BY <1>4, PrefixElements

LEMMA PrefixAntisym ==
  ASSUME NEW s \in Seq(Name), NEW t \in Seq(Name),
         IsPrefix(s, t), IsPrefix(t, s)
  PROVE  s = t
<1>1. Len(s) \in Nat /\ Len(t) \in Nat
  OBVIOUS
<1>2. Len(s) <= Len(t) /\ \A i \in 1 .. Len(s) : s[i] = t[i]
  BY PrefixElements
<1>3. Len(t) <= Len(s)
  BY PrefixElements
<1> QED BY <1>1, <1>2, <1>3, SeqEqual

\* The first n names of a path.
LEMMA Beginning ==
  ASSUME NEW t \in Seq(Name), NEW n \in Nat, n <= Len(t)
  PROVE  /\ SubSeq(t, 1, n) \in Seq(Name)
         /\ Len(SubSeq(t, 1, n)) = n
         /\ \A i \in 1 .. n : SubSeq(t, 1, n)[i] = t[i]
<1>1. \A i \in 1 .. n : t[i] \in Name
  OBVIOUS
<1> QED BY <1>1, SubSeqProperties

\* From a directory towards something below it there is one more name.
LEMMA StepTowards ==
  ASSUME NEW s \in Seq(Name), NEW t \in Seq(Name), IsStrictPrefix(s, t)
  PROVE  /\ t[Len(s) + 1] \in Name
         /\ IsPrefix(Append(s, t[Len(s) + 1]), t)
         /\ Append(s, t[Len(s) + 1]) = SubSeq(t, 1, Len(s) + 1)
         /\ Len(s) + 1 \in 0 .. Len(t)
<1>1. Len(s) \in Nat /\ Len(t) \in Nat
  OBVIOUS
<1>2. Len(s) <= Len(t) /\ (\A i \in 1 .. Len(s) : s[i] = t[i]) /\ s # t
  BY PrefixElements DEF IsStrictPrefix
<1>3. Len(s) < Len(t)
  BY <1>1, <1>2, SeqEqual
<1>4. t[Len(s) + 1] \in Name
  BY <1>1, <1>3
<1> DEFINE u == Append(s, t[Len(s) + 1])
<1>5. /\ u \in Seq(Name)
      /\ Len(u) = Len(s) + 1
      /\ \A i \in 1 .. Len(s) : u[i] = s[i]
      /\ u[Len(s) + 1] = t[Len(s) + 1]
  BY <1>1, <1>4
<1>6. \A i \in 1 .. Len(u) : u[i] = t[i]
  <2> SUFFICES ASSUME NEW i \in 1 .. Len(u)
               PROVE  u[i] = t[i]
    OBVIOUS
  <2>1. i \in 1 .. Len(s) \/ i = Len(s) + 1
    BY <1>1, <1>5
  <2> QED BY <2>1, <1>2, <1>5
<1> HIDE DEF u
<1>7. IsPrefix(u, t)
  BY <1>1, <1>3, <1>5, <1>6, PrefixElements
<1>8. u = SubSeq(t, 1, Len(s) + 1)
  <2>1. /\ SubSeq(t, 1, Len(s) + 1) \in Seq(Name)
        /\ Len(SubSeq(t, 1, Len(s) + 1)) = Len(s) + 1
        /\ \A i \in 1 .. Len(s) + 1 : SubSeq(t, 1, Len(s) + 1)[i] = t[i]
    BY <1>1, <1>3, SubSeqProperties
  <2> QED BY <2>1, <1>5, <1>6, SeqEqual
<1> QED BY <1>1, <1>3, <1>4, <1>7, <1>8 DEF u

\* A path but the root is the path of its directory and its last name.
LEMMA FrontLast ==
  ASSUME NEW t \in Seq(Name), t # <<>>
  PROVE  /\ Front(t) \in Seq(Name)
         /\ Append(Front(t), Last(t)) = t
         /\ Len(t) - 1 \in 0 .. Len(t)
         /\ Front(t) = SubSeq(t, 1, Len(t) - 1)
         /\ \A s \in Seq(Name) : IsStrictPrefix(s, t) => IsPrefix(s, Front(t))
<1>1. Len(t) \in Nat /\ Len(t) > 0
  BY EmptySeq
<1> DEFINE b == SubSeq(t, 1, Len(t) - 1)
<1>2. /\ b \in Seq(Name)
      /\ Len(b) = Len(t) - 1
      /\ \A i \in 1 .. Len(t) - 1 : b[i] = t[i]
  <2>1. Len(t) - 1 \in Nat /\ Len(t) - 1 <= Len(t)
    BY <1>1
  <2> QED BY <2>1, Beginning
<1>3. b = Front(t)
  BY DEF Front
<1> HIDE DEF b
<1>4. Append(b, t[Len(t)]) = t
  <2>1. t[Len(t)] \in Name
    BY <1>1
  <2>2. /\ Append(b, t[Len(t)]) \in Seq(Name)
        /\ Len(Append(b, t[Len(t)])) = Len(t)
        /\ \A i \in 1 .. Len(t) - 1 : Append(b, t[Len(t)])[i] = b[i]
        /\ Append(b, t[Len(t)])[Len(t)] = t[Len(t)]
    BY <1>1, <1>2, <2>1
  <2>3. \A i \in 1 .. Len(t) : Append(b, t[Len(t)])[i] = t[i]
    <3> SUFFICES ASSUME NEW i \in 1 .. Len(t)
                 PROVE  Append(b, t[Len(t)])[i] = t[i]
      OBVIOUS
    <3>1. i \in 1 .. Len(t) - 1 \/ i = Len(t)
      BY <1>1
    <3> QED BY <3>1, <1>2, <2>2
  <2> QED BY <2>2, <2>3, SeqEqual
<1>5. ASSUME NEW s \in Seq(Name), IsStrictPrefix(s, t)
      PROVE  IsPrefix(s, b)
  <2>1. Len(s) \in Nat
    OBVIOUS
  <2>2. Len(s) <= Len(t) /\ (\A i \in 1 .. Len(s) : s[i] = t[i]) /\ s # t
    BY <1>5, PrefixElements DEF IsStrictPrefix
  <2>3. Len(s) <= Len(t) - 1
    BY <1>1, <2>1, <2>2, SeqEqual
  <2>4. Len(s) <= Len(b) /\ \A i \in 1 .. Len(s) : s[i] = b[i]
    BY <1>1, <1>2, <2>1, <2>2, <2>3
  <2> QED BY <1>2, <2>4, PrefixElements
<1> QED BY <1>1, <1>2, <1>3, <1>4, <1>5 DEF Front, Last

----------------------------------------------------------------------------
(* Types, and that what is there hangs together *)

\* A path is a sequence of names, and so is its directory's.
LEMMA PathFacts ==
  /\ \A p \in Path : p \in Seq(Name)
  /\ \A p \in Path : p # <<>> =>
       /\ Front(p) \in Path
       /\ Append(Front(p), Last(p)) = p
       /\ Last(p) \in Name
<1>1. \A p \in Path : p \in Seq(Name)
  BY ScanAssumption
<1>2. ASSUME NEW p \in Path, p # <<>>
      PROVE  /\ Front(p) \in Path
             /\ Append(Front(p), Last(p)) = p
             /\ Last(p) \in Name
  <2>1. p \in Seq(Name) /\ Len(p) \in Nat /\ Len(p) > 0
    BY <1>1, <1>2, EmptySeq
  <2>2. /\ Append(Front(p), Last(p)) = p
        /\ Len(p) - 1 \in 0 .. Len(p)
        /\ Front(p) = SubSeq(p, 1, Len(p) - 1)
    BY <1>2, <2>1, FrontLast
  <2>3. p[Len(p)] \in Name
    BY <2>1
  <2> QED BY <2>2, <2>3, ScanAssumption DEF Last
<1> QED BY <1>1, <1>2

\* No path leads to its own directory.
LEMMA NotInFront ==
  ASSUME NEW p \in Path, p # <<>>
  PROVE  ~IsPrefix(p, Front(p))
<1>1. /\ p \in Seq(Name)
      /\ Front(p) \in Seq(Name)
      /\ Append(Front(p), Last(p)) = p
      /\ Last(p) \in Name
  BY PathFacts
<1>2. Len(p) = Len(Front(p)) + 1 /\ Len(Front(p)) \in Nat
  <2>1. /\ Len(Append(Front(p), Last(p))) = Len(Front(p)) + 1
        /\ Len(Front(p)) \in Nat
    BY <1>1, AppendProperties
  <2> QED BY <1>1, <2>1
<1>3. ~(Len(p) <= Len(Front(p)))
  BY <1>2
<1> QED BY <1>1, <1>3, PrefixElements

LEMMA RootIsPath == Root \in Path /\ Root \in Seq(Name)
<1>1. PICK p \in Path : TRUE
  BY ScanAssumption
<1>2. p \in Seq(Name) /\ 0 \in 0 .. Len(p)
  BY PathFacts
<1>3. SubSeq(p, 1, 0) = <<>>
  BY SubSeqEmpty
<1> QED BY <1>2, <1>3, ScanAssumption DEF Root

LEMMA Kinds ==
  ASSUME NEW x \in Node
  PROVE  /\ x.kind = "file" => x # Dir /\ x # Gone /\ x.size \in Size
         /\ x.kind = "other" => x.kind # "file"
BY DEF Node, Dir, Gone

LEMMA DirGoneNodes == Dir \in Node /\ Gone \in Node /\ Dir # Gone
BY DEF Node, Dir, Gone

LEMMA FilesTyped ==
  ASSUME NEW f \in [Path -> Node]
  PROVE  FilesOf(f) \subseteq Path \X Size
<1> SUFFICES ASSUME NEW p \in Path, f[p].kind = "file"
             PROVE  f[p].size \in Size
  BY DEF FilesOf
<1> QED BY Kinds

\* Whatever is put at a path in a directory that is there, and whatever goes
\* with what was there before, the rest is still a tree.
LEMMA ChangeKeepsTree ==
  ASSUME NEW f \in [Path -> Node], IsTree(f),
         NEW c \in Path, NEW node \in Node,
         c = Root \/ f[Front(c)] = Dir,
         NEW g, g = [q \in Path |-> IF q = c THEN node
                                   ELSE IF IsPrefix(c, q) THEN Gone ELSE f[q]]
  PROVE  g \in [Path -> Node] /\ IsTree(g)
<1>1. g \in [Path -> Node]
  BY DirGoneNodes
<1>2. ASSUME NEW p \in Path, NEW q \in Path, IsStrictPrefix(q, p), g[p] # Gone
      PROVE  g[q] = Dir
  <2>1. p \in Seq(Name) /\ q \in Seq(Name) /\ c \in Seq(Name)
    BY PathFacts
  <2>2. IsPrefix(q, p) /\ q # p
    BY <1>2 DEF IsStrictPrefix
  <2>3. CASE p = c
    <3>1. ~IsPrefix(c, q)
      BY <2>1, <2>2, <2>3, PrefixAntisym
    <3>2. c # <<>>
      <4> SUFFICES ASSUME c = <<>> PROVE FALSE
        OBVIOUS
      <4>1. Len(q) <= Len(c)
        BY <2>1, <2>2, <2>3, PrefixElements
      <4>2. Len(q) \in Nat /\ Len(c) = 0
        BY <2>1
      <4> QED BY <2>1, <2>2, <2>3, <4>1, <4>2, EmptySeq
    <3>3. Front(c) \in Path /\ f[Front(c)] = Dir
      BY <3>2, PathFacts DEF Root
    <3>4. IsPrefix(q, Front(c))
      BY <1>2, <2>1, <2>3, <3>2, FrontLast
    <3>5. f[q] = Dir
      BY <3>3, <3>4, DirGoneNodes DEF IsTree, IsStrictPrefix
    <3> QED BY <2>2, <2>3, <3>1, <3>5
  <2>4. CASE p # c
    <3>1. ~IsPrefix(c, p) /\ f[p] # Gone
      BY <1>2, <2>4
    <3>2. f[q] = Dir
      BY <1>2, <3>1 DEF IsTree
    <3>3. ~IsPrefix(c, q)
      BY <2>1, <2>2, <3>1, PrefixTrans
    <3>4. q # c
      BY <2>2, <3>1
    <3> QED BY <3>2, <3>3, <3>4
  <2> QED BY <2>3, <2>4
<1> QED BY <1>1, <1>2 DEF IsTree

LEMMA TypeInit == Init => TypeOK
<1> SUFFICES ASSUME Init PROVE TypeOK
  OBVIOUS
<1>1. fs \in [Path -> Node] /\ IsTree(fs)
  BY ScanAssumption DEF Init
<1>2. been \subseteq Path \X Size
  BY <1>1, FilesTyped DEF Init
<1>3. stack \in Seq(Path)
  BY RootIsPath DEF Init
<1>4. frame \in Path /\ entry \in Path /\ touched \subseteq Path
  BY RootIsPath DEF Init
<1>5. DOMAIN index \subseteq Path /\ \A p \in DOMAIN index : index[p] \in Size
  <2>1. DOMAIN index = {}
    BY DEF Init
  <2> QED BY <2>1
<1>6. /\ changes \in 0 .. MaxChanges
      /\ faults \in 0 .. MaxFaults
      /\ scanned \in Nat
  BY ScanAssumption DEF Init
<1>7. /\ must \subseteq Name
      /\ may \subseteq Name
      /\ attached \in BOOLEAN
      /\ pc \in {"pop", "read", "stat", "done"}
      /\ rc \in {"OK", "ENOENT", "ENOMEM", "EIO"}
      /\ rc # "OK" => pc = "done"
      /\ errno \in LeftInErrno /\ pc # "read"
  BY DEF Init
<1> QED BY <1>1, <1>2, <1>3, <1>4, <1>5, <1>6, <1>7 DEF TypeOK

\* The stack without its last directory, and that directory.
LEMMA Popped ==
  ASSUME stack \in Seq(Path), stack # <<>>
  PROVE  /\ Front(stack) \in Seq(Path)
         /\ Last(stack) \in Path
         /\ Len(stack) \in Nat \ {0}
         /\ Len(Front(stack)) = Len(stack) - 1
         /\ \A i \in 1 .. Len(stack) - 1 : Front(stack)[i] = stack[i]
<1>1. Len(stack) \in Nat /\ Len(stack) > 0
  BY EmptySeq
<1>2. Len(stack) - 1 \in Nat
  BY <1>1
<1> DEFINE n == Len(stack) - 1
<1>3. \A i \in 1 .. n : stack[i] \in Path
  BY <1>1
<1>4. n \in Nat
  BY <1>2
<1> HIDE DEF n
<1>5. /\ SubSeq(stack, 1, n) \in Seq(Path)
      /\ Len(SubSeq(stack, 1, n)) = n
      /\ \A i \in 1 .. n : SubSeq(stack, 1, n)[i] = stack[i]
  BY <1>3, <1>4, SubSeqProperties
<1>6. Last(stack) \in Path
  BY <1>1 DEF Last
<1> QED BY <1>1, <1>5, <1>6 DEF n, Front

\* A change of the tree keeps the types.
LEMMA TypeChange ==
  ASSUME TypeOK, NEW p \in Path, NEW node \in Node, Change(p, node)
  PROVE  TypeOK'
<1>1. fs' = [q \in Path |-> IF q = p THEN node
                           ELSE IF IsPrefix(p, q) THEN Gone ELSE fs[q]]
  BY DEF Change
<1>2. fs' \in [Path -> Node] /\ IsTree(fs')
  BY <1>1, ChangeKeepsTree DEF Change, TypeOK
<1>3. touched' \subseteq Path
  BY DEF Change, TypeOK
<1>4. been' \subseteq Path \X Size
  BY <1>2, FilesTyped DEF Change, TypeOK
<1>5. changes' \in 0 .. MaxChanges
  <2>1. changes < MaxChanges /\ changes' = changes + 1
    BY DEF Change
  <2>2. changes \in 0 .. MaxChanges /\ MaxChanges \in Nat
    BY ScanAssumption DEF TypeOK
  <2> QED BY <2>1, <2>2
<1>6. must' \subseteq Name /\ may' \subseteq Name /\ attached' \in BOOLEAN
  <2>1. CASE Reading /\ IsPrefix(p, frame)
    <3>1. ~(p # Root /\ Front(p) = frame)
      BY <2>1, NotInFront DEF Root
    <3>2. must' = {} /\ may' = may \cup must /\ attached' = FALSE
      BY <2>1, <3>1 DEF Change
    <3> QED BY <3>2 DEF TypeOK
  <2>2. CASE /\ ~(Reading /\ IsPrefix(p, frame))
             /\ Reading /\ attached /\ p # Root /\ Front(p) = frame
    BY <2>2, PathFacts DEF Change, TypeOK, Root
  <2>3. CASE /\ ~(Reading /\ IsPrefix(p, frame))
             /\ ~(Reading /\ attached /\ p # Root /\ Front(p) = frame)
    BY <2>3 DEF Change, TypeOK
  <2> QED BY <2>1, <2>2, <2>3
<1>7. UNCHANGED <<stack, frame, entry, index, scanned, pc, rc, errno, faults>>
  BY DEF Change, foundVars
<1> QED BY <1>2, <1>3, <1>4, <1>5, <1>6, <1>7 DEF TypeOK

LEMMA TypeNext == TypeOK /\ [Next]_vars => TypeOK'
<1> SUFFICES ASSUME TypeOK, [Next]_vars PROVE TypeOK'
  OBVIOUS
<1> USE DEF worldVars, streamVars, foundVars
<1>1. CASE OpenDir
  <2>1. Front(stack) \in Seq(Path) /\ Last(stack) \in Path
    BY <1>1, Popped DEF OpenDir, TypeOK
  <2>2. Listing(Last(stack)) \subseteq Name
    BY DEF Listing
  <2>3. stack' \in Seq(Path) /\ frame' \in Path
    BY <1>1, <2>1 DEF OpenDir
  <2>4. must' \subseteq Name /\ may' \subseteq Name /\ attached' \in BOOLEAN
    BY <1>1, <2>2 DEF OpenDir
  <2>5. pc' = "read" /\ rc' = rc /\ rc = "OK" /\ errno' = "OK" /\ errno' \in LeftInErrno
    BY <1>1 DEF OpenDir, ErrnoForReaddir, LeftInErrno, TypeOK
  <2>6. UNCHANGED <<fs, touched, been, changes, entry, index, scanned, faults>>
    BY <1>1 DEF OpenDir
  <2> QED BY <2>3, <2>4, <2>5, <2>6 DEF TypeOK
<1>2. CASE OpenDirFails
  <2>1. Front(stack) \in Seq(Path)
    BY <1>2, Popped DEF OpenDirFails, TypeOK
  <2> QED BY <1>2, <2>1 DEF OpenDirFails, Abort, TypeOK
<1>3. ASSUME NEW name \in Name, ReadEntry(name)
      PROVE  TypeOK'
  BY <1>3 DEF ReadEntry, TypeOK
<1>4. CASE EndOfDir
  BY <1>4 DEF EndOfDir, TypeOK
<1>5. CASE StatDir
  <2>1. Append(stack, entry) \in Seq(Path)
    BY AppendProperties DEF TypeOK
  <2> QED BY <1>5, <2>1 DEF StatDir, Pushed, Continues, ErrnoForReaddir, LeftInErrno, TypeOK
<1>6. CASE StatFile
  <2>1. fs[entry].size \in Size
    BY <1>6, Kinds DEF StatFile, TypeOK
  <2>2. /\ DOMAIN index' \subseteq Path
        /\ \A p \in DOMAIN index' : index'[p] \in Size
    BY <1>6, <2>1 DEF StatFile, Upserted, TypeOK
  <2> QED BY <1>6, <2>2 DEF StatFile, NoteScan, Continues, ErrnoForReaddir, LeftInErrno, TypeOK
<1>7. CASE StatOther
  BY <1>7 DEF StatOther, Continues, ErrnoForReaddir, LeftInErrno, TypeOK
<1>8. CASE StatGone
  BY <1>8 DEF StatGone, Abort, TypeOK
<1>9. CASE Finish
  BY <1>9 DEF Finish, TypeOK
<1>10. CASE CallFails
  BY <1>10, ScanAssumption DEF CallFails, Abort, TypeOK
<1>11. ASSUME NEW p \in Path, NEW node \in Node, Change(p, node)
       PROVE  TypeOK'
  BY <1>11, TypeChange
<1>12. CASE UNCHANGED vars
  BY <1>12 DEF vars, TypeOK
<1> QED
  BY <1>1, <1>2, <1>3, <1>4, <1>5, <1>6, <1>7, <1>8, <1>9, <1>10, <1>11, <1>12
  DEF Next, Scan, Done

\* The scanner's variables keep their types, and what others do to the tree
\* leaves it one.
THEOREM ScanTypeCorrect == Spec => []TypeOK
BY TypeInit, TypeNext, PTL DEF Spec

----------------------------------------------------------------------------
(* Nothing is invented *)

\* The files there are have been there.
Witnessed == FilesOf(fs) \subseteq been

LEMMA WitnessedNext == Witnessed /\ [Next]_vars => Witnessed'
<1> SUFFICES ASSUME Witnessed, [Next]_vars PROVE Witnessed'
  OBVIOUS
<1>1. ASSUME NEW p \in Path, NEW node \in Node, Change(p, node)
      PROVE  Witnessed'
  BY <1>1 DEF Change, Witnessed, FilesOf
<1>2. CASE UNCHANGED <<fs, been>>
  BY <1>2 DEF Witnessed, FilesOf
<1> QED
  BY <1>1, <1>2
  DEF Next, Scan, Done, vars, worldVars, OpenDir, OpenDirFails, ReadEntry,
      EndOfDir, StatDir, StatFile, StatOther, StatGone, Finish, CallFails

InventInv == TypeOK /\ Witnessed /\ NothingInvented

\* A path of the index was a file of that size when lstat looked.
LEMMA InventNext == InventInv /\ [Next]_vars => InventInv'
<1> SUFFICES ASSUME InventInv, [Next]_vars PROVE NothingInvented'
  BY TypeNext, WitnessedNext DEF InventInv
<1> USE DEF InventInv
<1>1. CASE StatFile
  <2>1. <<entry, fs[entry].size>> \in been
    <3>1. entry \in Path /\ fs[entry].kind = "file"
      BY <1>1 DEF StatFile, TypeOK
    <3>2. <<entry, fs[entry].size>> \in FilesOf(fs)
      BY <3>1 DEF FilesOf
    <3> QED BY <3>2 DEF Witnessed
  <2>2. been' = been
    BY <1>1 DEF StatFile, worldVars
  <2>3. ASSUME NEW q \in DOMAIN index'
        PROVE  <<q, index'[q]>> \in been
    <3>1. CASE q = entry
      BY <1>1, <2>1, <3>1 DEF StatFile, Upserted
    <3>2. CASE q # entry
      BY <1>1, <2>3, <3>2 DEF StatFile, Upserted, NothingInvented
    <3> QED BY <3>1, <3>2
  <2> QED BY <2>2, <2>3 DEF NothingInvented
<1>2. CASE UNCHANGED index /\ been \subseteq been'
  BY <1>2 DEF NothingInvented
<1> QED
  BY <1>1, <1>2
  DEF Next, Scan, Done, vars, worldVars, foundVars, OpenDir, OpenDirFails,
      ReadEntry, EndOfDir, StatDir, StatOther, StatGone, Finish, CallFails,
      Change

\* Whatever happens to the tree and whichever call fails, an index never says
\* of a path what was not true of it at some instant of the scan.
THEOREM NothingInventedEver == Spec => []NothingInvented
<1>1. Init => InventInv
  BY TypeInit DEF Init, InventInv, Witnessed, NothingInvented
<1> QED BY <1>1, InventNext, PTL DEF Spec, InventInv

----------------------------------------------------------------------------
(* Nothing that stays is missed *)

Indexed(p) == p \in DOMAIN index /\ index[p] = fs[p].size

\* The scanner will still come to p: a directory above it, or p itself, is on
\* the stack, or among the names readdir must return, or being looked up.
OnStack(p) == \E i \in 1 .. Len(stack) : IsPrefix(stack[i], p)
InListing(p) == Reading /\ \E n \in must : IsPrefix(Append(frame, n), p)
LookedUp(p) == pc = "stat" /\ IsPrefix(entry, p)

Kept(p) == Indexed(p) \/ OnStack(p) \/ InListing(p) \/ LookedUp(p)

Stays(p) == p \in Path \ touched /\ fs[p].kind = "file"

NothingMissed == rc = "OK" => \A p \in Path : Stays(p) => Kept(p)

FoundInv ==
  /\ TypeOK
  /\ pc = "done" /\ rc = "OK" => stack = <<>>
  /\ NothingMissed

\* opendir of a directory above a file: the next name towards it is listed.
LEMMA OpenedKeeps ==
  ASSUME FoundInv, OpenDir, NEW p \in Path, Stays(p), Kept(p)
  PROVE  Kept(p)'
<1> DEFINE top == Last(stack)
<1>1. /\ Front(stack) \in Seq(Path)
      /\ top \in Path
      /\ Len(stack) \in Nat \ {0}
      /\ Len(Front(stack)) = Len(stack) - 1
      /\ \A i \in 1 .. Len(stack) - 1 : Front(stack)[i] = stack[i]
  BY Popped DEF FoundInv, TypeOK, OpenDir
<1>2. /\ fs[top] = Dir
      /\ stack' = Front(stack)
      /\ frame' = top
      /\ must' = Listing(top)
      /\ pc = "pop" /\ pc' = "read"
      /\ index' = index /\ fs' = fs
  BY DEF OpenDir, foundVars, worldVars
<1>3. CASE Indexed(p)
  BY <1>2, <1>3 DEF Indexed, Kept
<1>4. ASSUME NEW i \in 1 .. Len(stack), IsPrefix(stack[i], p), i # Len(stack)
      PROVE  OnStack(p)'
  <2>1. i \in 1 .. Len(stack') /\ stack'[i] = stack[i]
    BY <1>1, <1>2, <1>4
  <2> QED BY <1>4, <2>1 DEF OnStack
<1>5. ASSUME IsPrefix(top, p)
      PROVE  InListing(p)'
  <2>1. top \in Seq(Name) /\ p \in Seq(Name)
    BY <1>1, PathFacts
  <2>2. fs[p] # Dir /\ fs[p] # Gone
    BY Kinds DEF Stays, FoundInv, TypeOK
  <2>3. IsStrictPrefix(top, p)
    BY <1>2, <1>5, <2>2 DEF IsStrictPrefix
  <2> DEFINE n == p[Len(top) + 1]
  <2>4. /\ n \in Name
        /\ IsPrefix(Append(top, n), p)
        /\ Append(top, n) \in Path
    BY <2>1, <2>3, StepTowards, ScanAssumption
  <2> HIDE DEF n
  <2>5. fs[Append(top, n)] # Gone
    <3>1. CASE Append(top, n) = p
      BY <2>2, <3>1
    <3>2. CASE Append(top, n) # p
      BY <2>2, <2>4, <3>2, DirGoneNodes
      DEF FoundInv, TypeOK, IsTree, IsStrictPrefix
    <3> QED BY <3>1, <3>2
  <2>6. n \in must'
    BY <1>2, <2>4, <2>5 DEF Listing, Join
  <2> QED BY <1>2, <2>4, <2>6 DEF InListing, Reading
<1>6. CASE OnStack(p)
  <2>1. PICK i \in 1 .. Len(stack) : IsPrefix(stack[i], p)
    BY <1>6 DEF OnStack
  <2>2. CASE i = Len(stack)
    BY <1>5, <2>1, <2>2 DEF Last, Kept
  <2> QED BY <1>4, <2>1, <2>2 DEF Kept
<1>7. ~InListing(p) /\ ~LookedUp(p)
  BY <1>2 DEF InListing, Reading, LookedUp
<1> QED BY <1>3, <1>6, <1>7 DEF Kept

\* A file looked up at the end of a path to p is p itself.
LEMMA FileEndsPath ==
  ASSUME TypeOK, NEW p \in Path, Stays(p), IsPrefix(entry, p),
         fs[entry] # Dir
  PROVE  entry = p
<1>1. fs[p] # Gone
  BY Kinds DEF Stays, TypeOK
<1> QED BY <1>1 DEF TypeOK, IsTree, IsStrictPrefix

LEMMA StatFileKeeps ==
  ASSUME FoundInv, StatFile, NEW p \in Path, Stays(p), Kept(p)
  PROVE  Kept(p)'
<1>1. /\ fs[entry].kind = "file" /\ entry \in Path
      /\ index' = Upserted(index, entry, fs[entry].size)
      /\ pc = "stat" /\ pc' = "read"
      /\ stack' = stack /\ fs' = fs
      /\ must' = must /\ frame' = frame
  BY DEF StatFile, Continues, streamVars, worldVars, FoundInv, TypeOK
<1>2. CASE p = entry
  BY <1>1, <1>2 DEF Upserted, Indexed, Kept
<1>3. CASE p # entry
  <2>1. fs[entry] # Dir
    BY <1>1 DEF Dir
  <2>2. ~LookedUp(p)
    BY <1>3, <2>1, FileEndsPath DEF LookedUp, FoundInv
  <2>3. CASE Indexed(p)
    BY <1>1, <1>3, <2>3 DEF Upserted, Indexed, Kept
  <2>4. CASE OnStack(p) \/ InListing(p)
    BY <1>1, <2>4 DEF OnStack, InListing, Reading, Kept
  <2> QED BY <2>2, <2>3, <2>4 DEF Kept
<1> QED BY <1>2, <1>3

\* A change that does not touch p leaves what leads to it.
LEMMA ChangeKeeps ==
  ASSUME FoundInv, NEW c \in Path, NEW node \in Node, Change(c, node),
         NEW p \in Path, Stays(p)'
  PROVE  Stays(p) /\ (Kept(p) => Kept(p)')
<1>1. /\ p \notin touched
      /\ ~IsPrefix(c, p)
      /\ p # c
  <2>1. p \notin touched /\ ~IsPrefix(c, p)
    BY DEF Stays, Change
  <2> QED BY <2>1, PathFacts, PrefixRefl
<1>2. /\ fs'[p] = fs[p]
      /\ stack' = stack /\ frame' = frame /\ entry' = entry
      /\ index' = index /\ pc' = pc
  BY <1>1 DEF Change, foundVars
<1>3. Stays(p)
  BY <1>1, <1>2 DEF Stays
<1>4. ASSUME Reading, NEW n \in must, IsPrefix(Append(frame, n), p)
      PROVE  n \in must'
  <2>1. /\ c \in Seq(Name) /\ p \in Seq(Name) /\ frame \in Seq(Name)
        /\ n \in Name
        /\ Append(frame, n) \in Seq(Name)
    BY PathFacts DEF FoundInv, TypeOK
  <2>2. ~IsPrefix(c, frame)
    <3>1. IsPrefix(frame, Append(frame, n))
      <4>1. /\ Len(Append(frame, n)) = Len(frame) + 1
            /\ Len(frame) \in Nat
            /\ \A i \in 1 .. Len(frame) : Append(frame, n)[i] = frame[i]
        BY <2>1, AppendProperties
      <4> DEFINE m == Append(frame, n)
      <4>2. /\ m \in Seq(Name)
            /\ Len(frame) <= Len(m)
            /\ \A i \in 1 .. Len(frame) : frame[i] = m[i]
        BY <2>1, <4>1
      <4> HIDE DEF m
      <4>3. IsPrefix(frame, m)
        BY <2>1, <4>2, PrefixElements
      <4> QED BY <4>3 DEF m
    <3>2. IsPrefix(frame, p)
      BY <1>4, <2>1, <3>1, PrefixTrans
    <3> QED BY <1>1, <2>1, <3>2, PrefixTrans
  <2>3. CASE attached /\ c # Root /\ Front(c) = frame
    <3>1. must' = must \ {Last(c)}
      BY <1>4, <2>2, <2>3 DEF Change
    <3>2. n # Last(c)
      <4>1. Append(Front(c), Last(c)) = c
        BY <2>3, PathFacts DEF Root
      <4> QED BY <1>1, <1>4, <2>3, <4>1
    <3> QED BY <3>1, <3>2
  <2>4. CASE ~(attached /\ c # Root /\ Front(c) = frame)
    BY <2>2, <2>4 DEF Change
  <2> QED BY <2>3, <2>4
<1>5. Kept(p) => Kept(p)'
  <2>1. Indexed(p) => Indexed(p)'
    BY <1>2 DEF Indexed
  <2>2. OnStack(p) => OnStack(p)'
    BY <1>2 DEF OnStack
  <2>3. InListing(p) => InListing(p)'
    BY <1>2, <1>4 DEF InListing, Reading
  <2>4. LookedUp(p) => LookedUp(p)'
    BY <1>2 DEF LookedUp
  <2> QED BY <2>1, <2>2, <2>3, <2>4 DEF Kept
<1> QED BY <1>3, <1>5

LEMMA FoundNext == FoundInv /\ [Next]_vars => FoundInv'
<1> SUFFICES ASSUME FoundInv, [Next]_vars
             PROVE  /\ pc' = "done" /\ rc' = "OK" => stack' = <<>>
                    /\ NothingMissed'
  BY TypeNext DEF FoundInv
<1>1. ASSUME UNCHANGED worldVars, rc' = "OK" => rc = "OK",
             \A p \in Path : Stays(p) /\ Kept(p) /\ rc' = "OK" => Kept(p)'
      PROVE  NothingMissed'
  <2>1. \A p \in Path : Stays(p)' => Stays(p)
    BY <1>1 DEF Stays, worldVars
  <2> QED BY <1>1, <2>1 DEF FoundInv, NothingMissed
<1> USE DEF worldVars, streamVars, foundVars
<1>2. CASE OpenDir
  <2>1. \A p \in Path : Stays(p) /\ Kept(p) => Kept(p)'
    BY <1>2, OpenedKeeps
  <2>2. UNCHANGED worldVars /\ rc' = rc /\ pc' = "read"
    BY <1>2 DEF OpenDir
  <2> QED BY <1>1, <2>1, <2>2
<1>3. ASSUME OpenDirFails \/ StatGone \/ CallFails
      PROVE  NothingMissed' /\ rc' # "OK"
  <2>1. rc' # "OK"
    BY <1>3 DEF OpenDirFails, StatGone, CallFails, Abort
  <2> QED BY <2>1 DEF NothingMissed
<1>4. ASSUME NEW name \in Name, ReadEntry(name)
      PROVE  NothingMissed' /\ pc' # "done"
  <2>1. ASSUME NEW p \in Path, Kept(p) PROVE Kept(p)'
    <3>1. OnStack(p) => OnStack(p)'
      BY <1>4 DEF ReadEntry, OnStack
    <3>2. Indexed(p) => Indexed(p)'
      BY <1>4 DEF ReadEntry, Indexed
    <3>3. InListing(p) => InListing(p)' \/ LookedUp(p)'
      BY <1>4 DEF ReadEntry, InListing, LookedUp, Reading, Join
    <3>4. ~LookedUp(p)
      BY <1>4 DEF ReadEntry, LookedUp
    <3> QED BY <2>1, <3>1, <3>2, <3>3, <3>4 DEF Kept
  <2>2. UNCHANGED worldVars /\ rc' = rc /\ pc' = "stat"
    BY <1>4 DEF ReadEntry
  <2> QED BY <1>1, <2>1, <2>2
<1>5. CASE EndOfDir
  <2>1. ASSUME NEW p \in Path, Kept(p) PROVE Kept(p)'
    <3>1. /\ stack' = stack /\ index' = index /\ fs' = fs
          /\ must = {} /\ pc = "read"
      BY <1>5 DEF EndOfDir
    <3> QED BY <2>1, <3>1 DEF Kept, OnStack, Indexed, InListing, LookedUp
  <2>2. UNCHANGED worldVars /\ rc' = rc /\ pc' = "pop"
    BY <1>5 DEF EndOfDir, FoundInv, TypeOK
  <2> QED BY <1>1, <2>1, <2>2
<1>6. CASE StatDir
  <2>1. /\ stack \in Seq(Path) /\ entry \in Path
        /\ stack' = Append(stack, entry)
        /\ index' = index /\ fs' = fs /\ must' = must /\ frame' = frame
        /\ pc = "stat" /\ pc' = "read"
    BY <1>6 DEF StatDir, Pushed, Continues, FoundInv, TypeOK
  <2>2. /\ Len(stack') = Len(stack) + 1
        /\ Len(stack) \in Nat
        /\ stack'[Len(stack) + 1] = entry
        /\ \A i \in 1 .. Len(stack) : stack'[i] = stack[i]
    BY <2>1, AppendProperties
  <2>3. ASSUME NEW p \in Path, Kept(p) PROVE Kept(p)'
    <3>1. OnStack(p) => OnStack(p)'
      BY <2>2 DEF OnStack
    <3>2. LookedUp(p) => OnStack(p)'
      BY <2>2 DEF LookedUp, OnStack
    <3>3. Indexed(p) => Indexed(p)'
      BY <2>1 DEF Indexed
    <3>4. InListing(p) => InListing(p)'
      BY <2>1 DEF InListing, Reading
    <3> QED BY <2>3, <3>1, <3>2, <3>3, <3>4 DEF Kept
  <2>4. UNCHANGED worldVars /\ rc' = rc
    BY <1>6 DEF StatDir, FoundInv, TypeOK
  <2> QED BY <1>1, <2>1, <2>3, <2>4
<1>7. CASE StatFile
  <2>1. \A p \in Path : Stays(p) /\ Kept(p) => Kept(p)'
    BY <1>7, StatFileKeeps
  <2>2. UNCHANGED worldVars /\ rc' = rc /\ pc' = "read"
    BY <1>7 DEF StatFile, Continues, FoundInv, TypeOK
  <2> QED BY <1>1, <2>1, <2>2
<1>8. CASE StatOther
  <2>1. /\ stack' = stack /\ index' = index /\ fs' = fs
        /\ must' = must /\ frame' = frame
        /\ fs[entry].kind = "other" /\ pc' = "read" /\ pc = "stat"
    BY <1>8 DEF StatOther, Continues
  <2>2. ASSUME NEW p \in Path, Stays(p), Kept(p) PROVE Kept(p)'
    <3>1. ~LookedUp(p)
      <4>1. fs[entry] # Dir
        BY <2>1 DEF Dir
      <4> QED BY <2>1, <2>2, <4>1, FileEndsPath DEF LookedUp, FoundInv, Stays
    <3>2. OnStack(p) => OnStack(p)'
      BY <2>1 DEF OnStack
    <3>3. Indexed(p) => Indexed(p)'
      BY <2>1 DEF Indexed
    <3>4. InListing(p) => InListing(p)'
      BY <2>1 DEF InListing, Reading
    <3> QED BY <2>2, <3>1, <3>2, <3>3, <3>4 DEF Kept
  <2>3. UNCHANGED worldVars /\ rc' = rc
    BY <1>8 DEF StatOther
  <2> QED BY <1>1, <2>1, <2>2, <2>3
<1>9. CASE Finish
  <2>1. /\ stack = <<>> /\ stack' = stack /\ index' = index /\ fs' = fs
        /\ pc = "pop"
    BY <1>9 DEF Finish
  <2>2. ASSUME NEW p \in Path, Kept(p) PROVE Kept(p)'
    <3>1. Indexed(p)
      BY <2>1, <2>2 DEF Kept, OnStack, InListing, LookedUp, Reading
    <3> QED BY <2>1, <3>1 DEF Kept, Indexed
  <2>3. UNCHANGED worldVars /\ rc' = rc
    BY <1>9 DEF Finish
  <2> QED BY <1>1, <2>1, <2>2, <2>3
<1>10. ASSUME NEW c \in Path, NEW node \in Node, Change(c, node)
       PROVE  NothingMissed' /\ pc' # "done"
  <2>1. \A p \in Path : Stays(p)' => Stays(p) /\ (Kept(p) => Kept(p)')
    BY <1>10, ChangeKeeps
  <2>2. rc' = rc /\ pc' = pc /\ pc # "done"
    BY <1>10 DEF Change
  <2> QED BY <2>1, <2>2 DEF NothingMissed, FoundInv
<1>11. CASE UNCHANGED vars
  BY <1>11
  DEF vars, FoundInv, NothingMissed, Stays, Kept, Indexed, OnStack, InListing,
      LookedUp, Reading
<1> QED
  BY <1>2, <1>3, <1>4, <1>5, <1>6, <1>7, <1>8, <1>9, <1>10, <1>11
  DEF Next, Scan, Done

LEMMA FoundInit == Init => FoundInv
<1> SUFFICES ASSUME Init PROVE FoundInv
  OBVIOUS
<1>1. ASSUME NEW p \in Path PROVE OnStack(p)
  <2>1. /\ stack = <<Root>> /\ Len(stack) = 1 /\ stack[1] = Root
    BY DEF Init
  <2>2. IsPrefix(Root, p)
    <3>1. p \in Seq(Name) /\ Root \in Seq(Name) /\ Len(Root) = 0
      BY PathFacts, RootIsPath DEF Root
    <3>2. Len(p) \in Nat
      BY <3>1
    <3>3. Len(Root) <= Len(p) /\ \A i \in 1 .. Len(Root) : Root[i] = p[i]
      BY <3>1, <3>2
    <3> QED BY <3>1, <3>3, PrefixElements
  <2> QED BY <2>1, <2>2 DEF OnStack
<1>2. pc = "pop"
  BY DEF Init
<1> QED BY <1>1, <1>2, TypeInit DEF FoundInv, NothingMissed, Kept

\* A scan that succeeds has every file that nobody touched, whatever was
\* created, removed or replaced around it and between any two calls.
THEOREM UntouchedFoundEver == Spec => []UntouchedFound
<1>1. FoundInv => UntouchedFound
  <2> SUFFICES ASSUME FoundInv, pc = "done", rc = "OK",
                      NEW p \in Path \ touched, fs[p].kind = "file"
               PROVE  Indexed(p)
    BY DEF UntouchedFound, Indexed
  <2>1. Kept(p)
    BY DEF FoundInv, NothingMissed, Stays
  <2>2. stack = <<>>
    BY DEF FoundInv
  <2> QED BY <2>1, <2>2 DEF Kept, OnStack, InListing, LookedUp, Reading
<1> QED BY <1>1, FoundInit, FoundNext, PTL DEF Spec

----------------------------------------------------------------------------
(* A quiet scan meets every file once *)

Quiet == changes = 0 /\ fs[Root] = Dir

\* With nobody changing the tree, what the scanner will look at is there.
AllThere ==
  /\ \A i \in 1 .. Len(stack) : fs[stack[i]] = Dir
  /\ Reading => /\ may = {}
                /\ \A n \in must : Append(frame, n) \in Path /\ fs[Append(frame, n)] # Gone
  /\ pc = "stat" => fs[entry] # Gone

\* There is one way only on which it will come to a path, and none to one
\* that it has entered.
OneWay ==
  \A p \in Path :
    /\ \A i, j \in 1 .. Len(stack) :
         IsPrefix(stack[i], p) /\ IsPrefix(stack[j], p) => i = j
    /\ ~(OnStack(p) /\ InListing(p))
    /\ ~(OnStack(p) /\ LookedUp(p))
    /\ ~(InListing(p) /\ LookedUp(p))
    /\ p \in DOMAIN index => ~OnStack(p) /\ ~InListing(p) /\ ~LookedUp(p)

CountExact == IsFiniteSet(DOMAIN index) /\ scanned = Cardinality(DOMAIN index)

QuietInv ==
  Quiet =>
    /\ touched = {} /\ been = FilesOf(fs)
    /\ AllThere /\ OneWay /\ CountExact
    /\ rc # "OK" => faults > 0

\* What is below an entry of a directory is below the directory.
LEMMA BelowEntry ==
  ASSUME NEW d \in Seq(Name), NEW n \in Name, NEW p \in Seq(Name),
         IsPrefix(Append(d, n), p)
  PROVE  IsPrefix(d, p) /\ p[Len(d) + 1] = n
<1> DEFINE e == Append(d, n)
<1>1. /\ e \in Seq(Name) /\ Len(e) = Len(d) + 1 /\ Len(d) \in Nat
      /\ e[Len(d) + 1] = n
      /\ \A i \in 1 .. Len(d) : e[i] = d[i]
  BY AppendProperties
<1> HIDE DEF e
<1>2. Len(e) <= Len(p) /\ \A i \in 1 .. Len(e) : e[i] = p[i]
  BY <1>1, PrefixElements DEF e
<1>3. Len(p) \in Nat
  OBVIOUS
<1>4. Len(d) <= Len(p) /\ \A i \in 1 .. Len(d) : d[i] = p[i]
  BY <1>1, <1>2, <1>3
<1>5. p[Len(d) + 1] = n
  BY <1>1, <1>2
<1> QED BY <1>4, <1>5, PrefixElements

LEMMA QuietInvInit == Init => QuietInv
<1> SUFFICES ASSUME Init, Quiet PROVE QuietInv
  BY DEF QuietInv
<1>1. /\ stack = <<Root>> /\ Len(stack) = 1 /\ stack[1] = Root
      /\ DOMAIN index = {} /\ scanned = 0 /\ pc = "pop"
      /\ touched = {} /\ been = FilesOf(fs) /\ rc = "OK"
  BY DEF Init
<1>2. AllThere
  BY <1>1 DEF AllThere, Quiet, Reading
<1>3. OneWay
  BY <1>1 DEF OneWay, InListing, LookedUp, Reading
<1>4. CountExact
  BY <1>1, FS_EmptySet DEF CountExact
<1> QED BY <1>1, <1>2, <1>3, <1>4 DEF QuietInv

\* Only a change makes noise.
LEMMA QuietBefore ==
  ASSUME TypeOK, [Next]_vars, Quiet'
  PROVE  Quiet /\ UNCHANGED worldVars
<1>1. changes \in Nat
  BY ScanAssumption DEF TypeOK
<1>2. ASSUME NEW p \in Path, NEW node \in Node, Change(p, node)
      PROVE  FALSE
  BY <1>1, <1>2 DEF Change, Quiet
<1>3. UNCHANGED worldVars
  BY <1>2 DEF Next, Scan, Done, vars, worldVars, OpenDir, OpenDirFails,
              ReadEntry, EndOfDir, StatDir, StatFile, StatOther, StatGone,
              Finish, CallFails
<1> QED BY <1>3 DEF worldVars, Quiet

LEMMA OpenDirQuietly ==
  ASSUME TypeOK, Quiet, QuietInv, OpenDir
  PROVE  AllThere' /\ OneWay'
<1> DEFINE top == Last(stack)
<1>1. /\ Front(stack) \in Seq(Path) /\ top \in Path
      /\ Len(stack) \in Nat \ {0}
      /\ Len(Front(stack)) = Len(stack) - 1
      /\ \A i \in 1 .. Len(stack) - 1 : Front(stack)[i] = stack[i]
      /\ top = stack[Len(stack)]
  BY Popped DEF TypeOK, OpenDir, Last
<1>2. /\ stack' = Front(stack) /\ frame' = top /\ must' = Listing(top) /\ may' = {}
      /\ pc = "pop" /\ pc' = "read" /\ index' = index /\ fs' = fs
  BY DEF OpenDir, foundVars, worldVars
<1>3. AllThere /\ OneWay
  BY DEF QuietInv
<1> HIDE DEF top
<1>4. Len(stack') = Len(stack) - 1 /\ \A i \in 1 .. Len(stack') : stack'[i] = stack[i]
  BY <1>1, <1>2
<1>5. \A i \in 1 .. Len(stack') : i \in 1 .. Len(stack) /\ i # Len(stack)
  BY <1>1, <1>4
<1>6. AllThere'
  BY <1>2, <1>3, <1>4, <1>5 DEF AllThere, Listing, Join
<1>7. ASSUME NEW p \in Path
      PROVE  /\ InListing(p)' => IsPrefix(stack[Len(stack)], p)
             /\ OnStack(p)' => \E i \in 1 .. Len(stack) :
                                  i # Len(stack) /\ IsPrefix(stack[i], p)
             /\ ~LookedUp(p)'
  <2>1. ASSUME InListing(p)'
        PROVE  IsPrefix(top, p)
    <3>1. PICK n \in must' : IsPrefix(Append(top, n), p)
      BY <1>2, <2>1 DEF InListing
    <3>2. n \in Name
      BY <1>2, <3>1 DEF Listing
    <3> QED BY <1>1, <3>1, <3>2, PathFacts, BelowEntry
  <2>2. OnStack(p)' => \E i \in 1 .. Len(stack) : i # Len(stack) /\ IsPrefix(stack[i], p)
    BY <1>4, <1>5 DEF OnStack
  <2> QED BY <1>1, <1>2, <2>1, <2>2 DEF LookedUp
<1>8. Len(stack) \in 1 .. Len(stack)
  BY <1>1
<1>9. OneWay'
  <2> SUFFICES ASSUME NEW p \in Path
               PROVE  /\ \A i, j \in 1 .. Len(stack') :
                           IsPrefix(stack'[i], p) /\ IsPrefix(stack'[j], p) => i = j
                      /\ ~(OnStack(p)' /\ InListing(p)')
                      /\ ~LookedUp(p)'
                      /\ p \in DOMAIN index => ~OnStack(p)' /\ ~InListing(p)'
    BY <1>2 DEF OneWay
  <2>1. \A i, j \in 1 .. Len(stack) :
          IsPrefix(stack[i], p) /\ IsPrefix(stack[j], p) => i = j
    BY <1>3 DEF OneWay
  <2>2. p \in DOMAIN index => ~\E i \in 1 .. Len(stack) : IsPrefix(stack[i], p)
    BY <1>3 DEF OneWay, OnStack
  <2>3. \A i, j \in 1 .. Len(stack') :
          IsPrefix(stack'[i], p) /\ IsPrefix(stack'[j], p) => i = j
    BY <1>4, <1>5, <2>1
  <2> QED BY <1>7, <1>8, <2>1, <2>2, <2>3
<1> QED BY <1>6, <1>9

LEMMA ReadEntryQuietly ==
  ASSUME TypeOK, Quiet, QuietInv, NEW name \in Name, ReadEntry(name)
  PROVE  AllThere' /\ OneWay'
<1>1. /\ pc = "read" /\ pc' = "stat" /\ stack' = stack /\ frame' = frame /\ fs' = fs
      /\ must' = must \ {name} /\ may' = may \ {name} /\ index' = index
      /\ entry' = Append(frame, name) /\ name \in must \cup may
      /\ frame \in Seq(Name) /\ must \subseteq Name
  BY PathFacts DEF ReadEntry, Join, worldVars, foundVars, TypeOK
<1>2. AllThere /\ OneWay
  BY DEF QuietInv
<1>3. name \in must /\ may = {}
  BY <1>1, <1>2 DEF AllThere, Reading
<1>4. AllThere'
  BY <1>1, <1>2, <1>3 DEF AllThere, Reading
<1>5. ASSUME NEW p \in Path
      PROVE  /\ OnStack(p)' = OnStack(p)
             /\ InListing(p)' => InListing(p)
             /\ LookedUp(p)' => InListing(p)
             /\ ~(InListing(p)' /\ LookedUp(p)')
  <2>1. InListing(p)' => \E n \in must : n # name /\ IsPrefix(Append(frame, n), p)
    BY <1>1 DEF InListing
  <2>2. LookedUp(p)' => IsPrefix(Append(frame, name), p)
    BY <1>1 DEF LookedUp
  <2>3. InListing(p) <=> \E n \in must : IsPrefix(Append(frame, n), p)
    BY <1>1 DEF InListing, Reading
  <2>4. p \in Seq(Name)
    BY PathFacts
  <2>5. \A n \in must : IsPrefix(Append(frame, n), p) => p[Len(frame) + 1] = n
    BY <1>1, <2>4, BelowEntry
  <2>6. OnStack(p)' = OnStack(p)
    BY <1>1 DEF OnStack
  <2> QED BY <1>3, <2>1, <2>2, <2>3, <2>5, <2>6
<1>6. OneWay'
  BY <1>1, <1>2, <1>5 DEF OneWay
<1> QED BY <1>4, <1>6

LEMMA StatDirQuietly ==
  ASSUME TypeOK, Quiet, QuietInv, StatDir
  PROVE  AllThere' /\ OneWay'
<1>1. /\ stack \in Seq(Path) /\ entry \in Path /\ stack' = Append(stack, entry)
      /\ fs[entry] = Dir /\ UNCHANGED <<index, fs, must, may, frame>>
      /\ pc = "stat" /\ pc' = "read"
  BY DEF StatDir, Pushed, Continues, TypeOK, streamVars, worldVars, foundVars
<1>2. /\ Len(stack') = Len(stack) + 1 /\ Len(stack) \in Nat
      /\ stack'[Len(stack) + 1] = entry
      /\ \A i \in 1 .. Len(stack) : stack'[i] = stack[i]
  BY <1>1, AppendProperties
<1>3. AllThere /\ OneWay
  BY DEF QuietInv
<1>4. \A i \in 1 .. Len(stack') : i \in 1 .. Len(stack) \/ i = Len(stack) + 1
  BY <1>2
<1>5. AllThere'
  BY <1>1, <1>2, <1>3, <1>4 DEF AllThere, Reading
<1>6. ASSUME NEW p \in Path
      PROVE  /\ OnStack(p)' => OnStack(p) \/ LookedUp(p)
             /\ InListing(p)' = InListing(p) /\ ~LookedUp(p)'
             /\ \A i, j \in 1 .. Len(stack') :
                  IsPrefix(stack'[i], p) /\ IsPrefix(stack'[j], p) => i = j
  <2>1. OnStack(p)' => OnStack(p) \/ LookedUp(p)
    BY <1>1, <1>2, <1>4 DEF OnStack, LookedUp
  <2>2. InListing(p)' = InListing(p) /\ ~LookedUp(p)'
    BY <1>1 DEF InListing, LookedUp, Reading
  <2>3. IsPrefix(entry, p) => \A i \in 1 .. Len(stack) : ~IsPrefix(stack[i], p)
    BY <1>1, <1>3 DEF OneWay, OnStack, LookedUp
  <2>4. \A i, j \in 1 .. Len(stack) :
          IsPrefix(stack[i], p) /\ IsPrefix(stack[j], p) => i = j
    BY <1>3 DEF OneWay
  <2>5. \A i, j \in 1 .. Len(stack') :
          IsPrefix(stack'[i], p) /\ IsPrefix(stack'[j], p) => i = j
    BY <1>2, <1>4, <2>3, <2>4
  <2> QED BY <2>1, <2>2, <2>5
<1>7. OneWay'
  BY <1>1, <1>3, <1>6 DEF OneWay
<1> QED BY <1>5, <1>7

LEMMA StatFileQuietly ==
  ASSUME TypeOK, Quiet, QuietInv, StatFile
  PROVE  AllThere' /\ OneWay' /\ CountExact'
<1>1. /\ entry \in Path /\ entry \in Seq(Name)
      /\ DOMAIN index' = DOMAIN index \cup {entry} /\ scanned' = scanned + 1
      /\ UNCHANGED <<stack, frame, must, may, fs, entry>>
      /\ pc = "stat" /\ pc' = "read"
  BY PathFacts DEF StatFile, Upserted, NoteScan, Continues, TypeOK, streamVars, worldVars
<1>2. AllThere /\ OneWay /\ CountExact
  BY DEF QuietInv
<1>3. LookedUp(entry)
  BY <1>1, PrefixRefl DEF LookedUp
<1>4. entry \notin DOMAIN index /\ ~OnStack(entry) /\ ~InListing(entry)
  BY <1>1, <1>2, <1>3 DEF OneWay
<1>5. CountExact'
  BY <1>1, <1>2, <1>4, FS_AddElement DEF CountExact
<1>6. AllThere'
  BY <1>1, <1>2 DEF AllThere, Reading
<1>7. \A p \in Path : /\ OnStack(p)' = OnStack(p) /\ InListing(p)' = InListing(p)
                      /\ ~LookedUp(p)'
  BY <1>1 DEF OnStack, InListing, LookedUp, Reading
<1>8. OneWay'
  BY <1>1, <1>2, <1>4, <1>7 DEF OneWay
<1> QED BY <1>5, <1>6, <1>8

\* The other steps go nowhere new.
LEMMA StepsBackQuietly ==
  ASSUME TypeOK, QuietInv, Quiet, UNCHANGED <<stack, frame, must, may, fs, index>>,
         pc' \in {"pop", "done"} \/ (pc = "stat" /\ pc' = "read")
  PROVE  AllThere' /\ OneWay'
<1>1. AllThere /\ OneWay
  BY DEF QuietInv
<1>2. AllThere'
  BY <1>1 DEF AllThere, Reading
<1>3. \A p \in Path : /\ OnStack(p)' = OnStack(p) /\ (InListing(p)' => InListing(p))
                      /\ ~LookedUp(p)'
  BY DEF OnStack, InListing, LookedUp, Reading
<1>4. OneWay'
  BY <1>1, <1>3 DEF OneWay
<1> QED BY <1>2, <1>4

LEMMA QuietInvNext == TypeOK /\ QuietInv /\ [Next]_vars => QuietInv'
<1> SUFFICES ASSUME TypeOK, QuietInv, [Next]_vars, Quiet'
             PROVE  /\ touched' = {} /\ been' = FilesOf(fs)'
                    /\ AllThere' /\ OneWay' /\ CountExact'
                    /\ rc' # "OK" => faults' > 0
  BY DEF QuietInv
<1>1. /\ Quiet /\ UNCHANGED <<fs, touched, been, changes>>
      /\ AllThere /\ OneWay /\ CountExact
      /\ rc # "OK" => faults > 0
  BY QuietBefore DEF worldVars, QuietInv
<1>2. touched' = {} /\ been' = FilesOf(fs)'
  BY <1>1 DEF QuietInv, FilesOf
<1>3. ASSUME UNCHANGED <<index, scanned>> PROVE CountExact'
  BY <1>1, <1>3 DEF CountExact
<1> USE DEF streamVars, foundVars
<1>4. CASE OpenDir
  BY <1>1, <1>2, <1>3, <1>4, OpenDirQuietly DEF OpenDir
<1>5. CASE OpenDirFails
  <2>1. stack # <<>> /\ stack \in Seq(Path) /\ fs[stack[Len(stack)]] # Dir
    BY <1>5 DEF OpenDirFails, Last, TypeOK
  <2>2. Len(stack) \in 1 .. Len(stack)
    BY <2>1, EmptySeq
  <2> QED BY <1>1, <2>1, <2>2 DEF AllThere
<1>6. ASSUME NEW name \in Name, ReadEntry(name)
      PROVE  AllThere' /\ OneWay' /\ CountExact' /\ (rc' # "OK" => faults' > 0)
  BY <1>1, <1>3, <1>6, ReadEntryQuietly DEF ReadEntry
<1>7. CASE EndOfDir \/ StatOther \/ Finish
  <2>1. /\ UNCHANGED <<stack, frame, must, may, fs, index, scanned, rc, faults>>
        /\ pc' \in {"pop", "done"} \/ (pc = "stat" /\ pc' = "read")
    BY <1>1, <1>7 DEF EndOfDir, StatOther, Continues, Finish, TypeOK
  <2> QED BY <1>1, <1>2, <1>3, <2>1, StepsBackQuietly
<1>8. CASE StatDir
  BY <1>1, <1>2, <1>3, <1>8, StatDirQuietly DEF StatDir
<1>9. CASE StatFile
  BY <1>1, <1>2, <1>9, StatFileQuietly DEF StatFile
<1>10. CASE StatGone
  BY <1>1, <1>10 DEF StatGone, AllThere
<1>11. CASE CallFails
  <2>1. /\ UNCHANGED <<stack, frame, must, may, fs, index, scanned>>
        /\ pc' = "done" /\ faults' = faults + 1 /\ faults \in Nat
    BY <1>1, <1>11, ScanAssumption DEF CallFails, Abort, TypeOK
  <2> QED BY <1>1, <1>2, <1>3, <2>1, StepsBackQuietly
<1>12. ASSUME NEW p \in Path, NEW node \in Node, Change(p, node)
       PROVE  FALSE
  <2>1. changes \in Nat /\ changes' = changes + 1
    BY <1>12, ScanAssumption DEF Change, TypeOK
  <2> QED BY <1>1, <2>1
<1>13. CASE UNCHANGED vars
  BY <1>1, <1>2, <1>13 DEF vars, worldVars, AllThere, OneWay, CountExact, OnStack,
                           InListing, LookedUp, Reading
<1> QED BY <1>1, <1>2, <1>4, <1>5, <1>6, <1>7, <1>8, <1>9, <1>10, <1>11, <1>12, <1>13
        DEF Next, Scan, Done

\* With nobody changing the tree, the scan fails for a reason of its own only,
\* has every file of the tree and nothing else, and has counted each once, for
\* any tree and any number of failures (src/scanner.c:30-153).
THEOREM QuietScanExactEver == Spec => []QuietScanExact
<1>1. Init => InventInv /\ FoundInv
  BY FoundInit, TypeInit DEF Init, InventInv, Witnessed, NothingInvented
<1>2. InventInv /\ FoundInv /\ QuietInv => QuietScanExact
  <2> SUFFICES ASSUME InventInv, FoundInv, QuietInv, pc = "done", Quiet
               PROVE  /\ rc # "OK" => faults > 0
                      /\ rc = "OK" =>
                           /\ {<<p, index[p]>> : p \in DOMAIN index} = FilesOf(fs)
                           /\ scanned = Cardinality(DOMAIN index)
    BY DEF QuietScanExact, Quiet
  <2>1. /\ touched = {} /\ been = FilesOf(fs) /\ CountExact
        /\ rc # "OK" => faults > 0
    BY DEF QuietInv
  <2>2. \A p \in DOMAIN index : <<p, index[p]>> \in FilesOf(fs)
    BY <2>1 DEF InventInv, NothingInvented
  <2>3. ASSUME rc = "OK", NEW p \in Path, fs[p].kind = "file"
        PROVE  p \in DOMAIN index /\ index[p] = fs[p].size
    <3>1. Stays(p) /\ stack = <<>>
      BY <2>1, <2>3 DEF Stays, FoundInv
    <3>2. Kept(p)
      BY <2>3, <3>1 DEF FoundInv, NothingMissed
    <3> QED BY <3>1, <3>2 DEF Kept, OnStack, InListing, LookedUp, Reading, Indexed
  <2>4. ASSUME rc = "OK" PROVE {<<p, index[p]>> : p \in DOMAIN index} = FilesOf(fs)
    BY <2>2, <2>3, <2>4 DEF FilesOf
  <2> QED BY <2>1, <2>4 DEF CountExact
<1>3. FoundInv => TypeOK
  BY DEF FoundInv
<1> QED BY <1>1, <1>2, <1>3, InventNext, FoundNext, QuietInvInit, QuietInvNext, PTL
        DEF Spec
=============================================================================
