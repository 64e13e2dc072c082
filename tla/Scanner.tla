------------------------------ MODULE Scanner ------------------------------
(***************************************************************************)
(* scan_directory in src/scanner.c: one tree is walked with an explicit    *)
(* stack of directories while others may change it.                        *)
(*                                                                         *)
(* A relative path is the sequence of its names, the root's is <<>>.  The  *)
(* scanner works by path: what readdir named is looked up again by lstat,  *)
(* and a directory found by lstat again by opendir, maybe much later.  As  *)
(* POSIX has it, readdir returns every entry that stays, and may or may    *)
(* not return, even again, one added or removed since opendir.             *)
(*                                                                         *)
(* The index is the map that FileIndex implements.  "other" is whatever is *)
(* neither a regular file nor a directory, symbolic links included; one    *)
(* put in place of a directory between lstat and opendir is taken not to   *)
(* lead to another directory.                                              *)
(***************************************************************************)
EXTENDS Integers, Sequences, SequencesExt

CONSTANTS
  Name,
  Path,         \* the relative paths there may be
  Size,         \* file sizes
  Worlds,       \* the trees to start with
  MaxChanges,   \* bound on the changes made to the tree
  MaxFaults     \* bound on the calls that fail

Dir == [kind |-> "dir"]
Gone == [kind |-> "gone"]
Node == [kind : {"file"}, size : Size] \cup [kind : {"dir", "other", "gone"}]

\* Whatever is there is in a directory that is there.
IsTree(f) ==
  \A p, q \in Path :
    IsStrictPrefix(q, p) /\ f[p] # Gone => f[q] = Dir

ASSUME ScanAssumption ==
  /\ Path \subseteq Seq(Name)
  /\ \A p \in Path : \A n \in 0 .. Len(p) : SubSeq(p, 1, n) \in Path
  /\ Path # {}
  /\ \A f \in Worlds : f \in [Path -> Node] /\ IsTree(f)
  /\ MaxChanges \in Nat
  /\ MaxFaults \in Nat

VARIABLES
  fs,           \* what is at each path
  touched,      \* the paths at which, or above which, something was changed
  been,         \* the files there have been, with their sizes
  changes,
  stack,        \* directories still to be read
  frame,        \* the one being read
  must, may,    \* names readdir has to, or may, still return
  attached,     \* is the directory being read still the one at its path?
  entry,        \* the path being looked up
  index,        \* path |-> size
  scanned,      \* scanned_a or scanned_b of the progress display
  pc, rc, errno, faults

worldVars == <<fs, touched, been, changes>>
streamVars == <<frame, must, may, attached>>
foundVars == <<index, scanned>>
vars == <<worldVars, stack, streamVars, entry, foundVars, pc, rc, errno, faults>>

Root == <<>>

\* What a call that succeeds may leave in errno (stdio asks for a terminal).
LeftInErrno == {"OK", "ENOTTY"}

TypeOK ==
  /\ fs \in [Path -> Node]
  /\ IsTree(fs)
  /\ touched \subseteq Path
  /\ been \subseteq Path \X Size
  /\ changes \in 0 .. MaxChanges
  /\ stack \in Seq(Path)
  /\ frame \in Path
  /\ must \subseteq Name
  /\ may \subseteq Name
  /\ attached \in BOOLEAN
  /\ entry \in Path
  /\ DOMAIN index \subseteq Path
  /\ \A p \in DOMAIN index : index[p] \in Size
  /\ scanned \in Nat
  /\ pc \in {"pop", "read", "stat", "done"}
  /\ rc \in {"OK", "ENOENT", "ENOMEM", "EIO"}
  /\ rc # "OK" => pc = "done"
  /\ errno \in LeftInErrno
  /\ pc = "read" => errno = "OK"
  /\ faults \in 0 .. MaxFaults

----------------------------------------------------------------------------

FilesOf(f) == {<<p, f[p].size>> : p \in {q \in Path : f[q].kind = "file"}}

Init ==
  /\ fs \in Worlds
  /\ touched = {}
  /\ been = FilesOf(fs)
  /\ changes = 0
  /\ stack = <<Root>>
  /\ frame = Root
  /\ must = {}
  /\ may = {}
  /\ attached = FALSE
  /\ entry = Root
  /\ index = [p \in {} |-> 0]
  /\ scanned = 0
  /\ pc = "pop"
  /\ rc = "OK"
  /\ errno \in LeftInErrno
  /\ faults = 0

\* A broken variant: the inner loop is left, the outer one is not.
AbortDirectory(code) ==
  /\ pc' = "pop"
  /\ rc' = code

\* Any error ends the scan.
Abort(code) ==
  /\ pc' = "done"
  /\ rc' = code

\* A failing call other than a lookup: opendir, readdir, lstat, malloc,
\* realloc, file_index_upsert.
CallFails ==
  /\ pc # "done"
  /\ faults < MaxFaults
  /\ faults' = faults + 1
  /\ \E code \in {"ENOMEM", "EIO"} : Abort(code)
  /\ UNCHANGED <<worldVars, stack, streamVars, entry, foundVars, errno>>

\* vd_normalize_joined_relative, and vd_join_path for the absolute path.
Join(parent, name) == Append(parent, name)

Listing(d) == {n \in Name : Join(d, n) \in Path /\ fs[Join(d, n)] # Gone}

\* A broken variant: what is in errno stays there.
ErrnoKept == errno

\* errno = 0, before readdir is called again.
ErrnoForReaddir == "OK"

\* opendir on the frame popped, found by its path.
OpenDir ==
  /\ pc = "pop"
  /\ stack # <<>>
  /\ fs[Last(stack)] = Dir
  /\ stack' = Front(stack)
  /\ frame' = Last(stack)
  /\ must' = Listing(Last(stack))
  /\ may' = {}
  /\ attached' = TRUE
  /\ pc' = "read"
  /\ errno' = ErrnoForReaddir
  /\ UNCHANGED <<worldVars, entry, foundVars, rc, faults>>

\* There is no directory at that path (any more).
OpenDirFails ==
  /\ pc = "pop"
  /\ stack # <<>>
  /\ fs[Last(stack)] # Dir
  /\ stack' = Front(stack)
  /\ Abort("ENOENT")
  /\ UNCHANGED <<worldVars, streamVars, entry, foundVars, errno, faults>>

\* readdir returns an entry, whose paths are made; "." and ".." are skipped.
ReadEntry(name) ==
  /\ pc = "read"
  /\ name \in must \cup may
  /\ must' = must \ {name}
  /\ may' = may \ {name}
  /\ Join(frame, name) \in Path
  /\ entry' = Join(frame, name)
  /\ errno' \in LeftInErrno
  /\ pc' = "stat"
  /\ UNCHANGED <<worldVars, stack, frame, attached, foundVars, rc, faults>>

\* readdir returns NULL, which is the end unless errno says that it failed.
EndOfDir ==
  /\ pc = "read"
  /\ must = {}
  /\ IF errno = "OK" THEN pc' = "pop" /\ UNCHANGED rc ELSE Abort(errno)
  /\ UNCHANGED <<worldVars, stack, streamVars, entry, foundVars, errno, faults>>

\* Broken variants: the count is not incremented; ".." is followed.
PushedOver(s, p) == [s EXCEPT ![Len(s)] = p]
PushedParent(s, p) == Append(s, Front(p))

\* frame_stack_push.
Pushed(s, p) == Append(s, p)

\* The end of an iteration that was not left for an error.
Continues ==
  /\ pc' = "read"
  /\ errno' = ErrnoForReaddir

\* lstat finds a directory.
StatDir ==
  /\ pc = "stat"
  /\ fs[entry] = Dir
  /\ stack' = Pushed(stack, entry)
  /\ rc' = "OK"
  /\ Continues
  /\ UNCHANGED <<worldVars, streamVars, entry, foundVars, faults>>

\* A broken variant: entered under the name alone.
UpsertedByName(m, p, size) ==
  [q \in DOMAIN m \cup {<<Last(p)>>} |-> IF q = <<Last(p)>> THEN size ELSE m[q]]

\* file_index_upsert, as PathMap has it.
Upserted(m, p, size) ==
  [q \in DOMAIN m \cup {p} |-> IF q = p THEN size ELSE m[q]]

\* progress_note_scan.
NoteScan == scanned' = scanned + 1

\* lstat finds a regular file: into the index with it.
StatFile ==
  /\ pc = "stat"
  /\ fs[entry].kind = "file"
  /\ index' = Upserted(index, entry, fs[entry].size)
  /\ NoteScan
  /\ rc' = "OK"
  /\ Continues
  /\ UNCHANGED <<worldVars, stack, streamVars, entry, faults>>

\* lstat finds something else.
StatOther ==
  /\ pc = "stat"
  /\ fs[entry].kind = "other"
  /\ Continues
  /\ UNCHANGED <<worldVars, stack, streamVars, entry, foundVars, rc, faults>>

\* lstat finds nothing at the path (any more).
StatGone ==
  /\ pc = "stat"
  /\ fs[entry] = Gone
  /\ Abort("ENOENT")
  /\ UNCHANGED <<worldVars, stack, streamVars, entry, foundVars, errno, faults>>

\* No directory is left.
Finish ==
  /\ pc = "pop"
  /\ stack = <<>>
  /\ pc' = "done"
  /\ UNCHANGED <<worldVars, stack, streamVars, entry, foundVars, rc, errno, faults>>

Scan ==
  \/ OpenDir \/ OpenDirFails
  \/ \E name \in Name : ReadEntry(name)
  \/ EndOfDir
  \/ StatDir \/ StatFile \/ StatOther \/ StatGone
  \/ Finish
  \/ CallFails

Reading == pc \in {"read", "stat"}

\* Somebody creates, removes, replaces or rewrites what is at a path; what
\* was below it is gone.  A directory may be replaced by an empty one.
Change(p, node) ==
  /\ pc # "done"
  /\ changes < MaxChanges
  /\ changes' = changes + 1
  /\ p = Root \/ fs[Front(p)] = Dir
  /\ node # fs[p] \/ node = Dir
  /\ fs' = [q \in Path |-> IF q = p THEN node
                          ELSE IF IsPrefix(p, q) THEN Gone ELSE fs[q]]
  /\ touched' = touched \cup {q \in Path : IsPrefix(p, q)}
  /\ been' = been \cup FilesOf(fs')
  /\ CASE Reading /\ IsPrefix(p, frame) ->
            \* the directory being read: its entries go with it
            /\ must' = {}
            /\ may' = may \cup must
            /\ attached' = FALSE
       [] Reading /\ attached /\ p # Root /\ Front(p) = frame ->
            /\ must' = must \ {Last(p)}
            /\ may' = may \cup {Last(p)}
            /\ UNCHANGED attached
       [] OTHER -> UNCHANGED <<must, may, attached>>
  /\ UNCHANGED <<stack, frame, entry, foundVars, pc, rc, errno, faults>>

Done == pc = "done" /\ UNCHANGED vars

Next ==
  \/ Scan
  \/ \E p \in Path, node \in Node : Change(p, node)
  \/ Done

\* The scanner is scheduled; nothing is expected of those who change the tree.
Spec == Init /\ [][Next]_vars /\ WF_vars(Scan)

----------------------------------------------------------------------------
(* Properties *)

\* A scan that succeeds has every file that nobody touched, and nobody moved
\* along with a directory above it, under its path with its size, whatever
\* else was created, removed or replaced around it meanwhile
\* (src/scanner.c:77-144: each name looked up twice, each directory later).
UntouchedFound ==
  pc = "done" /\ rc = "OK" =>
    \A p \in Path \ touched :
      fs[p].kind = "file" => p \in DOMAIN index /\ index[p] = fs[p].size

\* Nothing is invented, not even by a scan that fails: what the index says of
\* a path was true of it at some instant of the scan.
NothingInvented == \A p \in DOMAIN index : <<p, index[p]>> \in been

\* A quiet scan fails for a reason of its own only, never for what a call that
\* succeeded left in errno; it meets every file exactly once, as the counter on
\* the terminal shows, and takes no directory or special file for one.
QuietScanExact ==
  pc = "done" /\ changes = 0 /\ fs[Root] = Dir =>
    /\ rc # "OK" => faults > 0
    /\ rc = "OK" => /\ {<<p, index[p]>> : p \in DOMAIN index} = FilesOf(fs)
                    /\ scanned = Cardinality(DOMAIN index)

\* However the tree is changed, a bounded number of times, the scan ends.
ScanEnds == <>(pc = "done")
=============================================================================
