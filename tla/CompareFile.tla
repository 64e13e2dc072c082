---------------------------- MODULE CompareFile ----------------------------
(***************************************************************************)
(* One call of compare_candidate_file (src/compare.c) with the reads of    *)
(* src/hash.c, system call by system call, over two files that others may  *)
(* change, replace or remove meanwhile.                                    *)
(*                                                                         *)
(* A file is a sequence of lines, a line a sequence of bytes; a buffer of  *)
(* read(2), a page of a mapping and a getline take one line each.  A file  *)
(* changed in place changes under a descriptor that has it open, unless    *)
(* stdio has buffered it; one replaced or removed does not.                *)
(*                                                                         *)
(* Not modelled: failure to close; read(2) on a regular file returning     *)
(* less than what is there.                                                *)
(***************************************************************************)
EXTENDS LineDiffs, SequencesExt

CONSTANTS
  Content,       \* what files may hold
  Gone,          \* no such file; no descriptor
  Hash(_),       \* XXH3_64bits of a content, not injective
  Configs,       \* include_lines, mmap_threshold; verify_equal_hashes is set
  Sniffed,       \* the lines that fit into 8192 bytes
  MaxChanges,    \* bound on the changes made to the files
  MaxFaults      \* bound on the calls that fail

ASSUME CompareAssumption ==
  /\ Content \subseteq Seq(Seq(0 .. 255))
  /\ Gone \notin Content
  /\ Sniffed \in Nat \ {0}
  /\ MaxChanges \in Nat
  /\ MaxFaults \in Nat

VARIABLES
  config,
  file,          \* what is at path_a and path_b
  pc,
  side,          \* the file whose turn it is
  open,          \* what is behind the descriptor of each
  pos,           \* how far it has been read
  mapped,        \* st_size of the file being hashed, in lines, if it is mapped
  hashed,        \* what went into hash_a and hash_b
  got,           \* the block or line just read from the first file
  line_no,
  outcome,       \* the type and detail recorded, or the errno returned
  deserved,      \* the types the two files have deserved since the call
  changes, faults

fileVars == <<file, deserved, changes>>
readVars == <<open, pos, mapped, hashed, got>>
diffVars == <<lineDiffVars, line_no>>
vars == <<config, fileVars, pc, side, readVars, diffVars, outcome, faults>>

Side == {"a", "b"}

Unmapped == -1

Size(content) == FoldSeq(LAMBDA line, sum : sum + Len(line), 0, content)

Deserves(f) == IF f["a"] = f["b"] THEN "UNCHANGED" ELSE "MODIFIED"

NoOutcome == [type |-> "none"]

TypeOK ==
  /\ config \in Configs
  /\ file \in [Side -> Content \cup {Gone}]
  /\ pc \in {"hash_open", "hash", "verify_open", "verify", "equal",
             "sniff", "lines_open", "lines", "record", "done",
             "killed"}
  /\ side \in Side
  /\ open \in [Side -> Content \cup {Gone}]
  /\ pos \in [Side -> Nat]
  /\ mapped \in Nat \cup {Unmapped}
  /\ \A s \in Side : hashed[s] \in Seq(Seq(0 .. 255))
  /\ Len(got) <= 1
  /\ Len(line_diffs) < line_no
  /\ Len(line_diffs) <= diff_capacity
  /\ outcome.type \in {"none", "UNCHANGED", "MODIFIED", "error"}
  /\ changes \in 0 .. MaxChanges
  /\ faults \in 0 .. MaxFaults

----------------------------------------------------------------------------

\* A candidate: the scan found the same size for both.
Init ==
  /\ config \in Configs
  /\ \E a, b \in Content : Size(a) = Size(b) /\ file = [s \in Side |->
                                                 IF s = "a" THEN a ELSE b]
  /\ pc = "hash_open"
  /\ side = "a"
  /\ open = [s \in Side |-> Gone]
  /\ pos = [s \in Side |-> 0]
  /\ mapped = Unmapped
  /\ hashed = [s \in Side |-> <<>>]
  /\ got = <<>>
  /\ LineDiffInit
  /\ line_no = 1
  /\ outcome = NoOutcome
  /\ deserved = {Deserves(file)}
  /\ changes = 0
  /\ faults = 0

Goes(from, to) ==
  /\ pc = from
  /\ pc' = to

\* The call returns an error; nothing is recorded, and a record that was
\* being made loses its line differences.
Returns(errno) ==
  /\ pc' = "done"
  /\ outcome' = [type |-> "error", errno |-> errno]

LineOf(content, n) == IF n \in DOMAIN content THEN <<content[n]>> ELSE <<>>

\* The next block or line of a file; empty at its end.
Block(s) == LineOf(open[s], pos[s] + 1)

Advance(s) == pos' = [pos EXCEPT ![s] = @ + Len(Block(s))]

\* Opening path_a or path_b: a path that is gone ends the call.
Opens(s) ==
  /\ file[s] # Gone
  /\ open' = [open EXCEPT ![s] = file[s]]
  /\ pos' = [pos EXCEPT ![s] = 0]

OpenFails ==
  /\ pc \in {"hash_open", "verify_open", "lines_open"}
  /\ file[side] = Gone
  /\ Returns("ENOENT")
  /\ LineDiffDestroy
  /\ UNCHANGED <<side, readVars, line_no, faults>>

Fault ==
  /\ faults < MaxFaults
  /\ faults' = faults + 1

\* A read that fails, no memory for a buffer, a descriptor or a line, or in
\* result_set_push.
CallFails ==
  /\ pc \notin {"sniff", "done", "killed"}
  /\ mapped = Unmapped
  /\ Fault
  /\ \E errno \in {"EIO", "ENOMEM"} :
       /\ pc \in {"equal", "record"} => errno = "ENOMEM"
       /\ Returns(errno)
  /\ LineDiffDestroy
  /\ UNCHANGED <<side, readVars, line_no>>

----------------------------------------------------------------------------
(* hash_file_xxh3 *)

\* open and fstat; a small file is mapped, another one read.
HashOpen ==
  /\ Goes("hash_open", "hash")
  /\ Opens(side)
  /\ mapped' = IF Size(file[side]) <= config.mmap_threshold
               THEN Len(file[side]) ELSE Unmapped
  /\ UNCHANGED <<side, hashed, got, diffVars, outcome, faults>>

\* mmap fails: the file is read after all.  An empty one is never mapped.
MmapFails ==
  /\ pc = "hash"
  /\ mapped > 0 /\ pos[side] = 0
  /\ Fault
  /\ mapped' = Unmapped
  /\ UNCHANGED <<pc, side, open, pos, hashed, got, diffVars, outcome>>

\* A block read, or a page of the mapping touched, goes into the hash.
HashBlock ==
  /\ pc = "hash"
  /\ Block(side) # <<>>
  /\ mapped = Unmapped \/ pos[side] < mapped
  /\ hashed' = [hashed EXCEPT ![side] = @ \o Block(side)]
  /\ Advance(side)
  /\ UNCHANGED <<pc, side, open, mapped, got, diffVars, outcome, faults>>

\* The file has shrunk below the mapping: the page is not there (SIGBUS).
MappingCut ==
  /\ Goes("hash", "killed")
  /\ pos[side] < mapped
  /\ Block(side) = <<>>
  /\ UNCHANGED <<side, readVars, diffVars, outcome, faults>>

\* --lines asks for two files that differ to be looked into.
Differ == IF config.include_lines THEN "sniff" ELSE "record"

\* A broken variant: equal hashes are believed.
HashesDecide ==
  IF Hash(hashed["a"]) = Hash(hashed["b"]) THEN "equal" ELSE Differ

\* What the two hashes lead to.
HashesLeadTo ==
  IF Hash(hashed["a"]) = Hash(hashed["b"]) THEN "verify_open" ELSE Differ

\* End of file, or of the mapping: on to the other file, or to the result.
HashDone ==
  /\ pc = "hash"
  /\ IF mapped = Unmapped THEN Block(side) = <<>> ELSE pos[side] = mapped
  /\ pc' = IF side = "a" THEN "hash_open" ELSE HashesLeadTo
  /\ side' = IF side = "a" THEN "b" ELSE "a"
  /\ open' = [open EXCEPT ![side] = Gone]
  /\ mapped' = Unmapped
  /\ UNCHANGED <<pos, hashed, got, diffVars, outcome, faults>>

----------------------------------------------------------------------------
(* vd_compare_binary_files, and opening in detect_line_differences *)

OpenBoth(from, to) ==
  /\ pc = from
  /\ Opens(side)
  /\ pc' = IF side = "a" THEN from ELSE to
  /\ side' = IF side = "a" THEN "b" ELSE "a"
  /\ UNCHANGED <<mapped, hashed, got, diffVars, outcome, faults>>

VerifyOpen == OpenBoth("verify_open", "verify")

LinesOpen == OpenBoth("lines_open", "lines")

\* read, or getline, on the first file.
ReadFirst ==
  /\ pc \in {"verify", "lines"}
  /\ side = "a"
  /\ got' = Block("a")
  /\ Advance("a")
  /\ side' = "b"
  /\ UNCHANGED <<pc, open, mapped, hashed, diffVars, outcome, faults>>

\* Neither read nor getline has anything left.
BothEnded(x, y) == x = <<>> /\ y = <<>>

\* The same on the second, and what the pair says.
VerifyBlock ==
  LET other == Block("b") IN
  /\ pc = "verify"
  /\ side = "b"
  /\ Advance("b")
  /\ side' = "a"
  /\ pc' = IF BothEnded(got, other) THEN "equal"
           ELSE IF got # other THEN Differ ELSE "verify"
  /\ UNCHANGED <<open, mapped, hashed, got, diffVars, outcome, faults>>

----------------------------------------------------------------------------
(* vd_is_likely_text_file and detect_line_differences *)

TextByte(byte) ==
  /\ byte # 0
  /\ byte \in 9 .. 126 \/ byte \in {9, 10, 12, 13}

IsLikelyText(content) ==
  \A n \in 1 .. Len(content) : n <= Sniffed =>
    \A k \in 1 .. Len(content[n]) : TextByte(content[n][k])

\* A file that looks like text; one read, so that the open adds nothing.
SniffText ==
  /\ pc = "sniff"
  /\ file[side] # Gone
  /\ IsLikelyText(file[side])
  /\ pc' = IF side = "a" THEN "sniff" ELSE "lines_open"
  /\ side' = IF side = "a" THEN "b" ELSE "a"
  /\ UNCHANGED <<readVars, diffVars, outcome, faults>>

\* One that does not, is gone, or cannot be read: not text, and no error.
SniffBinary ==
  /\ Goes("sniff", "record")
  /\ IF file[side] = Gone \/ ~IsLikelyText(file[side])
     THEN UNCHANGED faults
     ELSE Fault
  /\ UNCHANGED <<side, readVars, diffVars, outcome>>

\* trim_line_length: without the CRs and LFs at the end; "" past the end.
Trimmed(block) ==
  LET line == IF block = <<>> THEN <<>> ELSE block[1]
      kept == {n \in 1 .. Len(line) : line[n] \notin {10, 13}}
  IN IF kept = {} THEN <<>>
     ELSE SubSeq(line, 1, CHOOSE n \in kept : \A m \in kept : m <= n)

\* Broken variants: lines are not numbered, or as they are found to differ.
NextLineNoStuck(n, differs) == n
NextLineNoFound(n, differs) == IF differs THEN n + 1 ELSE n

NextLineNo(n, differs) == n + 1

AtSecondLine ==
  /\ pc = "lines"
  /\ side = "b"
  /\ ~BothEnded(got, Block("b"))

\* getline on the second file: a pair of lines that differ, terminators
\* included, is kept.
CompareLine ==
  LET other == Block("b")
      differs == got # other
  IN
  /\ AtSecondLine
  /\ side' = "a"
  /\ Advance("b")
  /\ line_no' = NextLineNo(line_no, differs)
  /\ IF differs THEN LineDiffPush(line_no, Trimmed(got), Trimmed(other))
                ELSE UNCHANGED lineDiffVars
  /\ UNCHANGED <<pc, open, mapped, hashed, got, outcome, faults>>

\* There is no memory to keep the pair: the comparison fails.
LineNotKept ==
  /\ AtSecondLine
  /\ got # Block("b")
  /\ Fault
  /\ LineDiffPushFails
  /\ Returns("ENOMEM")
  /\ UNCHANGED <<side, readVars, line_no>>

\* Neither file has another line.
LinesEnd ==
  /\ Goes("lines", "record")
  /\ side = "b"
  /\ BothEnded(got, Block("b"))
  /\ UNCHANGED <<side, readVars, diffVars, outcome, faults>>

----------------------------------------------------------------------------

\* The record for result_set_push, or the type for result_set_note_type.
Record ==
  /\ pc \in {"equal", "record"}
  /\ pc' = "done"
  /\ outcome' =
       IF pc = "equal" THEN [type |-> "UNCHANGED", detail_kind |-> "NONE"]
       ELSE [type |-> "MODIFIED",
             detail_kind |-> IF line_diffs # <<>> THEN "LINES"
                                                  ELSE "BINARY_CHANGED"]
  /\ UNCHANGED <<side, readVars, diffVars, faults>>

\* Somebody writes, replaces or removes one of the files.
Change(s, content) ==
  /\ pc \notin {"done", "killed"}
  /\ changes < MaxChanges
  /\ changes' = changes + 1
  /\ content # file[s]
  /\ file' = [file EXCEPT ![s] = content]
  /\ \/ UNCHANGED open
     \/ /\ Gone \notin {content, file[s], open[s]}
        /\ open' = [open EXCEPT ![s] = content]
  /\ deserved' = deserved \cup {Deserves(file')}
  /\ UNCHANGED <<config, pc, side, pos, mapped, hashed, got, diffVars, outcome,
                 faults>>

\* The call has returned, or the process is gone.
Ended ==
  /\ pc \in {"done", "killed"}
  /\ UNCHANGED vars

\* What the worker does leaves its files and options alone.
Worker ==
  /\ \/ OpenFails \/ CallFails
     \/ HashOpen \/ MmapFails \/ HashBlock \/ MappingCut \/ HashDone
     \/ VerifyOpen \/ LinesOpen \/ ReadFirst \/ VerifyBlock
     \/ SniffText \/ SniffBinary \/ CompareLine \/ LineNotKept
     \/ LinesEnd
     \/ Record
  /\ UNCHANGED <<config, fileVars>>

Next ==
  \/ Worker
  \/ \E s \in Side, content \in Content \cup {Gone} : Change(s, content)
  \/ Ended

Spec == Init /\ [][Next]_vars

----------------------------------------------------------------------------
(* Properties *)

\* A verdict is never invented: while the call ran there was an instant at
\* which the two files deserved it.  With untouched files that makes it right,
\* whatever hashes collide; with a file changed once, at any moment, in place
\* or not, the hash and the second reading together still see to it, unless
\* two contents with one hash are involved.
VerdictWasTrue ==
  \/ outcome.type \notin {"UNCHANGED", "MODIFIED"}
  \/ outcome.type \in deserved
  \/ changes > 1
  \/ changes = 1 /\ hashed["a"] # hashed["b"]
                 /\ Hash(hashed["a"]) = Hash(hashed["b"])

\* With untouched files and no call that fails, --lines finds exactly the lines
\* that differ, under their own numbers and in order, for any two files that
\* look like text and hold different bytes, if only by a line end or by having
\* more lines.
DiffsExact ==
  LET a == file["a"]
      b == file["b"]
      differing == {n \in 1 .. Len(a) + Len(b) : LineOf(a, n) # LineOf(b, n)}
  IN outcome.type = "MODIFIED" /\ changes = 0 /\ faults = 0 =>
       IF config.include_lines /\ IsLikelyText(a) /\ IsLikelyText(b)
       THEN /\ outcome.detail_kind = "LINES"
            /\ {line_diffs[i].line_number : i \in 1 .. Len(line_diffs)} = differing
            /\ \A i \in 1 .. Len(line_diffs) :
                 LET n == line_diffs[i].line_number IN
                 /\ line_diffs[i].left = Trimmed(LineOf(a, n))
                 /\ line_diffs[i].right = Trimmed(LineOf(b, n))
                 /\ i > 1 => n > line_diffs[i - 1].line_number
       ELSE outcome.detail_kind = "BINARY_CHANGED"

\* The copies of lines on the heap are exactly those a record leads to, after
\* every push, every push that fails for lack of the array or of either copy,
\* and every failure later: none is lost, none is freed twice, and a
\* comparison that records nothing keeps nothing
\* (src/index.c:161-207, src/compare.c:156-171).
CopiesOwned ==
  /\ copies = 2 * Len(line_diffs)
  /\ outcome.type \in {"error", "UNCHANGED"} => copies = 0 /\ diff_capacity = 0

\* include/common.h:52-54: "LineDiff tracks exactly what went wonderfully wrong
\* on a specific line."  So what it keeps of the two lines should differ.
DiffsShowDifference ==
  \A i \in 1 .. Len(line_diffs) : line_diffs[i].left # line_diffs[i].right
=============================================================================
