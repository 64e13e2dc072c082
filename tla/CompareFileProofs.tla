-------------------------- MODULE CompareFileProofs --------------------------
(***************************************************************************)
(* Theorems about compare_candidate_file, for any contents and any hash,   *)
(* however it collides: types, the ownership of the copies of lines, and   *)
(* that no verdict is invented, for one change of one of the files at any  *)
(* moment.                                                                 *)
(***************************************************************************)
EXTENDS CompareFile, SequenceTheorems, TLAPS

Line == Seq(0 .. 255)

\* A sequence, whatever it holds.
IsSequence(s) == s \in Seq({s[i] : i \in DOMAIN s})

LEMMA EmptyIsSequence == IsSequence(<<>>) /\ Len(<<>>) = 0
BY DEF IsSequence

LEMMA AppendIsSequence ==
  ASSUME NEW s, IsSequence(s), NEW x
  PROVE  /\ IsSequence(Append(s, x)) /\ Len(Append(s, x)) = Len(s) + 1
         /\ Append(s, x)[Len(s) + 1] = x
         /\ \A i \in 1 .. Len(s) : Append(s, x)[i] = s[i]
<1> DEFINE T == {s[i] : i \in DOMAIN s} \cup {x}
           t == Append(s, x)
<1>1. s \in Seq(T)
  BY SeqMonotonic DEF IsSequence
<1> HIDE DEF T
<1>2. x \in T
  BY DEF T
<1>3. /\ t \in Seq(T) /\ Len(t) = Len(s) + 1
      /\ t[Len(s) + 1] = x /\ \A i \in 1 .. Len(s) : t[i] = s[i]
  BY <1>1, <1>2, AppendProperties
<1> HIDE DEF t
<1>4. t \in Seq({t[i] : i \in DOMAIN t})
  <2>1. DOMAIN t = 1 .. Len(t) /\ Len(t) \in Nat
    BY <1>3
  <2>2. t \in [1 .. Len(t) -> {t[i] : i \in DOMAIN t}]
    BY <1>3, <2>1
  <2> QED BY <2>1, <2>2, SeqDef
<1> QED BY <1>3, <1>4 DEF t, IsSequence

LEMMA SequenceLength ==
  ASSUME NEW s, IsSequence(s)
  PROVE  Len(s) \in Nat
BY LenProperties DEF IsSequence

LEMMA LineOfProperties ==
  ASSUME NEW content \in Seq(Line), NEW n \in Nat
  PROVE  /\ LineOf(content, n) \in Seq(Line)
         /\ n \in 1 .. Len(content) =>
              /\ LineOf(content, n) = <<content[n]>>
              /\ LineOf(content, n) # <<>>
              /\ Len(LineOf(content, n)) = 1
         /\ n \notin 1 .. Len(content) =>
              LineOf(content, n) = <<>> /\ Len(LineOf(content, n)) = 0
         /\ Len(content) \in Nat
<1>1. DOMAIN content = 1 .. Len(content) /\ Len(content) \in Nat
  BY LenProperties
<1>2. CASE n \in DOMAIN content
  <2>1. content[n] \in Line
    BY <1>1, <1>2, ElementOfSeq
  <2> QED BY <1>1, <1>2, <2>1 DEF LineOf
<1>3. CASE n \notin DOMAIN content
  BY <1>1, <1>3 DEF LineOf
<1> QED BY <1>2, <1>3

----------------------------------------------------------------------------
(* Types: what is read from is open *)

ReadFrom(s) ==
  \/ pc = "hash" /\ s = side
  \/ pc \in {"verify_open", "lines_open"} /\ side = "b" /\ s = "a"
  \/ pc \in {"verify", "lines"}

TypeInv ==
  /\ TypeOK
  /\ \A s \in Side : ReadFrom(s) => open[s] # Gone
  /\ hashed \in [Side -> Seq(Line)]
  /\ got \in Seq(Line)
  /\ IsSequence(line_diffs)
  /\ diff_capacity \in Nat
  /\ line_no \in Nat
  /\ pc # "done" => outcome = NoOutcome

LEMMA TypeInvInit == Init => TypeInv
<1> SUFFICES ASSUME Init PROVE TypeInv
  OBVIOUS
<1> USE CompareAssumption DEF Init
<1>1. hashed \in [Side -> Seq(Line)] /\ <<>> \in Seq(Seq(0 .. 255)) /\ got = <<>>
  BY DEF Side, Line
<1>2. IsSequence(line_diffs) /\ Len(line_diffs) = 0 /\ diff_capacity = 0
  BY EmptyIsSequence DEF LineDiffInit
<1>3. file \in [Side -> Content \cup {Gone}] /\ outcome.type = "none"
  BY DEF NoOutcome
<1>4. open \in [Side -> Content \cup {Gone}] /\ pos \in [Side -> Nat]
  OBVIOUS
<1>5. Len(got) = 0 /\ got \in Seq(Line)
  BY <1>1 DEF Line
<1>6. TypeOK
  BY <1>1, <1>2, <1>3, <1>4, <1>5 DEF TypeOK, Unmapped, Side
<1> QED BY <1>2, <1>5, <1>6 DEF TypeInv, ReadFrom, Side, Line

\* What the next block of an open file is.
LEMMA BlockProperties ==
  ASSUME TypeInv, NEW s \in Side, open[s] # Gone
  PROVE  /\ Block(s) \in Seq(Line)
         /\ Len(Block(s)) \in 0 .. 1
         /\ pos[s] + Len(Block(s)) \in Nat
         /\ Block(s) = <<>> <=> Len(Block(s)) = 0
<1>1. open[s] \in Seq(Line) /\ pos[s] \in Nat
  BY CompareAssumption DEF TypeInv, TypeOK, Line
<1> DEFINE n == pos[s] + 1
           block == LineOf(open[s], n)
<1>2. n \in Nat
  BY <1>1
<1> HIDE DEF n
<1>3. /\ block \in Seq(Line)
      /\ n \in 1 .. Len(open[s]) => block # <<>> /\ Len(block) = 1
      /\ n \notin 1 .. Len(open[s]) => block = <<>> /\ Len(block) = 0
  BY <1>1, <1>2, LineOfProperties
<1> HIDE DEF block
<1>4. Len(block) \in {0, 1} /\ (block = <<>> <=> Len(block) = 0)
  BY <1>3
<1> QED BY <1>1, <1>3, <1>4 DEF Block, n, block

\* The parts of TypeInv that the steps of the line differences disturb.
DiffsTyped ==
  /\ IsSequence(line_diffs)
  /\ Len(line_diffs) < line_no
  /\ Len(line_diffs) <= diff_capacity
  /\ diff_capacity \in Nat
  /\ line_no \in Nat

LEMMA DestroyTyped ==
  ASSUME TypeInv, LineDiffDestroy \/ LineDiffPushFails, UNCHANGED line_no
  PROVE  DiffsTyped'
<1>1. line_diffs' = <<>> /\ diff_capacity' = 0 /\ line_no' = line_no
  BY DEF LineDiffDestroy, LineDiffPushFails
<1>2. Len(line_diffs) \in Nat /\ Len(line_diffs) < line_no /\ line_no \in Nat
  BY SequenceLength DEF TypeInv, TypeOK
<1>3. IsSequence(line_diffs') /\ Len(line_diffs') = 0
  BY <1>1, EmptyIsSequence
<1> QED BY <1>1, <1>2, <1>3 DEF DiffsTyped

LEMMA UnchangedDiffsTyped ==
  ASSUME TypeInv, UNCHANGED diffVars
  PROVE  DiffsTyped'
BY DEF TypeInv, TypeOK, DiffsTyped, diffVars, lineDiffVars

LEMMA ReadFromAdvances ==
  ASSUME TypeInv, NEW s \in Side, open[s] # Gone, Advance(s)
  PROVE  pos' \in [Side -> Nat]
BY BlockProperties DEF Advance, TypeInv, TypeOK

\* The other parts.
FilesTyped ==
  /\ open \in [Side -> Content \cup {Gone}]
  /\ pos \in [Side -> Nat]
  /\ mapped \in Nat \cup {Unmapped}
  /\ hashed \in [Side -> Seq(Line)]
  /\ got \in Seq(Line) /\ Len(got) <= 1
  /\ \A s \in Side : ReadFrom(s) => open[s] # Gone

FlowTyped ==
  /\ pc \in {"hash_open", "hash", "verify_open", "verify", "equal",
             "sniff", "lines_open", "lines", "record", "done", "killed"}
  /\ side \in Side
  /\ outcome.type \in {"none", "UNCHANGED", "MODIFIED", "error"}
  /\ faults \in 0 .. MaxFaults
  /\ pc # "done" => outcome = NoOutcome

OthersTyped ==
  /\ config \in Configs
  /\ file \in [Side -> Content \cup {Gone}]
  /\ changes \in 0 .. MaxChanges

LEMMA TypedParts ==
  TypeInv <=> FilesTyped /\ FlowTyped /\ DiffsTyped /\ OthersTyped
BY DEF TypeInv, TypeOK, FilesTyped, FlowTyped, DiffsTyped, OthersTyped, Line

LEMMA FaultTyped ==
  ASSUME TypeInv, Fault \/ UNCHANGED faults
  PROVE  faults' \in 0 .. MaxFaults
BY CompareAssumption DEF TypeInv, TypeOK, Fault

LEMMA ReturnsTyped ==
  ASSUME NEW errno, Returns(errno)
  PROVE  outcome'.type = "error" /\ pc' = "done"
BY DEF Returns

\* The disjuncts of Worker in groups: those that end the call early, those
\* that open a file, those that read a block, and those that decide.
LEMMA EndsEarlyTyped ==
  ASSUME TypeInv, OpenFails \/ CallFails \/ LineNotKept
  PROVE  FilesTyped' /\ FlowTyped' /\ DiffsTyped'
<1>1. /\ UNCHANGED <<side, readVars, line_no>>
      /\ outcome'.type = "error" /\ pc' = "done"
      /\ Fault \/ UNCHANGED faults
      /\ LineDiffDestroy \/ LineDiffPushFails
  BY ReturnsTyped DEF OpenFails, CallFails, LineNotKept
<1>2. FilesTyped'
  BY <1>1 DEF TypeInv, TypeOK, FilesTyped, readVars, ReadFrom, Line
<1>3. FlowTyped'
  BY <1>1, FaultTyped DEF FlowTyped, TypeInv, TypeOK
<1>4. DiffsTyped'
  BY <1>1, DestroyTyped
<1> QED BY <1>2, <1>3, <1>4

LEMMA OpensTyped ==
  ASSUME TypeInv, HashOpen \/ VerifyOpen \/ LinesOpen, UNCHANGED file
  PROVE  FilesTyped' /\ FlowTyped' /\ DiffsTyped'
<1>1. /\ Opens(side) /\ side \in Side
      /\ UNCHANGED <<hashed, got, outcome, faults>> /\ UNCHANGED diffVars
      /\ outcome = NoOutcome
  BY DEF HashOpen, Goes, VerifyOpen, LinesOpen, OpenBoth, TypeInv, TypeOK
<1>2. /\ open' \in [Side -> Content \cup {Gone}]
      /\ pos' \in [Side -> Nat]
      /\ open'[side] # Gone
      /\ \A s \in Side : s # side => open'[s] = open[s]
  BY <1>1 DEF Opens, TypeInv, TypeOK
<1>3. DiffsTyped'
  BY <1>1, UnchangedDiffsTyped
<1>4. CASE HashOpen
  <2>1. mapped' \in Nat \cup {Unmapped} /\ pc' = "hash" /\ side' = side
    <3>1. file[side] \in Seq(Line)
      BY <1>1, <1>4, CompareAssumption DEF HashOpen, Opens, TypeInv, TypeOK, Line
    <3>2. Len(file[side]) \in Nat
      BY <3>1, LenProperties
    <3> QED BY <1>4, <3>2 DEF HashOpen, Goes
  <2>2. FilesTyped'
    BY <1>1, <1>2, <2>1 DEF FilesTyped, ReadFrom, TypeInv, TypeOK, Line
  <2>3. FlowTyped'
    BY <1>1, <2>1 DEF FlowTyped, TypeInv, TypeOK
  <2> QED BY <1>3, <2>2, <2>3
<1>5. CASE VerifyOpen \/ LinesOpen
  <2>1. /\ pc \in {"verify_open", "lines_open"}
        /\ mapped' = mapped
        /\ side' = IF side = "a" THEN "b" ELSE "a"
        /\ pc' = IF side = "a" THEN pc
                 ELSE IF pc = "verify_open" THEN "verify" ELSE "lines"
    BY <1>5 DEF VerifyOpen, LinesOpen, OpenBoth
  <2>2. \A s \in Side : ReadFrom(s)' => open'[s] # Gone
    BY <1>1, <1>2, <2>1 DEF ReadFrom, TypeInv, Side
  <2>3. FilesTyped'
    BY <1>1, <1>2, <2>1, <2>2 DEF FilesTyped, TypeInv, TypeOK, Line
  <2>4. FlowTyped'
    BY <1>1, <2>1 DEF FlowTyped, TypeInv, TypeOK, Side
  <2> QED BY <1>3, <2>3, <2>4
<1> QED BY <1>4, <1>5

LEMMA ReadsTyped ==
  ASSUME TypeInv, HashBlock \/ ReadFirst \/ VerifyBlock \/ CompareLine
  PROVE  FilesTyped' /\ FlowTyped' /\ DiffsTyped'
<1> DEFINE s == IF VerifyBlock \/ CompareLine THEN "b" ELSE side
<1>1. side \in Side /\ \A r \in Side : open[r] # Gone \/ pc = "hash"
  BY DEF TypeInv, TypeOK, ReadFrom, HashBlock, ReadFirst, VerifyBlock,
         CompareLine, AtSecondLine
<1>2. CASE HashBlock
  <2>1. open[side] # Gone /\ pc' = "hash" /\ side' = side /\ open' = open
    BY <1>1, <1>2 DEF HashBlock, TypeInv, ReadFrom
  <2>2. pos' \in [Side -> Nat]
    BY <1>1, <1>2, <2>1, ReadFromAdvances DEF HashBlock
  <2>3. hashed' \in [Side -> Seq(Line)]
    <3>1. hashed \in [Side -> Seq(Line)] /\ Block(side) \in Seq(Line)
      BY <1>1, <2>1, BlockProperties DEF TypeInv
    <3>2. hashed[side] \o Block(side) \in Seq(Line)
      BY <1>1, <3>1, ConcatProperties
    <3> QED BY <1>2, <3>1, <3>2 DEF HashBlock
  <2>4. FilesTyped'
    BY <1>2, <2>1, <2>2, <2>3 DEF FilesTyped, HashBlock, TypeInv, TypeOK, ReadFrom, Line
  <2>5. FlowTyped'
    BY <1>2, <2>1 DEF FlowTyped, HashBlock, TypeInv, TypeOK
  <2>6. DiffsTyped'
    BY <1>2, UnchangedDiffsTyped DEF HashBlock
  <2> QED BY <2>4, <2>5, <2>6
<1>3. CASE ReadFirst
  <2>1. open["a"] # Gone /\ pc' = pc /\ side' = "b" /\ open' = open /\ "a" \in Side
        /\ pc \in {"verify", "lines"}
    BY <1>3 DEF ReadFirst, TypeInv, ReadFrom, Side
  <2>2. pos' \in [Side -> Nat] /\ got' \in Seq(Line) /\ Len(got') <= 1
    <3>1. Block("a") \in Seq(Line) /\ Len(Block("a")) \in 0 .. 1
      BY <2>1, BlockProperties
    <3>2. got' = Block("a") /\ Advance("a")
      BY <1>3 DEF ReadFirst
    <3>3. Len(got') <= 1
      BY <3>1, <3>2
    <3> QED BY <2>1, <3>1, <3>2, <3>3, ReadFromAdvances
  <2>3. FilesTyped'
    BY <1>3, <2>1, <2>2 DEF FilesTyped, ReadFirst, TypeInv, TypeOK, ReadFrom, Line
  <2>4. FlowTyped'
    BY <1>3, <2>1 DEF FlowTyped, ReadFirst, TypeInv, TypeOK, Side
  <2>5. DiffsTyped'
    BY <1>3, UnchangedDiffsTyped DEF ReadFirst
  <2> QED BY <2>3, <2>4, <2>5
<1>4. CASE VerifyBlock
  <2>1. open["b"] # Gone /\ side' = "a" /\ open' = open /\ "b" \in Side
        /\ pc = "verify" /\ pc' \in {"equal", "sniff", "record", "verify"}
    BY <1>4 DEF VerifyBlock, TypeInv, ReadFrom, Side, Differ
  <2>2. pos' \in [Side -> Nat]
    BY <1>4, <2>1, ReadFromAdvances DEF VerifyBlock
  <2>3. FilesTyped'
    BY <1>4, <2>1, <2>2 DEF FilesTyped, VerifyBlock, TypeInv, TypeOK, ReadFrom, Line
  <2>4. FlowTyped'
    BY <1>4, <2>1 DEF FlowTyped, VerifyBlock, TypeInv, TypeOK, Side
  <2>5. DiffsTyped'
    BY <1>4, UnchangedDiffsTyped DEF VerifyBlock
  <2> QED BY <2>3, <2>4, <2>5
<1>5. CASE CompareLine
  <2>1. open["b"] # Gone /\ side' = "a" /\ open' = open /\ "b" \in Side
        /\ pc = "lines" /\ pc' = "lines"
    BY <1>5 DEF CompareLine, AtSecondLine, TypeInv, ReadFrom, Side
  <2>2. pos' \in [Side -> Nat]
    BY <1>5, <2>1, ReadFromAdvances DEF CompareLine
  <2>3. FilesTyped'
    BY <1>5, <2>1, <2>2 DEF FilesTyped, CompareLine, TypeInv, TypeOK, ReadFrom, Line
  <2>4. FlowTyped'
    BY <1>5, <2>1 DEF FlowTyped, CompareLine, TypeInv, TypeOK, Side
  <2>5. DiffsTyped'
    <3>1. /\ Len(line_diffs) \in Nat /\ line_no \in Nat /\ diff_capacity \in Nat
          /\ Len(line_diffs) < line_no /\ Len(line_diffs) <= diff_capacity
          /\ IsSequence(line_diffs)
      BY SequenceLength DEF TypeInv, TypeOK
    <3>2. line_no' = line_no + 1
      BY <1>5 DEF CompareLine, NextLineNo
    <3>3. CASE UNCHANGED lineDiffVars
      BY <3>1, <3>2, <3>3 DEF lineDiffVars, DiffsTyped
    <3>4. CASE \E l, r : LineDiffPush(line_no, l, r)
      <4>1. IsSequence(line_diffs') /\ Len(line_diffs') = Len(line_diffs) + 1
        BY <3>1, <3>4, AppendIsSequence DEF LineDiffPush
      <4>2. diff_capacity' \in Nat /\ diff_capacity' >= Len(line_diffs) + 1
        BY <3>1, <3>4, LineDiffAssumption DEF LineDiffPush, GrownDiffs
      <4> QED BY <3>1, <3>2, <4>1, <4>2 DEF DiffsTyped
    <3> QED BY <1>5, <3>3, <3>4 DEF CompareLine
  <2> QED BY <2>3, <2>4, <2>5
<1> QED BY <1>2, <1>3, <1>4, <1>5

LEMMA DecidesTyped ==
  ASSUME TypeInv,
         \/ MmapFails \/ MappingCut \/ HashDone \/ SniffText \/ SniffBinary
         \/ LinesEnd \/ Record
  PROVE  FilesTyped' /\ FlowTyped' /\ DiffsTyped'
<1>1. CASE MmapFails
  BY <1>1, FaultTyped, UnchangedDiffsTyped
     DEF MmapFails, FilesTyped, FlowTyped, TypeInv, TypeOK, ReadFrom, Line
<1>2. CASE MappingCut
  BY <1>2, UnchangedDiffsTyped
     DEF MappingCut, Goes, readVars, FilesTyped, FlowTyped, TypeInv, TypeOK, ReadFrom, Line
<1>3. CASE HashDone
  <2>1. pc' \in {"hash_open", "verify_open", "sniff", "record"}
        /\ side' \in Side /\ (pc' # "hash_open" => side' = "a")
        /\ open' \in [Side -> Content \cup {Gone}]
    BY <1>3 DEF HashDone, HashesLeadTo, Differ, TypeInv, TypeOK, Side
  <2> QED BY <1>3, <2>1, UnchangedDiffsTyped
             DEF HashDone, FilesTyped, FlowTyped, TypeInv, TypeOK, ReadFrom, Line
<1>4. CASE SniffText
  BY <1>4, UnchangedDiffsTyped
     DEF SniffText, readVars, FilesTyped, FlowTyped, TypeInv, TypeOK, ReadFrom, Side, Line
<1>5. CASE SniffBinary
  BY <1>5, FaultTyped, UnchangedDiffsTyped
     DEF SniffBinary, Goes, readVars, FilesTyped, FlowTyped, TypeInv, TypeOK, ReadFrom, Line
<1>6. CASE LinesEnd
  BY <1>6, UnchangedDiffsTyped
     DEF LinesEnd, Goes, readVars, FilesTyped, FlowTyped, TypeInv, TypeOK, ReadFrom, Line
<1>7. CASE Record
  <2>1. outcome'.type \in {"UNCHANGED", "MODIFIED"} /\ pc' = "done"
    BY <1>7 DEF Record
  <2> QED BY <1>7, <2>1, UnchangedDiffsTyped
             DEF Record, readVars, FilesTyped, FlowTyped, TypeInv, TypeOK, ReadFrom, Line
<1> QED BY <1>1, <1>2, <1>3, <1>4, <1>5, <1>6, <1>7

LEMMA ChangeTyped ==
  ASSUME TypeInv, NEW s \in Side, NEW content \in Content \cup {Gone},
         Change(s, content)
  PROVE  TypeInv'
<1>1. UNCHANGED <<config, pc, side, pos, mapped, hashed, got, diffVars, outcome,
                  faults>>
  BY DEF Change
<1>2. /\ file' \in [Side -> Content \cup {Gone}]
      /\ open' \in [Side -> Content \cup {Gone}]
      /\ \A r \in Side : open[r] # Gone => open'[r] # Gone
      /\ changes' \in 0 .. MaxChanges
  <2>1. file' \in [Side -> Content \cup {Gone}]
    BY DEF Change, TypeInv, TypeOK
  <2>2. /\ open' \in [Side -> Content \cup {Gone}]
        /\ \A r \in Side : open[r] # Gone => open'[r] # Gone
    <3>1. open \in [Side -> Content \cup {Gone}]
      BY DEF TypeInv, TypeOK
    <3>2. CASE UNCHANGED open
      BY <3>1, <3>2
    <3>3. CASE content # Gone /\ open' = [open EXCEPT ![s] = content]
      BY <3>1, <3>3
    <3> QED BY <3>2, <3>3 DEF Change
  <2>4. changes' \in 0 .. MaxChanges
    BY CompareAssumption DEF Change, TypeInv, TypeOK
  <2> QED BY <2>1, <2>2, <2>4
<1>3. FilesTyped'
  BY <1>1, <1>2 DEF FilesTyped, TypeInv, TypeOK, ReadFrom, Line
<1>4. FlowTyped'
  BY <1>1 DEF FlowTyped, TypeInv, TypeOK
<1>5. DiffsTyped'
  BY <1>1, UnchangedDiffsTyped
<1>6. OthersTyped'
  BY <1>1, <1>2 DEF OthersTyped, TypeInv, TypeOK
<1>7. (FilesTyped /\ FlowTyped /\ DiffsTyped /\ OthersTyped => TypeInv)'
  BY DEF TypeInv, TypeOK, FilesTyped, FlowTyped, DiffsTyped, OthersTyped, Line
<1> QED BY <1>3, <1>4, <1>5, <1>6, <1>7

LEMMA TypeInvInductive == TypeInv /\ [Next]_vars => TypeInv'
<1> SUFFICES ASSUME TypeInv, [Next]_vars PROVE TypeInv'
  OBVIOUS
<1>1. CASE Worker
  <2>1. UNCHANGED <<config, file, changes>>
    BY <1>1 DEF Worker, fileVars
  <2>2. FilesTyped' /\ FlowTyped' /\ DiffsTyped'
    BY <1>1, <2>1, EndsEarlyTyped, OpensTyped, ReadsTyped, DecidesTyped DEF Worker
  <2>3. OthersTyped'
    BY <2>1 DEF OthersTyped, TypeInv, TypeOK
  <2>4. (FilesTyped /\ FlowTyped /\ DiffsTyped /\ OthersTyped => TypeInv)'
    BY DEF TypeInv, TypeOK, FilesTyped, FlowTyped, DiffsTyped, OthersTyped, Line
  <2> QED BY <2>2, <2>3, <2>4
<1>2. CASE \E s \in Side, content \in Content \cup {Gone} : Change(s, content)
  BY <1>2, ChangeTyped
<1>3. CASE UNCHANGED vars
  BY <1>3 DEF vars, fileVars, readVars, diffVars, lineDiffVars, TypeInv, TypeOK,
              ReadFrom
<1> QED BY <1>1, <1>2, <1>3 DEF Next, Ended

----------------------------------------------------------------------------
(* The copies of lines *)

\* Only comparing lines makes any, and only a record that leads to them is
\* made with any there.
CopiesInv ==
  /\ copies = 2 * Len(line_diffs)
  /\ pc \notin {"lines", "record", "done"} => line_diffs = <<>> /\ diff_capacity = 0
  /\ outcome.type \in {"error", "UNCHANGED"} => line_diffs = <<>> /\ diff_capacity = 0

LEMMA CopiesInvInit == Init => CopiesInv
BY EmptyIsSequence DEF Init, CopiesInv, LineDiffInit, NoOutcome

LEMMA DestroyFreesAll ==
  ASSUME TypeInv, CopiesInv, LineDiffDestroy \/ LineDiffPushFails
  PROVE  copies' = 0 /\ line_diffs' = <<>> /\ diff_capacity' = 0
<1>1. Len(line_diffs) \in Nat /\ copies = 2 * Len(line_diffs)
  BY SequenceLength DEF TypeInv, CopiesInv
<1>2. copies' = copies - 2 * Len(line_diffs)
  <2>1. CASE LineDiffDestroy
    BY <2>1 DEF LineDiffDestroy
  <2>2. CASE LineDiffPushFails
    BY <1>1, <2>2 DEF LineDiffPushFails, Freed
  <2> QED BY <2>1, <2>2
<1>3. copies' = 0
  BY <1>1, <1>2
<1> QED BY <1>3 DEF LineDiffDestroy, LineDiffPushFails

LEMMA CopiesInvInductive == TypeInv /\ CopiesInv /\ [Next]_vars => CopiesInv'
<1> SUFFICES ASSUME TypeInv, CopiesInv, [Next]_vars PROVE CopiesInv'
  OBVIOUS
<1>1. CASE OpenFails \/ CallFails \/ LineNotKept
  <2>1. copies' = 0 /\ line_diffs' = <<>> /\ diff_capacity' = 0
    BY <1>1, DestroyFreesAll DEF OpenFails, CallFails, LineNotKept
  <2> QED BY <2>1, EmptyIsSequence DEF CopiesInv
<1>2. CASE CompareLine
  <2>1. pc = "lines" /\ pc' = "lines" /\ outcome' = NoOutcome
    BY <1>2 DEF CompareLine, AtSecondLine, TypeInv
  <2>2. Len(line_diffs) \in Nat /\ copies = 2 * Len(line_diffs)
    BY SequenceLength DEF TypeInv, CopiesInv
  <2>3. CASE UNCHANGED lineDiffVars
    BY <2>1, <2>2, <2>3 DEF CopiesInv, lineDiffVars, NoOutcome
  <2>4. CASE \E l, r : LineDiffPush(line_no, l, r)
    <3>1. Len(line_diffs') = Len(line_diffs) + 1 /\ copies' = copies + 2
      BY <2>4, AppendIsSequence DEF LineDiffPush, TypeInv
    <3>2. copies' = 2 * Len(line_diffs')
      BY <2>2, <3>1
    <3> QED BY <2>1, <3>2 DEF CopiesInv, NoOutcome
  <2> QED BY <1>2, <2>3, <2>4 DEF CompareLine
<1>3. CASE Record
  <2>1. UNCHANGED lineDiffVars /\ pc' = "done"
    BY <1>3 DEF Record, diffVars
  <2>2. outcome'.type \in {"error", "UNCHANGED"} => pc = "equal"
    BY <1>3 DEF Record
  <2> QED BY <2>1, <2>2 DEF CopiesInv, lineDiffVars
<1>4. ASSUME UNCHANGED diffVars, UNCHANGED outcome,
             pc \in {"lines", "record", "done"} => pc' \in {"lines", "record", "done"}
      PROVE  CopiesInv'
  BY <1>4 DEF CopiesInv, diffVars, lineDiffVars
<1>5. CASE \/ HashOpen \/ MmapFails \/ HashBlock \/ MappingCut \/ HashDone
           \/ VerifyOpen \/ LinesOpen \/ ReadFirst \/ VerifyBlock
           \/ SniffText \/ SniffBinary \/ LinesEnd
  BY <1>4, <1>5
     DEF HashOpen, MmapFails, HashBlock, MappingCut, HashDone, VerifyOpen,
         LinesOpen, OpenBoth, ReadFirst, VerifyBlock, SniffText, SniffBinary,
         LinesEnd, Goes
<1>6. CASE \E s \in Side, content \in Content \cup {Gone} : Change(s, content)
  BY <1>4, <1>6 DEF Change
<1>7. CASE UNCHANGED vars
  BY <1>4, <1>7 DEF vars
<1> QED BY <1>1, <1>2, <1>3, <1>5, <1>6, <1>7 DEF Next, Worker, Ended

----------------------------------------------------------------------------
(* The verdict *)

\* How far two files are known to hold the same.
SameUpTo(n) ==
  /\ n \in 0 .. Len(file["a"]) /\ n \in 0 .. Len(file["b"])
  /\ \A i \in 1 .. n : file["a"][i] = file["b"][i]

\* As long as nobody has touched the files, what is hashed is what is there.
HashingInv ==
  changes = 0 =>
    /\ file \in [Side -> Content]
    /\ pc \in {"hash_open", "hash"} =>
         /\ side = "b" => hashed["a"] = file["a"]
         /\ side = "a" => hashed["b"] = <<>>
    /\ pc = "hash_open" => hashed[side] = <<>>
    /\ pc = "hash" =>
         /\ open[side] = file[side]
         /\ pos[side] \in 0 .. Len(file[side])
         /\ mapped \in {Unmapped, Len(file[side])}
         /\ hashed[side] = SubSeq(file[side], 1, pos[side])
    /\ pc \in {"verify_open", "verify", "equal"} =>
         hashed["a"] = file["a"] /\ hashed["b"] = file["b"]
    /\ pc \in {"sniff", "lines_open", "lines", "record"} => file["a"] # file["b"]

\* The second reading can be relied on: nobody has touched the files, or the
\* change came before it, with no other excuse for a verdict not deserved.
SecondReadingCounts ==
  \/ changes = 0
  \/ /\ changes = 1
     /\ hashed["a"] = hashed["b"]
     /\ "UNCHANGED" \notin deserved

VerifyingInv ==
  SecondReadingCounts =>
    /\ pc = "verify_open" /\ side = "b" => open["a"] = file["a"] /\ pos["a"] = 0
    /\ pc = "verify" =>
         /\ open["a"] = file["a"] /\ open["b"] = file["b"]
         /\ SameUpTo(pos["b"])
         /\ side = "a" => pos["a"] = pos["b"]
         /\ side = "b" => /\ got = LineOf(file["a"], pos["b"] + 1)
                          /\ pos["a"] = pos["b"] + Len(got)
    /\ pc = "equal" => file["a"] = file["b"]

VerdictInv ==
  /\ Deserves(file) \in deserved
  /\ changes = 1 => "MODIFIED" \in deserved
  /\ HashingInv
  /\ VerifyingInv
  /\ pc \in {"verify_open", "verify", "equal"} => Hash(hashed["a"]) = Hash(hashed["b"])
  /\ VerdictWasTrue

LEMMA VerdictInvInit == Init => VerdictInv
<1> SUFFICES ASSUME Init PROVE VerdictInv
  OBVIOUS
<1>1. /\ file \in [Side -> Content] /\ changes = 0 /\ pc = "hash_open" /\ side = "a"
      /\ hashed = [s \in Side |-> <<>>] /\ outcome.type = "none"
      /\ deserved = {Deserves(file)}
  BY DEF Init, NoOutcome, Side
<1>2. HashingInv /\ VerifyingInv
  BY <1>1 DEF HashingInv, VerifyingInv, Side
<1> QED BY <1>1, <1>2 DEF VerdictInv, VerdictWasTrue

\* A step that keeps the files and what was hashed, and goes nowhere where
\* the invariant asks more than it did.
LEMMA QuietKeepsVerdict ==
  ASSUME TypeInv, VerdictInv, UNCHANGED <<file, deserved, changes, hashed>>,
         outcome'.type \notin {"UNCHANGED", "MODIFIED"},
         \/ pc' \in {"done", "killed"}
         \/ /\ pc \in {"sniff", "lines_open", "lines", "record"}
            /\ pc' \in {"sniff", "lines_open", "lines", "record"}
  PROVE  VerdictInv'
<1>1. HashingInv' /\ VerifyingInv'
  BY DEF VerdictInv, HashingInv, VerifyingInv
<1> QED BY <1>1 DEF VerdictInv, VerdictWasTrue, Deserves

LEMMA HashingKeepsVerdict ==
  ASSUME TypeInv, VerdictInv, UNCHANGED <<file, deserved, changes>>,
         HashOpen \/ MmapFails \/ HashBlock
  PROVE  VerdictInv'
<1>1. /\ side \in Side /\ side' = side /\ pc' = "hash" /\ outcome' = NoOutcome
      /\ "a" \in Side /\ "b" \in Side /\ Side = {"a", "b"}
  BY DEF TypeInv, TypeOK, HashOpen, MmapFails, HashBlock, Goes, Side
<1>2. HashingInv'
  <2> SUFFICES ASSUME changes = 0
               PROVE  /\ file \in [Side -> Content]
                      /\ side = "b" => hashed'["a"] = file["a"]
                      /\ side = "a" => hashed'["b"] = <<>>
                      /\ open'[side] = file[side]
                      /\ pos'[side] \in 0 .. Len(file[side])
                      /\ mapped' \in {Unmapped, Len(file[side])}
                      /\ hashed'[side] = SubSeq(file[side], 1, pos'[side])
    BY <1>1 DEF HashingInv
  <2>1. file \in [Side -> Content] /\ file[side] \in Seq(Line) /\ Len(file[side]) \in Nat
    BY <1>1, CompareAssumption, LenProperties DEF VerdictInv, HashingInv, Line
  <2>2. CASE HashOpen
    <3>1. /\ open'[side] = file[side] /\ pos'[side] = 0 /\ hashed' = hashed
          /\ mapped' \in {Unmapped, Len(file[side])} /\ pc = "hash_open"
      BY <1>1, <2>2 DEF HashOpen, Goes, Opens, TypeInv, TypeOK
    <3>2. SubSeq(file[side], 1, 0) = <<>>
      BY SubSeqEmpty
    <3>3. /\ hashed[side] = <<>>
          /\ side = "b" => hashed["a"] = file["a"]
          /\ side = "a" => hashed["b"] = <<>>
      BY <3>1 DEF VerdictInv, HashingInv
    <3>4. hashed'[side] = SubSeq(file[side], 1, pos'[side])
      BY <3>1, <3>2, <3>3
    <3>5. pos'[side] \in 0 .. Len(file[side])
      BY <2>1, <3>1
    <3> QED BY <2>1, <3>1, <3>3, <3>4, <3>5
  <2>3. CASE MmapFails
    BY <1>1, <2>1, <2>3 DEF MmapFails, VerdictInv, HashingInv
  <2>4. CASE HashBlock
    <3> DEFINE c == file[side]
               n == pos[side]
    <3>1. /\ open[side] = c /\ n \in 0 .. Len(c) /\ open' = open /\ mapped' = mapped
          /\ mapped \in {Unmapped, Len(c)} /\ hashed[side] = SubSeq(c, 1, n)
          /\ n \in Nat
      BY <1>1, <2>1, <2>4 DEF HashBlock, VerdictInv, HashingInv
    <3>2. Block(side) = LineOf(c, n + 1) /\ LineOf(c, n + 1) # <<>>
      BY <2>4, <3>1 DEF HashBlock, Block
    <3>3. n + 1 \in Nat
      BY <3>1
    <3> HIDE DEF c, n
    <3>4. n + 1 \in 1 .. Len(c) /\ LineOf(c, n + 1) = <<c[n + 1]>> /\ Len(LineOf(c, n + 1)) = 1
      BY <2>1, <3>2, <3>3, LineOfProperties DEF c
    <3>5. SubSeq(c, 1, n + 1) = SubSeq(c, 1, n) \o <<c[n + 1]>>
      <4> DEFINE k == n + 1
      <4>1. c \in Seq(Line) /\ 1 \in 1 .. Len(c) /\ k \in 1 .. Len(c) /\ k - 1 = n
        BY <2>1, <3>1, <3>4 DEF c
      <4> HIDE DEF k
      <4>2. SubSeq(c, 1, k) = SubSeq(c, 1, k - 1) \o <<c[k]>>
        BY <4>1, SubSeqRecursiveSecond
      <4>3. SubSeq(c, 1, k) = SubSeq(c, 1, n) \o <<c[k]>>
        BY <4>1, <4>2
      <4> QED BY <4>3 DEF k
    <3>6. pos'[side] = n + 1
      BY <1>1, <2>4, <3>2, <3>4 DEF HashBlock, Advance, TypeInv, TypeOK, n
    <3>7. hashed' = [hashed EXCEPT ![side] = SubSeq(c, 1, n + 1)]
      BY <1>1, <2>4, <3>1, <3>2, <3>4, <3>5 DEF HashBlock, TypeInv
    <3> QED BY <1>1, <2>1, <3>1, <3>4, <3>6, <3>7, <2>4
            DEF HashBlock, VerdictInv, HashingInv, TypeInv, c
  <2> QED BY <2>2, <2>3, <2>4
<1>3. VerifyingInv'
  BY <1>1 DEF VerifyingInv
<1> QED BY <1>1, <1>2, <1>3 DEF VerdictInv, VerdictWasTrue, Deserves, NoOutcome

LEMMA HashDoneKeepsVerdict ==
  ASSUME TypeInv, VerdictInv, UNCHANGED <<file, deserved, changes>>, HashDone
  PROVE  VerdictInv'
<1>1. /\ side \in Side /\ hashed' = hashed /\ outcome' = NoOutcome /\ pc = "hash"
      /\ Side = {"a", "b"}
      /\ side' = IF side = "a" THEN "b" ELSE "a"
      /\ pc' = IF side = "a" THEN "hash_open" ELSE HashesLeadTo
      /\ pc' \in {"hash_open", "verify_open", "sniff", "record"}
  BY DEF TypeInv, TypeOK, HashDone, Side, HashesLeadTo, Differ
<1>2. ASSUME changes = 0
      PROVE  hashed[side] = file[side] /\ file \in [Side -> Content]
  <2>1. file \in [Side -> Content] /\ file[side] \in Seq(Line) /\ Len(file[side]) \in Nat
    BY <1>1, <1>2, CompareAssumption, LenProperties DEF VerdictInv, HashingInv, Line
  <2>2. /\ open[side] = file[side] /\ pos[side] \in 0 .. Len(file[side])
        /\ mapped \in {Unmapped, Len(file[side])}
        /\ hashed[side] = SubSeq(file[side], 1, pos[side])
    BY <1>1, <1>2 DEF VerdictInv, HashingInv
  <2>3. pos[side] = Len(file[side])
    <3>1. CASE mapped = Unmapped
      <4>1. LineOf(file[side], pos[side] + 1) = <<>> /\ pos[side] + 1 \in Nat
        BY <2>1, <2>2, <3>1 DEF HashDone, Block
      <4>2. pos[side] + 1 \notin 1 .. Len(file[side])
        BY <2>1, <4>1, LineOfProperties
      <4> QED BY <2>1, <2>2, <4>2
    <3>2. CASE mapped # Unmapped
      BY <2>2, <3>2 DEF HashDone
    <3> QED BY <3>1, <3>2
  <2> QED BY <2>1, <2>2, <2>3, SubSeqFull
<1>3. HashingInv'
  BY <1>1, <1>2 DEF VerdictInv, HashingInv, HashesLeadTo, Differ
<1>4. VerifyingInv'
  BY <1>1 DEF VerifyingInv
<1>5. pc' = "verify_open" => Hash(hashed["a"]) = Hash(hashed["b"])
  BY <1>1 DEF HashesLeadTo, Differ
<1> QED BY <1>1, <1>3, <1>4, <1>5 DEF VerdictInv, VerdictWasTrue, Deserves, NoOutcome

LEMMA VerifyOpenKeepsVerdict ==
  ASSUME TypeInv, VerdictInv, UNCHANGED <<file, deserved, changes>>, VerifyOpen
  PROVE  VerdictInv'
<1>1. /\ Opens(side) /\ side \in Side /\ Side = {"a", "b"}
      /\ pc = "verify_open" /\ hashed' = hashed /\ outcome' = NoOutcome
      /\ side' = IF side = "a" THEN "b" ELSE "a"
      /\ pc' = IF side = "a" THEN "verify_open" ELSE "verify"
  BY DEF VerifyOpen, OpenBoth, TypeInv, TypeOK, Side
<1>2. /\ open'[side] = file[side] /\ pos'[side] = 0
      /\ side = "b" => open'["a"] = open["a"] /\ pos'["a"] = pos["a"]
  BY <1>1 DEF Opens, TypeInv, TypeOK
<1>3. HashingInv'
  BY <1>1 DEF VerdictInv, HashingInv
<1>4. VerifyingInv'
  <2> SUFFICES ASSUME SecondReadingCounts
               PROVE  /\ side = "a" => open'["a"] = file["a"] /\ pos'["a"] = 0
                      /\ side = "b" => /\ open'["a"] = file["a"] /\ open'["b"] = file["b"]
                                       /\ pos'["a"] = 0 /\ pos'["b"] = 0
                                       /\ SameUpTo(0)
    BY <1>1 DEF VerifyingInv, SecondReadingCounts, SameUpTo
  <2>1. CASE side = "a"
    BY <1>1, <1>2, <2>1
  <2>2. CASE side = "b"
    <3>1. open["a"] = file["a"] /\ pos["a"] = 0
      BY <1>1, <2>2 DEF VerdictInv, VerifyingInv
    <3>2. open["a"] # Gone /\ file["b"] # Gone
      BY <1>1, <2>2 DEF TypeInv, ReadFrom, Opens
    <3>3. file["a"] \in Seq(Line) /\ file["b"] \in Seq(Line)
      BY <1>1, <3>1, <3>2, CompareAssumption DEF TypeInv, TypeOK, Line
    <3>4. Len(file["a"]) \in Nat /\ Len(file["b"]) \in Nat
      BY <3>3, LenProperties
    <3>5. SameUpTo(0)
      BY <3>4 DEF SameUpTo
    <3> QED BY <1>2, <2>2, <3>1, <3>5
  <2> QED BY <1>1, <2>1, <2>2
<1> QED BY <1>1, <1>3, <1>4 DEF VerdictInv, VerdictWasTrue, Deserves, NoOutcome

\* The sequences that the second reading goes through.
LEMMA SecondReading ==
  ASSUME TypeInv, VerdictInv, SecondReadingCounts, pc = "verify"
  PROVE  /\ file["a"] \in Seq(Line) /\ Len(file["a"]) \in Nat
         /\ file["b"] \in Seq(Line) /\ Len(file["b"]) \in Nat
         /\ open["a"] = file["a"] /\ open["b"] = file["b"]
         /\ pos["b"] + 1 \in Nat
         /\ pos["b"] \in 0 .. Len(file["a"]) /\ pos["b"] \in 0 .. Len(file["b"])
<1>1. open["a"] = file["a"] /\ open["b"] = file["b"] /\ SameUpTo(pos["b"])
  BY DEF VerdictInv, VerifyingInv
<1>2. open["a"] # Gone /\ open["b"] # Gone
  BY DEF TypeInv, ReadFrom, Side
<1>3. file["a"] \in Seq(Line) /\ file["b"] \in Seq(Line) /\ pos["b"] \in Nat
  BY <1>1, <1>2, CompareAssumption DEF TypeInv, TypeOK, Line, Side
<1>4. Len(file["a"]) \in Nat /\ Len(file["b"]) \in Nat
  BY <1>3, LenProperties
<1> QED BY <1>1, <1>3, <1>4 DEF SameUpTo

LEMMA ReadFirstKeepsVerdict ==
  ASSUME TypeInv, VerdictInv, UNCHANGED <<file, deserved, changes>>,
         ReadFirst, pc = "verify"
  PROVE  VerdictInv'
<1>1. /\ side = "a" /\ side' = "b" /\ pc' = "verify" /\ open' = open
      /\ hashed' = hashed /\ outcome' = NoOutcome /\ got' = Block("a")
      /\ pos' = [pos EXCEPT !["a"] = @ + Len(Block("a"))]
      /\ "a" \in Side /\ "b" \in Side
  BY DEF ReadFirst, Advance, TypeInv, Side
<1>2. HashingInv'
  BY <1>1 DEF VerdictInv, HashingInv
<1>3. VerifyingInv'
  <2> SUFFICES ASSUME SecondReadingCounts
               PROVE  /\ open["a"] = file["a"] /\ open["b"] = file["b"]
                      /\ pos'["b"] = pos["b"] /\ SameUpTo(pos["b"])
                      /\ got' = LineOf(file["a"], pos["b"] + 1)
                      /\ pos'["a"] = pos["b"] + Len(got')
    BY <1>1 DEF VerifyingInv, SecondReadingCounts, SameUpTo
  <2>1. /\ open["a"] = file["a"] /\ open["b"] = file["b"]
        /\ SameUpTo(pos["b"]) /\ pos["a"] = pos["b"]
    BY <1>1 DEF VerdictInv, VerifyingInv
  <2>2. pos'["a"] = pos["a"] + Len(got') /\ pos'["b"] = pos["b"]
    BY <1>1 DEF TypeInv, TypeOK
  <2> QED BY <1>1, <2>1, <2>2 DEF Block
<1> QED BY <1>1, <1>2, <1>3 DEF VerdictInv, VerdictWasTrue, Deserves, NoOutcome

LEMMA VerifyBlockKeepsVerdict ==
  ASSUME TypeInv, VerdictInv, UNCHANGED <<file, deserved, changes>>, VerifyBlock
  PROVE  VerdictInv'
<1> DEFINE other == Block("b")
           ended == got = <<>> /\ other = <<>>
<1>1. /\ pc = "verify" /\ side = "b" /\ side' = "a" /\ open' = open
      /\ hashed' = hashed /\ outcome' = NoOutcome /\ got' = got
      /\ pos' = [pos EXCEPT !["b"] = @ + Len(other)]
      /\ pc' = IF ended THEN "equal" ELSE IF got # other THEN Differ ELSE "verify"
      /\ pc' \in {"equal", "sniff", "record", "verify"}
      /\ "a" \in Side /\ "b" \in Side
  BY DEF VerifyBlock, Advance, BothEnded, TypeInv, Differ, Side
<1>2. ASSUME SecondReadingCounts
      PROVE  /\ ended => file["a"] = file["b"]
             /\ got # other => file["a"] # file["b"]
             /\ ~ended /\ got = other => /\ SameUpTo(pos["b"] + 1)
                                         /\ pos["a"] = pos["b"] + 1
                                         /\ Len(other) = 1
  <2> DEFINE a == file["a"]
             b == file["b"]
             n == pos["b"] + 1
  <2>1. /\ a \in Seq(Line) /\ b \in Seq(Line) /\ n \in Nat /\ n >= 1
        /\ Len(a) \in Nat /\ Len(b) \in Nat
        /\ n - 1 <= Len(a) /\ n - 1 <= Len(b)
    BY <1>1, <1>2, SecondReading
  <2>2. /\ got = LineOf(a, n) /\ other = LineOf(b, n)
        /\ pos["a"] = pos["b"] + Len(got)
        /\ \A i \in 1 .. n - 1 : a[i] = b[i]
    BY <1>1, <1>2, SecondReading DEF VerdictInv, VerifyingInv, SameUpTo, Block
  <2> HIDE DEF a, b, n, other
  <2>3. /\ n \in 1 .. Len(a) => got = <<a[n]>> /\ got # <<>> /\ Len(got) = 1
        /\ n \notin 1 .. Len(a) => got = <<>>
    BY <2>1, <2>2, LineOfProperties
  <2>4. /\ n \in 1 .. Len(b) => other = <<b[n]>> /\ other # <<>> /\ Len(other) = 1
        /\ n \notin 1 .. Len(b) => other = <<>>
    BY <2>1, <2>2, LineOfProperties
  <2>5. ended => a = b
    <3> SUFFICES ASSUME got = <<>>, other = <<>> PROVE a = b
      OBVIOUS
    <3>1. Len(a) = n - 1 /\ Len(b) = n - 1
      BY <2>1, <2>3, <2>4
    <3> QED BY <2>1, <2>2, <3>1, SeqEqual
  <2>6. got # other => a # b
    BY <2>2
  <2>7. ASSUME ~ended, got = other
        PROVE  /\ n \in 1 .. Len(a) /\ n \in 1 .. Len(b) /\ a[n] = b[n]
               /\ Len(got) = 1 /\ Len(other) = 1
    BY <2>3, <2>4, <2>7
  <2>8. ~ended /\ got = other => SameUpTo(n)
    <3> SUFFICES ASSUME ~ended, got = other PROVE SameUpTo(n)
      OBVIOUS
    <3>1. \A i \in 1 .. n : i \in 1 .. n - 1 \/ i = n
      BY <2>1
    <3>2. \A i \in 1 .. n : a[i] = b[i]
      BY <2>2, <2>7, <3>1
    <3>3. n \in 0 .. Len(a) /\ n \in 0 .. Len(b)
      BY <2>1, <2>7
    <3> QED BY <3>2, <3>3 DEF SameUpTo, a, b
  <2> QED BY <2>2, <2>5, <2>6, <2>7, <2>8 DEF a, b, n
<1>3. HashingInv'
  BY <1>1, <1>2 DEF VerdictInv, HashingInv, Differ, SecondReadingCounts
<1>4. VerifyingInv'
  <2> SUFFICES ASSUME SecondReadingCounts
               PROVE  /\ pc' = "verify" =>
                           /\ open["a"] = file["a"] /\ open["b"] = file["b"]
                           /\ SameUpTo(pos'["b"])
                           /\ pos'["a"] = pos'["b"]
                      /\ pc' = "equal" => file["a"] = file["b"]
    BY <1>1 DEF VerifyingInv, SecondReadingCounts, SameUpTo
  <2>1. pos'["b"] = pos["b"] + Len(other) /\ pos'["a"] = pos["a"]
    BY <1>1 DEF TypeInv, TypeOK
  <2>2. pc' = "verify" => ~ended /\ got = other
    BY <1>1 DEF Differ
  <2>3. pc' = "equal" => ended
    BY <1>1 DEF Differ
  <2>4. open["a"] = file["a"] /\ open["b"] = file["b"]
    BY <1>1, SecondReading
  <2> HIDE DEF other, ended
  <2> QED BY <1>2, <2>1, <2>2, <2>3, <2>4
<1> QED BY <1>1, <1>3, <1>4 DEF VerdictInv, VerdictWasTrue, Deserves, NoOutcome

LEMMA RecordKeepsVerdict ==
  ASSUME TypeInv, VerdictInv, UNCHANGED <<file, deserved, changes>>, Record
  PROVE  VerdictInv'
<1>1. /\ pc \in {"equal", "record"} /\ pc' = "done" /\ hashed' = hashed
      /\ outcome'.type = IF pc = "equal" THEN "UNCHANGED" ELSE "MODIFIED"
  BY DEF Record, readVars
<1>2. HashingInv' /\ VerifyingInv'
  BY <1>1 DEF VerdictInv, HashingInv, VerifyingInv
<1>3. changes \in Nat
  BY CompareAssumption DEF TypeInv, TypeOK
<1>4. VerdictWasTrue'
  <2>1. CASE changes > 1
    BY <2>1 DEF VerdictWasTrue
  <2>2. CASE changes = 0
    <3>1. pc = "equal" => Deserves(file) = "UNCHANGED"
      BY <2>2 DEF VerdictInv, VerifyingInv, SecondReadingCounts, Deserves
    <3>2. pc = "record" => Deserves(file) = "MODIFIED"
      BY <2>2 DEF VerdictInv, HashingInv, Deserves
    <3> QED BY <1>1, <3>1, <3>2 DEF VerdictInv, VerdictWasTrue
  <2>3. CASE changes = 1
    <3>1. CASE pc = "record"
      BY <1>1, <2>3, <3>1 DEF VerdictInv, VerdictWasTrue
    <3>2. CASE pc = "equal"
      <4>1. Hash(hashed["a"]) = Hash(hashed["b"])
        BY <3>2 DEF VerdictInv
      <4>2. CASE hashed["a"] # hashed["b"]
        BY <1>1, <2>3, <4>1, <4>2 DEF VerdictWasTrue
      <4>3. CASE hashed["a"] = hashed["b"]
        <5>1. "UNCHANGED" \notin deserved => Deserves(file) = "UNCHANGED"
          BY <2>3, <3>2, <4>3 DEF VerdictInv, VerifyingInv, SecondReadingCounts, Deserves
        <5> QED BY <1>1, <3>2, <5>1 DEF VerdictInv, VerdictWasTrue
      <4> QED BY <4>2, <4>3
    <3> QED BY <1>1, <3>1, <3>2
  <2> QED BY <1>3, <2>1, <2>2, <2>3
<1> QED BY <1>1, <1>2, <1>4 DEF VerdictInv, Deserves

LEMMA ChangeKeepsVerdict ==
  ASSUME TypeInv, VerdictInv, NEW s \in Side, NEW content \in Content \cup {Gone},
         Change(s, content)
  PROVE  VerdictInv'
<1>1. /\ pc' = pc /\ hashed' = hashed /\ outcome' = NoOutcome
      /\ changes \in Nat /\ changes' = changes + 1
      /\ deserved' = deserved \cup {Deserves(file')}
      /\ file' = [file EXCEPT ![s] = content] /\ content # file[s]
      /\ file \in [Side -> Content \cup {Gone}] /\ Side = {"a", "b"}
  BY CompareAssumption DEF Change, TypeInv, TypeOK, Side
<1>2. Deserves(file)' \in deserved'
  BY <1>1 DEF Deserves
<1>3. ASSUME changes = 0 PROVE "MODIFIED" \in deserved'
  <2>1. CASE file["a"] = file["b"]
    <3>1. file'["a"] # file'["b"]
      BY <1>1, <2>1
    <3> QED BY <1>1, <3>1 DEF Deserves
  <2>2. CASE file["a"] # file["b"]
    BY <1>1, <2>2 DEF VerdictInv, Deserves
  <2> QED BY <2>1, <2>2
<1>4. HashingInv'
  BY <1>1 DEF HashingInv
<1>5. VerifyingInv'
  <2> SUFFICES ASSUME SecondReadingCounts', pc \in {"verify_open", "verify", "equal"}
               PROVE  FALSE
    BY <1>1 DEF VerifyingInv
  <2>1. changes = 0 /\ hashed["a"] = hashed["b"] /\ "UNCHANGED" \notin deserved
    BY <1>1 DEF SecondReadingCounts
  <2>2. file["a"] = file["b"]
    BY <2>1 DEF VerdictInv, HashingInv
  <2> QED BY <2>1, <2>2 DEF VerdictInv, Deserves
<1> QED BY <1>1, <1>2, <1>3, <1>4, <1>5 DEF VerdictInv, VerdictWasTrue, NoOutcome

LEMMA VerdictInvInductive == TypeInv /\ VerdictInv /\ [Next]_vars => VerdictInv'
<1> SUFFICES ASSUME TypeInv, VerdictInv, [Next]_vars PROVE VerdictInv'
  OBVIOUS
<1>1. CASE Worker
  <2>1. UNCHANGED <<file, deserved, changes>>
    BY <1>1 DEF Worker, fileVars
  <2>2. CASE OpenFails \/ CallFails \/ LineNotKept \/ MappingCut
    <3>1. hashed' = hashed /\ pc' \in {"done", "killed"} /\ outcome'.type \in {"error", "none"}
      BY <2>2, ReturnsTyped
         DEF OpenFails, CallFails, LineNotKept, MappingCut, Goes, readVars,
             TypeInv, NoOutcome
    <3> QED BY <2>1, <3>1, QuietKeepsVerdict
  <2>3. CASE \/ LinesOpen \/ SniffText \/ SniffBinary \/ CompareLine \/ LinesEnd
             \/ ReadFirst /\ pc # "verify"
    <3>1. /\ hashed' = hashed /\ outcome' = NoOutcome
          /\ pc \in {"sniff", "lines_open", "lines", "record"}
          /\ pc' \in {"sniff", "lines_open", "lines", "record"}
      BY <2>3
         DEF LinesOpen, OpenBoth, SniffText, SniffBinary, CompareLine,
             AtSecondLine, LinesEnd, ReadFirst, Goes, readVars, TypeInv
    <3> QED BY <2>1, <3>1, QuietKeepsVerdict DEF NoOutcome
  <2>4. CASE HashOpen \/ MmapFails \/ HashBlock
    BY <2>1, <2>4, HashingKeepsVerdict
  <2> QED BY <1>1, <2>1, <2>2, <2>3, <2>4, HashDoneKeepsVerdict,
             VerifyOpenKeepsVerdict, ReadFirstKeepsVerdict,
             VerifyBlockKeepsVerdict, RecordKeepsVerdict DEF Worker
<1>2. CASE \E s \in Side, content \in Content \cup {Gone} : Change(s, content)
  BY <1>2, ChangeKeepsVerdict
<1>3. CASE UNCHANGED vars
  BY <1>3 DEF vars, fileVars, readVars, diffVars, lineDiffVars, VerdictInv,
              HashingInv, VerifyingInv, SecondReadingCounts, SameUpTo,
              VerdictWasTrue, Deserves
<1> QED BY <1>1, <1>2, <1>3 DEF Next, Ended

----------------------------------------------------------------------------
(* The differences of lines *)

Undisturbed == changes = 0 /\ faults = 0

Texts == IsLikelyText(file["a"]) /\ IsLikelyText(file["b"])

DiffersAt(n) == LineOf(file["a"], n) # LineOf(file["b"], n)

\* What has been kept are the differing lines among the first m, in order.
DiffsUpTo(m) ==
  /\ \A i \in 1 .. Len(line_diffs) :
       LET n == line_diffs[i].line_number IN
       /\ n \in 1 .. m /\ DiffersAt(n)
       /\ line_diffs[i].left = Trimmed(LineOf(file["a"], n))
       /\ line_diffs[i].right = Trimmed(LineOf(file["b"], n))
       /\ i > 1 => n > line_diffs[i - 1].line_number
  /\ \A n \in 1 .. m : DiffersAt(n) =>
       \E i \in 1 .. Len(line_diffs) : line_diffs[i].line_number = n

ReadUpTo(s, n) == pos[s] = IF n <= Len(file[s]) THEN n ELSE Len(file[s])

LinesInv ==
  Undisturbed =>
    /\ pc \notin {"lines", "record", "done"} => line_no = 1
    /\ pc \in {"sniff", "lines_open", "lines"} => config.include_lines
    /\ pc = "sniff" /\ side = "b" => IsLikelyText(file["a"])
    /\ pc \in {"lines_open", "lines"} => Texts
    /\ pc = "lines_open" /\ side = "b" => open["a"] = file["a"] /\ pos["a"] = 0
    /\ pc = "lines" =>
         /\ open["a"] = file["a"] /\ open["b"] = file["b"]
         /\ DiffsUpTo(line_no - 1)
         /\ ReadUpTo("b", line_no - 1)
         /\ side = "a" => ReadUpTo("a", line_no - 1)
         /\ side = "b" => ReadUpTo("a", line_no) /\ got = LineOf(file["a"], line_no)
    /\ pc = "record" =>
         IF config.include_lines /\ Texts
         THEN /\ Len(file["a"]) < line_no /\ Len(file["b"]) < line_no
              /\ DiffsUpTo(line_no - 1)
         ELSE line_diffs = <<>>
    /\ DiffsExact

LinesIndInv == TypeInv /\ CopiesInv /\ VerdictInv /\ LinesInv

\* Nobody has touched the files, and they are sequences of lines.
LEMMA UndisturbedFiles ==
  ASSUME TypeInv, VerdictInv, Undisturbed
  PROVE  /\ file["a"] \in Seq(Line) /\ Len(file["a"]) \in Nat /\ file["a"] # Gone
         /\ file["b"] \in Seq(Line) /\ Len(file["b"]) \in Nat /\ file["b"] # Gone
         /\ pc \in {"sniff", "lines_open", "lines", "record"} => file["a"] # file["b"]
<1>1. /\ file["a"] \in Content /\ file["b"] \in Content
      /\ pc \in {"sniff", "lines_open", "lines", "record"} => file["a"] # file["b"]
  BY DEF VerdictInv, HashingInv, Undisturbed, Side
<1> QED BY <1>1, CompareAssumption, LenProperties DEF Line

\* Two files that differ differ in a line.
LEMMA DifferSomewhere ==
  ASSUME NEW a \in Seq(Line), NEW b \in Seq(Line), a # b
  PROVE  \E n \in 1 .. Len(a) + Len(b) : LineOf(a, n) # LineOf(b, n)
<1>1. Len(a) \in Nat /\ Len(b) \in Nat
  BY LenProperties
<1>2. \A n \in 1 .. Len(a) + Len(b) : n \in Nat
  BY <1>1
<1>3. CASE Len(a) = Len(b)
  <2>1. PICK n \in 1 .. Len(a) : a[n] # b[n]
    BY <1>3, SeqEqual
  <2>2. n \in Nat /\ n \in 1 .. Len(a) + Len(b)
    BY <1>1, <2>1
  <2>3. LineOf(a, n) = <<a[n]>> /\ LineOf(b, n) = <<b[n]>>
    BY <1>3, <2>1, <2>2, LineOfProperties
  <2> QED BY <2>1, <2>2, <2>3
<1>4. CASE Len(a) < Len(b)
  <2> DEFINE n == Len(b)
  <2>1. n \in Nat /\ n \in 1 .. Len(a) + Len(b) /\ n \in 1 .. Len(b) /\ n \notin 1 .. Len(a)
    BY <1>1, <1>4
  <2> HIDE DEF n
  <2>2. LineOf(a, n) = <<>> /\ LineOf(b, n) # <<>>
    BY <2>1, LineOfProperties
  <2> QED BY <2>1, <2>2
<1>5. CASE Len(b) < Len(a)
  <2> DEFINE n == Len(a)
  <2>1. n \in Nat /\ n \in 1 .. Len(a) + Len(b) /\ n \in 1 .. Len(a) /\ n \notin 1 .. Len(b)
    BY <1>1, <1>5
  <2> HIDE DEF n
  <2>2. LineOf(b, n) = <<>> /\ LineOf(a, n) # <<>>
    BY <2>1, LineOfProperties
  <2> QED BY <2>1, <2>2
<1> QED BY <1>1, <1>3, <1>4, <1>5

\* Past the end of a file every block is the empty one.
LEMMA NextBlock ==
  ASSUME NEW content \in Seq(Line), NEW n \in Nat \ {0}, NEW at,
         at = IF n - 1 <= Len(content) THEN n - 1 ELSE Len(content)
  PROVE  /\ LineOf(content, at + 1) = LineOf(content, n)
         /\ at + Len(LineOf(content, n)) = IF n <= Len(content) THEN n ELSE Len(content)
<1>1. Len(content) \in Nat /\ n \in Nat
  BY LenProperties
<1>2. CASE n <= Len(content)
  <2>1. at = n - 1 /\ n \in 1 .. Len(content)
    BY <1>1, <1>2
  <2>2. Len(LineOf(content, n)) = 1
    BY <1>1, <2>1, LineOfProperties
  <2>3. at + 1 = n
    BY <1>1, <2>1
  <2> QED BY <1>1, <1>2, <2>1, <2>2, <2>3
<1>3. CASE ~(n <= Len(content))
  <2> DEFINE k == at + 1
  <2>1. /\ at = Len(content) /\ n \notin 1 .. Len(content)
        /\ k \in Nat /\ k \notin 1 .. Len(content)
    BY <1>1, <1>3
  <2> HIDE DEF k
  <2>2. /\ LineOf(content, n) = <<>> /\ Len(LineOf(content, n)) = 0
        /\ LineOf(content, k) = <<>>
    BY <1>1, <2>1, LineOfProperties
  <2> QED BY <1>1, <1>3, <2>1, <2>2 DEF k
<1> QED BY <1>2, <1>3

LEMMA LinesInvInit == Init => LinesInv
BY DEF Init, LinesInv, DiffsExact, NoOutcome

\* A step that keeps the differences and goes nowhere where the invariant asks
\* more than it did.
LEMMA QuietKeepsLines ==
  ASSUME LinesIndInv, UNCHANGED <<file, config, line_diffs, line_no>>,
         Undisturbed' => Undisturbed,
         outcome'.type # "MODIFIED",
         pc \notin {"lines", "record", "done"},
         pc' \notin {"lines", "record", "sniff", "lines_open"}
  PROVE  LinesInv'
BY DEF LinesIndInv, LinesInv, DiffsExact

\* Deciding that the files differ: with --lines they are looked into.
LEMMA DifferKeepsLines ==
  ASSUME LinesIndInv, UNCHANGED <<file, config, line_diffs, line_no>>,
         Undisturbed' => Undisturbed,
         outcome'.type # "MODIFIED",
         pc \in {"hash", "verify"}, pc' = Differ, side' = "a"
  PROVE  LinesInv'
<1>1. line_diffs = <<>>
  BY DEF LinesIndInv, CopiesInv
<1> QED BY <1>1 DEF LinesIndInv, LinesInv, DiffsExact, Differ

LEMMA SniffKeepsLines ==
  ASSUME LinesIndInv, SniffText \/ SniffBinary, UNCHANGED <<config, fileVars>>
  PROVE  LinesInv'
<1>1. /\ UNCHANGED <<file, config, changes, line_diffs, line_no, outcome>>
      /\ pc = "sniff" /\ outcome = NoOutcome /\ side \in Side
      /\ pc' \in {"sniff", "lines_open", "record"}
  BY DEF SniffText, SniffBinary, Goes, diffVars, lineDiffVars, fileVars,
         LinesIndInv, TypeInv, TypeOK
<1> SUFFICES ASSUME Undisturbed' PROVE LinesInv'
  BY DEF LinesInv
<1>2. Undisturbed /\ faults' = faults
  <2>1. faults \in Nat /\ changes' = changes
    BY <1>1, CompareAssumption DEF LinesIndInv, TypeInv, TypeOK
  <2> QED BY <2>1 DEF SniffText, SniffBinary, Fault, Undisturbed
<1>3. /\ line_no = 1 /\ config.include_lines /\ line_diffs = <<>>
      /\ side = "b" => IsLikelyText(file["a"])
      /\ file["a"] # Gone /\ file["b"] # Gone
  BY <1>1, <1>2, UndisturbedFiles DEF LinesIndInv, LinesInv, CopiesInv
<1>4. outcome'.type = "none"
  BY <1>1 DEF NoOutcome
<1>5. CASE SniffText
  <2>1. /\ IsLikelyText(file[side])
        /\ pc' = IF side = "a" THEN "sniff" ELSE "lines_open"
        /\ side' = IF side = "a" THEN "b" ELSE "a"
    BY <1>5 DEF SniffText
  <2> QED BY <1>1, <1>3, <1>4, <2>1 DEF LinesInv, DiffsExact, Texts, Side
<1>6. CASE SniffBinary
  <2>1. pc' = "record"
    BY <1>6 DEF SniffBinary, Goes
  <2>2. ~IsLikelyText(file[side])
    <3>1. faults \in Nat
      BY CompareAssumption DEF LinesIndInv, TypeInv, TypeOK
    <3>2. file[side] = Gone \/ ~IsLikelyText(file[side])
      BY <1>2, <1>6, <3>1 DEF SniffBinary, Fault
    <3> QED BY <1>1, <1>3, <3>2 DEF Side
  <2>3. ~Texts
    BY <1>1, <2>2 DEF Texts, Side
  <2>4. ~Texts'
    BY <1>1, <2>3 DEF Texts
  <2> QED BY <1>1, <1>3, <1>4, <2>1, <2>4 DEF LinesInv, DiffsExact
<1> QED BY <1>5, <1>6

LEMMA LinesOpenKeepsLines ==
  ASSUME LinesIndInv, LinesOpen, UNCHANGED <<config, fileVars>>
  PROVE  LinesInv'
<1>1. /\ Opens(side) /\ side \in Side
      /\ pc = "lines_open" /\ outcome' = NoOutcome
      /\ side' = IF side = "a" THEN "b" ELSE "a"
      /\ pc' = IF side = "a" THEN "lines_open" ELSE "lines"
      /\ UNCHANGED <<file, config, changes, faults, line_diffs, line_no>>
  BY DEF LinesOpen, OpenBoth, LinesIndInv, TypeInv, TypeOK, diffVars,
         lineDiffVars, fileVars
<1>2. /\ open'[side] = file[side] /\ pos'[side] = 0
      /\ side = "b" => open'["a"] = open["a"] /\ pos'["a"] = pos["a"]
  BY <1>1 DEF Opens, LinesIndInv, TypeInv, TypeOK, Side
<1> SUFFICES ASSUME Undisturbed' PROVE LinesInv'
  BY DEF LinesInv
<1>3. Undisturbed
  BY <1>1 DEF Undisturbed
<1>4. /\ line_no = 1 /\ config.include_lines /\ Texts /\ line_diffs = <<>>
      /\ side = "b" => open["a"] = file["a"] /\ pos["a"] = 0
      /\ Len(file["a"]) \in Nat /\ Len(file["b"]) \in Nat
  BY <1>1, <1>3, UndisturbedFiles DEF LinesIndInv, LinesInv, CopiesInv
<1>5. Texts' /\ outcome'.type = "none"
  BY <1>1, <1>4 DEF Texts, NoOutcome
<1>6. CASE side = "a"
  BY <1>1, <1>2, <1>4, <1>5, <1>6 DEF LinesInv, DiffsExact
<1>7. CASE side = "b"
  <2>1. DiffsUpTo(line_no - 1)'
    BY <1>1, <1>4, EmptyIsSequence DEF DiffsUpTo
  <2>2. ReadUpTo("a", line_no - 1)' /\ ReadUpTo("b", line_no - 1)'
    BY <1>1, <1>2, <1>4, <1>7 DEF ReadUpTo
  <2> QED BY <1>1, <1>2, <1>4, <1>5, <1>7, <2>1, <2>2 DEF LinesInv, DiffsExact, Side
<1> QED BY <1>1, <1>6, <1>7 DEF Side

LEMMA ReadFirstKeepsLines ==
  ASSUME LinesIndInv, ReadFirst, pc = "lines", UNCHANGED <<config, fileVars>>
  PROVE  LinesInv'
<1>1. /\ side = "a" /\ side' = "b" /\ pc' = "lines" /\ outcome' = NoOutcome
      /\ got' = Block("a")
      /\ pos' = [pos EXCEPT !["a"] = @ + Len(Block("a"))]
      /\ UNCHANGED <<file, config, changes, faults, line_diffs, line_no, open>>
  BY DEF ReadFirst, Advance, LinesIndInv, TypeInv, diffVars, lineDiffVars, fileVars
<1>2. pos'["a"] = pos["a"] + Len(Block("a")) /\ pos'["b"] = pos["b"]
  BY <1>1 DEF LinesIndInv, TypeInv, TypeOK, Side
<1> SUFFICES ASSUME Undisturbed PROVE LinesInv'
  BY <1>1 DEF LinesInv, Undisturbed
<1>3. /\ config.include_lines /\ Texts
      /\ open["a"] = file["a"] /\ open["b"] = file["b"]
      /\ DiffsUpTo(line_no - 1) /\ ReadUpTo("b", line_no - 1)
      /\ ReadUpTo("a", line_no - 1)
  BY <1>1 DEF LinesIndInv, LinesInv
<1>4. file["a"] \in Seq(Line) /\ line_no \in Nat \ {0}
  <2>1. Len(line_diffs) \in Nat /\ Len(line_diffs) < line_no /\ line_no \in Nat
    BY SequenceLength DEF LinesIndInv, TypeInv, TypeOK
  <2> QED BY <2>1, UndisturbedFiles DEF LinesIndInv
<1>5. /\ got' = LineOf(file["a"], line_no)
      /\ pos'["a"] = IF line_no <= Len(file["a"]) THEN line_no ELSE Len(file["a"])
  <2>1. pos["a"] = IF line_no - 1 <= Len(file["a"]) THEN line_no - 1 ELSE Len(file["a"])
    BY <1>3 DEF ReadUpTo
  <2>2. Block("a") = LineOf(file["a"], line_no)
    BY <1>3, <1>4, <2>1, NextBlock DEF Block
  <2> QED BY <1>1, <1>2, <1>4, <2>1, <2>2, NextBlock
<1>6. DiffsUpTo(line_no - 1)' /\ Texts'
  BY <1>1, <1>3 DEF DiffsUpTo, DiffersAt, Texts
<1>7. ReadUpTo("b", line_no - 1)' /\ ReadUpTo("a", line_no)'
  BY <1>1, <1>2, <1>3, <1>5 DEF ReadUpTo
<1> QED BY <1>1, <1>3, <1>5, <1>6, <1>7 DEF LinesInv, DiffsExact, NoOutcome

\* The second file's line, and where that leaves the comparison.
LEMMA SecondLine ==
  ASSUME LinesIndInv, Undisturbed, pc = "lines", side = "b"
  PROVE  /\ line_no \in Nat \ {0}
         /\ got = LineOf(file["a"], line_no)
         /\ Block("b") = LineOf(file["b"], line_no)
         /\ pos["b"] + Len(Block("b")) =
              IF line_no <= Len(file["b"]) THEN line_no ELSE Len(file["b"])
         /\ open["a"] = file["a"] /\ open["b"] = file["b"]
         /\ ReadUpTo("a", line_no) /\ DiffsUpTo(line_no - 1)
         /\ config.include_lines /\ Texts
<1>1. /\ config.include_lines /\ Texts
      /\ open["a"] = file["a"] /\ open["b"] = file["b"]
      /\ DiffsUpTo(line_no - 1) /\ ReadUpTo("b", line_no - 1)
      /\ ReadUpTo("a", line_no) /\ got = LineOf(file["a"], line_no)
  BY DEF LinesIndInv, LinesInv
<1>2. file["b"] \in Seq(Line) /\ line_no \in Nat \ {0}
  <2>1. Len(line_diffs) \in Nat /\ Len(line_diffs) < line_no /\ line_no \in Nat
    BY SequenceLength DEF LinesIndInv, TypeInv, TypeOK
  <2> QED BY <2>1, UndisturbedFiles DEF LinesIndInv
<1>3. pos["b"] = IF line_no - 1 <= Len(file["b"]) THEN line_no - 1 ELSE Len(file["b"])
  BY <1>1 DEF ReadUpTo
<1>4. Block("b") = LineOf(file["b"], line_no)
  BY <1>1, <1>2, <1>3, NextBlock DEF Block
<1> QED BY <1>1, <1>2, <1>3, <1>4, NextBlock

LEMMA CompareLineKeepsLines ==
  ASSUME LinesIndInv, CompareLine, UNCHANGED <<config, fileVars>>
  PROVE  LinesInv'
<1>1. /\ pc = "lines" /\ side = "b" /\ side' = "a" /\ pc' = "lines"
      /\ outcome' = NoOutcome /\ line_no' = line_no + 1
      /\ pos' = [pos EXCEPT !["b"] = @ + Len(Block("b"))]
      /\ UNCHANGED <<file, config, changes, faults, open>>
      /\ IF got # Block("b")
         THEN LineDiffPush(line_no, Trimmed(got), Trimmed(Block("b")))
         ELSE UNCHANGED lineDiffVars
  BY DEF CompareLine, AtSecondLine, Advance, NextLineNo, LinesIndInv, TypeInv, fileVars
<1>2. pos'["b"] = pos["b"] + Len(Block("b")) /\ pos'["a"] = pos["a"]
  BY <1>1 DEF LinesIndInv, TypeInv, TypeOK, Side
<1> SUFFICES ASSUME Undisturbed PROVE LinesInv'
  BY <1>1 DEF LinesInv, Undisturbed
<1> DEFINE a == file["a"]
           b == file["b"]
<1>0. PICK n \in Nat : n = line_no
  BY <1>1, SecondLine
<1>3. /\ n \in Nat \ {0} /\ got = LineOf(a, n) /\ Block("b") = LineOf(b, n)
      /\ pos'["b"] = IF n <= Len(b) THEN n ELSE Len(b)
      /\ open["a"] = a /\ open["b"] = b
      /\ pos["a"] = IF n <= Len(a) THEN n ELSE Len(a)
      /\ DiffsUpTo(n - 1) /\ config.include_lines /\ Texts
  BY <1>0, <1>1, <1>2, SecondLine DEF ReadUpTo
<1>4. line_no' - 1 = n
  BY <1>0, <1>1, <1>3
<1>5. ReadUpTo("a", n)' /\ ReadUpTo("b", n)'
  BY <1>1, <1>2, <1>3, <1>4 DEF ReadUpTo
<1>6. DiffsUpTo(n)'
  <2>1. \A i \in 1 .. n : i \in 1 .. n - 1 \/ i = n
    BY <1>3
  <2>2. n \in 1 .. n /\ \A i \in 1 .. n - 1 : i \in 1 .. n /\ n > i
    BY <1>3
  <2>3. CASE ~DiffersAt(n)
    <3>1. line_diffs' = line_diffs
      BY <1>0, <1>1, <1>3, <2>3 DEF DiffersAt, lineDiffVars
    <3> QED
      BY <1>1, <1>3, <2>1, <2>2, <2>3, <3>1 DEF DiffsUpTo, DiffersAt
  <2>4. CASE DiffersAt(n)
    <3> DEFINE d == [line_number |-> n, left |-> Trimmed(LineOf(a, n)),
                     right |-> Trimmed(LineOf(b, n))]
               k == Len(line_diffs)
    <3>1. line_diffs' = Append(line_diffs, d)
      BY <1>0, <1>1, <1>3, <2>4 DEF DiffersAt, LineDiffPush
    <3>2. /\ Len(line_diffs') = k + 1 /\ k \in Nat
          /\ line_diffs'[k + 1] = d
          /\ \A i \in 1 .. k : line_diffs'[i] = line_diffs[i]
      BY <3>1, AppendIsSequence, SequenceLength DEF LinesIndInv, TypeInv
    <3>3. /\ d.line_number = n /\ d.left = Trimmed(LineOf(a, n))
          /\ d.right = Trimmed(LineOf(b, n))
      OBVIOUS
    <3> HIDE DEF d, k
    <3>4. \A i \in 1 .. k + 1 : i \in 1 .. k \/ i = k + 1
      BY <3>2
    <3>5. \A i \in 1 .. k : /\ i \in 1 .. k + 1
                            /\ i > 1 => i - 1 \in 1 .. k
      BY <3>2
    <3>6. k + 1 \in 1 .. k + 1 /\ k + 1 - 1 = k /\ (k + 1 > 1 => k \in 1 .. k)
      BY <3>2
    <3>7. ASSUME NEW i \in 1 .. k
          PROVE  LET m == line_diffs'[i].line_number IN
                 /\ m \in 1 .. n /\ DiffersAt(m)
                 /\ line_diffs'[i].left = Trimmed(LineOf(a, m))
                 /\ line_diffs'[i].right = Trimmed(LineOf(b, m))
                 /\ i > 1 => m > line_diffs'[i - 1].line_number
      <4>1. LET m == line_diffs[i].line_number IN
            /\ m \in 1 .. n - 1 /\ DiffersAt(m)
            /\ line_diffs[i].left = Trimmed(LineOf(a, m))
            /\ line_diffs[i].right = Trimmed(LineOf(b, m))
            /\ i > 1 => m > line_diffs[i - 1].line_number
        BY <1>3 DEF DiffsUpTo, k
      <4> QED BY <2>2, <3>2, <3>5, <4>1
    <3>8. k + 1 > 1 => n > line_diffs'[k + 1 - 1].line_number
      <4> SUFFICES ASSUME k + 1 > 1 PROVE n > line_diffs'[k].line_number
        BY <3>6
      <4>1. k \in 1 .. k /\ line_diffs[k].line_number \in 1 .. n - 1
        BY <1>3, <3>6 DEF DiffsUpTo, k
      <4> QED BY <2>2, <3>2, <4>1
    <3>9. ASSUME NEW m \in 1 .. n, DiffersAt(m)
          PROVE  \E i \in 1 .. k + 1 : line_diffs'[i].line_number = m
      <4>1. CASE m = n
        BY <3>2, <3>3, <3>6, <4>1
      <4>2. CASE m \in 1 .. n - 1
        <5>1. PICK i \in 1 .. k : line_diffs[i].line_number = m
          BY <1>3, <3>9, <4>2 DEF DiffsUpTo, k
        <5> QED BY <3>2, <3>5, <5>1
      <4> QED BY <2>1, <4>1, <4>2
    <3>10. \A i \in 1 .. k + 1 :
             LET m == line_diffs'[i].line_number IN
             /\ m \in 1 .. n /\ DiffersAt(m)
             /\ line_diffs'[i].left = Trimmed(LineOf(a, m))
             /\ line_diffs'[i].right = Trimmed(LineOf(b, m))
             /\ i > 1 => m > line_diffs'[i - 1].line_number
      BY <2>2, <2>4, <3>2, <3>3, <3>4, <3>7, <3>8
    <3> QED BY <1>1, <3>2, <3>9, <3>10 DEF DiffsUpTo, DiffersAt
  <2> QED BY <2>3, <2>4
<1>7. Texts' /\ outcome'.type = "none"
  BY <1>1, <1>3 DEF Texts, NoOutcome
<1>8. DiffsUpTo(line_no - 1)' /\ ReadUpTo("a", line_no - 1)' /\ ReadUpTo("b", line_no - 1)'
  BY <1>4, <1>5, <1>6 DEF DiffsUpTo, ReadUpTo
<1> QED BY <1>1, <1>3, <1>7, <1>8 DEF LinesInv, DiffsExact

LEMMA LinesEndKeepsLines ==
  ASSUME LinesIndInv, LinesEnd, UNCHANGED <<config, fileVars>>
  PROVE  LinesInv'
<1>1. /\ pc = "lines" /\ side = "b" /\ pc' = "record" /\ outcome' = NoOutcome
      /\ got = <<>> /\ Block("b") = <<>>
      /\ UNCHANGED <<file, config, changes, faults, line_diffs, line_no>>
  BY DEF LinesEnd, Goes, BothEnded, LinesIndInv, TypeInv, diffVars, lineDiffVars, fileVars
<1> SUFFICES ASSUME Undisturbed PROVE LinesInv'
  BY <1>1 DEF LinesInv, Undisturbed
<1>2. /\ line_no \in Nat \ {0} /\ LineOf(file["a"], line_no) = <<>>
      /\ LineOf(file["b"], line_no) = <<>>
      /\ DiffsUpTo(line_no - 1) /\ config.include_lines /\ Texts
  BY <1>1, SecondLine
<1>3. /\ file["a"] \in Seq(Line) /\ Len(file["a"]) \in Nat
      /\ file["b"] \in Seq(Line) /\ Len(file["b"]) \in Nat
  BY UndisturbedFiles DEF LinesIndInv
<1>4. line_no \notin 1 .. Len(file["a"]) /\ line_no \notin 1 .. Len(file["b"])
  BY <1>2, <1>3, LineOfProperties
<1>5. Len(file["a"]) < line_no /\ Len(file["b"]) < line_no
  BY <1>2, <1>3, <1>4
<1>6. DiffsUpTo(line_no - 1)' /\ Texts'
  BY <1>1, <1>2 DEF DiffsUpTo, DiffersAt, Texts
<1> QED BY <1>1, <1>2, <1>5, <1>6 DEF LinesInv, DiffsExact, NoOutcome

LEMMA RecordKeepsLines ==
  ASSUME LinesIndInv, Record, UNCHANGED <<config, fileVars>>
  PROVE  LinesInv'
<1>1. /\ pc \in {"equal", "record"} /\ pc' = "done"
      /\ UNCHANGED <<file, config, changes, faults, line_diffs, line_no>>
      /\ outcome'.type = "MODIFIED" => pc = "record"
      /\ pc = "record" => outcome'.detail_kind = IF line_diffs # <<>> THEN "LINES"
                                                 ELSE "BINARY_CHANGED"
  BY DEF Record, diffVars, lineDiffVars, fileVars
<1> DEFINE a == file["a"]
           b == file["b"]
           differing == {n \in 1 .. Len(a) + Len(b) : LineOf(a, n) # LineOf(b, n)}
<1> SUFFICES ASSUME Undisturbed, pc = "record"
             PROVE  IF config.include_lines /\ Texts
                    THEN /\ line_diffs # <<>>
                         /\ {line_diffs[i].line_number : i \in 1 .. Len(line_diffs)} = differing
                         /\ \A i \in 1 .. Len(line_diffs) :
                              LET n == line_diffs[i].line_number IN
                              /\ line_diffs[i].left = Trimmed(LineOf(a, n))
                              /\ line_diffs[i].right = Trimmed(LineOf(b, n))
                              /\ i > 1 => n > line_diffs[i - 1].line_number
                    ELSE line_diffs = <<>>
  BY <1>1 DEF LinesInv, DiffsExact, Undisturbed, Texts
<1>2. CASE ~(config.include_lines /\ Texts)
  BY <1>2 DEF LinesIndInv, LinesInv
<1>3. CASE config.include_lines /\ Texts
  <2>1. /\ a \in Seq(Line) /\ Len(a) \in Nat /\ b \in Seq(Line) /\ Len(b) \in Nat /\ a # b
        /\ line_no \in Nat
    BY UndisturbedFiles DEF LinesIndInv, TypeInv
  <2>2. Len(a) < line_no /\ Len(b) < line_no /\ DiffsUpTo(line_no - 1)
    BY <1>3 DEF LinesIndInv, LinesInv
  <2> HIDE DEF a, b
  <2>3. ASSUME NEW n \in Nat, n > 0, LineOf(a, n) # LineOf(b, n)
        PROVE  n \in 1 .. line_no - 1 /\ n \in differing
    <3>1. n \in 1 .. Len(a) \/ n \in 1 .. Len(b)
      <4>1. n \notin 1 .. Len(a) => LineOf(a, n) = <<>>
        BY <2>1, LineOfProperties
      <4>2. n \notin 1 .. Len(b) => LineOf(b, n) = <<>>
        BY <2>1, LineOfProperties
      <4> QED BY <2>3, <4>1, <4>2
    <3> QED BY <2>1, <2>2, <2>3, <3>1
  <2>4. \A n \in differing : /\ n \in 1 .. line_no - 1 /\ DiffersAt(n)
    <3> SUFFICES ASSUME NEW n \in differing
                 PROVE  n \in 1 .. line_no - 1 /\ DiffersAt(n)
      OBVIOUS
    <3>1. n \in Nat /\ n > 0 /\ LineOf(a, n) # LineOf(b, n)
      BY <2>1
    <3> QED BY <2>3, <3>1 DEF DiffersAt, a, b
  <2>5. \A i \in 1 .. Len(line_diffs) : line_diffs[i].line_number \in differing
    <3> SUFFICES ASSUME NEW i \in 1 .. Len(line_diffs)
                 PROVE  line_diffs[i].line_number \in differing
      OBVIOUS
    <3>1. line_diffs[i].line_number \in 1 .. line_no - 1 /\ DiffersAt(line_diffs[i].line_number)
      BY <2>2 DEF DiffsUpTo
    <3> DEFINE n == line_diffs[i].line_number
    <3>2. n \in Nat /\ n > 0 /\ LineOf(a, n) # LineOf(b, n)
      BY <2>1, <3>1 DEF DiffersAt, a, b
    <3> HIDE DEF n
    <3> QED BY <2>3, <3>2 DEF n
  <2>6. \A n \in differing : \E i \in 1 .. Len(line_diffs) : line_diffs[i].line_number = n
    BY <2>2, <2>4 DEF DiffsUpTo
  <2>7. line_diffs # <<>>
    <3>1. PICK n \in differing : TRUE
      BY <2>1, DifferSomewhere
    <3>2. PICK i \in 1 .. Len(line_diffs) : line_diffs[i].line_number = n
      BY <2>6
    <3> QED BY <3>2, EmptyIsSequence
  <2>8. {line_diffs[i].line_number : i \in 1 .. Len(line_diffs)} = differing
    BY <2>5, <2>6
  <2>9. \A i \in 1 .. Len(line_diffs) :
          LET n == line_diffs[i].line_number IN
          /\ line_diffs[i].left = Trimmed(LineOf(a, n))
          /\ line_diffs[i].right = Trimmed(LineOf(b, n))
          /\ i > 1 => n > line_diffs[i - 1].line_number
    BY <2>2 DEF DiffsUpTo, a, b
  <2> QED BY <1>3, <2>7, <2>8, <2>9
<1> QED BY <1>2, <1>3

LEMMA LinesInvInductive == LinesIndInv /\ [Next]_vars => LinesInv'
<1> SUFFICES ASSUME LinesIndInv, [Next]_vars PROVE LinesInv'
  OBVIOUS
<1>1. faults \in Nat /\ changes \in Nat
  BY CompareAssumption DEF LinesIndInv, TypeInv, TypeOK
<1>2. CASE Worker
  <2>1. UNCHANGED <<config, fileVars>> /\ UNCHANGED <<file, config, changes>>
    BY <1>2 DEF Worker, fileVars
  <2>2. CASE OpenFails \/ CallFails \/ LineNotKept
    <3>1. pc' = "done" /\ outcome'.type = "error"
      BY <2>2, ReturnsTyped DEF OpenFails, CallFails, LineNotKept
    <3> QED BY <3>1 DEF LinesInv, DiffsExact
  <2>3. CASE HashOpen \/ MmapFails \/ HashBlock \/ MappingCut \/ VerifyOpen
    <3>1. /\ UNCHANGED <<line_diffs, line_no>> /\ outcome' = NoOutcome
          /\ faults' \in {faults, faults + 1}
          /\ pc \in {"hash_open", "hash", "verify_open"}
          /\ pc' \in {"hash", "verify_open", "verify", "killed"}
      BY <2>3 DEF HashOpen, MmapFails, HashBlock, MappingCut, VerifyOpen, OpenBoth,
                  Goes, Fault, diffVars, lineDiffVars, LinesIndInv, TypeInv
    <3>2. Undisturbed' => Undisturbed
      BY <1>1, <2>1, <3>1 DEF Undisturbed
    <3> QED BY <2>1, <3>1, <3>2, QuietKeepsLines DEF NoOutcome
  <2>4. CASE HashDone \/ VerifyBlock
    <3>1. /\ UNCHANGED <<line_diffs, line_no, faults>> /\ outcome' = NoOutcome
          /\ pc \in {"hash", "verify"}
          /\ pc' \in {"hash_open", "verify_open", "verify", "equal"}
             \/ (pc' = Differ /\ side' = "a")
      BY <2>4 DEF HashDone, VerifyBlock, HashesLeadTo, diffVars, lineDiffVars,
                  LinesIndInv, TypeInv, TypeOK, Side
    <3>2. Undisturbed' => Undisturbed
      BY <2>1, <3>1 DEF Undisturbed
    <3> QED BY <2>1, <3>1, <3>2, QuietKeepsLines, DifferKeepsLines DEF NoOutcome
  <2>5. CASE ReadFirst /\ pc # "lines"
    <3>1. /\ UNCHANGED <<line_diffs, line_no, faults>> /\ outcome' = NoOutcome
          /\ pc = "verify" /\ pc' = "verify"
      BY <2>5 DEF ReadFirst, diffVars, lineDiffVars, LinesIndInv, TypeInv
    <3>2. Undisturbed' => Undisturbed
      BY <2>1, <3>1 DEF Undisturbed
    <3> QED BY <2>1, <3>1, <3>2, QuietKeepsLines DEF NoOutcome
  <2> QED BY <1>2, <2>1, <2>2, <2>3, <2>4, <2>5, SniffKeepsLines,
             LinesOpenKeepsLines, ReadFirstKeepsLines, CompareLineKeepsLines,
             LinesEndKeepsLines, RecordKeepsLines DEF Worker
<1>3. CASE \E s \in Side, content \in Content \cup {Gone} : Change(s, content)
  <2>1. changes' # 0
    BY <1>1, <1>3 DEF Change
  <2> QED BY <2>1 DEF LinesInv, Undisturbed
<1>4. CASE UNCHANGED vars
  <2>1. UNCHANGED <<config, file, changes, pc, side, open, pos, got, line_diffs,
                    line_no, outcome, faults>>
    BY <1>4 DEF vars, fileVars, readVars, diffVars, lineDiffVars
  <2>2. UNCHANGED <<Undisturbed, Texts>> /\ DiffsExact' = DiffsExact
    BY <2>1 DEF Undisturbed, Texts, DiffsExact
  <2>3. /\ \A n : (DiffsUpTo(n))' = DiffsUpTo(n)
        /\ \A x, n : (ReadUpTo(x, n))' = ReadUpTo(x, n)
    BY <2>1 DEF DiffsUpTo, DiffersAt, ReadUpTo
  <2> QED BY <2>1, <2>2, <2>3 DEF LinesInv, LinesIndInv
<1> QED BY <1>2, <1>3, <1>4 DEF Next, Ended

----------------------------------------------------------------------------
(* The theorems *)

LEMMA TypeInvariant == Spec => []TypeInv
BY TypeInvInit, TypeInvInductive, PTL DEF Spec

\* The variables of a comparison keep their types, and what it reads from is
\* open (src/compare.c:18-186, src/hash.c:19-175).
THEOREM CompareTypeCorrect == Spec => []TypeOK
<1>1. TypeInv => TypeOK
  BY DEF TypeInv
<1> QED BY <1>1, TypeInvariant, PTL

\* The copies of lines on the heap are those a record leads to, for any
\* contents, any first capacity and any number of failures
\* (src/index.c:161-207).
THEOREM CopiesOwnedEver == Spec => []CopiesOwned
<1>1. CopiesInv => CopiesOwned
  BY EmptyIsSequence DEF CopiesInv, CopiesOwned
<1> QED BY <1>1, TypeInvariant, CopiesInvInit, CopiesInvInductive, PTL DEF Spec

\* No verdict is invented, for any contents, any hash with any collisions and
\* any sizes to map: with one change at any moment there was an instant at
\* which the files deserved it, unless two contents with one hash are involved
\* (src/compare.c:118-150).
THEOREM VerdictWasTrueEver == Spec => []VerdictWasTrue
<1>1. VerdictInv => VerdictWasTrue
  BY DEF VerdictInv
<1> QED BY <1>1, TypeInvariant, VerdictInvInit, VerdictInvInductive, PTL DEF Spec

\* With --lines and two untouched texts that differ, exactly the differing
\* lines are kept, under their numbers and in order; otherwise none is: for any
\* two files, any number of lines, any hash (src/compare.c:18-86, 151-178).
THEOREM DiffsExactEver == Spec => []DiffsExact
<1>1. LinesInv /\ TypeInv => DiffsExact
  <2> SUFFICES ASSUME LinesInv, TypeInv, ~Undisturbed PROVE DiffsExact
    BY DEF LinesInv
  <2> QED BY DEF DiffsExact, Undisturbed
<1>2. LinesIndInv /\ [Next]_vars => LinesIndInv'
  BY TypeInvInductive, CopiesInvInductive, VerdictInvInductive, LinesInvInductive
     DEF LinesIndInv
<1>3. Init => LinesIndInv
  BY TypeInvInit, CopiesInvInit, VerdictInvInit, LinesInvInit DEF LinesIndInv
<1>4. LinesIndInv => LinesInv /\ TypeInv
  BY DEF LinesIndInv
<1> QED BY <1>1, <1>2, <1>3, <1>4, PTL DEF Spec
=============================================================================
