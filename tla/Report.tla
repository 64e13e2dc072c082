------------------------------- MODULE Report -------------------------------
(***************************************************************************)
(* The texts of src/output.c as sequences of lines, and the buffered       *)
(* streams they go through.                                                *)
(*                                                                         *)
(* A line is a record: what kind of line it is and the values in it; rules *)
(* and headings, the width of a column and clipping are left out.  stats   *)
(* and results have the fields of RunStats and ResultSet that are printed. *)
(* A stream is what it still holds in its buffer and what it has handed to *)
(* the system.                                                             *)
(***************************************************************************)
EXTENDS Integers, Sequences, SequencesExt, FiniteSets

CONSTANT BufferSize     \* lines that fit into the buffer of a stdio stream

ASSUME BufferAssumption == BufferSize \in Nat \ {0}

Heading(name) == <<[line |-> name]>>

\* write_report_header; the time is left out.
Header(config) ==
  <<[line |-> "header", root_a |-> config.root_a, root_b |-> config.root_b,
     thread_count |-> config.thread_count]>>

Counters(stats, results) ==
  <<[line |-> "total", n |-> stats.total_files_scanned]>> \o
  [i \in 1 .. 4 |->
     LET type == <<"UNCHANGED", "MODIFIED", "ADDED", "REMOVED">>[i]
     IN [line |-> "count", type |-> type, n |-> results.tally[type]]]

Dash == -1

\* write_record_row: a file only one tree has no size in the other.
Row(record) ==
  [line |-> "row", path |-> record.path, type |-> record.type,
   size_a |-> IF record.type = "ADDED" THEN Dash ELSE record.size_a,
   size_b |-> IF record.type = "REMOVED" THEN Dash ELSE record.size_b,
   detail |-> record.detail_kind]

\* The order of path_tree_inorder: a record comes after those with a smaller path.
InOrder(records) ==
  [i \in 1 .. Cardinality(records) |->
     CHOOSE r \in records : Cardinality({s \in records : s.path < r.path}) = i - 1]

\* The rows of the table: unchanged files have none.
Rows(records) ==
  LET changed == InOrder({r \in records : r.type # "UNCHANGED"})
  IN [i \in 1 .. Len(changed) |-> Row(changed[i])]

\* write_detailed_diff: the files with line differences, each with its table.
Differences(records) ==
  LET differing == InOrder({r \in records : r.detail_kind = "LINES"})
  IN [i \in 1 .. Len(differing) |->
        [line |-> "lines of", path |-> differing[i].path,
         type |-> differing[i].type]]

\* write_detailed_report.
DetailedReport(config, stats, results) ==
  Header(config) \o Counters(stats, results)
  \o Heading("DETAILED COMPARISON") \o Rows(results.records)
  \o Heading("SIDE-BY-SIDE") \o Differences(results.records)
  \o Heading("END OF REPORT")

\* write_summary.
Summary(config, stats, results) ==
  Header(config) \o Counters(stats, results)
  \o <<[line |-> "report file", path |-> config.output_path]>>
  \o Heading("END OF SUMMARY")

----------------------------------------------------------------------------
(* Streams *)

Stream(text) == [sent |-> text, held |-> <<>>]

\* The system takes the first n lines of the buffer.
Drained(stream, n) ==
  [sent |-> stream.sent \o SubSeq(stream.held, 1, n),
   held |-> SubSeq(stream.held, n + 1, Len(stream.held))]

\* fputs, fprintf: a full buffer is written out first.
Put(stream, line) ==
  LET s == IF Len(stream.held) < BufferSize THEN stream
           ELSE Drained(stream, Len(stream.held))
  IN [s EXCEPT !.held = Append(@, line)]

\* What was written to a stream, whether or not it has arrived.
Written(stream) == stream.sent \o stream.held
=============================================================================
