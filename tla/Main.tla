-------------------------------- MODULE Main --------------------------------
(***************************************************************************)
(* main in src/main.c: the command line, the phases one after the other,   *)
(* the report file, the summary on stdout and the exit code.               *)
(*                                                                         *)
(* A scan is one step here (Scanner has it in full) and yields the trees   *)
(* of the run.  plan_and_compare takes the steps of Comparison, which      *)
(* PlanAndCompare implements.  The two texts go line by line through stdio *)
(* buffers that a full disk or a closed pipe may keep from being written.  *)
(* Progress messages go to stderr and are left out.                        *)
(***************************************************************************)
EXTENDS Report

CONSTANTS
  Path,            \* numbers, so that < is the order of strcmp
  Inputs,          \* what the two directories may hold
  OptionLists,     \* sequences of options to try
  BadArgvs,        \* command lines that are no options and two directories
  Number,          \* strtoul of an argument
  Cores,           \* default_thread_count
  MaxFaults        \* bound on the failures of one run

ThreadOption == {"-j", "--thread", "--threads"}
FlagOption == {"--lines", "--skip-unchanged"}
ConfigOption == ThreadOption \cup FlagOption \cup {"-o"}
InfoOption == {"--help", "-h", "--version", "-V"}

\* How options are written: each with its name, and its argument if it has one.
Spelled(option) ==
  IF option.name \in FlagOption THEN <<option.name>>
  ELSE <<option.name, option.value>>

Spelling(options) == FlattenSeq([i \in 1 .. Len(options) |-> Spelled(options[i])])

Dirs == <<"A", "B">>

CommandLine(options) == Spelling(options) \o Dirs

Argument == DOMAIN Number
Option == [name : ConfigOption, value : Argument]

\* Options that all have a number of threads where they need one.
Acceptable(options) ==
  \A i \in 1 .. Len(options) :
    options[i].name \in ThreadOption => Number[options[i].value] # 0

\* The options a command line can be made of.
Readings(line) ==
  BoundedSeq([name : ConfigOption \cap Range(line), value : Range(line)], Len(line))

\* A command line that is such options and two directories.
IsCommandLine(line) ==
  \E options \in Readings(line), a, b \in Range(line) :
    /\ line = Spelling(options) \o <<a, b>>
    /\ a \notin ConfigOption \cup InfoOption
    /\ Acceptable(options)

\* A command line that asks for help or the version behind such options,
\* whatever comes after that.
Asks(line, options) ==
  /\ Acceptable(options)
  /\ \E word \in InfoOption : IsPrefix(Append(Spelling(options), word), line)

ASSUME ArgsAssumption ==
  /\ Dirs \in Seq(Argument)
  /\ \A s \in Argument : Number[s] \in Nat
  /\ Cores \in Nat \ {0}
  /\ OptionLists \subseteq Seq(Option)
  /\ \A line \in BadArgvs : line \in Seq(Argument) /\ ~IsCommandLine(line)

ASSUME TreesAssumption ==
  /\ Path \subseteq Int
  /\ \A trees \in Inputs :
       \A index \in {trees.index_a, trees.index_b} :
         DOMAIN index \subseteq Path /\ IsFiniteSet(DOMAIN index)
  /\ MaxFaults \in Nat

VARIABLES
  argv, argi, config,
  input,           \* the trees as the scans saw them
  pending, report, tally, failed, result,    \* of Comparison
  stats,
  detail,          \* the file at output_path, open for writing or not
  out,             \* stdout
  todo,            \* lines of the text being written that are still to come
  pc, rc, exit, faults

optionVars == <<argv, argi, config>>
compareVars == <<input, pending, report, tally, failed, result>>
streamVars == <<detail, out, todo>>
vars == <<optionVars, compareVars, stats, streamVars, pc, rc, exit, faults>>

Compare == INSTANCE Comparison

NoExit == -1
OldReport == <<[line |-> "old report"]>>

TypeOK ==
  /\ argi \in 1 .. Len(argv) + 1
  /\ config.thread_count \in Nat \ {0}
  /\ pc \in {"args", "init", "scan_a", "scan_b", "compare", "stats",
             "open", "report", "close", "summary", "cleanup", "exit"}
  /\ rc \in {"OK", "ERROR"}
  /\ exit \in {NoExit, 0, 1, 2}
  /\ (exit # NoExit) <=> (pc = "exit")
  /\ Len(detail.held) <= BufferSize
  /\ Len(out.held) <= BufferSize
  /\ faults \in 0 .. MaxFaults

Init ==
  /\ argv \in {CommandLine(options) : options \in OptionLists} \cup BadArgvs
  /\ argi = 1
  /\ config = [root_a |-> "", root_b |-> "", thread_count |-> Cores,
               include_lines |-> FALSE, include_unchanged |-> TRUE,
               output_path |-> "verdiff_report.txt"]
  /\ input = [index_a |-> <<>>, index_b |-> <<>>, equal |-> {}, lines |-> {},
              include_unchanged |-> TRUE]
  /\ pending = {}
  /\ report = {}
  /\ tally = [c \in Compare!ChangeType |-> 0]
  /\ failed = FALSE
  /\ result = "running"
  /\ stats = [total_files_scanned |-> 0]
  /\ detail = Stream(OldReport)
  /\ out = Stream(<<>>)
  /\ todo = <<>>
  /\ pc = "args"
  /\ rc = "OK"
  /\ exit = NoExit
  /\ faults = 0

Fault ==
  /\ faults < MaxFaults
  /\ faults' = faults + 1

Goes(from, to) ==
  /\ pc = from
  /\ pc' = to

Exits(code) ==
  /\ pc' = "exit"
  /\ exit' = code

----------------------------------------------------------------------------
(* The command line *)

\* An option at argi, with its argument if it takes one.
At(names) == pc = "args" /\ argi <= Len(argv) /\ argv[argi] \in names
HasArgument == argi + 1 <= Len(argv)

AfterArgs == <<compareVars, stats, streamVars, rc, faults>>

\* --help and --version end the program at once.
Informs ==
  /\ At(InfoOption)
  /\ Exits(0)
  /\ UNCHANGED <<optionVars, AfterArgs>>

Flag ==
  /\ At(FlagOption)
  /\ config' = IF argv[argi] = "--lines"
               THEN [config EXCEPT !.include_lines = TRUE]
               ELSE [config EXCEPT !.include_unchanged = FALSE]
  /\ argi' = argi + 1
  /\ UNCHANGED <<argv, pc, exit, AfterArgs>>

\* A broken variant: the argument is not skipped.
NextAfterArgumentStuck == argi + 1

NextAfterArgument == argi + 2

\* A broken variant: any number will do.
AnyThreadCount(number) == TRUE

IsThreadCount(number) == number # 0

Threads ==
  /\ At(ThreadOption)
  /\ HasArgument
  /\ IsThreadCount(Number[argv[argi + 1]])
  /\ config' = [config EXCEPT !.thread_count = Number[argv[argi + 1]]]
  /\ argi' = NextAfterArgument
  /\ UNCHANGED <<argv, pc, exit, AfterArgs>>

OutputFile ==
  /\ At({"-o"})
  /\ HasArgument
  /\ config' = [config EXCEPT !.output_path = argv[argi + 1]]
  /\ argi' = NextAfterArgument
  /\ UNCHANGED <<argv, pc, exit, AfterArgs>>

\* An argument is missing, or is no number of threads.
BadOption ==
  /\ At(ThreadOption \cup {"-o"})
  /\ HasArgument => argv[argi] # "-o" /\ ~IsThreadCount(Number[argv[argi + 1]])
  /\ Exits(2)
  /\ UNCHANGED <<optionVars, AfterArgs>>

\* The rest has to be the two directories.
Directories ==
  /\ pc = "args"
  /\ argi <= Len(argv) => argv[argi] \notin ConfigOption \cup InfoOption
  /\ IF Len(argv) - argi = 1
     THEN /\ config' = [config EXCEPT !.root_a = argv[argi],
                                      !.root_b = argv[argi + 1]]
          /\ pc' = "init"
          /\ UNCHANGED exit
     ELSE /\ Exits(2)
          /\ UNCHANGED config
  /\ UNCHANGED <<argv, argi, AfterArgs>>

----------------------------------------------------------------------------
(* The phases *)

\* Indexes, result set and progress display are set up.
Setup ==
  /\ Goes("init", "scan_a")
  /\ UNCHANGED <<optionVars, compareVars, stats, streamVars, rc, exit, faults>>

\* The first directory: with the second it makes the trees of this run.
ScanA ==
  /\ Goes("scan_a", "scan_b")
  /\ \E trees \in Inputs :
       input' = [index_a |-> trees.index_a, index_b |-> trees.index_b,
                 equal |-> trees.equal,
                 lines |-> IF config.include_lines THEN trees.lines ELSE {},
                 include_unchanged |-> config.include_unchanged]
  /\ UNCHANGED <<optionVars, pending, report, tally, failed, result, stats,
                 streamVars, rc, exit, faults>>

ScanB ==
  /\ Goes("scan_b", "compare")
  /\ pending' = Compare!AllPaths
  /\ UNCHANGED <<optionVars, input, report, tally, failed, result, stats,
                 streamVars, rc, exit, faults>>

\* An object that cannot be had, a scan or fopen that fails: nothing but the
\* clean-up follows.
PhaseFails ==
  /\ \/ Goes("init", "cleanup")
     \/ Goes("scan_a", "cleanup")
     \/ Goes("scan_b", "cleanup")
     \/ Goes("open", "cleanup")
  /\ Fault
  /\ rc' = "ERROR"
  /\ UNCHANGED <<optionVars, compareVars, stats, streamVars, exit>>

\* plan_and_compare.
Plan ==
  /\ pc = "compare"
  /\ Compare!Next
  /\ IF failed' /\ ~failed THEN Fault ELSE UNCHANGED faults
  /\ UNCHANGED <<optionVars, stats, streamVars, pc, rc, exit>>

\* Broken variants: its result is not looked at; both trees are added up.
RcUnlooked == "OK"
TotalOfBoth ==
  Cardinality(DOMAIN input.index_a) + Cardinality(DOMAIN input.index_b)

RcOfPlan == IF result = "success" THEN "OK" ELSE "ERROR"

TotalScanned == Cardinality(DOMAIN input.index_a) + tally["ADDED"]

Planned ==
  /\ pc = "compare"
  /\ result # "running"
  /\ rc' = RcOfPlan
  /\ IF rc' = "OK"
     THEN pc' = "open" /\ stats' = [total_files_scanned |-> TotalScanned]
     ELSE pc' = "cleanup" /\ UNCHANGED stats
  /\ UNCHANGED <<optionVars, compareVars, streamVars, exit, faults>>

\* The result set as the reports see it.
Results == [tally |-> tally, records |-> report]

\* fopen "wb" empties the file.
OpenReport ==
  /\ Goes("open", "report")
  /\ detail' = Stream(<<>>)
  /\ todo' = DetailedReport(config, stats, Results)
  /\ UNCHANGED <<optionVars, compareVars, stats, out, rc, exit, faults>>

\* The stream a text is being written to, and what it becomes.
Target == IF pc = "report" THEN detail ELSE out

TargetBecomes(stream) ==
  \/ pc = "report" /\ detail' = stream /\ UNCHANGED out
  \/ pc = "summary" /\ out' = stream /\ UNCHANGED detail

\* write_detailed_report or write_summary puts its next line.
WriteLine ==
  /\ todo # <<>>
  /\ TargetBecomes(Put(Target, Head(todo)))
  /\ todo' = Tail(todo)
  /\ UNCHANGED <<optionVars, compareVars, stats, pc, rc, exit, faults>>

\* A broken variant: a line that fails is passed over.
StopsWritingNot ==
  /\ todo' = Tail(todo)
  /\ UNCHANGED <<pc, rc>>

\* The first line that fails ends the text.
StopsWriting ==
  /\ todo' = <<>>
  /\ pc' = IF pc = "report" THEN "close" ELSE "cleanup"
  /\ rc' = "ERROR"

\* The buffer is full and only its first n lines can be written out.
WriteFails(n) ==
  /\ todo # <<>>
  /\ Len(Target.held) = BufferSize
  /\ n < BufferSize
  /\ Fault
  /\ TargetBecomes(Drained(Target, n))
  /\ StopsWriting
  /\ UNCHANGED <<optionVars, compareVars, stats, exit>>

\* The last line of a text has been put.
TextEnds ==
  /\ todo = <<>>
  /\ Goes("report", "close") \/ Goes("summary", "cleanup")
  /\ UNCHANGED <<optionVars, compareVars, stats, streamVars, rc, exit, faults>>

\* A stream is closed with n lines of its buffer written out; the others are
\* lost, which nobody asks about.
Closes(stream, n) ==
  /\ n <= Len(stream.held)
  /\ IF n < Len(stream.held) THEN Fault ELSE UNCHANGED faults

\* fclose, then the summary unless something failed.
CloseReport(n) ==
  /\ pc = "close"
  /\ Closes(detail, n)
  /\ detail' = Drained(detail, n)
  /\ IF rc = "OK"
     THEN pc' = "summary" /\ todo' = Summary(config, stats, Results)
     ELSE pc' = "cleanup" /\ UNCHANGED todo
  /\ UNCHANGED <<optionVars, compareVars, stats, out, rc, exit>>

\* Everything is released, and the return from main closes stdout.
Return(n) ==
  /\ pc = "cleanup"
  /\ Closes(out, n)
  /\ out' = Drained(out, n)
  /\ Exits(IF rc = "OK" THEN 0 ELSE 1)
  /\ UNCHANGED <<optionVars, compareVars, stats, detail, todo, rc>>

Exited == pc = "exit" /\ UNCHANGED vars

Next ==
  \/ Informs \/ Flag \/ Threads \/ OutputFile \/ BadOption \/ Directories
  \/ Setup \/ ScanA \/ ScanB \/ PhaseFails \/ Plan \/ Planned
  \/ OpenReport \/ WriteLine \/ TextEnds
  \/ \E n \in 0 .. BufferSize : WriteFails(n) \/ CloseReport(n) \/ Return(n)
  \/ Exited

Spec == Init /\ [][Next]_vars

----------------------------------------------------------------------------
(* Properties *)

\* The value of the last option with one of these names.
LastOf(options, names, default) ==
  LET given == {i \in 1 .. Len(options) : options[i].name \in names}
  IN IF given = {} THEN default
     ELSE options[CHOOSE i \in given : \A j \in given : j <= i].value

Has(options, name) == \E i \in 1 .. Len(options) : options[i].name = name

\* What a command line means.
Understood(options) ==
  [root_a |-> Dirs[1], root_b |-> Dirs[2],
   thread_count |->
     IF \E o \in ThreadOption : Has(options, o)
     THEN Number[LastOf(options, ThreadOption, "")] ELSE Cores,
   include_lines |-> Has(options, "--lines"),
   include_unchanged |-> ~Has(options, "--skip-unchanged"),
   output_path |-> LastOf(options, {"-o"}, "verdiff_report.txt")]

\* Options in any order and number, then two directories (src/main.c:16): each
\* is understood on its own, the last of a kind counts, and no argument is
\* taken for an option or an option for an argument.  A number of threads
\* that is 0 or no number at all is refused with exit code 2.  Any other command
\* line starts nothing: with --help or --version where an option may stand, and
\* nothing wrong before it, the exit code is 0, and without one it is 2.
ArgsUnderstood ==
  /\ \A options \in OptionLists :
       argv = CommandLine(options) /\ pc # "args" =>
         IF Acceptable(options) THEN exit # 2 /\ config = Understood(options)
         ELSE exit = 2
  /\ argv \in BadArgvs /\ pc # "args" =>
       exit = IF \E options \in Readings(argv) : Asks(argv, options) THEN 0 ELSE 2

\* A run that fails before every verdict is known, or is refused, leaves the
\* report of the run before as it was.
OldReportSurvives == result # "success" => detail = Stream(OldReport)

\* Not one line of a summary is written before a detailed report whose every
\* line stdio accepted; exit code 0 means that both were written, and 1 that
\* something failed.
ExitHonest ==
  /\ \/ Written(out) # <<>>
     \/ exit = 0 /\ argv \notin BadArgvs
     =>
       /\ result = "success"
       /\ Written(detail) = DetailedReport(config, stats, Results)
  /\ exit = 0 /\ argv \notin BadArgvs =>
       Written(out) = Summary(config, stats, Results)
  /\ exit = 1 => faults > 0

\* The figures agree with each other and with the table: the total, computed
\* from one index and one counter (src/main.c:144), is the number of paths of
\* either tree and the sum of the four counters, and each counter but the
\* first is the number of rows of its type, with --skip-unchanged or without.
FiguresAddUp ==
  exit = 0 /\ argv \notin BadArgvs =>
    /\ stats.total_files_scanned = Cardinality(Compare!AllPaths)
    /\ stats.total_files_scanned = tally["UNCHANGED"] + tally["MODIFIED"]
                                   + tally["ADDED"] + tally["REMOVED"]
    /\ \A type \in {"MODIFIED", "ADDED", "REMOVED"} :
         LET text == Written(detail)
         IN tally[type] = Cardinality({i \in 1 .. Len(text) :
                                         text[i].line = "row" /\ text[i].type = type})

\* README.md: exit code 0 is "success", and "The detailed report is written to"
\* the output file.  So after exit code 0 it should be there.
SuccessIsOnDisk ==
  exit = 0 /\ argv \notin BadArgvs =>
    detail.sent = DetailedReport(config, stats, Results)
=============================================================================
