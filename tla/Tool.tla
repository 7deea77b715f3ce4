-------------------------------- MODULE Tool --------------------------------
(***************************************************************************)
(* main() of src/src/main.c: one run of the tool, from its arguments to    *)
(* its exit status.  The parser, the builtins and the printing are the     *)
(* modules extended here, step by step; the execution, which Execute       *)
(* models, and the booking of the log, which Booking models, are one step  *)
(* each.  Each argument is a sequence of words and symbols.                *)
(***************************************************************************)
EXTENDS Builtin, Report

CONSTANTS
    CommandLines,   \* the arguments the tool may be run with
    WrittenTrees,   \* what the parser is to make of some of the commands
    ExitStatuses    \* raw wait statuses of the executables

VARIABLES
    argv,           \* the arguments still to be looked at
    arguments,      \* struct Arguments
    daemon,         \* what the tool has asked of the daemon
    root_code,      \* root->result->exit_code
    exit_status     \* of the tool, Uninitialised while it runs

mainVars == <<argv, arguments, daemon, root_code, exit_status>>
vars == <<parserVars, builtinVars, reportVars, mainVars>>

ASSUME InputsAssumption ==
    /\ CommandLines \subseteq Seq(Seq(STRING))
    /\ ExitStatuses \subseteq Nat

NoTree ==
    [size |-> 0, type |-> <<>>, father |-> <<>>, program |-> <<>>,
     redirect_in |-> {}, redirect_out |-> {},
     std_in |-> <<>>, std_out |-> <<>>, from |-> <<>>, to |-> <<>>]

DEFAULT_FORMAT == "txt"
DEFAULT_LOG_OPTIONS ==
    <<"invocation_failed", "pid", "start_time", "end_time", "total_time",
      "user_cpu_time", "system_cpu_time", "exit_code">>

\* A command is <<>> if there is none, as if it were empty.
Init ==
    /\ stage = "arguments"
    /\ argv \in CommandLines
    /\ arguments = [print_help |-> FALSE, stop_daemon |-> FALSE, command |-> <<>>,
                    log_options |-> DEFAULT_LOG_OPTIONS]
    /\ format = DEFAULT_FORMAT
    /\ clock = <<<<0, 0>>, <<0, 0>>>>
    /\ daemon = "none" /\ root_code = Uninitialised /\ exit_status = Uninitialised
    /\ work = <<>> /\ nodes = <<>>
    /\ cursor = 0 /\ cds = <<>> /\ removed = {} /\ tree = NoTree
    /\ executed = {} /\ attributes = <<>> /\ agenda = <<>> /\ report = <<>>
    /\ command_subindex = 0 /\ previous_value = FALSE

Exits(status) == stage' = "exited" /\ exit_status' = status

-----------------------------------------------------------------------------
(* parse_arguments()                                                       *)

HelpOptions == {<<"-h">>, <<"--help">>}
LogOptions == {<<"-l">>, <<"--log-file">>}
OptionsOptions == {<<"-o">>, <<"--options">>}
FormatOptions == {<<"-f">>, <<"--format">>}
VerboseOptions == {<<"-v">>, <<"--verbose">>}
StopOptions == {<<"-s">>, <<"--stop-daemon">>}

NextArgumentExists == Len(argv) > 1

IsOption(arg) ==
    \/ arg \in HelpOptions \cup VerboseOptions \cup StopOptions
    \/ arg \in LogOptions \cup OptionsOptions \cup FormatOptions /\ NextArgumentExists

ParseOption ==
    /\ stage = "arguments"
    /\ argv # <<>>
    /\ LET arg == Head(argv) IN
         /\ IsOption(arg)
         /\ IF arg \in LogOptions \cup OptionsOptions \cup FormatOptions
              THEN argv' = Tail(Tail(argv)) ELSE argv' = Tail(argv)
         /\ arguments' =
              [arguments EXCEPT
                 !.print_help = @ \/ arg \in HelpOptions,
                 !.stop_daemon = @ \/ arg \in StopOptions,
                 !.log_options = IF arg \in OptionsOptions THEN argv[2] ELSE @]
         /\ format' = IF arg \in FormatOptions THEN Head(argv[2]) ELSE format
    /\ UNCHANGED <<stage, work, nodes, builtinVars, executed, clock, attributes,
                   agenda, command_subindex, previous_value, report, daemon,
                   root_code, exit_status>>

Joined(strings, separator) ==
    LET joined[i \in 1..Len(strings)] ==
          IF i = 1 THEN strings[1] ELSE joined[i - 1] \o separator \o strings[i]
    IN IF strings = <<>> THEN <<>> ELSE joined[Len(strings)]

\* concat_strings_with_spaces()
Concatenated(strings) == Joined(strings, <<Blank>>)

\* From the first argument that is no option on, all is the command.
TakeCommand ==
    /\ stage = "arguments"
    /\ argv # <<>> => ~IsOption(Head(argv))
    /\ arguments' = [arguments EXCEPT !.command = IF argv = <<>> THEN <<>>
                                                  ELSE Concatenated(argv)]
    /\ argv' = <<>>
    /\ stage' = "starting"
    /\ UNCHANGED <<work, nodes, builtinVars, reportVars, daemon, root_code,
                   exit_status>>

-----------------------------------------------------------------------------
(* main()                                                                  *)

PrintHelp ==
    /\ stage = "starting"
    /\ arguments.print_help
    /\ Exits(0)
    /\ UNCHANGED <<work, nodes, builtinVars, reportVars, argv, arguments, daemon,
                   root_code>>

\* stop_daemon(), which fails when it finds no daemon.
StopDaemon ==
    /\ stage = "starting"
    /\ ~arguments.print_help
    /\ arguments.stop_daemon
    /\ \/ daemon' = "stopped" /\ Exits(0)
       \/ daemon' = daemon /\ Exits(1)
    /\ UNCHANGED <<work, nodes, builtinVars, reportVars, argv, arguments, root_code>>

\* start_daemon(), before the command is looked at.
StartDaemon ==
    /\ stage = "starting"
    /\ ~arguments.print_help
    /\ ~arguments.stop_daemon
    /\ daemon' = "started"
    /\ \/ /\ arguments.command = <<>>
          /\ Exits(1)
          /\ UNCHANGED work
       \/ /\ arguments.command # <<>>
          /\ stage' = "parsing"
          /\ work' = <<[string |-> arguments.command, father |-> NoNode]>>
          /\ UNCHANGED exit_status
    /\ UNCHANGED <<nodes, builtinVars, reportVars, argv, arguments, root_code>>

\* create_tree_from_string()
CreateTreeFromString ==
    /\ \/ CreateNode /\ UNCHANGED builtinVars
       \/ ParsingEnds /\ StartBuiltins /\ UNCHANGED tree
       \/ ApplyBuiltin
    /\ exit_status' = IF stage' = "failed" THEN 1 ELSE exit_status
    /\ UNCHANGED <<reportVars, argv, arguments, daemon, root_code>>

\* Mutant: an operator ends with the status of its last operand, run or not.
OutcomeOfLast(status) ==
    LET code[n \in Nodes] ==
          CASE tree.type[n] = "Executable" -> status[n]
            [] tree.type[n] # "Executable" /\ Operands(n) = {} -> Uninitialised
            [] OTHER -> code[Last(Operands(n))]
    IN code

\* What handle_operands_node_execution_completed() finds once each executable
\* has ended with its status.  An operator without operands never ends.
Outcome(status) ==
    LET code[n \in Nodes] ==
          LET ops == Operands(n)
              stops == {m \in ops :
                          \/ code[m] = Uninitialised /\ tree.type[n] # "Pipe"
                          \/ tree.type[n] = "And" /\ ~ExitedCorrectly(code[m])
                          \/ tree.type[n] = "Or" /\ ExitedCorrectly(code[m])}
              decides == code[IF stops = {} THEN Last(ops) ELSE First(stops)]
          IN CASE tree.type[n] = "Executable" -> status[n]
               [] tree.type[n] # "Executable" /\ ops = {} -> Uninitialised
               [] tree.type[n] # "Executable" /\ ops # {} ->
                    IF tree.type[n] \in {"And", "Or"} /\ ExitedCorrectly(decides)
                      THEN Exit(0) ELSE decides
    IN code

\* The nodes execute_async() is called with.
Due(status) ==
    LET code == Outcome(status)
        due[n \in Nodes] ==
          \/ n = 1
          \/ /\ due[tree.father[n]]
             /\ \A m \in EarlierOperands(tree.father[n], n) :
                  CASE tree.type[tree.father[n]] = "Pipe" -> TRUE
                    [] tree.type[tree.father[n]] = "And" ->
                         code[m] # Uninitialised /\ ExitedCorrectly(code[m])
                    [] tree.type[tree.father[n]] = "Or" ->
                         code[m] # Uninitialised /\ ~ExitedCorrectly(code[m])
                    [] tree.type[tree.father[n]] = "Semicolon" ->
                         code[m] # Uninitialised
    IN {n \in Nodes : due[n]}

\* execute(), book_and_obtain_log_fd() and the start of print_results().  The
\* first two may end the tool, and an unknown format is only found by the third.
Run ==
    /\ stage = "executing"
    /\ \E status \in [Executables -> ExitStatuses] :
         /\ executed' = Due(status) \cap Executables
         /\ root_code' = Outcome(status)[1]
    /\ clock' \in Clocks
    /\ \/ /\ Exits(1)
          /\ UNCHANGED <<attributes, agenda, command_subindex, previous_value>>
       \/ /\ format \in Formats
          /\ stage' = "printing"
          /\ StartReport(arguments.log_options)
          /\ UNCHANGED exit_status
    /\ UNCHANGED <<work, nodes, builtinVars, format, report, argv, arguments, daemon>>

PrintResults ==
    /\ stage = "printing"
    /\ Printing
    /\ UNCHANGED <<parserVars, builtinVars, mainVars>>

\* return command_tree->result->exit_code, of which exit() keeps eight bits.
Return ==
    /\ stage = "printing"
    /\ agenda = <<>>
    /\ \E garbage \in {0, 1} :
         Exits(IF root_code = Uninitialised THEN garbage ELSE root_code % 256)
    /\ UNCHANGED <<work, nodes, builtinVars, reportVars, argv, arguments, daemon,
                   root_code>>

Next ==
    \/ ParseOption
    \/ TakeCommand
    \/ PrintHelp
    \/ StopDaemon
    \/ StartDaemon
    \/ CreateTreeFromString
    \/ Run
    \/ PrintResults
    \/ Return

Spec == Init /\ [][Next]_vars

-----------------------------------------------------------------------------
(* Properties.                                                             *)

Stages ==
    {"arguments", "starting", "parsing", "builtins", "executing", "printing",
     "failed", "crashed", "exited"}

\* The tool is in a known stage with a record of its arguments, its streams are
\* wired once it executes, and it has an exit status of eight bits when it ends.
TypeOK ==
    /\ stage \in Stages
    /\ arguments.print_help \in BOOLEAN /\ arguments.stop_daemon \in BOOLEAN
    /\ \A n \in Created : nodes[n].type \in NodeTypes /\ nodes[n].father \in 0..(n - 1)
    /\ executed \subseteq Executables
    /\ attributes \in Seq(Attributes)
    /\ exit_status \in {Uninitialised} \cup 0..255
    /\ stage \in {"failed", "exited"} <=> exit_status # Uninitialised

Parsed == stage = "builtins" /\ cursor = 1
Finished == stage = "exited" /\ report # <<>>

\* A tree in the form of a command: a blank around every operator, brackets around
\* every operand that is an operator, a redirect of the whole at the end.
Rendered(ns) ==
    LET text[n \in 1..Len(ns)] ==
          IF ns[n].type = "Executable" THEN Joined(ns[n].argv, <<Blank>>)
          ELSE LET ops == Ascending({m \in 1..Len(ns) : ns[m].father = n})
                   operand(m) == IF ns[m].type = "Executable" THEN text[m]
                                 ELSE <<"(", Blank>> \o text[m] \o <<Blank, ")">>
               IN Joined([i \in 1..Len(ops) |-> operand(ops[i])],
                         <<Blank, Separator[ns[n].type], Blank>>)
        redirect(r) == IF r = NoFile THEN <<>> ELSE <<Blank, r[1], Blank, r[2]>>
    IN text[1] \o redirect(ns[1].in) \o redirect(ns[1].out)

\* create_tree_from_string() makes of a command that is written in full the tree
\* it was written from.
ParsesBack ==
    Parsed =>
      \A ns \in WrittenTrees : arguments.command = Rendered(ns) => nodes = ns

\* split_string() drops what is between two pipes that are one character apart.
NothingSqueezed(s) ==
    ~\E i \in 1..(Len(s) - 2) : s[i] = "|" /\ s[i + 2] = "|" /\ s[i + 1] \in OneCharacter

\* What s has at some of its places, in order.
AtPlaces(s, places) ==
    [k \in 1..Cardinality(places) |-> s[Ascending(places)[k]]]

WordsOf(s) == AtPlaces(s, {i \in 1..Len(s) : s[i] \in Words})

\* The words of a command without redirects become the arguments of its
\* executables, each once and in order, whatever the operators, the brackets and
\* the quotes between them.
WordsKept ==
    /\ Parsed
    /\ \A i \in 1..Len(arguments.command) : arguments.command[i] \notin Redirects
    /\ NothingSqueezed(arguments.command)
    => WordsOf(Joined([n \in Created |-> Joined(nodes[n].argv, <<>>)], <<>>))
         = WordsOf(arguments.command)

\* What is left once apply_cd_builtin() has removed nodes is a tree that execute()
\* takes for granted, in which a pipe still has two operands, and each of its nodes
\* has streams it can use: what Execute and Plumbing assume of their trees.
BuiltTreeIsTree ==
    stage = "executing" =>
      /\ IsTree(tree)
      /\ (\A n \in Nodes \ Executables : Operands(n) # {}) => IsWired(tree)

\* The process that writes the output of n: the last command of a pipe, the
\* appender of a sequence.
OutputOf(n) ==
    LET output[m \in Nodes] ==
          IF tree.type[m] = "Pipe" THEN output[Last(Operands(m))] ELSE m
    IN output[n]

\* The executables that read the input of n: none if every operand was a cd.
InputOf(n) ==
    LET input[m \in Nodes] ==
          CASE tree.type[m] = "Executable" -> {m}
            [] tree.type[m] # "Executable" /\ Operands(m) = {} -> {}
            [] OTHER -> input[First(Operands(m))]
    IN input[n]

NextOperand(n) == First(LaterOperands(tree.father[n], n))

\* wire_redirects(): between two operands of a pipe, and between an operand of a
\* sequence and its appender, runs one pipe with one writer and one reader, unless
\* the command at that end has a redirect.  The ends of the whole command have its
\* redirects or, if it has none, the streams of the tool.
StreamsAsAsked ==
    LET redirected(m) == tree.type[m] = "Executable" /\ m \in tree.redirect_out
        writes(m) == IF m \in Executables THEN tree.std_out[m] ELSE tree.to[m]
        whole(redirects, descriptor) ==
          IF 1 \in redirects THEN FileOf(1) ELSE Std(descriptor)
    IN stage = "executing" =>
      /\ redirected(OutputOf(1)) \/ writes(OutputOf(1)) = whole(tree.redirect_out, 1)
      /\ \A m \in InputOf(1) \ tree.redirect_in :
           tree.std_in[m] = whole(tree.redirect_in, 0)
      /\ \A n \in Nodes \ {1} :
        LET father == tree.father[n]
            piped == tree.type[father] = "Pipe"
            readers == IF piped THEN InputOf(NextOperand(n)) ELSE {father}
        IN \/ piped /\ n = Last(Operands(father))
           \/ /\ WiredWriters(n) = {m \in {OutputOf(n)} : ~redirected(m)}
              /\ WiredReaders(n) \subseteq readers
              /\ readers \ WiredReaders(n) \subseteq tree.redirect_in

Evaluated(started, status) ==
    INSTANCE Evaluation WITH Statuses <- ExitStatuses, returned <- TRUE,
                             exit_code <- root_code

\* Outcome and Due, which stand for a whole execution here, are what Evaluation
\* arrives at, which Execute implements: once the commands that are due have ended
\* no other is, and the root has that status.
AsEvaluated ==
    /\ stage = "executing"
    /\ \A n \in Nodes \ Executables : Operands(n) # {}
    => \A status \in [Executables -> ExitStatuses] :
         LET due == Due(status) \cap Executables
             ended == [n \in Executables |-> IF n \in due THEN status[n]
                                            ELSE Uninitialised]
         IN /\ Evaluated(due, ended)!Due = due
            /\ Evaluated(due, ended)!Value[1] = Outcome(status)[1]

RowsOf(s) == AtPlaces(s, {i \in 1..Len(s) : s[i].kind = "executable"})

\* The attributes of n, which were printed for it.
ValuesOf(s, n) ==
    AtPlaces(s, {i \in 1..Len(s) : /\ s[i].kind = "value" /\ s[i].node = n
                                   /\ s[i].what[1] \in Attributes})

\* The report has every executable once, in the order of the command, numbered
\* from 1 where it is numbered, with each attribute that was asked for and exists,
\* in the order asked, if the command was executed, and with none if it was not.
\* What is written for one executable is not mixed with what is for another.
ReportComplete ==
    LET rows == RowsOf(report)
        asked == AtPlaces(arguments.log_options,
                          {i \in 1..Len(arguments.log_options) :
                             arguments.log_options[i] \in Attributes})
    IN Finished =>
         /\ [i \in 1..Len(rows) |-> rows[i].node] = Ascending(Executables)
         /\ format = "txt" => \A i \in 1..Len(rows) : rows[i].what = <<i>>
         /\ \A n \in Executables :
              [i \in 1..Len(ValuesOf(report, n)) |-> ValuesOf(report, n)[i].what[1]]
                = IF n \in executed THEN asked ELSE <<>>
         /\ \A i, j \in 1..Len(report) :
              i < j /\ report[j].node # NoNode => report[i].node <= report[j].node

\* In a table each line has one value more than commas, alternating, and as many
\* columns as the header if the command was executed: previous_value survives
\* from one line to the next.
RowsMatchHeader ==
    LET ends == Ascending({i \in 0..Len(report) : i > 0 => report[i] = Newline})
        Line(k) == SubSeq(report, ends[k] + 1, ends[k + 1] - 1)
    IN Finished /\ format = "csv" =>
         \A k \in 1..(Len(ends) - 1) :
           /\ \A i \in 1..Len(Line(k)) : (Line(k)[i] = Comma) <=> (i % 2 = 0)
           /\ Len(Line(k)) = IF k = 1 \/ Line(k)[1].node \in executed
                               THEN Len(Line(1)) ELSE 1

\* In a page every <div> is closed, none is closed that is not open, and a command
\* is as deep in them as it is in the tree.
DivsNest ==
    LET open(i) == Cardinality({j \in 1..i : report[j] = Div})
                     - Cardinality({j \in 1..i : report[j] = EndDiv})
        depth[n \in Nodes] == IF n = 1 THEN 0 ELSE depth[tree.father[n]] + 1
    IN Finished /\ format = "html" =>
         /\ open(Len(report)) = 0
         /\ \A i \in 1..Len(report) :
              report[i].kind = "executable" => open(i) = 2 * depth[report[i].node] + 1
         /\ \A i \in 1..Len(report) : open(i) >= 0

\* The hours, minutes, seconds and nanoseconds of a printed total time make up the
\* time between start and end, though the nanoseconds may be negative.
PrintedTimeAddsUp ==
    \A i \in 1..Len(report) :
      /\ report[i].kind = "value"
      /\ report[i].what[1] = "total_time"
      /\ report[i].node # NoNode
      =>
        LET time == report[i].what[2]
        IN /\ ((time.h * 60 + time.m) * 60 + time.s) * NsPerSecond + time.ns
                = (clock[2][1] - clock[1][1]) * NsPerSecond + clock[2][2] - clock[1][2]
           /\ time.m \in -59..59 /\ time.s \in -59..59

\* main.c:69: "Exit with the same exit code as the root command".
ExitsAsRoot ==
    Finished /\ WIFEXITED(root_code) => exit_status = WEXITSTATUS(root_code)
=============================================================================
