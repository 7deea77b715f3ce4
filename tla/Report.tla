------------------------------- MODULE Report -------------------------------
(***************************************************************************)
(* print_results() of src/src/print_results: the traversal of the executed *)
(* tree and what the three printers write for it.  The report is the       *)
(* sequence of the pieces written: values, separators, tags and line ends. *)
(* The text of a value is left out, but for the times.                     *)
(***************************************************************************)
EXTENDS CommandTree, Sequences

CONSTANTS
    NsPerSecond,    \* nanoseconds per second, scaled down
    Clocks          \* <<start, end>>: pairs of <<seconds, nanoseconds>>

VARIABLES
    executed,           \* nodes whose result is not NULL
    clock,              \* the start and end times of the executables
    format,             \* the argument of -f
    attributes,         \* context->attributes
    agenda,             \* calls of printer functions still to be made
    command_subindex,   \* the counter of the same name in the context
    previous_value,     \* csv.c: the current line already has a value
    report              \* what was written so far

reportVars == <<executed, clock, format, attributes, agenda, command_subindex,
                previous_value, report>>

ASSUME ClocksAssumption ==
    /\ NsPerSecond \in Nat \ {0}
    /\ Clocks \subseteq (Nat \X (0..(NsPerSecond - 1))) \X (Nat \X (0..(NsPerSecond - 1)))

\* The keywords of printer.c.
Attributes ==
    {"pid", "exit_code", "invocation_failed", "start_time", "end_time", "total_time",
     "user_cpu_time", "system_cpu_time", "maximum_resident_set_size"}

Formats == {"txt", "csv", "html"}

\* Mutant: an INVALID_ATTRIBUTE is kept as well.
AllAttributes(options) == options

\* parse_attributes(): what is not a keyword is dropped, silently.
ParsedAttributes(options) ==
    LET valid == Ascending({i \in 1..Len(options) : options[i] \in Attributes})
    IN [k \in 1..Len(valid) |-> options[valid[k]]]

-----------------------------------------------------------------------------
(* Times.                                                                  *)

\* Division in C truncates.
Quotient(a, b) == IF a >= 0 THEN a \div b ELSE -((-a) \div b)

\* Mutant: a borrow of a whole minute.
TotalBorrowingMinute(start, end) ==
    IF end[2] < start[2]
      THEN <<end[1] - start[1] - 60, end[2] - start[2] + NsPerSecond>>
      ELSE <<end[1] - start[1], end[2] - start[2]>>

\* get_total_clock_time(): no borrow.
TotalClockTime(start, end) == <<end[1] - start[1], end[2] - start[2]>>

\* print_timespec()
Printed(time) ==
    LET h == Quotient(time[1], 60 * 60)
        m == Quotient(time[1] - h * 60 * 60, 60)
        s == time[1] - h * 60 * 60 - m * 60
    IN [h |-> h, m |-> m, s |-> s, ns |-> time[2]]

-----------------------------------------------------------------------------
(* What the printers write.                                                *)

\* A piece of a report; what is a tuple, whose first component says what it is.
Value(n, what) == [kind |-> "value", node |-> n, what |-> what]
Row(n) == [kind |-> "executable", node |-> n, what |-> <<command_subindex>>]
Mark(what) == [kind |-> "mark", node |-> NoNode, what |-> <<what>>]

Comma == Mark(",")
Newline == Mark("\n")
Div == Mark("<div>")
EndDiv == Mark("</div>")

Call(f, n) == [call |-> f, node |-> n, attribute |-> "none"]

\* Mutant: the attributes are printed whether there is a result or not.
CallsWithoutResult(n) ==
    <<Call("executable_head", n)>>
      \o [i \in 1..Len(attributes) |->
            [call |-> "attribute", node |-> n, attribute |-> attributes[i]]]
      \o <<Call("executable_foot", n)>>

\* The calls of print_executable_node() for n, in order.
ExecutableCalls(n) ==
    <<Call("executable_head", n)>>
      \o (IF n \in executed
            THEN [i \in 1..Len(attributes) |->
                    [call |-> "attribute", node |-> n, attribute |-> attributes[i]]]
            ELSE <<>>)
      \o <<Call("executable_foot", n)>>

\* The calls of print_results_rec() for n.
OperandCalls(n) ==
    <<Call("enter_operand_node", n)>>
      \o [i \in 1..Cardinality(Operands(n)) |->
            Call("node", Ascending(Operands(n))[i])]
      \o <<Call("exit_operand_node", n)>>

\* separate_argument(), then the value.
CsvValue(value) == (IF previous_value THEN <<Comma>> ELSE <<>>) \o <<value>>

\* The header of the table: the names of the attributes, all in one line.
CsvHead ==
    LET names == <<Value(NoNode, <<"executable_name">>)>>
                   \o [i \in 1..Len(attributes) |-> Value(NoNode, <<attributes[i]>>)]
    IN [i \in 1..(2 * Len(names) - 1) |->
          IF i % 2 = 1 THEN names[(i + 1) \div 2] ELSE Comma] \o <<Newline>>

\* print_results(): my_fdopen(), parse_attributes(), get_printer_by_format_name()
\* and the head.
StartReport(options) ==
    /\ attributes' = ParsedAttributes(options)
    /\ command_subindex' = 1
    /\ agenda' = <<Call("head", NoNode), Call("node", 1), Call("foot", NoNode)>>
    /\ previous_value' = FALSE

PrintNode ==
    LET n == Head(agenda).node IN
    /\ Head(agenda).call = "node"
    /\ agenda' = (IF tree.type[n] = "Executable" THEN ExecutableCalls(n)
                  ELSE OperandCalls(n)) \o Tail(agenda)
    /\ UNCHANGED <<report, command_subindex, previous_value>>

PrintHead ==
    /\ Head(agenda).call = "head"
    /\ report' = IF format = "csv" THEN report \o CsvHead ELSE report
    /\ agenda' = Tail(agenda)
    /\ UNCHANGED <<command_subindex, previous_value>>

\* Mutant: one level of <div> is opened for an operator.
EnterWithOneDiv ==
    /\ Head(agenda).call = "enter_operand_node"
    /\ report' = IF format = "html" THEN report \o <<Div>> ELSE report
    /\ agenda' = Tail(agenda)
    /\ UNCHANGED <<command_subindex, previous_value>>

EnterOperandNode ==
    /\ Head(agenda).call = "enter_operand_node"
    /\ report' = IF format = "html" THEN report \o <<Div, Div>> ELSE report
    /\ agenda' = Tail(agenda)
    /\ UNCHANGED <<command_subindex, previous_value>>

ExitOperandNode ==
    /\ Head(agenda).call = "exit_operand_node"
    /\ report' = IF format = "html" THEN report \o <<EndDiv, EndDiv>> ELSE report
    /\ agenda' = Tail(agenda)
    /\ UNCHANGED <<command_subindex, previous_value>>

\* executable_head() and executed_to_string() of each printer.
TxtExecutableHead(n) ==
    /\ report' = report \o <<Row(n), Newline>>
    /\ command_subindex' = command_subindex + 1
    /\ UNCHANGED previous_value

CsvExecutableHead(n) ==
    /\ report' = report \o CsvValue(Row(n))
    /\ previous_value' = TRUE
    /\ UNCHANGED command_subindex

HtmlExecutableHead(n) ==
    /\ report' = report \o <<Div, Row(n), Div, Value(n, <<"arguments">>), EndDiv>>
                        \o <<Div, Value(n, <<"executed", n \in executed>>), EndDiv>>
    /\ UNCHANGED <<command_subindex, previous_value>>

ExecutableHead ==
    /\ Head(agenda).call = "executable_head"
    /\ \/ format = "txt" /\ TxtExecutableHead(Head(agenda).node)
       \/ format = "csv" /\ CsvExecutableHead(Head(agenda).node)
       \/ format = "html" /\ HtmlExecutableHead(Head(agenda).node)
    /\ agenda' = Tail(agenda)

AttributeValue(n, attribute) ==
    Value(n, IF attribute = "total_time"
               THEN <<attribute, Printed(TotalClockTime(clock[1], clock[2]))>>
               ELSE <<attribute>>)

\* pid_to_string(), exit_code_to_string(), ... of each printer.
TxtAttribute(value) ==
    /\ report' = report \o <<value, Newline>>
    /\ UNCHANGED previous_value

CsvAttribute(value) ==
    /\ report' = report \o CsvValue(value)
    /\ previous_value' = TRUE

HtmlAttribute(value) ==
    /\ report' = report \o (IF value.what[1] = "invocation_failed"
                              THEN <<Div, value, EndDiv>> ELSE <<value>>)
    /\ UNCHANGED previous_value

PrintAttribute ==
    LET value == AttributeValue(Head(agenda).node, Head(agenda).attribute) IN
    /\ Head(agenda).call = "attribute"
    /\ \/ format = "txt" /\ TxtAttribute(value)
       \/ format = "csv" /\ CsvAttribute(value)
       \/ format = "html" /\ HtmlAttribute(value)
    /\ agenda' = Tail(agenda)
    /\ UNCHANGED command_subindex

\* Mutant: csv_executable_foot() leaves previous_value as it is.
FootKeepingPrevious ==
    /\ Head(agenda).call = "executable_foot"
    /\ report' = report \o (IF format = "html" THEN <<EndDiv>> ELSE <<Newline>>)
    /\ agenda' = Tail(agenda)
    /\ UNCHANGED <<previous_value, command_subindex>>

ExecutableFoot ==
    /\ Head(agenda).call = "executable_foot"
    /\ report' = report \o (IF format = "html" THEN <<EndDiv>> ELSE <<Newline>>)
    /\ previous_value' = IF format = "csv" THEN FALSE ELSE previous_value
    /\ agenda' = Tail(agenda)
    /\ UNCHANGED command_subindex

PrintFoot ==
    /\ Head(agenda).call = "foot"
    /\ report' = IF format = "txt" THEN report \o <<Newline, Newline, Newline>>
                 ELSE report
    /\ agenda' = Tail(agenda)
    /\ UNCHANGED <<command_subindex, previous_value>>

Printing ==
    /\ agenda # <<>>
    /\ \/ PrintHead
       \/ PrintNode
       \/ EnterOperandNode
       \/ ExitOperandNode
       \/ ExecutableHead
       \/ PrintAttribute
       \/ ExecutableFoot
       \/ PrintFoot
    /\ UNCHANGED <<executed, clock, format, attributes>>
=============================================================================
