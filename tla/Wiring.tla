------------------------------- MODULE Wiring -------------------------------
(***************************************************************************)
(* wire_redirects() of src/src/parse/builtin.c: which stream each node of  *)
(* a command tree reads and writes, and which one the appender of a        *)
(* sequencing operator writes.  A tree carries its redirects and, once it  *)
(* is wired, its streams.                                                  *)
(***************************************************************************)
EXTENDS CommandTree

Std(descriptor) == <<"std", descriptor>>
FileOf(n) == <<"file", n>>      \* the file node n is redirected to or from

\* A pipe is known by the node whose output it was created for.
PipeOf(n) == <<"pipe", n>>

IsPipe(stream) == stream[1] = "pipe"
IsFile(stream) == stream[1] = "file"

OperandsIn(t, n) == {m \in 1..t.size : t.father[m] = n}

\* The third argument of wire_redirects_r() for node n, given those of the nodes
\* above it: the output of the operator, or the pipe made for the node.  An
\* operator hands on the argument it was given, not the redirect it may have itself.
OutArgument(t, out, n) ==
    LET f == t.father[n] IN
    IF n = 1 THEN IF n \in t.redirect_out THEN FileOf(n) ELSE Std(1)
    ELSE IF t.type[f] = "Pipe" /\ n = Last(OperandsIn(t, f)) THEN out[f]
    ELSE PipeOf(n)

\* Mutant: the last operand reads from the first pipe.
InArgumentFromFirst(t, in, n) ==
    LET f == t.father[n]
        first == First(OperandsIn(t, f))
        own == IF n \in t.redirect_in THEN FileOf(n) ELSE Std(0)
    IN
    IF n = 1 THEN own
    ELSE IF n = first THEN in[f]
    ELSE IF t.type[f] = "Pipe" THEN PipeOf(first)
    ELSE own

\* The second argument: the input of the operator for its first operand, the
\* pipe on its left for another operand of a pipe, and the standard input of
\* the tool for another operand of a sequence.
InArgument(t, in, n) ==
    LET f == t.father[n]
        left == {m \in OperandsIn(t, f) : m < n}
        own == IF n \in t.redirect_in THEN FileOf(n) ELSE Std(0)
    IN
    IF n = 1 THEN own
    ELSE IF left = {} THEN in[f]
    ELSE IF t.type[f] = "Pipe" THEN PipeOf(Last(left))
    ELSE own

\* node->std_in.  A redirect that the parser has set stays, but on the first
\* operand of a sequence, where wire_operand_nodes() writes over it.
StdIn(t, in) ==
    [n \in 1..t.size |->
       IF /\ n \in t.redirect_in
          /\ n # 1 => ~(/\ t.type[t.father[n]] \in SequenceTypes
                        /\ n = First(OperandsIn(t, t.father[n])))
         THEN FileOf(n)
         ELSE in[n]]

\* node->std_out
StdOut(t, out) ==
    [n \in 1..t.size |-> IF n \in t.redirect_out THEN FileOf(n) ELSE out[n]]

\* wire_redirects(): the streams of the nodes and, for a sequencing operator,
\* appender->to.  appender->from is the pipe of each operand.
Wired(t) ==
    LET in[n \in 1..t.size] == InArgument(t, in, n)
        out[n \in 1..t.size] == OutArgument(t, out, n)
    IN [size |-> t.size, type |-> t.type, father |-> t.father,
        program |-> t.program,
        redirect_in |-> t.redirect_in, redirect_out |-> t.redirect_out,
        std_in |-> StdIn(t, in), std_out |-> StdOut(t, out),
        from |-> in, to |-> out]

-----------------------------------------------------------------------------
(* What a wired tree is, operator by operator.                             *)

StreamsOf(t) ==
    {Std(0), Std(1)} \cup {FileOf(n) : n \in 1..t.size}
                     \cup {PipeOf(n) : n \in 1..t.size}

IsWired(t) ==
    /\ IsTree(t)
    /\ \A n \in 1..t.size : t.type[n] # "Executable" => OperandsIn(t, n) # {}
    /\ t.std_in \in [1..t.size -> StreamsOf(t) \ {Std(1)}]
    /\ t.std_out \in [1..t.size -> StreamsOf(t) \ {Std(0)}]
    /\ t.from \in [1..t.size -> StreamsOf(t) \ {Std(1)}]
    /\ t.to \in [1..t.size -> StreamsOf(t) \ {Std(0)}]
    /\ \A n \in 1..t.size : /\ t.from[n] = InArgument(t, t.from, n)
                           /\ t.to[n] = OutArgument(t, t.to, n)
    /\ t.std_in = StdIn(t, t.from)
    /\ t.std_out = StdOut(t, t.to)

Sequencers == {n \in Nodes : tree.type[n] \in SequenceTypes}

IsSequenceOperand(m) == m # 1 /\ tree.type[tree.father[m]] \in SequenceTypes

\* The processes that are wired to write into the pipe of m, and to read it:
\* executables, and the appenders of sequencing operators.
WiredWriters(m) ==
    {n \in Executables : tree.std_out[n] = PipeOf(m)}
      \cup {n \in Sequencers : tree.to[n] = PipeOf(m)}

WiredReaders(m) ==
    {n \in Executables : tree.std_in[n] = PipeOf(m)}
      \cup {n \in Sequencers : m \in Operands(n)}
=============================================================================
