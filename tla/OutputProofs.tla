---------------------------- MODULE OutputProofs ----------------------------
(***************************************************************************)
(* What reaches a file or the terminal in Plumbing, for every wired tree   *)
(* and every table of descriptors that is large enough for it: it is in    *)
(* the order of the command line, and nothing of it is lost.               *)
(***************************************************************************)
EXTENDS PlumbingProofs

\* The file a stream that is no pipe stands for.
FileIndex(stream) == IF IsFile(stream) THEN stream[2] ELSE Tool

EndOf(stream) ==
    IF IsPipe(stream) THEN WriteEnd(stream[2]) ELSE Output(FileIndex(stream))

\* The end an executable reads.
InputOf(stream) ==
    IF IsPipe(stream) THEN ReadEnd(stream[2]) ELSE Input(FileIndex(stream))

-----------------------------------------------------------------------------
(* The way of an output through the tree.                                  *)

\* OutArgument(), node by node: an output is the operator's, or a new pipe.
LEMMA OutputRules ==
    ASSUME IsWired(tree), NEW n \in Nodes
    PROVE  /\ n = 1 => ~IsPipe(tree.to[n])
           /\ n # 1 => /\ tree.father[n] \in Nodes /\ tree.father[n] < n
                       /\ \/ tree.to[n] = PipeOf(n)
                          \/ /\ tree.type[tree.father[n]] = "Pipe"
                             /\ n = Last(Operands(tree.father[n]))
                             /\ tree.to[n] = tree.to[tree.father[n]]
           /\ IsSequenceOperand(n) => tree.to[n] = PipeOf(n)
           /\ tree.std_out[n] = tree.to[n] \/ tree.std_out[n] = FileOf(n)
           /\ tree.to[1] = FileOf(1) \/ tree.to[1] = Std(1)
<1> DEFINE f == tree.father[n]
<1>1. /\ IsTree(tree) /\ n \in 1..tree.size /\ tree.size \in Nat /\ 1 \in Nodes
      /\ \A k \in Nodes : tree.father[k] \in Nodes => tree.father[k] < k
  BY NodeFacts, FatherIsLess DEF IsTree, Nodes
<1>2. n # 1 => f \in Nodes
  BY <1>1 DEF IsTree, Nodes
<1>3. tree.to[1] = FileOf(1) \/ tree.to[1] = Std(1)
  <2>1. tree.to[1] = OutArgument(tree, tree.to, 1)
    BY <1>1 DEF IsWired, Nodes
  <2> QED BY <2>1 DEF OutArgument
<1>4. n # 1 => \/ tree.to[n] = PipeOf(n)
               \/ /\ tree.type[f] = "Pipe" /\ n = Last(Operands(f))
                  /\ tree.to[n] = tree.to[f]
  <2>1. tree.to[n] = OutArgument(tree, tree.to, n)
    BY <1>1 DEF IsWired
  <2>2. OperandsIn(tree, f) = Operands(f)
    BY DEF OperandsIn, Operands, Nodes
  <2> QED BY <2>1, <2>2 DEF OutArgument
<1>5. IsSequenceOperand(n) => n # 1 /\ tree.type[f] # "Pipe"
  BY DEF IsSequenceOperand, SequenceTypes
<1>6. tree.std_out[n] = tree.to[n] \/ tree.std_out[n] = FileOf(n)
  <2>1. tree.std_out = StdOut(tree, tree.to)
    BY DEF IsWired
  <2> QED BY <1>1, <2>1 DEF StdOut
<1> QED BY <1>1, <1>2, <1>3, <1>4, <1>5, <1>6, StreamFacts

\* An output passes the nodes above the one that makes it by pipes of which it is the
\* last operand, up to the node that a pipe was made for.
LEMMA OutputRoute ==
    ASSUME IsWired(tree), NEW n \in Nodes, NEW k \in Nodes, Under(k, n)
    PROVE  \/ tree.to[k] = tree.to[n] /\ (k = n \/ tree.type[k] = "Pipe")
           \/ \E p \in Nodes : p # k /\ tree.to[n] = PipeOf(p) /\ Under(k, p)
<1>tree. IsTree(tree) /\ Nodes \subseteq Nat /\ 1 \in Nodes
  BY NodeFacts
<1>1. SUFFICES ASSUME \A p \in Nodes : ~(p # k /\ tree.to[n] = PipeOf(p) /\ Under(k, p))
               PROVE  tree.to[k] = tree.to[n] /\ (k = n \/ tree.type[k] = "Pipe")
  OBVIOUS
<1> DEFINE D == {j \in Nodes : /\ Under(k, j) /\ tree.to[j] = tree.to[n]
                               /\ j = n \/ tree.type[j] = "Pipe"}
<1>2. ASSUME NEW j \in D, j # k PROVE \E i \in D : i < j
  <2>1. j # 1
    <3>1. SUFFICES ASSUME j = 1 PROVE FALSE
      OBVIOUS
    <3>2. Under(1, k) /\ Under(k, 1)
      BY <1>tree, <3>1, UnderRoot
    <3> QED BY <1>tree, <1>2, <3>1, <3>2, UnderBoth
  <2>2. tree.to[j] # PipeOf(j)
    BY <1>1, <1>2
  <2>3. /\ tree.father[j] \in Nodes /\ tree.father[j] < j
        /\ tree.type[tree.father[j]] = "Pipe" /\ tree.to[tree.father[j]] = tree.to[j]
    BY <2>1, <2>2, OutputRules
  <2>4. Under(k, tree.father[j])
    BY <1>tree, <1>2, FatherUnder
  <2> QED BY <2>3, <2>4
<1>3. D \in SUBSET Nat /\ n \in D
  BY <1>tree
<1> HIDE DEF D
<1>4. k \in D
  BY <1>2, <1>3, Descent
<1> QED BY <1>4 DEF D

\* An output that is no pipe is that of the root.
LEMMA RootOutput ==
    ASSUME IsWired(tree), NEW n \in Nodes, ~IsPipe(tree.to[n])
    PROVE  tree.to[n] = tree.to[1]
<1>1. Under(1, n) /\ 1 \in Nodes
  BY NodeFacts, UnderRoot
<1> QED BY <1>1, OutputRoute, StreamFacts

\* Two processes never write the same stream.
LEMMA OneWorker ==
    ASSUME IsWired(tree), NEW a \in Workers, NEW b \in Workers,
           OutStream(a) = OutStream(b)
    PROVE  a = b
<1>tree. /\ IsTree(tree) /\ Nodes \subseteq Nat /\ 1 \in Nodes
         /\ a \in Nodes /\ b \in Nodes
         /\ tree.type[a] # "Pipe" /\ tree.type[b] # "Pipe"
         /\ Executables \cap Sequencers = {}
  BY NodeFacts DEF Workers
<1> DEFINE s == OutStream(a)
<1>s. s = OutStream(a) /\ s = OutStream(b)
  OBVIOUS
<1> HIDE DEF s
<1>1. ASSUME NEW m, s = PipeOf(m) PROVE a = b
  <2>1. a \in WiredWriters(m) /\ b \in WiredWriters(m)
    BY <1>s, <1>1 DEF OutStream, WiredWriters, Workers
  <2> QED BY <2>1, OneWriter
<1>2. ASSUME NEW x \in Workers, NEW y \in Workers, x \in Executables, s = FileOf(x),
             OutStream(y) = s
      PROVE  x = y
  <2>1. x \in Nodes /\ y \in Nodes
    BY NodeFacts DEF Workers
  <2>2. tree.to[y] = s \/ s = FileOf(y)
    BY <1>2, <2>1, OutputRules DEF OutStream
  <2>3. CASE s = FileOf(y)
    BY ZenonT(60), <1>2, <2>3, StreamFacts
  <2>4. CASE tree.to[y] = s
    <3>1. ~IsPipe(s) /\ ~(s = Std(1))
      BY <1>2, StreamFacts
    <3>2. s = FileOf(1)
      BY <2>1, <2>4, <3>1, RootOutput, OutputRules
    <3>3. x = 1
      <4>1. FileOf(x)[2] = x /\ FileOf(1)[2] = 1
        BY StreamFacts
      <4>2. FileOf(x) = FileOf(1)
        BY <1>2, <3>2
      <4> QED BY <4>1, <4>2
    <3>4. Under(x, y)
      BY <1>tree, <2>1, <3>3, UnderRoot
    <3> QED BY <1>tree, <1>2, <2>1, <3>4, UnderLeaf
  <2> QED BY <2>2, <2>3, <2>4
<1>3. CASE ~IsPipe(s) /\ tree.to[a] = s /\ tree.to[b] = s
  <2> DEFINE C == {k \in Nodes : tree.to[k] = s}
  <2>1. ASSUME NEW k \in C, k # 1
        PROVE  /\ tree.father[k] \in C /\ tree.father[k] < k
               /\ tree.type[tree.father[k]] = "Pipe"
               /\ k = Last(Operands(tree.father[k]))
    <3>1. tree.to[k] # PipeOf(k)
      BY <1>3, StreamFacts
    <3> QED BY <2>1, <3>1, OutputRules
  <2>2. C \in SUBSET Nat /\ a \in C /\ b \in C
    BY <1>tree, <1>3
  <2> HIDE DEF C
  <2>3. \A i, j \in C : i # 1 /\ j # 1 /\ tree.father[i] = tree.father[j] => i = j
    <3> SUFFICES ASSUME NEW i \in C, NEW j \in C, i # 1, j # 1,
                        tree.father[i] = tree.father[j]
                 PROVE  i = j
      OBVIOUS
    <3>1. i = Last(Operands(tree.father[i]))
      BY <2>1
    <3>2. j = Last(Operands(tree.father[j]))
      BY <2>1
    <3> QED BY <3>1, <3>2
  <2>4. IsPath(C, 1, tree.father)
    <3>1. \A k \in C : k # 1 => tree.father[k] \in C /\ tree.father[k] < k
      BY <2>1
    <3> QED BY <2>3, <3>1 DEF IsPath
  <2>5. \A x, y \in C : (\A k \in C : k # 1 => tree.father[k] # x /\ tree.father[k] # y)
                        => x = y
    BY <2>2, <2>4, PathEnd
  <2>6. \A k \in C : k # 1 => tree.father[k] # a /\ tree.father[k] # b
    BY <1>tree, <2>1
  <2> QED BY <2>2, <2>5, <2>6
<1>4. /\ tree.to[a] = s \/ (a \in Executables /\ s = FileOf(a))
      /\ tree.to[b] = s \/ (b \in Executables /\ s = FileOf(b))
  BY <1>tree, <1>s, OutputRules DEF OutStream, Workers
<1>5. s \in StreamsOf(tree)
  BY <1>tree, <1>s, WiringRules DEF OutStream
<1>6. IsPipe(s) => \E m : s = PipeOf(m)
  BY <1>5, StreamFacts
<1> QED BY <1>s, <1>1, <1>2, <1>3, <1>4, <1>6

\* Nor the same file.
LEMMA OneFileWriter ==
    ASSUME IsWired(tree), NEW a \in Workers, NEW b \in Workers,
           ~IsPipe(OutStream(a)), ~IsPipe(OutStream(b)),
           FileIndex(OutStream(a)) = FileIndex(OutStream(b))
    PROVE  a = b
<1>1. ASSUME NEW n \in Workers, ~IsPipe(OutStream(n))
      PROVE  \/ OutStream(n) = Std(1) /\ FileIndex(OutStream(n)) = Tool
             \/ /\ FileIndex(OutStream(n)) \in Nodes
                /\ OutStream(n) = FileOf(FileIndex(OutStream(n)))
  <2>1. n \in Nodes
    BY NodeFacts DEF Workers
  <2>2. OutStream(n) \in StreamsOf(tree) \ {Std(0)}
    BY <2>1 DEF OutStream, IsWired, Nodes
  <2>3. OutStream(n) = Std(1) \/ \E m \in Nodes : OutStream(n) = FileOf(m)
    BY <1>1, <2>2, StreamFacts DEF StreamsOf, Nodes
  <2> QED BY <2>3, StreamFacts DEF FileIndex
<1>2. Tool \notin Nodes
  BY NodeFacts DEF Tool, NoNode
<1>3. OutStream(a) = OutStream(b)
  BY <1>1, <1>2
<1> QED BY <1>3, OneWorker

-----------------------------------------------------------------------------
(* The invariants.                                                         *)

Within(c, chunks) == \E i \in 1..Len(chunks) : chunks[i] = c

\* A process writes where it is wired to write, and reads what it is wired to read:
\* the numbers it was forked with stand for the same ends, or are closed.
EndsInv ==
    /\ \A n \in Executables : Invoked(n) =>
         fds[n][1] \in {EndOf(tree.std_out[n]), Closed}
    /\ \A n \in Sequencers : state[n] \in {"forked", "copying"} =>
         /\ fds[n][to_fd[n]] \in {EndOf(tree.to[n]), Closed}
         /\ \A m \in Operands(n) : fds[n][ReadFd(m)] \in {ReadEnd(m), Closed}

\* A chunk is known by the executable that has written it; only an endless one can
\* write again.
Somewhere(c) ==
    \/ \E k \in Processes : Within(c, file[k])
    \/ \E k \in Nodes : Within(c, buffer[k]) \/ held[k] = c

WroteInv ==
    /\ \A c \in Nodes : Somewhere(c) => c \in wrote
    /\ \A n \in wrote :
         \/ state[n] \in {"written", "zombie", "reaped"}
         \/ state[n] = "writing" /\ tree.program[n] = "endless"

\* A chunk of the nodes under m has left them.
Out(m, c) ==
    /\ Under(m, c)
    /\ \/ \E k \in Processes : k # c /\ Within(c, file[k])
       \/ \E k \in Nodes : Within(c, buffer[k]) /\ ~Under(m, k)
       \/ \E k \in Nodes : held[k] = c /\ ~Under(m, k)

\* The appender of t, if it has one, has written the chunk.
Left(t, c) == Out(t, c) \/ (Under(t, c) /\ Within(c, buffer[t]))

\* What has come through a pipe, or into a file, was made under its only writer.
RouteInv ==
    /\ \A m, c \in Nodes : Within(c, buffer[m]) =>
         Under(m, c) /\ \A n \in WiredWriters(m) : Under(n, c)
    /\ \A m, c \in Nodes : IsSequenceOperand(m) /\ Out(m, c) =>
         \A n \in WiredWriters(m) : Under(n, c)
    /\ \A n \in Workers, c \in Nodes :
         ~IsPipe(OutStream(n)) /\ Within(c, file[FileIndex(OutStream(n))]) => Under(n, c)

\* What an appender has read belongs after all it has written.
HoldInv ==
    \A t \in Nodes : held[t] # NoNode =>
      /\ state[t] \in {"copying", "zombie"} /\ t \in Sequencers
      /\ source[t] # NoNode /\ Under(source[t], held[t])
      /\ \A c \in Nodes : Left(t, c) => Before(c, held[t])

\* What has left an operand was read by its appender, which goes from operand to
\* operand and never back.
SourceInv ==
    /\ \A t \in Nodes : source[t] # NoNode => t \in Sequencers /\ source[t] \in Operands(t)
    /\ \A m, c \in Nodes : IsSequenceOperand(m) /\ Out(m, c) =>
         /\ state[tree.father[m]] \in {"copying", "zombie"}
         /\ source[tree.father[m]] # NoNode => m <= source[tree.father[m]]

\* What is in the pipe of an operand is in order and belongs after what has left it.
BufferInv ==
    \A m \in Nodes : IsSequenceOperand(m) =>
      /\ InOrder(buffer[m])
      /\ \A c, d \in Nodes : Out(m, c) /\ Within(d, buffer[m]) => Before(c, d)

Order == WroteInv /\ RouteInv /\ HoldInv /\ SourceInv /\ BufferInv /\ OutputInOrder

-----------------------------------------------------------------------------
(* The ends.                                                               *)

\* The standard streams of an executable are those it is wired to.
LEMMA ChildStreams ==
    ASSUME Control, Memory, NEW n \in Executables, state[n] = "forked"
    PROVE  /\ InvokedTable(n)[0] \in {InputOf(tree.std_in[n]), Closed}
           /\ InvokedTable(n)[1] \in {EndOf(tree.std_out[n]), Closed}
<1> DEFINE in == tree.std_in[n]
           out == tree.std_out[n]
           t1 == IF IsFile(in) THEN Opened(fds[n], Input(in[2])) ELSE fds[n]
           t2 == IF IsFile(out) THEN Opened(t1, Output(out[2])) ELSE t1
           std_in == IF IsFile(in) THEN Lowest(fds[n])
                     ELSE IF IsPipe(in) THEN ReadFd(in[2]) ELSE 0
           std_out == IF IsFile(out) THEN Lowest(t1)
                      ELSE IF IsPipe(out) THEN WriteFd(out[2]) ELSE 1
           t3 == [t2 EXCEPT ![0] = t2[std_in], ![1] = t2[std_out]]
           shut == {std_in, std_out} \ {0, 1}
           listed == {open_appender_fds[i] : i \in 1..known[n]} \ {0, 1}
<1>tree. /\ IsWired(tree) /\ MemoryTypes /\ ChildInv
         /\ n \in Nodes /\ n \in Processes /\ Nodes \subseteq Processes
  BY NodeFacts DEF Memory, Control, ControlTypes, Processes
<1>child. /\ fds[n] \in [Fd -> Ends] /\ fds[n][0] = Input(0) /\ fds[n][1] = Output(0)
          /\ \A m \in Nodes : in = PipeOf(m) => fds[n][ReadFd(m)] = ReadEnd(m)
          /\ \A m \in Nodes : out = PipeOf(m) => fds[n][WriteFd(m)] = WriteEnd(m)
          /\ \A m \in Nodes : ReadFd(m) \in Fd /\ WriteFd(m) \in Fd
  BY <1>tree DEF ChildInv, MemoryTypes, ReadFd, WriteFd
<1>streams. /\ IsPipe(in) => in[2] \in Nodes /\ in = PipeOf(in[2])
            /\ IsPipe(out) => out[2] \in Nodes /\ out = PipeOf(out[2])
            /\ IsFile(in) => in[2] \in Nodes
            /\ IsFile(out) => out[2] \in Nodes
  BY <1>tree, WiringRules, StreamFacts
<1>1. InvokedTable(n) = WithoutFds(WithoutFds(t3, shut), listed)
  BY DEF TableWithStreams, InvokedTable
<1> HIDE DEF in, out
<1>2. PICK a \in Fd, b \in Fd : a # b /\ fds[n][a] = Closed /\ fds[n][b] = Closed
  BY <1>tree DEF ChildInv
<1>3. /\ t1 \in [Fd -> Ends] /\ \E fd \in Fd : t1[fd] = Closed
      /\ \A fd \in Fd : fds[n][fd] # Closed => t1[fd] = fds[n][fd]
      /\ std_in \in Fd /\ t1[std_in] = InputOf(in)
  <2>1. CASE IsFile(in)
    <3>1. Input(in[2]) \in Ends
      BY <1>tree, <1>streams, <2>1, EndsFacts
    <3>2. /\ Lowest(fds[n]) \in Fd /\ fds[n][Lowest(fds[n])] = Closed
          /\ Opened(fds[n], Input(in[2])) \in [Fd -> Ends]
          /\ \A fd \in Fd : Opened(fds[n], Input(in[2]))[fd] =
                              IF fd = Lowest(fds[n]) THEN Input(in[2]) ELSE fds[n][fd]
      BY <1>child, <1>2, <3>1, LowestFacts
    <3>3. t1 = Opened(fds[n], Input(in[2])) /\ std_in = Lowest(fds[n])
      BY <2>1
    <3>4. \E fd \in Fd : Opened(fds[n], Input(in[2]))[fd] = Closed
      BY <1>2, <3>2
    <3>5. InputOf(in) = Input(in[2])
      BY <2>1 DEF InputOf, FileIndex, IsPipe, IsFile
    <3> QED BY <3>2, <3>3, <3>4, <3>5
  <2>2. CASE ~IsFile(in)
    <3>1. t1 = fds[n] /\ std_in = IF IsPipe(in) THEN ReadFd(in[2]) ELSE 0
      BY <2>2
    <3>2. fds[n][std_in] = InputOf(in)
      BY <1>child, <1>streams, <2>2, <3>1 DEF InputOf, FileIndex, Tool
    <3> QED BY <1>child, <1>2, <1>streams, <3>1, <3>2, FdFacts
  <2> QED BY <2>1, <2>2
<1>keep. /\ t2 = IF IsFile(out) THEN Opened(t1, Output(out[2])) ELSE t1
         /\ std_out = IF IsFile(out) THEN Lowest(t1)
                      ELSE IF IsPipe(out) THEN WriteFd(out[2]) ELSE 1
  OBVIOUS
<1> HIDE DEF t1, std_in
<1>4. t2 \in [Fd -> Ends] /\ std_out \in Fd /\ t2[std_out] = EndOf(out)
  <2>1. CASE IsFile(out)
    <3>1. Output(out[2]) \in Ends /\ EndOf(out) = Output(out[2])
      BY <1>tree, <1>streams, <2>1, EndsFacts, StreamFacts DEF EndOf, FileIndex
    <3>2. /\ Lowest(t1) \in Fd
          /\ Opened(t1, Output(out[2])) \in [Fd -> Ends]
          /\ Opened(t1, Output(out[2]))[Lowest(t1)] = Output(out[2])
      BY <1>3, <3>1, LowestFacts
    <3>3. t2 = Opened(t1, Output(out[2])) /\ std_out = Lowest(t1)
      BY <2>1
    <3> QED BY <3>1, <3>2, <3>3
  <2>2. CASE IsPipe(out) /\ ~IsFile(out)
    <3>1. t2 = t1 /\ std_out = WriteFd(out[2]) /\ EndOf(out) = WriteEnd(out[2])
      BY <2>2 DEF EndOf
    <3>2. out[2] \in Nodes /\ fds[n][WriteFd(out[2])] = WriteEnd(out[2])
      BY <1>child, <1>streams, <2>2
    <3>3. fds[n][WriteFd(out[2])] # Closed /\ WriteFd(out[2]) \in Fd
      BY <1>child, <3>2, EndsFacts
    <3> QED BY <1>3, <3>1, <3>2, <3>3
  <2>3. CASE ~IsPipe(out) /\ ~IsFile(out)
    <3>1. t2 = t1 /\ std_out = 1 /\ EndOf(out) = Output(0)
      BY <2>3 DEF EndOf, FileIndex, Tool
    <3>2. Output(0) # Closed
      BY EndsFacts
    <3> QED BY <1>3, <1>child, <3>1, <3>2, FdFacts
  <2> QED BY <2>1, <2>2, <2>3
<1>in. t2[std_in] = InputOf(in)
  <2>1. InputOf(in) # Closed
    BY EndsFacts DEF InputOf
  <2>2. CASE IsFile(out)
    <3>1. Output(out[2]) \in Ends
      BY <1>tree, <1>streams, <2>2, EndsFacts
    <3>2. /\ t1[Lowest(t1)] = Closed
          /\ Opened(t1, Output(out[2]))[std_in] =
               IF std_in = Lowest(t1) THEN Output(out[2]) ELSE t1[std_in]
      BY <1>3, <3>1, LowestFacts
    <3> QED BY <1>3, <2>1, <2>2, <3>2
  <2>3. CASE ~IsFile(out)
    BY <1>3, <2>3
  <2> QED BY <2>2, <2>3
<1> HIDE DEF t2, std_out
<1>5. t3 \in [Fd -> Ends] /\ t3[0] = InputOf(in) /\ t3[1] = EndOf(out)
  <2>1. /\ t2 \in [Fd -> Ends] /\ 0 \in Fd /\ 1 \in Fd
        /\ t2[std_in] \in Ends /\ t2[std_out] \in Ends
    BY <1>3, <1>4, FdFacts
  <2>2. /\ t3 \in [Fd -> Ends]
        /\ t3[0] = t2[std_in] /\ t3[1] = t2[std_out]
    BY <2>1
  <2> QED BY <1>4, <1>in, <2>2
<1> HIDE DEF t3, shut, listed
<1>6. /\ WithoutFds(t3, shut) \in [Fd -> Ends]
      /\ WithoutFds(t3, shut)[0] \in {InputOf(in), Closed}
      /\ WithoutFds(t3, shut)[1] \in {EndOf(out), Closed}
  BY <1>5, WithoutFacts, FdFacts
<1>7. /\ InvokedTable(n)[0] \in {InputOf(in), Closed}
      /\ InvokedTable(n)[1] \in {EndOf(out), Closed}
  BY <1>1, <1>6, WithoutFacts, FdFacts
<1> QED BY <1>7 DEF in, out

\* A process that holds the ends it is wired to, and no other by the same numbers.
NodeEnds(n) ==
    /\ n \in Executables /\ Invoked(n) => fds[n][1] \in {EndOf(tree.std_out[n]), Closed}
    /\ n \in Sequencers /\ state[n] \in {"forked", "copying"} =>
         /\ fds[n][to_fd[n]] \in {EndOf(tree.to[n]), Closed}
         /\ \A m \in Operands(n) : fds[n][ReadFd(m)] \in {ReadEnd(m), Closed}

\* The numbers the child of fork() knows are those of the ends it is wired to.
LEMMA ForkedEnds ==
    ASSUME Control, Memory, Fork, NEW c \in Sequencers, c = current
    PROVE  /\ fds'[c][to_fd'[c]] \in {EndOf(tree.to[c]), Closed}
           /\ \A m \in Operands(c) : fds'[c][ReadFd(m)] \in {ReadEnd(m), Closed}
<1>tree. /\ IsWired(tree) /\ MemoryTypes /\ OpeningInv /\ TableInv /\ HeldInv /\ ToFdInv
         /\ ForkInv /\ c \in Nodes /\ c \in Processes /\ Sequencers \subseteq Nodes
         /\ Operands(c) \subseteq Nodes /\ c \in Workers
         /\ fds \in [Processes -> [Fd -> Ends]] /\ to_fd \in [Nodes -> Fd]
  BY NodeFacts DEF Memory, MemoryTypes, Control, ControlTypes, Processes, Workers
<1>same. /\ pc = "open" /\ opening = <<>> /\ state[c] = "none"
         /\ fds'[c] = fds[Tool]
         /\ to_fd' = IF IsPipe(tree.to[c])
                       THEN [to_fd EXCEPT ![c] = WriteFd(tree.to[c][2])] ELSE to_fd
  BY <1>tree DEF Fork, ForkInv
<1>opened. \A m \in Nodes : c \in WiredWriters(m) \/ c \in WiredReaders(m) => IsOpened(m)
  BY <1>same, <1>tree DEF OpeningInv, PipesFor
<1>1. ~Past(c)
  BY <1>same DEF Past
<1>2. ASSUME NEW m \in Operands(c) PROVE fds[Tool][ReadFd(m)] = ReadEnd(m)
  <2>1. c \in WiredReaders(m) /\ m \in Nodes
    BY <1>tree DEF WiredReaders
  <2>2. \A n \in WiredReaders(m) : n = c
    BY <1>tree, <2>1, OneReader
  <2> QED BY <1>same, <1>tree, <1>opened, <1>1, <2>1, <2>2 DEF HeldInv
<1>3. fds[Tool][to_fd'[c]] = EndOf(tree.to[c])
  <2>1. CASE IsPipe(tree.to[c])
    <3>1. PICK m \in Nodes : m = tree.to[c][2] /\ tree.to[c] = PipeOf(m)
      BY <1>tree, <2>1, WiringRules, StreamFacts
    <3>2. to_fd'[c] = WriteFd(m) /\ EndOf(tree.to[c]) = WriteEnd(m)
      BY <1>same, <1>tree, <2>1, <3>1 DEF EndOf
    <3>3. c \in WiredWriters(m)
      BY <3>1 DEF WiredWriters
    <3>4. \A n \in WiredWriters(m) : n = c
      BY <1>tree, <3>3, OneWriter
    <3> QED BY <1>same, <1>tree, <1>opened, <1>1, <3>2, <3>3, <3>4 DEF HeldInv
  <2>2. CASE IsFile(tree.to[c]) /\ ~IsPipe(tree.to[c])
    <3>1. to_fd'[c] = to_fd[c] /\ EndOf(tree.to[c]) = Output(tree.to[c][2])
      BY <1>same, <2>2 DEF EndOf, FileIndex
    <3> QED BY <1>same, <1>tree, <2>2, <3>1 DEF ToFdInv
  <2>3. CASE ~IsFile(tree.to[c]) /\ ~IsPipe(tree.to[c])
    <3>1. to_fd'[c] = 1 /\ EndOf(tree.to[c]) = Output(0)
      BY <1>same, <1>tree, <2>3 DEF EndOf, FileIndex, ToFdInv, Tool
    <3> QED BY <1>same, <1>tree, <3>1 DEF TableInv
  <2> QED BY <2>1, <2>2, <2>3
<1> QED BY <1>same, <1>2, <1>3

\* Every step leaves a process the ends it is wired to.
LEMMA EndsNext == Control /\ Memory /\ EndsInv /\ [Next]_vars => EndsInv'
<1> SUFFICES ASSUME Control, Memory, EndsInv, [Next]_vars PROVE EndsInv'
  OBVIOUS
<1>const. /\ tree' = tree /\ Nodes' = Nodes /\ Executables' = Executables
          /\ Sequencers' = Sequencers /\ Processes' = Processes
          /\ \A n : Operands(n)' = Operands(n)
  BY TreeConstant
<1>tree. /\ IsWired(tree) /\ OpenedInv /\ ForkInv /\ TodoInv
         /\ Executables \subseteq Nodes /\ Sequencers \subseteq Nodes
         /\ Executables \cap Sequencers = {}
         /\ \A n : Operands(n) \subseteq Nodes
         /\ Tool \in Processes /\ Tool \notin Nodes /\ Nodes \subseteq Processes
         /\ state \in [Nodes -> ProcessStates] /\ status \in [Nodes -> {"none", "started", "ok", "failed"}]
         /\ \A n \in Nodes : n \in Executables <=> tree.type[n] = "Executable"
         /\ \A n \in Nodes : n \in Sequencers <=> tree.type[n] \in SequenceTypes
  BY NodeFacts DEF Memory, Control, ControlTypes, EvaluationInv, Processes, Tool, NoNode,
     IsSequence
<1>types. /\ fds \in [Processes -> [Fd -> Ends]] /\ desc \in [Nodes -> Fd \X Fd]
          /\ to_fd \in [Nodes -> Fd] /\ \A m \in Nodes : ReadFd(m) \in Fd
  BY DEF Memory, MemoryTypes, ReadFd
<1>nodes. \A n \in Executables \cup Sequencers : NodeEnds(n)
  BY <1>tree DEF EndsInv, NodeEnds
<1> DEFINE Kept(n) ==
      /\ n \in Executables /\ state'[n] \in {"running", "writing", "written"} =>
           fds'[n][1] \in {EndOf(tree.std_out[n]), Closed}
      /\ n \in Sequencers /\ state'[n] \in {"forked", "copying"} =>
           /\ fds'[n][to_fd'[n]] \in {EndOf(tree.to[n]), Closed}
           /\ \A m \in Operands(n) : fds'[n][ReadFd(m)'] \in {ReadEnd(m), Closed}
<1>goal. ASSUME \A n \in Executables \cup Sequencers : Kept(n)
         PROVE  EndsInv'
  BY <1>goal, <1>const, <1>tree DEF EndsInv, Invoked, EndOf, FileIndex
\* The numbers of the pipes an appender reads are known when it is forked.
<1>opened. \A n \in Sequencers : state[n] # "none" => \A m \in Operands(n) : IsOpened(m)
  BY <1>tree DEF OpenedInv, PipesFor, WiredReaders
<1>keep. ASSUME NEW n \in Executables \cup Sequencers, fds'[n] = fds[n], to_fd'[n] = to_fd[n],
                \A m \in Nodes : IsOpened(m) => desc'[m] = desc[m],
                state'[n] \in {"running", "writing", "written"} =>
                  state[n] \in {"running", "writing", "written"},
                state'[n] \in {"forked", "copying"} => state'[n] = state[n]
         PROVE  Kept(n)
  <2>1. NodeEnds(n)
    BY <1>nodes
  <2>2. n \in Sequencers /\ state'[n] \in {"forked", "copying"} =>
          \A m \in Operands(n) : ReadFd(m)' = ReadFd(m)
    BY <1>keep, <1>opened, <1>tree DEF ReadFd
  <2> QED BY <1>keep, <2>1, <2>2 DEF NodeEnds, Invoked
<1>all. ASSUME NEW p \in Processes \ Nodes, \A k \in Processes \ {p} : fds'[k] = fds[k],
               \A n \in Executables \cup Sequencers : state[n] # "none" => to_fd'[n] = to_fd[n],
               \A m \in Nodes : IsOpened(m) => desc'[m] = desc[m],
               \A n \in Nodes : state'[n] = state[n] \/ state'[n] = "reaped"
        PROVE  EndsInv'
  <2>1. \A n \in Executables \cup Sequencers : fds'[n] = fds[n]
    BY <1>all, <1>tree
  <2> SUFFICES ASSUME NEW n \in Executables \cup Sequencers
               PROVE  Kept(n)
    BY <1>goal
  <2>2. state'[n] = state[n] \/ state'[n] = "reaped"
    BY <1>all, <1>tree
  <2>3. CASE state[n] = "none"
    BY <2>2, <2>3
  <2>4. CASE state[n] # "none"
    BY <1>all, <1>keep, <2>1, <2>2, <2>4
  <2> QED BY <2>3, <2>4
<1>1. CASE ExecuteAsync
  <2>1. UNCHANGED <<state, desc>>
    BY <1>1 DEF ExecuteAsync
  <2>2. \A k \in Processes \ {Tool} : fds'[k] = fds[k]
    BY <1>1, <1>types, <1>tree
       DEF ExecuteAsync, StartPipe, StartExecutable, StartSequence
  <2>3. ASSUME NEW n \in Executables \cup Sequencers, state[n] # "none"
        PROVE  to_fd'[n] = to_fd[n]
    <3>1. Begun(n) /\ n \in Nodes
      BY <1>tree, <2>3 DEF ForkInv
    <3>2. todo # {} /\ todo \subseteq Nodes
      BY <1>1 DEF Control, ControlTypes, ControlInv, ExecuteAsync
    <3>3. PICK k \in todo : k = First(todo)
      BY <1>tree, <3>2, FirstNode, NodeFacts
    <3>4. k # n
      BY <1>tree, <3>1, <3>3 DEF TodoInv
    <3>5. to_fd' = to_fd \/ \E fd : to_fd' = [to_fd EXCEPT ![k] = fd]
      BY <1>1, <3>3 DEF ExecuteAsync, StartPipe, StartExecutable, StartSequence
    <3> QED BY <1>types, <3>1, <3>4, <3>5
  <2> QED BY <1>all, <1>tree, <2>1, <2>2, <2>3
<1>2. CASE OpenPipe
  <2>1. UNCHANGED <<state, to_fd>> /\ pc = "open" /\ opening # <<>>
    BY <1>2 DEF OpenPipe
  <2>2. \A k \in Processes \ {Tool} : fds'[k] = fds[k]
    BY <1>2, <1>types DEF OpenPipe
  <2>3. \A m \in Nodes : IsOpened(m) => desc'[m] = desc[m]
    <3>1. \E pair : desc' = [desc EXCEPT ![Head(opening)] = pair]
      BY <1>2 DEF OpenPipe
    <3>2. ~IsOpened(Head(opening))
      <4>1. opening \in Seq(Nodes) /\ OpeningInv
        BY DEF Control, ControlTypes, Memory
      <4>2. 1 \in 1..Len(opening) /\ Head(opening) = opening[1]
        BY <2>1, <4>1, EmptySeq, HeadTailProperties, LenProperties
      <4> QED BY <2>1, <4>1, <4>2 DEF OpeningInv
    <3> QED BY <1>types, <3>1, <3>2
  <2> QED BY <1>all, <1>tree, <2>1, <2>2, <2>3
<1>3. CASE Fork
  <2>1. PICK c \in Executables \cup Sequencers : c = current
    BY <1>3 DEF Fork, Control, ControlInv, Workers
  <2>2. /\ state' = [state EXCEPT ![c] = "forked"] /\ fds' = [fds EXCEPT ![c] = fds[Tool]]
        /\ UNCHANGED desc
        /\ to_fd' = to_fd \/ \E fd : to_fd' = [to_fd EXCEPT ![c] = fd]
    BY <1>3, <2>1 DEF Fork
  <2>3. c \in Nodes /\ state'[c] = "forked"
    BY <1>tree, <2>2
  <2>4. \A m : ReadFd(m)' = ReadFd(m)
    BY <2>2 DEF ReadFd
  <2> SUFFICES ASSUME NEW n \in Executables \cup Sequencers
               PROVE  Kept(n)
    BY <1>goal
  <2>5. CASE n = c
    BY <1>3, <1>tree, <2>1, <2>3, <2>4, <2>5, ForkedEnds
  <2>6. CASE n # c
    <3>1. /\ n \in Nodes /\ n \in Processes
          /\ state'[n] = state[n] /\ fds'[n] = fds[n] /\ to_fd'[n] = to_fd[n]
          /\ \A m \in Nodes : IsOpened(m) => desc'[m] = desc[m]
      BY <1>tree, <1>types, <2>2, <2>6
    <3> QED BY <1>keep, <3>1
  <2> QED BY <2>5, <2>6
<1>4. CASE CloseUnused
  <2>1. UNCHANGED <<state, to_fd, desc>>
    BY <1>4 DEF CloseUnused
  <2>2. \A k \in Processes \ {Tool} : fds'[k] = fds[k]
    BY <1>4, <1>types DEF CloseUnused, CloseAfterExecutable, CloseAfterAppender
  <2> QED BY <1>all, <1>tree, <2>1, <2>2
<1>5. ASSUME NEW n \in Nodes, Reap(n) PROVE EndsInv'
  <2>1. /\ UNCHANGED <<fds, to_fd, desc>> /\ state' = [state EXCEPT ![n] = "reaped"]
    BY <1>5 DEF Reap, memoryVars
  <2>2. \A k \in Nodes : state'[k] = state[k] \/ state'[k] = "reaped"
    BY <1>tree, <2>1
  <2> QED BY <1>all, <1>tree, <2>1, <2>2
<1>6. CASE HandleCompleted \/ Return \/ ToolExits
  <2>1. UNCHANGED <<state, to_fd, desc>>
    BY <1>6 DEF HandleCompleted, Return, ToolExits, memoryVars
  <2>2. \A k \in Processes \ {Tool} : fds'[k] = fds[k]
    BY <1>6, <1>types DEF HandleCompleted, Return, ToolExits
  <2> QED BY <1>all, <1>tree, <2>1, <2>2
<1>7. ASSUME NEW n \in Nodes, Process(n) PROVE EndsInv'
  <2>1. /\ UNCHANGED <<desc, to_fd>> /\ n \in Executables \cup Sequencers
        /\ \A k \in Nodes \ {n} : state'[k] = state[k]
    BY <1>7, ProcessEffect DEF memoryVars, Workers
  <2>2. \A p \in Processes \ {n} : fds'[p] = fds[p]
    BY <1>7, ProcessTable
  <2>3. /\ n \in Executables /\ state'[n] \in {"running", "writing", "written"} =>
             fds'[n][1] \in {EndOf(tree.std_out[n]), Closed}
        /\ n \in Sequencers /\ state'[n] \in {"forked", "copying"} =>
             /\ fds'[n][to_fd[n]] \in {EndOf(tree.to[n]), Closed}
             /\ \A m \in Operands(n) : fds'[n][ReadFd(m)] \in {ReadEnd(m), Closed}
    <3>0. NodeEnds(n) /\ n \in Processes /\ fds[n] \in [Fd -> Ends] /\ 1 \in Fd
      BY <1>nodes, <1>tree, <1>types, <2>1, FdFacts
    <3>1. CASE ChildInvokes(n)
      <4>1. fds' = [fds EXCEPT ![n] = InvokedTable(n)] /\ n \in Executables
            /\ state[n] = "forked"
        BY <3>1, <1>tree DEF ChildInvokes
      <4>2. fds'[n] = InvokedTable(n)
        BY <1>types, <3>0, <4>1
      <4> QED BY <1>tree, <4>1, <4>2, ChildStreams
    <3>2. CASE ChildFails(n) \/ WriteFails(n) \/ ExecutableExits(n) \/ AppenderFails(n)
               \/ AppenderExits(n)
      <4>1. state' = [state EXCEPT ![n] = "zombie"]
        BY <3>2 DEF ChildFails, WriteFails, ExecutableExits, AppenderFails, AppenderExits,
           ExecutableEnds, Terminates
      <4> QED BY <1>tree, <4>1
    <3>3. CASE ExecutableReads(n) \/ ExecutableWrites(n)
      <4>1. fds' = fds /\ state[n] \in {"running", "writing"}
        BY <3>3 DEF ExecutableReads, ExecutableWrites
      <4>2. n \notin Sequencers
        BY <1>tree, <4>1 DEF ForkInv
      <4> QED BY <3>0, <4>1, <4>2 DEF NodeEnds, Invoked
    <3>4. CASE AppenderStarts(n) \/ AppenderEndsSource(n)
      <4>1. \E S : fds' = [fds EXCEPT ![n] = WithoutFds(fds[n], S)]
        BY <3>4 DEF AppenderStarts, AppenderEndsSource
      <4>2. n \in Sequencers /\ n \notin Executables /\ state[n] \in {"forked", "copying"}
        BY <3>4, <1>tree, <2>1 DEF AppenderStarts, AppenderEndsSource, ForkInv
      <4>3. \A fd \in Fd : fds'[n][fd] \in {fds[n][fd], Closed}
        BY <1>types, <3>0, <4>1, WithoutFacts
      <4>4. to_fd[n] \in Fd /\ \A m \in Operands(n) : ReadFd(m) \in Fd
        BY <1>tree, <1>types, <4>2
      <4>5. /\ fds[n][to_fd[n]] \in {EndOf(tree.to[n]), Closed}
            /\ \A m \in Operands(n) : fds[n][ReadFd(m)] \in {ReadEnd(m), Closed}
        BY <3>0, <4>2 DEF NodeEnds
      <4> QED BY <4>2, <4>3, <4>4, <4>5
    <3>5. CASE AppenderReads(n) \/ AppenderWrites(n)
      <4>1. fds' = fds /\ state[n] = "copying" /\ n \notin Executables
        BY <3>5, <1>tree DEF AppenderReads, AppenderWrites, ForkInv
      <4> QED BY <3>0, <4>1 DEF NodeEnds
    <3> QED BY <1>7, <3>1, <3>2, <3>3, <3>4, <3>5 DEF Process, Child, Executable, Appender
  <2>4. \A m : ReadFd(m)' = ReadFd(m)
    BY <2>1 DEF ReadFd
  <2>5. ASSUME NEW k \in Executables \cup Sequencers, k # n
        PROVE  /\ state'[k] = state[k] /\ fds'[k] = fds[k] /\ to_fd'[k] = to_fd[k]
               /\ \A m \in Nodes : IsOpened(m) => desc'[m] = desc[m]
    BY <1>tree, <2>1, <2>2, <2>5
  <2> SUFFICES ASSUME NEW k \in Executables \cup Sequencers
               PROVE  Kept(k)
    BY <1>goal
  <2>6. CASE k = n
    BY <2>1, <2>3, <2>4, <2>6
  <2>7. CASE k # n
    BY <1>keep, <2>5, <2>7
  <2> QED BY <2>6, <2>7
<1>8. CASE UNCHANGED vars
  <2>1. UNCHANGED <<state, to_fd, desc, fds>>
    BY <1>8 DEF vars, memoryVars
  <2> QED BY <1>all, <1>tree, <2>1
<1> QED BY <1>1, <1>2, <1>3, <1>4, <1>5, <1>6, <1>7, <1>8 DEF Next, Parent

-----------------------------------------------------------------------------
(* The chunks.                                                             *)

\* What read() takes from a pipe.
LEMMA TailFacts ==
    ASSUME NEW S, NEW chunks \in Seq(S), chunks # <<>>
    PROVE  /\ Head(chunks) \in S /\ Within(Head(chunks), chunks)
           /\ Tail(chunks) \in Seq(S)
           /\ \A c : Within(c, Tail(chunks)) => Within(c, chunks)
           /\ InOrder(chunks) =>
                /\ InOrder(Tail(chunks))
                /\ \A c : Within(c, Tail(chunks)) => Before(Head(chunks), c)
<1>1. /\ Head(chunks) = chunks[1] /\ Head(chunks) \in S
      /\ Tail(chunks) \in Seq(S) /\ Len(chunks) \in Nat /\ Len(chunks) >= 1
      /\ Len(Tail(chunks)) = Len(chunks) - 1
      /\ \A i \in 1..Len(Tail(chunks)) : Tail(chunks)[i] = chunks[i + 1]
  BY HeadTailProperties, LenProperties, EmptySeq
<1>2. \A i \in 1..Len(Tail(chunks)) : i + 1 \in 1..Len(chunks) /\ 1 < i + 1
  BY <1>1
<1>3. 1 \in 1..Len(chunks)
  BY <1>1
<1>4. \A i, j \in 1..Len(Tail(chunks)) : i < j => i + 1 < j + 1
  BY <1>1
<1> HIDE DEF Before
<1>5. InOrder(chunks) => InOrder(Tail(chunks))
  BY <1>1, <1>2, <1>4 DEF InOrder
<1>6. InOrder(chunks) => \A i \in 1..Len(Tail(chunks)) : Before(chunks[1], Tail(chunks)[i])
  BY <1>1, <1>2, <1>3 DEF InOrder
<1>7. \A c : Within(c, Tail(chunks)) => Within(c, chunks)
  BY <1>1, <1>2 DEF Within
<1> QED BY <1>1, <1>3, <1>5, <1>6, <1>7 DEF Within

\* What write() adds to a pipe or to a file.
LEMMA AppendFacts ==
    ASSUME NEW S, NEW chunks \in Seq(S), NEW d \in S
    PROVE  /\ Append(chunks, d) \in Seq(S)
           /\ \A c : Within(c, Append(chunks, d)) <=> Within(c, chunks) \/ c = d
           /\ InOrder(chunks) /\ (\A c : Within(c, chunks) => Before(c, d)) =>
                InOrder(Append(chunks, d))
<1> DEFINE l == Len(chunks)
<1>1. /\ l \in Nat /\ Append(chunks, d) \in Seq(S) /\ Len(Append(chunks, d)) = l + 1
      /\ \A i \in 1..l : Append(chunks, d)[i] = chunks[i]
      /\ Append(chunks, d)[l + 1] = d
  BY AppendProperties, LenProperties
<1>2. \A i \in 1..(l + 1) : i \in 1..l \/ i = l + 1
  BY <1>1
<1>3. l + 1 \in 1..(l + 1) /\ \A i \in 1..l : i \in 1..(l + 1)
  BY <1>1
<1>4. \A c : Within(c, Append(chunks, d)) <=> Within(c, chunks) \/ c = d
  BY <1>1, <1>2, <1>3 DEF Within
<1>5. ASSUME InOrder(chunks), \A c : Within(c, chunks) => Before(c, d)
      PROVE  InOrder(Append(chunks, d))
  <2> SUFFICES ASSUME NEW i \in 1..(l + 1), NEW j \in 1..(l + 1), i < j
               PROVE  Before(Append(chunks, d)[i], Append(chunks, d)[j])
    BY <1>1 DEF InOrder
  <2>1. i \in 1..l
    BY <1>1
  <2>2. CASE j \in 1..l
    BY <1>1, <1>5, <2>1, <2>2 DEF InOrder
  <2>3. CASE j = l + 1
    <3>1. Within(chunks[i], chunks)
      BY <2>1 DEF Within
    <3>2. Before(chunks[i], d)
      BY <1>5, <3>1
    <3>3. Append(chunks, d)[i] = chunks[i] /\ Append(chunks, d)[j] = d
      BY <1>1, <2>1, <2>3
    <3> QED BY <3>2, <3>3
  <2> QED BY <1>2, <2>2, <2>3
<1> QED BY <1>1, <1>4, <1>5

\* What the places of the chunks are after a step.
LEMMA PlacesAfter ==
    ASSUME [Next]_vars
    PROVE  /\ \A k, n : Under(k, n)' <=> Under(k, n)
           /\ \A c, d : Before(c, d)' <=> Before(c, d)
           /\ \A n : OutStream(n)' = OutStream(n)
           /\ \A m, c : Out(m, c)' <=>
                /\ Under(m, c)
                /\ \/ \E k \in Processes : k # c /\ Within(c, file'[k])
                   \/ \E k \in Nodes : Within(c, buffer'[k]) /\ ~Under(m, k)
                   \/ \E k \in Nodes : held'[k] = c /\ ~Under(m, k)
           /\ \A t, c : Left(t, c)' <=>
                Out(t, c)' \/ (Under(t, c) /\ Within(c, buffer'[t]))
           /\ \A c : Somewhere(c)' <=>
                \/ \E k \in Processes : Within(c, file'[k])
                \/ \E k \in Nodes : Within(c, buffer'[k]) \/ held'[k] = c
<1>const. /\ tree' = tree /\ Nodes' = Nodes /\ Processes' = Processes
          /\ Sequencers' = Sequencers
  BY TreeConstant
<1>1. \A k, n : Under(k, n)' <=> Under(k, n)
  BY <1>const DEF Under
<1>2. \A c, d : Before(c, d)' <=> Before(c, d)
  BY <1>const DEF Before
<1>3. \A n : OutStream(n)' = OutStream(n)
  BY <1>const DEF OutStream
<1>4. \A m, c : Out(m, c)' <=>
        /\ Under(m, c)
        /\ \/ \E k \in Processes : k # c /\ Within(c, file'[k])
           \/ \E k \in Nodes : Within(c, buffer'[k]) /\ ~Under(m, k)
           \/ \E k \in Nodes : held'[k] = c /\ ~Under(m, k)
  BY <1>const, <1>1 DEF Out, Within
<1>5. \A t, c : Left(t, c)' <=> Out(t, c)' \/ (Under(t, c) /\ Within(c, buffer'[t]))
  BY <1>1 DEF Left, Within
<1>6. \A c : Somewhere(c)' <=>
        \/ \E k \in Processes : Within(c, file'[k])
        \/ \E k \in Nodes : Within(c, buffer'[k]) \/ held'[k] = c
  BY <1>const DEF Somewhere, Within
<1> QED BY <1>1, <1>2, <1>3, <1>4, <1>5, <1>6

\* A step that adds no chunk anywhere, and may take one out of a pipe.
LEMMA OrderQuiet ==
    ASSUME Control, DataTypes, Order, [Next]_vars,
           UNCHANGED <<file, held, wrote>>,
           \A m \in Nodes :
             \/ buffer'[m] = buffer[m]
             \/ buffer[m] # <<>> /\ buffer'[m] = Tail(buffer[m]),
           \A n \in wrote :
             state'[n] = state[n] \/ state'[n] \in {"written", "zombie", "reaped"},
           \A t \in Sequencers : state[t] \in {"copying", "zombie"} =>
             /\ state'[t] \in {"copying", "zombie"}
             /\ \/ source'[t] = source[t]
                \/ held[t] = NoNode /\ source'[t] = NextSource(t) /\ source[t] # NoNode,
           \A t \in Nodes : source'[t] # source[t] =>
             t \in Sequencers /\ source'[t] \in Operands(t) \cup {NoNode}
    PROVE  Order'
<1>const. /\ tree' = tree /\ Nodes' = Nodes /\ Executables' = Executables
          /\ Sequencers' = Sequencers /\ Processes' = Processes /\ Workers' = Workers
          /\ \A n : Operands(n)' = Operands(n)
          /\ \A n : IsSequenceOperand(n)' = IsSequenceOperand(n)
          /\ \A n : WiredWriters(n)' = WiredWriters(n)
  BY TreeConstant
<1>after. /\ \A k, n : Under(k, n)' <=> Under(k, n)
          /\ \A c, d : Before(c, d)' <=> Before(c, d)
          /\ \A n : OutStream(n)' = OutStream(n)
  BY PlacesAfter
<1>tree. /\ IsWired(tree) /\ Sequencers \subseteq Nodes /\ Nodes \subseteq Nat
         /\ \A m \in Nodes : IsSequenceOperand(m) =>
              tree.father[m] \in Sequencers /\ m \in Operands(tree.father[m])
         /\ \A m \in Nodes : buffer[m] \in Seq(Nodes)
         /\ \A n, m : LaterOperands(n, m) \subseteq Nodes
         /\ NoNode \notin Nodes
  BY NodeFacts, OperandPipe DEF Control, ControlTypes, DataTypes
<1>inv. WroteInv /\ RouteInv /\ HoldInv /\ SourceInv /\ BufferInv /\ OutputInOrder
  BY DEF Order
<1>1. \A m \in Nodes : /\ \A c : Within(c, buffer'[m]) => Within(c, buffer[m])
                       /\ InOrder(buffer[m]) => InOrder(buffer'[m])
  BY <1>tree, TailFacts
<1>2. \A m \in Nodes : \A c : Out(m, c)' => Out(m, c)
  BY SMTT(20), <1>1, PlacesAfter DEF Out
<1>3. \A m \in Nodes : \A c : Left(m, c)' => Left(m, c)
  BY <1>1, <1>2, PlacesAfter DEF Left
<1>4. \A c : Somewhere(c)' => Somewhere(c)
  <2> SUFFICES ASSUME NEW c, Somewhere(c)' PROVE Somewhere(c)
    OBVIOUS
  <2>1. \/ \E k \in Processes : Within(c, file'[k])
        \/ \E k \in Nodes : Within(c, buffer'[k]) \/ held'[k] = c
    BY PlacesAfter
  <2> QED BY <1>1, <2>1 DEF Somewhere
<1>5. WroteInv'
  BY <1>const, <1>inv, <1>4 DEF WroteInv
<1>6. RouteInv'
  <2>1. \A m, c \in Nodes : Within(c, buffer'[m]) =>
          Under(m, c) /\ \A n \in WiredWriters(m) : Under(n, c)
    BY <1>inv, <1>1 DEF RouteInv
  <2>2. \A m, c \in Nodes : IsSequenceOperand(m) /\ Out(m, c)' =>
          \A n \in WiredWriters(m) : Under(n, c)
    BY <1>inv, <1>2 DEF RouteInv
  <2>3. \A n \in Workers, c \in Nodes :
          ~IsPipe(OutStream(n)) /\ Within(c, file'[FileIndex(OutStream(n))]) => Under(n, c)
    BY <1>inv DEF RouteInv
  <2> QED BY <1>const, <1>after, <2>1, <2>2, <2>3 DEF RouteInv, Within, FileIndex, Tool
<1>7. HoldInv'
  <2> SUFFICES ASSUME NEW t \in Nodes, held[t] # NoNode
               PROVE  /\ state'[t] \in {"copying", "zombie"} /\ t \in Sequencers
                      /\ source'[t] # NoNode /\ Under(source'[t], held[t])
                      /\ \A c \in Nodes : Left(t, c)' => Before(c, held[t])
    BY <1>const, <1>after DEF HoldInv, Under, Before
  <2>1. /\ state[t] \in {"copying", "zombie"} /\ t \in Sequencers
        /\ source[t] # NoNode /\ Under(source[t], held[t])
        /\ \A c \in Nodes : Left(t, c) => Before(c, held[t])
    BY <1>inv DEF HoldInv
  <2>2. state'[t] \in {"copying", "zombie"} /\ source'[t] = source[t]
    BY <2>1
  <2> QED BY <1>3, <2>1, <2>2
<1>8. SourceInv'
  <2>1. \A t \in Nodes : source'[t] # NoNode => t \in Sequencers /\ source'[t] \in Operands(t)
    BY <1>inv DEF SourceInv
  <2>2. ASSUME NEW m \in Nodes, NEW c \in Nodes, IsSequenceOperand(m), Out(m, c)'
        PROVE  /\ state'[tree.father[m]] \in {"copying", "zombie"}
               /\ source'[tree.father[m]] # NoNode => m <= source'[tree.father[m]]
    <3>1. PICK t \in Sequencers : t = tree.father[m] /\ m \in Operands(t)
      BY <1>tree, <2>2
    <3>2. /\ state[t] \in {"copying", "zombie"}
          /\ source[t] # NoNode => m <= source[t]
      BY <1>2, <1>inv, <2>2, <3>1 DEF SourceInv
    <3>3. CASE source'[t] = source[t]
      BY <3>1, <3>2, <3>3
    <3>4. CASE source'[t] = NextSource(t) /\ source[t] # NoNode
      <4>1. ASSUME NextSource(t) # NoNode PROVE m <= NextSource(t)
        <5>1. NextSource(t) \in LaterOperands(t, source[t])
          <6>1. IsTree(tree)
            BY <1>tree, NodeFacts
          <6> QED BY <1>tree, <4>1, <6>1, FirstNode DEF NextSource
        <5>2. NextSource(t) > source[t] /\ NextSource(t) \in Nat
          BY <1>tree, <5>1 DEF LaterOperands
        <5>3. source[t] \in Nat /\ m \in Nat /\ m <= source[t]
          BY <1>tree, <1>inv, <3>2, <3>4 DEF SourceInv, Operands
        <5> QED BY <5>2, <5>3
      <4> QED BY <3>1, <3>2, <3>4, <4>1
    <3> QED BY <3>1, <3>2, <3>3, <3>4
  <2> QED BY <1>const, <2>1, <2>2 DEF SourceInv
<1>9. BufferInv'
  <2>1. \A m \in Nodes : IsSequenceOperand(m) =>
          /\ InOrder(buffer'[m])
          /\ \A c, d \in Nodes : Out(m, c)' /\ Within(d, buffer'[m]) => Before(c, d)
    BY <1>inv, <1>1, <1>2 DEF BufferInv
  <2> QED BY <1>const, <1>after, <2>1 DEF BufferInv, InOrder, Within
<1>10. OutputInOrder'
  BY <1>const, <1>after, <1>inv DEF OutputInOrder, InOrder
<1> QED BY <1>5, <1>6, <1>7, <1>8, <1>9, <1>10 DEF Order

\* What the appender of t has written has left the operand it came from.
LEMMA LeftOperand ==
    ASSUME IsTree(tree), NEW t \in Nodes, NEW k \in Operands(t), NEW c \in Nodes,
           Under(k, c), Left(t, c), t # c
    PROVE  Out(k, c)
<1>1. /\ k \in Nodes /\ t < k /\ t \in Nat /\ k \in Nat /\ Under(t, k)
  <2>1. k \in Nodes /\ tree.father[k] = t
    BY DEF Operands
  <2>2. Nodes \subseteq Nat /\ t < k
    BY <2>1, TreeFacts, FatherIsLess
  <2> QED BY <2>1, <2>2, OperandUnder, UnderRoot
<1>2. \A j \in Nodes : ~Under(t, j) => ~Under(k, j)
  BY <1>1, UnderTransitive
<1>3. ~Under(k, t)
  BY <1>1 DEF Under
<1>4. CASE Out(t, c)
  BY <1>2, <1>4 DEF Out
<1>5. CASE Within(c, buffer[t])
  BY <1>3, <1>5 DEF Out
<1> QED BY <1>4, <1>5 DEF Left

\* An appender reads a chunk of its operand, which belongs after all it has written.
LEMMA OrderRead ==
    ASSUME Control, DataTypes, EndsInv, Order, [Next]_vars,
           NEW t \in Nodes, AppenderReads(t)
    PROVE  Order'
<1>const. /\ tree' = tree /\ Nodes' = Nodes /\ Executables' = Executables
          /\ Sequencers' = Sequencers /\ Processes' = Processes /\ Workers' = Workers
          /\ \A n : Operands(n)' = Operands(n)
          /\ \A n : IsSequenceOperand(n)' = IsSequenceOperand(n)
          /\ \A n : WiredWriters(n)' = WiredWriters(n)
  BY TreeConstant
<1>after. /\ \A k, n : Under(k, n)' <=> Under(k, n)
          /\ \A c, d : Before(c, d)' <=> Before(c, d)
          /\ \A n : OutStream(n)' = OutStream(n)
  BY PlacesAfter
<1>tree. /\ IsWired(tree) /\ IsTree(tree) /\ Nodes \subseteq Nat
         /\ \A m \in Nodes : buffer[m] \in Seq(Nodes)
         /\ Executables \cap Sequencers = {} /\ wrote \subseteq Executables
         /\ Executables \subseteq Nodes
         /\ buffer \in [Nodes -> Seq(Nodes)]
         /\ held \in [Nodes -> Nodes \cup {NoNode}] /\ NoNode \notin Nodes
  BY NodeFacts DEF Control, ControlTypes, DataTypes
<1>inv. WroteInv /\ RouteInv /\ HoldInv /\ SourceInv /\ BufferInv /\ OutputInOrder
  BY DEF Order
<1>1. PICK m \in Operands(t) : m = source[t] /\ t \in Sequencers
  BY <1>inv DEF AppenderReads, SourceInv
<1>m. m \in Nodes /\ tree.father[m] = t /\ IsSequenceOperand(m) /\ t \in Workers
  <2>1. m \in Nodes /\ tree.father[m] = t
    BY DEF Operands
  <2>2. m # 1
    BY <1>tree, <2>1, NodeFacts DEF IsTree, NoNode
  <2> QED BY <1>1, <2>1, <2>2 DEF IsSequenceOperand, Sequencers, Workers
<1> DEFINE d == Head(buffer[m])
<1>2. /\ buffer[m] # <<>> /\ held' = [held EXCEPT ![t] = d]
      /\ buffer' = [buffer EXCEPT ![m] = Tail(@)]
      /\ UNCHANGED <<state, source, file, wrote>> /\ state[t] = "copying"
  <2>1. CanRead(t, fds[t][ReadFd(m)])
    BY <1>1 DEF AppenderReads
  <2>2. fds[t][ReadFd(m)] \in {ReadEnd(m), Closed}
    BY <1>1 DEF AppenderReads, EndsInv
  <2>3. fds[t][ReadFd(m)] = ReadEnd(m)
    BY <2>1, <2>2 DEF CanRead, Closed
  <2>4. fds[t][ReadFd(m)][2] = m
    BY <2>3 DEF ReadEnd
  <2> QED BY <1>1, <2>1, <2>4 DEF AppenderReads, CanRead
<1>3. /\ held'[t] = d /\ \A k \in Nodes : k # t => held'[k] = held[k]
      /\ buffer'[m] = Tail(buffer[m]) /\ \A k \in Nodes : k # m => buffer'[k] = buffer[k]
  BY <1>2, <1>m, <1>tree
<1>4. /\ d \in Nodes /\ Within(d, buffer[m])
      /\ \A k \in Nodes : \A c : Within(c, buffer'[k]) => Within(c, buffer[k])
      /\ \A k \in Nodes : InOrder(buffer[k]) => InOrder(buffer'[k])
      /\ InOrder(buffer[m]) => \A c : Within(c, buffer'[m]) => Before(d, c)
  <2>1. buffer[m] \in Seq(Nodes)
    BY <1>m, <1>tree
  <2>2. /\ d \in Nodes /\ Within(d, buffer[m])
        /\ \A c : Within(c, buffer'[m]) => Within(c, buffer[m])
        /\ InOrder(buffer[m]) =>
             InOrder(buffer'[m]) /\ \A c : Within(c, buffer'[m]) => Before(d, c)
    BY <1>2, <1>3, <2>1, TailFacts
  <2> QED BY <1>3, <2>2
<1>5. Under(m, d) /\ d # NoNode
  BY <1>4, <1>m, <1>inv, <1>tree DEF RouteInv
<1> HIDE DEF d
\* The chunk leaves the operand, and nothing else does.
<1>6. \A k \in Nodes : \A c : Out(k, c)' => Out(k, c) \/ (k = m /\ c = d)
  <2> SUFFICES ASSUME NEW k \in Nodes, NEW c, Out(k, c)', ~Out(k, c)
               PROVE  k = m /\ c = d
    OBVIOUS
  <2>1. /\ Under(k, c)
        /\ \/ \E j \in Processes : j # c /\ Within(c, file[j])
           \/ \E j \in Nodes : Within(c, buffer'[j]) /\ ~Under(k, j)
           \/ \E j \in Nodes : held'[j] = c /\ ~Under(k, j)
    BY <1>2, PlacesAfter
  <2>2. held'[t] = c /\ ~Under(k, t)
    BY <1>3, <1>4, <2>1 DEF Out
  <2>3. c = d /\ Under(k, m)
    BY <1>3, <1>4, <1>m, <2>1, <2>2 DEF Out
  <2>4. k = m
    BY <1>tree, <1>m, <2>2, <2>3, FatherUnder
  <2> QED BY <2>3, <2>4
<1>7. \A k \in Nodes : \A c : Left(k, c)' => Left(k, c)
  <2> SUFFICES ASSUME NEW k \in Nodes, NEW c, Left(k, c)' PROVE Left(k, c)
    OBVIOUS
  <2>1. Out(k, c)' \/ (Under(k, c) /\ Within(c, buffer'[k]))
    BY PlacesAfter
  <2> QED BY <1>4, <1>5, <1>6, <2>1 DEF Left
<1>8. WroteInv'
  <2>1. ASSUME NEW c, Somewhere(c)' PROVE Somewhere(c)
    <3>1. \/ \E k \in Processes : Within(c, file[k])
          \/ \E k \in Nodes : Within(c, buffer'[k]) \/ held'[k] = c
      BY <1>2, <2>1, PlacesAfter
    <3> QED BY <1>3, <1>4, <1>m, <3>1 DEF Somewhere
  <2> QED BY <1>const, <1>2, <1>inv, <2>1 DEF WroteInv
<1>9. RouteInv'
  <2>1. \A k, c \in Nodes : Within(c, buffer'[k]) =>
          Under(k, c) /\ \A n \in WiredWriters(k) : Under(n, c)
    BY <1>inv, <1>4 DEF RouteInv
  <2>2. \A k, c \in Nodes : IsSequenceOperand(k) /\ Out(k, c)' =>
          \A n \in WiredWriters(k) : Under(n, c)
    BY <1>inv, <1>4, <1>6, <1>m DEF RouteInv
  <2>3. \A n \in Workers, c \in Nodes :
          ~IsPipe(OutStream(n)) /\ Within(c, file'[FileIndex(OutStream(n))]) => Under(n, c)
    BY <1>inv, <1>2 DEF RouteInv
  <2> QED BY <1>const, <1>after, <2>1, <2>2, <2>3 DEF RouteInv, Within, FileIndex, Tool
<1>10. ASSUME NEW c \in Nodes, Left(t, c) PROVE Before(c, d)
  <2>1. Somewhere(c) /\ Under(t, c)
    BY <1>10, <1>m DEF Left, Out, Somewhere
  <2>2. c # t
    BY <1>1, <1>inv, <1>tree, <2>1 DEF WroteInv
  <2>3. PICK k \in Operands(t) : Under(k, c)
    BY <1>tree, <2>1, <2>2, SomeOperand
  <2>4. Out(k, c)
    BY <1>tree, <1>10, <2>2, <2>3, LeftOperand
  <2>5. k \in Nodes /\ IsSequenceOperand(k) /\ tree.father[k] = t
    BY <1>1, <1>tree, NodeFacts DEF Operands, IsSequenceOperand, Sequencers, IsTree, NoNode
  <2>6. k <= m
    BY <1>1, <1>inv, <2>4, <2>5, <1>m, <1>tree DEF SourceInv
  <2>7. CASE k = m
    BY <1>inv, <1>4, <1>m, <2>4, <2>7 DEF BufferInv
  <2>8. CASE k # m
    <3>1. k < m /\ d \in Nat /\ m \in Nat /\ c \in Nat
      BY <1>tree, <1>4, <1>m, <2>5, <2>6, <2>8
    <3>2. c < m
      BY <1>tree, <2>3, <3>1, UnderOperand
    <3>3. m <= d
      BY <1>5, <3>1 DEF Under
    <3> QED BY <3>1, <3>2, <3>3 DEF Before
  <2> QED BY <2>7, <2>8
<1>11. HoldInv'
  <2> SUFFICES ASSUME NEW n \in Nodes, held'[n] # NoNode
               PROVE  /\ state[n] \in {"copying", "zombie"} /\ n \in Sequencers
                      /\ source[n] # NoNode /\ Under(source[n], held'[n])
                      /\ \A c \in Nodes : Left(n, c)' => Before(c, held'[n])
    BY <1>const, <1>after, <1>2 DEF HoldInv, Under, Before
  <2>1. CASE n = t
    BY <1>1, <1>2, <1>3, <1>5, <1>7, <1>10, <1>m, <1>tree, <2>1
  <2>2. CASE n # t
    BY <1>3, <1>7, <1>inv, <2>2 DEF HoldInv
  <2> QED BY <2>1, <2>2
<1>12. SourceInv'
  <2>1. ASSUME NEW k \in Nodes, NEW c \in Nodes, IsSequenceOperand(k), Out(k, c)'
        PROVE  /\ state[tree.father[k]] \in {"copying", "zombie"}
               /\ source[tree.father[k]] # NoNode => k <= source[tree.father[k]]
    <3>1. CASE Out(k, c)
      BY <1>inv, <2>1, <3>1 DEF SourceInv
    <3>2. CASE k = m
      <4>1. tree.father[k] = t /\ source[t] = k /\ k \in Nat
        BY <1>1, <1>m, <1>tree, <3>2
      <4> QED BY <1>2, <4>1
    <3> QED BY <1>6, <2>1, <3>1, <3>2
  <2> QED BY <1>const, <1>2, <1>inv, <2>1 DEF SourceInv
<1>13. BufferInv'
  <2>1. ASSUME NEW k \in Nodes, IsSequenceOperand(k)
        PROVE  /\ InOrder(buffer'[k])
               /\ \A c, e \in Nodes : Out(k, c)' /\ Within(e, buffer'[k]) => Before(c, e)
    BY <1>4, <1>6, <1>inv, <1>m, <2>1 DEF BufferInv
  <2> QED BY <1>const, <1>after, <2>1 DEF BufferInv, InOrder, Within
<1>14. OutputInOrder'
  BY <1>const, <1>after, <1>inv, <1>2 DEF OutputInOrder, InOrder
<1> QED BY <1>8, <1>9, <1>11, <1>12, <1>13, <1>14 DEF Order

\* Above a writer, its output goes through the pipe of every operand of a sequence, and
\* not through that of another sequence.
LEMMA OutputPasses ==
    ASSUME IsWired(tree), NEW n \in Workers, NEW k \in Nodes, Under(k, n),
           IsSequenceOperand(k) \/ k \in Sequencers \ {n}
    PROVE  \/ n \in Executables /\ OutStream(n) = FileOf(n)
           \/ \E p \in Nodes : /\ OutStream(n) = PipeOf(p) /\ Under(k, p)
                               /\ k \in Sequencers \ {n} => p # k
<1>tree. /\ IsTree(tree) /\ n \in Nodes /\ tree.type[n] # "Pipe" /\ Under(k, k)
         /\ \A t \in Sequencers : tree.type[t] # "Pipe"
         /\ n \in Executables \/ n \in Sequencers
  BY NodeFacts, UnderRoot DEF Workers, Sequencers, SequenceTypes
<1>1. SUFFICES ASSUME OutStream(n) = tree.to[n]
               PROVE  \E p \in Nodes : /\ tree.to[n] = PipeOf(p) /\ Under(k, p)
                                       /\ k \in Sequencers \ {n} => p # k
  BY <1>tree, OutputRules DEF OutStream
<1>2. CASE tree.to[k] = tree.to[n] /\ (k = n \/ tree.type[k] = "Pipe")
  <2>1. IsSequenceOperand(k) /\ k \notin Sequencers \ {n}
    BY <1>tree, <1>2
  <2>2. tree.to[n] = PipeOf(k)
    BY <1>2, <2>1, OutputRules
  <2> QED BY <1>tree, <2>1, <2>2
<1>3. CASE \E p \in Nodes : p # k /\ tree.to[n] = PipeOf(p) /\ Under(k, p)
  BY <1>3
<1> QED BY <1>tree, <1>2, <1>3, OutputRoute

\* The appender of a node copies what was made under it.
LEMMA HeldUnder ==
    ASSUME IsWired(tree), DataTypes, HoldInv, SourceInv, NEW t \in Nodes, held[t] # NoNode
    PROVE  /\ t \in Sequencers /\ held[t] \in Nodes /\ Under(t, held[t])
           /\ \A c \in Nodes : Left(t, c) => Before(c, held[t])
<1>1. /\ t \in Sequencers /\ source[t] # NoNode /\ Under(source[t], held[t])
      /\ held[t] \in Nodes /\ \A c \in Nodes : Left(t, c) => Before(c, held[t])
  BY DEF HoldInv, DataTypes
<1>2. source[t] \in Operands(t)
  BY <1>1 DEF SourceInv
<1>3. /\ IsTree(tree) /\ source[t] \in Nodes /\ tree.father[source[t]] = t
      /\ Nodes \subseteq Nat
  BY <1>2, NodeFacts DEF Operands
<1>4. Under(t, t)
  BY <1>3, UnderRoot
<1>5. Under(t, source[t])
  BY <1>3, <1>4, FatherIsLess, OperandUnder
<1> QED BY <1>1, <1>3, <1>5, UnderTransitive

\* A process writes one chunk where it is wired to write.
LEMMA PutFacts ==
    ASSUME Control, DataTypes, EndsInv, Order,
           NEW n \in Nodes, ExecutableWrites(n) \/ AppenderWrites(n)
    PROVE  \E d \in Nodes :
             /\ n \in Workers /\ Under(n, d)
             /\ held' = [held EXCEPT ![n] = NoNode] /\ UNCHANGED source
             /\ wrote' = wrote \cup {d}
             /\ n \in Executables => d = n /\ (d \in wrote => tree.program[d] = "endless")
             /\ n \in Sequencers =>
                  held[n] = d /\ \A c \in Nodes : Left(n, c) => Before(c, d)
             /\ \/ \E p \in Nodes :
                     /\ OutStream(n) = PipeOf(p)
                     /\ buffer' = [buffer EXCEPT ![p] = Append(@, d)]
                     /\ UNCHANGED file
                \/ \E q \in Processes :
                     /\ ~IsPipe(OutStream(n)) /\ q = FileIndex(OutStream(n))
                     /\ file' = [file EXCEPT ![q] = Append(@, d)]
                     /\ UNCHANGED buffer
<1>tree. /\ IsWired(tree) /\ IsTree(tree) /\ Nodes \subseteq Nat /\ Nodes \subseteq Processes
         /\ Executables \cap Sequencers = {} /\ Tool \in Processes /\ NoNode \notin Nodes
         /\ held \in [Nodes -> Nodes \cup {NoNode}] /\ wrote \subseteq Executables
         /\ ForkInv
  BY NodeFacts DEF Control, ControlTypes, DataTypes, Processes
<1>inv. WroteInv /\ HoldInv /\ SourceInv
  BY DEF Order
<1>stream. ASSUME n \in Workers
           PROVE  \/ \E p \in Nodes : /\ OutStream(n) = PipeOf(p)
                                      /\ EndOf(OutStream(n)) = <<"write", p>>
                  \/ /\ ~IsPipe(OutStream(n)) /\ FileIndex(OutStream(n)) \in Processes
                     /\ EndOf(OutStream(n)) = <<"output", FileIndex(OutStream(n))>>
  <2>1. OutStream(n) \in StreamsOf(tree)
    BY <1>tree, WiringRules DEF OutStream
  <2>2. CASE IsPipe(OutStream(n))
    <3>1. OutStream(n)[2] \in Nodes /\ OutStream(n) = PipeOf(OutStream(n)[2])
      BY <1>tree, <2>1, <2>2, StreamFacts
    <3> QED BY <2>2, <3>1 DEF EndOf, WriteEnd
  <2>3. CASE ~IsPipe(OutStream(n))
    <3>1. FileIndex(OutStream(n)) \in Processes
      BY <1>tree, <2>1, StreamFacts DEF FileIndex
    <3> QED BY <2>3, <3>1 DEF EndOf, Output
  <2> QED BY <2>2, <2>3
<1>put. ASSUME NEW d \in Nodes, n \in Workers, NEW end, Accepts(end), Put(end, d),
               end \in {EndOf(OutStream(n)), Closed}
        PROVE  \/ \E p \in Nodes :
                    /\ OutStream(n) = PipeOf(p)
                    /\ buffer' = [buffer EXCEPT ![p] = Append(@, d)]
                    /\ UNCHANGED file
               \/ \E q \in Processes :
                    /\ ~IsPipe(OutStream(n)) /\ q = FileIndex(OutStream(n))
                    /\ file' = [file EXCEPT ![q] = Append(@, d)]
                    /\ UNCHANGED buffer
  <2>1. end = EndOf(OutStream(n))
    BY <1>put DEF Accepts, Closed
  <2>2. ASSUME NEW p, end = <<"write", p>>
        PROVE  buffer' = [buffer EXCEPT ![p] = Append(@, d)] /\ UNCHANGED file
    BY <1>put, <2>2 DEF Put
  <2>3. ASSUME NEW q, end = <<"output", q>>
        PROVE  file' = [file EXCEPT ![q] = Append(@, d)] /\ UNCHANGED buffer
    BY <1>put, <2>3 DEF Put
  <2> QED BY <1>stream, <1>put, <2>1, <2>2, <2>3
<1>1. CASE ExecutableWrites(n)
  <2>1. /\ state[n] = "writing" /\ Accepts(fds[n][1]) /\ Put(fds[n][1], n)
        /\ wrote' = wrote \cup {n} /\ UNCHANGED <<source, held>>
    BY <1>1 DEF ExecutableWrites
  <2>2. n \in Executables /\ n \in Workers
    BY <2>1, <1>tree DEF ForkInv, Workers
  <2>3. fds[n][1] \in {EndOf(OutStream(n)), Closed}
    BY <1>tree, <2>1, <2>2 DEF EndsInv, Invoked, OutStream
  <2>4. n \notin Sequencers /\ held[n] = NoNode
    BY <1>tree, <1>inv, <2>2 DEF HoldInv
  <2>5. held' = [held EXCEPT ![n] = NoNode]
    BY <1>tree, <2>1, <2>4
  <2>6. Under(n, n)
    BY <1>tree, UnderRoot
  <2>7. n \in wrote => tree.program[n] = "endless"
    BY <1>inv, <2>1 DEF WroteInv
  <2> QED BY <1>put, <2>1, <2>2, <2>3, <2>4, <2>5, <2>6, <2>7
<1>2. CASE AppenderWrites(n)
  <2>1. /\ state[n] = "copying" /\ held[n] # NoNode
        /\ Accepts(fds[n][to_fd[n]]) /\ Put(fds[n][to_fd[n]], held[n])
        /\ held' = [held EXCEPT ![n] = NoNode] /\ UNCHANGED <<source, wrote>>
    BY <1>2 DEF AppenderWrites
  <2>2. /\ n \in Sequencers /\ held[n] \in Nodes /\ Under(n, held[n])
        /\ \A c \in Nodes : Left(n, c) => Before(c, held[n])
    BY <1>tree, <1>inv, <2>1, HeldUnder
  <2>3. n \in Workers /\ n \notin Executables
    BY <1>tree, <2>2, NodeFacts DEF Workers
  <2>4. fds[n][to_fd[n]] \in {EndOf(OutStream(n)), Closed}
    BY <2>1, <2>2 DEF EndsInv, OutStream
  <2>5. held[n] \in wrote
    BY <1>inv, <2>2 DEF WroteInv, Somewhere
  <2>6. wrote' = wrote \cup {held[n]}
    BY <2>1, <2>5
  <2> QED BY <1>put, <2>1, <2>2, <2>3, <2>4, <2>6
<1> QED BY <1>1, <1>2

\* A chunk goes to a pipe or a file behind all that has come there, and all that has
\* come through there.
LEMMA OrderPut ==
    ASSUME Control, DataTypes, EndsInv, Order, [Next]_vars,
           NEW n \in Nodes, ExecutableWrites(n) \/ AppenderWrites(n)
    PROVE  Order'
<1>const. /\ tree' = tree /\ Nodes' = Nodes /\ Executables' = Executables
          /\ Sequencers' = Sequencers /\ Processes' = Processes /\ Workers' = Workers
          /\ \A k : Operands(k)' = Operands(k)
          /\ \A k : IsSequenceOperand(k)' = IsSequenceOperand(k)
          /\ \A k : WiredWriters(k)' = WiredWriters(k)
  BY TreeConstant
<1>after. /\ \A k, m : Under(k, m)' <=> Under(k, m)
          /\ \A c, e : Before(c, e)' <=> Before(c, e)
          /\ \A k : OutStream(k)' = OutStream(k)
  BY PlacesAfter
<1>tree. /\ IsWired(tree) /\ IsTree(tree) /\ Nodes \subseteq Nat /\ Nodes \subseteq Processes
         /\ Executables \subseteq Nodes /\ Sequencers \subseteq Nodes
         /\ Executables \cap Sequencers = {} /\ Tool \notin Nodes
         /\ Workers = Executables \cup Sequencers
         /\ NoNode \notin Nodes
  BY NodeFacts DEF Control, ControlTypes, Processes, Tool, NoNode, Workers
<1>types. /\ held \in [Nodes -> Nodes \cup {NoNode}] /\ buffer \in [Nodes -> Seq(Nodes)]
          /\ file \in [Processes -> Seq(Nodes)] /\ wrote \subseteq Executables
          /\ state \in [Nodes -> ProcessStates]
  BY DEF Control, ControlTypes, DataTypes
<1>inv. WroteInv /\ RouteInv /\ HoldInv /\ SourceInv /\ BufferInv /\ OutputInOrder
  BY DEF Order
<1> DEFINE s == OutStream(n)
<1>1. PICK d \in Nodes :
        /\ n \in Workers /\ Under(n, d)
        /\ held' = [held EXCEPT ![n] = NoNode] /\ UNCHANGED source
        /\ wrote' = wrote \cup {d}
        /\ n \in Executables => d = n /\ (d \in wrote => tree.program[d] = "endless")
        /\ n \in Sequencers =>
             held[n] = d /\ \A c \in Nodes : Left(n, c) => Before(c, d)
        /\ \/ \E p \in Nodes :
                /\ s = PipeOf(p) /\ buffer' = [buffer EXCEPT ![p] = Append(@, d)]
                /\ UNCHANGED file
           \/ \E q \in Processes :
                /\ ~IsPipe(s) /\ q = FileIndex(s)
                /\ file' = [file EXCEPT ![q] = Append(@, d)]
                /\ UNCHANGED buffer
  BY PutFacts
<1>stream. /\ \A p, q : s = PipeOf(p) /\ s = PipeOf(q) => p = q
           /\ \A p : s = PipeOf(p) => IsPipe(s)
  BY <1>tree, StreamFacts
<1> HIDE DEF s
\* Where the chunk comes.
<1>2. /\ \A k \in Nodes : \/ buffer'[k] = buffer[k]
                          \/ s = PipeOf(k) /\ buffer'[k] = Append(buffer[k], d)
      /\ \A k \in Processes :
           \/ file'[k] = file[k]
           \/ ~IsPipe(s) /\ k = FileIndex(s) /\ file'[k] = Append(file[k], d)
  BY <1>1, <1>types
<1>3. /\ \A k \in Nodes : \A c : Within(c, buffer'[k]) =>
           Within(c, buffer[k]) \/ (c = d /\ s = PipeOf(k))
      /\ \A k \in Processes : \A c : Within(c, file'[k]) =>
           Within(c, file[k]) \/ (c = d /\ ~IsPipe(s) /\ k = FileIndex(s))
      /\ \A k \in Nodes : \A c \in Nodes : held'[k] = c => held[k] = c /\ k # n
  <2>1. /\ \A k \in Nodes : \A c :
             Within(c, Append(buffer[k], d)) <=> Within(c, buffer[k]) \/ c = d
        /\ \A k \in Processes : \A c :
             Within(c, Append(file[k], d)) <=> Within(c, file[k]) \/ c = d
    BY <1>types, AppendFacts
  <2>2. \A k \in Nodes : \A c \in Nodes : held'[k] = c => held[k] = c /\ k # n
    BY <1>1, <1>types, <1>tree
  <2> QED BY ZenonT(60), <1>2, <2>1, <2>2
<1>4. ASSUME NEW p, s = PipeOf(p)
      PROVE  /\ p \in Nodes /\ n \in WiredWriters(p) /\ Under(p, n) /\ Under(p, d)
             /\ \A a \in WiredWriters(p) : a = n
  <2>1. tree.to[n] = PipeOf(p) /\ n \in WiredWriters(p)
    BY <1>1, <1>4, <1>tree, OutputRules, StreamFacts DEF s, OutStream, WiredWriters
  <2>2. p \in Nodes /\ Under(p, n)
    BY <1>tree, <2>1, OutputUnder
  <2>3. Under(p, d)
    BY <1>1, <1>tree, <2>2, UnderTransitive
  <2> QED BY <1>tree, <2>1, <2>2, <2>3, OneWriter
\* It leaves no operand of a sequence, nor what another appender has read under.
<1>5. ASSUME NEW k \in Nodes, NEW c \in Nodes, Out(k, c)',
             IsSequenceOperand(k) \/ k \in Sequencers \ {n}
      PROVE  Out(k, c)
  <2>1. SUFFICES ASSUME ~Out(k, c) PROVE FALSE
    OBVIOUS
  <2>2. /\ Under(k, c)
        /\ \/ \E j \in Processes : j # c /\ Within(c, file'[j])
           \/ \E j \in Nodes : Within(c, buffer'[j]) /\ ~Under(k, j)
           \/ \E j \in Nodes : held'[j] = c /\ ~Under(k, j)
    BY <1>5, PlacesAfter
  <2>3. /\ c = d
        /\ \/ ~IsPipe(s) /\ FileIndex(s) # d
           \/ \E j \in Nodes : s = PipeOf(j) /\ ~Under(k, j)
    BY <1>3, <2>1, <2>2 DEF Out
  <2>4. Under(k, n)
    BY <1>1, <1>tree, <2>1, <2>2, <2>3 DEF Out
  <2>5. CASE n \in Executables /\ s = FileOf(n)
    <3>1. d = n /\ FileIndex(s) = n /\ ~IsPipe(s)
      BY <1>1, <1>tree, <2>5, StreamFacts DEF FileIndex
    <3> QED BY <1>stream, <2>3, <3>1
  <2>6. CASE \E p \in Nodes : s = PipeOf(p) /\ Under(k, p)
    BY <1>stream, <2>3, <2>6
  <2> QED BY <1>1, <1>5, <1>tree, <2>4, <2>5, <2>6, OutputPasses DEF s
\* All that is there belongs before it.
<1>6. ASSUME NEW c \in Nodes,
             \/ \E p \in Nodes : /\ s = PipeOf(p)
                                 /\ \/ Within(c, buffer[p])
                                    \/ IsSequenceOperand(p) /\ Out(p, c)
             \/ ~IsPipe(s) /\ FileIndex(s) \in Processes /\ Within(c, file[FileIndex(s)])
      PROVE  Before(c, d)
  <2>1. Under(n, c)
    BY <1>1, <1>4, <1>6, <1>inv DEF RouteInv, s
  <2>2. c \in wrote /\ c \in Executables
    <3>1. Somewhere(c)
      BY <1>6 DEF Somewhere, Out
    <3> QED BY <1>inv, <1>types, <3>1 DEF WroteInv
  <2>3. CASE n \in Executables
    <3>1. c = n
      BY <1>tree, <2>1, <2>3, UnderLeaf
    <3> QED BY <1>1, <2>2, <2>3, <3>1 DEF Before
  <2>4. CASE n \in Sequencers
    <3>1. ASSUME NEW p \in Nodes, s = PipeOf(p), Within(c, buffer[p]) PROVE Left(n, c)
      <4>1. p = n \/ ~Under(n, p)
        BY <1>4, <1>tree, <3>1, UnderBoth
      <4> QED BY <2>1, <3>1, <4>1 DEF Left, Out
    <3>2. ASSUME NEW p \in Nodes, s = PipeOf(p), Out(p, c) PROVE Left(n, c)
      <4>1. \A j \in Nodes : ~Under(p, j) => ~Under(n, j)
        BY <1>4, <1>tree, <3>2, UnderTransitive
      <4> QED BY <2>1, <3>2, <4>1 DEF Left, Out
    <3>3. ASSUME ~IsPipe(s), FileIndex(s) \in Processes, Within(c, file[FileIndex(s)])
          PROVE  Left(n, c)
      <4>1. FileIndex(s) # c
        <5>1. SUFFICES ASSUME FileIndex(s) = c PROVE FALSE
          OBVIOUS
        <5>2. s = tree.to[n]
          BY <2>4 DEF s, OutStream
        <5>3. s = FileOf(1) \/ s = Std(1)
          BY <1>tree, <3>3, <5>2, RootOutput, OutputRules
        <5>4. c = 1
          BY <1>tree, <5>1, <5>3, StreamFacts DEF FileIndex
        <5>5. Under(1, n)
          BY <1>tree, UnderRoot
        <5>6. n = c
          BY <1>tree, <2>1, <5>4, <5>5, UnderBoth
        <5> QED BY <1>tree, <2>2, <2>4, <5>6
      <4> QED BY <2>1, <3>3, <4>1 DEF Left, Out
    <3> QED BY <1>1, <1>6, <2>4, <3>1, <3>2, <3>3
  <2> QED BY <1>1, <1>tree, <2>3, <2>4
<1>7. \A k \in Nodes : k # n => state'[k] = state[k]
  BY <1>types DEF ExecutableWrites, AppenderWrites
<1>8. WroteInv'
  <2>1. ASSUME NEW c \in Nodes, Somewhere(c)' PROVE c \in wrote'
    <3>1. \/ \E k \in Processes : Within(c, file'[k])
          \/ \E k \in Nodes : Within(c, buffer'[k]) \/ held'[k] = c
      BY <2>1, PlacesAfter
    <3>2. Somewhere(c) \/ c = d
      BY <1>3, <3>1 DEF Somewhere
    <3> QED BY <1>1, <1>inv, <3>2 DEF WroteInv
  <2>2. ASSUME NEW k \in wrote'
        PROVE  \/ state'[k] \in {"written", "zombie", "reaped"}
               \/ state'[k] = "writing" /\ tree.program[k] = "endless"
    <3>1. CASE ExecutableWrites(n) /\ k = n
      <4>1. state'[n] = IF tree.program[n] = "endless" THEN "writing" ELSE "written"
        BY <3>1, <1>types DEF ExecutableWrites
      <4> QED BY <3>1, <4>1
    <3>2. CASE ExecutableWrites(n) /\ k # n
      <4>1. k \in wrote /\ k \in Nodes
        BY <2>2, <3>2, <1>types, <1>tree DEF ExecutableWrites
      <4> QED BY <1>7, <1>inv, <3>2, <4>1 DEF WroteInv
    <3>3. CASE AppenderWrites(n)
      BY <1>inv, <2>2, <3>3 DEF AppenderWrites, WroteInv
    <3> QED BY <3>1, <3>2, <3>3
  <2> QED BY <1>const, <2>1, <2>2 DEF WroteInv
<1>9. RouteInv'
  <2>1. ASSUME NEW k \in Nodes, NEW c \in Nodes, Within(c, buffer'[k])
        PROVE  Under(k, c) /\ \A a \in WiredWriters(k) : Under(a, c)
    <3>1. CASE Within(c, buffer[k])
      BY <1>inv, <3>1 DEF RouteInv
    <3>2. CASE c = d /\ s = PipeOf(k)
      <4>1. Under(k, d) /\ \A a \in WiredWriters(k) : a = n
        BY <1>4, <3>2
      <4> QED BY <1>1, <3>2, <4>1
    <3> QED BY <1>3, <2>1, <3>1, <3>2
  <2>2. \A k, c \in Nodes : IsSequenceOperand(k) /\ Out(k, c)' =>
          \A a \in WiredWriters(k) : Under(a, c)
    BY <1>inv, <1>5 DEF RouteInv
  <2>3. ASSUME NEW a \in Workers, NEW c \in Nodes, ~IsPipe(OutStream(a)),
               Within(c, file'[FileIndex(OutStream(a))])
        PROVE  Under(a, c)
    <3>1. FileIndex(OutStream(a)) \in Processes
      <4>1. OutStream(a) \in StreamsOf(tree)
        BY <1>tree, WiringRules DEF OutStream
      <4> QED BY <1>tree, <4>1, StreamFacts DEF FileIndex, Processes
    <3>2. CASE Within(c, file[FileIndex(OutStream(a))])
      BY <1>inv, <2>3, <3>2 DEF RouteInv
    <3>3. CASE c = d /\ ~IsPipe(s) /\ FileIndex(OutStream(a)) = FileIndex(s)
      <4>1. a = n
        BY <1>1, <1>tree, <2>3, <3>3, OneFileWriter DEF s
      <4> QED BY <1>1, <3>3, <4>1
    <3> QED BY <1>3, <2>3, <3>1, <3>2, <3>3
  <2> QED BY <1>const, <1>after, <2>1, <2>2, <2>3 DEF RouteInv, Within, FileIndex, Tool
<1>10. HoldInv'
  <2> SUFFICES ASSUME NEW t \in Nodes, held'[t] # NoNode
               PROVE  /\ state'[t] \in {"copying", "zombie"} /\ t \in Sequencers
                      /\ source'[t] # NoNode /\ Under(source'[t], held'[t])
                      /\ \A c \in Nodes : Left(t, c)' => Before(c, held'[t])
    BY <1>const, <1>after DEF HoldInv, Under, Before
  <2>1. t # n /\ held'[t] = held[t]
    BY <1>1, <1>types
  <2>2. /\ state[t] \in {"copying", "zombie"} /\ t \in Sequencers
        /\ source[t] # NoNode /\ Under(source[t], held[t])
        /\ \A c \in Nodes : Left(t, c) => Before(c, held[t])
    BY <1>inv, <2>1 DEF HoldInv
  <2>3. ASSUME NEW c \in Nodes, Left(t, c)' PROVE Left(t, c)
    <3>1. Out(t, c)' \/ (Under(t, c) /\ Within(c, buffer'[t]))
      BY <2>3, PlacesAfter
    <3>2. s # PipeOf(t)
      <4>1. SUFFICES ASSUME s = PipeOf(t) PROVE FALSE
        OBVIOUS
      <4>2. /\ Under(t, n) /\ s # FileOf(n)
        BY <1>4, <1>tree, <4>1, StreamFacts
      <4>3. PICK p \in Nodes : s = PipeOf(p) /\ p # t
        BY <1>1, <1>tree, <2>1, <2>2, <4>2, OutputPasses DEF s
      <4> QED BY <1>stream, <4>1, <4>3
    <3> QED BY <1>3, <1>5, <2>1, <2>2, <3>1, <3>2 DEF Left
  <2> QED BY <1>1, <1>7, <2>1, <2>2, <2>3
<1>11. SourceInv'
  <2>1. ASSUME NEW k \in Nodes, NEW c \in Nodes, IsSequenceOperand(k), Out(k, c)'
        PROVE  /\ state'[tree.father[k]] \in {"copying", "zombie"}
               /\ source[tree.father[k]] # NoNode => k <= source[tree.father[k]]
    <3>1. /\ state[tree.father[k]] \in {"copying", "zombie"}
          /\ source[tree.father[k]] # NoNode => k <= source[tree.father[k]]
      BY <1>inv, <1>5, <2>1 DEF SourceInv
    <3>2. tree.father[k] \in Nodes
      BY <1>tree, <2>1, OperandPipe
    <3>3. state'[tree.father[k]] = state[tree.father[k]]
      <4>1. CASE AppenderWrites(n)
        BY <4>1 DEF AppenderWrites
      <4>2. CASE ExecutableWrites(n)
        BY <1>7, <3>1, <3>2, <4>2 DEF ExecutableWrites
      <4> QED BY <4>1, <4>2
    <3> QED BY <3>1, <3>3
  <2> QED BY <1>const, <1>1, <1>inv, <2>1 DEF SourceInv
<1>12. BufferInv'
  <2>1. ASSUME NEW k \in Nodes, IsSequenceOperand(k)
        PROVE  InOrder(buffer'[k])
    <3>1. InOrder(buffer[k]) /\ buffer[k] \in Seq(Nodes)
      BY <1>inv, <1>types, <2>1 DEF BufferInv
    <3>2. CASE s = PipeOf(k) /\ buffer'[k] = Append(buffer[k], d)
      <4>1. ASSUME NEW c, Within(c, buffer[k]) PROVE Before(c, d)
        <5>1. c \in Nodes
          BY <3>1, <4>1, ElementOfSeq, LenProperties DEF Within
        <5> QED BY <1>6, <2>1, <3>2, <4>1, <5>1
      <4> QED BY <3>1, <3>2, <4>1, AppendFacts
    <3> QED BY <1>2, <3>1, <3>2
  <2>2. ASSUME NEW k \in Nodes, IsSequenceOperand(k), NEW c \in Nodes, NEW e \in Nodes,
               Out(k, c)', Within(e, buffer'[k])
        PROVE  Before(c, e)
    <3>1. Out(k, c)
      BY <1>5, <2>2
    <3>2. CASE Within(e, buffer[k])
      BY <1>inv, <2>2, <3>1, <3>2 DEF BufferInv
    <3>3. CASE e = d /\ s = PipeOf(k)
      BY <1>6, <2>2, <3>1, <3>3
    <3> QED BY <1>3, <2>2, <3>2, <3>3
  <2> QED BY <1>const, <1>after, <2>1, <2>2 DEF BufferInv, InOrder, Within
<1>13. OutputInOrder'
  <2>1. ASSUME NEW k \in Processes PROVE InOrder(file'[k])
    <3>1. InOrder(file[k]) /\ file[k] \in Seq(Nodes)
      BY <1>inv, <1>types DEF OutputInOrder
    <3>2. CASE ~IsPipe(s) /\ k = FileIndex(s) /\ file'[k] = Append(file[k], d)
      <4>1. ASSUME NEW c, Within(c, file[k]) PROVE Before(c, d)
        <5>1. c \in Nodes
          BY <3>1, <4>1, ElementOfSeq, LenProperties DEF Within
        <5> QED BY <1>6, <3>2, <4>1, <5>1
      <4> QED BY <3>1, <3>2, <4>1, AppendFacts
    <3> QED BY <1>2, <3>1, <3>2
  <2> QED BY <1>const, <1>after, <2>1 DEF OutputInOrder, InOrder
<1> QED BY <1>8, <1>9, <1>10, <1>11, <1>12, <1>13 DEF Order

-----------------------------------------------------------------------------
(* All the steps.                                                          *)

\* Init establishes the invariants.
LEMMA OrderInit == Init => EndsInv /\ Order
<1> SUFFICES ASSUME Init PROVE EndsInv /\ Order
  OBVIOUS
<1>1. /\ \A n \in Nodes : state[n] = "none" /\ source[n] = NoNode /\ held[n] = NoNode
                          /\ buffer[n] = <<>>
      /\ \A n \in Processes : file[n] = <<>>
      /\ wrote = {} /\ NoNode \notin Nodes
      /\ Executables \subseteq Nodes /\ Sequencers \subseteq Nodes
  BY DEF Init, Executables, Sequencers, Nodes, NoNode
<1>2. /\ \A c : ~Within(c, <<>>)
      /\ InOrder(<<>>)
  <2>1. Len(<<>>) = 0 /\ 1..0 = {}
    OBVIOUS
  <2> QED BY <2>1 DEF Within, InOrder
<1>3. EndsInv
  BY <1>1 DEF EndsInv, Invoked
<1>4. \A m, c \in Nodes : ~Out(m, c) /\ ~Somewhere(c)
  BY <1>1, <1>2 DEF Out, Somewhere
<1>5. WroteInv /\ HoldInv /\ SourceInv /\ BufferInv /\ OutputInOrder
  BY <1>1, <1>2, <1>4 DEF WroteInv, HoldInv, SourceInv, BufferInv, OutputInOrder
<1>6. RouteInv
  <2>1. IsWired(tree)
    BY WiredAssumption DEF Init
  <2>2. \A n \in Workers : ~IsPipe(OutStream(n)) => FileIndex(OutStream(n)) \in Processes
    <3> SUFFICES ASSUME NEW n \in Workers, ~IsPipe(OutStream(n))
                 PROVE  FileIndex(OutStream(n)) \in Processes
      OBVIOUS
    <3>1. OutStream(n) \in StreamsOf(tree) /\ Nodes \subseteq Processes /\ Tool \in Processes
      BY <2>1, WiringRules, NodeFacts DEF OutStream, Processes, Tool, NoNode, Workers
    <3> QED BY <2>1, <3>1, StreamFacts DEF FileIndex
  <2> QED BY <1>1, <1>2, <1>4, <2>2 DEF RouteInv
<1> QED BY <1>3, <1>5, <1>6 DEF Order

\* The steps that put no chunk anywhere.
LEMMA OrderRest ==
    ASSUME Control, Memory, DataTypes, Order, [Next]_vars,
           NEW n \in Nodes,
           \/ ChildInvokes(n) \/ ChildFails(n) \/ ExecutableReads(n) \/ WriteFails(n)
           \/ ExecutableExits(n) \/ AppenderStarts(n) \/ AppenderFails(n)
           \/ AppenderEndsSource(n) \/ AppenderExits(n)
    PROVE  Order'
<1>tree. /\ IsWired(tree) /\ IsTree(tree) /\ ForkInv /\ WroteInv /\ SourceInv
         /\ Executables \subseteq Nodes /\ Sequencers \subseteq Nodes
         /\ Executables \cap Sequencers = {} /\ wrote \subseteq Executables
         /\ state \in [Nodes -> ProcessStates]
         /\ source \in [Nodes -> Nodes \cup {NoNode}]
         /\ buffer \in [Nodes -> Seq(Nodes)]
         /\ \A k \in Nodes : k \in Executables <=> tree.type[k] = "Executable"
         /\ \A k \in Nodes : k \in Sequencers <=> tree.type[k] \in SequenceTypes
         /\ NoNode \notin Nodes
  BY NodeFacts DEF Control, ControlTypes, DataTypes, Order, IsSequence
<1>quiet. ASSUME UNCHANGED <<file, held, wrote>>,
                 \A m \in Nodes :
                   \/ buffer'[m] = buffer[m]
                   \/ buffer[m] # <<>> /\ buffer'[m] = Tail(buffer[m]),
                 \A k \in Nodes \ {n} : state'[k] = state[k] /\ source'[k] = source[k],
                 n \in wrote =>
                   state'[n] = state[n] \/ state'[n] \in {"written", "zombie", "reaped"},
                 n \in Sequencers /\ state[n] \in {"copying", "zombie"} =>
                   /\ state'[n] \in {"copying", "zombie"}
                   /\ \/ source'[n] = source[n]
                      \/ /\ held[n] = NoNode /\ source'[n] = NextSource(n)
                         /\ source[n] # NoNode,
                 source'[n] # source[n] =>
                   n \in Sequencers /\ source'[n] \in Operands(n) \cup {NoNode}
          PROVE  Order'
  <2>1. \A k \in wrote :
          state'[k] = state[k] \/ state'[k] \in {"written", "zombie", "reaped"}
    BY <1>quiet, <1>tree
  <2>2. \A t \in Sequencers : state[t] \in {"copying", "zombie"} =>
          /\ state'[t] \in {"copying", "zombie"}
          /\ \/ source'[t] = source[t]
             \/ held[t] = NoNode /\ source'[t] = NextSource(t) /\ source[t] # NoNode
    BY <1>quiet, <1>tree
  <2>3. \A t \in Nodes : source'[t] # source[t] =>
          t \in Sequencers /\ source'[t] \in Operands(t) \cup {NoNode}
    BY <1>quiet
  <2> QED BY <1>quiet, <2>1, <2>2, <2>3, OrderQuiet
<1>1. CASE ChildInvokes(n)
  <2>1. /\ UNCHANGED dataVars /\ state[n] = "forked" /\ n \in Executables
        /\ state' = [state EXCEPT ![n] = IF tree.program[n] = "filter"
                                           THEN "running" ELSE "writing"]
    BY <1>1, <1>tree DEF ChildInvokes
  <2>2. n \notin wrote /\ n \notin Sequencers
    BY <1>tree, <2>1 DEF WroteInv
  <2> QED BY <1>quiet, <1>tree, <2>1, <2>2 DEF dataVars
<1>2. CASE ExecutableReads(n)
  <2>1. /\ UNCHANGED <<file, held, wrote, source>> /\ state[n] = "running"
        /\ state' = state \/ state' = [state EXCEPT ![n] = "writing"]
    BY <1>2 DEF ExecutableReads
  <2>2. n \notin wrote /\ n \notin Sequencers
    BY <1>tree, <2>1 DEF WroteInv, ForkInv
  <2>3. ASSUME NEW m \in Nodes
        PROVE  \/ buffer'[m] = buffer[m]
               \/ buffer[m] # <<>> /\ buffer'[m] = Tail(buffer[m])
    <3>1. \/ UNCHANGED buffer
          \/ \E k : buffer[k] # <<>> /\ buffer' = [buffer EXCEPT ![k] = Tail(@)]
      BY <1>2 DEF ExecutableReads, CanRead
    <3> QED BY <1>tree, <3>1
  <2> QED BY <1>quiet, <1>tree, <2>1, <2>2, <2>3
<1>3. CASE ChildFails(n) \/ WriteFails(n) \/ ExecutableExits(n) \/ AppenderFails(n)
           \/ AppenderExits(n)
  <2>1. UNCHANGED dataVars /\ state' = [state EXCEPT ![n] = "zombie"]
    BY <1>3 DEF ChildFails, WriteFails, ExecutableExits, AppenderFails, AppenderExits,
       ExecutableEnds, Terminates
  <2>2. state'[n] = "zombie" /\ \A k \in Nodes \ {n} : state'[k] = state[k]
    BY <1>tree, <2>1
  <2> QED BY <1>quiet, <2>1, <2>2 DEF dataVars
<1>4. CASE AppenderStarts(n)
  <2>1. /\ UNCHANGED <<held, buffer, file, wrote>> /\ state[n] = "forked"
        /\ n \in Sequencers
        /\ source' = [source EXCEPT ![n] = First(Operands(n))]
        /\ state' = [state EXCEPT ![n] = "copying"]
    BY <1>4, <1>tree DEF AppenderStarts
  <2>2. First(Operands(n)) \in Operands(n)
    <3>1. OperandsIn(tree, n) = Operands(n) /\ n \in 1..tree.size
      BY DEF OperandsIn, Operands, Nodes
    <3>2. tree.type[n] # "Executable"
      BY <1>tree, <2>1
    <3>3. Operands(n) # {} /\ Operands(n) \in SUBSET Nodes
      BY <1>tree, <3>1, <3>2 DEF IsWired, Operands
    <3> QED BY <1>tree, <3>3, FirstNode
  <2>3. n \notin wrote
    BY <1>tree, <2>1
  <2> QED BY <1>quiet, <1>tree, <2>1, <2>2, <2>3
<1>5. CASE AppenderEndsSource(n)
  <2>1. /\ UNCHANGED <<state, held, buffer, file, wrote>> /\ state[n] = "copying"
        /\ source[n] # NoNode /\ held[n] = NoNode
        /\ source' = [source EXCEPT ![n] = NextSource(n)]
    BY <1>5 DEF AppenderEndsSource
  <2>2. n \in Sequencers
    BY <1>tree, <2>1 DEF SourceInv
  <2>3. NextSource(n) \in Operands(n) \cup {NoNode}
    <3>1. CASE LaterOperands(n, source[n]) = {}
      BY <3>1 DEF NextSource
    <3>2. CASE LaterOperands(n, source[n]) # {}
      <4>1. LaterOperands(n, source[n]) \in SUBSET Nodes
        BY <1>tree, NodeFacts
      <4>2. First(LaterOperands(n, source[n])) \in LaterOperands(n, source[n])
        BY <1>tree, <3>2, <4>1, FirstNode
      <4> QED BY <3>2, <4>2 DEF NextSource, LaterOperands
    <3> QED BY <3>1, <3>2
  <2> QED BY <1>quiet, <1>tree, <2>1, <2>2, <2>3
<1> QED BY <1>1, <1>2, <1>3, <1>4, <1>5

\* A step keeps the order of all that is on its way.
LEMMA OrderNext == Control /\ Memory /\ DataTypes /\ EndsInv /\ Order /\ [Next]_vars => Order'
<1> SUFFICES ASSUME Control, Memory, DataTypes, EndsInv, Order, [Next]_vars PROVE Order'
  OBVIOUS
<1>tree. /\ ForkInv /\ WroteInv
         /\ Executables \subseteq Nodes /\ Sequencers \subseteq Nodes
         /\ Executables \cap Sequencers = {} /\ wrote \subseteq Executables
         /\ state \in [Nodes -> ProcessStates]
  BY NodeFacts DEF Control, ControlTypes, DataTypes, Order
<1>parent. ASSUME UNCHANGED dataVars,
                  \A k \in Nodes : \/ state'[k] = state[k] \/ state[k] = "none"
                                   \/ k \in Executables /\ state'[k] = "reaped"
           PROVE  Order'
  <2>1. /\ UNCHANGED <<file, held, wrote>>
        /\ \A m \in Nodes : buffer'[m] = buffer[m] /\ source'[m] = source[m]
    BY <1>parent DEF dataVars
  <2>2. \A k \in wrote :
          state'[k] = state[k] \/ state'[k] \in {"written", "zombie", "reaped"}
    BY <1>parent, <1>tree DEF WroteInv
  <2>3. \A t \in Sequencers : state[t] \in {"copying", "zombie"} =>
          state'[t] \in {"copying", "zombie"} /\ source'[t] = source[t]
    BY <1>parent, <1>tree, <2>1
  <2> QED BY <2>1, <2>2, <2>3, OrderQuiet
<1>1. CASE ExecuteAsync \/ OpenPipe \/ CloseUnused \/ HandleCompleted \/ Return \/ ToolExits
           \/ UNCHANGED vars
  <2>1. UNCHANGED <<state, dataVars>>
    BY <1>1 DEF ExecuteAsync, OpenPipe, CloseUnused, HandleCompleted, Return, ToolExits,
       vars, dataVars
  <2> QED BY <1>parent, <2>1
<1>2. CASE Fork
  <2>1. /\ UNCHANGED dataVars /\ state[current] = "none"
        /\ state' = [state EXCEPT ![current] = "forked"]
    BY <1>2, <1>tree DEF Fork, ForkInv
  <2> QED BY <1>parent, <1>tree, <2>1
<1>3. ASSUME NEW n \in Nodes, Reap(n) PROVE Order'
  <2>1. /\ UNCHANGED dataVars /\ n \in Executables
        /\ state' = [state EXCEPT ![n] = "reaped"]
    BY <1>3 DEF Reap
  <2> QED BY <1>parent, <1>tree, <2>1
<1>4. ASSUME NEW n \in Nodes, Process(n) PROVE Order'
  BY <1>4, OrderRest, OrderRead, OrderPut DEF Process, Child, Executable, Appender
<1> QED BY <1>1, <1>2, <1>3, <1>4 DEF Next, Parent

\* run_appender_main(): the pipes of the operands are emptied one after the other, so a
\* file and the terminal receive the outputs in the order of the command line, however
\* the processes of the command overlap.
THEOREM OutputStaysInOrder == EnoughFds => (Spec => []OutputInOrder)
<1> SUFFICES ASSUME EnoughFds PROVE Spec => []OutputInOrder
  OBVIOUS
<1>1. Init => EndsInv /\ Order
  BY OrderInit
<1>2. Control /\ Memory /\ DataTypes /\ EndsInv /\ Order /\ [Next]_vars
        => EndsInv' /\ Order'
  BY EndsNext, OrderNext
<1>3. Order => OutputInOrder
  BY DEF Order
<1> QED BY <1>1, <1>2, <1>3, Invariants, PTL DEF Spec

-----------------------------------------------------------------------------
(* Where the outputs arrive.                                               *)

\* The appender of t writes into a file or to the terminal.
ToFile(t) == t \in Sequencers /\ ~IsPipe(tree.to[t])

\* The appender of t is done with the output of its operand m.
DoneWith(t, m) ==
    \/ state[t] = "zombie"
    \/ state[t] = "copying" /\ (source[t] = NoNode \/ m < source[t])

\* No operand is executed before the appender that reads it is forked.
StartInv ==
    pc = "open" => \A m \in Operands(current) : IsSequence(current) => ~Begun(m)

\* An executable does not read what an appender is there to read.
InputInv ==
    \A n \in Executables : Invoked(n) =>
      \A m \in Nodes : IsSequenceOperand(m) => fds[n][0] # ReadEnd(m)

\* The appender of t has the ends it works with.
HasEnds(t) ==
    /\ state[t] \in {"forked", "copying"} => fds[t][to_fd[t]] = EndOf(tree.to[t])
    /\ state[t] = "forked" =>
         \A m \in Operands(t) :
           fds[t][ReadFd(m)] = ReadEnd(m) /\ fds[t][WriteFd(m)] = WriteEnd(m)
    /\ state[t] = "copying" =>
         \A m \in Operands(t) : ~DoneWith(t, m) => fds[t][ReadFd(m)] = ReadEnd(m)

AppenderInv == \A t \in Nodes : ToFile(t) => HasEnds(t)

\* An appender is done with an operand when nobody can write for it any more.
SilenceInv ==
    \A t \in Nodes : ToFile(t) =>
      \A m \in Operands(t) : DoneWith(t, m) => Writers(m) = {}

\* A chunk is in the file the appender of t writes, in its hands, or in the pipe of the
\* operand m, which the appender is not done with.
OnItsWay(t, m, n) ==
    \/ Within(n, file[FileIndex(tree.to[t])])
    \/ held[t] = n /\ state[t] = "copying"
    \/ Within(n, buffer[m]) /\ ~DoneWith(t, m)

ArriveInv ==
    \A n \in wrote :
      /\ ~IsPipe(tree.std_out[n]) => Within(n, file[FileIndex(tree.std_out[n])])
      /\ \A t \in Nodes : ToFile(t) =>
           \A m \in Operands(t) : tree.std_out[n] = PipeOf(m) => OnItsWay(t, m, n)

Arrival == StartInv /\ InputInv /\ AppenderInv /\ SilenceInv /\ ArriveInv

-----------------------------------------------------------------------------
(* The parent.                                                             *)

\* A node that is begun makes the operators above it begun: what is wired to write for
\* an operand is not forked before the appender is.
LEMMA StartNext == Control /\ StartInv /\ [Next]_vars => StartInv'
<1> SUFFICES ASSUME Control, StartInv, [Next]_vars PROVE StartInv'
  OBVIOUS
<1>const. /\ Nodes' = Nodes /\ Executables' = Executables /\ Sequencers' = Sequencers
          /\ \A n : Operands(n)' = Operands(n)
          /\ \A n : IsSequence(n)' = IsSequence(n)
  BY TreeConstant
<1>tree. /\ IsWired(tree) /\ ForkInv /\ OrderInv /\ TodoInv
         /\ \A n : Operands(n) \subseteq Nodes /\ n \notin Operands(n)
         /\ Workers \subseteq Nodes
         /\ \A n \in Nodes : n \in Workers <=> tree.type[n] # "Pipe"
         /\ NoNode \notin Nodes
  BY NodeFacts DEF Control, ControlTypes, EvaluationInv, Workers
<1>same. ASSUME pc' = "open" => pc = "open" /\ current' = current,
                pc = "open" => \A k \in Nodes : Begun(k)' => Begun(k)
         PROVE  StartInv'
  BY <1>same, <1>const, <1>tree DEF StartInv
<1>1. CASE ExecuteAsync
  <2>1. PICK n \in todo :
          /\ n \in Nodes /\ ~Begun(n)
          /\ \A m \in Nodes : status'[m] = IF m = n THEN "started" ELSE status[m]
          /\ n \in Workers => current' = n /\ pc' = "open"
          /\ n \notin Workers => UNCHANGED <<pc, current, opening>>
    BY <1>1, StartEffect
  <2>2. CASE n \in Workers
    <3>1. ASSUME NEW m \in Operands(n) PROVE ~Begun(m)'
      <4>1. m \in Nodes /\ m # n /\ tree.father[m] = n
        BY <1>tree DEF Operands
      <4>2. ~Begun(m)
        BY <1>tree, <2>1, <4>1 DEF OrderInv
      <4> QED BY <2>1, <4>1, <4>2 DEF Begun
    <3> QED BY <1>const, <2>1, <2>2, <3>1 DEF StartInv
  <2>3. CASE n \notin Workers
    <3>1. pc = "async"
      BY <1>1 DEF ExecuteAsync
    <3> QED BY <1>same, <2>1, <2>3, <3>1
  <2> QED BY <2>2, <2>3
<1>2. CASE OpenPipe
  BY <1>2, <1>same DEF OpenPipe, Begun
<1>3. CASE Fork \/ CloseUnused \/ Return \/ ToolExits
  <2>1. pc' # "open"
    BY <1>3 DEF Fork, CloseUnused, Return, ToolExits, AfterAsync
  <2> QED BY <2>1 DEF StartInv
<1>4. ASSUME NEW n \in Nodes, Reap(n) PROVE StartInv'
  <2>1. pc' # "open"
    BY <1>4 DEF Reap
  <2> QED BY <2>1 DEF StartInv
<1>5. CASE HandleCompleted
  <2>1. pc' # "open"
    BY <1>5, HandleEffect DEF ExecuteNext, EndOperator
  <2> QED BY <2>1 DEF StartInv
<1>6. ASSUME NEW n \in Nodes, Process(n) PROVE StartInv'
  <2>1. /\ UNCHANGED parentVars /\ state[n] # "none"
        /\ \A k \in Nodes \ {n} : status'[k] = status[k]
    BY <1>6, ProcessEffect DEF Alive
  <2>2. Begun(n)
    BY <1>tree, <2>1 DEF ForkInv
  <2> QED BY <1>same, <2>1, <2>2 DEF Begun, parentVars
<1>7. CASE UNCHANGED vars
  BY <1>7, <1>same DEF vars, parentVars, Begun
<1> QED BY <1>1, <1>2, <1>3, <1>4, <1>5, <1>6, <1>7 DEF Next, Parent

\* The appender's process has all the ends it works with.
LEMMA ForkedHasEnds ==
    ASSUME Control, Memory, StartInv, Fork, NEW c, c = current, ToFile(c)
    PROVE  /\ fds'[c][to_fd'[c]] = EndOf(tree.to[c])
           /\ \A m \in Operands(c) :
                fds'[c][ReadFd(m)] = ReadEnd(m) /\ fds'[c][WriteFd(m)] = WriteEnd(m)
<1>tree. /\ IsWired(tree) /\ MemoryTypes /\ OpeningInv /\ TableInv /\ HeldInv /\ ToFdInv
         /\ ForkInv /\ OrderInv /\ IsTree(tree)
         /\ c \in Sequencers /\ c \in Nodes /\ c \in Processes /\ Sequencers \subseteq Nodes
         /\ Operands(c) \subseteq Nodes /\ c \in Workers /\ IsSequence(c)
         /\ fds \in [Processes -> [Fd -> Ends]] /\ to_fd \in [Nodes -> Fd]
         /\ \A m : WiredWriters(m) \subseteq Nodes
         /\ ~IsPipe(tree.to[c]) /\ Nodes \subseteq Nat /\ NoNode \notin Nodes
  BY NodeFacts, WiredAreWorkers
     DEF Memory, MemoryTypes, Control, ControlTypes, EvaluationInv, Processes, Workers, ToFile
<1>same. /\ pc = "open" /\ opening = <<>> /\ state[c] = "none"
         /\ fds'[c] = fds[Tool] /\ to_fd'[c] = to_fd[c]
  BY <1>tree DEF Fork, ForkInv
<1>opened. \A m \in Nodes : c \in WiredReaders(m) => IsOpened(m)
  BY <1>same, <1>tree DEF OpeningInv, PipesFor
<1>1. ASSUME NEW m \in Operands(c)
      PROVE  fds[Tool][ReadFd(m)] = ReadEnd(m) /\ fds[Tool][WriteFd(m)] = WriteEnd(m)
  <2>1. c \in WiredReaders(m) /\ m \in Nodes
    BY <1>tree DEF WiredReaders
  <2>2. \A n \in WiredReaders(m) : n = c
    BY <1>tree, <2>1, OneReader
  <2>3. ~Past(c)
    BY <1>same DEF Past
  <2>4. ASSUME NEW n \in WiredWriters(m) PROVE ~Past(n)
    <3>1. Under(m, n) /\ n \in Nodes
      <4>1. IsSequenceOperand(m)
        BY <1>tree, <2>1, FatherIsLess DEF IsSequenceOperand, Operands, IsSequence, IsTree
      <4> QED BY <1>tree, <2>1, <4>1, OperandPipe
    <3>2. ~Begun(m)
      BY <1>same, <1>tree DEF StartInv
    <3>3. ~Begun(n)
      BY <1>tree, <2>1, <3>1, <3>2, BegunAbove
    <3> QED BY <1>tree, <3>1, <3>3 DEF Past, ForkInv
  <2> QED BY <1>same, <1>tree, <1>opened, <2>1, <2>2, <2>3, <2>4 DEF HeldInv
<1>2. fds[Tool][to_fd[c]] = EndOf(tree.to[c])
  <2>1. CASE IsFile(tree.to[c])
    <3>1. EndOf(tree.to[c]) = Output(tree.to[c][2])
      BY <1>tree, <2>1 DEF EndOf, FileIndex
    <3> QED BY <1>same, <1>tree, <2>1, <3>1 DEF ToFdInv
  <2>2. CASE ~IsFile(tree.to[c])
    <3>1. to_fd[c] = 1 /\ EndOf(tree.to[c]) = Output(0)
      BY <1>same, <1>tree, <2>2 DEF EndOf, FileIndex, ToFdInv, Tool
    <3> QED BY <1>same, <1>tree, <3>1 DEF TableInv
  <2> QED BY <2>1, <2>2
<1> QED BY <1>same, <1>1, <1>2

\* Every step leaves an appender the ends it works with.
LEMMA AppenderNext ==
    Control /\ Memory /\ DataTypes /\ SourceInv /\ StartInv /\ AppenderInv /\ [Next]_vars
      => AppenderInv'
<1> SUFFICES ASSUME Control, Memory, DataTypes, SourceInv, StartInv, AppenderInv, [Next]_vars
             PROVE  AppenderInv'
  OBVIOUS
<1>const. /\ tree' = tree /\ Nodes' = Nodes /\ Executables' = Executables
          /\ Sequencers' = Sequencers /\ Processes' = Processes
          /\ \A n : Operands(n)' = Operands(n)
  BY TreeConstant
<1>tree. /\ IsWired(tree) /\ IsTree(tree) /\ OpenedInv /\ ForkInv /\ TodoInv
         /\ Executables \subseteq Nodes /\ Sequencers \subseteq Nodes /\ Nodes \subseteq Nat
         /\ Executables \cap Sequencers = {}
         /\ \A n : Operands(n) \subseteq Nodes
         /\ Tool \in Processes /\ Tool \notin Nodes /\ Nodes \subseteq Processes
         /\ state \in [Nodes -> ProcessStates] /\ status \in [Nodes -> {"none", "started", "ok", "failed"}]
         /\ \A n \in Nodes : n \in Executables <=> tree.type[n] = "Executable"
         /\ \A n \in Nodes : n \in Sequencers <=> tree.type[n] \in SequenceTypes
  BY NodeFacts DEF Memory, Control, ControlTypes, EvaluationInv, Processes, Tool, NoNode,
     IsSequence
<1>types. /\ fds \in [Processes -> [Fd -> Ends]] /\ desc \in [Nodes -> Fd \X Fd]
          /\ to_fd \in [Nodes -> Fd] /\ \A m \in Nodes : ReadFd(m) \in Fd /\ WriteFd(m) \in Fd
  BY DEF Memory, MemoryTypes, ReadFd, WriteFd
<1> DEFINE Kept(t) ==
      /\ state'[t] \in {"forked", "copying"} => fds'[t][to_fd'[t]] = EndOf(tree.to[t])
      /\ state'[t] = "forked" =>
           \A m \in Operands(t) :
             fds'[t][ReadFd(m)'] = ReadEnd(m) /\ fds'[t][WriteFd(m)'] = WriteEnd(m)
      /\ state'[t] = "copying" =>
           \A m \in Operands(t) : ~(source'[t] = NoNode \/ m < source'[t]) =>
             fds'[t][ReadFd(m)'] = ReadEnd(m)
<1>ends. ASSUME NEW t \in Nodes, ToFile(t)
         PROVE  /\ HasEnds(t)
                /\ state[t] = "copying" =>
                     \A m \in Operands(t) : ~(source[t] = NoNode \/ m < source[t]) =>
                       fds[t][ReadFd(m)] = ReadEnd(m)
  BY <1>ends DEF AppenderInv, HasEnds, DoneWith
<1>goal. ASSUME \A t \in Nodes : ToFile(t) => Kept(t) PROVE AppenderInv'
  <2>1. \A t : ToFile(t)' <=> ToFile(t)
    BY <1>const DEF ToFile
  <2>2. ASSUME NEW t \in Nodes, ToFile(t) PROVE HasEnds(t)'
    <3>1. Kept(t)
      BY <1>goal, <2>2
    <3>2. EndOf(tree.to[t])' = EndOf(tree.to[t])
      BY <1>const DEF EndOf, FileIndex
    <3>3. \A m : ReadEnd(m)' = ReadEnd(m) /\ WriteEnd(m)' = WriteEnd(m)
      OBVIOUS
    <3> QED BY <1>const, <3>1, <3>2, <3>3 DEF HasEnds, DoneWith
  <2> QED BY <1>const, <2>1, <2>2 DEF AppenderInv
\* The numbers of the pipes an appender reads are known when it is forked.
<1>opened. \A n \in Sequencers : state[n] # "none" => \A m \in Operands(n) : IsOpened(m)
  BY <1>tree DEF OpenedInv, PipesFor, WiredReaders
<1>keep. ASSUME NEW t \in Nodes, ToFile(t),
                fds'[t] = fds[t], to_fd'[t] = to_fd[t], source'[t] = source[t],
                \A m \in Nodes : IsOpened(m) => desc'[m] = desc[m],
                state'[t] \in {"forked", "copying"} => state'[t] = state[t]
         PROVE  Kept(t)
  <2>1. HasEnds(t)
    BY <1>ends, <1>keep
  <2>2. state'[t] \in {"forked", "copying"} =>
          \A m \in Operands(t) : ReadFd(m)' = ReadFd(m) /\ WriteFd(m)' = WriteFd(m)
    BY <1>keep, <1>opened, <1>tree DEF ReadFd, WriteFd, ToFile
  <2> QED BY <1>keep, <1>ends, <2>1, <2>2 DEF HasEnds
<1>all. ASSUME NEW p \in Processes \ Nodes, \A k \in Processes \ {p} : fds'[k] = fds[k],
               \A n \in Nodes : state[n] # "none" => to_fd'[n] = to_fd[n],
               \A m \in Nodes : IsOpened(m) => desc'[m] = desc[m],
               \A n \in Nodes : state'[n] = state[n] \/ state'[n] = "reaped",
               source' = source
        PROVE  AppenderInv'
  <2>1. \A n \in Nodes : fds'[n] = fds[n] /\ source'[n] = source[n]
    BY <1>all, <1>tree
  <2> SUFFICES ASSUME NEW n \in Nodes, ToFile(n) PROVE Kept(n)
    BY <1>goal
  <2>2. state'[n] = state[n] \/ state'[n] = "reaped"
    BY <1>all, <1>tree
  <2>3. CASE state[n] = "none"
    BY <2>2, <2>3
  <2>4. CASE state[n] # "none"
    BY <1>all, <1>keep, <2>1, <2>2, <2>4
  <2> QED BY <2>3, <2>4
<1>1. CASE ExecuteAsync
  <2>1. UNCHANGED <<state, desc, source>>
    BY <1>1 DEF ExecuteAsync, dataVars
  <2>2. \A k \in Processes \ {Tool} : fds'[k] = fds[k]
    BY <1>1, <1>types, <1>tree
       DEF ExecuteAsync, StartPipe, StartExecutable, StartSequence
  <2>3. ASSUME NEW n \in Nodes, state[n] # "none"
        PROVE  to_fd'[n] = to_fd[n]
    <3>1. Begun(n) /\ n \in Nodes
      BY <1>tree, <2>3 DEF ForkInv
    <3>2. todo # {} /\ todo \subseteq Nodes
      BY <1>1 DEF Control, ControlTypes, ControlInv, ExecuteAsync
    <3>3. PICK k \in todo : k = First(todo)
      BY <1>tree, <3>2, FirstNode, NodeFacts
    <3>4. k # n
      BY <1>tree, <3>1, <3>3 DEF TodoInv
    <3>5. to_fd' = to_fd \/ \E fd : to_fd' = [to_fd EXCEPT ![k] = fd]
      BY <1>1, <3>3 DEF ExecuteAsync, StartPipe, StartExecutable, StartSequence
    <3> QED BY <1>types, <3>1, <3>4, <3>5
  <2> QED BY <1>all, <1>tree, <2>1, <2>2, <2>3
<1>2. CASE OpenPipe
  <2>1. UNCHANGED <<state, to_fd, source>> /\ pc = "open" /\ opening # <<>>
    BY <1>2 DEF OpenPipe, dataVars
  <2>2. \A k \in Processes \ {Tool} : fds'[k] = fds[k]
    BY <1>2, <1>types DEF OpenPipe
  <2>3. \A m \in Nodes : IsOpened(m) => desc'[m] = desc[m]
    <3>1. \E pair : desc' = [desc EXCEPT ![Head(opening)] = pair]
      BY <1>2 DEF OpenPipe
    <3>2. ~IsOpened(Head(opening))
      <4>1. opening \in Seq(Nodes) /\ OpeningInv
        BY DEF Control, ControlTypes, Memory
      <4>2. 1 \in 1..Len(opening) /\ Head(opening) = opening[1]
        BY <2>1, <4>1, EmptySeq, HeadTailProperties, LenProperties
      <4> QED BY <2>1, <4>1, <4>2 DEF OpeningInv
    <3> QED BY <1>types, <3>1, <3>2
  <2> QED BY <1>all, <1>tree, <2>1, <2>2, <2>3
<1>3. CASE Fork
  <2>1. PICK c \in Executables \cup Sequencers : c = current
    BY <1>3 DEF Fork, Control, ControlInv, Workers
  <2>2. /\ state' = [state EXCEPT ![c] = "forked"] /\ fds' = [fds EXCEPT ![c] = fds[Tool]]
        /\ UNCHANGED <<desc, source>>
        /\ to_fd' = to_fd \/ \E fd : to_fd' = [to_fd EXCEPT ![c] = fd]
    BY <1>3, <2>1 DEF Fork, dataVars
  <2>3. c \in Nodes /\ state'[c] = "forked"
    BY <1>tree, <2>2
  <2>4. \A m : ReadFd(m)' = ReadFd(m) /\ WriteFd(m)' = WriteFd(m)
    BY <2>2 DEF ReadFd, WriteFd
  <2> SUFFICES ASSUME NEW n \in Nodes, ToFile(n) PROVE Kept(n)
    BY <1>goal
  <2>5. CASE n = c
    <3>1. /\ fds'[n][to_fd'[n]] = EndOf(tree.to[n])
          /\ \A m \in Operands(n) :
               fds'[n][ReadFd(m)] = ReadEnd(m) /\ fds'[n][WriteFd(m)] = WriteEnd(m)
      BY <1>3, <2>1, <2>5, ForkedHasEnds
    <3> QED BY <2>3, <2>4, <2>5, <3>1
  <2>6. CASE n # c
    <3>1. /\ n \in Nodes /\ n \in Processes
          /\ state'[n] = state[n] /\ fds'[n] = fds[n] /\ to_fd'[n] = to_fd[n]
          /\ source'[n] = source[n]
          /\ \A m \in Nodes : IsOpened(m) => desc'[m] = desc[m]
      BY <1>tree, <1>types, <2>2, <2>6
    <3> QED BY <1>keep, <3>1
  <2> QED BY <2>5, <2>6
<1>4. CASE CloseUnused
  <2>1. UNCHANGED <<state, to_fd, desc, source>>
    BY <1>4 DEF CloseUnused, dataVars
  <2>2. \A k \in Processes \ {Tool} : fds'[k] = fds[k]
    BY <1>4, <1>types DEF CloseUnused, CloseAfterExecutable, CloseAfterAppender
  <2> QED BY <1>all, <1>tree, <2>1, <2>2
<1>5. ASSUME NEW n \in Nodes, Reap(n) PROVE AppenderInv'
  <2>1. /\ UNCHANGED <<fds, to_fd, desc, source>> /\ state' = [state EXCEPT ![n] = "reaped"]
    BY <1>5 DEF Reap, memoryVars, dataVars
  <2>2. \A k \in Nodes : state'[k] = state[k] \/ state'[k] = "reaped"
    BY <1>tree, <2>1
  <2> QED BY <1>all, <1>tree, <2>1, <2>2
<1>6. CASE HandleCompleted \/ Return \/ ToolExits
  <2>1. UNCHANGED <<state, to_fd, desc, source>>
    BY <1>6 DEF HandleCompleted, Return, ToolExits, memoryVars, dataVars
  <2>2. \A k \in Processes \ {Tool} : fds'[k] = fds[k]
    BY <1>6, <1>types DEF HandleCompleted, Return, ToolExits
  <2> QED BY <1>all, <1>tree, <2>1, <2>2
<1>7. ASSUME NEW n \in Nodes, Process(n) PROVE AppenderInv'
  <2>1. /\ UNCHANGED <<desc, to_fd>>
        /\ \A k \in Nodes \ {n} : state'[k] = state[k]
    BY <1>7, ProcessEffect DEF memoryVars
  <2>2. \A p \in Processes \ {n} : fds'[p] = fds[p]
    BY <1>7, ProcessTable
  <2>3. \A k \in Nodes \ {n} : source'[k] = source[k]
    <3>1. source' = source \/ \E m : source' = [source EXCEPT ![n] = m]
      BY <1>7 DEF Process, Child, Executable, Appender, ChildInvokes, ChildFails,
         ExecutableReads, ExecutableWrites, WriteFails, ExecutableExits, AppenderStarts,
         AppenderReads, AppenderWrites, AppenderFails, AppenderEndsSource, AppenderExits,
         dataVars
    <3>2. source \in [Nodes -> Nodes \cup {NoNode}]
      BY DEF DataTypes
    <3> QED BY <3>1, <3>2
  <2>4. \A m : ReadFd(m)' = ReadFd(m) /\ WriteFd(m)' = WriteFd(m)
    BY <2>1 DEF ReadFd, WriteFd
  <2>5. ASSUME ToFile(n) PROVE Kept(n)
    <3>0. /\ n \in Processes /\ fds[n] \in [Fd -> Ends] /\ n \in Sequencers
          /\ n \notin Executables /\ HasEnds(n) /\ ~IsPipe(tree.to[n])
          /\ to_fd[n] \in Fd /\ Operands(n) \subseteq Nodes
          /\ \E k : EndOf(tree.to[n]) = Output(k)
      BY <1>ends, <1>tree, <1>types, <2>5 DEF ToFile, EndOf
    <3>1. CASE AppenderStarts(n)
      <4>1. /\ PipesOf(tree.to[n]) = {} /\ UNCHANGED to_fd
            /\ state[n] = "forked" /\ state'[n] = "copying"
        BY <3>0, <3>1, <1>tree, <2>1 DEF AppenderStarts, PipesOf
      <4>2. fds' = [fds EXCEPT ![n] = WithoutFds(fds[n], {WriteFd(m) : m \in Operands(n)})]
        <5>1. {ReadFd(m) : m \in PipesOf(tree.to[n])} \cup {WriteFd(m) : m \in Operands(n)}
                = {WriteFd(m) : m \in Operands(n)}
          BY <4>1
        <5> QED BY <3>1, <5>1 DEF AppenderStarts
      <4>3. \A fd \in Fd : fds'[n][fd] = IF fd \in {WriteFd(m) : m \in Operands(n)}
                                           THEN Closed ELSE fds[n][fd]
        BY <3>0, <4>2, <1>types, WithoutFacts
      <4>4. /\ fds[n][to_fd[n]] = EndOf(tree.to[n])
            /\ \A m \in Operands(n) :
                 fds[n][ReadFd(m)] = ReadEnd(m) /\ fds[n][WriteFd(m)] = WriteEnd(m)
        BY <3>0, <4>1 DEF HasEnds
      <4>5. /\ to_fd[n] \notin {WriteFd(m) : m \in Operands(n)}
            /\ \A k \in Operands(n) : ReadFd(k) \notin {WriteFd(m) : m \in Operands(n)}
        <5>1. PICK k : EndOf(tree.to[n]) = Output(k)
          BY <3>0
        <5>2. \A m \in Operands(n) : WriteEnd(m) # Output(k)
          BY EndsFacts
        <5>3. \A m, j \in Operands(n) : WriteEnd(m) # ReadEnd(j)
          BY EndsFacts
        <5> QED BY <4>4, <5>1, <5>2, <5>3
      <4> QED BY <1>types, <2>4, <3>0, <4>1, <4>3, <4>4, <4>5
    <3>2. CASE AppenderReads(n) \/ AppenderWrites(n)
      <4>1. UNCHANGED <<fds, to_fd, source, state, desc>>
        BY <3>2 DEF AppenderReads, AppenderWrites, memoryVars
      <4> QED BY <1>keep, <2>5, <4>1
    <3>3. CASE AppenderEndsSource(n)
      <4>1. /\ state[n] = "copying" /\ UNCHANGED <<to_fd, state>> /\ source[n] # NoNode
            /\ source' = [source EXCEPT ![n] = NextSource(n)]
            /\ fds' = [fds EXCEPT ![n] = WithoutFds(fds[n], {ReadFd(source[n])})]
        BY <3>3 DEF AppenderEndsSource, memoryVars
      <4>2. PICK s \in Operands(n) : s = source[n]
        BY <4>1 DEF SourceInv
      <4>3. s \in Nat /\ s \in Nodes /\ ReadFd(s) \in Fd
        BY <1>tree, <1>types, <4>2
      <4>4. \A fd \in Fd : fds'[n][fd] = IF fd = ReadFd(s) THEN Closed ELSE fds[n][fd]
        BY <3>0, <4>1, <4>2, <1>types, WithoutFacts
      <4>5. /\ fds[n][to_fd[n]] = EndOf(tree.to[n])
            /\ \A m \in Operands(n) : ~(m < s) => fds[n][ReadFd(m)] = ReadEnd(m)
        BY <1>ends, <2>5, <3>0, <4>1, <4>2 DEF HasEnds
      <4>6. fds[n][ReadFd(s)] = ReadEnd(s)
        BY <4>3, <4>5
      <4>7. to_fd[n] # ReadFd(s)
        BY <3>0, <4>5, <4>6, EndsFacts
      <4>8. ASSUME NEW m \in Operands(n), source'[n] # NoNode, ~(m < source'[n])
            PROVE  fds'[n][ReadFd(m)] = ReadEnd(m)
        <5>1. source'[n] = NextSource(n)
          BY <4>1 DEF DataTypes
        <5>2. LaterOperands(n, s) # {} /\ source'[n] = First(LaterOperands(n, s))
          BY <4>2, <4>8, <5>1 DEF NextSource
        <5>3. LaterOperands(n, s) \subseteq Nodes
          BY <3>0 DEF LaterOperands
        <5>4. PICK q \in LaterOperands(n, s) : q = source'[n]
          <6>1. LaterOperands(n, s) \in SUBSET Nodes
            BY <5>3
          <6>2. First(LaterOperands(n, s)) \in LaterOperands(n, s)
            BY <1>tree, <5>2, <6>1, FirstNode
          <6> QED BY <5>2, <6>2
        <5>5. q \in Nat /\ m \in Nat /\ m \in Nodes /\ q > s
          BY <1>tree, <3>0, <5>3, <5>4 DEF LaterOperands
        <5>6. m > s
          BY <4>3, <4>8, <5>4, <5>5
        <5>7. fds[n][ReadFd(m)] = ReadEnd(m) /\ m # s
          BY <4>3, <4>5, <5>5, <5>6
        <5>8. ReadFd(m) # ReadFd(s)
          BY <4>6, <5>7, EndsFacts
        <5> QED BY <1>types, <4>4, <5>5, <5>7, <5>8
      <4>9. state'[n] = "copying" /\ to_fd'[n] = to_fd[n]
        BY <4>1
      <4>10. fds'[n][to_fd'[n]] = EndOf(tree.to[n])
        BY <3>0, <4>4, <4>5, <4>7, <4>9
      <4> QED BY <2>4, <4>8, <4>9, <4>10
    <3>4. CASE AppenderFails(n) \/ AppenderExits(n)
      <4>1. state' = [state EXCEPT ![n] = "zombie"]
        BY <3>4 DEF AppenderFails, AppenderExits, Terminates
      <4> QED BY <1>tree, <4>1
    <3>5. ~Child(n) /\ ~Executable(n)
      BY <3>0, <1>tree DEF Child, Executable, ChildInvokes, ChildFails, ExecutableReads,
         ExecutableWrites, WriteFails, ExecutableExits, ForkInv
    <3> QED BY <1>7, <3>1, <3>2, <3>3, <3>4, <3>5 DEF Process, Appender
  <2> SUFFICES ASSUME NEW k \in Nodes, ToFile(k) PROVE Kept(k)
    BY <1>goal
  <2>6. CASE k = n
    BY <2>5, <2>6
  <2>7. CASE k # n
    <3>1. /\ state'[k] = state[k] /\ fds'[k] = fds[k] /\ to_fd'[k] = to_fd[k]
          /\ source'[k] = source[k]
          /\ \A m \in Nodes : IsOpened(m) => desc'[m] = desc[m]
      BY <1>tree, <2>1, <2>2, <2>3, <2>7
    <3> QED BY <1>keep, <3>1
  <2> QED BY <2>6, <2>7
<1>8. CASE UNCHANGED vars
  <2>1. UNCHANGED <<state, to_fd, desc, fds, source>>
    BY <1>8 DEF vars, memoryVars, dataVars
  <2> QED BY <1>all, <1>tree, <2>1
<1> QED BY <1>1, <1>2, <1>3, <1>4, <1>5, <1>6, <1>7, <1>8 DEF Next, Parent

\* An executable reads the pipe of an operand of a pipe, never that of a sequence.
LEMMA InputNext == Control /\ Memory /\ InputInv /\ [Next]_vars => InputInv'
<1> SUFFICES ASSUME Control, Memory, InputInv, [Next]_vars PROVE InputInv'
  OBVIOUS
<1>const. /\ Nodes' = Nodes /\ Executables' = Executables
          /\ \A m : IsSequenceOperand(m)' = IsSequenceOperand(m)
  BY TreeConstant
<1>tree. /\ IsWired(tree) /\ ForkInv
         /\ Executables \subseteq Nodes /\ Executables \cap Sequencers = {}
         /\ Tool \notin Nodes /\ Nodes \subseteq Processes
         /\ state \in [Nodes -> ProcessStates] /\ fds \in [Processes -> [Fd -> Ends]]
         /\ \A n \in Nodes : n \in Executables <=> tree.type[n] = "Executable"
  BY NodeFacts
     DEF Memory, MemoryTypes, Control, ControlTypes, Processes, Tool, NoNode
<1>keep. ASSUME \A n \in Executables :
                  state'[n] \in {"running", "writing", "written"} =>
                    \/ Invoked(n) /\ fds'[n] = fds[n]
                    \/ \A m \in Nodes : IsSequenceOperand(m) => fds'[n][0] # ReadEnd(m)
         PROVE  InputInv'
  BY <1>keep, <1>const DEF InputInv, Invoked
<1>quiet. ASSUME \A n \in Nodes : fds'[n] = fds[n],
                 \A n \in Nodes : state'[n] = state[n] \/ state'[n] \in {"forked", "reaped"}
          PROVE  InputInv'
  <2>1. ASSUME NEW n \in Executables, state'[n] \in {"running", "writing", "written"}
        PROVE  Invoked(n) /\ fds'[n] = fds[n]
    <3>1. state'[n] = state[n]
      BY <1>quiet, <1>tree, <2>1
    <3> QED BY <1>quiet, <1>tree, <2>1, <3>1 DEF Invoked
  <2> QED BY <1>keep, <2>1
<1>1. CASE ExecuteAsync
  <2>1. state' = state /\ \A n \in Nodes : fds'[n] = fds[n]
    BY <1>1, <1>tree DEF ExecuteAsync, StartPipe, StartExecutable, StartSequence
  <2> QED BY <1>quiet, <2>1
<1>2. CASE OpenPipe \/ CloseUnused \/ HandleCompleted \/ Return \/ ToolExits
  <2>1. state' = state /\ \A n \in Nodes : fds'[n] = fds[n]
    BY <1>2, <1>tree
       DEF OpenPipe, CloseUnused, CloseAfterExecutable, CloseAfterAppender, HandleCompleted,
           Return, ToolExits
  <2> QED BY <1>quiet, <2>1
<1>3. CASE Fork
  <2>1. /\ state' = [state EXCEPT ![current] = "forked"]
        /\ \A n \in Nodes \ {current} : fds'[n] = fds[n]
        /\ current \in Nodes
    BY <1>3, <1>tree DEF Fork, Control, ControlInv, Workers, Executables, Sequencers
  <2>2. ASSUME NEW n \in Executables, state'[n] \in {"running", "writing", "written"}
        PROVE  Invoked(n) /\ fds'[n] = fds[n]
    <3>1. n # current
      BY <1>tree, <2>1, <2>2
    <3> QED BY <1>tree, <2>1, <2>2, <3>1 DEF Invoked
  <2> QED BY <1>keep, <2>2
<1>4. ASSUME NEW n \in Nodes, Reap(n) PROVE InputInv'
  <2>1. fds' = fds /\ state' = [state EXCEPT ![n] = "reaped"]
    BY <1>4 DEF Reap
  <2>2. \A k \in Nodes : state'[k] = state[k] \/ state'[k] \in {"forked", "reaped"}
    BY <1>tree, <2>1
  <2> QED BY <1>quiet, <2>1, <2>2
<1>5. ASSUME NEW n \in Nodes, Process(n) PROVE InputInv'
  <2>1. /\ \A k \in Nodes \ {n} : state'[k] = state[k] /\ fds'[k] = fds[k]
    BY <1>5, <1>tree, ProcessEffect, ProcessTable
  <2>2. ASSUME n \in Executables, state'[n] \in {"running", "writing", "written"}
        PROVE  \/ Invoked(n) /\ fds'[n] = fds[n]
               \/ \A m \in Nodes : IsSequenceOperand(m) => fds'[n][0] # ReadEnd(m)
    <3>1. CASE ChildInvokes(n)
      <4>1. state[n] = "forked" /\ fds'[n] = InvokedTable(n)
        BY <1>tree, <3>1 DEF ChildInvokes
      <4>2. fds'[n][0] \in {InputOf(tree.std_in[n]), Closed}
        BY <2>2, <4>1, ChildStreams
      <4> SUFFICES ASSUME NEW m \in Nodes, IsSequenceOperand(m), fds'[n][0] = ReadEnd(m)
                   PROVE  FALSE
        OBVIOUS
      <4>3. InputOf(tree.std_in[n]) = ReadEnd(m)
        BY <4>2, EndsFacts
      <4>4. tree.std_in[n] = PipeOf(m)
        <5>1. IsPipe(tree.std_in[n]) /\ tree.std_in[n][2] = m
          BY <4>3, EndsFacts DEF InputOf
        <5> QED BY <1>tree, <2>2, <5>1, WiringRules, StreamFacts
      <4>5. n \in WiredReaders(m)
        BY <2>2, <4>4 DEF WiredReaders
      <4>6. n = tree.father[m] /\ tree.father[m] \in Sequencers
        BY <1>tree, <4>5, OperandPipe
      <4> QED BY <1>tree, <2>2, <4>6
    <3>2. CASE ExecutableReads(n) \/ ExecutableWrites(n)
      BY <2>2, <3>2 DEF ExecutableReads, ExecutableWrites, Invoked
    <3>3. CASE ChildFails(n) \/ WriteFails(n) \/ ExecutableExits(n)
      <4>1. state' = [state EXCEPT ![n] = "zombie"]
        BY <3>3 DEF ChildFails, WriteFails, ExecutableExits, ExecutableEnds, Terminates
      <4> QED BY <1>tree, <2>2, <4>1
    <3>4. CASE Appender(n)
      <4>1. n \in Sequencers
        <5>1. tree.type[n] \in SequenceTypes \/ state[n] = "copying"
          BY <3>4 DEF Appender, AppenderStarts, AppenderReads, AppenderWrites, AppenderFails,
             AppenderEndsSource, AppenderExits
        <5> QED BY <1>tree, <2>2, <5>1 DEF ForkInv, Sequencers
      <4> QED BY <1>tree, <2>2, <4>1
    <3> QED BY <1>5, <3>1, <3>2, <3>3, <3>4 DEF Process, Child, Executable
  <2>3. ASSUME NEW k \in Executables, k # n, state'[k] \in {"running", "writing", "written"}
        PROVE  Invoked(k) /\ fds'[k] = fds[k]
    BY <1>tree, <2>1, <2>3 DEF Invoked
  <2> QED BY <1>keep, <2>2, <2>3
<1>6. CASE UNCHANGED vars
  BY <1>6, <1>quiet DEF vars
<1> QED BY <1>1, <1>2, <1>3, <1>4, <1>5, <1>6 DEF Next, Parent

-----------------------------------------------------------------------------
(* The end of the output of an operand.                                    *)

\* An appender that writes to a file is not stopped by what it writes.
LEMMA NeverBroken ==
    ASSUME AppenderInv, NEW t \in Nodes, ToFile(t)
    PROVE  ~AppenderFails(t)
<1> SUFFICES ASSUME AppenderFails(t) PROVE FALSE
  OBVIOUS
<1>1. state[t] = "copying" /\ IsBroken(fds[t][to_fd[t]])
  BY DEF AppenderFails
<1>2. fds[t][to_fd[t]] = EndOf(tree.to[t])
  BY <1>1 DEF AppenderInv, HasEnds
<1>3. EndOf(tree.to[t])[1] = "output"
  BY DEF ToFile, EndOf, Output
<1> QED BY <1>1, <1>2, <1>3 DEF IsBroken

\* An appender is done with an operand at the end of its output.
LEMMA DoneStep ==
    ASSUME Control, Memory, DataTypes, SourceInv, AppenderInv, [Next]_vars,
           NEW t \in Nodes, ToFile(t), NEW m \in Operands(t),
           DoneWith(t, m)', ~DoneWith(t, m)
    PROVE  AppenderEndsSource(t) /\ source[t] = m /\ buffer[m] = <<>> /\ Writers(m) = {}
<1>tree. /\ IsTree(tree) /\ ForkInv /\ t \in Sequencers
         /\ Sequencers \subseteq Nodes /\ Nodes \subseteq Nat /\ NoNode \notin Nodes
         /\ Executables \cap Sequencers = {}
         /\ Operands(t) \subseteq Nodes /\ m \in Nodes
         /\ state \in [Nodes -> ProcessStates]
         /\ source \in [Nodes -> Nodes \cup {NoNode}]
         /\ \A n \in Nodes : n \in Executables <=> tree.type[n] = "Executable"
  BY NodeFacts DEF Control, ControlTypes, DataTypes, ToFile
<1>done. DoneWith(t, m)' <=>
           \/ state'[t] = "zombie"
           \/ state'[t] = "copying" /\ (source'[t] = NoNode \/ m < source'[t])
  BY DEF DoneWith
<1>1. ~(state'[t] = state[t] /\ source'[t] = source[t])
  BY <1>done DEF DoneWith
<1>2. state'[t] \in {"zombie", "copying"}
  BY <1>done
<1>3. ASSUME NEW n \in Nodes, Process(n) PROVE Process(t)
  <2>1. /\ \A k \in Nodes \ {n} : state'[k] = state[k]
    BY <1>3, ProcessEffect
  <2>2. source' = source \/ \E k : source' = [source EXCEPT ![n] = k]
    BY <1>3 DEF Process, Child, Executable, Appender, ChildInvokes, ChildFails,
       ExecutableReads, ExecutableWrites, WriteFails, ExecutableExits, AppenderStarts,
       AppenderReads, AppenderWrites, AppenderFails, AppenderEndsSource, AppenderExits,
       dataVars
  <2>3. n # t => state'[t] = state[t] /\ source'[t] = source[t]
    BY <1>tree, <2>1, <2>2
  <2> QED BY <1>1, <1>3, <2>3
<1>4. Process(t)
  <2>1. CASE Fork
    <3>1. source' = source /\ state' = [state EXCEPT ![current] = "forked"]
      BY <2>1 DEF Fork, dataVars
    <3> QED BY <1>tree, <1>1, <1>2, <3>1
  <2>2. ASSUME NEW n \in Nodes, Reap(n) PROVE FALSE
    <3>1. source' = source /\ state' = [state EXCEPT ![n] = "reaped"]
      BY <2>2 DEF Reap, dataVars
    <3> QED BY <1>tree, <1>1, <1>2, <3>1
  <2>3. CASE ExecuteAsync \/ OpenPipe \/ CloseUnused \/ HandleCompleted \/ Return \/ ToolExits
             \/ UNCHANGED vars
    <3>1. source' = source /\ state' = state
      BY <2>3 DEF ExecuteAsync, OpenPipe, CloseUnused, HandleCompleted, Return, ToolExits,
         vars, dataVars
    <3> QED BY <1>1, <3>1
  <2> QED BY <1>3, <2>1, <2>2, <2>3 DEF Next, Parent
<1>5. Appender(t)
  <2>1. ~Child(t) /\ ~Executable(t)
    BY <1>tree DEF Child, Executable, ChildInvokes, ChildFails, ExecutableReads,
       ExecutableWrites, WriteFails, ExecutableExits, ForkInv
  <2> QED BY <1>4, <2>1 DEF Process
<1>6. ~AppenderStarts(t)
  <2>1. SUFFICES ASSUME AppenderStarts(t) PROVE FALSE
    OBVIOUS
  <2>2. /\ source' = [source EXCEPT ![t] = First(Operands(t))]
        /\ state' = [state EXCEPT ![t] = "copying"]
    BY <2>1 DEF AppenderStarts
  <2>3. First(Operands(t)) \in Nodes /\ First(Operands(t)) <= m
    BY <1>tree, FirstIsLeast
  <2>4. source'[t] # NoNode /\ ~(m < source'[t])
    BY <1>tree, <2>2, <2>3
  <2> QED BY <1>tree, <1>done, <2>2, <2>4
<1>7. ~AppenderReads(t) /\ ~AppenderWrites(t)
  BY <1>1 DEF AppenderReads, AppenderWrites
<1>8. ~AppenderFails(t)
  BY NeverBroken
<1>9. ~AppenderExits(t)
  BY DEF AppenderExits, DoneWith
<1>10. AppenderEndsSource(t)
  BY <1>5, <1>6, <1>7, <1>8, <1>9 DEF Appender
<1>11. /\ state[t] = "copying" /\ source[t] # NoNode /\ state' = state
       /\ source'[t] = NextSource(t)
       /\ AtEndOfFile(fds[t][ReadFd(source[t])])
  BY <1>10, <1>tree DEF AppenderEndsSource
<1>12. PICK s \in Operands(t) : s = source[t]
  BY <1>11 DEF SourceInv
<1>13. s \in Nat /\ m \in Nat /\ s \in Nodes /\ ~(m < s)
  BY <1>tree, <1>11, <1>12 DEF DoneWith
<1>14. m = s
  <2>1. SUFFICES ASSUME m # s PROVE FALSE
    OBVIOUS
  <2>2. m \in LaterOperands(t, s)
    BY <1>13, <2>1 DEF LaterOperands
  <2>3. LaterOperands(t, s) \subseteq Nodes
    BY <1>tree DEF LaterOperands
  <2>4. First(LaterOperands(t, s)) \in Nodes /\ First(LaterOperands(t, s)) <= m
    BY <1>tree, <2>2, <2>3, FirstIsLeast
  <2>5. source'[t] = First(LaterOperands(t, s))
    BY <1>11, <1>12, <2>2 DEF NextSource
  <2> QED BY <1>tree, <1>done, <1>11, <1>13, <2>4, <2>5
<1>15. fds[t][ReadFd(m)] = ReadEnd(m)
  BY <1>11 DEF AppenderInv, HasEnds
<1>16. buffer[m] = <<>> /\ Writers(m) = {}
  <2>1. ReadEnd(m)[1] = "read" /\ ReadEnd(m)[2] = m
    BY DEF ReadEnd
  <2> QED BY <1>11, <1>12, <1>14, <1>15, <2>1 DEF AtEndOfFile
<1> QED BY <1>10, <1>12, <1>14, <1>16

\* Once nobody can write for an operand, nobody will.
LEMMA WritersGone ==
    ASSUME EnoughFds, Control, Memory, [Next]_vars, NEW m \in Nodes,
           IsSequenceOperand(m), IsOpened(m), Writers(m) = {}
    PROVE  Writers(m)' = {}
<1>const. /\ Processes' = Processes /\ Nodes' = Nodes
  BY TreeConstant
<1>tree. /\ IsWired(tree) /\ ForkInv /\ ChildInv
         /\ Tool \in Processes /\ Nodes \subseteq Processes /\ Tool \notin Nodes
         /\ Processes = Nodes \cup {Tool}
         /\ fds \in [Processes -> [Fd -> Ends]]
         /\ \A n \in Nodes : n \in Executables <=> tree.type[n] = "Executable"
         /\ WriteFd(m) \in Fd
         /\ Executables \subseteq Nodes /\ Sequencers \subseteq Nodes
  BY NodeFacts
     DEF Memory, MemoryTypes, Control, ControlTypes, Processes, Tool, NoNode, WriteFd
<1>none. \A p \in Processes, fd \in Fd : fds[p][fd] # WriteEnd(m)
  BY DEF Writers, Holds
<1>goal. ASSUME \A p \in Processes, fd \in Fd : fds'[p][fd] # WriteEnd(m)
         PROVE  Writers(m)' = {}
  BY <1>goal, <1>const DEF Writers, Holds
<1>keep. ASSUME NEW p \in Processes, \A k \in Processes \ {p} : fds'[k] = fds[k],
                \A fd \in Fd : fds'[p][fd] # WriteEnd(m)
         PROVE  Writers(m)' = {}
  BY <1>keep, <1>none, <1>goal
<1>notend. WriteEnd(m) # Closed /\ \A k : WriteEnd(m) # Output(k) /\ WriteEnd(m) # ReadEnd(k)
  BY EndsFacts
<1>same. ASSUME fds' = fds PROVE Writers(m)' = {}
  BY <1>same, <1>none, <1>goal
<1>1. CASE ExecuteAsync
  <2>1. \/ fds' = fds
        \/ \E k : fds' = [fds EXCEPT ![Tool] = Opened(fds[Tool], Output(k))]
    BY <1>1 DEF ExecuteAsync, StartPipe, StartExecutable, StartSequence
  <2>2. ASSUME NEW k, fds' = [fds EXCEPT ![Tool] = Opened(fds[Tool], Output(k))]
        PROVE  Writers(m)' = {}
    <3>1. \A fd \in Fd : Opened(fds[Tool], Output(k))[fd] \in {Output(k), fds[Tool][fd]}
      BY <1>tree DEF Opened
    <3>2. /\ fds'[Tool] = Opened(fds[Tool], Output(k))
          /\ \A p \in Processes \ {Tool} : fds'[p] = fds[p]
      BY <1>tree, <2>2
    <3>3. \A fd \in Fd : fds'[Tool][fd] # WriteEnd(m)
      BY <1>tree, <1>none, <1>notend, <3>1, <3>2
    <3> QED BY <1>tree, <1>keep, <3>2, <3>3
  <2> QED BY <1>same, <2>1, <2>2
<1>2. CASE OpenPipe
  <2>1. PICK k \in Nodes, r \in 3..MaxFd, w \in 3..MaxFd, u \in [Fd -> Ends] :
          /\ ~IsOpened(k) /\ fds' = [fds EXCEPT ![Tool] = u]
          /\ \A fd \in Fd : u[fd] = IF fd = w THEN WriteEnd(k)
                                    ELSE IF fd = r THEN ReadEnd(k) ELSE fds[Tool][fd]
    BY <1>2, PipeNumbers
  <2>2. k # m /\ WriteEnd(k) # WriteEnd(m)
    BY <2>1, EndsFacts
  <2>3. /\ fds'[Tool] = u /\ \A p \in Processes \ {Tool} : fds'[p] = fds[p]
    BY <1>tree, <2>1
  <2>4. \A fd \in Fd : fds'[Tool][fd] # WriteEnd(m)
    BY <1>tree, <1>none, <1>notend, <2>1, <2>2, <2>3
  <2> QED BY <1>tree, <1>keep, <2>3, <2>4
<1>3. CASE Fork
  <2>1. current \in Processes /\ fds' = [fds EXCEPT ![current] = fds[Tool]]
    BY <1>3, <1>tree DEF Fork, Control, ControlInv, Workers
  <2>2. /\ fds'[current] = fds[Tool]
        /\ \A p \in Processes \ {current} : fds'[p] = fds[p]
    BY <1>tree, <2>1
  <2> QED BY <1>tree, <1>keep, <1>none, <2>1, <2>2
<1>4. CASE CloseUnused
  <2>1. PICK u \in [Fd -> Ends] : /\ fds' = [fds EXCEPT ![Tool] = u]
                                  /\ \A fd \in Fd : u[fd] \in {fds[Tool][fd], Closed}
    BY <1>4, ClosedEnds
  <2>2. /\ fds'[Tool] = u /\ \A p \in Processes \ {Tool} : fds'[p] = fds[p]
    BY <1>tree, <2>1
  <2>3. \A fd \in Fd : fds'[Tool][fd] # WriteEnd(m)
    BY <1>tree, <1>none, <1>notend, <2>1, <2>2
  <2> QED BY <1>tree, <1>keep, <2>2, <2>3
<1>5. CASE HandleCompleted \/ Return \/ UNCHANGED vars
  BY <1>5, <1>same DEF HandleCompleted, Return, vars
<1>6. ASSUME NEW n \in Nodes, Reap(n) PROVE Writers(m)' = {}
  BY <1>6, <1>same DEF Reap
<1>7. CASE ToolExits
  <2>1. fds' = [fds EXCEPT ![Tool] = EmptyTable]
    BY <1>7 DEF ToolExits
  <2>2. /\ fds'[Tool] = EmptyTable /\ \A p \in Processes \ {Tool} : fds'[p] = fds[p]
    BY <1>tree, <2>1
  <2> QED BY <1>tree, <1>keep, <1>notend, <2>2 DEF EmptyTable
<1>8. ASSUME NEW n \in Nodes, Process(n) PROVE Writers(m)' = {}
  <2>1. n \in Processes /\ \A p \in Processes \ {n} : fds'[p] = fds[p]
    BY <1>8, <1>tree, ProcessTable
  <2> SUFFICES ASSUME NEW fd \in Fd, fds'[n][fd] = WriteEnd(m) PROVE FALSE
    BY <1>keep, <2>1
  <2>2. CASE ChildInvokes(n)
    <3>1. fds'[n] = InvokedTable(n) /\ n \in Executables /\ state[n] = "forked"
      BY <1>8, <1>tree, <2>2 DEF ChildInvokes
    <3>2. fd = 1
      BY <3>1, ChildTable DEF NoAppenderEnds
    <3>3. WriteEnd(m) \in {EndOf(tree.std_out[n]), Closed}
      BY <3>1, <3>2, ChildStreams
    <3>4. WriteEnd(m) = EndOf(tree.std_out[n])
      BY <1>notend, <3>3
    <3>5. tree.std_out[n] = PipeOf(m)
      <4>1. IsPipe(tree.std_out[n]) /\ tree.std_out[n][2] = m
        BY <3>4, EndsFacts DEF EndOf
      <4> QED BY <1>tree, <3>1, <4>1, WiringRules, StreamFacts
    <3>6. fds[n][WriteFd(m)] = WriteEnd(m)
      BY <1>tree, <3>1, <3>5 DEF ChildInv
    <3> QED BY <1>tree, <1>none, <2>1, <3>6
  <2>3. CASE \E S : fds' = [fds EXCEPT ![n] = WithoutFds(fds[n], S)]
    <3>1. PICK S : fds' = [fds EXCEPT ![n] = WithoutFds(fds[n], S)]
      BY <2>3
    <3>2. fds[n] \in [Fd -> Ends] /\ fds'[n] = WithoutFds(fds[n], S)
      BY <1>tree, <2>1, <3>1
    <3>3. fds'[n][fd] \in {fds[n][fd], Closed}
      BY <3>2, WithoutFacts
    <3> QED BY <1>none, <1>notend, <2>1, <3>3
  <2>4. CASE fds' = fds
    BY <1>none, <2>1, <2>4
  <2>5. CASE Terminates(n)
    <3>1. fds'[n] = EmptyTable
      BY <1>tree, <2>1, <2>5 DEF Terminates
    <3> QED BY <1>notend, <3>1 DEF EmptyTable
  <2> QED BY <1>8, <2>2, <2>3, <2>4, <2>5
          DEF Process, Child, Executable, Appender, ChildFails, ExecutableReads,
              ExecutableWrites, WriteFails, ExecutableExits, AppenderStarts, AppenderReads,
              AppenderWrites, AppenderFails, AppenderEndsSource, AppenderExits, ExecutableEnds
<1> QED BY <1>1, <1>2, <1>3, <1>4, <1>5, <1>6, <1>7, <1>8 DEF Next, Parent

\* What an appender is done with stays silent.
LEMMA SilenceNext ==
    EnoughFds /\ Control /\ Memory /\ DataTypes /\ SourceInv /\ AppenderInv /\ SilenceInv
      /\ [Next]_vars => SilenceInv'
<1> SUFFICES ASSUME EnoughFds, Control, Memory, DataTypes, SourceInv, AppenderInv, SilenceInv,
                    [Next]_vars
             PROVE  SilenceInv'
  OBVIOUS
<1>const. /\ tree' = tree /\ Nodes' = Nodes /\ Sequencers' = Sequencers
          /\ \A n : Operands(n)' = Operands(n)
  BY TreeConstant
<1> SUFFICES ASSUME NEW t \in Nodes, ToFile(t), NEW m \in Operands(t), DoneWith(t, m)'
             PROVE  Writers(m)' = {}
  BY <1>const DEF SilenceInv, ToFile
<1>tree. /\ IsWired(tree) /\ IsTree(tree) /\ OpenedInv /\ ForkInv /\ t \in Sequencers
         /\ m \in Nodes /\ t \in Workers /\ tree.father[m] = t
         /\ 1 \in Nodes /\ \A n \in Nodes : tree.father[n] # n
  BY NodeFacts DEF Memory, Control, ControlTypes, ToFile, Workers, Operands
<1>1. Writers(m) = {} /\ state[t] # "none"
  <2>1. CASE DoneWith(t, m)
    BY <2>1 DEF SilenceInv, DoneWith
  <2>2. CASE ~DoneWith(t, m)
    BY <2>2, DoneStep DEF AppenderEndsSource
  <2> QED BY <2>1, <2>2
<1>2. IsOpened(m)
  <2>1. m \in PipesFor(t)
    BY <1>tree DEF PipesFor, WiredReaders
  <2> QED BY <1>tree, <1>1, <2>1 DEF OpenedInv
<1>3. IsSequenceOperand(m)
  BY <1>2, <1>tree DEF IsSequenceOperand, OpenedInv, Sequencers
<1> QED BY <1>tree, <1>1, <1>2, <1>3, WritersGone

-----------------------------------------------------------------------------
(* The way of a chunk.                                                     *)

\* A step that puts no chunk anywhere loses none on its way.
LEMMA ArriveQuiet ==
    ASSUME Control, Memory, DataTypes, SourceInv, HoldInv, AppenderInv, ArriveInv, [Next]_vars,
           UNCHANGED <<file, held, buffer, wrote>>
    PROVE  ArriveInv'
<1>const. /\ tree' = tree /\ Nodes' = Nodes /\ Sequencers' = Sequencers
          /\ \A n : Operands(n)' = Operands(n)
  BY TreeConstant
<1>tree. /\ wrote \subseteq Nodes /\ NoNode \notin Nodes
         /\ Sequencers \subseteq Nodes /\ Executables \cap Sequencers = {}
         /\ state \in [Nodes -> ProcessStates] /\ ForkInv /\ IsWired(tree)
  BY NodeFacts DEF Control, ControlTypes, DataTypes, Executables
<1>1. ASSUME NEW n \in wrote, NEW t \in Nodes, ToFile(t), NEW m \in Operands(t),
             tree.std_out[n] = PipeOf(m)
      PROVE  OnItsWay(t, m, n)'
  <2>1. OnItsWay(t, m, n)
    BY <1>1 DEF ArriveInv
  <2>2. CASE Within(n, file[FileIndex(tree.to[t])])
    BY <1>const, <2>2 DEF OnItsWay, Within, FileIndex
  <2>3. CASE held[t] = n /\ state[t] = "copying"
    <3>1. held[t] # NoNode /\ source[t] # NoNode
      BY <1>tree, <2>3 DEF HoldInv
    <3>2. state'[t] \in {"copying", "zombie"}
      <4>1. CASE Parent
        <5>1. state'[t] = state[t] \/ state'[t] = "reaped" \/ state[t] = "none"
          <6>1. CASE Fork
            <7>1. state[current] = "none" /\ state' = [state EXCEPT ![current] = "forked"]
              BY <1>tree, <6>1 DEF Fork, ForkInv
            <7> QED BY <1>tree, <7>1
          <6>2. CASE ~Fork
            <7>1. state' = state \/ \E k \in Nodes : state' = [state EXCEPT ![k] = "reaped"]
              BY <4>1, <6>2 DEF Parent, ExecuteAsync, OpenPipe, CloseUnused, Reap,
                 HandleCompleted, Return, ToolExits
            <7> QED BY <1>tree, <7>1
          <6> QED BY <6>1, <6>2
        <5>2. state'[t] # "reaped"
          <6>1. ForkInv'
            BY ForkNext
          <6>2. \A k \in Sequencers : state'[k] \in {"none", "forked", "copying", "zombie"}
            BY <1>const, <6>1 DEF ForkInv
          <6> QED BY <1>1, <6>2 DEF ToFile
        <5> QED BY <2>3, <5>1, <5>2
      <4>2. ASSUME NEW k \in Nodes, Process(k) PROVE state'[t] \in {"copying", "zombie"}
        BY <1>1, <2>3, <4>2, ProcessEffect DEF ToFile
      <4>3. CASE UNCHANGED vars
        BY <2>3, <4>3 DEF vars
      <4> QED BY <4>1, <4>2, <4>3 DEF Next
    <3>3. state'[t] # "zombie"
      <4>1. SUFFICES ASSUME state'[t] = "zombie" PROVE FALSE
        OBVIOUS
      <4>2. PICK k \in Operands(t) : k = source[t]
        BY <3>1 DEF SourceInv
      <4>3. k \in Nat
        BY <1>tree, <4>2, NodeFacts
      <4>4. ~DoneWith(t, k)
        BY <2>3, <4>2, <4>3, <3>1 DEF DoneWith
      <4>5. DoneWith(t, k)'
        BY <4>1 DEF DoneWith
      <4>6. AppenderEndsSource(t)
        BY <1>1, <4>4, <4>5, DoneStep
      <4> QED BY <3>1, <4>6 DEF AppenderEndsSource
    <3>4. held'[t] = n /\ state'[t] = "copying"
      BY <2>3, <3>2, <3>3
    <3> QED BY <3>4 DEF OnItsWay
  <2>4. CASE Within(n, buffer[m]) /\ ~DoneWith(t, m)
    <3>1. buffer[m] # <<>>
      BY <2>4 DEF Within
    <3>2. ~DoneWith(t, m)'
      BY <1>1, <2>4, <3>1, DoneStep
    <3>3. Within(n, buffer[m])'
      BY <2>4 DEF Within
    <3> QED BY <3>2, <3>3 DEF OnItsWay
  <2> QED BY <2>1, <2>2, <2>3, <2>4 DEF OnItsWay
<1>2. ASSUME NEW n \in wrote, ~IsPipe(tree.std_out[n])
      PROVE  Within(n, file'[FileIndex(tree.std_out[n])])
  BY <1>2 DEF ArriveInv
<1> QED BY <1>const, <1>1, <1>2 DEF ArriveInv, ToFile, Within, FileIndex

\* A chunk that is read by an executable is none that an appender is to read; one that
\* is read by an appender is in its hands.
LEMMA ArriveRead ==
    ASSUME Control, Memory, DataTypes, EndsInv, SourceInv, InputInv, ArriveInv, [Next]_vars,
           NEW x \in Nodes, ExecutableReads(x) \/ AppenderReads(x)
    PROVE  ArriveInv'
<1>const. /\ tree' = tree /\ Nodes' = Nodes /\ Sequencers' = Sequencers
          /\ \A n : Operands(n)' = Operands(n)
  BY TreeConstant
<1>tree. /\ wrote \subseteq Nodes /\ NoNode \notin Nodes
         /\ Sequencers \subseteq Nodes /\ Executables \cap Sequencers = {}
         /\ Executables \subseteq Nodes
         /\ state \in [Nodes -> ProcessStates] /\ ForkInv /\ IsWired(tree)
         /\ buffer \in [Nodes -> Seq(Nodes)] /\ held \in [Nodes -> Nodes \cup {NoNode}]
         /\ source \in [Nodes -> Nodes \cup {NoNode}]
         /\ fds \in [Processes -> [Fd -> Ends]] /\ Nodes \subseteq Processes
         /\ \A n : Operands(n) \subseteq Nodes
         /\ \A k \in Nodes : k \in Sequencers <=> tree.type[k] \in SequenceTypes
         /\ 0 \in Fd /\ \A m \in Nodes : ReadFd(m) \in Fd
  BY NodeFacts, FdFacts
     DEF Control, ControlTypes, DataTypes, Memory, MemoryTypes, Processes, IsSequence, ReadFd
<1>operand. ASSUME NEW t \in Sequencers, NEW m \in Operands(t)
            PROVE  IsSequenceOperand(m) /\ tree.father[m] = t /\ m \in Nodes
  <2>1. m \in Nodes /\ tree.father[m] = t
    BY <1>tree, <1>operand DEF Operands
  <2>2. m # 1
    <3>1. tree.father[1] = NoNode
      BY <1>tree DEF IsWired, IsTree
    <3> QED BY <1>tree, <2>1, <3>1
  <2> QED BY <1>tree, <2>1, <2>2 DEF IsSequenceOperand
<1>same. UNCHANGED <<file, wrote, source>>
  BY DEF ExecutableReads, AppenderReads
<1>goal. ASSUME \A n \in wrote, t \in Nodes : ToFile(t) =>
                  \A m \in Operands(t) : OnItsWay(t, m, n) => OnItsWay(t, m, n)'
         PROVE  ArriveInv'
  BY <1>goal, <1>const, <1>same DEF ArriveInv, ToFile, Within, FileIndex
<1>1. CASE ExecutableReads(x)
  <2>1. /\ state[x] = "running" /\ UNCHANGED held
        /\ state' = state \/ state' = [state EXCEPT ![x] = "writing"]
    BY <1>1 DEF ExecutableReads
  <2>2. x \in Executables /\ Invoked(x)
    BY <1>tree, <2>1 DEF ForkInv, Workers, Invoked
  <2> SUFFICES ASSUME NEW n \in wrote, NEW t \in Nodes, ToFile(t), NEW m \in Operands(t)
               PROVE  OnItsWay(t, m, n) => OnItsWay(t, m, n)'
    BY <1>goal
  <2>3. t \in Sequencers /\ state'[t] = state[t]
    BY <1>tree, <2>1, <2>2 DEF ToFile
  <2>4. buffer'[m] = buffer[m]
    <3>1. IsSequenceOperand(m) /\ m \in Nodes
      BY <1>operand, <2>3
    <3>2. fds[x][0] # ReadEnd(m) /\ fds[x][0] \in Ends
      BY <1>tree, <2>2, <3>1 DEF InputInv
    <3>3. CanRead(x, fds[x][0]) => fds[x][0][2] # m
      BY <3>2 DEF CanRead, Ends, Closed, ReadEnd, WriteEnd, Input, Output
    <3>4. \/ buffer' = buffer
          \/ /\ CanRead(x, fds[x][0])
             /\ buffer' = [buffer EXCEPT ![fds[x][0][2]] = Tail(@)]
      BY <1>1 DEF ExecutableReads
    <3> QED BY <1>tree, <3>1, <3>3, <3>4
  <2> QED BY <1>const, <1>same, <2>1, <2>3, <2>4
          DEF OnItsWay, DoneWith, Within, FileIndex
<1>2. CASE AppenderReads(x)
  <2>1. /\ state[x] = "copying" /\ UNCHANGED state
        /\ source[x] # NoNode /\ held[x] = NoNode
        /\ CanRead(x, fds[x][ReadFd(source[x])])
    BY <1>2 DEF AppenderReads
  <2>2. x \in Sequencers /\ source[x] \in Operands(x)
    BY <2>1 DEF SourceInv
  <2>3. PICK k \in Operands(x) : k = source[x]
    BY <2>2
  <2>4. k \in Nodes /\ fds[x][ReadFd(k)] = ReadEnd(k)
    <3>1. k \in Nodes /\ fds[x][ReadFd(k)] \in {ReadEnd(k), Closed}
      BY <1>tree, <2>1, <2>2, <2>3 DEF EndsInv
    <3>2. Closed[1] # "read"
      BY DEF Closed
    <3> QED BY <2>1, <2>3, <3>1, <3>2 DEF CanRead
  <2>5. /\ buffer[k] # <<>>
        /\ held' = [held EXCEPT ![x] = Head(buffer[k])]
        /\ buffer' = [buffer EXCEPT ![k] = Tail(@)]
    <3>1. ReadEnd(k)[2] = k
      BY DEF ReadEnd
    <3> QED BY <1>2, <2>1, <2>3, <2>4, <3>1 DEF AppenderReads, CanRead
  <2> SUFFICES ASSUME NEW n \in wrote, NEW t \in Nodes, ToFile(t), NEW m \in Operands(t),
                      OnItsWay(t, m, n)
               PROVE  OnItsWay(t, m, n)'
    BY <1>goal
  <2>6. t \in Sequencers /\ m \in Nodes
    BY <1>tree DEF ToFile
  <2>7. CASE Within(n, file[FileIndex(tree.to[t])])
    BY <1>const, <1>same, <2>7 DEF OnItsWay, Within, FileIndex
  <2>8. CASE held[t] = n /\ state[t] = "copying"
    <3>1. t # x
      BY <1>tree, <2>1, <2>8
    <3>2. held'[t] = n /\ state'[t] = "copying"
      BY <1>tree, <2>1, <2>5, <2>8, <3>1
    <3> QED BY <3>2 DEF OnItsWay
  <2>9. CASE Within(n, buffer[m]) /\ ~DoneWith(t, m)
    <3>1. ~DoneWith(t, m)'
      BY <1>same, <2>1, <2>9 DEF DoneWith
    <3>2. CASE m # k
      <4>1. buffer'[m] = buffer[m]
        BY <1>tree, <2>5, <2>6, <3>2
      <4> QED BY <2>9, <3>1, <4>1 DEF OnItsWay, Within
    <3>3. CASE m = k
      <4>1. t = x
        BY <1>operand, <2>2, <2>3, <2>6, <3>3
      <4>2. CASE n = Head(buffer[k])
        <5>1. held'[t] = n /\ state'[t] = "copying"
          BY <1>tree, <2>1, <2>5, <4>1, <4>2
        <5> QED BY <5>1 DEF OnItsWay
      <4>3. CASE n # Head(buffer[k])
        <5>1. buffer[k] \in Seq(Nodes) /\ buffer'[m] = Tail(buffer[k])
          BY <1>tree, <2>4, <2>5, <3>3
        <5>2. PICK i \in 1..Len(buffer[k]) : buffer[k][i] = n
          BY <2>9, <3>3 DEF Within
        <5>3. i # 1
          BY <2>5, <4>3, <5>1, <5>2, HeadTailProperties
        <5>4. /\ Len(Tail(buffer[k])) = Len(buffer[k]) - 1
              /\ \A j \in 1..Len(Tail(buffer[k])) : Tail(buffer[k])[j] = buffer[k][j+1]
          BY <2>5, <5>1, HeadTailProperties
        <5>5. Len(buffer[k]) \in Nat
          BY <5>1, LenProperties
        <5>6. i - 1 \in 1..Len(Tail(buffer[k])) /\ Tail(buffer[k])[i - 1] = n
          BY <5>2, <5>3, <5>4, <5>5
        <5>7. Within(n, buffer'[m])
          BY <5>1, <5>6 DEF Within
        <5> QED BY <3>1, <5>7 DEF OnItsWay, Within
      <4> QED BY <4>2, <4>3
    <3> QED BY <3>2, <3>3
  <2> QED BY <2>7, <2>8, <2>9 DEF OnItsWay
<1> QED BY <1>1, <1>2

\* What is written goes where it belongs, and before its appender is done with it.
LEMMA ArrivePut ==
    ASSUME Control, Memory, DataTypes, EndsInv, Order, SilenceInv, ArriveInv, [Next]_vars,
           NEW x \in Nodes, ExecutableWrites(x) \/ AppenderWrites(x)
    PROVE  ArriveInv'
<1>const. /\ tree' = tree /\ Nodes' = Nodes /\ Sequencers' = Sequencers
          /\ \A n : Operands(n)' = Operands(n)
  BY TreeConstant
<1>tree. /\ wrote \subseteq Nodes /\ wrote \subseteq Executables /\ NoNode \notin Nodes
         /\ Sequencers \subseteq Nodes /\ Executables \cap Sequencers = {}
         /\ Executables \subseteq Nodes /\ Workers = Executables \cup Sequencers
         /\ state \in [Nodes -> ProcessStates] /\ ForkInv /\ IsWired(tree)
         /\ buffer \in [Nodes -> Seq(Nodes)] /\ held \in [Nodes -> Nodes \cup {NoNode}]
         /\ file \in [Processes -> Seq(Nodes)] /\ Nodes \subseteq Processes /\ 1 \in Fd
         /\ \A n : Operands(n) \subseteq Nodes
         /\ WroteInv
  BY NodeFacts, FdFacts
     DEF Control, ControlTypes, DataTypes, Processes, Order, Workers
<1>d. PICK d \in Nodes :
        /\ x \in Workers
        /\ held' = [held EXCEPT ![x] = NoNode] /\ UNCHANGED source
        /\ wrote' = wrote \cup {d}
        /\ x \in Executables => d = x
        /\ x \in Sequencers => held[x] = d
        /\ \/ \E p \in Nodes :
                /\ OutStream(x) = PipeOf(p)
                /\ buffer' = [buffer EXCEPT ![p] = Append(@, d)]
                /\ UNCHANGED file
           \/ \E q \in Processes :
                /\ ~IsPipe(OutStream(x)) /\ q = FileIndex(OutStream(x))
                /\ file' = [file EXCEPT ![q] = Append(@, d)]
                /\ UNCHANGED buffer
  BY PutFacts
<1>grow. /\ \A k \in Processes, n \in Nodes : Within(n, file[k]) => Within(n, file'[k])
         /\ \A k, n \in Nodes : Within(n, buffer[k]) => Within(n, buffer'[k])
  <2>1. \A k, p \in Nodes, n \in Nodes :
          Within(n, buffer[k]) => Within(n, [buffer EXCEPT ![p] = Append(@, d)][k])
    BY <1>tree, AppendFacts
  <2>2. \A k, q \in Processes, n \in Nodes :
          Within(n, file[k]) => Within(n, [file EXCEPT ![q] = Append(@, d)][k])
    BY <1>tree, AppendFacts
  <2> QED BY <1>d, <2>1, <2>2
<1>put. /\ \A p \in Nodes : OutStream(x) = PipeOf(p) => Within(d, buffer'[p])
        /\ ~IsPipe(OutStream(x)) => Within(d, file'[FileIndex(OutStream(x))])
  <2>1. CASE \E p \in Nodes : /\ OutStream(x) = PipeOf(p)
                              /\ buffer' = [buffer EXCEPT ![p] = Append(@, d)]
    <3>1. PICK p \in Nodes : /\ OutStream(x) = PipeOf(p)
                             /\ buffer' = [buffer EXCEPT ![p] = Append(@, d)]
      BY <2>1
    <3>2. buffer'[p] = Append(buffer[p], d) /\ buffer[p] \in Seq(Nodes)
      BY <1>tree, <3>1
    <3>3. Within(d, buffer'[p])
      BY <3>2, AppendFacts
    <3>4. IsPipe(OutStream(x)) /\ \A k \in Nodes : OutStream(x) = PipeOf(k) => k = p
      BY <1>tree, <3>1, StreamFacts
    <3> QED BY <3>3, <3>4
  <2>2. CASE \E q \in Processes : /\ ~IsPipe(OutStream(x)) /\ q = FileIndex(OutStream(x))
                                  /\ file' = [file EXCEPT ![q] = Append(@, d)]
    <3>1. PICK q \in Processes : /\ ~IsPipe(OutStream(x)) /\ q = FileIndex(OutStream(x))
                                 /\ file' = [file EXCEPT ![q] = Append(@, d)]
      BY <2>2
    <3>2. file'[q] = Append(file[q], d) /\ file[q] \in Seq(Nodes)
      BY <1>tree, <3>1
    <3>3. Within(d, file'[q])
      BY <3>2, AppendFacts
    <3>4. \A k : OutStream(x) # PipeOf(k)
      BY <1>tree, <3>1, StreamFacts
    <3> QED BY <3>1, <3>3, <3>4
  <2> QED BY <1>d, <2>1, <2>2
<1>index. \A s \in StreamsOf(tree) : FileIndex(s) \in Processes
  BY <1>tree, StreamFacts DEF FileIndex, Processes
<1>new. x \in Sequencers => d \in wrote
  BY <1>tree, <1>d DEF WroteInv, Somewhere
<1>state. \A t \in Sequencers : state'[t] = state[t]
  <2>1. CASE AppenderWrites(x)
    BY <2>1 DEF AppenderWrites
  <2>2. CASE ExecutableWrites(x)
    <3>1. x \notin Sequencers
      BY <1>tree, <2>2 DEF ExecutableWrites, ForkInv
    <3>2. \E s : state' = [state EXCEPT ![x] = s]
      BY <2>2 DEF ExecutableWrites
    <3> QED BY <1>tree, <3>1, <3>2
  <2> QED BY <2>1, <2>2
<1>1. ASSUME NEW n \in wrote', ~IsPipe(tree.std_out[n])
      PROVE  Within(n, file'[FileIndex(tree.std_out[n])])
  <2>1. CASE n \in wrote
    <3>1. tree.std_out[n] \in StreamsOf(tree)
      BY <1>tree, <2>1, WiringRules
    <3> QED BY <1>1, <1>grow, <1>index, <1>tree, <2>1, <3>1 DEF ArriveInv
  <2>2. CASE n \notin wrote
    <3>1. n = x /\ n = d /\ x \in Executables
      BY <1>1, <1>d, <1>new, <1>tree, <2>2
    <3>2. OutStream(x) = tree.std_out[n]
      BY <1>tree, <3>1 DEF OutStream
    <3> QED BY <1>1, <1>put, <3>1, <3>2
  <2> QED BY <2>1, <2>2
<1>2. ASSUME NEW n \in wrote', NEW t \in Nodes, ToFile(t), NEW m \in Operands(t),
             tree.std_out[n] = PipeOf(m)
      PROVE  OnItsWay(t, m, n)'
  <2>0. /\ t \in Sequencers /\ m \in Nodes /\ n \in Nodes /\ ~IsPipe(tree.to[t])
        /\ tree.to[t] \in StreamsOf(tree)
    BY <1>2, <1>d, <1>tree, WiringRules DEF ToFile
  <2>done. DoneWith(t, m)' <=> DoneWith(t, m)
    BY <1>d, <1>state, <2>0 DEF DoneWith
  <2>file. Within(n, file'[FileIndex(tree.to[t])]) => OnItsWay(t, m, n)'
    BY <1>const DEF OnItsWay, Within, FileIndex
  <2>1. CASE n \in wrote
    <3>1. OnItsWay(t, m, n)
      BY <1>2, <2>1 DEF ArriveInv
    <3>2. CASE Within(n, file[FileIndex(tree.to[t])])
      BY <1>grow, <1>index, <2>0, <2>file, <3>2
    <3>3. CASE held[t] = n /\ state[t] = "copying"
      <4>1. CASE t = x
        <5>1. n = d /\ OutStream(x) = tree.to[t]
          BY <1>d, <2>0, <3>3, <4>1 DEF OutStream
        <5> QED BY <1>put, <2>0, <2>file, <5>1
      <4>2. CASE t # x
        <5>1. held'[t] = n /\ state'[t] = "copying"
          BY <1>d, <1>state, <1>tree, <2>0, <3>3, <4>2
        <5> QED BY <5>1 DEF OnItsWay
      <4> QED BY <4>1, <4>2
    <3>4. CASE Within(n, buffer[m]) /\ ~DoneWith(t, m)
      <4>1. Within(n, buffer'[m]) /\ ~DoneWith(t, m)'
        BY <1>grow, <2>0, <2>done, <3>4
      <4> QED BY <4>1 DEF OnItsWay, Within
    <3> QED BY <3>1, <3>2, <3>3, <3>4 DEF OnItsWay
  <2>2. CASE n \notin wrote
    <3>1. n = x /\ n = d /\ x \in Executables /\ x \notin Sequencers
      BY <1>2, <1>d, <1>new, <1>tree, <2>2
    <3>2. OutStream(x) = PipeOf(m)
      BY <1>2, <3>1 DEF OutStream
    <3>3. Within(n, buffer'[m])
      BY <1>put, <2>0, <3>1, <3>2
    <3>4. state[x] = "writing" /\ Accepts(fds[x][1])
      <4>1. ~AppenderWrites(x)
        BY <3>1, <1>tree DEF AppenderWrites, ForkInv
      <4> QED BY <4>1 DEF ExecutableWrites
    <3>5. fds[x][1] = WriteEnd(m)
      <4>1. fds[x][1] \in {EndOf(tree.std_out[x]), Closed}
        BY <3>1, <3>4 DEF EndsInv, Invoked
      <4>2. ~Accepts(Closed)
        BY DEF Accepts, Closed
      <4>3. EndOf(tree.std_out[x]) = WriteEnd(m)
        BY <1>2, <1>tree, <3>1, StreamFacts DEF EndOf
      <4> QED BY <3>4, <4>1, <4>2, <4>3
    <3>6. Writers(m) # {}
      BY <1>tree, <3>5 DEF Writers, Holds
    <3>7. ~DoneWith(t, m)
      BY <1>2, <3>6 DEF SilenceInv
    <3> QED BY <2>done, <3>3, <3>7 DEF OnItsWay, Within
  <2> QED BY <2>1, <2>2
<1> QED BY <1>const, <1>1, <1>2 DEF ArriveInv, ToFile, Within, FileIndex

-----------------------------------------------------------------------------
(* All the steps.                                                          *)

\* Init establishes the invariant.
LEMMA ArrivalInit == Init => Arrival
<1> SUFFICES ASSUME Init PROVE Arrival
  OBVIOUS
<1>1. /\ pc = "async" /\ wrote = {}
      /\ \A n \in Nodes : state[n] = "none"
      /\ Executables \subseteq Nodes
  BY DEF Init, Executables, Nodes
<1> QED BY <1>1
        DEF Arrival, StartInv, InputInv, AppenderInv, HasEnds, SilenceInv, DoneWith,
            ArriveInv, Invoked

\* A step keeps every chunk on its way.
LEMMA ArriveNext ==
    Control /\ Memory /\ DataTypes /\ EndsInv /\ Order /\ Arrival /\ [Next]_vars => ArriveInv'
<1> SUFFICES ASSUME Control, Memory, DataTypes, EndsInv, Order, Arrival, [Next]_vars
             PROVE  ArriveInv'
  OBVIOUS
<1>inv. /\ SourceInv /\ HoldInv /\ InputInv /\ AppenderInv /\ SilenceInv /\ ArriveInv
  BY DEF Order, Arrival
<1>quiet. ASSUME UNCHANGED <<file, held, buffer, wrote>> PROVE ArriveInv'
  BY <1>inv, <1>quiet, ArriveQuiet
<1>1. CASE Parent
  <2>1. UNCHANGED dataVars
    BY <1>1 DEF Parent, ExecuteAsync, OpenPipe, Fork, CloseUnused, Reap, HandleCompleted,
       Return, ToolExits
  <2> QED BY <1>quiet, <2>1 DEF dataVars
<1>2. ASSUME NEW n \in Nodes, Process(n) PROVE ArriveInv'
  <2>1. CASE ExecutableReads(n) \/ AppenderReads(n)
    BY <1>inv, <2>1, ArriveRead
  <2>2. CASE ExecutableWrites(n) \/ AppenderWrites(n)
    BY <1>inv, <2>2, ArrivePut
  <2>3. CASE ~(ExecutableReads(n) \/ AppenderReads(n) \/ ExecutableWrites(n)
               \/ AppenderWrites(n))
    <3>1. UNCHANGED <<file, held, buffer, wrote>>
      BY <1>2, <2>3 DEF Process, Child, Executable, Appender, ChildInvokes, ChildFails,
         WriteFails, ExecutableExits, AppenderStarts, AppenderFails, AppenderEndsSource,
         AppenderExits, dataVars
    <3> QED BY <1>quiet, <3>1
  <2> QED BY <2>1, <2>2, <2>3
<1>3. CASE UNCHANGED vars
  BY <1>3, <1>quiet DEF vars, dataVars
<1> QED BY <1>1, <1>2, <1>3 DEF Next

-----------------------------------------------------------------------------
(* The destination.                                                        *)

\* Destination, at one node.
DestinationAt(dest, n) ==
    IF IsPipe(OutStream(n)) /\ IsSequenceOperand(OutStream(n)[2])
    THEN dest[tree.father[OutStream(n)[2]]]
    ELSE IF IsPipe(OutStream(n)) \/ IsFile(OutStream(n))
         THEN OutStream(n) ELSE FileOf(Tool)

\* A recursive function may be unfolded if its equation has a solution.
LEMMA DestinationUnfolds ==
    ASSUME NEW g, g = [n \in Nodes |-> DestinationAt(g, n)]
    PROVE  Destination = [n \in Nodes |-> DestinationAt(Destination, n)]
BY Zenon DEF Destination, DestinationAt

\* Where an output goes that no appender, or one, copies.
Direct(n) ==
    IF IsPipe(OutStream(n)) \/ IsFile(OutStream(n)) THEN OutStream(n) ELSE FileOf(Tool)

IsCopied(n) == IsPipe(OutStream(n)) /\ IsSequenceOperand(OutStream(n)[2])

\* No output is copied twice if the appenders are not nested, which makes Destination
\* easy to say.
LEMMA Destinations ==
    ASSUME IsWired(tree), NoNestedAppenders, NEW n \in Nodes
    PROVE  /\ ~IsCopied(n) => Destination[n] = Direct(n)
           /\ IsCopied(n) => /\ tree.father[OutStream(n)[2]] \in Sequencers
                             /\ Destination[n] = Direct(tree.father[OutStream(n)[2]])
<1> DEFINE copier(k) == tree.father[OutStream(k)[2]]
           g == [k \in Nodes |-> IF IsCopied(k) THEN Direct(copier(k)) ELSE Direct(k)]
<1>1. ASSUME NEW k \in Nodes, IsCopied(k)
      PROVE  copier(k) \in Nodes /\ copier(k) \in Sequencers /\ ~IsCopied(copier(k))
  <2>1. OutStream(k)[2] \in Nodes
    BY <1>1, WiringRules, StreamFacts DEF IsCopied, OutStream
  <2>2. PICK m \in Nodes : m = OutStream(k)[2] /\ IsSequenceOperand(m)
    BY <1>1, <2>1 DEF IsCopied
  <2>3. tree.father[m] \in Sequencers /\ tree.father[m] \in Nodes
    BY <2>2, OperandPipe, NodeFacts
  <2> QED BY <2>2, <2>3 DEF NoNestedAppenders, IsCopied, OutStream
<1>at. ASSUME NEW d, NEW k \in Nodes
       PROVE  DestinationAt(d, k) = IF IsCopied(k) THEN d[copier(k)] ELSE Direct(k)
  <2>1. OutStream(k) = IF k \in Sequencers THEN tree.to[k] ELSE tree.std_out[k]
    BY DEF OutStream
  <2>2. IsFile(OutStream(k)) => ~IsPipe(OutStream(k))
    BY DEF IsFile, IsPipe
  <2> QED BY <2>1, <2>2 DEF DestinationAt, Direct, IsCopied
<1>2. g = [k \in Nodes |-> DestinationAt(g, k)]
  <2>1. ASSUME NEW k \in Nodes PROVE g[k] = DestinationAt(g, k)
    BY <1>1, <1>at
  <2> QED BY <2>1
<1> HIDE DEF g
<1>3. Destination = [k \in Nodes |-> DestinationAt(Destination, k)]
  BY <1>2, DestinationUnfolds
<1>4. \A k \in Nodes : Destination[k] = DestinationAt(Destination, k)
  BY <1>3
<1>5. \A k \in Nodes : ~IsCopied(k) => Destination[k] = Direct(k)
  BY <1>4, <1>at
<1>6. IsCopied(n) => Destination[n] = Destination[copier(n)]
  BY <1>4, <1>at
<1> QED BY SMTT(60), <1>1, <1>5, <1>6

\* At the end every chunk is where it belongs.
LEMMA AllArrived ==
    ASSUME Control, WroteInv, ArriveInv, NoNestedAppenders, AllEnded,
           NEW n \in wrote, n \in Executables, IsFile(Destination[n])
    PROVE  Within(n, file[Destination[n][2]])
<1>tree. /\ IsWired(tree) /\ IsTree(tree) /\ ForkInv /\ OrderInv
         /\ n \in Nodes /\ n \notin Sequencers
         /\ Sequencers \subseteq Nodes /\ Sequencers \subseteq Workers /\ Nodes \subseteq Nat
         /\ OutStream(n) = tree.std_out[n]
  BY NodeFacts DEF Control, ControlTypes, EvaluationInv, Workers, OutStream
<1>direct. ASSUME NEW k, IsFile(Direct(k))
           PROVE  /\ ~IsPipe(OutStream(k))
                  /\ Direct(k)[2] = FileIndex(OutStream(k))
  <2>1. ~IsPipe(OutStream(k))
    BY <1>direct DEF Direct, IsPipe, IsFile
  <2> QED BY <2>1 DEF Direct, FileIndex, FileOf
<1>1. CASE ~IsCopied(n)
  <2>1. Destination[n] = Direct(n)
    BY <1>1, <1>tree, Destinations
  <2>2. ~IsPipe(tree.std_out[n]) /\ Destination[n][2] = FileIndex(tree.std_out[n])
    BY <1>direct, <1>tree, <2>1
  <2> QED BY <2>2 DEF ArriveInv
<1>2. CASE IsCopied(n)
  <2>1. PICK m \in Nodes : tree.std_out[n] = PipeOf(m) /\ IsSequenceOperand(m)
    <3>1. IsPipe(tree.std_out[n]) /\ IsSequenceOperand(tree.std_out[n][2])
      BY <1>2, <1>tree DEF IsCopied
    <3> QED BY <1>tree, <3>1, WiringRules, StreamFacts
  <2>2. OutStream(n)[2] = m
    BY <1>tree, <2>1, StreamFacts
  <2>3. PICK t \in Sequencers : t = tree.father[m] /\ Destination[n] = Direct(t)
    BY <1>2, <1>tree, <2>2, Destinations
  <2>4. /\ ~IsPipe(tree.to[t]) /\ OutStream(t) = tree.to[t]
        /\ Destination[n][2] = FileIndex(tree.to[t])
    BY <1>direct, <2>3 DEF OutStream
  <2>5. m \in Operands(t) /\ t \in Nodes /\ ToFile(t)
    BY <1>tree, <2>1, <2>3, <2>4, OperandPipe DEF ToFile
  <2>6. OnItsWay(t, m, n)
    BY <2>1, <2>5 DEF ArriveInv
  <2>7. state[t] = "zombie"
    <3>1. Begun(n)
      BY <1>tree DEF WroteInv, ForkInv
    <3>2. n \in WiredWriters(m)
      BY <2>1 DEF WiredWriters
    <3>3. Under(m, n)
      BY <1>tree, <2>1, <3>2, OperandPipe
    <3>4. Begun(m)
      BY <1>tree, <2>1, <3>1, <3>3, BegunAbove
    <3>5. Begun(t)
      <4>1. t # NoNode
        BY <1>tree, NodeFacts
      <4> QED BY <2>1, <2>3, <3>4, <4>1, <1>tree DEF OrderInv
    <3>6. state[t] # "none" /\ pc = "exited"
      BY <1>tree, <3>5 DEF ForkInv, AllEnded
    <3> QED BY <1>tree, <2>5, <3>6 DEF ForkInv, AllEnded
  <2> QED BY <2>4, <2>6, <2>7 DEF OnItsWay, DoneWith
<1> QED BY <1>1, <1>2

\* execute.c:19-20, run_appender_main(): what an executable was able to write is, once every
\* process has ended, where its redirect or the operator above it sends it, unless an
\* appender writes into the pipe of another one.
THEOREM OutputIsNotLost == EnoughFds => (Spec => []OutputArrives)
<1> SUFFICES ASSUME EnoughFds PROVE Spec => []OutputArrives
  OBVIOUS
<1>1. Init => EndsInv /\ Order /\ Arrival
  BY OrderInit, ArrivalInit
<1>2. Control /\ Memory /\ DataTypes /\ EndsInv /\ Order /\ Arrival /\ [Next]_vars
        => EndsInv' /\ Order' /\ Arrival'
  <2> SUFFICES ASSUME Control, Memory, DataTypes, EndsInv, Order, Arrival, [Next]_vars
               PROVE  EndsInv' /\ Order' /\ Arrival'
    OBVIOUS
  <2>1. EndsInv' /\ Order'
    BY EndsNext, OrderNext
  <2>2. SourceInv /\ StartInv /\ InputInv /\ AppenderInv /\ SilenceInv
    BY DEF Order, Arrival
  <2>3. StartInv' /\ InputInv' /\ AppenderInv' /\ SilenceInv'
    BY <2>2, StartNext, InputNext, AppenderNext, SilenceNext
  <2>4. ArriveInv'
    BY ArriveNext
  <2> QED BY <2>1, <2>3, <2>4 DEF Arrival
<1>3. Control /\ DataTypes /\ Order /\ Arrival => OutputArrives
  <2> SUFFICES ASSUME Control, DataTypes, Order, Arrival, NoNestedAppenders, AllEnded,
                      NEW n \in wrote, IsFile(Destination[n])
               PROVE  \E i \in DOMAIN file[Destination[n][2]] : file[Destination[n][2]][i] = n
    BY DEF OutputArrives, EveryOutputArrives
  <2>1. n \in Executables
    BY DEF DataTypes
  <2>2. Within(n, file[Destination[n][2]])
    BY <2>1, AllArrived DEF Order, Arrival
  <2> QED BY <2>2 DEF Within
<1> QED BY <1>1, <1>2, <1>3, Invariants, PTL DEF Spec
=============================================================================
