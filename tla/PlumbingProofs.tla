--------------------------- MODULE PlumbingProofs ---------------------------
(***************************************************************************)
(* Theorems about Plumbing, for every wired tree and every table of        *)
(* descriptors that is large enough for it.                                *)
(***************************************************************************)
EXTENDS Plumbing, TreeProofs, SequenceTheorems

\* A descriptor table has room for both ends of the pipe of every node, the three
\* standard descriptors and the files opened beside them.
EnoughFds == \A t \in Trees : MaxFd >= 2 * t.size + 3

\* How far the evaluation has come, as in ExecuteProofs.
Begun(n) == status[n] # "none"
Ended(n) == status[n] \in {"ok", "failed"} /\ (n \in Executables => state[n] = "reaped")
IsSequence(n) == tree.type[n] \in SequenceTypes

\* The nodes that get a process.
Workers == Executables \cup Sequencers

\* Where the parent is determines what is pending.
ControlInv ==
    /\ pc = "async" => todo # {}
    /\ pc \notin {"async", "open", "close"} => todo = {}
    /\ pc \in {"open", "close"} => current \in Workers
    /\ pc \notin {"open", "close"} => current = NoNode
    /\ pc # "open" => opening = <<>>
    /\ pc = "handle" => frame \in Nodes \X Nodes

\* A process is forked for a node that was begun; it ends with a status.
ForkInv ==
    /\ \A n \in Nodes : state[n] # "none" => n \in Workers /\ Begun(n)
    /\ \A n \in Workers :
         Begun(n) => state[n] # "none" \/ (pc = "open" /\ n = current)
    /\ pc = "open" => state[current] = "none" /\ Begun(current)
    /\ pc = "close" => state[current] # "none"
    /\ \A n \in Executables :
         /\ state[n] # "copying"
         /\ state[n] \in {"zombie", "reaped"} <=> status[n] \in {"ok", "failed"}
    /\ \A n \in Sequencers :
         state[n] \in {"none", "forked", "copying", "zombie"}

TodoInv ==
    \A n \in todo :
      /\ ~Begun(n)
      /\ tree.father[n] # NoNode /\ IsSequence(tree.father[n]) => ~Ended(tree.father[n])

OrderInv ==
    \A n \in Nodes :
      (n \in todo \/ Begun(n)) /\ tree.father[n] # NoNode =>
        /\ Begun(tree.father[n])
        /\ IsSequence(tree.father[n]) =>
             \A k \in EarlierOperands(tree.father[n], n) : Ended(k)

SequenceInv ==
    \A s \in Nodes : Ended(s) /\ IsSequence(s) =>
      \A m \in Operands(s) : Begun(m) => Ended(m)

PipeInv ==
    \A s \in Nodes : Ended(s) /\ tree.type[s] = "Pipe" =>
      \A m \in Operands(s) : LaterOperands(s, m) = {} => Ended(m)

EvaluationInv == TodoInv /\ OrderInv /\ SequenceInv /\ PipeInv

HandleInv ==
    pc = "handle" =>
      LET operator == frame[1]
          completed == frame[2]
      IN
      /\ operator = tree.father[completed]
      /\ Begun(operator)
      /\ Ended(completed)
      /\ IsSequence(operator) =>
           /\ ~Ended(operator)
           /\ \A m \in LaterOperands(operator, completed) : ~Begun(m)
      /\ tree.type[operator] = "Pipe" /\ LaterOperands(operator, completed) = {} =>
           ~Ended(operator)

-----------------------------------------------------------------------------
(* The descriptors.                                                        *)

IsOpened(m) == desc[m] # NoPipe

\* The pipes whose ends the process of n is wired to.
PipesFor(n) == {m \in Nodes : n \in WiredWriters(m) \cup WiredReaders(m)}

\* The process of n has been forked, and the parent has closed what only n uses.
Past(n) == state[n] # "none" /\ ~(pc = "close" /\ n = current)

\* Pipes are opened once each, for the first process that is wired to one.
OpenedInv ==
    /\ \A m \in Nodes : IsOpened(m) =>
         /\ ReadFd(m) \in 3..MaxFd /\ WriteFd(m) \in 3..MaxFd
         /\ m # 1
    /\ \A n, m \in Nodes :
         state[n] # "none" /\ m \in PipesFor(n) => IsOpened(m)
    /\ \A m \in Nodes : IsOpened(m) /\ IsSequenceOperand(m) => Begun(tree.father[m])

OpeningInv ==
    pc = "open" =>
      /\ \A m \in PipesFor(current) :
           IsOpened(m) \/ \E i \in 1..Len(opening) : opening[i] = m
      /\ \A i \in 1..Len(opening) :
           opening[i] \in PipesFor(current) /\ ~IsOpened(opening[i])
      /\ \A i, j \in 1..Len(opening) : opening[i] = opening[j] => i = j

\* The numbers the parent remembers are those of the ends it holds, and besides
\* those it holds its own three and the file it has opened for an appender.
TableInv ==
    pc # "exited" =>
      /\ fds[Tool][0] = Input(0) /\ fds[Tool][1] = Output(0) /\ fds[Tool][2] = Output(0)
      /\ \A fd \in Fd, m \in Nodes :
           /\ fds[Tool][fd] = ReadEnd(m) => IsOpened(m) /\ fd = ReadFd(m)
           /\ fds[Tool][fd] = WriteEnd(m) => IsOpened(m) /\ fd = WriteFd(m)
      /\ \A fd \in 3..MaxFd :
           \/ fds[Tool][fd] = Closed
           \/ \E m \in Nodes : fds[Tool][fd] \in {ReadEnd(m), WriteEnd(m)}
           \/ /\ pc \in {"open", "close"} /\ current \in Sequencers
              /\ IsFile(tree.to[current]) /\ fd = to_fd[current]

\* The parent holds an end of an open pipe until the process that is wired to it is
\* forked.
HeldInv ==
    pc # "exited" =>
      \A m \in Nodes : IsOpened(m) =>
        /\ fds[Tool][WriteFd(m)] = WriteEnd(m) <=> \A n \in WiredWriters(m) : ~Past(n)
        /\ fds[Tool][ReadFd(m)] = ReadEnd(m) <=> \A n \in WiredReaders(m) : ~Past(n)

\* What to_fd holds.
ToFdInv ==
    /\ \A n \in Sequencers, m \in Nodes :
         state[n] # "none" /\ tree.to[n] = PipeOf(m) => to_fd[n] = WriteFd(m)
    /\ \A n \in Sequencers : ~IsPipe(tree.to[n]) /\ ~IsFile(tree.to[n]) => to_fd[n] = 1
    /\ pc \in {"open", "close"} /\ current \in Sequencers /\ IsFile(tree.to[current]) =>
         /\ to_fd[current] \in 3..MaxFd
         /\ fds[Tool][to_fd[current]] = Output(tree.to[current][2])

\* The number of the pipe of each operand of an operator that was begun is in the
\* list, and all the list holds is one number for each of them.
Collected == {m \in Nodes : IsSequenceOperand(m) /\ Past(tree.father[m])}

CollectedInv ==
    /\ \A m \in Collected :
         \E i \in 1..Len(open_appender_fds) : open_appender_fds[i] = WriteFd(m)
    /\ Len(open_appender_fds) = Cardinality(Collected)
    /\ \A n \in Nodes : known[n] <= Len(open_appender_fds)

\* What a child that has not invoked its executable yet holds.
ChildInv ==
    \A n \in Executables : state[n] = "forked" =>
      /\ fds[n][0] = Input(0) /\ fds[n][1] = Output(0) /\ fds[n][2] = Output(0)
      /\ \A m \in Nodes : tree.std_in[n] = PipeOf(m) => fds[n][ReadFd(m)] = ReadEnd(m)
      /\ \A m \in Nodes : tree.std_out[n] = PipeOf(m) => fds[n][WriteFd(m)] = WriteEnd(m)
      /\ \A fd \in Fd, m \in Nodes :
           IsSequenceOperand(m) /\ fds[n][fd] = WriteEnd(m) =>
             \E i \in 1..known[n] : open_appender_fds[i] = fd /\ fd > 2
      /\ \E a, b \in Fd : a # b /\ fds[n][a] = Closed /\ fds[n][b] = Closed

-----------------------------------------------------------------------------
(* Wired trees.                                                            *)

\* The streams are of three kinds.
LEMMA StreamFacts ==
    ASSUME IsWired(tree)
    PROVE  /\ \A n, m : PipeOf(n) = PipeOf(m) => n = m
           /\ \A n : IsPipe(PipeOf(n)) /\ PipeOf(n)[2] = n /\ ~IsFile(PipeOf(n))
           /\ \A n, m : PipeOf(n) # FileOf(m) /\ PipeOf(n) # Std(m)
           /\ \A n : IsFile(FileOf(n)) /\ ~IsPipe(FileOf(n)) /\ FileOf(n)[2] = n
           /\ \A n : ~IsPipe(Std(n)) /\ ~IsFile(Std(n))
           /\ \A s \in StreamsOf(tree) :
                /\ IsPipe(s) => s[2] \in Nodes /\ s = PipeOf(s[2])
                /\ IsFile(s) => s[2] \in Nodes /\ s = FileOf(s[2])
<1>1. ASSUME NEW n, NEW m, PipeOf(n) = PipeOf(m) PROVE n = m
  BY <1>1 DEF PipeOf
<1>2. \A n : IsPipe(PipeOf(n)) /\ PipeOf(n)[2] = n /\ ~IsFile(PipeOf(n))
  BY DEF PipeOf, IsPipe, IsFile
<1>3. \A n : IsFile(FileOf(n)) /\ ~IsPipe(FileOf(n)) /\ FileOf(n)[2] = n
  BY DEF FileOf, IsPipe, IsFile
<1>4. \A n : ~IsPipe(Std(n)) /\ ~IsFile(Std(n))
  BY DEF Std, IsPipe, IsFile
<1>5. \A s \in StreamsOf(tree) :
        \/ s = Std(0) \/ s = Std(1)
        \/ \E n \in Nodes : s = FileOf(n)
        \/ \E n \in Nodes : s = PipeOf(n)
  BY DEF StreamsOf, Nodes
<1> QED BY <1>1, <1>2, <1>3, <1>4, <1>5

\* IsWired(), node by node.
LEMMA WiringRules ==
    ASSUME IsWired(tree), NEW n \in Nodes
    PROVE  /\ tree.std_in[n] \in StreamsOf(tree) /\ tree.std_out[n] \in StreamsOf(tree)
           /\ tree.to[n] \in StreamsOf(tree)
           /\ \A m : tree.std_in[n] = PipeOf(m) => tree.from[n] = PipeOf(m)
           /\ \A m : tree.std_out[n] = PipeOf(m) => tree.to[n] = PipeOf(m)
           /\ \A m : tree.to[n] = PipeOf(m) /\ n # m =>
                /\ tree.father[n] \in Nodes
                /\ tree.type[tree.father[n]] = "Pipe"
                /\ n = Last(Operands(tree.father[n]))
                /\ tree.to[tree.father[n]] = PipeOf(m)
           /\ \A m : tree.from[n] = PipeOf(m) =>
                /\ tree.father[n] \in Nodes
                /\ \/ /\ EarlierOperands(tree.father[n], n) = {}
                      /\ tree.from[tree.father[n]] = PipeOf(m)
                   \/ /\ EarlierOperands(tree.father[n], n) # {}
                      /\ tree.type[tree.father[n]] = "Pipe"
                      /\ m = Last(EarlierOperands(tree.father[n], n))
           /\ \A m : tree.from[1] # PipeOf(m) /\ tree.to[1] # PipeOf(m)
<1> DEFINE f == tree.father[n]
<1>1. IsTree(tree) /\ n \in 1..tree.size /\ 1 \in 1..tree.size
  BY TreeFacts DEF IsWired, Nodes
<1>2. n # 1 => f \in Nodes
  BY <1>1 DEF IsTree, Nodes
<1>3. \A m : /\ PipeOf(n) = PipeOf(m) => n = m
             /\ PipeOf(m) # FileOf(n) /\ PipeOf(m) # Std(0) /\ PipeOf(m) # Std(1)
             /\ PipeOf(m) # FileOf(1)
  BY StreamFacts
<1>4. /\ tree.std_in[n] \in StreamsOf(tree) /\ tree.std_out[n] \in StreamsOf(tree)
      /\ tree.to[n] \in StreamsOf(tree)
  BY <1>1 DEF IsWired
<1>5. /\ tree.from[n] = InArgument(tree, tree.from, n)
      /\ tree.to[n] = OutArgument(tree, tree.to, n)
      /\ tree.from[1] = InArgument(tree, tree.from, 1)
      /\ tree.to[1] = OutArgument(tree, tree.to, 1)
  BY <1>1 DEF IsWired
<1>6. OperandsIn(tree, f) = Operands(f)
  BY DEF OperandsIn, Operands, Nodes
<1>7. \A m : tree.std_in[n] = PipeOf(m) => tree.from[n] = PipeOf(m)
  <2>1. tree.std_in = StdIn(tree, tree.from)
    BY DEF IsWired
  <2>2. tree.std_in[n] = FileOf(n) \/ tree.std_in[n] = tree.from[n]
    BY <1>1, <2>1 DEF StdIn
  <2> QED BY <1>3, <2>2
<1>8. \A m : tree.std_out[n] = PipeOf(m) => tree.to[n] = PipeOf(m)
  <2>1. tree.std_out = StdOut(tree, tree.to)
    BY DEF IsWired
  <2>2. tree.std_out[n] = FileOf(n) \/ tree.std_out[n] = tree.to[n]
    BY <1>1, <2>1 DEF StdOut
  <2> QED BY <1>3, <2>2
<1>9. \A m : tree.from[1] # PipeOf(m) /\ tree.to[1] # PipeOf(m)
  <2>1. tree.from[1] = FileOf(1) \/ tree.from[1] = Std(0)
    BY <1>5 DEF InArgument
  <2>2. tree.to[1] = FileOf(1) \/ tree.to[1] = Std(1)
    BY <1>5 DEF OutArgument
  <2> QED BY <1>3, <2>1, <2>2
<1>10. ASSUME NEW m, tree.to[n] = PipeOf(m), n # m
       PROVE  /\ f \in Nodes /\ tree.type[f] = "Pipe" /\ n = Last(Operands(f))
              /\ tree.to[f] = PipeOf(m)
  <2>1. n # 1
    BY <1>9, <1>10
  <2>2. \/ tree.type[f] = "Pipe" /\ n = Last(OperandsIn(tree, f)) /\ tree.to[n] = tree.to[f]
        \/ tree.to[n] = PipeOf(n)
    BY <1>5, <2>1 DEF OutArgument
  <2> QED BY <1>2, <1>3, <1>6, <1>10, <2>1, <2>2
<1>11. ASSUME NEW m, tree.from[n] = PipeOf(m)
       PROVE  /\ f \in Nodes
              /\ \/ EarlierOperands(f, n) = {} /\ tree.from[f] = PipeOf(m)
                 \/ /\ EarlierOperands(f, n) # {} /\ tree.type[f] = "Pipe"
                    /\ m = Last(EarlierOperands(f, n))
  <2>1. n # 1
    BY <1>9, <1>11
  <2>2. EarlierOperands(f, n) = {k \in OperandsIn(tree, f) : k < n}
    BY <1>6 DEF EarlierOperands
  <2>3. \/ EarlierOperands(f, n) = {} /\ tree.from[n] = tree.from[f]
        \/ /\ EarlierOperands(f, n) # {} /\ tree.type[f] = "Pipe"
           /\ tree.from[n] = PipeOf(Last(EarlierOperands(f, n)))
        \/ tree.from[n] = FileOf(n) \/ tree.from[n] = Std(0)
    BY <1>5, <2>1, <2>2 DEF InArgument
  <2>4. \A k : PipeOf(k) = PipeOf(m) => k = m
    BY StreamFacts
  <2> QED BY <1>2, <1>3, <1>11, <2>1, <2>3, <2>4
<1> QED BY <1>4, <1>7, <1>8, <1>9, <1>10, <1>11

\* The argument PipeOf(m) for the output is handed on from m to the last operand, and
\* so on, while these are pipes: whoever gets it is under m.
LEMMA OutputUnder ==
    ASSUME IsWired(tree), NEW m, NEW n \in Nodes, tree.to[n] = PipeOf(m)
    PROVE  m \in Nodes /\ m # 1 /\ Under(m, n)
<1>tree. IsTree(tree) /\ Nodes \subseteq Nat
  BY TreeFacts DEF IsWired
<1>1. m \in Nodes
  BY WiringRules, StreamFacts
<1> DEFINE C == {k \in Nodes : tree.to[k] = PipeOf(m) /\ ~Under(m, k)}
<1>2. \A k \in C : k # m => \E j \in C : j < k
  <2> SUFFICES ASSUME NEW k \in C, k # m PROVE \E j \in C : j < k
    OBVIOUS
  <2>1. tree.father[k] \in Nodes /\ tree.to[tree.father[k]] = PipeOf(m)
    BY WiringRules
  <2>2. ~Under(m, tree.father[k])
    BY <1>tree, <1>1, <2>1, OperandUnder
  <2>3. tree.father[k] < k
    BY <1>tree, <2>1, FatherIsLess
  <2> QED BY <2>1, <2>2, <2>3
<1>3. Under(m, m)
  BY <1>tree, <1>1 DEF Under
<1>4. C \in SUBSET Nat /\ m \notin C
  BY <1>tree, <1>3
<1> HIDE DEF C
<1>5. C = {}
  BY <1>2, <1>4, Descent
<1>6. Under(m, n)
  BY <1>5 DEF C
<1>7. m # 1
  <2>1. SUFFICES ASSUME m = 1 PROVE FALSE
    OBVIOUS
  <2> DEFINE D == {k \in Nodes : tree.to[k] = PipeOf(1)}
  <2>2. \A k \in D : k # 1 => \E j \in D : j < k
    <3> SUFFICES ASSUME NEW k \in D, k # 1 PROVE \E j \in D : j < k
      OBVIOUS
    <3>1. tree.father[k] \in Nodes /\ tree.to[tree.father[k]] = PipeOf(1)
      BY WiringRules
    <3>2. tree.father[k] < k
      BY <1>tree, <3>1, FatherIsLess
    <3> QED BY <3>1, <3>2
  <2>3. D \in SUBSET Nat /\ D # {}
    BY <1>tree, <2>1
  <2> HIDE DEF D
  <2>4. 1 \in D
    BY <2>2, <2>3, Descent
  <2> QED BY <2>4, WiringRules DEF D
<1> QED BY <1>1, <1>6, <1>7

\* One process is wired to write into a pipe, at most.
LEMMA OneWriter ==
    ASSUME IsWired(tree), NEW m, NEW a \in WiredWriters(m), NEW b \in WiredWriters(m)
    PROVE  a = b
<1>tree. IsTree(tree) /\ Nodes \subseteq Nat
  BY TreeFacts DEF IsWired
<1> DEFINE C == {k \in Nodes : tree.to[k] = PipeOf(m)}
<1>1. /\ a \in C /\ b \in C
      /\ tree.type[a] # "Pipe" /\ tree.type[b] # "Pipe"
  BY WiringRules DEF WiredWriters, Executables, Sequencers, SequenceTypes
<1>2. ASSUME NEW k \in C, k # m
      PROVE  /\ tree.father[k] \in C /\ tree.father[k] < k
             /\ tree.type[tree.father[k]] = "Pipe"
             /\ k = Last(Operands(tree.father[k]))
  <2>1. /\ tree.father[k] \in C /\ tree.type[tree.father[k]] = "Pipe"
        /\ k = Last(Operands(tree.father[k]))
    BY <1>2, WiringRules
  <2> QED BY <1>tree, <2>1, FatherIsLess
<1>3. C \in SUBSET Nat
  BY <1>tree
<1> HIDE DEF C
<1>4. \A i, j \in C : i # m /\ j # m /\ tree.father[i] = tree.father[j] => i = j
  <2> SUFFICES ASSUME NEW i \in C, NEW j \in C, i # m, j # m,
                      tree.father[i] = tree.father[j]
               PROVE  i = j
    OBVIOUS
  <2>1. i = Last(Operands(tree.father[i]))
    BY <1>2
  <2>2. j = Last(Operands(tree.father[j]))
    BY <1>2
  <2> QED BY <2>1, <2>2
<1>5. \A k \in C : k # m => tree.father[k] # a /\ tree.father[k] # b
  BY <1>1, <1>2
<1>6. \A k \in C : k # m => tree.father[k] \in C /\ tree.father[k] < k
  BY <1>2
<1>7. \A x, y \in C : (\A k \in C : k # m => tree.father[k] # x /\ tree.father[k] # y)
                      => x = y
  <2>1. IsPath(C, m, tree.father)
    BY <1>4, <1>6 DEF IsPath
  <2> QED BY <1>3, <2>1, PathEnd
<1> QED BY <1>1, <1>5, <1>7

\* The argument PipeOf(m) for the input goes to the operand of a pipe after m, and on
\* to the first operands.
LEMMA InputAfter ==
    ASSUME IsWired(tree), NEW m, NEW n \in Nodes, tree.from[n] = PipeOf(m)
    PROVE  /\ m \in Nodes /\ m # 1 /\ m < n
           /\ tree.father[m] \in Nodes /\ tree.type[tree.father[m]] = "Pipe"
           /\ ~Under(m, n)
<1>tree. IsTree(tree) /\ Nodes \subseteq Nat /\ tree.father[1] = NoNode /\ NoNode \notin Nodes
  BY TreeFacts DEF IsWired
<1> DEFINE C == {k \in Nodes : tree.from[k] = PipeOf(m)}
           Left(k) == EarlierOperands(tree.father[k], k)
<1>1. ASSUME NEW k \in C, Left(k) = {}
      PROVE  tree.father[k] \in C /\ tree.father[k] < k
  <2>1. tree.father[k] \in C
    BY <1>1, WiringRules
  <2> QED BY <1>tree, <2>1, FatherIsLess
<1>2. ASSUME NEW k \in C, Left(k) # {}
      PROVE  /\ tree.father[k] \in Nodes /\ tree.type[tree.father[k]] = "Pipe"
             /\ m \in Operands(tree.father[k]) /\ m < k
  <2>1. /\ tree.father[k] \in Nodes /\ tree.type[tree.father[k]] = "Pipe"
        /\ m = Last(Left(k))
    BY <1>2, WiringRules
  <2>2. k \in Nat /\ Left(k) \in SUBSET (0..k)
    BY <1>tree, EarlierBelow DEF C
  <2>3. m \in Left(k)
    BY <1>2, <2>1, <2>2, LastIsGreatest
  <2> QED BY <2>1, <2>3 DEF EarlierOperands
<1>3. C \in SUBSET Nat /\ n \in C
  BY <1>tree
<1> HIDE DEF C, Left
<1>4. First(C) \in C /\ \A k \in C : First(C) <= k
  BY <1>3, FirstIsLeast
<1>5. PICK first \in C : \A k \in C : first <= k
  BY <1>4
<1>6. Left(first) # {}
  <2>1. SUFFICES ASSUME Left(first) = {} PROVE FALSE
    OBVIOUS
  <2>2. tree.father[first] \in C /\ tree.father[first] < first
    BY <1>1, <2>1
  <2> QED BY <1>3, <1>5, <2>2
<1>7. /\ tree.father[first] \in Nodes /\ tree.type[tree.father[first]] = "Pipe"
      /\ m \in Operands(tree.father[first]) /\ m < first
  BY <1>2, <1>6
<1>8. /\ m \in Nodes /\ tree.father[m] = tree.father[first]
  BY <1>7 DEF Operands
<1>9. m # 1
  BY <1>tree, <1>7, <1>8
<1>10. \A k \in C : m < k
  BY <1>tree, <1>3, <1>5, <1>7, <1>8
<1> DEFINE U == {k \in C : Under(m, k)}
<1>11. ASSUME NEW k \in U PROVE \E j \in U : j < k
  <2>1. k \in C /\ Under(m, k) /\ m < k /\ k \in Nodes /\ k # m
    BY <1>tree, <1>8, <1>10 DEF C
  <2>2. /\ tree.father[k] \in Nodes /\ tree.father[k] < k
        /\ Under(m, tree.father[k])
    BY <1>tree, <1>8, <2>1, FatherUnder
  <2>3. CASE Left(k) = {}
    BY <1>1, <2>1, <2>2, <2>3
  <2>4. CASE Left(k) # {}
    <3>1. tree.father[m] = tree.father[k]
      BY <1>2, <2>1, <2>4 DEF Operands
    <3>2. tree.father[m] < m
      BY <1>tree, <1>7, <1>8, FatherIsLess
    <3>3. tree.father[k] >= m
      BY <2>2 DEF Under
    <3>4. tree.father[m] \in Nat /\ m \in Nat
      BY <1>tree, <1>7, <1>8
    <3> QED BY <3>1, <3>2, <3>3, <3>4
  <2> QED BY <2>3, <2>4
<1>12. U = {}
  <2>1. U \subseteq C
    OBVIOUS
  <2>2. U \in SUBSET Nat
    BY <1>3, <2>1
  <2>3. m \notin U
    <3>1. m \in Nat /\ ~(m < m)
      BY <1>tree, <1>8
    <3> QED BY <1>10, <2>1, <3>1
  <2>4. \A k \in U : k # m => \E j \in U : j < k
    BY <1>11
  <2> HIDE DEF U
  <2> QED BY <2>2, <2>3, <2>4, Descent
<1>13. ~Under(m, n)
  BY <1>3, <1>12
<1> QED BY <1>3, <1>7, <1>8, <1>9, <1>10, <1>13

\* One process is wired to read a pipe, at most.
LEMMA OneReader ==
    ASSUME IsWired(tree), NEW m, NEW a \in WiredReaders(m), NEW b \in WiredReaders(m)
    PROVE  a = b
<1>tree. IsTree(tree) /\ Nodes \subseteq Nat /\ Executables \subseteq Nodes
  BY TreeFacts DEF IsWired
<1> DEFINE C == {k \in Nodes : tree.from[k] = PipeOf(m)}
<1>1. ASSUME NEW k \in WiredReaders(m)
      PROVE  \/ k \in Executables /\ k \in C
             \/ /\ k \in Nodes /\ m \in Nodes /\ k = tree.father[m]
                /\ tree.type[tree.father[m]] # "Pipe"
  BY WiringRules DEF WiredReaders, Executables, Sequencers, SequenceTypes, Operands
<1>2. CASE m \notin Nodes \/ tree.type[tree.father[m]] # "Pipe"
  <2>1. \A k \in C : FALSE
    BY <1>2, InputAfter
  <2> QED BY <1>1, <2>1
<1>3. CASE m \in Nodes /\ tree.type[tree.father[m]] = "Pipe"
  <2> DEFINE f == tree.father[m]
             r == First(LaterOperands(f, m))
  <2>1. a \in C /\ b \in C /\ a \in Executables /\ b \in Executables
    BY <1>1, <1>3
  <2>2. \A k \in C : k # r => /\ EarlierOperands(tree.father[k], k) = {}
                              /\ tree.father[k] \in C
    <3> SUFFICES ASSUME NEW k \in C,
                        EarlierOperands(tree.father[k], k) # {}
                        \/ tree.father[k] \notin C
                 PROVE  k = r
      OBVIOUS
    <3>1. /\ EarlierOperands(tree.father[k], k) # {}
          /\ tree.father[k] \in Nodes
          /\ m = Last(EarlierOperands(tree.father[k], k))
      BY WiringRules
    <3>2. k \in Nat /\ EarlierOperands(tree.father[k], k) \in SUBSET (0..k)
      BY <1>tree, EarlierBelow DEF C
    <3>3. /\ m \in EarlierOperands(tree.father[k], k)
          /\ \A j \in EarlierOperands(tree.father[k], k) : j <= m
      BY <3>1, <3>2, LastIsGreatest
    <3>4. f = tree.father[k] /\ k \in LaterOperands(f, m) /\ m \in Nat
      BY <1>tree, <3>2, <3>3 DEF EarlierOperands, LaterOperands, Operands
    <3>5. LaterOperands(f, m) \in SUBSET Nat /\ LaterOperands(f, m) # {}
      BY <1>tree, <3>4 DEF LaterOperands, Operands
    <3>6. r \in LaterOperands(f, m) /\ r <= k
      BY <3>4, <3>5, FirstIsLeast
    <3> HIDE DEF r, f
    <3>7. r \in Nat /\ m < r /\ r \in Operands(f)
      BY <3>5, <3>6 DEF LaterOperands
    <3>8. ~(r < k)
      <4>1. SUFFICES ASSUME r < k PROVE FALSE
        OBVIOUS
      <4>2. r \in EarlierOperands(tree.father[k], k)
        BY <3>4, <3>7, <4>1 DEF EarlierOperands
      <4> QED BY <3>3, <3>4, <3>7, <4>2
    <3> QED BY <3>2, <3>6, <3>7, <3>8
  <2>3. \A k \in C : k # r => tree.father[k] \in C /\ tree.father[k] < k
    <3> SUFFICES ASSUME NEW k \in C, k # r
                 PROVE  tree.father[k] \in C /\ tree.father[k] < k
      OBVIOUS
    <3>1. tree.father[k] \in C
      BY <2>2
    <3> QED BY <1>tree, <3>1, FatherIsLess
  <2>4. C \in SUBSET Nat
    BY <1>tree
  <2>5. \A i, j \in C : i # r /\ j # r /\ tree.father[i] = tree.father[j] => i = j
    <3> SUFFICES ASSUME NEW i \in C, NEW j \in C, i # r, j # r,
                        tree.father[i] = tree.father[j]
                 PROVE  i = j
      OBVIOUS
    <3>1. /\ EarlierOperands(tree.father[i], i) = {}
          /\ EarlierOperands(tree.father[j], j) = {}
      BY <2>2
    <3>2. i \in Operands(tree.father[i]) /\ j \in Operands(tree.father[i])
      BY DEF Operands
    <3>3. i \in Nat /\ j \in Nat /\ ~(i < j) /\ ~(j < i)
      BY <2>4, <3>1, <3>2 DEF EarlierOperands
    <3> QED BY <3>3
  <2>6. \A k \in C : k # r => tree.father[k] # a /\ tree.father[k] # b
    <3>1. \A k \in Nodes : tree.father[k] \notin Executables
      BY <1>tree, TreeFacts
    <3> QED BY <2>1, <3>1
  <2> HIDE DEF C, r
  <2>7. \A x, y \in C : (\A k \in C : k # r => tree.father[k] # x /\ tree.father[k] # y)
                        => x = y
    <3>1. IsPath(C, r, tree.father)
      BY <2>3, <2>5 DEF IsPath
    <3> QED BY <2>4, <3>1, PathEnd
  <2> QED BY <2>1, <2>6, <2>7
<1> QED BY <1>2, <1>3

\* The pipes a process is wired to, by the type of its node.
LEMMA PipesForFacts ==
    ASSUME IsWired(tree)
    PROVE  /\ \A n \in Executables :
                /\ PipesFor(n) = PipesOf(tree.std_in[n]) \cup PipesOf(tree.std_out[n])
                /\ PipesOf(tree.std_in[n]) \cap PipesOf(tree.std_out[n]) = {}
           /\ \A n \in Sequencers : PipesFor(n) = PipesOf(tree.to[n]) \cup Operands(n)
           /\ \A n \in Nodes : 1 \notin PipesFor(n)
           /\ \A n \in Workers :
                /\ PipesOf(tree.std_in[n]) \subseteq Nodes
                /\ PipesOf(tree.std_out[n]) \subseteq Nodes
                /\ PipesOf(tree.to[n]) \subseteq Nodes
<1>tree. /\ IsTree(tree) /\ Executables \subseteq Nodes /\ Sequencers \subseteq Nodes
         /\ \A n : Operands(n) \subseteq Nodes
         /\ tree.father[1] = NoNode /\ NoNode \notin Nodes /\ 1 \in Nodes
         /\ Executables \cap Sequencers = {}
  BY TreeFacts DEF IsWired, Sequencers, Executables, SequenceTypes
<1>1. ASSUME NEW s \in StreamsOf(tree)
      PROVE  /\ PipesOf(s) \subseteq Nodes
             /\ \A m : m \in PipesOf(s) <=> s = PipeOf(m)
  BY StreamFacts DEF PipesOf
<1>2. ASSUME NEW n \in Executables
      PROVE  /\ PipesFor(n) = PipesOf(tree.std_in[n]) \cup PipesOf(tree.std_out[n])
             /\ PipesOf(tree.std_in[n]) \cap PipesOf(tree.std_out[n]) = {}
  <2>1. /\ \A m : m \in PipesOf(tree.std_in[n]) <=> tree.std_in[n] = PipeOf(m)
        /\ \A m : m \in PipesOf(tree.std_out[n]) <=> tree.std_out[n] = PipeOf(m)
        /\ PipesOf(tree.std_in[n]) \subseteq Nodes
        /\ PipesOf(tree.std_out[n]) \subseteq Nodes
    BY <1>tree, <1>1, WiringRules
  <2>2. \A m : n \in WiredWriters(m) <=> tree.std_out[n] = PipeOf(m)
    BY <1>tree, <1>2 DEF WiredWriters
  <2>3. \A m : n \in WiredReaders(m) <=> tree.std_in[n] = PipeOf(m)
    BY <1>tree, <1>2 DEF WiredReaders
  <2>4. ASSUME NEW m, tree.std_in[n] = PipeOf(m), tree.std_out[n] = PipeOf(m) PROVE FALSE
    <3>1. tree.from[n] = PipeOf(m) /\ tree.to[n] = PipeOf(m)
      BY <1>tree, <2>4, WiringRules
    <3>2. Under(m, n)
      BY <1>tree, <3>1, OutputUnder
    <3>3. ~Under(m, n)
      BY <1>tree, <3>1, InputAfter
    <3> QED BY <3>2, <3>3
  <2> QED BY <2>1, <2>2, <2>3, <2>4 DEF PipesFor
<1>3. ASSUME NEW n \in Sequencers
      PROVE  PipesFor(n) = PipesOf(tree.to[n]) \cup Operands(n)
  <2>1. /\ \A m : m \in PipesOf(tree.to[n]) <=> tree.to[n] = PipeOf(m)
        /\ PipesOf(tree.to[n]) \subseteq Nodes
    BY <1>tree, <1>1, WiringRules
  <2>2. \A m : n \in WiredWriters(m) <=> tree.to[n] = PipeOf(m)
    BY <1>tree, <1>3 DEF WiredWriters
  <2>3. \A m : n \in WiredReaders(m) <=> m \in Operands(n)
    BY <1>tree, <1>3 DEF WiredReaders
  <2> QED BY <1>tree, <2>1, <2>2, <2>3 DEF PipesFor
<1>4. ASSUME NEW n \in Nodes, 1 \in PipesFor(n) PROVE FALSE
  <2>1. \A k \in Nodes : tree.from[k] # PipeOf(1) /\ tree.to[k] # PipeOf(1)
    BY OutputUnder, InputAfter
  <2>2. \A k \in Nodes : tree.std_in[k] # PipeOf(1) /\ tree.std_out[k] # PipeOf(1)
    BY <2>1, WiringRules
  <2>3. 1 \notin Operands(n)
    BY <1>tree DEF Operands
  <2> QED BY <1>tree, <1>4, <2>1, <2>2, <2>3 DEF PipesFor, WiredWriters, WiredReaders
<1>5. ASSUME NEW n \in Workers
      PROVE  /\ PipesOf(tree.std_in[n]) \subseteq Nodes
             /\ PipesOf(tree.std_out[n]) \subseteq Nodes
             /\ PipesOf(tree.to[n]) \subseteq Nodes
  <2>1. n \in Nodes
    BY <1>tree DEF Workers
  <2> QED BY <1>1, <2>1, WiringRules
<1> QED BY <1>2, <1>3, <1>4, <1>5

\* What is below a pipe of an operand of a sequencing operator: its readers are not
\* executables, its writers are below the operand.
LEMMA OperandPipe ==
    ASSUME IsWired(tree), NEW m \in Nodes, IsSequenceOperand(m)
    PROVE  /\ tree.father[m] \in Sequencers /\ m \in Operands(tree.father[m])
           /\ WiredReaders(m) = {tree.father[m]}
           /\ \A n \in WiredWriters(m) : Under(m, n)
<1>tree. /\ IsTree(tree) /\ Executables \subseteq Nodes /\ Sequencers \subseteq Nodes
         /\ \A n \in Nodes : tree.father[n] \in Nodes \cup {NoNode}
         /\ tree.size \in Nat
  BY TreeFacts DEF IsWired, Sequencers, IsTree
<1>1. m \in 2..tree.size
  BY <1>tree DEF IsSequenceOperand, Nodes
<1>2. tree.father[m] \in Nodes
  BY <1>1, <1>tree DEF IsTree, Nodes
<1>3. tree.father[m] \in Sequencers /\ m \in Operands(tree.father[m])
  BY <1>2 DEF IsSequenceOperand, Sequencers, Operands
<1>4. \A n \in Nodes : tree.from[n] # PipeOf(m)
  BY InputAfter DEF IsSequenceOperand, SequenceTypes
<1>5. WiredReaders(m) = {tree.father[m]}
  BY <1>tree, <1>3, <1>4, WiringRules DEF WiredReaders, Operands
<1>6. \A n \in WiredWriters(m) : Under(m, n)
  <2>1. \A n \in WiredWriters(m) : n \in Nodes /\ tree.to[n] = PipeOf(m)
    BY <1>tree, WiringRules DEF WiredWriters
  <2> QED BY <2>1, OutputUnder
<1> QED BY <1>3, <1>5, <1>6

\* The pipes to open, each of them once.
LEMMA NotInitializedFacts ==
    ASSUME IsWired(tree), NEW S \in SUBSET Nodes
    PROVE  /\ NotInitialized(S) \in Seq(Nodes)
           /\ \A m \in S : IsOpened(m)
                \/ \E i \in 1..Len(NotInitialized(S)) : NotInitialized(S)[i] = m
           /\ \A i \in 1..Len(NotInitialized(S)) :
                NotInitialized(S)[i] \in S /\ ~IsOpened(NotInitialized(S)[i])
           /\ \A i, j \in 1..Len(NotInitialized(S)) :
                NotInitialized(S)[i] = NotInitialized(S)[j] => i = j
<1> DEFINE T == {m \in S : desc[m] = NoPipe}
           c == Cardinality(T)
<1>1. T \in SUBSET Nat /\ T \in SUBSET Nodes /\ Nodes \subseteq Nat
  BY TreeFacts DEF IsWired
<1>2. IsFiniteSet(T)
  <2>1. IsFiniteSet(Nodes)
    <3>1. 1 \in Int /\ tree.size \in Int
      BY DEF IsWired, IsTree
    <3> QED BY <3>1, FS_Interval DEF Nodes
  <2> QED BY <1>1, <2>1, FS_Subset
<1>3. NotInitialized(S) = Ascending(T)
  BY DEF NotInitialized
<1> HIDE DEF T
<1>4. /\ c \in Nat /\ Ascending(T) \in [1..c -> T]
      /\ \A m \in T : \E i \in 1..c : Ascending(T)[i] = m
      /\ \A i, j \in 1..c : Ascending(T)[i] = Ascending(T)[j] => i = j
  BY <1>1, <1>2, AscendingFacts
<1> HIDE DEF c
<1>5. Ascending(T) \in Seq(Nodes) /\ Len(Ascending(T)) = c
  <2>1. c \in Nat /\ Ascending(T) \in [1..c -> Nodes]
    BY <1>1, <1>4
  <2>2. Ascending(T) \in Seq(Nodes)
    BY <2>1, SeqDef
  <2> QED BY <2>1, <2>2, LenProperties
<1>6. \A i \in 1..c : Ascending(T)[i] \in T
  BY <1>4
<1>7. \A m \in S : m \in T \/ IsOpened(m)
  BY DEF T, IsOpened
<1>8. \A m \in T : m \in S /\ ~IsOpened(m)
  BY DEF T, IsOpened
<1> QED BY <1>3, <1>4, <1>5, <1>6, <1>7, <1>8

-----------------------------------------------------------------------------
(* The control of the parent, whatever the descriptors are.                *)

ControlTypes ==
    /\ tree \in Trees
    /\ IsWired(tree)
    /\ pc \in ControlStates
    /\ todo \subseteq Nodes
    /\ current \in Nodes \cup {NoNode}
    /\ opening \in Seq(Nodes)
    /\ frame \in (Nodes \cup {NoNode}) \X (Nodes \cup {NoNode})
    /\ state \in [Nodes -> ProcessStates]
    /\ status \in [Nodes -> {"none", "started", "ok", "failed"}]

Control == ControlTypes /\ ControlInv /\ ForkInv /\ EvaluationInv /\ HandleInv

\* The tree stays what it is.
LEMMA TreeConstant ==
    ASSUME [Next]_vars
    PROVE  /\ tree' = tree
           /\ Nodes' = Nodes
           /\ Executables' = Executables
           /\ Sequencers' = Sequencers
           /\ Workers' = Workers
           /\ Processes' = Processes
           /\ \A n : Operands(n)' = Operands(n)
           /\ \A n, m : EarlierOperands(n, m)' = EarlierOperands(n, m)
           /\ \A n, m : LaterOperands(n, m)' = LaterOperands(n, m)
           /\ \A n : IsSequence(n)' = IsSequence(n)
           /\ \A n : IsSequenceOperand(n)' = IsSequenceOperand(n)
           /\ \A n : WiredWriters(n)' = WiredWriters(n)
           /\ \A n : WiredReaders(n)' = WiredReaders(n)
           /\ \A n : PipesFor(n)' = PipesFor(n)
<1>1. tree' = tree
  BY DEF Next, vars, Parent, ExecuteAsync, OpenPipe, Fork, CloseUnused, Reap,
         HandleCompleted, Return, ToolExits, Process, Child, ChildInvokes, ChildFails,
         Executable, ExecutableReads, ExecutableWrites, WriteFails, ExecutableExits,
         Appender, AppenderStarts, AppenderReads, AppenderWrites, AppenderFails,
         AppenderEndsSource, AppenderExits
<1>2. Nodes' = Nodes
  BY <1>1 DEF Nodes
<1>3. Executables' = Executables /\ Sequencers' = Sequencers
  BY <1>1, <1>2 DEF Executables, Sequencers
<1>4. \A n : Operands(n)' = Operands(n)
  BY <1>1, <1>2 DEF Operands
<1>5. /\ \A n : WiredWriters(n)' = WiredWriters(n)
      /\ \A n : WiredReaders(n)' = WiredReaders(n)
  BY <1>1, <1>3, <1>4 DEF WiredWriters, WiredReaders
<1>6. /\ \A n, m : EarlierOperands(n, m)' = EarlierOperands(n, m)
      /\ \A n, m : LaterOperands(n, m)' = LaterOperands(n, m)
  BY <1>4 DEF EarlierOperands, LaterOperands
<1>7. \A n : PipesFor(n)' = PipesFor(n)
  BY <1>2, <1>5 DEF PipesFor
<1> QED
  BY SMTT(60), <1>1, <1>2, <1>3, <1>4, <1>5, <1>6, <1>7
  DEF Workers, Processes, IsSequence, IsSequenceOperand

\* The nodes of a wired tree.
LEMMA NodeFacts ==
    ASSUME IsWired(tree)
    PROVE  /\ IsTree(tree) /\ Nodes \subseteq Nat /\ NoNode \notin Nodes /\ 1 \in Nodes
           /\ \A n \in Nodes : tree.father[n] \in Nodes \cup {NoNode}
           /\ \A n \in Nodes : tree.father[n] # n /\ tree.father[n] \notin Executables
           /\ \A n : Operands(n) \subseteq Nodes /\ n \notin Operands(n)
           /\ \A n, m : EarlierOperands(n, m) \subseteq Nodes
           /\ \A n, m : LaterOperands(n, m) \subseteq Nodes
           /\ Executables \subseteq Nodes /\ Sequencers \subseteq Nodes
           /\ Executables \cap Sequencers = {}
           /\ \A n \in Nodes : n \in Executables <=> tree.type[n] = "Executable"
           /\ \A n \in Nodes : n \in Sequencers <=> IsSequence(n)
           /\ \A n \in Nodes : IsSequence(n) => tree.type[n] # "Pipe"
           /\ \A n \in Nodes : n \in Workers <=> tree.type[n] # "Pipe"
<1>1. IsTree(tree)
  BY DEF IsWired
<1>2. \A n \in Nodes : tree.type[n] \in NodeTypes
  BY <1>1, TreeFacts
<1>3. \A n \in Nodes : /\ n \in Executables <=> tree.type[n] = "Executable"
                       /\ n \in Sequencers <=> IsSequence(n)
                       /\ IsSequence(n) => tree.type[n] # "Pipe"
                       /\ n \in Workers <=> tree.type[n] # "Pipe"
                       /\ ~(n \in Executables /\ n \in Sequencers)
  BY <1>2 DEF Executables, Sequencers, IsSequence, Workers, SequenceTypes, NodeTypes
<1>4. Executables \subseteq Nodes /\ Sequencers \subseteq Nodes
  BY DEF Executables, Sequencers
<1>5. /\ \A n : Operands(n) \subseteq Nodes /\ n \notin Operands(n)
  BY <1>1, TreeFacts DEF Operands
<1>6. /\ \A n, m : EarlierOperands(n, m) \subseteq Nodes
      /\ \A n, m : LaterOperands(n, m) \subseteq Nodes
  BY <1>5 DEF EarlierOperands, LaterOperands
<1> QED BY <1>1, <1>3, <1>4, <1>5, <1>6, TreeFacts

\* The control of the parent is right at the start.
LEMMA ControlInit == Init => Control
<1> SUFFICES ASSUME Init PROVE Control
  OBVIOUS
<1>1. tree \in Trees /\ IsWired(tree)
  BY WiredAssumption DEF Init
<1>2. /\ 1 \in Nodes /\ NoNode \notin Nodes /\ tree.father[1] = NoNode
      /\ \A n \in Nodes : tree.father[n] # NoNode => tree.father[n] \in Nodes
  BY <1>1, NodeFacts, TreeFacts
<1>3. ControlTypes
  BY <1>1, <1>2 DEF Init, ControlTypes, ControlStates, ProcessStates
<1>4. /\ pc = "async" /\ todo = {1} /\ current = NoNode /\ opening = <<>>
      /\ \A n \in Nodes : state[n] = "none" /\ status[n] = "none"
      /\ \A n \in Nodes : ~Begun(n) /\ ~Ended(n)
  BY DEF Init, Begun, Ended
<1>5. ControlInv /\ HandleInv
  BY <1>4 DEF ControlInv, HandleInv
<1>6. Executables \subseteq Nodes /\ Sequencers \subseteq Nodes
  BY <1>1, NodeFacts
<1>7. ForkInv
  BY <1>4, <1>6 DEF ForkInv, Workers, Alive
<1>8. EvaluationInv
  BY <1>2, <1>4 DEF EvaluationInv, TodoInv, OrderInv, SequenceInv, PipeInv
<1> QED BY <1>3, <1>5, <1>7, <1>8 DEF Control

\* What a step of a process, other than the parent, does to the control: nothing,
\* but that an executable may leave its status.
LEMMA ProcessEffect ==
    ASSUME Control, NEW n \in Nodes, Process(n)
    PROVE  /\ UNCHANGED <<parentVars, memoryVars>>
           /\ n \in Workers /\ Alive(n)
           /\ state' \in [Nodes -> ProcessStates]
           /\ status' \in [Nodes -> {"none", "started", "ok", "failed"}]
           /\ \A k \in Nodes \ {n} : state'[k] = state[k] /\ status'[k] = status[k]
           /\ n \in Executables =>
                \/ status'[n] = status[n] /\ state'[n] \in {"running", "writing", "written"}
                \/ status'[n] \in {"ok", "failed"} /\ state'[n] = "zombie"
           /\ n \in Sequencers =>
                status'[n] = status[n] /\ state'[n] \in {"copying", "zombie"}
<1>tree. /\ IsWired(tree) /\ ForkInv
         /\ state \in [Nodes -> ProcessStates]
         /\ status \in [Nodes -> {"none", "started", "ok", "failed"}]
  BY DEF Control, ControlTypes
<1>facts. /\ Executables \cap Sequencers = {}
          /\ n \in Executables <=> tree.type[n] = "Executable"
          /\ n \in Sequencers <=> tree.type[n] \in SequenceTypes
  BY <1>tree, NodeFacts DEF IsSequence
<1>states. /\ state[n] \in {"running", "writing", "written"} => n \in Executables
           /\ state[n] = "copying" => n \in Sequencers
           /\ {"running", "writing", "written", "copying", "zombie"} \subseteq ProcessStates
  BY <1>tree, <1>facts DEF ForkInv, Workers, ProcessStates
<1>goes. ASSUME NEW s \in {"running", "writing", "written", "copying", "zombie"},
                state' = [state EXCEPT ![n] = s]
         PROVE  /\ state' \in [Nodes -> ProcessStates] /\ state'[n] = s
                /\ \A k \in Nodes \ {n} : state'[k] = state[k]
  BY <1>tree, <1>states, <1>goes
<1>quiet. ASSUME UNCHANGED <<parentVars, memoryVars, status>>, Alive(n),
                 \/ /\ n \in Executables
                    /\ \E s \in {"running", "writing", "written"} :
                         state' = [state EXCEPT ![n] = s]
                 \/ /\ n \in Sequencers
                    /\ \E s \in {"copying", "zombie"} : state' = [state EXCEPT ![n] = s]
          PROVE  /\ UNCHANGED <<parentVars, memoryVars>>
                 /\ n \in Workers /\ Alive(n)
                 /\ state' \in [Nodes -> ProcessStates]
                 /\ status' \in [Nodes -> {"none", "started", "ok", "failed"}]
                 /\ \A k \in Nodes \ {n} : state'[k] = state[k] /\ status'[k] = status[k]
                 /\ n \in Executables =>
                      /\ status'[n] = status[n]
                      /\ state'[n] \in {"running", "writing", "written"}
                 /\ n \in Sequencers =>
                      status'[n] = status[n] /\ state'[n] \in {"copying", "zombie"}
  <2>1. n \in Workers
    BY <1>quiet DEF Workers
  <2>2. PICK s \in {"running", "writing", "written", "copying", "zombie"} :
          /\ state' = [state EXCEPT ![n] = s]
          /\ n \in Executables => s \in {"running", "writing", "written"}
          /\ n \in Sequencers => s \in {"copying", "zombie"}
    BY <1>quiet, <1>facts
  <2>3. /\ state' \in [Nodes -> ProcessStates] /\ state'[n] = s
        /\ \A k \in Nodes \ {n} : state'[k] = state[k]
    BY <1>goes, <2>2
  <2> QED BY <1>tree, <1>quiet, <2>1, <2>2, <2>3
<1>ends. ASSUME UNCHANGED <<parentVars, memoryVars>>, Alive(n), n \in Executables,
                NEW outcome \in {"ok", "failed"}, ExecutableEnds(n, outcome)
         PROVE  /\ n \in Workers
                /\ state' \in [Nodes -> ProcessStates]
                /\ status' \in [Nodes -> {"none", "started", "ok", "failed"}]
                /\ \A k \in Nodes \ {n} : state'[k] = state[k] /\ status'[k] = status[k]
                /\ status'[n] \in {"ok", "failed"} /\ state'[n] = "zombie"
  <2>1. n \in Workers
    BY <1>ends DEF Workers
  <2>2. /\ state' = [state EXCEPT ![n] = "zombie"]
        /\ status' = [status EXCEPT ![n] = outcome]
    BY <1>ends DEF ExecutableEnds, Terminates
  <2>3. /\ status' \in [Nodes -> {"none", "started", "ok", "failed"}]
        /\ status'[n] = outcome /\ \A k \in Nodes \ {n} : status'[k] = status[k]
    BY <1>tree, <2>2
  <2> QED BY <1>goes, <2>1, <2>2, <2>3
<1>same. state = [state EXCEPT ![n] = state[n]]
  BY <1>tree
<1>1. CASE ChildInvokes(n)
  BY <1>1, <1>facts, <1>quiet DEF ChildInvokes, Alive
<1>2. CASE ChildFails(n)
  <2>1. UNCHANGED <<parentVars, memoryVars>> /\ Alive(n) /\ n \in Executables
    BY <1>2, <1>facts DEF ChildFails, Alive
  <2>2. ExecutableEnds(n, "failed")
    BY <1>2 DEF ChildFails
  <2> QED BY <1>ends, <1>facts, <2>1, <2>2
<1>3. CASE ExecutableReads(n)
  <2>1. \/ state' = [state EXCEPT ![n] = "writing"]
        \/ state' = [state EXCEPT ![n] = "running"]
    BY <1>3, <1>same DEF ExecutableReads
  <2>2. UNCHANGED <<parentVars, memoryVars, status>> /\ Alive(n) /\ n \in Executables
    BY <1>3, <1>states DEF ExecutableReads, Alive
  <2> QED BY <1>quiet, <2>1, <2>2, <1>facts
<1>4. CASE ExecutableWrites(n)
  <2>1. \/ state' = [state EXCEPT ![n] = "writing"]
        \/ state' = [state EXCEPT ![n] = "written"]
    BY <1>4 DEF ExecutableWrites
  <2>2. UNCHANGED <<parentVars, memoryVars, status>> /\ Alive(n) /\ n \in Executables
    BY <1>4, <1>states DEF ExecutableWrites, Alive
  <2> QED BY <1>quiet, <2>1, <2>2, <1>facts
<1>5. CASE WriteFails(n)
  <2>1. UNCHANGED <<parentVars, memoryVars>> /\ Alive(n) /\ n \in Executables
    BY <1>5, <1>states DEF WriteFails, Alive
  <2>2. ExecutableEnds(n, "failed")
    BY <1>5 DEF WriteFails
  <2> QED BY <1>ends, <1>facts, <2>1, <2>2
<1>6. CASE ExecutableExits(n)
  <2>1. UNCHANGED <<parentVars, memoryVars>> /\ Alive(n) /\ n \in Executables
    BY <1>6, <1>states DEF ExecutableExits, Alive
  <2>2. PICK outcome \in {"ok", "failed"} : ExecutableEnds(n, outcome)
    BY <1>6 DEF ExecutableExits
  <2> QED BY <1>ends, <1>facts, <2>1, <2>2
<1>7. CASE AppenderStarts(n)
  BY <1>7, <1>facts, <1>quiet DEF AppenderStarts, Alive
<1>8. CASE AppenderReads(n) \/ AppenderWrites(n) \/ AppenderEndsSource(n)
  <2>1. UNCHANGED <<parentVars, memoryVars, status, state>> /\ state[n] = "copying"
    BY <1>8 DEF AppenderReads, AppenderWrites, AppenderEndsSource
  <2>2. state' = [state EXCEPT ![n] = "copying"] /\ Alive(n) /\ n \in Sequencers
    BY <1>same, <1>states, <2>1 DEF Alive
  <2> QED BY <1>quiet, <1>facts, <2>1, <2>2
<1>9. CASE AppenderFails(n) \/ AppenderExits(n)
  <2>1. /\ UNCHANGED <<parentVars, memoryVars, status>> /\ state[n] = "copying"
        /\ state' = [state EXCEPT ![n] = "zombie"]
    BY <1>9 DEF AppenderFails, AppenderExits, Terminates
  <2>2. Alive(n) /\ n \in Sequencers
    BY <1>states, <2>1 DEF Alive
  <2> QED BY <1>quiet, <1>facts, <2>1, <2>2
<1> QED BY <1>1, <1>2, <1>3, <1>4, <1>5, <1>6, <1>7, <1>8, <1>9
        DEF Process, Child, Executable, Appender

\* What execute_async() does to the control.
LEMMA StartEffect ==
    ASSUME Control, ExecuteAsync
    PROVE  \E n \in todo :
             /\ n = First(todo) /\ n \in Nodes /\ ~Begun(n) /\ state[n] = "none"
             /\ StartPipe(n) \/ StartExecutable(n) \/ StartSequence(n)
             /\ status' = [status EXCEPT ![n] = "started"]
             /\ status' \in [Nodes -> {"none", "started", "ok", "failed"}]
             /\ \A m \in Nodes : status'[m] = IF m = n THEN "started" ELSE status[m]
             /\ UNCHANGED <<state, frame>>
             /\ n \notin todo' /\ todo \ {n} \subseteq todo'
             /\ todo' \ todo \subseteq Operands(n)
             /\ IsSequence(n) => \A k \in todo' \ todo : EarlierOperands(n, k) = {}
             /\ n \in Workers => current' = n /\ pc' = "open"
             /\ n \notin Workers => UNCHANGED <<pc, current, opening>> /\ todo' # {}
             /\ n \in Sequencers => First(Operands(n)) \in Operands(n)
<1>tree. /\ IsWired(tree) /\ ForkInv /\ TodoInv /\ ControlInv
         /\ status \in [Nodes -> {"none", "started", "ok", "failed"}]
         /\ todo \subseteq Nodes /\ Nodes \subseteq Nat
         /\ \A k : Operands(k) \subseteq Nodes /\ k \notin Operands(k)
  BY NodeFacts DEF Control, ControlTypes, EvaluationInv
<1>1. todo # {} /\ todo \in SUBSET Nat
  BY <1>tree DEF ExecuteAsync, ControlInv
<1>2. First(todo) \in todo
  BY <1>1, FirstIsLeast
<1>3. PICK n \in todo : n = First(todo)
  BY <1>2
<1>4. n \in Nodes /\ ~Begun(n) /\ state[n] = "none"
  BY <1>tree DEF TodoInv, ForkInv
<1>5. /\ StartPipe(n) \/ StartExecutable(n) \/ StartSequence(n)
      /\ status' = [status EXCEPT ![n] = "started"]
      /\ UNCHANGED <<state, frame>>
  BY <1>3 DEF ExecuteAsync
<1>6. /\ status' \in [Nodes -> {"none", "started", "ok", "failed"}]
      /\ \A m \in Nodes : status'[m] = IF m = n THEN "started" ELSE status[m]
  BY <1>tree, <1>4, <1>5
<1>7. /\ n \in Executables <=> tree.type[n] = "Executable"
      /\ n \in Sequencers <=> IsSequence(n)
      /\ n \in Workers <=> tree.type[n] # "Pipe"
      /\ IsSequence(n) <=> tree.type[n] \in SequenceTypes
      /\ IsSequence(n) => tree.type[n] # "Pipe"
      /\ tree.type[n] = "Executable" => ~IsSequence(n)
  BY <1>tree, <1>4, NodeFacts DEF IsSequence, SequenceTypes
<1>8. tree.type[n] # "Executable" => Operands(n) # {}
  <2>1. OperandsIn(tree, n) = Operands(n) /\ n \in 1..tree.size
    BY <1>4 DEF OperandsIn, Operands, Nodes
  <2> QED BY <1>tree, <2>1 DEF IsWired
<1>9. Operands(n) # {} =>
        /\ First(Operands(n)) \in Operands(n)
        /\ EarlierOperands(n, First(Operands(n))) = {}
  <2>1. Operands(n) \in SUBSET Nat
    BY <1>tree
  <2>2. Operands(n) # {} =>
          /\ First(Operands(n)) \in Operands(n)
          /\ \A m \in Operands(n) : First(Operands(n)) <= m
    BY <2>1, FirstIsLeast
  <2>3. Operands(n) # {} => \A m \in Operands(n) : ~(m < First(Operands(n)))
    BY <2>1, <2>2
  <2> QED BY <2>2, <2>3 DEF EarlierOperands
<1>10. CASE StartPipe(n)
  <2>1. /\ todo' = (todo \ {n}) \cup Operands(n) /\ tree.type[n] = "Pipe"
        /\ UNCHANGED <<pc, current, opening>>
    BY <1>10 DEF StartPipe
  <2>2. n \notin Workers /\ n \notin Sequencers /\ ~IsSequence(n)
    BY <1>7, <2>1
  <2> QED BY <1>3, <1>4, <1>5, <1>6, <1>8, <1>tree, <2>1, <2>2
<1>11. CASE StartExecutable(n)
  <2>1. /\ todo' = todo \ {n} /\ current' = n /\ pc' = "open"
        /\ tree.type[n] = "Executable"
    BY <1>11 DEF StartExecutable
  <2>2. n \in Workers /\ n \notin Sequencers /\ ~IsSequence(n)
    BY <1>7, <2>1
  <2> QED BY <1>3, <1>4, <1>5, <1>6, <2>1, <2>2
<1>12. CASE StartSequence(n)
  <2>1. /\ todo' = (todo \ {n}) \cup {First(Operands(n))}
        /\ current' = n /\ pc' = "open" /\ tree.type[n] \in SequenceTypes
    BY <1>12 DEF StartSequence
  <2>2. n \in Workers /\ First(Operands(n)) \in Operands(n)
    BY <1>7, <1>8, <1>9, <2>1 DEF SequenceTypes
  <2>3. \A k \in todo' \ todo : EarlierOperands(n, k) = {}
    BY <1>9, <2>1, <2>2
  <2>4. n \notin todo' /\ todo \ {n} \subseteq todo' /\ todo' \ todo \subseteq Operands(n)
    BY <1>tree, <2>1, <2>2
  <2> QED BY <1>3, <1>4, <1>5, <1>6, <2>1, <2>2, <2>3, <2>4
<1> QED BY <1>5, <1>10, <1>11, <1>12

\* What handle_operands_node_execution_completed() does to the control.
LEMMA HandleEffect ==
    ASSUME Control, HandleCompleted
    PROVE  LET operator == frame[1]
               completed == frame[2]
           IN
           /\ pc = "handle" /\ todo = {}
           /\ operator \in Nodes /\ completed \in Nodes
           /\ operator = tree.father[completed] /\ completed \in Operands(operator)
           /\ operator \notin Executables
           /\ status[completed] \in {"ok", "failed"} /\ Ended(completed)
           /\ UNCHANGED <<current, opening, state, fds, memoryVars>>
           /\ \/ /\ IsSequence(operator) /\ LaterOperands(operator, completed) # {}
                 /\ ExecuteNext(operator, completed)
              \/ /\ \/ IsSequence(operator)
                    \/ /\ tree.type[operator] = "Pipe"
                       /\ LaterOperands(operator, completed) = {}
                 /\ EndOperator(operator, status[completed])
              \/ pc' = "wait" /\ UNCHANGED <<todo, frame, status>>
<1> DEFINE operator == frame[1]
           completed == frame[2]
<1>tree. /\ IsWired(tree) /\ ControlInv /\ HandleInv
         /\ \A n \in Nodes : tree.father[n] \notin Executables
         /\ \A n \in Nodes : n \notin Executables =>
              tree.type[n] = "Pipe" \/ IsSequence(n)
  BY NodeFacts DEF Control, ControlTypes, Workers
<1>1. pc = "handle" /\ UNCHANGED <<current, opening, state, fds, memoryVars>>
  BY DEF HandleCompleted
<1>2. /\ operator \in Nodes /\ completed \in Nodes /\ todo = {}
      /\ operator = tree.father[completed] /\ Ended(completed)
  BY <1>1, <1>tree DEF ControlInv, HandleInv
<1>3. completed \in Operands(operator) /\ operator \notin Executables
  BY <1>2, <1>tree DEF Operands
<1>4. status[completed] \in {"ok", "failed"}
  BY <1>2 DEF Ended
<1>5. tree.type[operator] = "Pipe" \/ IsSequence(operator)
  BY <1>2, <1>3, <1>tree
<1> HIDE DEF operator, completed
<1>6. \/ /\ IsSequence(operator) /\ LaterOperands(operator, completed) # {}
         /\ ExecuteNext(operator, completed)
      \/ /\ \/ IsSequence(operator)
            \/ tree.type[operator] = "Pipe" /\ LaterOperands(operator, completed) = {}
         /\ EndOperator(operator, status[completed])
      \/ pc' = "wait" /\ UNCHANGED <<todo, frame, status>>
  BY <1>5 DEF HandleCompleted, operator, completed, IsSequence, SequenceTypes
<1> QED BY <1>1, <1>2, <1>3, <1>4, <1>6 DEF operator, completed

\* The parent's control stays in its range, and with it what was forked.
LEMMA ForkNext ==
    ASSUME Control, [Next]_vars
    PROVE  ControlTypes' /\ ControlInv' /\ ForkInv'
<1>const. /\ tree' = tree /\ Nodes' = Nodes /\ Executables' = Executables
          /\ Sequencers' = Sequencers /\ Workers' = Workers
  BY TreeConstant
<1>tree. ControlTypes /\ ControlInv /\ ForkInv /\ EvaluationInv /\ IsWired(tree)
  BY DEF Control, ControlTypes
<1>facts. /\ Nodes \subseteq Nat /\ NoNode \notin Nodes
          /\ \A n \in Nodes : tree.father[n] \in Nodes \cup {NoNode}
          /\ \A n : Operands(n) \subseteq Nodes
          /\ \A n, m : LaterOperands(n, m) \subseteq Nodes
          /\ Executables \subseteq Nodes /\ Sequencers \subseteq Nodes /\ Workers \subseteq Nodes
          /\ Executables \cap Sequencers = {}
          /\ \A n \in Nodes : n \in Executables <=> tree.type[n] = "Executable"
          /\ \A n \in Nodes : n \in Sequencers <=> IsSequence(n)
  BY <1>tree, NodeFacts DEF Workers
<1>types. /\ state \in [Nodes -> ProcessStates]
          /\ status \in [Nodes -> {"none", "started", "ok", "failed"}]
          /\ todo \subseteq Nodes /\ opening \in Seq(Nodes)
          /\ current \in Nodes \cup {NoNode} /\ pc \in ControlStates
          /\ frame \in (Nodes \cup {NoNode}) \X (Nodes \cup {NoNode})
          /\ tree' \in Trees /\ IsWired(tree')
  BY <1>tree, <1>const DEF ControlTypes
<1>states. /\ {"none", "forked", "running", "writing", "written", "copying", "zombie",
               "reaped"} = ProcessStates
           /\ {"async", "open", "close", "wait", "handle", "returned", "exited"}
                = ControlStates
  BY DEF ProcessStates, ControlStates
\* Nothing happens to a process, and at most the status of a father is set.
<1>same. ASSUME state' = state,
                status' \in [Nodes -> {"none", "started", "ok", "failed"}],
                \A n \in Nodes : Begun(n) => Begun(n)',
                \A n \in Workers : Begun(n)' =>
                  \/ Begun(n) /\ ~(pc = "open" /\ n = current)
                  \/ pc' = "open" /\ n = current',
                \A n \in Executables :
                  \/ status'[n] = status[n]
                  \/ state[n] = "none" /\ status'[n] = "started",
                pc' = "open" => state[current'] = "none" /\ Begun(current)',
                pc' = "close" => state[current'] # "none"
         PROVE  ForkInv'
  <2>1. \A n \in Nodes : state'[n] # "none" => n \in Workers' /\ Begun(n)'
    BY <1>tree, <1>same, <1>const DEF ForkInv
  <2>2. \A n \in Workers :
          Begun(n)' => state'[n] # "none" \/ (pc' = "open" /\ n = current')
    BY <1>tree, <1>same DEF ForkInv
  <2>3. \A n \in Executables :
          /\ state'[n] # "copying"
          /\ state'[n] \in {"zombie", "reaped"} <=> status'[n] \in {"ok", "failed"}
    BY <1>tree, <1>same DEF ForkInv, Alive
  <2>4. \A n \in Sequencers : state'[n] \in {"none", "forked", "copying", "zombie"}
    BY <1>tree, <1>same DEF ForkInv
  <2> QED BY <2>1, <2>2, <2>3, <2>4, <1>same, <1>const DEF ForkInv
<1>1. CASE ExecuteAsync
  <2>n. PICK n \in todo :
             /\ n = First(todo) /\ n \in Nodes /\ ~Begun(n) /\ state[n] = "none"
             /\ StartPipe(n) \/ StartExecutable(n) \/ StartSequence(n)
             /\ status' = [status EXCEPT ![n] = "started"]
             /\ status' \in [Nodes -> {"none", "started", "ok", "failed"}]
             /\ \A m \in Nodes : status'[m] = IF m = n THEN "started" ELSE status[m]
             /\ UNCHANGED <<state, frame>>
             /\ n \notin todo' /\ todo \ {n} \subseteq todo'
             /\ todo' \ todo \subseteq Operands(n)
             /\ IsSequence(n) => \A k \in todo' \ todo : EarlierOperands(n, k) = {}
             /\ n \in Workers => current' = n /\ pc' = "open"
             /\ n \notin Workers => UNCHANGED <<pc, current, opening>> /\ todo' # {}
             /\ n \in Sequencers => First(Operands(n)) \in Operands(n)
    BY <1>1, StartEffect
  <2>pc. pc = "async" /\ current = NoNode /\ opening = <<>>
    BY <1>1, <1>tree DEF ExecuteAsync, ControlInv
  <2>1. todo' \subseteq Nodes
    BY <2>n, <1>facts, <1>types
  <2>2. opening' \in Seq(Nodes) /\ (pc' # "open" => opening' = <<>>)
    <3>1. CASE StartPipe(n)
      BY <2>pc, <3>1, <1>types DEF StartPipe
    <3>2. CASE StartExecutable(n)
      <4>1. n \in Executables /\ n \in Workers
        BY <2>n, <3>2, <1>facts DEF StartExecutable, Workers
      <4>2. /\ PipesOf(tree.std_in[n]) \in SUBSET Nodes
            /\ PipesOf(tree.std_out[n]) \in SUBSET Nodes
        BY <1>tree, <4>1, PipesForFacts
      <4>3. /\ NotInitialized(PipesOf(tree.std_in[n])) \in Seq(Nodes)
            /\ NotInitialized(PipesOf(tree.std_out[n])) \in Seq(Nodes)
        BY <1>tree, <4>2, NotInitializedFacts
      <4>4. /\ opening' = NotInitialized(PipesOf(tree.std_in[n]))
                            \o NotInitialized(PipesOf(tree.std_out[n]))
            /\ pc' = "open"
        BY <3>2 DEF StartExecutable
      <4> QED BY <4>3, <4>4, ConcatProperties
    <3>3. CASE StartSequence(n)
      <4>1. n \in Sequencers /\ n \in Workers
        BY <2>n, <3>3, <1>facts DEF StartSequence, Workers, IsSequence
      <4>2. PipesOf(tree.to[n]) \cup Operands(n) \in SUBSET Nodes
        BY <1>tree, <1>facts, <4>1, PipesForFacts
      <4>3. NotInitialized(PipesOf(tree.to[n]) \cup Operands(n)) \in Seq(Nodes)
        BY <1>tree, <4>2, NotInitializedFacts
      <4>4. /\ opening' = NotInitialized(PipesOf(tree.to[n]) \cup Operands(n))
            /\ pc' = "open"
        BY <3>3 DEF StartSequence
      <4> QED BY <4>3, <4>4
    <3> QED BY <2>n, <3>1, <3>2, <3>3
  <2>3. ControlTypes'
    BY <2>n, <2>pc, <2>1, <2>2, <1>types, <1>const, <1>states DEF ControlTypes
  <2>4. ControlInv'
    BY <2>n, <2>pc, <2>2, <1>const, <1>facts DEF ControlInv
  <2>5. \A m \in Nodes : Begun(m)' <=> Begun(m) \/ m = n
    BY <2>n, <1>const DEF Begun
  <2>6. ForkInv'
    BY <2>n, <2>pc, <2>5, <1>same, <1>facts
  <2> QED BY <2>3, <2>4, <2>6
<1>2. CASE OpenPipe
  <2>1. /\ UNCHANGED <<pc, todo, current, frame, state, status>>
        /\ pc = "open" /\ opening # <<>> /\ opening' = Tail(opening)
    BY <1>2 DEF OpenPipe
  <2>2. opening' \in Seq(Nodes)
    BY <2>1, <1>types
  <2>3. ControlTypes'
    BY <2>1, <2>2, <1>types, <1>const DEF ControlTypes
  <2>4. ControlInv'
    BY <2>1, <1>tree, <1>const DEF ControlInv
  <2>5. ForkInv'
    BY <2>1, <1>tree, <1>const DEF ForkInv, Begun, Alive
  <2> QED BY <2>3, <2>4, <2>5
<1>3. CASE Fork
  <2>1. /\ UNCHANGED <<todo, current, opening, frame, status>>
        /\ pc = "open" /\ pc' = "close" /\ opening = <<>>
        /\ state' = [state EXCEPT ![current] = "forked"]
    BY <1>3 DEF Fork
  <2>2. current \in Workers /\ current \in Nodes /\ Begun(current) /\ state[current] = "none"
    BY <2>1, <1>tree, <1>facts DEF ControlInv, ForkInv
  <2>3. /\ state' \in [Nodes -> ProcessStates]
        /\ \A n \in Nodes : state'[n] = IF n = current THEN "forked" ELSE state[n]
    BY <2>1, <2>2, <1>types, <1>states
  <2>4. ControlTypes'
    BY <2>1, <2>3, <1>types, <1>const, <1>states DEF ControlTypes
  <2>5. ControlInv'
    BY <2>1, <2>2, <1>tree, <1>const DEF ControlInv
  <2>7. ForkInv'
    BY <2>1, <2>2, <2>3, <1>tree, <1>const, <1>facts DEF ForkInv, Begun, Alive
  <2> QED BY <2>4, <2>5, <2>7
<1>4. CASE CloseUnused
  <2>1. /\ UNCHANGED <<todo, opening, frame, state, status>>
        /\ pc = "close" /\ pc' = AfterAsync(todo) /\ current' = NoNode
    BY <1>4 DEF CloseUnused
  <2>2. opening = <<>> /\ pc' \in {"async", "wait"} /\ (pc' = "async" <=> todo # {})
    BY <2>1, <1>tree DEF ControlInv, AfterAsync
  <2>3. ControlTypes'
    BY <2>1, <2>2, <1>types, <1>const, <1>states DEF ControlTypes
  <2>4. ControlInv'
    BY <2>1, <2>2 DEF ControlInv
  <2>5. \A n \in Nodes : Begun(n)' <=> Begun(n)
    BY <2>1 DEF Begun
  <2>6. ForkInv'
    BY <2>1, <2>2, <2>5, <1>same, <1>facts, <1>types
  <2> QED BY <2>3, <2>4, <2>6
<1>5. ASSUME NEW n \in Nodes, Reap(n) PROVE ControlTypes' /\ ControlInv' /\ ForkInv'
  <2>1. /\ UNCHANGED <<todo, current, opening, status>>
        /\ pc = "wait" /\ n \in Executables /\ state[n] = "zombie"
        /\ state' = [state EXCEPT ![n] = "reaped"]
        /\ frame' = <<tree.father[n], n>>
        /\ pc' = IF tree.father[n] = NoNode THEN "wait" ELSE "handle"
    BY <1>5 DEF Reap
  <2>2. /\ state' \in [Nodes -> ProcessStates]
        /\ \A m \in Nodes : state'[m] = IF m = n THEN "reaped" ELSE state[m]
    BY <2>1, <1>types, <1>states
  <2>3. ControlTypes'
    BY <2>1, <2>2, <1>facts, <1>types, <1>const, <1>states DEF ControlTypes
  <2>4. ControlInv'
    BY <2>1, <1>facts, <1>tree, <1>const DEF ControlInv
  <2>5. ForkInv'
    BY <2>1, <2>2, <1>tree, <1>const, <1>facts DEF ForkInv, Begun, Alive
  <2> QED BY <2>3, <2>4, <2>5
<1>6. CASE HandleCompleted
  <2> DEFINE operator == frame[1]
             completed == frame[2]
  <2>1. /\ pc = "handle" /\ todo = {}
        /\ operator \in Nodes /\ completed \in Nodes
        /\ operator \notin Executables /\ status[completed] \in {"ok", "failed"}
        /\ Begun(operator)
        /\ UNCHANGED <<current, opening, state>>
        /\ \/ /\ LaterOperands(operator, completed) # {}
              /\ ExecuteNext(operator, completed)
           \/ EndOperator(operator, status[completed])
           \/ pc' = "wait" /\ UNCHANGED <<todo, frame, status>>
    BY <1>6, HandleEffect DEF Control, HandleInv
  <2>2. current = NoNode /\ opening = <<>>
    BY <2>1, <1>tree DEF ControlInv
  <2> HIDE DEF operator, completed
  <2>3. CASE LaterOperands(operator, completed) # {} /\ ExecuteNext(operator, completed)
    <3>1. First(LaterOperands(operator, completed)) \in Nodes
      <4>1. LaterOperands(operator, completed) \in SUBSET Nat
        BY <1>facts
      <4> QED BY <2>3, <4>1, <1>facts, FirstIsLeast
    <3>2. /\ todo' = {First(LaterOperands(operator, completed))} /\ pc' = "async"
          /\ UNCHANGED <<frame, status>>
      BY <2>3 DEF ExecuteNext
    <3>3. ControlTypes' /\ ControlInv'
      BY <2>1, <2>2, <3>1, <3>2, <1>types, <1>const, <1>states DEF ControlTypes, ControlInv
    <3>4. \A n \in Nodes : Begun(n)' <=> Begun(n)
      BY <3>2 DEF Begun
    <3>5. ForkInv'
      BY <2>1, <2>2, <3>2, <3>4, <1>same, <1>facts, <1>types
    <3> QED BY <3>3, <3>5
  <2>4. CASE EndOperator(operator, status[completed])
    <3>1. /\ status' = [status EXCEPT ![operator] = status[completed]]
          /\ frame' = <<tree.father[operator], operator>>
          /\ pc' = IF tree.father[operator] = NoNode THEN "wait" ELSE "handle"
          /\ UNCHANGED todo
      BY <2>4 DEF EndOperator
    <3>2. /\ status' \in [Nodes -> {"none", "started", "ok", "failed"}]
          /\ \A n \in Nodes : status'[n] =
                               IF n = operator THEN status[completed] ELSE status[n]
      BY <2>1, <3>1, <1>types
    <3>3. ControlTypes' /\ ControlInv'
      BY <2>1, <2>2, <3>1, <3>2, <1>types, <1>const, <1>states, <1>facts
         DEF ControlTypes, ControlInv
    <3>4. \A n \in Nodes : Begun(n)' <=> Begun(n)
      BY <2>1, <3>2 DEF Begun
    <3>5. ForkInv'
      BY <2>1, <2>2, <3>1, <3>2, <3>4, <1>same, <1>facts, <1>types
    <3> QED BY <3>3, <3>5
  <2>5. CASE pc' = "wait" /\ UNCHANGED <<todo, frame, status>>
    <3>1. ControlTypes' /\ ControlInv'
      BY <2>1, <2>2, <2>5, <1>types, <1>const, <1>states DEF ControlTypes, ControlInv
    <3>2. \A n \in Nodes : Begun(n)' <=> Begun(n)
      BY <2>5 DEF Begun
    <3>3. ForkInv'
      BY <2>1, <2>2, <2>5, <3>2, <1>same, <1>facts, <1>types
    <3> QED BY <3>1, <3>3
  <2> QED BY <2>1, <2>3, <2>4, <2>5
<1>7. CASE Return \/ ToolExits
  <2>1. /\ UNCHANGED <<todo, current, opening, frame, state, status>>
        /\ pc \in {"wait", "returned"} /\ pc' \in {"returned", "exited"}
    BY <1>7 DEF Return, ToolExits
  <2>2. ControlTypes' /\ ControlInv'
    BY <2>1, <1>tree, <1>types, <1>const, <1>states DEF ControlTypes, ControlInv
  <2>3. \A n \in Nodes : Begun(n)' <=> Begun(n)
    BY <2>1 DEF Begun
  <2>4. ForkInv'
    BY <2>1, <2>3, <1>same, <1>facts, <1>types
  <2> QED BY <2>2, <2>4
<1>8. ASSUME NEW n \in Nodes, Process(n) PROVE ControlTypes' /\ ControlInv' /\ ForkInv'
  <2>1. /\ UNCHANGED parentVars
        /\ n \in Workers /\ Alive(n)
        /\ state' \in [Nodes -> ProcessStates]
        /\ status' \in [Nodes -> {"none", "started", "ok", "failed"}]
        /\ \A k \in Nodes \ {n} : state'[k] = state[k] /\ status'[k] = status[k]
        /\ n \in Executables =>
             \/ status'[n] = status[n] /\ state'[n] \in {"running", "writing", "written"}
             \/ status'[n] \in {"ok", "failed"} /\ state'[n] = "zombie"
        /\ n \in Sequencers =>
             status'[n] = status[n] /\ state'[n] \in {"copying", "zombie"}
    BY <1>8, ProcessEffect
  <2>2. UNCHANGED <<pc, todo, current, opening, frame>>
    BY <2>1 DEF parentVars
  <2>3. ControlTypes' /\ ControlInv'
    BY <2>1, <2>2, <1>tree, <1>types, <1>const DEF ControlTypes, ControlInv
  <2>4. Begun(n) /\ state[n] # "none"
    BY <2>1, <1>tree DEF ForkInv, Alive
  <2>5. state'[n] \notin {"none", "reaped"} /\ Begun(n)'
    BY <2>1, <2>4 DEF Workers, Begun
  <2>6. \A k \in Nodes : Begun(k)' <=> Begun(k)
    BY <2>1, <2>4, <2>5 DEF Begun
  <2>7. /\ \A k \in Nodes : state'[k] # "none" => k \in Workers' /\ Begun(k)'
        /\ \A k \in Workers :
              Begun(k)' => state'[k] # "none" \/ (pc' = "open" /\ k = current')
    BY <2>1, <2>2, <2>4, <2>5, <2>6, <1>tree, <1>const, <1>facts DEF ForkInv
  <2>8. /\ pc' = "open" => state'[current'] = "none" /\ Begun(current)'
        /\ pc' = "close" => state'[current'] # "none"
    BY <2>1, <2>2, <2>4, <2>5, <1>tree, <1>facts DEF ForkInv, ControlInv, Begun
  <2>9. \A k \in Executables :
          /\ state'[k] # "copying"
          /\ state'[k] \in {"zombie", "reaped"} <=> status'[k] \in {"ok", "failed"}
    <3> SUFFICES ASSUME NEW k \in Executables
                 PROVE  /\ state'[k] # "copying"
                        /\ state'[k] \in {"zombie", "reaped"} <=>
                             status'[k] \in {"ok", "failed"}
      OBVIOUS
    <3>1. CASE k = n
      BY <2>1, <3>1, <1>tree DEF ForkInv, Alive
    <3>2. CASE k # n
      BY <2>1, <3>2, <1>tree, <1>facts DEF ForkInv, Alive
    <3> QED BY <3>1, <3>2
  <2>10. \A k \in Sequencers : state'[k] \in {"none", "forked", "copying", "zombie"}
    BY <2>1, <1>tree, <1>facts DEF ForkInv
  <2> QED BY <2>3, <2>7, <2>8, <2>9, <2>10, <1>const DEF ForkInv
<1>9. CASE UNCHANGED vars
  <2>1. UNCHANGED <<pc, todo, current, opening, frame, state, status>>
    BY <1>9 DEF vars, parentVars
  <2> QED BY <2>1, <1>tree, <1>types, <1>const
          DEF ControlTypes, ControlInv, ForkInv, Begun, Alive
<1> QED BY <1>1, <1>2, <1>3, <1>4, <1>5, <1>6, <1>7, <1>8, <1>9 DEF Next, Parent

\* A node that has ended was begun.
LEMMA EndedIsBegun ==
    ASSUME NEW n, Ended(n)
    PROVE  Begun(n)
BY DEF Ended, Begun

\* The father of a node that is running waits for it.
LEMMA FatherWaits ==
    ASSUME EvaluationInv, NEW n \in Nodes, Begun(n), ~Ended(n),
           NEW f \in Nodes, f = tree.father[n], NoNode \notin Nodes, Nodes \subseteq Nat
    PROVE  /\ Begun(f)
           /\ IsSequence(f) => /\ ~Ended(f)
                               /\ \A m \in LaterOperands(f, n) : ~Begun(m)
           /\ tree.type[f] = "Pipe" /\ LaterOperands(f, n) = {} => ~Ended(f)
<1>1. n \in Operands(f) /\ f # NoNode
  BY DEF Operands
<1>2. Begun(f)
  BY <1>1 DEF EvaluationInv, OrderInv
<1>3. IsSequence(f) => ~Ended(f)
  BY <1>1 DEF EvaluationInv, SequenceInv
<1>4. ASSUME IsSequence(f), NEW m \in LaterOperands(f, n) PROVE ~Begun(m)
  <2>1. n \in EarlierOperands(f, m) /\ m \in Nodes /\ tree.father[m] = f
    BY <1>1, <1>4 DEF EarlierOperands, LaterOperands, Operands
  <2> QED BY <1>1, <1>4, <2>1 DEF EvaluationInv, OrderInv
<1>5. tree.type[f] = "Pipe" /\ LaterOperands(f, n) = {} => ~Ended(f)
  BY <1>1 DEF EvaluationInv, PipeInv
<1> QED BY <1>2, <1>3, <1>4, <1>5

\* Nodes begin and end in the order of the evaluation.
LEMMA EvaluationNext ==
    ASSUME Control, [Next]_vars
    PROVE  EvaluationInv' /\ HandleInv'
<1> DEFINE Same == \A m \in Nodes : (Ended(m)' <=> Ended(m)) /\ (Begun(m)' <=> Begun(m))
<1>tree. /\ IsWired(tree) /\ ControlTypes /\ ForkInv
         /\ EvaluationInv /\ HandleInv /\ ControlInv
  BY DEF Control, ControlTypes
<1>const. /\ tree' = tree
          /\ Nodes' = Nodes /\ Executables' = Executables
          /\ \A n : Operands(n)' = Operands(n)
          /\ \A n, m : EarlierOperands(n, m)' = EarlierOperands(n, m)
          /\ \A n, m : LaterOperands(n, m)' = LaterOperands(n, m)
          /\ \A n : IsSequence(n)' = IsSequence(n)
  BY TreeConstant
<1>facts. /\ Nodes \subseteq Nat /\ NoNode \notin Nodes
          /\ \A n \in Nodes : tree.father[n] \in Nodes \cup {NoNode}
          /\ \A n \in Nodes : tree.father[n] # n /\ tree.father[n] \notin Executables
          /\ \A n : Operands(n) \subseteq Nodes
          /\ \A n, m : EarlierOperands(n, m) \subseteq Nodes
          /\ \A n, m : LaterOperands(n, m) \subseteq Nodes
          /\ todo \subseteq Nodes
          /\ Executables \subseteq Nodes /\ Executables \cap Sequencers = {}
          /\ \A n \in Nodes : n \in Executables <=> tree.type[n] = "Executable"
          /\ \A n \in Nodes : n \in Sequencers <=> IsSequence(n)
          /\ \A n \in Nodes : n \in Workers <=> tree.type[n] # "Pipe"
          /\ \A n \in Nodes : IsSequence(n) => tree.type[n] # "Pipe"
  BY <1>tree, NodeFacts DEF ControlTypes
<1>types. /\ state \in [Nodes -> ProcessStates]
          /\ status \in [Nodes -> {"none", "started", "ok", "failed"}]
  BY <1>tree DEF ControlTypes
<1>quiet. ASSUME Same, todo' = todo,
                 pc' = "handle" => pc = "handle" /\ frame' = frame
          PROVE  EvaluationInv' /\ HandleInv'
  <2>1. TodoInv'
    BY <1>tree, <1>quiet, <1>facts, <1>const DEF EvaluationInv, TodoInv
  <2>2. OrderInv'
    BY <1>tree, <1>quiet, <1>facts, <1>const DEF EvaluationInv, OrderInv
  <2>3. SequenceInv'
    BY <1>tree, <1>quiet, <1>facts, <1>const DEF EvaluationInv, SequenceInv
  <2>4. PipeInv'
    BY <1>tree, <1>quiet, <1>facts, <1>const DEF EvaluationInv, PipeInv
  <2>5. HandleInv'
    <3>1. pc = "handle" => frame \in Nodes \X Nodes
      BY <1>tree DEF ControlInv
    <3> QED BY <1>tree, <1>quiet, <1>facts, <1>const, <3>1 DEF HandleInv
  <2> QED BY <2>1, <2>2, <2>3, <2>4, <2>5 DEF EvaluationInv
<1>2. CASE ExecuteAsync
  <2> DEFINE new == todo' \ todo
  <2>n. PICK n \in todo :
             /\ n = First(todo) /\ n \in Nodes /\ ~Begun(n) /\ state[n] = "none"
             /\ StartPipe(n) \/ StartExecutable(n) \/ StartSequence(n)
             /\ status' = [status EXCEPT ![n] = "started"]
             /\ status' \in [Nodes -> {"none", "started", "ok", "failed"}]
             /\ \A m \in Nodes : status'[m] = IF m = n THEN "started" ELSE status[m]
             /\ UNCHANGED <<state, frame>>
             /\ n \notin todo' /\ todo \ {n} \subseteq todo'
             /\ todo' \ todo \subseteq Operands(n)
             /\ IsSequence(n) => \A k \in todo' \ todo : EarlierOperands(n, k) = {}
             /\ n \in Workers => current' = n /\ pc' = "open"
             /\ n \notin Workers => UNCHANGED <<pc, current, opening>> /\ todo' # {}
             /\ n \in Sequencers => First(Operands(n)) \in Operands(n)
    BY <1>2, StartEffect
  <2>1. /\ \A m \in Nodes : Ended(m)' <=> Ended(m)
        /\ \A m \in Nodes : Begun(m)' <=> Begun(m) \/ m = n
    BY <2>n, <1>const DEF Begun, Ended
  <2>2. pc' # "handle"
    BY <1>2, <2>n DEF ExecuteAsync
  <2>3. \A k \in new : k \in Nodes /\ tree.father[k] = n /\ k # n /\ ~Begun(k)
    <3>1. \A k \in new : k \in Nodes /\ tree.father[k] = n /\ k # n
      BY <2>n, <1>facts DEF Operands
    <3>2. ~Begun(n) /\ n # NoNode /\ OrderInv
      BY <2>n, <1>tree, <1>facts DEF EvaluationInv
    <3> QED BY <3>1, <3>2 DEF OrderInv
  <2>4. ~Ended(n)
    BY <2>n, EndedIsBegun
  <2>newest. new = {k \in new : TRUE} /\ \A k \in todo' : k \in new \/ (k \in todo /\ k # n)
    BY <2>n
  <2>early. IsSequence(n) => \A k \in new : EarlierOperands(n, k) = {}
    BY <2>n
  <2> HIDE DEF new
  <2>6. TodoInv'
    <3> SUFFICES ASSUME NEW k \in todo', NEW f, f = tree.father[k]
                 PROVE  /\ ~Begun(k)'
                        /\ f # NoNode /\ IsSequence(f) => ~Ended(f)'
      BY <1>const DEF TodoInv
    <3>1. CASE k \in new
      <4>1. k \in Nodes /\ f = n /\ k # n /\ ~Begun(k) /\ n \in Nodes
        BY <2>3, <2>n, <3>1
      <4> QED BY <2>1, <2>4, <4>1
    <3>2. CASE k \notin new
      <4>1. k \in todo /\ k # n /\ k \in Nodes
        BY <2>newest, <3>2, <1>facts
      <4>2. /\ ~Begun(k)
            /\ f # NoNode /\ IsSequence(f) => ~Ended(f)
        BY <4>1, <1>tree DEF EvaluationInv, TodoInv
      <4>3. f \in Nodes \cup {NoNode}
        BY <4>1, <1>facts
      <4> QED BY <2>1, <4>1, <4>2, <4>3
    <3> QED BY <3>1, <3>2
  <2>7. OrderInv'
    <3> SUFFICES ASSUME NEW k \in Nodes, k \in todo' \/ Begun(k)',
                        NEW f \in Nodes, f = tree.father[k]
                 PROVE  /\ Begun(f)'
                        /\ IsSequence(f) => \A m \in EarlierOperands(f, k) : Ended(m)'
      BY <1>const, <1>facts DEF OrderInv
    <3>1. CASE k \in new
      BY <2>1, <2>3, <2>early, <3>1
    <3>2. CASE k \notin new
      <4>1. k \in todo \/ Begun(k)
        BY <2>1, <2>n, <2>newest, <3>2
      <4>2. /\ Begun(f)
            /\ IsSequence(f) => \A m \in EarlierOperands(f, k) : Ended(m)
        BY <4>1, <1>tree, <1>facts DEF EvaluationInv, OrderInv
      <4> QED BY <2>1, <4>2, <1>facts
    <3> QED BY <3>1, <3>2
  <2>8. SequenceInv'
    <3> SUFFICES ASSUME NEW s \in Nodes, Ended(s)', IsSequence(s),
                        NEW m \in Operands(s), Begun(m)'
                 PROVE  Ended(m)'
      BY <1>const DEF SequenceInv
    <3>1. m \in Nodes /\ tree.father[m] = s /\ Ended(s) /\ s # NoNode
      BY <2>1, <1>facts DEF Operands
    <3>2. m # n
      BY <2>n, <3>1, <1>tree DEF EvaluationInv, TodoInv
    <3> QED BY <2>1, <3>1, <3>2, <1>tree DEF EvaluationInv, SequenceInv
  <2>9. PipeInv'
    BY <2>1, <1>tree, <1>facts, <1>const DEF EvaluationInv, PipeInv
  <2>10. HandleInv'
    BY <2>2 DEF HandleInv
  <2> QED BY <2>6, <2>7, <2>8, <2>9, <2>10 DEF EvaluationInv
<1>ends. ASSUME NEW n \in Nodes, Begun(n), ~Ended(n),
                IsSequence(n) => \A m \in Operands(n) : Begun(m) => Ended(m),
                tree.type[n] = "Pipe" =>
                  \A m \in Operands(n) : LaterOperands(n, m) = {} => Ended(m),
                \A k \in todo : tree.father[k] # n,
                \A m \in Nodes : Ended(m)' <=> Ended(m) \/ m = n,
                \A m \in Nodes : Begun(m)' <=> Begun(m),
                todo' = todo, frame' = <<tree.father[n], n>>,
                pc' = IF tree.father[n] = NoNode THEN "wait" ELSE "handle"
         PROVE  EvaluationInv' /\ HandleInv'
  <2>1. TodoInv'
    BY <1>ends, <1>tree, <1>facts, <1>const DEF EvaluationInv, TodoInv
  <2>2. OrderInv'
    BY <1>ends, <1>tree, <1>facts, <1>const DEF EvaluationInv, OrderInv
  <2>3. SequenceInv'
    <3> SUFFICES ASSUME NEW s \in Nodes, Ended(s)', IsSequence(s),
                        NEW m \in Operands(s), Begun(m)
                 PROVE  Ended(m)'
      BY <1>ends, <1>facts, <1>const DEF SequenceInv
    <3> QED BY <1>ends, <1>tree, <1>facts DEF EvaluationInv, SequenceInv
  <2>4. PipeInv'
    BY <1>ends, <1>tree, <1>facts, <1>const DEF EvaluationInv, PipeInv
  <2>5. HandleInv'
    <3> SUFFICES ASSUME NEW f \in Nodes, f = tree.father[n] PROVE HandleInv'
      BY <1>ends, <1>facts DEF HandleInv
    <3>1. /\ Begun(f)
          /\ IsSequence(f) => /\ ~Ended(f)
                              /\ \A m \in LaterOperands(f, n) : ~Begun(m)
          /\ tree.type[f] = "Pipe" /\ LaterOperands(f, n) = {} => ~Ended(f)
      BY <1>ends, <1>tree, <1>facts, FatherWaits
    <3>2. f # n
      BY <1>facts
    <3>3. frame' = <<f, n>>
      BY <1>ends
    <3>4. Ended(n)' /\ (Begun(f)' <=> Begun(f)) /\ (Ended(f)' <=> Ended(f))
      BY <1>ends, <3>2
    <3>5. \A m \in LaterOperands(f, n) : Begun(m)' <=> Begun(m)
      BY <1>ends, <1>facts
    <3> QED BY <3>1, <3>3, <3>4, <3>5, <1>const DEF HandleInv
  <2> QED BY <2>1, <2>2, <2>3, <2>4, <2>5 DEF EvaluationInv
<1>3. ASSUME NEW n \in Nodes, Reap(n) PROVE EvaluationInv' /\ HandleInv'
  <2>1. /\ UNCHANGED <<todo, status>>
        /\ pc = "wait" /\ n \in Executables /\ state[n] = "zombie"
        /\ state' = [state EXCEPT ![n] = "reaped"]
        /\ frame' = <<tree.father[n], n>>
        /\ pc' = IF tree.father[n] = NoNode THEN "wait" ELSE "handle"
    BY <1>3 DEF Reap
  <2>2. \A m \in Nodes : state'[m] = IF m = n THEN "reaped" ELSE state[m]
    BY <2>1, <1>types
  <2>3. status[n] \in {"ok", "failed"} /\ todo = {}
    BY <2>1, <1>tree DEF ForkInv, ControlInv
  <2>4. /\ \A m \in Nodes : Ended(m)' <=> Ended(m) \/ m = n
        /\ \A m \in Nodes : Begun(m)' <=> Begun(m)
        /\ Begun(n) /\ ~Ended(n)
    BY <2>1, <2>2, <2>3, <1>const DEF Ended, Begun
  <2>5. ~IsSequence(n) /\ tree.type[n] # "Pipe"
    BY <2>1, <1>facts
  <2> QED BY <2>1, <2>3, <2>4, <2>5, <1>ends
<1>4. CASE HandleCompleted
  <2> DEFINE operator == frame[1]
             completed == frame[2]
  <2>1. /\ operator \in Nodes /\ completed \in Nodes /\ pc = "handle" /\ todo = {}
        /\ operator = tree.father[completed] /\ operator \notin Executables
        /\ completed \in Operands(operator) /\ operator # NoNode
        /\ status[completed] \in {"ok", "failed"} /\ UNCHANGED state
        /\ \/ /\ IsSequence(operator) /\ LaterOperands(operator, completed) # {}
              /\ ExecuteNext(operator, completed)
           \/ /\ \/ IsSequence(operator)
                 \/ /\ tree.type[operator] = "Pipe"
                    /\ LaterOperands(operator, completed) = {}
              /\ EndOperator(operator, status[completed])
           \/ pc' = "wait" /\ UNCHANGED <<todo, frame, status>>
    BY <1>4, <1>facts, HandleEffect
  <2>2. /\ Begun(operator) /\ Ended(completed) /\ Begun(completed)
        /\ IsSequence(operator) =>
             /\ ~Ended(operator)
             /\ \A m \in LaterOperands(operator, completed) : ~Begun(m)
        /\ tree.type[operator] = "Pipe" /\ LaterOperands(operator, completed) = {} =>
             ~Ended(operator)
    BY <2>1, <1>tree, EndedIsBegun DEF HandleInv
  <2>3. IsSequence(operator) => \A k \in EarlierOperands(operator, completed) : Ended(k)
    BY <2>1, <2>2, <1>tree DEF EvaluationInv, OrderInv
  <2>4. ASSUME NEW s \in {"ok", "failed"}, EndOperator(operator, s),
               \/ IsSequence(operator)
               \/ tree.type[operator] = "Pipe" /\ LaterOperands(operator, completed) = {}
        PROVE  EvaluationInv' /\ HandleInv'
    <3>0. /\ status' = [status EXCEPT ![operator] = s]
          /\ UNCHANGED todo /\ frame' = <<tree.father[operator], operator>>
          /\ pc' = IF tree.father[operator] = NoNode THEN "wait" ELSE "handle"
      BY <2>4 DEF EndOperator
    <3> HIDE DEF operator, completed
    <3>s. \A m \in Nodes : status'[m] = IF m = operator THEN s ELSE status[m]
      BY <2>1, <3>0, <1>types
    <3>1. /\ \A m \in Nodes : Ended(m)' <=> Ended(m) \/ m = operator
          /\ \A m \in Nodes : Begun(m)' <=> Begun(m)
      BY <2>1, <2>2, <3>s, <1>const DEF Ended, Begun
    <3>2. \A m \in Operands(operator) :
            m = completed \/ m \in EarlierOperands(operator, completed)
                          \/ m \in LaterOperands(operator, completed)
      BY <2>1, <1>facts, OperandOrder
    <3>3. \A m \in EarlierOperands(operator, completed) :
            completed \in LaterOperands(operator, m)
      BY <2>1, <1>facts, OperandOrder DEF EarlierOperands
    <3>4. IsSequence(operator) =>
            \A m \in Operands(operator) : Begun(m) => Ended(m)
      BY <2>2, <2>3, <3>2
    <3>5. tree.type[operator] = "Pipe" =>
            \A m \in Operands(operator) : LaterOperands(operator, m) = {} => Ended(m)
      BY <2>1, <2>2, <2>4, <3>2, <3>3, <1>facts
    <3>6. ~Ended(operator) /\ \A k \in todo : tree.father[k] # operator
      BY <2>1, <2>2, <2>4
    <3> QED BY <1>ends, <2>1, <2>2, <3>0, <3>1, <3>4, <3>5, <3>6
  <2>5. ASSUME IsSequence(operator), LaterOperands(operator, completed) # {},
               ExecuteNext(operator, completed)
        PROVE  EvaluationInv' /\ HandleInv'
    <3> DEFINE k == First(LaterOperands(operator, completed))
    <3>1. /\ k \in LaterOperands(operator, completed)
          /\ \A m \in LaterOperands(operator, completed) : k <= m
      <4>1. LaterOperands(operator, completed) \in SUBSET Nat
        BY <1>facts
      <4> QED BY <2>5, <4>1, FirstIsLeast
    <3> HIDE DEF k
    <3>2. todo' = {k} /\ pc' = "async" /\ status' = status
      BY <2>5 DEF ExecuteNext, k
    <3>3. Same
      BY <2>1, <3>2, <1>const DEF Ended, Begun
    <3>4. k \in Nodes /\ tree.father[k] = operator /\ ~Begun(k)
      BY <2>2, <2>5, <3>1, <1>facts DEF LaterOperands, Operands
    <3>5. \A m \in EarlierOperands(operator, k) : Ended(m)
      <4> SUFFICES ASSUME NEW m \in EarlierOperands(operator, k) PROVE Ended(m)
        OBVIOUS
      <4>1. m \in Nat /\ completed \in Nat /\ k \in Nat /\ m < k
        BY <1>facts, <2>1, <3>4 DEF EarlierOperands
      <4>2. m \notin LaterOperands(operator, completed)
        BY <3>1, <4>1
      <4>3. m = completed \/ m \in EarlierOperands(operator, completed)
        BY <4>1, <4>2 DEF EarlierOperands, LaterOperands
      <4> QED BY <2>2, <2>3, <2>5, <4>3
    <3> HIDE DEF operator, completed
    <3>6. TodoInv'
      BY <2>1, <2>2, <2>5, <3>2, <3>3, <3>4, <1>const DEF TodoInv
    <3>7. OrderInv'
      <4> SUFFICES ASSUME NEW m \in Nodes, m = k \/ Begun(m), tree.father[m] # NoNode
                   PROVE  /\ Begun(tree.father[m])
                          /\ IsSequence(tree.father[m]) =>
                               \A j \in EarlierOperands(tree.father[m], m) : Ended(j)
        BY <3>2, <3>3, <1>const, <1>facts DEF OrderInv
      <4> QED BY <2>1, <2>2, <3>4, <3>5, <1>tree DEF EvaluationInv, OrderInv
    <3>8. SequenceInv' /\ PipeInv'
      BY <3>3, <1>tree, <1>const, <1>facts DEF EvaluationInv, SequenceInv, PipeInv
    <3>9. HandleInv'
      BY <3>2 DEF HandleInv
    <3> QED BY <3>6, <3>7, <3>8, <3>9 DEF EvaluationInv
  <2>6. ASSUME pc' = "wait", UNCHANGED <<todo, frame, status>>
        PROVE  EvaluationInv' /\ HandleInv'
    <3>1. Same
      BY <2>1, <2>6, <1>const DEF Ended, Begun
    <3> QED BY <2>6, <3>1, <1>quiet
  <2> HIDE DEF operator, completed
  <2> QED BY <2>1, <2>4, <2>5, <2>6
<1>5. CASE Fork
  <2>1. /\ UNCHANGED <<todo, frame, status>> /\ pc = "open" /\ pc' = "close"
        /\ state' = [state EXCEPT ![current] = "forked"]
    BY <1>5 DEF Fork
  <2>2. \A m \in Nodes : state'[m] = IF m = current THEN "forked" ELSE state[m]
    BY <2>1, <1>types
  <2>3. state[current] = "none"
    BY <2>1, <1>tree DEF ForkInv
  <2>4. Same
    BY <2>1, <2>2, <2>3, <1>const, <1>facts DEF Ended, Begun
  <2> QED BY <2>1, <2>4, <1>quiet
<1>6. CASE OpenPipe \/ CloseUnused \/ Return \/ ToolExits \/ UNCHANGED vars
  <2>1. /\ UNCHANGED <<todo, frame, status, state>>
        /\ pc' = "handle" => pc = "handle"
    BY <1>6 DEF OpenPipe, CloseUnused, Return, ToolExits, vars, parentVars, AfterAsync
  <2>2. Same
    BY <2>1, <1>const DEF Ended, Begun
  <2> QED BY <2>1, <2>2, <1>quiet
<1>7. ASSUME NEW n \in Nodes, Process(n) PROVE EvaluationInv' /\ HandleInv'
  <2>1. /\ UNCHANGED <<pc, todo, current, opening, frame>>
        /\ n \in Workers /\ Alive(n)
        /\ \A k \in Nodes \ {n} : state'[k] = state[k] /\ status'[k] = status[k]
        /\ n \in Executables =>
             \/ status'[n] = status[n] /\ state'[n] \in {"running", "writing", "written"}
             \/ status'[n] \in {"ok", "failed"} /\ state'[n] = "zombie"
        /\ n \in Sequencers => status'[n] = status[n]
    BY <1>7, ProcessEffect DEF parentVars
  <2>2. Begun(n) /\ status[n] \in {"none", "started", "ok", "failed"}
    BY <2>1, <1>tree, <1>types DEF ForkInv, Alive
  <2>3. Same
    <3> SUFFICES ASSUME NEW m \in Nodes
                 PROVE  (Ended(m)' <=> Ended(m)) /\ (Begun(m)' <=> Begun(m))
      OBVIOUS
    <3>1. CASE m # n
      BY <2>1, <3>1, <1>const DEF Ended, Begun
    <3>2. CASE m = n /\ n \in Executables
      <4>1. state[n] # "reaped" /\ state'[n] # "reaped"
        BY <2>1, <3>2 DEF Alive
      <4> QED BY <2>1, <2>2, <3>2, <4>1, <1>const DEF Ended, Begun
    <3>3. CASE m = n /\ n \in Sequencers
      BY <2>1, <3>3, <1>const, <1>facts DEF Ended, Begun
    <3> QED BY <2>1, <3>1, <3>2, <3>3 DEF Workers
  <2> QED BY <2>1, <2>3, <1>quiet
<1> QED BY <1>2, <1>3, <1>4, <1>5, <1>6, <1>7 DEF Next, Parent

\* The control of the parent is right after each step.
LEMMA ControlNext == Control /\ [Next]_vars => Control'
BY ForkNext, EvaluationNext DEF Control

-----------------------------------------------------------------------------
(* The tables of descriptors.                                              *)

MemoryTypes ==
    /\ fds \in [Processes -> [Fd -> Ends]]
    /\ desc \in [Nodes -> Fd \X Fd]
    /\ to_fd \in [Nodes -> Fd]
    /\ open_appender_fds \in Seq(Fd)
    /\ known \in [Nodes -> Nat]

\* A table without an end of the pipe of an operand, but for its standard output.
NoAppenderEnds(table) ==
    \A fd \in Fd \ {1}, m \in Nodes : IsSequenceOperand(m) => table[fd] # WriteEnd(m)

Memory ==
    /\ MemoryTypes
    /\ OpenedInv
    /\ OpeningInv
    /\ TableInv
    /\ HeldInv
    /\ ToFdInv
    /\ CollectedInv
    /\ ChildInv
    /\ ExecutablesHoldNoAppenderEnds

\* What the values of two functions on S, 0, 1, 2 and one more leave of F.
Spare(F, S, f, g, e) ==
    {a \in F : a \notin {0, 1, 2, e} /\ \A m \in S : a # f[m] /\ a # g[m]}

\* Of a set of numbers that is large enough, they leave two.
LEMMA TwoAreLeft ==
    ASSUME NEW S, IsFiniteSet(S), NEW F, IsFiniteSet(F),
           NEW f, NEW g, NEW e, Cardinality(F) >= 2 * Cardinality(S) + 6
    PROVE  \E a, b \in Spare(F, S, f, g, e) : a # b
<1> DEFINE Values(h) == {h[m] : m \in S}
           c == Cardinality(S)
           A == Values(f) \cup Values(g) \cup {0} \cup {1} \cup {2} \cup {e}
<1>1. c \in Nat /\ Cardinality(F) \in Nat
  BY FS_CardinalityType
<1>2. ASSUME NEW h
      PROVE  /\ IsFiniteSet(Values(h)) /\ Cardinality(Values(h)) \in Nat
             /\ Cardinality(Values(h)) <= c
  <2>1. [m \in S |-> h[m]] \in Surjection(S, Values(h))
    BY DEF Surjection
  <2> QED BY <2>1, FS_Surjection, FS_CardinalityType
<1>3. ASSUME NEW T, IsFiniteSet(T), NEW x
      PROVE  /\ IsFiniteSet(T \cup {x}) /\ Cardinality(T \cup {x}) \in Nat
             /\ Cardinality(T \cup {x}) <= Cardinality(T) + 1
  <2>1. Cardinality(T) \in Nat
    BY <1>3, FS_CardinalityType
  <2> QED BY <1>3, <2>1, FS_AddElement
<1> DEFINE V == Values(f) \cup Values(g)
<1>4. IsFiniteSet(V) /\ Cardinality(V) \in Nat /\ Cardinality(V) <= 2 * c
  <2> DEFINE X == Values(f)
             Y == Values(g)
  <2>1. /\ IsFiniteSet(X) /\ Cardinality(X) \in Nat /\ Cardinality(X) <= c
        /\ IsFiniteSet(Y) /\ Cardinality(Y) \in Nat /\ Cardinality(Y) <= c
    BY <1>2
  <2> HIDE DEF X, Y, c
  <2>2. X \cap Y \in SUBSET X
    OBVIOUS
  <2>3. IsFiniteSet(X \cap Y)
    BY <2>1, <2>2, FS_Subset
  <2>4. Cardinality(X \cap Y) \in Nat
    BY <2>3, FS_CardinalityType
  <2>5. /\ IsFiniteSet(X \cup Y)
        /\ Cardinality(X \cup Y) = Cardinality(X) + Cardinality(Y) - Cardinality(X \cap Y)
    BY <2>1, FS_Union
  <2>6. Cardinality(X \cup Y) \in Nat /\ Cardinality(X \cup Y) <= 2 * c
    BY SMTT(60), <1>1, <2>1, <2>4, <2>5, FS_CardinalityType
  <2> QED BY <2>5, <2>6 DEF X, Y
<1> HIDE DEF Values, c
<1>5. /\ IsFiniteSet(A) /\ Cardinality(A) \in Nat /\ Cardinality(A) <= 2 * c + 4
  <2> DEFINE V0 == V \cup {0}
             V1 == V0 \cup {1}
             V2 == V1 \cup {2}
  <2> HIDE DEF V
  <2>1. IsFiniteSet(V0) /\ Cardinality(V0) \in Nat /\ Cardinality(V0) <= Cardinality(V) + 1
    BY <1>3, <1>4
  <2> HIDE DEF V0
  <2>2. IsFiniteSet(V1) /\ Cardinality(V1) \in Nat /\ Cardinality(V1) <= Cardinality(V0) + 1
    BY <1>3, <2>1
  <2> HIDE DEF V1
  <2>3. IsFiniteSet(V2) /\ Cardinality(V2) \in Nat /\ Cardinality(V2) <= Cardinality(V1) + 1
    BY <1>3, <2>2
  <2> HIDE DEF V2
  <2>4. /\ IsFiniteSet(V2 \cup {e}) /\ Cardinality(V2 \cup {e}) \in Nat
        /\ Cardinality(V2 \cup {e}) <= Cardinality(V2) + 1
    BY <1>3, <2>3
  <2>5. A = V2 \cup {e}
    BY DEF V, V0, V1, V2
  <2>6. Cardinality(V2 \cup {e}) <= 2 * c + 4
    BY <1>1, <1>4, <2>1, <2>2, <2>3, <2>4
  <2> QED BY <2>4, <2>5, <2>6
<1>6. ASSUME NEW B, IsFiniteSet(B), Cardinality(B) \in Nat, Cardinality(B) <= 2 * c + 5
      PROVE  \E a \in F : a \notin B
  <2>1. SUFFICES ASSUME F \in SUBSET B PROVE FALSE
    OBVIOUS
  <2>2. Cardinality(F) <= Cardinality(B)
    BY <1>6, <2>1, FS_Subset
  <2>3. Cardinality(F) >= 2 * c + 6
    BY DEF c
  <2> QED BY <1>1, <1>6, <2>2, <2>3
<1> DEFINE B == A
<1>7. /\ \A m \in S : f[m] \in A /\ g[m] \in A
      /\ 0 \in A /\ 1 \in A /\ 2 \in A /\ e \in A
  BY DEF Values
<1> HIDE DEF A, B
<1>8. PICK a \in F : a \notin A
  <2>1. Cardinality(A) <= 2 * c + 5
    BY <1>1, <1>5
  <2> QED BY <1>5, <1>6, <2>1
<1>9. PICK b \in F : b \notin A \cup {a}
  <2>1. /\ IsFiniteSet(A \cup {a}) /\ Cardinality(A \cup {a}) \in Nat
        /\ Cardinality(A \cup {a}) <= Cardinality(A) + 1
    BY <1>3, <1>5
  <2>2. Cardinality(A \cup {a}) <= 2 * c + 5
    BY <1>1, <1>5, <2>1
  <2> QED BY <1>6, <2>1, <2>2
<1> QED BY <1>7, <1>8, <1>9 DEF Spare

\* What a descriptor may stand for.
LEMMA EndsFacts ==
    /\ \A m, k : /\ ReadEnd(m) # WriteEnd(k) /\ ReadEnd(m) # Closed /\ WriteEnd(m) # Closed
                 /\ ReadEnd(m) # Input(k) /\ ReadEnd(m) # Output(k)
                 /\ WriteEnd(m) # Input(k) /\ WriteEnd(m) # Output(k)
                 /\ Input(m) # Closed /\ Output(m) # Closed /\ Input(m) # Output(k)
                 /\ ReadEnd(m) = ReadEnd(k) => m = k
                 /\ WriteEnd(m) = WriteEnd(k) => m = k
    /\ Closed \in Ends
    /\ \A m \in Nodes : ReadEnd(m) \in Ends /\ WriteEnd(m) \in Ends
    /\ \A n \in Processes : Input(n) \in Ends /\ Output(n) \in Ends
    /\ \A end \in Ends : /\ end[1] \in {"read", "write"} => end[2] \in Nodes
                         /\ end[1] \in {"input", "output"} => end[2] \in Processes
BY DEF ReadEnd, WriteEnd, Input, Output, Closed, Ends

\* The numbers of descriptors.
LEMMA FdFacts ==
    /\ Fd \subseteq Nat /\ 0 \in Fd /\ 1 \in Fd /\ 2 \in Fd /\ 3..MaxFd \subseteq Fd
    /\ \A fd \in Fd : fd \in {0, 1, 2} \/ fd \in 3..MaxFd
    /\ \A fd \in 3..MaxFd : fd \in Nat /\ fd \notin {0, 1, 2}
BY SizesAssumption DEF Fd

\* open() takes a number that was free, and no other one changes.
LEMMA LowestFacts ==
    ASSUME NEW table \in [Fd -> Ends], NEW a \in Fd, table[a] = Closed
    PROVE  /\ Lowest(table) \in Fd /\ table[Lowest(table)] = Closed
           /\ \A end \in Ends :
                /\ Opened(table, end) \in [Fd -> Ends]
                /\ \A fd \in Fd : Opened(table, end)[fd] =
                                    IF fd = Lowest(table) THEN end ELSE table[fd]
<1> DEFINE S == {fd \in Fd : table[fd] = Closed}
<1>1. S \in SUBSET Nat /\ S # {}
  BY FdFacts
<1>2. First(S) \in S
  BY <1>1, FirstIsLeast
<1>3. Lowest(table) \in Fd /\ table[Lowest(table)] = Closed
  BY <1>2 DEF Lowest
<1> QED BY <1>3 DEF Opened

\* close() changes what it is called for.
LEMMA WithoutFacts ==
    ASSUME NEW table \in [Fd -> Ends], NEW S
    PROVE  /\ WithoutFds(table, S) \in [Fd -> Ends]
           /\ \A fd \in Fd : WithoutFds(table, S)[fd] = IF fd \in S THEN Closed ELSE table[fd]
BY EndsFacts DEF WithoutFds

\* While the tool runs there is room for two more descriptors in its table.
LEMMA FreeFds ==
    ASSUME EnoughFds, Control, MemoryTypes, OpenedInv, TableInv, pc # "exited"
    PROVE  \E a, b \in Fd : /\ a # b /\ a \in 3..MaxFd /\ b \in 3..MaxFd
                            /\ fds[Tool][a] = Closed /\ fds[Tool][b] = Closed
<1>tree. tree \in Trees /\ tree.size \in Nat \ {0}
  BY TreesAssumption DEF Control, ControlTypes, IsTree
<1> DEFINE S == 2..tree.size
           read == [m \in S |-> ReadFd(m)]
           write == [m \in S |-> WriteFd(m)]
           e == to_fd[current]
<1>1. IsFiniteSet(S) /\ Cardinality(S) = tree.size - 1
  <2>1. PICK k \in Nat \ {0} : k = tree.size
    BY <1>tree
  <2>2. 2 \in Int /\ k \in Int
    OBVIOUS
  <2>3. IsFiniteSet(2..k) /\ Cardinality(2..k) = IF 2 > k THEN 0 ELSE k - 2 + 1
    BY <2>2, FS_Interval
  <2>4. Cardinality(2..k) = k - 1
    BY <2>3
  <2> QED BY <2>1, <2>3, <2>4
<1>2. IsFiniteSet(Fd) /\ Cardinality(Fd) = MaxFd + 1
  <2>1. 0 \in Int /\ MaxFd \in Int /\ MaxFd \in Nat
    BY SizesAssumption
  <2> QED BY <2>1, FS_Interval DEF Fd
<1>3. MaxFd + 1 >= 2 * (tree.size - 1) + 6
  BY <1>tree, SizesAssumption DEF EnoughFds
<1>4. PICK a \in Fd, b \in Fd :
        /\ a # b /\ a \notin {0, 1, 2, e} /\ b \notin {0, 1, 2, e}
        /\ \A m \in S : a # read[m] /\ a # write[m] /\ b # read[m] /\ b # write[m]
  <2>1. Cardinality(Fd) >= 2 * Cardinality(S) + 6
    BY <1>1, <1>2, <1>3
  <2> HIDE DEF S, read, write, e
  <2>2. IsFiniteSet(S) /\ IsFiniteSet(Fd)
    BY <1>1, <1>2
  <2>3. \E x, y \in Spare(Fd, S, read, write, e) : x # y
    BY <2>1, <2>2, TwoAreLeft
  <2> QED BY <2>3 DEF Spare
<1>5. a \in 3..MaxFd /\ b \in 3..MaxFd
  BY <1>4, FdFacts
<1>6. \A m \in Nodes : IsOpened(m) => m \in S
  BY DEF OpenedInv, Nodes
<1>7. ASSUME NEW x \in {a, b} PROVE fds[Tool][x] = Closed
  <2>1. x \in 3..MaxFd /\ x # e /\ x \in Fd
    BY <1>4, <1>5, FdFacts
  <2>2. \A m \in Nodes : IsOpened(m) => x # ReadFd(m) /\ x # WriteFd(m)
    BY <1>4, <1>6
  <2> QED BY <2>1, <2>2 DEF TableInv
<1> QED BY <1>4, <1>5, <1>7

\* The pipes a process is wired to.
LEMMA PipesOfNode ==
    ASSUME IsWired(tree), NEW n \in Nodes
    PROVE  /\ PipesFor(n) \subseteq Nodes
           /\ \A m \in Nodes :
                m \in PipesFor(n) <=> n \in WiredWriters(m) \/ n \in WiredReaders(m)
BY DEF PipesFor

\* Whatever is wired is a process.
LEMMA WiredAreWorkers ==
    ASSUME IsWired(tree), NEW m
    PROVE  WiredWriters(m) \subseteq Workers /\ WiredReaders(m) \subseteq Workers
           /\ Workers \subseteq Nodes
BY NodeFacts DEF WiredWriters, WiredReaders, Workers

\* A step that forks nothing and leaves the parent's descriptors as they are.
LEMMA MemoryQuiet ==
    ASSUME Control, Memory, [Next]_vars, UNCHANGED <<memoryVars, current, opening>>,
           pc' \in {"open", "close"} \/ pc \in {"open", "close"} => pc' = pc,
           pc' # "exited" => pc # "exited" /\ fds'[Tool] = fds[Tool],
           fds' \in [Processes -> [Fd -> Ends]],
           \A k \in Nodes : Begun(k) => Begun(k)',
           \A k \in Nodes : state'[k] # "none" <=> state[k] # "none",
           \A k \in Executables : state'[k] = "forked" =>
             state[k] = "forked" /\ fds'[k] = fds[k],
           \A k \in Executables : state'[k] \in {"running", "writing", "written"} =>
             \/ Invoked(k) /\ fds'[k] = fds[k]
             \/ NoAppenderEnds(fds'[k])
    PROVE  Memory'
<1>const. /\ tree' = tree /\ Nodes' = Nodes /\ Executables' = Executables
          /\ Sequencers' = Sequencers /\ Processes' = Processes
          /\ \A n : Operands(n)' = Operands(n)
          /\ \A n : IsSequenceOperand(n)' = IsSequenceOperand(n)
          /\ \A n : WiredWriters(n)' = WiredWriters(n)
          /\ \A n : WiredReaders(n)' = WiredReaders(n)
          /\ \A n : PipesFor(n)' = PipesFor(n)
  BY TreeConstant
<1>tree. /\ IsWired(tree) /\ MemoryTypes /\ OpenedInv /\ OpeningInv /\ TableInv
         /\ HeldInv /\ ToFdInv /\ CollectedInv /\ ChildInv
         /\ ExecutablesHoldNoAppenderEnds
         /\ Executables \subseteq Nodes
  BY NodeFacts DEF Memory, Control, ControlTypes
<1>same. /\ UNCHANGED <<desc, to_fd, open_appender_fds, known>>
         /\ \A m : IsOpened(m)' <=> IsOpened(m)
         /\ \A m : ReadFd(m)' = ReadFd(m) /\ WriteFd(m)' = WriteFd(m)
  BY DEF memoryVars, IsOpened, ReadFd, WriteFd
<1>past. \A k \in Nodes : Past(k)' <=> Past(k)
  BY DEF Past
<1>ends. Ends' = Ends
  BY <1>const DEF Ends
<1>1. MemoryTypes'
  BY <1>const, <1>tree, <1>same, <1>ends DEF MemoryTypes
<1>2. OpenedInv'
  <2>1. \A m \in Nodes : IsOpened(m) /\ IsSequenceOperand(m) =>
          Begun(tree.father[m]) /\ tree.father[m] \in Nodes
    BY <1>tree, OperandPipe, NodeFacts DEF OpenedInv
  <2>2. \A m \in Nodes : IsOpened(m) /\ IsSequenceOperand(m) =>
          status'[tree.father[m]] # "none"
    BY <2>1 DEF Begun
  <2> QED BY <1>const, <1>tree, <1>same, <2>2 DEF OpenedInv, Begun
<1>3. OpeningInv'
  BY <1>const, <1>tree, <1>same DEF OpeningInv
<1>4. TableInv'
  BY <1>const, <1>tree, <1>same DEF TableInv
<1>5. HeldInv'
  <2>1. /\ \A m : WiredWriters(m) \subseteq Nodes /\ WiredReaders(m) \subseteq Nodes
    BY <1>tree, WiredAreWorkers
  <2> QED BY <1>const, <1>tree, <1>same, <1>past, <2>1 DEF HeldInv
<1>6. ToFdInv'
  BY <1>const, <1>tree, <1>same, NodeFacts DEF ToFdInv
<1>7. CollectedInv'
  <2>1. Collected' = Collected
    <3>1. \A m \in Nodes : IsSequenceOperand(m) => tree.father[m] \in Nodes
      BY <1>tree, OperandPipe, NodeFacts
    <3>2. \A m \in Nodes : IsSequenceOperand(m) =>
            (Past(tree.father[m])' <=> Past(tree.father[m]))
      <4> SUFFICES ASSUME NEW m \in Nodes, IsSequenceOperand(m),
                          NEW f, f = tree.father[m]
                   PROVE  Past(f)' <=> Past(f)
        BY <1>const
      <4> QED BY <3>1, <1>past
    <3> QED BY <1>const, <3>2 DEF Collected
  <2> QED BY <1>const, <1>tree, <1>same, <2>1 DEF CollectedInv
<1>8. ChildInv'
  BY <1>const, <1>tree, <1>same DEF ChildInv
<1>9. ExecutablesHoldNoAppenderEnds'
  BY <1>const, <1>tree, <1>same DEF ExecutablesHoldNoAppenderEnds, Invoked, NoAppenderEnds
<1> QED BY <1>1, <1>2, <1>3, <1>4, <1>5, <1>6, <1>7, <1>8, <1>9 DEF Memory

\* At the start nothing is open but the three standard descriptors.
LEMMA MemoryInit == Init => Memory
<1> SUFFICES ASSUME Init PROVE Memory
  OBVIOUS
<1>tree. /\ Control /\ IsWired(tree) /\ Executables \subseteq Nodes
         /\ Sequencers \subseteq Nodes /\ Tool \in Processes
  BY ControlInit, NodeFacts DEF Control, ControlTypes, Processes
<1>0. /\ pc = "async" /\ open_appender_fds = <<>>
      /\ fds = [p \in Processes |-> IF p = Tool THEN StdTable ELSE EmptyTable]
      /\ desc = [m \in Nodes |-> NoPipe] /\ to_fd = [n \in Nodes |-> 1]
      /\ known = [n \in Nodes |-> 0]
      /\ \A n \in Nodes : state[n] = "none"
      /\ \A n \in Nodes : ~Past(n) /\ ~IsOpened(n) /\ ~Invoked(n)
  BY DEF Init, Past, IsOpened, Invoked
<1>1. StdTable \in [Fd -> Ends] /\ EmptyTable \in [Fd -> Ends]
  <2>1. \A fd \in Fd : (CASE fd = 0 -> Input(0)
                          [] fd \in {1, 2} -> Output(0)
                          [] OTHER -> Closed) \in Ends
    <3> SUFFICES ASSUME NEW fd \in Fd
                 PROVE (CASE fd = 0 -> Input(0)
                          [] fd \in {1, 2} -> Output(0)
                          [] OTHER -> Closed) \in Ends
      OBVIOUS
    <3>1. Input(0) \in Ends /\ Output(0) \in Ends /\ Closed \in Ends
      BY EndsFacts, <1>tree DEF Tool
    <3> QED BY <3>1
  <2> QED BY <2>1, EndsFacts DEF StdTable, EmptyTable
<1>2. MemoryTypes
  <2>1. 0 \in Fd /\ 1 \in Fd /\ NoPipe \in Fd \X Fd /\ <<>> \in Seq(Fd)
    BY FdFacts DEF NoPipe
  <2> QED BY <1>0, <1>1, <2>1 DEF MemoryTypes
<1>3. OpenedInv /\ OpeningInv /\ HeldInv /\ ChildInv /\ ExecutablesHoldNoAppenderEnds
  <2>1. \A m : WiredWriters(m) \subseteq Nodes /\ WiredReaders(m) \subseteq Nodes
    BY <1>tree, WiredAreWorkers
  <2> QED BY <1>0, <1>tree, <2>1
          DEF OpenedInv, OpeningInv, HeldInv, ChildInv, ExecutablesHoldNoAppenderEnds
<1>4. fds[Tool] = StdTable
  BY <1>0, <1>tree
<1>5. /\ StdTable[0] = Input(0) /\ StdTable[1] = Output(0) /\ StdTable[2] = Output(0)
      /\ \A fd \in 3..MaxFd : StdTable[fd] = Closed
      /\ \A fd \in Fd : StdTable[fd] \in {Input(0), Output(0), Closed}
  BY FdFacts DEF StdTable
<1>6. TableInv
  <2>1. \A fd \in Fd, m \in Nodes :
          fds[Tool][fd] # ReadEnd(m) /\ fds[Tool][fd] # WriteEnd(m)
    BY <1>4, <1>5, EndsFacts
  <2> QED BY <1>4, <1>5, <2>1 DEF TableInv
<1>7. ToFdInv
  BY <1>0, <1>tree DEF ToFdInv
<1>8. CollectedInv
  <2>1. Collected = {}
    <3>1. \A m \in Nodes : IsSequenceOperand(m) => tree.father[m] \in Nodes
      BY <1>tree, OperandPipe, NodeFacts
    <3> QED BY <1>0, <3>1 DEF Collected
  <2>2. Cardinality({}) = 0
    BY FS_EmptySet
  <2> QED BY <1>0, <2>1, <2>2 DEF CollectedInv
<1> QED BY <1>2, <1>3, <1>6, <1>7, <1>8 DEF Memory

\* The table an executable is invoked with: the numbers closed for it are all those
\* of the appenders' pipes it has inherited.
LEMMA ChildTable ==
    ASSUME Control, Memory, NEW n \in Executables, state[n] = "forked"
    PROVE  InvokedTable(n) \in [Fd -> Ends] /\ NoAppenderEnds(InvokedTable(n))
<1> DEFINE in == tree.std_in[n]
           out == tree.std_out[n]
           t1 == IF IsFile(in) THEN Opened(fds[n], Input(in[2])) ELSE fds[n]
           t2 == IF IsFile(out) THEN Opened(t1, Output(out[2])) ELSE t1
           std_in == IF IsFile(in) THEN Lowest(fds[n])
                     ELSE IF IsPipe(in) THEN ReadFd(in[2]) ELSE 0
           std_out == IF IsFile(out) THEN Lowest(t1)
                      ELSE IF IsPipe(out) THEN WriteFd(out[2]) ELSE 1
           t3 == [t2 EXCEPT ![0] = t2[std_in], ![1] = t2[std_out]]
           shut == {std_in, std_out} \ {0, 1}
           listed == {open_appender_fds[i] : i \in 1..known[n]} \ {0, 1}
<1>tree. /\ IsWired(tree) /\ MemoryTypes /\ ChildInv
         /\ n \in Nodes /\ n \in Processes /\ Nodes \subseteq Processes
  BY NodeFacts DEF Memory, Control, ControlTypes, Processes
<1>child. /\ fds[n] \in [Fd -> Ends]
          /\ fds[n][0] = Input(0) /\ fds[n][1] = Output(0) /\ fds[n][2] = Output(0)
          /\ \A m \in Nodes : in = PipeOf(m) => fds[n][ReadFd(m)] = ReadEnd(m)
          /\ \A fd \in Fd, m \in Nodes :
               IsSequenceOperand(m) /\ fds[n][fd] = WriteEnd(m) =>
                 \E i \in 1..known[n] : open_appender_fds[i] = fd /\ fd > 2
          /\ \A m \in Nodes : ReadFd(m) \in Fd /\ WriteFd(m) \in Fd
  BY <1>tree DEF ChildInv, MemoryTypes, ReadFd, WriteFd
<1>streams. /\ IsPipe(in) => in[2] \in Nodes /\ in = PipeOf(in[2])
            /\ IsPipe(out) => out[2] \in Nodes /\ out = PipeOf(out[2])
            /\ IsFile(in) => in[2] \in Nodes
            /\ IsFile(out) => out[2] \in Nodes
  BY <1>tree, WiringRules, StreamFacts
<1>1. TableWithStreams(n) = WithoutFds(t3, shut)
  BY DEF TableWithStreams
<1>2. InvokedTable(n) = WithoutFds(TableWithStreams(n), listed)
  BY DEF InvokedTable
<1> HIDE DEF in, out
<1>3. PICK a \in Fd, b \in Fd : a # b /\ fds[n][a] = Closed /\ fds[n][b] = Closed
  BY <1>tree DEF ChildInv
<1>4. /\ t1 \in [Fd -> Ends]
      /\ \E fd \in Fd : t1[fd] = Closed
      /\ \A fd \in Fd : \/ t1[fd] = fds[n][fd]
                        \/ fds[n][fd] = Closed /\ \E k : t1[fd] = Input(k)
      /\ IsFile(in) => Lowest(fds[n]) \in Fd /\ t1[Lowest(fds[n])] = Input(in[2])
  <2>1. CASE IsFile(in)
    <3>1. Input(in[2]) \in Ends
      BY <1>tree, <1>streams, <2>1, EndsFacts
    <3>2. /\ Lowest(fds[n]) \in Fd /\ fds[n][Lowest(fds[n])] = Closed
          /\ Opened(fds[n], Input(in[2])) \in [Fd -> Ends]
          /\ \A fd \in Fd : Opened(fds[n], Input(in[2]))[fd] =
                              IF fd = Lowest(fds[n]) THEN Input(in[2]) ELSE fds[n][fd]
      <4>1. fds[n] \in [Fd -> Ends] /\ a \in Fd /\ fds[n][a] = Closed
        BY <1>child, <1>3
      <4> QED BY <3>1, <4>1, LowestFacts
    <3>3. t1 = Opened(fds[n], Input(in[2]))
      BY <2>1
    <3> QED BY <1>3, <3>2, <3>3
  <2>2. CASE ~IsFile(in)
    BY <1>child, <1>3, <2>2
  <2> QED BY <2>1, <2>2
<1>keep. t2 = IF IsFile(out) THEN Opened(t1, Output(out[2])) ELSE t1
  OBVIOUS
<1>out. std_out = IF IsFile(out) THEN Lowest(t1)
                      ELSE IF IsPipe(out) THEN WriteFd(out[2]) ELSE 1
  OBVIOUS
<1> HIDE DEF t1
<1>5. /\ t2 \in [Fd -> Ends]
      /\ \A fd \in Fd : \/ t2[fd] = t1[fd]
                        \/ t1[fd] = Closed /\ \E k : t2[fd] = Output(k)
      /\ std_out \in Fd
  <2>1. CASE IsFile(out)
    <3>1. Output(out[2]) \in Ends
      BY <1>tree, <1>streams, <2>1, EndsFacts
    <3>2. /\ Lowest(t1) \in Fd /\ t1[Lowest(t1)] = Closed
          /\ Opened(t1, Output(out[2])) \in [Fd -> Ends]
          /\ \A fd \in Fd : Opened(t1, Output(out[2]))[fd] =
                              IF fd = Lowest(t1) THEN Output(out[2]) ELSE t1[fd]
      BY <1>4, <3>1, LowestFacts
    <3>3. t2 = Opened(t1, Output(out[2])) /\ std_out = Lowest(t1)
      BY <2>1
    <3> QED BY <3>2, <3>3
  <2>2. CASE ~IsFile(out)
    <3>1. t2 = t1 /\ std_out = IF IsPipe(out) THEN WriteFd(out[2]) ELSE 1
      BY <2>2
    <3> QED BY <1>4, <1>child, <1>streams, <3>1, FdFacts
  <2> QED BY <2>1, <2>2
<1> HIDE DEF t2, std_out
<1>6. \A fd \in Fd : \A m : t2[fd] = WriteEnd(m) => fds[n][fd] = WriteEnd(m)
  <2> SUFFICES ASSUME NEW fd \in Fd, NEW m, t2[fd] = WriteEnd(m)
               PROVE  fds[n][fd] = WriteEnd(m)
    OBVIOUS
  <2>1. \A k : WriteEnd(m) # Input(k) /\ WriteEnd(m) # Output(k)
    BY EndsFacts
  <2>2. t1[fd] = WriteEnd(m)
    BY <1>5, <2>1
  <2> QED BY <1>4, <2>1, <2>2
<1>7. std_in \in Fd /\ \A m : t2[std_in] # WriteEnd(m)
  <2>1. CASE IsFile(in)
    <3>1. std_in = Lowest(fds[n]) /\ std_in \in Fd /\ t1[std_in] = Input(in[2])
      BY <1>4, <2>1
    <3> QED BY <1>5, <3>1, EndsFacts
  <2>2. CASE IsPipe(in) /\ ~IsFile(in)
    <3>1. std_in = ReadFd(in[2]) /\ std_in \in Fd /\ fds[n][std_in] = ReadEnd(in[2])
      BY <1>child, <1>streams, <2>2
    <3> QED BY <1>6, <3>1, EndsFacts
  <2>3. CASE ~IsPipe(in) /\ ~IsFile(in)
    <3>1. std_in = 0 /\ std_in \in Fd
      BY <2>3, FdFacts
    <3>2. \A m : fds[n][std_in] # WriteEnd(m)
      BY <1>child, <3>1, EndsFacts
    <3> QED BY <1>6, <3>1, <3>2
  <2> QED BY <2>1, <2>2, <2>3
<1> HIDE DEF std_in
<1>8. /\ t3 \in [Fd -> Ends]
      /\ \A fd \in Fd : t3[fd] = IF fd = 1 THEN t2[std_out]
                                 ELSE IF fd = 0 THEN t2[std_in] ELSE t2[fd]
  BY <1>5, <1>7, FdFacts
<1> HIDE DEF t3, shut
<1>9. /\ TableWithStreams(n) \in [Fd -> Ends]
      /\ \A fd \in Fd : TableWithStreams(n)[fd] = IF fd \in shut THEN Closed ELSE t3[fd]
  BY <1>1, <1>8, WithoutFacts
<1>10. /\ InvokedTable(n) \in [Fd -> Ends]
       /\ \A fd \in Fd : InvokedTable(n)[fd] =
                           IF fd \in listed THEN Closed ELSE TableWithStreams(n)[fd]
  BY <1>2, <1>9, WithoutFacts
<1>11. ASSUME NEW fd \in Fd \ {1}, NEW m \in Nodes, IsSequenceOperand(m),
              InvokedTable(n)[fd] = WriteEnd(m)
       PROVE  FALSE
  <2>1. fd \notin listed /\ t3[fd] = WriteEnd(m)
    BY <1>9, <1>10, <1>11, EndsFacts
  <2>2. fd # 0 /\ t2[fd] = WriteEnd(m)
    BY <1>7, <1>8, <1>11, <2>1
  <2>3. fds[n][fd] = WriteEnd(m)
    BY <1>6, <2>2
  <2>4. \E i \in 1..known[n] : open_appender_fds[i] = fd
    BY <1>child, <1>11, <2>3
  <2> QED BY <1>11, <2>1, <2>2, <2>4
<1> QED BY <1>10, <1>11 DEF NoAppenderEnds

\* What a process does to the descriptors: it has but a table of its own.
LEMMA ProcessTable ==
    ASSUME Control, Memory, NEW n \in Nodes, Process(n)
    PROVE  /\ fds' \in [Processes -> [Fd -> Ends]]
           /\ \A p \in Processes \ {n} : fds'[p] = fds[p]
           /\ n \in Executables /\ state'[n] \in {"running", "writing", "written"} =>
                \/ Invoked(n) /\ fds'[n] = fds[n]
                \/ NoAppenderEnds(fds'[n])
<1>tree. /\ fds \in [Processes -> [Fd -> Ends]] /\ n \in Processes
         /\ state \in [Nodes -> ProcessStates] /\ IsWired(tree)
         /\ n \in Executables <=> tree.type[n] = "Executable"
         /\ n \in Sequencers <=> tree.type[n] \in SequenceTypes
         /\ Executables \cap Sequencers = {}
         /\ ForkInv
  BY NodeFacts DEF Memory, MemoryTypes, Control, ControlTypes, Processes, IsSequence
<1>empty. EmptyTable \in [Fd -> Ends]
  BY EndsFacts DEF EmptyTable
<1>table. ASSUME NEW t \in [Fd -> Ends], fds' = [fds EXCEPT ![n] = t]
          PROVE  /\ fds' \in [Processes -> [Fd -> Ends]] /\ fds'[n] = t
                 /\ \A p \in Processes \ {n} : fds'[p] = fds[p]
  BY <1>tree, <1>table
<1>ends. ASSUME Terminates(n)
         PROVE  /\ fds' \in [Processes -> [Fd -> Ends]] /\ state'[n] = "zombie"
                /\ \A p \in Processes \ {n} : fds'[p] = fds[p]
  <2>1. fds' = [fds EXCEPT ![n] = EmptyTable] /\ state' = [state EXCEPT ![n] = "zombie"]
    BY <1>ends DEF Terminates
  <2> QED BY <1>tree, <1>empty, <1>table, <2>1
<1>1. CASE ChildInvokes(n)
  <2>1. fds' = [fds EXCEPT ![n] = InvokedTable(n)] /\ n \in Executables /\ state[n] = "forked"
    BY <1>1, <1>tree DEF ChildInvokes
  <2>2. InvokedTable(n) \in [Fd -> Ends] /\ NoAppenderEnds(InvokedTable(n))
    BY <2>1, ChildTable
  <2>3. /\ fds' \in [Processes -> [Fd -> Ends]] /\ fds'[n] = InvokedTable(n)
        /\ \A p \in Processes \ {n} : fds'[p] = fds[p]
    BY <1>table, <2>1, <2>2
  <2> QED BY <2>2, <2>3
<1>2. CASE ChildFails(n) \/ WriteFails(n) \/ ExecutableExits(n) \/ AppenderFails(n)
             \/ AppenderExits(n)
  <2>1. Terminates(n)
    BY <1>2 DEF ChildFails, WriteFails, ExecutableExits, AppenderFails, AppenderExits,
       ExecutableEnds
  <2> QED BY <1>ends, <2>1
<1>3. CASE ExecutableReads(n) \/ ExecutableWrites(n)
  <2>1. fds' = fds /\ state[n] \in {"running", "writing"}
    BY <1>3 DEF ExecutableReads, ExecutableWrites
  <2> QED BY <1>tree, <2>1 DEF Invoked
<1>4. CASE AppenderStarts(n) \/ AppenderEndsSource(n)
  <2>1. \E S : fds' = [fds EXCEPT ![n] = WithoutFds(fds[n], S)]
    BY <1>4 DEF AppenderStarts, AppenderEndsSource
  <2>2. n \in Sequencers
    BY <1>4, <1>tree DEF AppenderStarts, AppenderEndsSource, ForkInv, Workers
  <2>3. \A S : WithoutFds(fds[n], S) \in [Fd -> Ends]
    BY <1>tree, WithoutFacts
  <2> QED BY <1>table, <1>tree, <2>1, <2>2, <2>3
<1>5. CASE AppenderReads(n) \/ AppenderWrites(n)
  <2>1. fds' = fds /\ n \in Sequencers
    BY <1>5, <1>tree DEF AppenderReads, AppenderWrites, ForkInv, Workers
  <2> QED BY <1>tree, <2>1
<1> QED BY <1>1, <1>2, <1>3, <1>4, <1>5 DEF Process, Child, Executable, Appender

\* A step of a process keeps the invariant of the descriptors.
LEMMA MemoryProcess ==
    ASSUME Control, Memory, NEW n \in Nodes, Process(n)
    PROVE  Memory'
<1>tree. /\ IsWired(tree) /\ Executables \subseteq Nodes /\ Executables \cap Sequencers = {}
         /\ Tool \in Processes /\ Tool \notin Nodes /\ Nodes \subseteq Processes
         /\ ForkInv
  BY NodeFacts DEF Control, ControlTypes, Processes, Tool, NoNode
<1>step. [Next]_vars
  BY DEF Next
<1>1. /\ UNCHANGED <<parentVars, memoryVars>>
      /\ n \in Workers /\ Alive(n)
      /\ \A k \in Nodes \ {n} : state'[k] = state[k] /\ status'[k] = status[k]
      /\ n \in Executables =>
           \/ status'[n] = status[n] /\ state'[n] \in {"running", "writing", "written"}
           \/ status'[n] \in {"ok", "failed"} /\ state'[n] = "zombie"
      /\ n \in Sequencers =>
           status'[n] = status[n] /\ state'[n] \in {"copying", "zombie"}
  BY ProcessEffect
<1>2. /\ fds' \in [Processes -> [Fd -> Ends]]
      /\ \A p \in Processes \ {n} : fds'[p] = fds[p]
      /\ n \in Executables /\ state'[n] \in {"running", "writing", "written"} =>
           \/ Invoked(n) /\ fds'[n] = fds[n]
           \/ NoAppenderEnds(fds'[n])
  BY ProcessTable
<1>3. UNCHANGED <<pc, current, opening, memoryVars>>
  BY <1>1 DEF parentVars
<1>4. fds'[Tool] = fds[Tool] /\ \A k \in Nodes \ {n} : fds'[k] = fds[k]
  BY <1>tree, <1>2
<1>5. \A k \in Nodes : state'[k] # "none" <=> state[k] # "none"
  BY <1>1 DEF Alive, Workers
<1>6. \A k \in Nodes : Begun(k) => Begun(k)'
  BY <1>1 DEF Begun, Workers
<1>7. \A k \in Executables :
        /\ state'[k] = "forked" => state[k] = "forked" /\ fds'[k] = fds[k]
        /\ state'[k] \in {"running", "writing", "written"} =>
             \/ Invoked(k) /\ fds'[k] = fds[k]
             \/ NoAppenderEnds(fds'[k])
  BY <1>tree, <1>1, <1>2, <1>4 DEF Invoked
<1>8. \A k \in Executables : state'[k] = "forked" => state[k] = "forked" /\ fds'[k] = fds[k]
  BY <1>7
<1>9. \A k \in Executables : state'[k] \in {"running", "writing", "written"} =>
        \/ Invoked(k) /\ fds'[k] = fds[k]
        \/ NoAppenderEnds(fds'[k])
  BY <1>7
<1> QED BY <1>step, <1>2, <1>3, <1>4, <1>5, <1>6, <1>8, <1>9, MemoryQuiet

\* What the next process needs is listed, each pipe once.
LEMMA OpeningFacts ==
    ASSUME Control, ExecuteAsync
    PROVE  \A n \in Workers : n = First(todo) =>
             /\ \A m \in PipesFor(n) :
                  IsOpened(m) \/ \E i \in 1..Len(opening') : opening'[i] = m
             /\ \A i \in 1..Len(opening') :
                  opening'[i] \in PipesFor(n) /\ ~IsOpened(opening'[i])
             /\ \A i, j \in 1..Len(opening') : opening'[i] = opening'[j] => i = j
<1> SUFFICES ASSUME NEW n \in Workers, n = First(todo)
             PROVE  /\ \A m \in PipesFor(n) :
                         IsOpened(m) \/ \E i \in 1..Len(opening') : opening'[i] = m
                    /\ \A i \in 1..Len(opening') :
                         opening'[i] \in PipesFor(n) /\ ~IsOpened(opening'[i])
                    /\ \A i, j \in 1..Len(opening') : opening'[i] = opening'[j] => i = j
  OBVIOUS
<1>tree. /\ IsWired(tree) /\ n \in Nodes
         /\ n \in Executables <=> tree.type[n] = "Executable"
         /\ n \in Sequencers <=> tree.type[n] \in SequenceTypes
         /\ tree.type[n] # "Pipe" /\ Operands(n) \subseteq Nodes
  BY NodeFacts DEF Control, ControlTypes, IsSequence, Workers
<1>1. StartExecutable(n) \/ StartSequence(n)
  BY <1>tree DEF ExecuteAsync, StartPipe
<1>2. CASE StartExecutable(n)
  <2> DEFINE A == PipesOf(tree.std_in[n])
             B == PipesOf(tree.std_out[n])
             a == NotInitialized(A)
             b == NotInitialized(B)
  <2>1. opening' = a \o b /\ n \in Executables
    BY <1>2, <1>tree DEF StartExecutable
  <2>2. /\ A \in SUBSET Nodes /\ B \in SUBSET Nodes
        /\ PipesFor(n) = A \cup B /\ A \cap B = {}
    BY <1>tree, <2>1, PipesForFacts
  <2> HIDE DEF A, B
  <2>3. /\ a \in Seq(Nodes)
        /\ \A m \in A : IsOpened(m) \/ \E i \in 1..Len(a) : a[i] = m
        /\ \A i \in 1..Len(a) : a[i] \in A /\ ~IsOpened(a[i])
        /\ \A i, j \in 1..Len(a) : a[i] = a[j] => i = j
    BY <1>tree, <2>2, NotInitializedFacts
  <2>4. /\ b \in Seq(Nodes)
        /\ \A m \in B : IsOpened(m) \/ \E i \in 1..Len(b) : b[i] = m
        /\ \A i \in 1..Len(b) : b[i] \in B /\ ~IsOpened(b[i])
        /\ \A i, j \in 1..Len(b) : b[i] = b[j] => i = j
    BY <1>tree, <2>2, NotInitializedFacts
  <2> HIDE DEF a, b
  <2> DEFINE c == a \o b
  <2>5. /\ Len(a) \in Nat /\ Len(b) \in Nat /\ Len(c) = Len(a) + Len(b)
        /\ \A i \in 1..Len(c) : c[i] = IF i <= Len(a) THEN a[i] ELSE b[i - Len(a)]
    BY <2>3, <2>4, ConcatProperties, LenProperties
  <2> HIDE DEF c
  <2>6. \A i \in 1..Len(c) :
          \/ i \in 1..Len(a) /\ c[i] = a[i] /\ c[i] \in A
          \/ i - Len(a) \in 1..Len(b) /\ c[i] = b[i - Len(a)] /\ c[i] \in B /\ i > Len(a)
    <3> SUFFICES ASSUME NEW i \in 1..Len(c)
                 PROVE  \/ i \in 1..Len(a) /\ c[i] = a[i] /\ c[i] \in A
                        \/ /\ i - Len(a) \in 1..Len(b) /\ c[i] = b[i - Len(a)] /\ c[i] \in B
                           /\ i > Len(a)
      OBVIOUS
    <3>1. CASE i <= Len(a)
      <4>1. i \in 1..Len(a)
        BY <2>5, <3>1
      <4> QED BY <2>3, <2>5, <3>1, <4>1
    <3>2. CASE i > Len(a)
      <4>1. i - Len(a) \in 1..Len(b) /\ ~(i <= Len(a))
        BY <2>5, <3>2
      <4> QED BY <2>4, <2>5, <3>2, <4>1
    <3> QED BY <2>5, <3>1, <3>2
  <2>7. \A m \in A \cup B : IsOpened(m) \/ \E i \in 1..Len(c) : c[i] = m
    <3>1. ASSUME NEW i \in 1..Len(a) PROVE i \in 1..Len(c) /\ c[i] = a[i]
      BY <2>5
    <3>2. ASSUME NEW i \in 1..Len(b) PROVE i + Len(a) \in 1..Len(c) /\ c[i + Len(a)] = b[i]
      <4>1. i + Len(a) \in 1..Len(c) /\ ~(i + Len(a) <= Len(a)) /\ (i + Len(a)) - Len(a) = i
        BY <2>5
      <4> QED BY <2>5, <4>1
    <3> SUFFICES ASSUME NEW m \in A \cup B, ~IsOpened(m)
                 PROVE  \E i \in 1..Len(c) : c[i] = m
      OBVIOUS
    <3>3. CASE m \in A
      <4>1. PICK i \in 1..Len(a) : a[i] = m
        BY <2>3, <3>3
      <4> QED BY <3>1, <4>1
    <3>4. CASE m \in B
      <4>1. PICK i \in 1..Len(b) : b[i] = m
        BY <2>4, <3>4
      <4> QED BY <3>2, <4>1
    <3> QED BY <3>3, <3>4
  <2>8. \A i \in 1..Len(c) : c[i] \in A \cup B /\ ~IsOpened(c[i])
    <3> SUFFICES ASSUME NEW i \in 1..Len(c) PROVE c[i] \in A \cup B /\ ~IsOpened(c[i])
      OBVIOUS
    <3>1. CASE i \in 1..Len(a) /\ c[i] = a[i] /\ c[i] \in A
      <4>1. ~IsOpened(a[i])
        BY <2>3, <3>1
      <4> QED BY <3>1, <4>1
    <3>2. CASE i - Len(a) \in 1..Len(b) /\ c[i] = b[i - Len(a)] /\ c[i] \in B
      <4>1. ~IsOpened(b[i - Len(a)])
        BY <2>4, <3>2
      <4> QED BY <3>2, <4>1
    <3> QED BY <2>6, <3>1, <3>2
  <2>9. \A i, j \in 1..Len(c) : c[i] = c[j] => i = j
    <3> SUFFICES ASSUME NEW i \in 1..Len(c), NEW j \in 1..Len(c), c[i] = c[j]
                 PROVE  i = j
      OBVIOUS
    <3>1. CASE c[i] \in A
      <4>1. i \in 1..Len(a) /\ j \in 1..Len(a) /\ a[i] = a[j]
        BY <2>2, <2>6, <3>1
      <4> QED BY <2>3, <4>1
    <3>2. CASE c[i] \in B
      <4>1. /\ i - Len(a) \in 1..Len(b) /\ j - Len(a) \in 1..Len(b)
            /\ b[i - Len(a)] = b[j - Len(a)]
        BY <2>2, <2>6, <3>2
      <4>2. i - Len(a) = j - Len(a)
        BY <2>4, <4>1
      <4> QED BY <2>5, <4>2
    <3> QED BY <2>6, <3>1, <3>2
  <2>10. opening' = c /\ PipesFor(n) = A \cup B
    BY <2>1, <2>2 DEF c
  <2> QED BY <2>7, <2>8, <2>9, <2>10
<1>3. CASE StartSequence(n)
  <2>1. /\ opening' = NotInitialized(PipesOf(tree.to[n]) \cup Operands(n))
        /\ n \in Sequencers
    BY <1>3, <1>tree DEF StartSequence
  <2>2. /\ PipesFor(n) = PipesOf(tree.to[n]) \cup Operands(n)
        /\ PipesFor(n) \in SUBSET Nodes
    BY <1>tree, <2>1, PipesForFacts
  <2>3. opening' = NotInitialized(PipesFor(n))
    BY <2>1, <2>2
  <2> QED BY ZenonT(60), <1>tree, <2>2, <2>3, NotInitializedFacts
<1> QED BY <1>1, <1>2, <1>3

\* execute_async() opens the file an operator is redirected to, and lists the pipes
\* to open.
LEMMA MemoryStart ==
    ASSUME EnoughFds, Control, Memory, ExecuteAsync
    PROVE  Memory'
<1>step. [Next]_vars
  BY DEF Next, Parent
<1>const. /\ tree' = tree /\ Nodes' = Nodes /\ Executables' = Executables
          /\ Sequencers' = Sequencers /\ Processes' = Processes /\ Workers' = Workers
          /\ \A k : Operands(k)' = Operands(k)
          /\ \A k : IsSequenceOperand(k)' = IsSequenceOperand(k)
          /\ \A k : WiredWriters(k)' = WiredWriters(k)
          /\ \A k : WiredReaders(k)' = WiredReaders(k)
          /\ \A k : PipesFor(k)' = PipesFor(k)
  BY <1>step, TreeConstant
<1>tree. /\ IsWired(tree) /\ MemoryTypes /\ OpenedInv /\ OpeningInv /\ TableInv
         /\ HeldInv /\ ToFdInv /\ CollectedInv /\ ChildInv
         /\ ExecutablesHoldNoAppenderEnds
         /\ Executables \subseteq Nodes /\ Sequencers \subseteq Nodes
         /\ Executables \cap Sequencers = {}
         /\ \A k \in Nodes : k \in Executables <=> tree.type[k] = "Executable"
         /\ \A k \in Nodes : k \in Sequencers <=> tree.type[k] \in SequenceTypes
         /\ Tool \in Processes /\ Tool \notin Nodes /\ Nodes \subseteq Processes
  BY NodeFacts DEF Memory, Control, ControlTypes, IsSequence, Tool, NoNode, Processes
<1>n. PICK n \in todo :
             /\ n = First(todo) /\ n \in Nodes /\ ~Begun(n) /\ state[n] = "none"
             /\ StartPipe(n) \/ StartExecutable(n) \/ StartSequence(n)
             /\ status' = [status EXCEPT ![n] = "started"]
             /\ status' \in [Nodes -> {"none", "started", "ok", "failed"}]
             /\ \A m \in Nodes : status'[m] = IF m = n THEN "started" ELSE status[m]
             /\ UNCHANGED <<state, frame>>
             /\ n \notin todo' /\ todo \ {n} \subseteq todo'
             /\ todo' \ todo \subseteq Operands(n)
             /\ IsSequence(n) => \A k \in todo' \ todo : EarlierOperands(n, k) = {}
             /\ n \in Workers => current' = n /\ pc' = "open"
             /\ n \notin Workers => UNCHANGED <<pc, current, opening>> /\ todo' # {}
             /\ n \in Sequencers => First(Operands(n)) \in Operands(n)
  BY StartEffect
<1>same. /\ pc = "async" /\ UNCHANGED <<state, desc, open_appender_fds, known>>
         /\ \A m : IsOpened(m)' <=> IsOpened(m)
         /\ \A m : ReadFd(m)' = ReadFd(m) /\ WriteFd(m)' = WriteFd(m)
  BY DEF ExecuteAsync, IsOpened, ReadFd, WriteFd
<1>begun. \A k \in Nodes : Begun(k) => Begun(k)'
  BY <1>n DEF Begun
<1>1. CASE StartPipe(n)
  <2>1. /\ UNCHANGED <<pc, current, opening, fds, to_fd>>
    BY <1>1 DEF StartPipe
  <2>2. UNCHANGED memoryVars
    BY <1>same, <2>1 DEF memoryVars
  <2>3. \A k \in Executables : state'[k] \in {"running", "writing", "written"} =>
          \/ Invoked(k) /\ fds'[k] = fds[k]
          \/ NoAppenderEnds(fds'[k])
    BY <1>same, <2>1 DEF Invoked
  <2> QED BY <1>step, <1>same, <1>begun, <1>tree, <2>1, <2>2, <2>3, MemoryQuiet
          DEF MemoryTypes
<1>2. CASE StartExecutable(n) \/ StartSequence(n)
  <2>1. n \in Workers /\ current' = n /\ pc' = "open" /\ current' \in Nodes
    BY <1>2, <1>n, <1>tree DEF StartExecutable, StartSequence, Workers
  <2>past. \A k \in Nodes : Past(k)' <=> Past(k)
    BY <1>same, <2>1 DEF Past
  <2>2. \/ UNCHANGED <<fds, to_fd>> /\ (n \in Sequencers => ~IsFile(tree.to[n]))
        \/ /\ n \in Sequencers /\ IsFile(tree.to[n])
           /\ fds' = [fds EXCEPT ![Tool] = Opened(fds[Tool], Output(tree.to[n][2]))]
           /\ to_fd' = [to_fd EXCEPT ![n] = Lowest(fds[Tool])]
    BY <1>2, <1>n, <1>tree DEF StartExecutable, StartSequence
  <2>3. \E x \in 3..MaxFd : fds[Tool][x] = Closed /\ (
           \/ UNCHANGED <<fds, to_fd>> /\ (n \in Sequencers => ~IsFile(tree.to[n]))
           \/ /\ n \in Sequencers /\ IsFile(tree.to[n])
              /\ fds' = [fds EXCEPT ![Tool] = fds'[Tool]]
              /\ fds'[Tool] \in [Fd -> Ends]
              /\ \A fd \in Fd : fds'[Tool][fd] =
                                  IF fd = x THEN Output(tree.to[n][2]) ELSE fds[Tool][fd]
              /\ to_fd' = [to_fd EXCEPT ![n] = x])
    <3>1. PICK a \in 3..MaxFd : fds[Tool][a] = Closed
      BY <1>same, <1>tree, FreeFds
    <3>2. CASE UNCHANGED <<fds, to_fd>> /\ (n \in Sequencers => ~IsFile(tree.to[n]))
      BY <3>1, <3>2
    <3>3. CASE /\ n \in Sequencers /\ IsFile(tree.to[n])
               /\ fds' = [fds EXCEPT ![Tool] = Opened(fds[Tool], Output(tree.to[n][2]))]
               /\ to_fd' = [to_fd EXCEPT ![n] = Lowest(fds[Tool])]
      <4>1. tree.to[n][2] \in Nodes /\ Output(tree.to[n][2]) \in Ends
        BY <1>n, <1>tree, <3>3, WiringRules, StreamFacts, EndsFacts
      <4>2. fds \in [Processes -> [Fd -> Ends]] /\ fds[Tool] \in [Fd -> Ends] /\ a \in Fd
        BY <1>tree, FdFacts DEF MemoryTypes
      <4> DEFINE x == Lowest(fds[Tool])
                 t == Opened(fds[Tool], Output(tree.to[n][2]))
      <4>3. /\ x \in Fd /\ fds[Tool][x] = Closed
            /\ t \in [Fd -> Ends]
            /\ \A fd \in Fd : t[fd] = IF fd = x THEN Output(tree.to[n][2]) ELSE fds[Tool][fd]
        BY <3>1, <4>1, <4>2, LowestFacts
      <4>4. x \in 3..MaxFd
        <5>1. x # 0 /\ x # 1 /\ x # 2
          BY <1>same, <1>tree, <4>3, EndsFacts DEF TableInv
        <5> QED BY <4>3, <5>1, FdFacts
      <4>5. fds'[Tool] = t
        BY <1>tree, <3>3, <4>2
      <4>6. fds' = [fds EXCEPT ![Tool] = fds'[Tool]]
        BY <3>3, <4>5
      <4> QED BY <3>3, <4>3, <4>4, <4>5, <4>6
    <3> QED BY <2>2, <3>2, <3>3
  <2>4. PICK x \in 3..MaxFd : fds[Tool][x] = Closed /\ (
           \/ UNCHANGED <<fds, to_fd>> /\ (n \in Sequencers => ~IsFile(tree.to[n]))
           \/ /\ n \in Sequencers /\ IsFile(tree.to[n])
              /\ fds' = [fds EXCEPT ![Tool] = fds'[Tool]]
              /\ fds'[Tool] \in [Fd -> Ends]
              /\ \A fd \in Fd : fds'[Tool][fd] =
                                  IF fd = x THEN Output(tree.to[n][2]) ELSE fds[Tool][fd]
              /\ to_fd' = [to_fd EXCEPT ![n] = x])
    BY <2>3
  <2>5. /\ fds' \in [Processes -> [Fd -> Ends]]
        /\ \A k \in Nodes : fds'[k] = fds[k]
        /\ to_fd' \in [Nodes -> Fd] /\ \A k \in Nodes \ {n} : to_fd'[k] = to_fd[k]
    <3>1. fds \in [Processes -> [Fd -> Ends]] /\ to_fd \in [Nodes -> Fd] /\ x \in Fd
      BY <1>tree, FdFacts DEF MemoryTypes
    <3>2. CASE UNCHANGED <<fds, to_fd>>
      BY <3>1, <3>2
    <3>3. ASSUME NEW t \in [Fd -> Ends], fds' = [fds EXCEPT ![Tool] = t],
                 to_fd' = [to_fd EXCEPT ![n] = x]
          PROVE  /\ fds' \in [Processes -> [Fd -> Ends]]
                 /\ \A k \in Nodes : fds'[k] = fds[k]
                 /\ to_fd' \in [Nodes -> Fd] /\ \A k \in Nodes \ {n} : to_fd'[k] = to_fd[k]
      <4>1. fds' \in [Processes -> [Fd -> Ends]] /\ \A k \in Nodes : fds'[k] = fds[k]
        BY <1>tree, <3>1, <3>3
      <4> QED BY <1>n, <3>1, <3>3, <4>1
    <3> QED BY <2>4, <3>2, <3>3
  <2>ends. Ends' = Ends
    BY <1>const DEF Ends
  <2>6. MemoryTypes'
    BY <1>const, <1>tree, <1>same, <2>5, <2>ends DEF MemoryTypes
  <2>7. OpenedInv'
    <3>1. \A m \in Nodes : IsOpened(m) /\ IsSequenceOperand(m) =>
            status'[tree.father[m]] # "none"
      <4>1. \A m \in Nodes : IsOpened(m) /\ IsSequenceOperand(m) =>
              Begun(tree.father[m]) /\ tree.father[m] \in Nodes
        BY <1>tree, OperandPipe, NodeFacts DEF OpenedInv
      <4> QED BY <1>begun, <4>1 DEF Begun
    <3> QED BY <1>const, <1>tree, <1>same, <3>1 DEF OpenedInv, Begun
  <2>8. OpeningInv'
    <3>1. /\ \A m \in PipesFor(n) :
               IsOpened(m) \/ \E i \in 1..Len(opening') : opening'[i] = m
          /\ \A i \in 1..Len(opening') :
               opening'[i] \in PipesFor(n) /\ ~IsOpened(opening'[i])
          /\ \A i, j \in 1..Len(opening') : opening'[i] = opening'[j] => i = j
      BY <1>n, <2>1, OpeningFacts
    <3> QED BY <1>const, <1>same, <2>1, <3>1 DEF OpeningInv, IsOpened
  <2>9. /\ \A fd \in Fd : \/ fds'[Tool][fd] = fds[Tool][fd]
                          \/ fd = x /\ \E k : fds'[Tool][fd] = Output(k)
    BY <2>4
  <2>10. \A fd \in Fd : \A m :
           /\ fds'[Tool][fd] = ReadEnd(m) <=> fds[Tool][fd] = ReadEnd(m)
           /\ fds'[Tool][fd] = WriteEnd(m) <=> fds[Tool][fd] = WriteEnd(m)
    <3> SUFFICES ASSUME NEW fd \in Fd, NEW m
                 PROVE  /\ fds'[Tool][fd] = ReadEnd(m) <=> fds[Tool][fd] = ReadEnd(m)
                        /\ fds'[Tool][fd] = WriteEnd(m) <=> fds[Tool][fd] = WriteEnd(m)
      OBVIOUS
    <3>1. \A k : /\ ReadEnd(m) # Output(k) /\ WriteEnd(m) # Output(k)
                 /\ ReadEnd(m) # Closed /\ WriteEnd(m) # Closed
      BY EndsFacts
    <3> QED BY <2>4, <2>9, <3>1
  <2>11. TableInv'
    <3>1. fds'[Tool][0] = Input(0) /\ fds'[Tool][1] = Output(0) /\ fds'[Tool][2] = Output(0)
      BY <1>same, <1>tree, <2>4, FdFacts DEF TableInv
    <3>2. \A fd \in Fd, m \in Nodes :
            /\ fds'[Tool][fd] = ReadEnd(m) => IsOpened(m) /\ fd = ReadFd(m)
            /\ fds'[Tool][fd] = WriteEnd(m) => IsOpened(m) /\ fd = WriteFd(m)
      BY <1>same, <1>tree, <2>10 DEF TableInv
    <3>3. \A fd \in 3..MaxFd :
            \/ fds'[Tool][fd] = Closed
            \/ \E m \in Nodes : fds'[Tool][fd] \in {ReadEnd(m), WriteEnd(m)}
            \/ n \in Sequencers /\ IsFile(tree.to[n]) /\ fd = to_fd'[n]
      <4> SUFFICES ASSUME NEW fd \in 3..MaxFd
                   PROVE  \/ fds'[Tool][fd] = Closed
                          \/ \E m \in Nodes : fds'[Tool][fd] \in {ReadEnd(m), WriteEnd(m)}
                          \/ n \in Sequencers /\ IsFile(tree.to[n]) /\ fd = to_fd'[n]
        OBVIOUS
      <4>1. \/ fds[Tool][fd] = Closed
            \/ \E m \in Nodes : fds[Tool][fd] \in {ReadEnd(m), WriteEnd(m)}
        BY <1>same, <1>tree DEF TableInv
      <4>2. fd \in Fd /\ to_fd \in [Nodes -> Fd]
        BY <1>tree, FdFacts DEF MemoryTypes
      <4>3. CASE fds'[Tool][fd] = fds[Tool][fd]
        BY <4>1, <4>3
      <4>4. CASE fds'[Tool][fd] # fds[Tool][fd]
        <5>1. n \in Sequencers /\ IsFile(tree.to[n]) /\ fd = x /\ to_fd'[n] = x
          BY <1>n, <2>4, <4>2, <4>4
        <5> QED BY <5>1
      <4> QED BY <4>3, <4>4
    <3> QED BY <1>const, <1>same, <2>1, <3>1, <3>2, <3>3 DEF TableInv
  <2>12. HeldInv'
    <3>1. \A m : WiredWriters(m) \subseteq Nodes /\ WiredReaders(m) \subseteq Nodes
      BY <1>tree, WiredAreWorkers
    <3>2. \A m \in Nodes : ReadFd(m) \in Fd /\ WriteFd(m) \in Fd
      BY <1>tree DEF MemoryTypes, ReadFd, WriteFd
    <3> QED BY <1>const, <1>tree, <1>same, <2>1, <2>past, <2>10, <3>1, <3>2 DEF HeldInv
  <2>13. ToFdInv'
    <3>1. \A k \in Sequencers, m \in Nodes :
            state'[k] # "none" /\ tree.to[k] = PipeOf(m) => to_fd'[k] = WriteFd(m)
      BY <1>n, <1>same, <1>tree, <2>5 DEF ToFdInv
    <3>2. \A k \in Sequencers : ~IsPipe(tree.to[k]) /\ ~IsFile(tree.to[k]) => to_fd'[k] = 1
      <4> SUFFICES ASSUME NEW k \in Sequencers, ~IsPipe(tree.to[k]), ~IsFile(tree.to[k])
                   PROVE  to_fd'[k] = 1
        OBVIOUS
      <4>1. to_fd[k] = 1 /\ k \in Nodes
        BY <1>tree DEF ToFdInv
      <4>2. to_fd'[k] = to_fd[k]
        BY <1>n, <2>4, <2>5, <4>1
      <4> QED BY <4>1, <4>2
    <3>3. n \in Sequencers /\ IsFile(tree.to[n]) =>
            /\ to_fd'[n] \in 3..MaxFd
            /\ fds'[Tool][to_fd'[n]] = Output(tree.to[n][2])
      <4>1. to_fd \in [Nodes -> Fd] /\ x \in Fd
        BY <1>tree, FdFacts DEF MemoryTypes
      <4>2. n \in Sequencers /\ IsFile(tree.to[n]) => to_fd'[n] = x
        BY <1>n, <2>4, <4>1
      <4> QED BY <2>4, <4>1, <4>2
    <3> QED BY <1>const, <1>same, <2>1, <3>1, <3>2, <3>3 DEF ToFdInv
  <2>14. CollectedInv'
    <3>1. Collected' = Collected
      <4>1. \A m \in Nodes : IsSequenceOperand(m) => tree.father[m] \in Nodes
        BY <1>tree, OperandPipe, NodeFacts
      <4>2. \A m \in Nodes : IsSequenceOperand(m) =>
              (Past(tree.father[m])' <=> Past(tree.father[m]))
        <5> SUFFICES ASSUME NEW m \in Nodes, IsSequenceOperand(m),
                            NEW f, f = tree.father[m]
                     PROVE  Past(f)' <=> Past(f)
          BY <1>const
        <5> QED BY <4>1, <2>past
      <4> QED BY <1>const, <4>2 DEF Collected
    <3> QED BY <1>const, <1>tree, <1>same, <3>1 DEF CollectedInv
  <2>15. ChildInv'
    BY <1>const, <1>tree, <1>same, <2>5 DEF ChildInv
  <2>16. ExecutablesHoldNoAppenderEnds'
    BY <1>const, <1>tree, <1>same, <2>5 DEF ExecutablesHoldNoAppenderEnds, Invoked
  <2> QED BY <2>6, <2>7, <2>8, <2>11, <2>12, <2>13, <2>14, <2>15, <2>16 DEF Memory
<1> QED BY <1>n, <1>1, <1>2

\* Operands are begun by their operators, so everything above a node that was
\* begun was begun.
LEMMA BegunAbove ==
    ASSUME IsTree(tree), OrderInv, NEW k \in Nodes, NEW n \in Nodes, Under(k, n), Begun(n)
    PROVE  Begun(k)
<1> DEFINE S == {m \in Nodes : Under(k, m) /\ Begun(m)}
<1>1. Nodes \subseteq Nat /\ NoNode \notin Nodes
  BY TreeFacts
<1>2. ASSUME NEW m \in S, m # k PROVE \E j \in S : j < m
  <2>1. tree.father[m] \in Nodes /\ tree.father[m] < m /\ Under(k, tree.father[m])
    BY <1>2, FatherUnder
  <2>2. Begun(tree.father[m])
    BY <1>1, <1>2, <2>1 DEF OrderInv
  <2> QED BY <2>1, <2>2
<1>3. S \in SUBSET Nat /\ S # {}
  BY <1>1
<1> HIDE DEF S
<1>4. k \in S
  BY <1>2, <1>3, Descent
<1> QED BY <1>4 DEF S

\* A pipe of an operand is opened for a process below the operator.
LEMMA FatherOfPipe ==
    ASSUME Control, NEW n \in Nodes, Begun(n), NEW m \in PipesFor(n), IsSequenceOperand(m)
    PROVE  Begun(tree.father[m])
<1>tree. IsWired(tree) /\ IsTree(tree) /\ OrderInv /\ m \in Nodes /\ NoNode \notin Nodes
  BY NodeFacts DEF Control, ControlTypes, EvaluationInv, PipesFor
<1>1. /\ tree.father[m] \in Nodes
      /\ WiredReaders(m) = {tree.father[m]}
      /\ \A k \in WiredWriters(m) : Under(m, k)
  BY <1>tree, OperandPipe, NodeFacts
<1>2. CASE n \in WiredReaders(m)
  BY <1>1, <1>2
<1>3. CASE n \in WiredWriters(m)
  <2>1. Begun(m)
    BY <1>tree, <1>1, <1>3, BegunAbove
  <2> QED BY <1>tree, <1>1, <2>1 DEF OrderInv
<1> QED BY <1>tree, <1>2, <1>3, PipesOfNode

\* pipe() gives two numbers that were free.
LEMMA PipeNumbers ==
    ASSUME EnoughFds, Control, Memory, OpenPipe
    PROVE  \E m \in Nodes, r, w \in 3..MaxFd, t \in [Fd -> Ends] :
             /\ m = Head(opening) /\ m \in PipesFor(current) /\ ~IsOpened(m)
             /\ r # w /\ fds[Tool][r] = Closed /\ fds[Tool][w] = Closed
             /\ fds' = [fds EXCEPT ![Tool] = t]
             /\ \A fd \in Fd : t[fd] = IF fd = w THEN WriteEnd(m)
                                       ELSE IF fd = r THEN ReadEnd(m) ELSE fds[Tool][fd]
             /\ desc' = [desc EXCEPT ![m] = <<r, w>>]
<1>1. pc = "open" /\ opening # <<>> /\ opening \in Seq(Nodes)
  BY DEF OpenPipe, Control, ControlTypes
<1>2. Head(opening) = opening[1] /\ 1 \in 1..Len(opening) /\ Head(opening) \in Nodes
  BY <1>1, LenProperties, EmptySeq
<1>3. PICK m \in Nodes : m = Head(opening)
  BY <1>2
<1>4. m \in PipesFor(current) /\ ~IsOpened(m)
  BY <1>1, <1>2, <1>3 DEF Memory, OpeningInv
<1>5. PICK a \in 3..MaxFd, b \in 3..MaxFd :
        a # b /\ fds[Tool][a] = Closed /\ fds[Tool][b] = Closed
  BY <1>1, FreeFds DEF Memory
<1>6. fds[Tool] \in [Fd -> Ends] /\ a \in Fd /\ b \in Fd
  BY FdFacts DEF Memory, MemoryTypes, Processes
<1> DEFINE r == Lowest(fds[Tool])
           half == Opened(fds[Tool], ReadEnd(m))
           w == Lowest(half)
           t == Opened(half, WriteEnd(m))
<1>7. ReadEnd(m) \in Ends /\ WriteEnd(m) \in Ends /\ ReadEnd(m) # Closed
  BY EndsFacts
<1>8. /\ fds' = [fds EXCEPT ![Tool] = t] /\ desc' = [desc EXCEPT ![m] = <<r, w>>]
  BY <1>3 DEF OpenPipe
<1>9. /\ r \in Fd /\ fds[Tool][r] = Closed
      /\ half \in [Fd -> Ends]
      /\ \A fd \in Fd : half[fd] = IF fd = r THEN ReadEnd(m) ELSE fds[Tool][fd]
  BY <1>5, <1>6, <1>7, LowestFacts
<1> HIDE DEF r, half
<1>10. \E c \in Fd : half[c] = Closed
  BY <1>5, <1>6, <1>9
<1>11. /\ w \in Fd /\ half[w] = Closed /\ t \in [Fd -> Ends]
       /\ \A fd \in Fd : t[fd] = IF fd = w THEN WriteEnd(m) ELSE half[fd]
  BY <1>7, <1>9, <1>10, LowestFacts
<1> HIDE DEF w, t
<1>12. w # r /\ fds[Tool][w] = Closed
  BY <1>7, <1>9, <1>11
<1>13. r \in 3..MaxFd /\ w \in 3..MaxFd
  <2>1. /\ fds[Tool][0] # Closed /\ fds[Tool][1] # Closed /\ fds[Tool][2] # Closed
    BY <1>1, EndsFacts DEF Memory, TableInv
  <2> QED BY <1>9, <1>11, <1>12, <2>1, FdFacts
<1>14. \A fd \in Fd : t[fd] = IF fd = w THEN WriteEnd(m)
                              ELSE IF fd = r THEN ReadEnd(m) ELSE fds[Tool][fd]
  BY <1>9, <1>11
<1> QED BY <1>3, <1>4, <1>8, <1>9, <1>11, <1>12, <1>13, <1>14

\* A pipe is opened before anybody who is wired to it is forked.
LEMMA MemoryOpen ==
    ASSUME EnoughFds, Control, Memory, OpenPipe
    PROVE  Memory'
<1>step. [Next]_vars
  BY DEF Next, Parent
<1>const. /\ tree' = tree /\ Nodes' = Nodes /\ Executables' = Executables
          /\ Sequencers' = Sequencers /\ Processes' = Processes /\ Workers' = Workers
          /\ \A k : Operands(k)' = Operands(k)
          /\ \A k : IsSequenceOperand(k)' = IsSequenceOperand(k)
          /\ \A k : WiredWriters(k)' = WiredWriters(k)
          /\ \A k : WiredReaders(k)' = WiredReaders(k)
          /\ \A k : PipesFor(k)' = PipesFor(k)
  BY <1>step, TreeConstant
<1>ends. Ends' = Ends
  BY <1>const DEF Ends
<1>tree. /\ IsWired(tree) /\ MemoryTypes /\ OpenedInv /\ OpeningInv /\ TableInv
         /\ HeldInv /\ ToFdInv /\ CollectedInv /\ ChildInv
         /\ ExecutablesHoldNoAppenderEnds /\ ForkInv /\ ControlInv
         /\ Executables \subseteq Nodes /\ Sequencers \subseteq Nodes /\ Workers \subseteq Nodes
         /\ Tool \in Processes /\ Tool \notin Nodes /\ Nodes \subseteq Processes
         /\ opening \in Seq(Nodes)
         /\ \A k : WiredWriters(k) \subseteq Nodes /\ WiredReaders(k) \subseteq Nodes
  BY NodeFacts, WiredAreWorkers
     DEF Memory, Control, ControlTypes, Tool, NoNode, Processes, Workers
<1>types. /\ fds \in [Processes -> [Fd -> Ends]] /\ desc \in [Nodes -> Fd \X Fd]
  BY <1>tree DEF MemoryTypes
<1>same. /\ pc = "open" /\ opening # <<>> /\ opening' = Tail(opening)
         /\ UNCHANGED <<pc, current, state, status, to_fd, open_appender_fds, known>>
         /\ current \in Nodes /\ Begun(current)
  BY <1>tree DEF OpenPipe, ControlInv, ForkInv
<1>1. PICK m \in Nodes, r \in 3..MaxFd, w \in 3..MaxFd, t \in [Fd -> Ends] :
             /\ m = Head(opening) /\ m \in PipesFor(current) /\ ~IsOpened(m)
             /\ r # w /\ fds[Tool][r] = Closed /\ fds[Tool][w] = Closed
             /\ fds' = [fds EXCEPT ![Tool] = t]
             /\ \A fd \in Fd : t[fd] = IF fd = w THEN WriteEnd(m)
                                       ELSE IF fd = r THEN ReadEnd(m) ELSE fds[Tool][fd]
             /\ desc' = [desc EXCEPT ![m] = <<r, w>>]
  BY PipeNumbers
<1>2. /\ fds' \in [Processes -> [Fd -> Ends]] /\ fds'[Tool] = t
      /\ \A k \in Nodes : fds'[k] = fds[k]
  BY <1>1, <1>tree, <1>types
<1>3. /\ r \in Fd /\ w \in Fd /\ r # 0
      /\ desc' \in [Nodes -> Fd \X Fd] /\ desc'[m] = <<r, w>>
      /\ \A k \in Nodes \ {m} : desc'[k] = desc[k]
  BY <1>1, <1>types, FdFacts
<1>4. /\ IsOpened(m)' /\ ReadFd(m)' = r /\ WriteFd(m)' = w
      /\ \A k \in Nodes \ {m} : /\ IsOpened(k)' <=> IsOpened(k)
                               /\ ReadFd(k)' = ReadFd(k) /\ WriteFd(k)' = WriteFd(k)
  BY <1>3 DEF IsOpened, ReadFd, WriteFd, NoPipe
<1>opened. \A k \in Nodes : IsOpened(k)' <=> IsOpened(k) \/ k = m
  BY <1>4
<1>past. \A k \in Nodes : Past(k)' <=> Past(k)
  BY <1>same DEF Past
<1>unused. \A k \in Nodes : m \in PipesFor(k) => state[k] = "none" /\ ~Past(k)
  BY <1>1, <1>tree DEF OpenedInv, Past
<1>5. MemoryTypes'
  BY <1>const, <1>ends, <1>tree, <1>same, <1>2, <1>3 DEF MemoryTypes
<1>6. OpenedInv'
  <2>1. \A k \in Nodes : IsOpened(k)' =>
          ReadFd(k)' \in 3..MaxFd /\ WriteFd(k)' \in 3..MaxFd /\ k # 1
    <3>1. m # 1
      BY <1>1, <1>same, <1>tree, PipesForFacts
    <3> QED BY <1>4, <1>opened, <1>tree, <3>1 DEF OpenedInv
  <2>2. \A k, j \in Nodes : state'[k] # "none" /\ j \in PipesFor(k) => IsOpened(j)'
    BY <1>opened, <1>same, <1>tree DEF OpenedInv
  <2>3. \A k \in Nodes : IsOpened(k)' /\ IsSequenceOperand(k) =>
          status'[tree.father[k]] # "none"
    <3>1. IsSequenceOperand(m) => Begun(tree.father[m])
      BY <1>1, <1>same, FatherOfPipe
    <3> QED BY <1>opened, <1>same, <1>tree, <3>1 DEF OpenedInv, Begun
  <2> QED BY <1>const, <2>1, <2>2, <2>3 DEF OpenedInv, Begun
<1>7. OpeningInv'
  <2>1. /\ Len(opening) \in Nat /\ Len(opening') = Len(opening) - 1
        /\ \A i \in 1..Len(opening') : opening'[i] = opening[i + 1] /\ i + 1 \in 1..Len(opening)
        /\ opening[1] = m /\ Len(opening) >= 1
    BY <1>1, <1>same, <1>tree
  <2>2. \A k \in PipesFor(current) :
          IsOpened(k)' \/ \E i \in 1..Len(opening') : opening'[i] = k
    <3> SUFFICES ASSUME NEW k \in PipesFor(current), ~IsOpened(k)'
                 PROVE  \E i \in 1..Len(opening') : opening'[i] = k
      OBVIOUS
    <3>1. k \in Nodes /\ ~IsOpened(k) /\ k # m
      BY <1>opened, <1>tree, <1>same, PipesOfNode
    <3>2. PICK i \in 1..Len(opening) : opening[i] = k
      BY <1>same, <1>tree, <3>1 DEF OpeningInv
    <3>3. i # 1 /\ i - 1 \in 1..Len(opening') /\ i = (i - 1) + 1
      BY <2>1, <3>1, <3>2
    <3> QED BY <2>1, <3>2, <3>3
  <2>3. \A i \in 1..Len(opening') :
          opening'[i] \in PipesFor(current) /\ desc'[opening'[i]] = NoPipe
    <3> SUFFICES ASSUME NEW i \in 1..Len(opening'), NEW k, k = opening'[i]
                 PROVE  k \in PipesFor(current) /\ desc'[k] = NoPipe
      OBVIOUS
    <3>1. k = opening[i + 1] /\ i + 1 \in 1..Len(opening) /\ i + 1 # 1
      BY <2>1
    <3>2. k \in PipesFor(current) /\ ~IsOpened(k) /\ k \in Nodes
      BY <1>same, <1>tree, <3>1, PipesOfNode DEF OpeningInv
    <3>3. k # m
      BY <1>same, <1>tree, <2>1, <3>1 DEF OpeningInv
    <3> QED BY <1>3, <3>2, <3>3 DEF IsOpened
  <2>4. \A i, j \in 1..Len(opening') : opening'[i] = opening'[j] => i = j
    <3> SUFFICES ASSUME NEW i \in 1..Len(opening'), NEW j \in 1..Len(opening'),
                        opening'[i] = opening'[j]
                 PROVE  i = j
      OBVIOUS
    <3>1. i + 1 = j + 1
      BY <1>same, <1>tree, <2>1 DEF OpeningInv
    <3> QED BY <2>1, <3>1
  <2> QED BY <1>const, <1>same, <2>2, <2>3, <2>4 DEF OpeningInv, IsOpened
<1>8. \A fd \in Fd, k \in Nodes :
        /\ t[fd] = ReadEnd(k) <=> fds[Tool][fd] = ReadEnd(k) \/ (fd = r /\ k = m)
        /\ t[fd] = WriteEnd(k) <=> fds[Tool][fd] = WriteEnd(k) \/ (fd = w /\ k = m)
  <2> SUFFICES ASSUME NEW fd \in Fd, NEW k \in Nodes
               PROVE  /\ t[fd] = ReadEnd(k) <=> fds[Tool][fd] = ReadEnd(k) \/ (fd = r /\ k = m)
                      /\ t[fd] = WriteEnd(k) <=>
                           fds[Tool][fd] = WriteEnd(k) \/ (fd = w /\ k = m)
    OBVIOUS
  <2>1. /\ ReadEnd(k) # Closed /\ WriteEnd(k) # Closed
        /\ ReadEnd(k) # WriteEnd(m) /\ WriteEnd(k) # ReadEnd(m)
        /\ ReadEnd(k) = ReadEnd(m) => k = m
        /\ WriteEnd(k) = WriteEnd(m) => k = m
    BY EndsFacts
  <2> QED BY <1>1, <2>1
<1>9. TableInv'
  <2>1. t[0] = Input(0) /\ t[1] = Output(0) /\ t[2] = Output(0)
    BY <1>1, <1>same, <1>tree, FdFacts DEF TableInv
  <2>2. \A fd \in Fd, k \in Nodes :
          /\ t[fd] = ReadEnd(k) => IsOpened(k)' /\ fd = ReadFd(k)'
          /\ t[fd] = WriteEnd(k) => IsOpened(k)' /\ fd = WriteFd(k)'
    <3> SUFFICES ASSUME NEW fd \in Fd, NEW k \in Nodes
                 PROVE  /\ t[fd] = ReadEnd(k) => IsOpened(k)' /\ fd = ReadFd(k)'
                        /\ t[fd] = WriteEnd(k) => IsOpened(k)' /\ fd = WriteFd(k)'
      OBVIOUS
    <3>1. /\ fds[Tool][fd] = ReadEnd(k) => IsOpened(k) /\ fd = ReadFd(k)
          /\ fds[Tool][fd] = WriteEnd(k) => IsOpened(k) /\ fd = WriteFd(k)
      BY <1>same, <1>tree DEF TableInv
    <3>2. CASE k = m
      BY <1>1, <1>4, <1>8, <3>1, <3>2
    <3>3. CASE k # m
      BY <1>4, <1>8, <3>1, <3>3
    <3> QED BY <3>2, <3>3
  <2>3. \A fd \in 3..MaxFd :
          \/ t[fd] = Closed
          \/ \E k \in Nodes : t[fd] \in {ReadEnd(k), WriteEnd(k)}
          \/ /\ current \in Sequencers /\ IsFile(tree.to[current])
             /\ fd = to_fd[current]
    BY <1>1, <1>same, <1>tree, FdFacts DEF TableInv
  <2> QED BY <1>const, <1>same, <1>2, <2>1, <2>2, <2>3 DEF TableInv
<1>10. HeldInv'
  <2>1. \A k \in Nodes : IsOpened(k)' =>
          /\ t[WriteFd(k)'] = WriteEnd(k) <=> \A n \in WiredWriters(k) : ~Past(n)
          /\ t[ReadFd(k)'] = ReadEnd(k) <=> \A n \in WiredReaders(k) : ~Past(n)
    <3> SUFFICES ASSUME NEW k \in Nodes, IsOpened(k)'
                 PROVE  /\ t[WriteFd(k)'] = WriteEnd(k) <=> \A n \in WiredWriters(k) : ~Past(n)
                        /\ t[ReadFd(k)'] = ReadEnd(k) <=> \A n \in WiredReaders(k) : ~Past(n)
      OBVIOUS
    <3>1. CASE k = m
      <4>1. /\ \A n \in WiredWriters(m) : ~Past(n)
            /\ \A n \in WiredReaders(m) : ~Past(n)
        BY <1>tree, <1>unused, PipesOfNode
      <4> QED BY <1>1, <1>3, <1>4, <3>1, <4>1
    <3>2. CASE k # m
      <4>1. /\ IsOpened(k) /\ WriteFd(k)' = WriteFd(k) /\ ReadFd(k)' = ReadFd(k)
            /\ WriteFd(k) \in Fd /\ ReadFd(k) \in Fd
        BY <1>4, <1>types, <3>2 DEF ReadFd, WriteFd
      <4> QED BY <1>8, <1>same, <1>tree, <3>2, <4>1 DEF HeldInv
    <3> QED BY <3>1, <3>2
  <2> QED BY <1>const, <1>same, <1>tree, <1>past, <1>2, <2>1 DEF HeldInv
<1>11. ToFdInv'
  <2>1. \A n \in Sequencers, k \in Nodes :
          state[n] # "none" /\ tree.to[n] = PipeOf(k) => k # m
    <3>1. \A n \in Sequencers : PipesFor(n) = PipesOf(tree.to[n]) \cup Operands(n)
      BY <1>tree, PipesForFacts
    <3>2. \A n, k : tree.to[n] = PipeOf(k) => k \in PipesOf(tree.to[n])
      BY <1>tree, StreamFacts DEF PipesOf
    <3> QED BY <1>tree, <1>unused, <3>1, <3>2
  <2>2. current \in Sequencers /\ IsFile(tree.to[current]) =>
          /\ to_fd[current] \in 3..MaxFd
          /\ t[to_fd[current]] = Output(tree.to[current][2])
    <3> SUFFICES ASSUME current \in Sequencers, IsFile(tree.to[current]),
                        NEW x, x = to_fd[current], NEW e, e = Output(tree.to[current][2])
                 PROVE  x \in 3..MaxFd /\ t[x] = e
      OBVIOUS
    <3>1. x \in 3..MaxFd /\ fds[Tool][x] = e
      BY <1>same, <1>tree DEF ToFdInv
    <3>2. e # Closed
      BY EndsFacts
    <3> QED BY <1>1, <3>1, <3>2, FdFacts
  <2> QED BY <1>const, <1>same, <1>tree, <1>2, <1>4, <2>1, <2>2 DEF ToFdInv
<1>12. CollectedInv'
  <2>1. \A k \in Nodes : IsSequenceOperand(k) => tree.father[k] \in Nodes
    BY <1>tree, OperandPipe, NodeFacts
  <2>2. Collected' = Collected
    <3>1. \A k \in Nodes : IsSequenceOperand(k) =>
            (Past(tree.father[k])' <=> Past(tree.father[k]))
      <4> SUFFICES ASSUME NEW k \in Nodes, IsSequenceOperand(k),
                          NEW f, f = tree.father[k]
                   PROVE  Past(f)' <=> Past(f)
        BY <1>const
      <4> QED BY <2>1, <1>past
    <3> QED BY <1>const, <3>1 DEF Collected
  <2>3. \A k \in Collected : k \in Nodes /\ k # m
    <3> SUFFICES ASSUME m \in Collected PROVE FALSE
      BY DEF Collected
    <3>1. IsSequenceOperand(m) /\ Past(tree.father[m]) /\ tree.father[m] \in Nodes
      BY <2>1 DEF Collected
    <3>2. m \in PipesFor(tree.father[m])
      BY <3>1, <1>tree, OperandPipe, PipesOfNode
    <3> QED BY <1>unused, <3>1, <3>2
  <2> QED BY <1>const, <1>same, <1>tree, <1>4, <2>2, <2>3 DEF CollectedInv
<1>13. ChildInv'
  <2>1. \A n \in Executables, k \in Nodes :
          state[n] = "forked" /\ (tree.std_in[n] = PipeOf(k) \/ tree.std_out[n] = PipeOf(k))
            => k # m
    <3>1. \A n \in Executables :
            PipesFor(n) = PipesOf(tree.std_in[n]) \cup PipesOf(tree.std_out[n])
      BY <1>tree, PipesForFacts
    <3>2. \A n, k : /\ tree.std_in[n] = PipeOf(k) => k \in PipesOf(tree.std_in[n])
                    /\ tree.std_out[n] = PipeOf(k) => k \in PipesOf(tree.std_out[n])
      BY <1>tree, StreamFacts DEF PipesOf
    <3> QED BY <1>tree, <1>unused, <3>1, <3>2
  <2> QED BY SMTT(60), <1>const, <1>same, <1>tree, <1>2, <1>4, <2>1 DEF ChildInv
<1>14. ExecutablesHoldNoAppenderEnds'
  BY <1>const, <1>same, <1>tree, <1>2 DEF ExecutablesHoldNoAppenderEnds, Invoked
<1> QED BY <1>5, <1>6, <1>7, <1>9, <1>10, <1>11, <1>12, <1>13, <1>14 DEF Memory

\* fork() copies the table of the parent, which holds what the child is wired to.
LEMMA MemoryFork ==
    ASSUME EnoughFds, Control, Memory, Fork
    PROVE  Memory'
<1>step. [Next]_vars
  BY DEF Next, Parent
<1>const. /\ tree' = tree /\ Nodes' = Nodes /\ Executables' = Executables
          /\ Sequencers' = Sequencers /\ Processes' = Processes /\ Workers' = Workers
          /\ \A k : Operands(k)' = Operands(k)
          /\ \A k : IsSequenceOperand(k)' = IsSequenceOperand(k)
          /\ \A k : WiredWriters(k)' = WiredWriters(k)
          /\ \A k : WiredReaders(k)' = WiredReaders(k)
          /\ \A k : PipesFor(k)' = PipesFor(k)
  BY <1>step, TreeConstant
<1>ends. Ends' = Ends
  BY <1>const DEF Ends
<1>tree. /\ IsWired(tree) /\ MemoryTypes /\ OpenedInv /\ OpeningInv /\ TableInv
         /\ HeldInv /\ ToFdInv /\ CollectedInv /\ ChildInv
         /\ ExecutablesHoldNoAppenderEnds /\ ForkInv /\ ControlInv
         /\ Executables \subseteq Nodes /\ Sequencers \subseteq Nodes /\ Workers \subseteq Nodes
         /\ Executables \cap Sequencers = {} /\ Workers = Executables \cup Sequencers
         /\ Tool \in Processes /\ Tool \notin Nodes /\ Nodes \subseteq Processes
         /\ state \in [Nodes -> ProcessStates]
         /\ \A k : WiredWriters(k) \subseteq Nodes /\ WiredReaders(k) \subseteq Nodes
         /\ \A k \in Nodes : IsSequenceOperand(k) => tree.father[k] \in Sequencers
  BY NodeFacts, WiredAreWorkers, OperandPipe
     DEF Memory, Control, ControlTypes, Tool, NoNode, Processes, Workers
<1>types. /\ fds \in [Processes -> [Fd -> Ends]] /\ desc \in [Nodes -> Fd \X Fd]
          /\ to_fd \in [Nodes -> Fd] /\ known \in [Nodes -> Nat]
          /\ open_appender_fds \in Seq(Fd)
  BY <1>tree DEF MemoryTypes
<1>0. PICK c \in Workers : c = current
  BY <1>tree DEF Fork, ControlInv
<1>c. c \in Nodes /\ c \in Processes
  BY <1>tree
<1>same. /\ pc = "open" /\ pc' = "close" /\ opening = <<>> /\ current' = current
         /\ state[c] = "none"
         /\ UNCHANGED <<status, desc, open_appender_fds>>
         /\ state' = [state EXCEPT ![c] = "forked"]
         /\ fds' = [fds EXCEPT ![c] = fds[Tool]]
         /\ known' = [known EXCEPT ![c] = Len(open_appender_fds)]
         /\ to_fd' = IF IsPipe(tree.to[c])
                       THEN [to_fd EXCEPT ![c] = WriteFd(tree.to[c][2])] ELSE to_fd
         /\ \A m : IsOpened(m)' <=> IsOpened(m)
         /\ \A m : ReadFd(m)' = ReadFd(m) /\ WriteFd(m)' = WriteFd(m)
  BY <1>0, <1>tree DEF Fork, ForkInv, IsOpened, ReadFd, WriteFd
<1>1. /\ state'[c] = "forked" /\ \A k \in Nodes \ {c} : state'[k] = state[k]
      /\ fds' \in [Processes -> [Fd -> Ends]] /\ fds'[c] = fds[Tool]
      /\ \A k \in Processes \ {c} : fds'[k] = fds[k]
      /\ fds'[Tool] = fds[Tool]
  BY <1>c, <1>same, <1>tree, <1>types
<1>2. /\ known' \in [Nodes -> Nat] /\ known'[c] = Len(open_appender_fds)
      /\ \A k \in Nodes \ {c} : known'[k] = known[k]
  BY <1>c, <1>same, <1>types, LenProperties
<1>3. /\ to_fd' \in [Nodes -> Fd]
      /\ \A k \in Nodes \ {c} : to_fd'[k] = to_fd[k]
      /\ ~IsPipe(tree.to[c]) => to_fd'[c] = to_fd[c]
      /\ \A m \in Nodes : tree.to[c] = PipeOf(m) => to_fd'[c] = WriteFd(m)
  <2>1. CASE IsPipe(tree.to[c])
    <3>1. tree.to[c][2] \in Nodes /\ tree.to[c] = PipeOf(tree.to[c][2])
      BY <1>c, <1>tree, <2>1, WiringRules, StreamFacts
    <3>2. PICK m \in Nodes : m = tree.to[c][2] /\ tree.to[c] = PipeOf(m)
      BY <3>1
    <3>3. WriteFd(m) \in Fd /\ to_fd' = [to_fd EXCEPT ![c] = WriteFd(m)]
      BY <1>same, <1>types, <2>1, <3>2 DEF WriteFd
    <3>4. \A k \in Nodes : tree.to[c] = PipeOf(k) => k = m
      BY <1>tree, <3>2, StreamFacts
    <3> QED BY <1>c, <1>types, <2>1, <3>3, <3>4
  <2>2. CASE ~IsPipe(tree.to[c])
    <3>1. \A m : tree.to[c] # PipeOf(m)
      BY <1>tree, <2>2, StreamFacts
    <3> QED BY <1>same, <1>types, <2>2, <3>1
  <2> QED BY <2>1, <2>2
<1>past. \A k \in Nodes : Past(k)' <=> Past(k)
  BY <1>0, <1>same, <1>1 DEF Past
<1>opened. \A m \in PipesFor(c) : IsOpened(m)
  BY <1>0, <1>same, <1>tree DEF OpeningInv
<1>5. MemoryTypes'
  BY <1>const, <1>ends, <1>types, <1>same, <1>1, <1>2, <1>3 DEF MemoryTypes
<1>6. OpenedInv'
  <2>1. \A k, m \in Nodes : state'[k] # "none" /\ m \in PipesFor(k) => IsOpened(m)
    BY <1>1, <1>opened, <1>tree DEF OpenedInv
  <2>2. \A m \in Nodes : IsOpened(m) /\ IsSequenceOperand(m) =>
          status'[tree.father[m]] # "none"
    BY <1>same, <1>tree DEF OpenedInv, Begun
  <2> QED BY <1>const, <1>same, <1>tree, <2>1, <2>2 DEF OpenedInv, Begun
<1>7. OpeningInv'
  BY <1>same DEF OpeningInv
<1>8. TableInv'
  <2>1. IsFile(tree.to[c]) => to_fd'[c] = to_fd[c]
    BY <1>3 DEF IsFile, IsPipe
  <2> QED BY <1>0, <1>const, <1>same, <1>tree, <1>1, <2>1 DEF TableInv
<1>9. HeldInv'
  BY <1>const, <1>same, <1>tree, <1>1, <1>past DEF HeldInv
<1>10. ToFdInv'
  <2>1. \A n \in Sequencers, m \in Nodes :
          state'[n] # "none" /\ tree.to[n] = PipeOf(m) => to_fd'[n] = WriteFd(m)
    BY <1>1, <1>3, <1>tree DEF ToFdInv
  <2>2. \A n \in Sequencers : ~IsPipe(tree.to[n]) /\ ~IsFile(tree.to[n]) => to_fd'[n] = 1
    BY <1>3, <1>tree DEF ToFdInv
  <2>3. c \in Sequencers /\ IsFile(tree.to[c]) =>
          /\ to_fd'[c] \in 3..MaxFd
          /\ fds[Tool][to_fd'[c]] = Output(tree.to[c][2])
    <3>1. IsFile(tree.to[c]) => to_fd'[c] = to_fd[c]
      BY <1>3 DEF IsFile, IsPipe
    <3> QED BY <1>0, <1>same, <1>tree, <3>1 DEF ToFdInv
  <2> QED BY <1>0, <1>const, <1>same, <1>1, <2>1, <2>2, <2>3 DEF ToFdInv
<1>11. CollectedInv'
  <2>1. Collected' = Collected
    <3>1. \A k \in Nodes : IsSequenceOperand(k) =>
            (Past(tree.father[k])' <=> Past(tree.father[k]))
      <4> SUFFICES ASSUME NEW k \in Nodes, IsSequenceOperand(k),
                          NEW f, f = tree.father[k]
                   PROVE  Past(f)' <=> Past(f)
        BY <1>const
      <4> QED BY <1>tree, <1>past
    <3> QED BY <1>const, <3>1 DEF Collected
  <2>2. \A n \in Nodes : known'[n] <= Len(open_appender_fds)
    <3>1. PICK l \in Nat : l = Len(open_appender_fds)
      BY <1>types, LenProperties
    <3>2. \A n \in Nodes : known[n] <= l
      BY <1>tree, <3>1 DEF CollectedInv
    <3>3. known'[c] = l /\ l <= l /\ \A k \in Nodes \ {c} : known'[k] = known[k]
      BY <1>2, <3>1
    <3>4. \A n \in Nodes : known'[n] <= l
      BY <3>2, <3>3
    <3> QED BY <3>1, <3>4
  <2> QED BY <1>const, <1>same, <1>tree, <2>1, <2>2 DEF CollectedInv, Collected
<1>12. ASSUME c \in Executables
       PROVE  /\ \A m \in Nodes : tree.std_in[c] = PipeOf(m) =>
                   fds[Tool][ReadFd(m)] = ReadEnd(m)
              /\ \A m \in Nodes : tree.std_out[c] = PipeOf(m) =>
                   fds[Tool][WriteFd(m)] = WriteEnd(m)
  <2>1. ~Past(c)
    BY <1>same DEF Past
  <2>2. ASSUME NEW m \in Nodes, tree.std_in[c] = PipeOf(m)
        PROVE  fds[Tool][ReadFd(m)] = ReadEnd(m)
    <3>1. c \in WiredReaders(m)
      BY <1>12, <2>2 DEF WiredReaders
    <3>2. \A n \in WiredReaders(m) : n = c
      BY <1>tree, <3>1, OneReader
    <3>3. IsOpened(m)
      BY <1>c, <1>opened, <1>tree, <3>1, PipesOfNode
    <3> QED BY <1>same, <1>tree, <2>1, <3>2, <3>3 DEF HeldInv
  <2>3. ASSUME NEW m \in Nodes, tree.std_out[c] = PipeOf(m)
        PROVE  fds[Tool][WriteFd(m)] = WriteEnd(m)
    <3>1. c \in WiredWriters(m)
      BY <1>12, <2>3 DEF WiredWriters
    <3>2. \A n \in WiredWriters(m) : n = c
      BY <1>tree, <3>1, OneWriter
    <3>3. IsOpened(m)
      BY <1>c, <1>opened, <1>tree, <3>1, PipesOfNode
    <3> QED BY <1>same, <1>tree, <2>1, <3>2, <3>3 DEF HeldInv
  <2> QED BY <2>2, <2>3
<1>13. ASSUME c \in Executables, NEW fd \in Fd, NEW m \in Nodes, IsSequenceOperand(m),
              fds[Tool][fd] = WriteEnd(m)
       PROVE  \E i \in 1..Len(open_appender_fds) : open_appender_fds[i] = fd /\ fd > 2
  <2>1. IsOpened(m) /\ fd = WriteFd(m)
    BY <1>13, <1>same, <1>tree DEF TableInv
  <2>2. fd \in 3..MaxFd
    BY <1>tree, <2>1 DEF OpenedInv
  <2>3. PICK f \in Sequencers : f = tree.father[m]
    BY <1>13, <1>tree
  <2>4. Begun(f) /\ f # c /\ f \in Workers /\ f \in Nodes
    BY <1>13, <1>tree, <2>1, <2>3 DEF OpenedInv
  <2>5. Past(f)
    BY <1>0, <1>same, <1>tree, <2>4 DEF ForkInv, Past
  <2>6. m \in Collected
    BY <1>13, <2>3, <2>5 DEF Collected
  <2>7. \E i \in 1..Len(open_appender_fds) : open_appender_fds[i] = WriteFd(m)
    BY <1>tree, <2>6 DEF CollectedInv
  <2>8. fd > 2
    BY <2>2, SizesAssumption
  <2> QED BY <2>1, <2>7, <2>8
<1>14. \E a, b \in Fd : a # b /\ fds[Tool][a] = Closed /\ fds[Tool][b] = Closed
  BY <1>same, <1>tree, FreeFds
<1>15. ChildInv'
  <2> SUFFICES ASSUME NEW n \in Executables, state'[n] = "forked"
               PROVE
      /\ fds'[n][0] = Input(0) /\ fds'[n][1] = Output(0) /\ fds'[n][2] = Output(0)
      /\ \A m \in Nodes : tree.std_in[n] = PipeOf(m) => fds'[n][ReadFd(m)] = ReadEnd(m)
      /\ \A m \in Nodes : tree.std_out[n] = PipeOf(m) => fds'[n][WriteFd(m)] = WriteEnd(m)
      /\ \A fd \in Fd, m \in Nodes :
           IsSequenceOperand(m) /\ fds'[n][fd] = WriteEnd(m) =>
             \E i \in 1..known'[n] : open_appender_fds[i] = fd /\ fd > 2
      /\ \E a, b \in Fd : a # b /\ fds'[n][a] = Closed /\ fds'[n][b] = Closed
    BY <1>const, <1>same DEF ChildInv
  <2>1. CASE n # c
    BY <1>1, <1>2, <1>tree, <2>1 DEF ChildInv
  <2>2. CASE n = c
    <3>1. /\ fds[Tool][0] = Input(0) /\ fds[Tool][1] = Output(0)
          /\ fds[Tool][2] = Output(0)
      BY <1>same, <1>tree DEF TableInv
    <3> QED BY <1>1, <1>2, <1>12, <1>13, <1>14, <2>2, <3>1
  <2> QED BY <2>1, <2>2
<1>16. ExecutablesHoldNoAppenderEnds'
  <2>1. \A n \in Executables : state'[n] \in {"running", "writing", "written"} =>
          n # c /\ Invoked(n) /\ fds'[n] = fds[n]
    BY <1>1, <1>tree DEF Invoked
  <2> QED BY <1>const, <1>tree, <2>1 DEF ExecutablesHoldNoAppenderEnds, Invoked
<1> QED BY <1>5, <1>6, <1>7, <1>8, <1>9, <1>10, <1>11, <1>15, <1>16 DEF Memory

\* What the parent closes after a fork: what only the child needs.
LEMMA CloseNumbers ==
    ASSUME Control, Memory, CloseUnused
    PROVE  \E c \in Workers : \E S :
             /\ c = current /\ state[c] # "none"
             /\ fds' = [fds EXCEPT ![Tool] = WithoutFds(fds[Tool], S)]
             /\ \A fd \in S :
                  \/ \E m \in Nodes : c \in WiredReaders(m) /\ fd = ReadFd(m)
                  \/ \E m \in Nodes : c \in WiredWriters(m) /\ fd = WriteFd(m)
                  \/ c \in Sequencers /\ IsFile(tree.to[c]) /\ fd = to_fd[c]
             /\ \A m \in Nodes : c \in WiredReaders(m) => ReadFd(m) \in S
             /\ \A m \in Nodes : c \in WiredWriters(m) => WriteFd(m) \in S
             /\ c \in Sequencers /\ IsFile(tree.to[c]) => to_fd[c] \in S
<1>0. PICK c \in Workers : c = current /\ state[c] # "none"
  BY DEF CloseUnused, Control, ControlInv, ForkInv
<1>tree. /\ IsWired(tree) /\ OpenedInv /\ ToFdInv /\ c \in Nodes
         /\ c \in Executables <=> tree.type[c] = "Executable"
         /\ c \in Sequencers <=> tree.type[c] \in SequenceTypes
         /\ c \in Executables => c \notin Sequencers
         /\ pc = "close"
  BY NodeFacts DEF Control, ControlTypes, Memory, IsSequence, Workers, CloseUnused
<1>pipes. /\ tree.std_in[c] \in StreamsOf(tree) /\ tree.std_out[c] \in StreamsOf(tree)
          /\ tree.to[c] \in StreamsOf(tree)
          /\ \A s \in StreamsOf(tree) : \A m : m \in PipesOf(s) <=> s = PipeOf(m)
          /\ \A s \in StreamsOf(tree) : \A m : m \in PipesOf(s) => m \in Nodes
  <2>1. \A s \in StreamsOf(tree) : \A m : m \in PipesOf(s) <=> s = PipeOf(m)
    <3> SUFFICES ASSUME NEW s \in StreamsOf(tree), NEW m
                 PROVE  m \in PipesOf(s) <=> s = PipeOf(m)
      OBVIOUS
    <3>1. IsPipe(s) => s = PipeOf(s[2])
      BY <1>tree, StreamFacts
    <3>2. IsPipe(PipeOf(m)) /\ PipeOf(m)[2] = m
      BY <1>tree, StreamFacts
    <3> QED BY <3>1, <3>2 DEF PipesOf
  <2>2. \A s \in StreamsOf(tree) : \A m : m \in PipesOf(s) => m \in Nodes
    BY <1>tree, StreamFacts DEF PipesOf
  <2> QED BY <1>tree, <2>1, <2>2, WiringRules
<1>1. CASE CloseAfterExecutable
  <2> DEFINE S == {ReadFd(m) : m \in PipesOf(tree.std_in[c])}
                    \cup {WriteFd(m) : m \in PipesOf(tree.std_out[c])}
  <2>1. fds' = [fds EXCEPT ![Tool] = WithoutFds(fds[Tool], S)] /\ c \in Executables
    BY <1>0, <1>1, <1>tree DEF CloseAfterExecutable
  <2>2. \A m : /\ c \in WiredReaders(m) <=> m \in PipesOf(tree.std_in[c])
               /\ c \in WiredWriters(m) <=> m \in PipesOf(tree.std_out[c])
    BY <1>pipes, <1>tree, <2>1 DEF WiredReaders, WiredWriters
  <2>3. \A fd \in S :
          \/ \E m \in Nodes : c \in WiredReaders(m) /\ fd = ReadFd(m)
          \/ \E m \in Nodes : c \in WiredWriters(m) /\ fd = WriteFd(m)
    BY <1>pipes, <2>2
  <2>4. \A m \in Nodes : /\ c \in WiredReaders(m) => ReadFd(m) \in S
                         /\ c \in WiredWriters(m) => WriteFd(m) \in S
    BY <2>2
  <2>5. c \notin Sequencers
    BY <1>tree, <2>1
  <2>6. \A fd \in S :
          \/ \E m \in Nodes : c \in WiredReaders(m) /\ fd = ReadFd(m)
          \/ \E m \in Nodes : c \in WiredWriters(m) /\ fd = WriteFd(m)
          \/ c \in Sequencers /\ IsFile(tree.to[c]) /\ fd = to_fd[c]
    BY <2>3
  <2>7. /\ \A m \in Nodes : c \in WiredReaders(m) => ReadFd(m) \in S
        /\ \A m \in Nodes : c \in WiredWriters(m) => WriteFd(m) \in S
        /\ c \in Sequencers /\ IsFile(tree.to[c]) => to_fd[c] \in S
    BY <2>4, <2>5
  <2> HIDE DEF S
  <2> QED BY <1>0, <2>1, <2>6, <2>7
<1>2. CASE CloseAfterAppender
  <2> DEFINE S == {ReadFd(m) : m \in Operands(c)} \cup ({to_fd[c]} \ {1})
  <2>1. fds' = [fds EXCEPT ![Tool] = WithoutFds(fds[Tool], S)] /\ c \in Sequencers
    BY <1>0, <1>2, <1>tree DEF CloseAfterAppender
  <2>2. \A m : /\ c \in WiredReaders(m) <=> m \in Operands(c)
               /\ c \in WiredWriters(m) <=> tree.to[c] = PipeOf(m)
    BY <1>tree, <2>1 DEF WiredReaders, WiredWriters
  <2>3. Operands(c) \subseteq Nodes
    BY <1>tree, NodeFacts
  <2>4. ASSUME NEW m \in Nodes, tree.to[c] = PipeOf(m)
        PROVE  to_fd[c] = WriteFd(m) /\ to_fd[c] # 1
    <3>1. to_fd[c] = WriteFd(m)
      BY <1>0, <1>tree, <2>1, <2>4 DEF ToFdInv
    <3>2. m \in PipesFor(c)
      BY <1>tree, <2>2, <2>4, PipesOfNode
    <3>3. WriteFd(m) \in 3..MaxFd
      BY <1>0, <1>tree, <3>2 DEF OpenedInv
    <3> QED BY <3>1, <3>3, FdFacts
  <2>5. IsFile(tree.to[c]) => to_fd[c] # 1
    BY <1>0, <1>tree, <2>1, FdFacts DEF ToFdInv
  <2>6. to_fd[c] # 1 =>
          IsFile(tree.to[c]) \/ \E m \in Nodes : tree.to[c] = PipeOf(m) /\ to_fd[c] = WriteFd(m)
    <3>1. SUFFICES ASSUME to_fd[c] # 1, IsPipe(tree.to[c])
                   PROVE  \E m \in Nodes : tree.to[c] = PipeOf(m) /\ to_fd[c] = WriteFd(m)
      BY <1>tree, <2>1 DEF ToFdInv
    <3>2. PICK m \in Nodes : tree.to[c] = PipeOf(m)
      BY <1>pipes, <1>tree, <3>1, StreamFacts
    <3> QED BY <2>4, <3>2
  <2>7. \A fd \in S :
          \/ \E m \in Nodes : c \in WiredReaders(m) /\ fd = ReadFd(m)
          \/ \E m \in Nodes : c \in WiredWriters(m) /\ fd = WriteFd(m)
          \/ IsFile(tree.to[c]) /\ fd = to_fd[c]
    BY <2>2, <2>3, <2>6
  <2>8. \A m \in Nodes : c \in WiredReaders(m) => ReadFd(m) \in S
    BY <2>2
  <2>9. \A m \in Nodes : c \in WiredWriters(m) => WriteFd(m) \in S
    BY <2>2, <2>4
  <2>10. IsFile(tree.to[c]) => to_fd[c] \in S
    BY <2>5
  <2> HIDE DEF S
  <2>11. /\ c = current /\ state[c] # "none"
         /\ fds' = [fds EXCEPT ![Tool] = WithoutFds(fds[Tool], S)]
         /\ \A fd \in S :
              \/ \E m \in Nodes : c \in WiredReaders(m) /\ fd = ReadFd(m)
              \/ \E m \in Nodes : c \in WiredWriters(m) /\ fd = WriteFd(m)
              \/ c \in Sequencers /\ IsFile(tree.to[c]) /\ fd = to_fd[c]
         /\ \A m \in Nodes : c \in WiredReaders(m) => ReadFd(m) \in S
         /\ \A m \in Nodes : c \in WiredWriters(m) => WriteFd(m) \in S
         /\ c \in Sequencers /\ IsFile(tree.to[c]) => to_fd[c] \in S
    BY <1>0, <2>1, <2>7, <2>8, <2>9, <2>10
  <2> QED BY <2>11
<1> QED BY <1>1, <1>2 DEF CloseUnused

\* The ends that are closed are those of the child, which the parent held for it.
LEMMA ClosedEnds ==
    ASSUME Control, Memory, CloseUnused
    PROVE  \E c \in Workers, t \in [Fd -> Ends] :
             /\ c = current /\ state[c] # "none"
             /\ fds' = [fds EXCEPT ![Tool] = t]
             /\ \A fd \in {0, 1, 2} : t[fd] = fds[Tool][fd]
             /\ \A fd \in Fd : t[fd] \in {fds[Tool][fd], Closed}
             /\ \A m \in Nodes :
                  /\ c \in WiredReaders(m) => t[ReadFd(m)] = Closed
                  /\ c \in WiredWriters(m) => t[WriteFd(m)] = Closed
             /\ c \in Sequencers /\ IsFile(tree.to[c]) => t[to_fd[c]] = Closed
             /\ \A fd \in Fd, m \in Nodes :
                  /\ fds[Tool][fd] = ReadEnd(m) /\ c \notin WiredReaders(m) =>
                       t[fd] = ReadEnd(m)
                  /\ fds[Tool][fd] = WriteEnd(m) /\ c \notin WiredWriters(m) =>
                       t[fd] = WriteEnd(m)
<1>0. PICK c \in Workers : \E S :
             /\ c = current /\ state[c] # "none"
             /\ fds' = [fds EXCEPT ![Tool] = WithoutFds(fds[Tool], S)]
             /\ \A fd \in S :
                  \/ \E m \in Nodes : c \in WiredReaders(m) /\ fd = ReadFd(m)
                  \/ \E m \in Nodes : c \in WiredWriters(m) /\ fd = WriteFd(m)
                  \/ c \in Sequencers /\ IsFile(tree.to[c]) /\ fd = to_fd[c]
             /\ \A m \in Nodes : c \in WiredReaders(m) => ReadFd(m) \in S
             /\ \A m \in Nodes : c \in WiredWriters(m) => WriteFd(m) \in S
             /\ c \in Sequencers /\ IsFile(tree.to[c]) => to_fd[c] \in S
  BY CloseNumbers
<1>1. PICK S :
             /\ c = current /\ state[c] # "none"
             /\ fds' = [fds EXCEPT ![Tool] = WithoutFds(fds[Tool], S)]
             /\ \A fd \in S :
                  \/ \E m \in Nodes : c \in WiredReaders(m) /\ fd = ReadFd(m)
                  \/ \E m \in Nodes : c \in WiredWriters(m) /\ fd = WriteFd(m)
                  \/ c \in Sequencers /\ IsFile(tree.to[c]) /\ fd = to_fd[c]
             /\ \A m \in Nodes : c \in WiredReaders(m) => ReadFd(m) \in S
             /\ \A m \in Nodes : c \in WiredWriters(m) => WriteFd(m) \in S
             /\ c \in Sequencers /\ IsFile(tree.to[c]) => to_fd[c] \in S
  BY <1>0
<1>tree. /\ IsWired(tree) /\ OpenedInv /\ ToFdInv /\ HeldInv /\ c \in Nodes
         /\ fds[Tool] \in [Fd -> Ends] /\ desc \in [Nodes -> Fd \X Fd]
         /\ to_fd \in [Nodes -> Fd]
         /\ pc = "close" /\ ~Past(c)
  BY <1>1, NodeFacts
     DEF Control, ControlTypes, Memory, MemoryTypes, Workers, CloseUnused, Past, Processes
<1> DEFINE t == WithoutFds(fds[Tool], S)
<1>2. t \in [Fd -> Ends] /\ \A fd \in Fd : t[fd] = IF fd \in S THEN Closed ELSE fds[Tool][fd]
  BY <1>tree, WithoutFacts
<1>3. fds' = [fds EXCEPT ![Tool] = t]
  BY <1>1
<1> HIDE DEF t
<1>4. \A m \in Nodes : ReadFd(m) \in Fd /\ WriteFd(m) \in Fd
  BY <1>tree DEF ReadFd, WriteFd
<1>5. ASSUME NEW m \in Nodes, c \in WiredReaders(m)
      PROVE  ReadFd(m) \in 3..MaxFd /\ fds[Tool][ReadFd(m)] = ReadEnd(m)
  <2>1. m \in PipesFor(c)
    BY <1>5, <1>tree, PipesOfNode
  <2>2. IsOpened(m)
    BY <1>1, <1>tree, <2>1 DEF OpenedInv
  <2>3. \A n \in WiredReaders(m) : n = c
    BY <1>5, <1>tree, OneReader
  <2>4. \A n \in WiredReaders(m) : ~Past(n)
    BY <1>tree, <2>3
  <2> QED BY <1>tree, <2>2, <2>4 DEF OpenedInv, HeldInv
<1>6. ASSUME NEW m \in Nodes, c \in WiredWriters(m)
      PROVE  WriteFd(m) \in 3..MaxFd /\ fds[Tool][WriteFd(m)] = WriteEnd(m)
  <2>1. m \in PipesFor(c)
    BY <1>6, <1>tree, PipesOfNode
  <2>2. IsOpened(m)
    BY <1>1, <1>tree, <2>1 DEF OpenedInv
  <2>3. \A n \in WiredWriters(m) : n = c
    BY <1>6, <1>tree, OneWriter
  <2>4. \A n \in WiredWriters(m) : ~Past(n)
    BY <1>tree, <2>3
  <2> QED BY <1>tree, <2>2, <2>4 DEF OpenedInv, HeldInv
<1>7. c \in Sequencers /\ IsFile(tree.to[c]) =>
        to_fd[c] \in 3..MaxFd /\ fds[Tool][to_fd[c]] = Output(tree.to[c][2])
  BY <1>1, <1>tree DEF ToFdInv
<1>8. \A fd \in S :
        /\ fd \in 3..MaxFd
        /\ \/ \E m \in Nodes : c \in WiredReaders(m) /\ fds[Tool][fd] = ReadEnd(m)
           \/ \E m \in Nodes : c \in WiredWriters(m) /\ fds[Tool][fd] = WriteEnd(m)
           \/ \E k : fds[Tool][fd] = Output(k)
  BY <1>1, <1>5, <1>6, <1>7
<1>9. ASSUME NEW fd \in Fd, NEW m \in Nodes, fds[Tool][fd] = ReadEnd(m), c \notin WiredReaders(m)
      PROVE  t[fd] = ReadEnd(m)
  <2>1. \A k : /\ ReadEnd(m) # WriteEnd(k) /\ ReadEnd(m) # Output(k)
               /\ ReadEnd(m) = ReadEnd(k) => m = k
    BY EndsFacts
  <2>2. fd \notin S
    BY <1>8, <1>9, <2>1
  <2> QED BY <1>2, <1>9, <2>2
<1>10. ASSUME NEW fd \in Fd, NEW m \in Nodes, fds[Tool][fd] = WriteEnd(m),
              c \notin WiredWriters(m)
       PROVE  t[fd] = WriteEnd(m)
  <2>1. \A k : /\ WriteEnd(m) # ReadEnd(k) /\ WriteEnd(m) # Output(k)
               /\ WriteEnd(m) = WriteEnd(k) => m = k
    BY EndsFacts
  <2>2. fd \notin S
    BY <1>8, <1>10, <2>1
  <2> QED BY <1>2, <1>10, <2>2
<1>11. \A fd \in {0, 1, 2} : t[fd] = fds[Tool][fd]
  BY <1>2, <1>8, FdFacts
<1>12. c \in Sequencers /\ IsFile(tree.to[c]) => t[to_fd[c]] = Closed
  BY <1>1, <1>2, <1>tree
<1>13. \A m \in Nodes : /\ c \in WiredReaders(m) => t[ReadFd(m)] = Closed
                        /\ c \in WiredWriters(m) => t[WriteFd(m)] = Closed
  BY <1>1, <1>2, <1>4
<1>14. \A fd \in Fd : t[fd] \in {fds[Tool][fd], Closed}
  BY <1>2
<1>15. \A fd \in Fd, m \in Nodes :
         /\ fds[Tool][fd] = ReadEnd(m) /\ c \notin WiredReaders(m) => t[fd] = ReadEnd(m)
         /\ fds[Tool][fd] = WriteEnd(m) /\ c \notin WiredWriters(m) => t[fd] = WriteEnd(m)
  BY <1>9, <1>10
<1>16. c = current /\ state[c] # "none" /\ t \in [Fd -> Ends]
  BY <1>1, <1>2
<1> QED BY <1>3, <1>11, <1>12, <1>13, <1>14, <1>15, <1>16

\* The numbers of an operator's pipes are listed once its appender is forked.
LEMMA CloseCollects ==
    ASSUME Control, Memory, CloseUnused
    PROVE  /\ CollectedInv'
           /\ open_appender_fds' \in Seq(Fd)
           /\ Len(open_appender_fds) <= Len(open_appender_fds')
           /\ \A i \in 1..Len(open_appender_fds) : open_appender_fds'[i] = open_appender_fds[i]
<1>step. [Next]_vars
  BY DEF Next, Parent
<1>const. /\ tree' = tree /\ Nodes' = Nodes
          /\ \A k : IsSequenceOperand(k)' = IsSequenceOperand(k)
  BY <1>step, TreeConstant
<1>tree. /\ IsWired(tree) /\ MemoryTypes /\ CollectedInv
         /\ Nodes \subseteq Nat /\ \A k : Operands(k) \subseteq Nodes
         /\ \A k \in Nodes : IsSequenceOperand(k) => tree.father[k] \in Sequencers
         /\ Sequencers \subseteq Nodes
         /\ \A k \in Nodes : k \in Sequencers <=> tree.type[k] \in SequenceTypes
         /\ \A k \in Nodes : tree.type[k] = "Executable" => k \notin Sequencers
         /\ ForkInv /\ ControlInv
  BY NodeFacts, OperandPipe DEF Memory, Control, ControlTypes, IsSequence
<1>types. /\ desc \in [Nodes -> Fd \X Fd] /\ open_appender_fds \in Seq(Fd)
          /\ known \in [Nodes -> Nat]
  BY <1>tree DEF MemoryTypes
<1>0. PICK c \in Nodes : c = current /\ state[c] # "none"
  BY <1>tree, NodeFacts DEF CloseUnused, ControlInv, ForkInv, Workers
<1>same. /\ pc = "close" /\ pc' # "close" /\ UNCHANGED <<state, desc, known>>
         /\ \A m : WriteFd(m)' = WriteFd(m)
  BY DEF CloseUnused, AfterAsync, WriteFd
<1>past. \A k \in Nodes : Past(k)' <=> Past(k) \/ k = c
  BY <1>0, <1>same DEF Past
<1> DEFINE old == open_appender_fds
           new == open_appender_fds'
<1>1. PICK l \in Nat : l = Len(old)
  BY <1>types, LenProperties
<1>2. \A m : m \in Collected' <=> m \in Nodes /\ IsSequenceOperand(m) /\ Past(tree.father[m])'
  BY <1>const DEF Collected
<1>3. \A m : m \in Collected' <=>
               m \in Nodes /\ IsSequenceOperand(m)
               /\ (Past(tree.father[m]) \/ tree.father[m] = c)
  <2>1. \A k \in Nodes : IsSequenceOperand(k) =>
          (Past(tree.father[k])' <=> Past(tree.father[k]) \/ tree.father[k] = c)
    <3> SUFFICES ASSUME NEW k \in Nodes, IsSequenceOperand(k), NEW f, f = tree.father[k]
                 PROVE  Past(f)' <=> Past(f) \/ f = c
      BY <1>const
    <3> QED BY <1>tree, <1>past
  <2> QED BY <1>2, <2>1
<1>4. CASE CloseAfterExecutable
  <2>1. new = old /\ c \notin Sequencers
    BY <1>0, <1>4, <1>tree DEF CloseAfterExecutable
  <2>2. Collected' = Collected
    BY <1>3, <1>tree, <2>1 DEF Collected
  <2>3. /\ \A m \in Collected : \E i \in 1..Len(old) : old[i] = WriteFd(m)
        /\ Len(old) = Cardinality(Collected)
        /\ \A n \in Nodes : known[n] <= Len(old)
    BY <1>tree DEF CollectedInv
  <2>4. CollectedInv'
    BY <1>const, <1>same, <2>1, <2>2, <2>3 DEF CollectedInv
  <2> QED BY <1>1, <1>types, <2>1, <2>4
<1>5. CASE CloseAfterAppender
  <2> DEFINE O == Operands(c)
             d == [i \in 1..Cardinality(O) |-> WriteFd(Ascending(O)[i])]
  <2>1. new = old \o d /\ c \in Sequencers
    BY <1>0, <1>5, <1>tree DEF CloseAfterAppender
  <2>2. IsFiniteSet(Nodes) /\ O \in SUBSET Nodes
    <3>1. tree.size \in Nat
      BY NodeFacts, <1>tree DEF IsTree
    <3>2. 1 \in Int /\ tree.size \in Int
      BY <3>1
    <3> QED BY <1>tree, <3>2, FS_Interval DEF Nodes
  <2>3. /\ IsFiniteSet(O) /\ O \in SUBSET Nat
        /\ IsFiniteSet(Collected) /\ Collected \in SUBSET Nodes
    BY <1>tree, <2>2, FS_Subset DEF Collected
  <2>4. Collected' = Collected \cup O /\ Collected \cap O = {}
    <3>1. \A m : m \in O <=> m \in Nodes /\ tree.father[m] = c
      BY DEF Operands
    <3>2. \A m \in O : IsSequenceOperand(m)
      <4>1. 1 \notin O
        BY <1>tree, <3>1, NodeFacts, TreeFacts
      <4> QED BY <1>tree, <2>1, <3>1, <4>1 DEF IsSequenceOperand
    <3>3. ~Past(c)
      BY <1>0, <1>same DEF Past
    <3>4. \A m : m \in Collected <=>
                   m \in Nodes /\ IsSequenceOperand(m) /\ Past(tree.father[m])
      BY DEF Collected
    <3> HIDE DEF O
    <3> QED BY <1>3, <3>1, <3>2, <3>3, <3>4
  <2>5. PICK o \in Nat : o = Cardinality(O)
    BY <2>3, FS_CardinalityType
  <2>6. /\ Ascending(O) \in [1..o -> O]
        /\ \A m \in O : \E i \in 1..o : Ascending(O)[i] = m
    BY <2>3, <2>5, AscendingFacts
  <2> HIDE DEF O
  <2>7. d \in Seq(Fd) /\ Len(d) = o /\ \A i \in 1..o : d[i] = WriteFd(Ascending(O)[i])
    <3>1. \A m \in O : WriteFd(m) \in Fd
      BY <1>types, <2>2 DEF WriteFd
    <3>2. d \in [1..o -> Fd]
      BY <2>5, <2>6, <3>1
    <3> QED BY <2>5, <3>2, LenProperties
  <2> HIDE DEF d
  <2>8. /\ new \in Seq(Fd) /\ Len(new) = l + o
        /\ \A i \in 1..(l + o) : new[i] = IF i <= l THEN old[i] ELSE d[i - l]
    BY <1>1, <1>types, <2>1, <2>7, ConcatProperties
  <2>9. /\ \A i \in 1..l : i \in 1..(l + o) /\ new[i] = old[i]
        /\ \A i \in 1..o : i + l \in 1..(l + o) /\ new[i + l] = d[i]
    <3>1. ASSUME NEW i \in 1..l PROVE i \in 1..(l + o) /\ new[i] = old[i]
      BY <2>8
    <3>2. ASSUME NEW i \in 1..o PROVE i + l \in 1..(l + o) /\ new[i + l] = d[i]
      <4>1. i + l \in 1..(l + o) /\ ~(i + l <= l) /\ (i + l) - l = i
        OBVIOUS
      <4> QED BY <2>8, <4>1
    <3> QED BY <3>1, <3>2
  <2>10. \A m \in Collected \cup O : \E i \in 1..Len(new) : new[i] = WriteFd(m)
    <3>1. ASSUME NEW m \in Collected PROVE \E i \in 1..Len(new) : new[i] = WriteFd(m)
      <4>1. PICK i \in 1..l : old[i] = WriteFd(m)
        BY <1>1, <1>tree DEF CollectedInv
      <4> QED BY <2>8, <2>9, <4>1
    <3>2. ASSUME NEW m \in O PROVE \E i \in 1..Len(new) : new[i] = WriteFd(m)
      <4>1. PICK i \in 1..o : Ascending(O)[i] = m
        BY <2>6
      <4>2. d[i] = WriteFd(m)
        BY <2>7, <4>1
      <4> QED BY <2>8, <2>9, <4>2
    <3> QED BY <3>1, <3>2
  <2>11. Len(new) = Cardinality(Collected \cup O)
    <3>1. Cardinality(Collected \cup O)
            = Cardinality(Collected) + Cardinality(O) - Cardinality({})
      BY <2>3, <2>4, FS_Union
    <3>2. Cardinality({}) = 0
      BY FS_EmptySet
    <3>3. l = Cardinality(Collected)
      BY <1>1, <1>tree DEF CollectedInv
    <3> QED BY <1>1, <2>5, <2>8, <3>1, <3>2, <3>3
  <2>12. \A n \in Nodes : known[n] <= Len(new)
    <3>1. \A n \in Nodes : known[n] \in Nat /\ known[n] <= l
      BY <1>1, <1>types, <1>tree DEF CollectedInv
    <3>2. Len(new) \in Nat /\ l <= Len(new)
      BY <2>8
    <3> QED BY <3>1, <3>2
  <2>13. CollectedInv'
    BY <1>const, <1>same, <2>4, <2>10, <2>11, <2>12 DEF CollectedInv
  <2> QED BY <1>1, <2>8, <2>9, <2>13
<1> QED BY <1>4, <1>5 DEF CloseUnused

\* Once a process is forked the parent keeps nothing that only this process uses.
LEMMA MemoryClose ==
    ASSUME Control, Memory, CloseUnused
    PROVE  Memory'
<1>step. [Next]_vars
  BY DEF Next, Parent
<1>const. /\ tree' = tree /\ Nodes' = Nodes /\ Executables' = Executables
          /\ Sequencers' = Sequencers /\ Processes' = Processes /\ Workers' = Workers
          /\ \A k : Operands(k)' = Operands(k)
          /\ \A k : IsSequenceOperand(k)' = IsSequenceOperand(k)
          /\ \A k : WiredWriters(k)' = WiredWriters(k)
          /\ \A k : WiredReaders(k)' = WiredReaders(k)
          /\ \A k : PipesFor(k)' = PipesFor(k)
  BY <1>step, TreeConstant
<1>ends. Ends' = Ends
  BY <1>const DEF Ends
<1>tree. /\ IsWired(tree) /\ MemoryTypes /\ OpenedInv /\ TableInv
         /\ HeldInv /\ ToFdInv /\ CollectedInv /\ ChildInv
         /\ ExecutablesHoldNoAppenderEnds
         /\ Executables \subseteq Nodes /\ Workers \subseteq Nodes
         /\ Tool \in Processes /\ Tool \notin Nodes /\ Nodes \subseteq Processes
         /\ \A k : WiredWriters(k) \subseteq Nodes /\ WiredReaders(k) \subseteq Nodes
  BY NodeFacts, WiredAreWorkers
     DEF Memory, Control, ControlTypes, Tool, NoNode, Processes, Workers
<1>types. /\ fds \in [Processes -> [Fd -> Ends]] /\ desc \in [Nodes -> Fd \X Fd]
          /\ open_appender_fds \in Seq(Fd) /\ known \in [Nodes -> Nat]
  BY <1>tree DEF MemoryTypes
<1>same. /\ pc = "close" /\ pc' \in {"async", "wait"}
         /\ UNCHANGED <<state, status, desc, to_fd, known>>
         /\ \A m : IsOpened(m)' <=> IsOpened(m)
         /\ \A m : ReadFd(m)' = ReadFd(m) /\ WriteFd(m)' = WriteFd(m)
  BY DEF CloseUnused, AfterAsync, IsOpened, ReadFd, WriteFd
<1>1. PICK c \in Workers, t \in [Fd -> Ends] :
             /\ c = current /\ state[c] # "none"
             /\ fds' = [fds EXCEPT ![Tool] = t]
             /\ \A fd \in {0, 1, 2} : t[fd] = fds[Tool][fd]
             /\ \A fd \in Fd : t[fd] \in {fds[Tool][fd], Closed}
             /\ \A m \in Nodes :
                  /\ c \in WiredReaders(m) => t[ReadFd(m)] = Closed
                  /\ c \in WiredWriters(m) => t[WriteFd(m)] = Closed
             /\ c \in Sequencers /\ IsFile(tree.to[c]) => t[to_fd[c]] = Closed
             /\ \A fd \in Fd, m \in Nodes :
                  /\ fds[Tool][fd] = ReadEnd(m) /\ c \notin WiredReaders(m) =>
                       t[fd] = ReadEnd(m)
                  /\ fds[Tool][fd] = WriteEnd(m) /\ c \notin WiredWriters(m) =>
                       t[fd] = WriteEnd(m)
  BY ClosedEnds
<1>2. /\ fds' \in [Processes -> [Fd -> Ends]] /\ fds'[Tool] = t
      /\ \A k \in Nodes : fds'[k] = fds[k]
  BY <1>1, <1>tree, <1>types
<1>3. /\ CollectedInv' /\ open_appender_fds' \in Seq(Fd)
      /\ Len(open_appender_fds) <= Len(open_appender_fds')
      /\ \A i \in 1..Len(open_appender_fds) : open_appender_fds'[i] = open_appender_fds[i]
  BY CloseCollects
<1>past. \A k \in Nodes : Past(k)' <=> Past(k) \/ k = c
  BY <1>1, <1>same DEF Past
<1>4. MemoryTypes'
  BY <1>const, <1>ends, <1>tree, <1>same, <1>2, <1>3 DEF MemoryTypes
<1>5. OpenedInv'
  <2>1. \A m \in Nodes : IsOpened(m) /\ IsSequenceOperand(m) =>
          status'[tree.father[m]] # "none"
    BY <1>same, <1>tree DEF OpenedInv, Begun
  <2> QED BY <1>const, <1>same, <1>tree, <2>1 DEF OpenedInv, Begun
<1>6. OpeningInv'
  BY <1>same DEF OpeningInv
<1>7. TableInv'
  <2>1. t[0] = Input(0) /\ t[1] = Output(0) /\ t[2] = Output(0)
    BY <1>1, <1>same, <1>tree DEF TableInv
  <2>2. \A fd \in Fd, m \in Nodes :
          /\ t[fd] = ReadEnd(m) => IsOpened(m) /\ fd = ReadFd(m)
          /\ t[fd] = WriteEnd(m) => IsOpened(m) /\ fd = WriteFd(m)
    <3> SUFFICES ASSUME NEW fd \in Fd, NEW m \in Nodes
                 PROVE  /\ t[fd] = ReadEnd(m) => IsOpened(m) /\ fd = ReadFd(m)
                        /\ t[fd] = WriteEnd(m) => IsOpened(m) /\ fd = WriteFd(m)
      OBVIOUS
    <3>1. ReadEnd(m) # Closed /\ WriteEnd(m) # Closed
      BY EndsFacts
    <3>2. /\ t[fd] = ReadEnd(m) => fds[Tool][fd] = ReadEnd(m)
          /\ t[fd] = WriteEnd(m) => fds[Tool][fd] = WriteEnd(m)
      BY <1>1, <3>1
    <3> QED BY <1>same, <1>tree, <3>2 DEF TableInv
  <2>3. \A fd \in 3..MaxFd :
          t[fd] = Closed \/ \E m \in Nodes : t[fd] \in {ReadEnd(m), WriteEnd(m)}
    <3> SUFFICES ASSUME NEW fd \in 3..MaxFd, t[fd] # Closed
                 PROVE  \E m \in Nodes : t[fd] \in {ReadEnd(m), WriteEnd(m)}
      OBVIOUS
    <3>1. t[fd] = fds[Tool][fd]
      BY <1>1, FdFacts
    <3>2. ~(c \in Sequencers /\ IsFile(tree.to[c]) /\ fd = to_fd[c])
      BY <1>1
    <3> QED BY <1>1, <1>same, <1>tree, <3>1, <3>2 DEF TableInv
  <2> QED BY <1>const, <1>same, <1>2, <2>1, <2>2, <2>3 DEF TableInv
<1>8. HeldInv'
  <2>1. ASSUME NEW m \in Nodes, IsOpened(m)
        PROVE  /\ t[WriteFd(m)] = WriteEnd(m) <=>
                    \A n \in WiredWriters(m) : ~(Past(n) \/ n = c)
               /\ t[ReadFd(m)] = ReadEnd(m) <=>
                    \A n \in WiredReaders(m) : ~(Past(n) \/ n = c)
    <3>1. ReadFd(m) \in Fd /\ WriteFd(m) \in Fd
      BY <1>types DEF ReadFd, WriteFd
    <3>2. ReadEnd(m) # Closed /\ WriteEnd(m) # Closed
      BY EndsFacts
    <3>3. /\ fds[Tool][WriteFd(m)] = WriteEnd(m) <=> \A n \in WiredWriters(m) : ~Past(n)
          /\ fds[Tool][ReadFd(m)] = ReadEnd(m) <=> \A n \in WiredReaders(m) : ~Past(n)
      BY <1>same, <1>tree, <2>1 DEF HeldInv
    <3>4. t[WriteFd(m)] = WriteEnd(m) <=>
            fds[Tool][WriteFd(m)] = WriteEnd(m) /\ c \notin WiredWriters(m)
      BY <1>1, <3>1, <3>2
    <3>5. t[ReadFd(m)] = ReadEnd(m) <=>
            fds[Tool][ReadFd(m)] = ReadEnd(m) /\ c \notin WiredReaders(m)
      BY <1>1, <3>1, <3>2
    <3> QED BY <3>3, <3>4, <3>5
  <2>2. \A m \in Nodes : IsOpened(m) =>
          /\ t[WriteFd(m)] = WriteEnd(m) <=> \A n \in WiredWriters(m) : ~Past(n)'
          /\ t[ReadFd(m)] = ReadEnd(m) <=> \A n \in WiredReaders(m) : ~Past(n)'
    BY <1>tree, <1>past, <2>1
  <2> QED BY <1>const, <1>same, <1>2, <2>2 DEF HeldInv
<1>9. ToFdInv'
  BY <1>const, <1>same, <1>tree DEF ToFdInv
<1>10. ChildInv'
  <2>1. \A n \in Nodes : \A i : i \in 1..known[n] => i \in 1..Len(open_appender_fds)
    <3>1. PICK l \in Nat : l = Len(open_appender_fds)
      BY <1>types, LenProperties
    <3>2. \A n \in Nodes : known[n] \in Nat /\ known[n] <= l
      BY <1>tree, <1>types, <3>1 DEF CollectedInv
    <3> QED BY <3>1, <3>2
  <2>2. \A n \in Nodes : \A i \in 1..known[n] : open_appender_fds'[i] = open_appender_fds[i]
    BY <1>3, <2>1
  <2> QED BY <1>const, <1>same, <1>tree, <1>2, <2>2 DEF ChildInv
<1>11. ExecutablesHoldNoAppenderEnds'
  BY <1>const, <1>same, <1>tree, <1>2 DEF ExecutablesHoldNoAppenderEnds, Invoked
<1> QED BY <1>3, <1>4, <1>5, <1>6, <1>7, <1>8, <1>9, <1>10, <1>11 DEF Memory

\* Every step keeps the invariant of the descriptors.
LEMMA MemoryNext == EnoughFds /\ Control /\ Memory /\ [Next]_vars => Memory'
<1> SUFFICES ASSUME EnoughFds, Control, Memory, [Next]_vars PROVE Memory'
  OBVIOUS
<1>types. /\ fds \in [Processes -> [Fd -> Ends]] /\ Tool \in Processes
          /\ state \in [Nodes -> ProcessStates] /\ Executables \subseteq Nodes
          /\ ControlInv
  BY NodeFacts DEF Memory, MemoryTypes, Control, ControlTypes, Processes
<1>quiet. ASSUME UNCHANGED <<memoryVars, current, opening, fds>>,
                 pc' \notin {"open", "close", "exited"}, pc \notin {"open", "close", "exited"},
                 \A k \in Nodes : Begun(k) => Begun(k)',
                 \A k \in Nodes : state'[k] = state[k]
                                  \/ (state[k] = "zombie" /\ state'[k] = "reaped")
          PROVE  Memory'
  <2>1. \A k \in Nodes : state'[k] # "none" <=> state[k] # "none"
    BY <1>quiet
  <2>2. \A k \in Executables : state'[k] = "forked" => state[k] = "forked" /\ fds'[k] = fds[k]
    BY <1>quiet, <1>types
  <2>3. \A k \in Executables : state'[k] \in {"running", "writing", "written"} =>
          \/ Invoked(k) /\ fds'[k] = fds[k]
          \/ NoAppenderEnds(fds'[k])
    BY <1>quiet, <1>types DEF Invoked
  <2> QED BY <1>quiet, <1>types, <2>1, <2>2, <2>3, MemoryQuiet
<1>1. CASE ExecuteAsync
  BY <1>1, MemoryStart
<1>2. CASE OpenPipe
  BY <1>2, MemoryOpen
<1>3. CASE Fork
  BY <1>3, MemoryFork
<1>4. CASE CloseUnused
  BY <1>4, MemoryClose
<1>5. ASSUME NEW n \in Nodes, Reap(n) PROVE Memory'
  <2>1. /\ UNCHANGED <<memoryVars, current, opening, fds, status>>
        /\ pc = "wait" /\ pc' \in {"wait", "handle"}
        /\ state[n] = "zombie" /\ state' = [state EXCEPT ![n] = "reaped"]
    BY <1>5 DEF Reap
  <2>2. \A k \in Nodes : state'[k] = state[k] \/ (state[k] = "zombie" /\ state'[k] = "reaped")
    BY <1>types, <2>1
  <2>3. \A k \in Nodes : Begun(k) => Begun(k)'
    BY <2>1 DEF Begun
  <2> QED BY <1>quiet, <2>1, <2>2, <2>3
<1>6. CASE HandleCompleted
  <2>1. PICK operator, completed :
          /\ pc = "handle"
          /\ status[completed] \in {"ok", "failed"}
          /\ UNCHANGED <<current, opening, state, fds, memoryVars>>
          /\ \/ ExecuteNext(operator, completed)
             \/ EndOperator(operator, status[completed])
             \/ pc' = "wait" /\ UNCHANGED <<todo, frame, status>>
    BY <1>6, HandleEffect
  <2>2. pc' \in {"async", "wait", "handle"}
    BY <2>1 DEF ExecuteNext, EndOperator
  <2>3. \/ status' = status
        \/ status' = [status EXCEPT ![operator] = status[completed]]
    BY <2>1 DEF ExecuteNext, EndOperator
  <2>4. \A k \in Nodes : Begun(k) => Begun(k)'
    <3>1. status \in [Nodes -> {"none", "started", "ok", "failed"}]
      BY DEF Control, ControlTypes
    <3> QED BY <2>1, <2>3, <3>1 DEF Begun
  <2> QED BY <1>quiet, <2>1, <2>2, <2>4
<1>7. CASE Return
  <2>1. /\ UNCHANGED <<memoryVars, current, opening, fds, status, state>>
        /\ pc = "wait" /\ pc' = "returned"
    BY <1>7 DEF Return
  <2>2. \A k \in Nodes : Begun(k) => Begun(k)'
    BY <2>1 DEF Begun
  <2> QED BY <1>quiet, <2>1, <2>2
<1>8. CASE ToolExits
  <2>1. /\ UNCHANGED <<memoryVars, current, opening, status, state>>
        /\ pc = "returned" /\ pc' = "exited"
        /\ fds' = [fds EXCEPT ![Tool] = EmptyTable]
    BY <1>8 DEF ToolExits
  <2>2. EmptyTable \in [Fd -> Ends]
    BY EndsFacts DEF EmptyTable
  <2>3. /\ fds' \in [Processes -> [Fd -> Ends]]
        /\ \A k \in Nodes : fds'[k] = fds[k]
    <3>1. \A k \in Nodes : k # Tool
      BY NodeFacts DEF Control, ControlTypes, Tool, NoNode
    <3> QED BY <1>types, <2>1, <2>2, <3>1 DEF Processes
  <2>4. \A k \in Nodes : Begun(k) => Begun(k)'
    BY <2>1 DEF Begun
  <2>5. \A k \in Executables : state'[k] = "forked" => state[k] = "forked" /\ fds'[k] = fds[k]
    BY <1>types, <2>1, <2>3
  <2>6. \A k \in Executables : state'[k] \in {"running", "writing", "written"} =>
          \/ Invoked(k) /\ fds'[k] = fds[k]
          \/ NoAppenderEnds(fds'[k])
    BY <1>types, <2>1, <2>3 DEF Invoked
  <2> QED BY <2>1, <2>3, <2>4, <2>5, <2>6, MemoryQuiet
<1>9. ASSUME NEW n \in Nodes, Process(n) PROVE Memory'
  BY <1>9, MemoryProcess
<1>10. CASE UNCHANGED vars
  <2>1. UNCHANGED <<memoryVars, current, opening, fds, status, state, pc>>
    BY <1>10 DEF vars, parentVars, memoryVars
  <2>2. \A k \in Nodes : Begun(k) => Begun(k)'
    BY <2>1 DEF Begun
  <2>3. \A k \in Executables : state'[k] \in {"running", "writing", "written"} =>
          \/ Invoked(k) /\ fds'[k] = fds[k]
          \/ NoAppenderEnds(fds'[k])
    BY <1>types, <2>1 DEF Invoked
  <2> QED BY <1>types, <2>1, <2>2, <2>3, MemoryQuiet
<1> QED BY <1>1, <1>2, <1>3, <1>4, <1>5, <1>6, <1>7, <1>8, <1>9, <1>10 DEF Next, Parent

-----------------------------------------------------------------------------
(* What flows through the pipes.                                           *)

DataTypes ==
    /\ source \in [Nodes -> Nodes \cup {NoNode}]
    /\ held \in [Nodes -> Nodes \cup {NoNode}]
    /\ buffer \in [Nodes -> Seq(Nodes)]
    /\ file \in [Processes -> Seq(Nodes)]
    /\ wrote \subseteq Executables

\* Only what was written is read, and only what was read is copied.
LEMMA DataTypesNext == Control /\ Memory /\ DataTypes /\ [Next]_vars => DataTypes'
<1> SUFFICES ASSUME Control, Memory, DataTypes, [Next]_vars PROVE DataTypes'
  OBVIOUS
<1>const. /\ tree' = tree /\ Nodes' = Nodes /\ Executables' = Executables
          /\ Processes' = Processes
  BY TreeConstant
<1>types. /\ fds \in [Processes -> [Fd -> Ends]] /\ desc \in [Nodes -> Fd \X Fd]
          /\ to_fd \in [Nodes -> Fd] /\ 0 \in Fd /\ 1 \in Fd
          /\ Nodes \subseteq Processes
          /\ IsWired(tree) /\ ForkInv /\ Executables \cap Sequencers = {}
          /\ Executables \subseteq Nodes
  BY NodeFacts, FdFacts DEF Memory, MemoryTypes, Control, ControlTypes, Processes
<1>data. /\ source \in [Nodes -> Nodes \cup {NoNode}]
         /\ held \in [Nodes -> Nodes \cup {NoNode}]
         /\ buffer \in [Nodes -> Seq(Nodes)]
         /\ file \in [Processes -> Seq(Nodes)]
         /\ wrote \subseteq Executables
  BY DEF DataTypes
<1>quiet. ASSUME UNCHANGED dataVars PROVE DataTypes'
  BY <1>quiet, <1>const DEF DataTypes, dataVars
<1>read. ASSUME NEW n \in Nodes, NEW fd \in Fd, NEW end, end = fds[n][fd], CanRead(n, end)
         PROVE  /\ end[2] \in Nodes /\ Head(buffer[end[2]]) \in Nodes
                /\ [buffer EXCEPT ![end[2]] = Tail(buffer[end[2]])] \in [Nodes -> Seq(Nodes)]
  <2>1. end \in Ends /\ end[1] = "read" /\ buffer[end[2]] # <<>>
    BY <1>read, <1>types DEF CanRead
  <2>2. PICK m \in Nodes : m = end[2]
    BY <2>1, EndsFacts
  <2>3. buffer[m] \in Seq(Nodes) /\ buffer[m] # <<>>
    BY <1>data, <2>1, <2>2
  <2>4. Head(buffer[m]) \in Nodes /\ Tail(buffer[m]) \in Seq(Nodes)
    BY SMTT(60), <2>3, HeadTailProperties
  <2> QED BY <1>data, <2>2, <2>4
<1>put. ASSUME NEW n \in Nodes, NEW fd \in Fd, NEW chunk \in Nodes, Put(fds[n][fd], chunk)
        PROVE  buffer' \in [Nodes -> Seq(Nodes)] /\ file' \in [Processes -> Seq(Nodes)]
  <2>1. PICK end \in Ends : end = fds[n][fd]
    BY <1>types
  <2>2. CASE end[1] = "write" /\ buffer' = [buffer EXCEPT ![end[2]] = Append(@, chunk)]
             /\ UNCHANGED file
    <3>1. PICK m \in Nodes : m = end[2]
      BY <2>2, EndsFacts
    <3>2. Append(buffer[m], chunk) \in Seq(Nodes)
      BY <1>data, AppendProperties
    <3> QED BY <1>data, <2>2, <3>1, <3>2
  <2>3. CASE end[1] = "output" /\ file' = [file EXCEPT ![end[2]] = Append(@, chunk)]
             /\ UNCHANGED buffer
    <3>1. PICK m \in Processes : m = end[2]
      BY <2>3, EndsFacts
    <3>2. Append(file[m], chunk) \in Seq(Nodes)
      BY <1>data, AppendProperties
    <3> QED BY <1>data, <2>3, <3>1, <3>2
  <2> QED BY <1>put, <2>1, <2>2, <2>3 DEF Put
<1>1. CASE Parent
  BY <1>1, <1>quiet
     DEF Parent, ExecuteAsync, OpenPipe, Fork, CloseUnused, Reap, HandleCompleted, Return,
         ToolExits
<1>2. ASSUME NEW n \in Nodes,
             \/ ChildInvokes(n) \/ ChildFails(n) \/ WriteFails(n) \/ ExecutableExits(n)
             \/ AppenderFails(n) \/ AppenderExits(n)
      PROVE  DataTypes'
  BY <1>2, <1>quiet
     DEF ChildInvokes, ChildFails, WriteFails, ExecutableExits, AppenderFails, AppenderExits
<1>3. ASSUME NEW n \in Nodes, ExecutableReads(n) PROVE DataTypes'
  <2>1. UNCHANGED <<source, held, file, wrote>>
    BY <1>3 DEF ExecutableReads
  <2>2. buffer' \in [Nodes -> Seq(Nodes)]
    <3>1. PICK end : end = fds[n][0]
      OBVIOUS
    <3>2. \/ CanRead(n, end) /\ buffer' = [buffer EXCEPT ![end[2]] = Tail(buffer[end[2]])]
          \/ buffer' = buffer
      BY <1>3, <3>1 DEF ExecutableReads
    <3>3. CanRead(n, end) =>
            [buffer EXCEPT ![end[2]] = Tail(buffer[end[2]])] \in [Nodes -> Seq(Nodes)]
      <4>1. 0 \in Fd
        BY <1>types
      <4> QED BY <1>read, <3>1, <4>1
    <3> QED BY <1>data, <3>2, <3>3
  <2> QED BY <1>const, <1>data, <2>1, <2>2 DEF DataTypes
<1>4. ASSUME NEW n \in Nodes, ExecutableWrites(n) PROVE DataTypes'
  <2>1. n \in Executables
    BY <1>4, <1>types DEF ExecutableWrites, ForkInv, Workers
  <2>2. UNCHANGED <<source, held>> /\ Put(fds[n][1], n) /\ wrote' = wrote \cup {n}
    BY <1>4 DEF ExecutableWrites
  <2>3. buffer' \in [Nodes -> Seq(Nodes)] /\ file' \in [Processes -> Seq(Nodes)]
    BY <1>types, <1>put, <2>2
  <2> QED BY <1>const, <1>data, <2>1, <2>2, <2>3 DEF DataTypes
<1>5. ASSUME NEW n \in Nodes, AppenderStarts(n) PROVE DataTypes'
  <2>1. /\ tree.type[n] \in SequenceTypes /\ UNCHANGED <<held, buffer, file, wrote>>
        /\ source' = [source EXCEPT ![n] = First(Operands(n))]
    BY <1>5 DEF AppenderStarts
  <2>2. First(Operands(n)) \in Nodes
    <3>1. OperandsIn(tree, n) # {}
      BY <1>types, <2>1 DEF IsWired, Nodes, SequenceTypes
    <3>2. Operands(n) # {} /\ Operands(n) \subseteq Nodes
      BY <3>1, <1>types, NodeFacts DEF OperandsIn, Operands, Nodes
    <3> QED BY <1>types, <3>2, NodeFacts, FirstNode
  <2> QED BY <1>const, <1>data, <2>1, <2>2 DEF DataTypes
<1>6. ASSUME NEW n \in Nodes, AppenderReads(n) PROVE DataTypes'
  <2>1. source[n] \in Nodes /\ UNCHANGED <<source, file, wrote>>
    BY <1>6, <1>data DEF AppenderReads
  <2>2. PICK fd, end : fd \in Fd /\ fd = ReadFd(source[n]) /\ end = fds[n][fd]
    BY <1>types, <2>1 DEF ReadFd
  <2>3. /\ CanRead(n, end)
        /\ held' = [held EXCEPT ![n] = Head(buffer[end[2]])]
        /\ buffer' = [buffer EXCEPT ![end[2]] = Tail(buffer[end[2]])]
    BY <1>6, <2>2 DEF AppenderReads
  <2> QED BY <1>const, <1>data, <1>read, <2>1, <2>2, <2>3 DEF DataTypes
<1>7. ASSUME NEW n \in Nodes, AppenderWrites(n) PROVE DataTypes'
  <2>1. /\ held[n] \in Nodes /\ Put(fds[n][to_fd[n]], held[n]) /\ UNCHANGED <<source, wrote>>
        /\ held' = [held EXCEPT ![n] = NoNode]
    BY <1>7, <1>data DEF AppenderWrites
  <2>2. to_fd[n] \in Fd
    BY <1>types
  <2>3. buffer' \in [Nodes -> Seq(Nodes)] /\ file' \in [Processes -> Seq(Nodes)]
    BY <1>put, <2>1, <2>2
  <2> QED BY <1>const, <1>data, <2>1, <2>3 DEF DataTypes
<1>8. ASSUME NEW n \in Nodes, AppenderEndsSource(n) PROVE DataTypes'
  <2>1. /\ UNCHANGED <<held, buffer, file, wrote>>
        /\ source' = [source EXCEPT ![n] = NextSource(n)]
    BY <1>8 DEF AppenderEndsSource
  <2>2. NextSource(n) \in Nodes \cup {NoNode}
    <3>1. LaterOperands(n, source[n]) \subseteq Nodes
      BY <1>types, NodeFacts
    <3> QED BY <1>types, <3>1, NodeFacts, FirstNode DEF NextSource
  <2> QED BY <1>const, <1>data, <2>1, <2>2 DEF DataTypes
<1>9. CASE UNCHANGED vars
  BY <1>9, <1>quiet DEF vars, dataVars
<1> QED BY <1>1, <1>2, <1>3, <1>4, <1>5, <1>6, <1>7, <1>8, <1>9
        DEF Next, Process, Child, Executable, Appender

\* The invariants of the control, of the descriptors and of the data hold together.
LEMMA Invariants == EnoughFds => (Spec => [](Control /\ Memory /\ DataTypes))
<1> SUFFICES ASSUME EnoughFds PROVE Spec => [](Control /\ Memory /\ DataTypes)
  OBVIOUS
<1>1. Init => Control /\ Memory /\ DataTypes
  <2> SUFFICES ASSUME Init PROVE DataTypes
    BY ControlInit, MemoryInit
  <2>1. <<>> \in Seq(Nodes)
    BY EmptySeq
  <2> QED BY <2>1 DEF Init, DataTypes
<1>2. Control /\ Memory /\ DataTypes /\ [Next]_vars => (Control /\ Memory /\ DataTypes)'
  <2> SUFFICES ASSUME Control, Memory, DataTypes, [Next]_vars
               PROVE  Control' /\ Memory' /\ DataTypes'
    OBVIOUS
  <2> QED BY ControlNext, MemoryNext, DataTypesNext
<1> QED BY <1>1, <1>2, PTL DEF Spec

-----------------------------------------------------------------------------
(* Theorems.                                                               *)

\* The parent, its processes, descriptors and pipes stay in the states they may be in:
\* pipe(), open() and dup2() get the numbers they need.
THEOREM DescriptorTypes == EnoughFds => (Spec => []TypeOK)
<1> SUFFICES ASSUME EnoughFds PROVE Spec => []TypeOK
  OBVIOUS
<1>1. Control /\ Memory /\ DataTypes => TypeOK
  BY DEF TypeOK, Control, ControlTypes, Memory, MemoryTypes, DataTypes
<1> QED BY <1>1, Invariants, PTL

\* execute.c:75-78: close_appender_fds_except() closes every end by which an executable
\* could keep an appender from seeing the end of an operand's output.
THEOREM NoLeakToExecutables == EnoughFds => (Spec => []ExecutablesHoldNoAppenderEnds)
<1> SUFFICES ASSUME EnoughFds PROVE Spec => []ExecutablesHoldNoAppenderEnds
  OBVIOUS
<1>1. Memory => ExecutablesHoldNoAppenderEnds
  BY DEF Memory
<1> QED BY <1>1, Invariants, PTL

\* execute_executable_async(), init_appender(): whenever the parent waits it holds an
\* end of an open pipe if and only if the process that is wired to it is still to come.
THEOREM ParentHoldsUnused == EnoughFds => (Spec => []ToolHoldsUnusedEnds)
<1> SUFFICES ASSUME EnoughFds PROVE Spec => []ToolHoldsUnusedEnds
  OBVIOUS
<1>1. ASSUME Control, Memory PROVE ToolHoldsUnusedEnds
  <2> SUFFICES ASSUME pc = "wait", NEW m \in Nodes, desc[m] # NoPipe
               PROVE  /\ Holds(Tool, WriteEnd(m)) <=> ~Started(WiredWriters(m))
                      /\ Holds(Tool, ReadEnd(m)) <=> ~Started(WiredReaders(m))
    BY DEF ToolHoldsUnusedEnds
  <2>1. /\ HeldInv /\ TableInv /\ IsOpened(m)
        /\ ReadFd(m) \in Fd /\ WriteFd(m) \in Fd
    BY <1>1 DEF Memory, MemoryTypes, IsOpened, ReadFd, WriteFd
  <2>2. /\ Holds(Tool, WriteEnd(m)) <=> fds[Tool][WriteFd(m)] = WriteEnd(m)
        /\ Holds(Tool, ReadEnd(m)) <=> fds[Tool][ReadFd(m)] = ReadEnd(m)
    BY <2>1 DEF Holds, TableInv
  <2>3. \A n : Past(n) <=> state[n] # "none"
    BY DEF Past
  <2> QED BY <2>1, <2>2, <2>3 DEF HeldInv, Started
<1> QED BY <1>1, Invariants, PTL

\* count_max_appender_file_descriptors(): whatever is skipped, the descriptors collected
\* for close_appender_fds_except() fit the array.
THEOREM ListNeverOverflows == EnoughFds => (Spec => []CollectorFits)
<1> SUFFICES ASSUME EnoughFds PROVE Spec => []CollectorFits
  OBVIOUS
<1>1. ASSUME Control, Memory PROVE CollectorFits
  <2> DEFINE all == {m \in Nodes : IsSequenceOperand(m)}
  <2>1. IsTree(tree) /\ Sequencers \subseteq Nodes /\ tree.size \in Nat
    BY <1>1, NodeFacts DEF Control, ControlTypes, IsTree
  <2>2. IsFiniteSet(Nodes)
    <3>1. 1 \in Int /\ tree.size \in Int
      BY <2>1
    <3> QED BY <3>1, FS_Interval DEF Nodes
  <2>3. /\ IsFiniteSet(all) /\ IsFiniteSet(Sequencers) /\ Collected \in SUBSET all
    BY <2>1, <2>2, FS_Subset DEF Collected
  <2> HIDE DEF all
  <2>4. /\ Cardinality(all) \in Nat /\ Cardinality(Sequencers) \in Nat
        /\ Cardinality(Collected) \in Nat /\ Cardinality(Collected) <= Cardinality(all)
    BY <2>3, FS_Subset, FS_CardinalityType
  <2>5. Len(open_appender_fds) = Cardinality(Collected)
    BY <1>1 DEF Memory, CollectedInv
  <2>6. MaxAppenderFds = 2 * Cardinality(all) + 2 * Cardinality(Sequencers)
    BY DEF MaxAppenderFds, all
  <2> QED BY <2>4, <2>5, <2>6 DEF CollectorFits
<1> QED BY <1>1, Invariants, PTL
=============================================================================
