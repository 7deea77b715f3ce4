--------------------------- MODULE ExecuteProofs ---------------------------
(***************************************************************************)
(* Theorems about Execute, for every tree, every finite set of pids and    *)
(* every set of exit statuses; and that Execute implements Evaluation:     *)
(* execute() starts the executables the operators of the command ask for,  *)
(* and no other, and when it returns none is left to start, forks that     *)
(* fail included.                                                          *)
(***************************************************************************)
EXTENDS Execute, TreeProofs

\* Where the parent is determines what is pending.
ControlInv ==
    /\ pc = "async" => todo # {}
    /\ pc \notin {"async", "record", "exited", "dead"} => todo = {}
    /\ pc = "record" => forked \in Executables \X Pids
    /\ pc \notin {"record", "dead"} => forked = <<NoNode, NoPid>>
    /\ pc = "handle" => frame \in Nodes \X Nodes
    /\ pc \in {"handle", "count"} => handling
    /\ pc \in {"wait", "returned"} => ~handling
    /\ handling => to_wait > 0
    /\ pc = "returned" => to_wait = 0

\* What the proofs assume of the environment: no pid field names a process other
\* than the one the node was given.  A fork() may fail.
NoStray == ~ReusePids /\ HeapValues \cap Pids = {}

\* How far to_wait is above the number of executables still to be waited for,
\* which ToWaitCounts says is 0: a fork() that fails adds one for good.
Excess == to_wait - (Cardinality(ExecutableChildren) + (IF handling THEN 1 ELSE 0))
Counted == Excess' = Excess \/ (ForkMayFail /\ Excess' = Excess + 1)

Started(n) == result[n] # NoResult
Ended(n) == result[n].exit_code \in Statuses
IsSequence(n) == tree.type[n] \in SequenceTypes

\* The processes that were forked for executables, reaped ones included.
Forked == {p \in Pids : proc[p].state # "none" /\ proc[p].node \in Executables}

\* The pid field of n is no longer what malloc() left there.
Recorded(n) == Started(n) /\ ~(pc = "record" /\ forked[1] = n)

\* The pid fields and the processes agree.
PidInv ==
    /\ \A n \in Executables :
         Recorded(n) => pid[n] \in Forked /\ proc[pid[n]].node = n
    /\ \A p \in Forked : \/ pid[proc[p].node] = p
                         \/ pc = "record" /\ forked = <<proc[p].node, p>>
    /\ pc = "record" => forked[2] \in Forked /\ proc[forked[2]].node = forked[1]

\* Each process belongs to a started node, and no other process does.
ForkedInv ==
    /\ \A p \in Pids : proc[p].state \in {"child", "failed"} => p \in Forked
    /\ \A p \in Forked : Started(proc[p].node)
    /\ \A p, q \in Forked : proc[p].node = proc[q].node => p = q

\* The parent hears of a child before it waits for it, and the node of a child
\* not waited for has no status.
ChildInv ==
    /\ pc # "dead"
    /\ sigusr1 # NoPid => sigusr1 \in ExecutableChildren
    /\ \A p \in ExecutableChildren : ~Ended(proc[p].node)

ProcessInv == PidInv /\ ForkedInv /\ ChildInv

\* How far the evaluation of the tree has come.
TodoInv ==   \* a node is started at most once, while the operator above it runs
    \A n \in todo :
      /\ ~Started(n)
      /\ tree.father[n] # NoNode /\ IsSequence(tree.father[n]) => ~Ended(tree.father[n])

OrderInv ==   \* after its father and after the earlier operands of a sequence
    \A n \in Nodes :
      (n \in todo \/ Started(n)) /\ tree.father[n] # NoNode =>
        /\ Started(tree.father[n])
        /\ IsSequence(tree.father[n]) =>
             \A k \in EarlierOperands(tree.father[n], n) : Ended(k)

SequenceInv ==   \* a sequence ends after every operand that was started
    \A s \in Nodes : Ended(s) /\ IsSequence(s) =>
      \A m \in Operands(s) : Started(m) => Ended(m)

PipeInv ==   \* and a pipe after its last operand
    \A s \in Nodes : Ended(s) /\ tree.type[s] = "Pipe" =>
      \A m \in Operands(s) : LaterOperands(s, m) = {} => Ended(m)

EvaluationInv == TodoInv /\ OrderInv /\ SequenceInv /\ PipeInv

\* The operator about to hear of a completed operand waits for it: it has not
\* ended, and no operand after the completed one was started.
HandleInv ==
    pc = "handle" =>
      LET operator == frame[1]
          completed == frame[2]
      IN
      /\ operator = tree.father[completed]
      /\ Started(operator)
      /\ Ended(completed)
      /\ IsSequence(operator) =>
           /\ ~Ended(operator)
           /\ \A m \in LaterOperands(operator, completed) : ~Started(m)
      /\ tree.type[operator] = "Pipe" /\ LaterOperands(operator, completed) = {} =>
           ~Ended(operator)

-----------------------------------------------------------------------------
(* Type correctness, whatever fork(), malloc() and the kernel's choice of  *)
(* pids do.                                                                *)

TypeInv == TypeOK /\ ControlInv

LEMMA StatusFacts ==
    /\ Statuses \subseteq Nat
    /\ Exit(0) \in Statuses /\ Exit(1) \in Statuses /\ Exit(255) \in Statuses
    /\ 0 \in Statuses
    /\ NoResult \in Results /\ NewResult \in Results
    /\ NewResult # NoResult
    /\ \A r \in Results : r.exit_code \in Statuses => r # NoResult
BY StatusAssumption DEF Statuses, Exit, NoResult, NewResult, Results, Uninitialised

\* Writing one field of node->result keeps the type of the results.
LEMMA ResultUpdate ==
    ASSUME NEW r \in [Nodes -> Results], NEW n
    PROVE  /\ \A s \in Statuses \cup {Uninitialised, -2} :
                [r EXCEPT ![n].exit_code = s] \in [Nodes -> Results]
           /\ \A b \in BOOLEAN :
                [r EXCEPT ![n].invocation_failed = b] \in [Nodes -> Results]
BY DEF Results

LEMMA TypeInit == Init => TypeInv
<1> SUFFICES ASSUME Init PROVE TypeInv
  OBVIOUS
<1>1. IsTree(tree)
  BY TreesAssumption DEF Init
<1>2. \A n \in {NoNode} : Process(n, "none") \in Processes
  BY StatusFacts DEF Process, Processes, ProcessStates
<1>3. TypeOK
  BY <1>1, <1>2, TreeFacts, StatusFacts DEF Init, TypeOK, ControlStates
<1>4. ControlInv
  BY DEF Init, ControlInv
<1> QED BY <1>3, <1>4 DEF TypeInv

LEMMA TypeNext == TypeInv /\ [Next]_vars => TypeInv'
<1> SUFFICES ASSUME TypeInv, [Next]_vars PROVE TypeInv'
  OBVIOUS
<1> USE DEF TypeInv
<1>1. IsTree(tree)
  BY SMTT(60) DEF TypeOK
<1> USE TreeFacts, StatusFacts, <1>1
<1>tree. tree' = tree
  BY DEF Next, vars, Parent, Loop, ExecuteAsync, RecordPid, HandleCompleted,
         ReapUnknown, ReapNode, CountDown, Return, WaitFindsNoChild, Child,
         ChildCannotInvoke, ChildExitsAfterFailure, ChildCannotRedirect,
         ChildInvokes, ProcessExits, parentVars, Signal, DeliverSigusr1,
         KilledBySigusr1, Terminated
<1>same. Nodes' = Nodes /\ Executables' = Executables /\ IsTree(tree)' /\ Processes' = Processes
  BY <1>tree DEF Nodes, Executables, IsTree, Processes
<1>2. CASE ExecuteAsync
  <2> DEFINE n == First(todo)
  <2>1. n \in todo /\ n \in Nodes
    BY <1>2, FirstNode DEF ExecuteAsync, TypeOK, ControlInv
  <2> HIDE DEF n
  <2>2. CASE StartPipe(n)
    BY <1>2, <2>1, <2>2, <1>same
    DEF ExecuteAsync, StartPipe, TypeOK, ControlInv, ControlStates, AfterAsync
  <2>3. CASE StartSequence(n)
    <3>1. Operands(n) # {} => First(Operands(n)) \in Nodes
      BY FirstNode
    <3>2. Process(n, "running") \in Processes
      BY <2>1 DEF Process, Processes, ProcessStates
    <3>3. proc' \in [Pids -> Processes]
      BY <2>3, <3>2 DEF StartSequence, TypeOK
    <3> QED
      BY <1>2, <2>1, <2>3, <3>1, <3>3, <1>same
      DEF ExecuteAsync, StartSequence, TypeOK, ControlInv, ControlStates, AfterAsync
  <2>4. CASE ForkExecutable(n)
    <3>1. PICK p \in Pids : /\ proc' = [proc EXCEPT ![p] = Process(n, "child")]
                            /\ forked' = <<n, p>>
      BY <2>4 DEF ForkExecutable, FreePids
    <3>2. Process(n, "child") \in Processes
      BY <2>1 DEF Process, Processes, ProcessStates
    <3>3. n \in Executables
      BY <2>1, <2>4 DEF ForkExecutable, Executables
    <3> QED
      BY <1>2, <2>1, <2>4, <3>1, <3>2, <3>3, <1>same
      DEF ExecuteAsync, ForkExecutable, TypeOK, ControlInv, ControlStates
  <2>5. CASE ForkFails(n)
    BY <1>2, <2>1, <2>5, <1>same
    DEF ExecuteAsync, ForkFails, TypeOK, ControlInv, ControlStates, AfterAsync
  <2>6. CASE AppenderCannotRedirect(n)
    BY <1>2, <2>1, <2>6, <1>same
    DEF ExecuteAsync, AppenderCannotRedirect, TypeOK, ControlInv, ControlStates
  <2> QED BY <1>2, <2>2, <2>3, <2>4, <2>5, <2>6 DEF n, ExecuteAsync
<1>3. CASE RecordPid
  BY <1>3, <1>same DEF RecordPid, TypeOK, ControlInv, ControlStates, AfterAsync
<1>4. ASSUME NEW p \in Pids, ReapUnknown(p) PROVE TypeInv'
  BY <1>4, <1>same
  DEF ReapUnknown, WaitReturns, TypeOK, ControlInv, ControlStates, Processes, ProcessStates
<1>5. ASSUME NEW p \in Pids, ReapNode(p) PROVE TypeInv'
  <2> DEFINE n == NodeWithPid(p)
  <2>1. n \in Nodes
    BY <1>5, FirstNode DEF ReapNode, NodesWithPid, NodeWithPid
  <2> HIDE DEF n
  <2>2. proc' \in [Pids -> Processes] /\ proc[p].status \in Statuses
    BY SMTT(60), <1>5 DEF ReapNode, WaitReturns, TypeOK, Processes, ProcessStates
  <2>3. tree.father[n] # NoNode => <<tree.father[n], n>> \in Nodes \X Nodes
    BY <2>1
  <2>4. CASE result[n] = NoResult
    BY <1>5, <2>2, <2>4, <1>same
    DEF n, ReapNode, WaitReturns, SegmentationFault, TypeOK, ControlInv, ControlStates
  <2>5. CASE result[n] # NoResult
    <3>1. result' \in [Nodes -> Results]
      BY <1>5, <2>1, <2>2, <2>5 DEF n, ReapNode, TypeOK, Results
    <3> QED
      BY <1>5, <2>1, <2>2, <2>3, <2>5, <3>1, <1>same
      DEF n, ReapNode, WaitReturns, TypeOK, ControlInv, ControlStates
  <2> QED BY <2>4, <2>5
<1>6. CASE CountDown
  <2>1. handling /\ to_wait > 0 /\ todo = {} /\ forked = <<NoNode, NoPid>>
    BY <1>6 DEF CountDown, ControlInv
  <2>2. to_wait' \in Nat
    BY <1>6, <2>1 DEF CountDown, TypeOK
  <2>3. TypeOK'
    BY <1>6, <2>2, <1>same DEF CountDown, TypeOK, ControlStates
  <2> QED BY <1>6, <2>1, <2>3 DEF CountDown, ControlInv
<1>7. CASE Return
  BY <1>7, <1>same DEF Return, TypeOK, ControlInv, ControlStates
<1>8. CASE HandleCompleted
  <2> DEFINE operator == frame[1]
             completed == frame[2]
             status == result[completed].exit_code
  <2>1. /\ operator \in Nodes /\ completed \in Nodes
        /\ status \in Statuses \cup {Uninitialised, -2}
        /\ pc = "handle" /\ handling /\ todo = {}
    BY <1>8 DEF HandleCompleted, TypeOK, ControlInv, Results
  <2> HIDE DEF operator, completed, status
  <2>2. UNCHANGED <<tree, forked, to_wait, pid, proc, sigusr1>>
    BY <1>8 DEF HandleCompleted
  <2>3. ASSUME NEW s \in Statuses \cup {Uninitialised, -2}, EndOperator(operator, s)
        PROVE  TypeInv'
    <3>1. result' \in [Nodes -> Results]
      <4> DEFINE ended == [result EXCEPT ![operator].exit_code = s]
      <4>1. ended \in [Nodes -> Results]
        BY ResultUpdate DEF TypeOK
      <4>2. result' \in {result, ended}
        BY <2>3 DEF EndOperator, SegmentationFault
      <4> QED BY <4>1, <4>2 DEF TypeOK
    <3>2. /\ pc' \in {"dead", "count", "handle"}
          /\ pc' = "handle" => frame' \in Nodes \X Nodes
          /\ frame' \in (Nodes \cup {NoNode}) \X (Nodes \cup {NoNode})
          /\ UNCHANGED <<todo, handling>>
      <4>1. CASE result[operator] = NoResult
        BY <2>1, <2>3, <4>1 DEF EndOperator, SegmentationFault, TypeOK
      <4>2. CASE result[operator] # NoResult
        <5>1. tree.father[operator] \in Nodes \cup {NoNode}
          BY <2>1
        <5> QED BY <2>1, <2>3, <4>2, <5>1 DEF EndOperator, TypeOK
      <4> QED BY <4>1, <4>2
    <3> QED
      BY <2>1, <2>2, <3>1, <3>2, <1>same DEF TypeOK, ControlInv, ControlStates
  <2>4. ASSUME LaterOperands(operator, completed) # {}, ExecuteNext(operator, completed)
        PROVE  TypeInv'
    <3>1. First(LaterOperands(operator, completed)) \in Nodes
      BY <2>4, FirstNode DEF LaterOperands
    <3> QED
      BY <2>1, <2>2, <2>4, <3>1, <1>same
      DEF ExecuteNext, TypeOK, ControlInv, ControlStates
  <2>5. ASSUME pc' = "count", UNCHANGED <<todo, frame, handling, result>>
        PROVE  TypeInv'
    BY <2>1, <2>2, <2>5, <1>same DEF TypeOK, ControlInv, ControlStates
  <2> QED
    BY <1>8, <2>1, <2>3, <2>4, <2>5 DEF HandleCompleted, operator, completed, status
<1>9. ASSUME NEW p \in Pids, Child(p) PROVE TypeInv'
  <2>1. UNCHANGED parentVars /\ sigusr1' \in Pids \cup {NoPid}
    BY <1>9 DEF Child, ChildCannotInvoke, ChildExitsAfterFailure, SignalParent,
                ChildCannotRedirect, ChildInvokes, ProcessExits, TypeOK
  <2>2. ExitStatuses \subseteq Statuses
    BY DEF Statuses
  <2>3. proc' \in [Pids -> Processes]
    BY <1>9, <2>2
    DEF Child, ChildCannotInvoke, ChildExitsAfterFailure, ChildCannotRedirect,
        ChildInvokes, ProcessExits, TypeOK, Processes, ProcessStates
  <2> QED
    BY <2>1, <2>3, <1>same DEF parentVars, TypeOK, ControlInv
<1>10. CASE DeliverSigusr1
  <2>1. result' \in [Nodes -> Results]
    <3> DEFINE n == NodeWithPid(sigusr1)
               marked == [result EXCEPT ![n].invocation_failed = TRUE]
    <3>1. marked \in [Nodes -> Results]
      BY ResultUpdate DEF TypeOK
    <3>2. result' \in {result, marked}
      BY <1>10 DEF DeliverSigusr1
    <3> QED BY <3>1, <3>2 DEF TypeOK
  <2> QED
    BY <1>10, <2>1, <1>same DEF DeliverSigusr1, TypeOK, ControlInv, ControlStates
<1>11. CASE KilledBySigusr1
  BY <1>11, <1>same DEF KilledBySigusr1, TypeOK, ControlInv, ControlStates
<1>12. CASE UNCHANGED vars
  BY <1>12, <1>same DEF vars, TypeOK, ControlInv
<1> QED
  BY <1>2, <1>3, <1>4, <1>5, <1>6, <1>7, <1>8, <1>9, <1>10, <1>11, <1>12
  DEF Next, Parent, Loop, Signal, WaitFindsNoChild, Terminated

\* Every variable of Execute keeps its type for every value of the constants,
\* with failing forks, reused pids and stray heap values included.
THEOREM TypeCorrect == Spec => []TypeOK
<1>1. TypeInv => TypeOK
  BY DEF TypeInv
<1> QED BY TypeInit, TypeNext, <1>1, PTL DEF Spec

-----------------------------------------------------------------------------
(* The steps, as the invariants see them.                                  *)

CoreInv == TypeInv /\ ProcessInv /\ EvaluationInv /\ HandleInv /\ Excess \in Nat

\* No node has the pid of another one's child.
HeapInv ==
    \A n \in Executables : pid[n] \in Pids => pid[n] \in Forked /\ proc[pid[n]].node = n

Inv == CoreInv /\ HeapInv

\* No step changes the tree.
LEMMA TreeConstant ==
    ASSUME [Next]_vars
    PROVE  /\ tree' = tree
           /\ Nodes' = Nodes
           /\ Executables' = Executables
           /\ \A n : Operands(n)' = Operands(n)
           /\ \A n, m : EarlierOperands(n, m)' = EarlierOperands(n, m)
           /\ \A n, m : LaterOperands(n, m)' = LaterOperands(n, m)
           /\ \A n : IsSequence(n)' = IsSequence(n)
<1>1. tree' = tree
  BY DEF Next, vars, Parent, Loop, ExecuteAsync, RecordPid, HandleCompleted,
         ReapUnknown, ReapNode, CountDown, Return, WaitFindsNoChild, Child,
         ChildCannotInvoke, ChildExitsAfterFailure, ChildCannotRedirect,
         ChildInvokes, ProcessExits, parentVars, Signal, DeliverSigusr1,
         KilledBySigusr1, Terminated
<1> QED
  BY SMTT(60), <1>1 DEF Nodes, Executables, Operands, EarlierOperands, LaterOperands, IsSequence

\* A node that has ended has been started.
LEMMA EndedIsStarted ==
    ASSUME TypeOK, NEW n \in Nodes, Ended(n)
    PROVE  Started(n)
BY StatusFacts DEF TypeOK, Ended, Started

\* execute_async() on a node: the node is started and nothing ends.
LEMMA StartEffect ==
    ASSUME TypeInv, EvaluationInv, ExecuteAsync
    PROVE  LET n == First(todo) IN
           /\ n \in todo /\ n \in Nodes /\ ~Started(n)
           /\ \A m \in Nodes : Ended(m)' <=> Ended(m)
           /\ \A m \in Nodes : Started(m)' <=> Started(m) \/ (m = n /\ ~ForkFails(n))
<1> DEFINE n == First(todo)
<1>1. IsTree(tree) /\ todo # {} /\ todo \subseteq Nodes
  BY DEF TypeInv, TypeOK, ControlInv, ExecuteAsync
<1>2. n \in todo /\ n \in Nodes
  BY <1>1, FirstNode
<1>3. result[n] = NoResult
  BY <1>2 DEF EvaluationInv, TodoInv, Started
<1>4. /\ Uninitialised \notin Statuses
      /\ NewResult.exit_code = Uninitialised /\ NoResult.exit_code = -2
      /\ -2 \notin Statuses
  BY StatusFacts DEF Uninitialised, NewResult, NoResult
<1>5. \/ result' = [result EXCEPT ![n] = NewResult] /\ ~ForkFails(n)
      \/ result' = [result EXCEPT ![n] = NoResult] /\ ForkFails(n)
  <2>1. NewResult # NoResult /\ result \in [Nodes -> Results]
    BY StatusFacts DEF TypeInv, TypeOK
  <2> HIDE DEF n
  <2>2. \/ result' = [result EXCEPT ![n] = NewResult]
        \/ result' = [result EXCEPT ![n] = NoResult] /\ ForkFails(n)
    BY DEF n, ExecuteAsync, StartPipe, StartSequence, AppenderCannotRedirect,
           ForkExecutable, ForkFails
  <2>3. ForkFails(n) => result' = [result EXCEPT ![n] = NoResult]
    BY DEF ForkFails
  <2> QED BY <1>2, <2>1, <2>2, <2>3
<1> HIDE DEF n
<1>6. result \in [Nodes -> Results]
  BY DEF TypeInv, TypeOK
<1> QED
  BY <1>2, <1>3, <1>4, <1>5, <1>6, StatusFacts DEF n, Started, Ended

\* The node found for a pid has that pid.
LEMMA FoundHasPid ==
    ASSUME IsTree(tree), NEW p, NodesWithPid(p) # {}
    PROVE  NodeWithPid(p) \in Executables /\ pid[NodeWithPid(p)] = p
<1>1. NodesWithPid(p) \subseteq Nodes
  BY TreeFacts DEF NodesWithPid
<1>2. NodeWithPid(p) \in NodesWithPid(p)
  BY <1>1, FirstNode DEF NodeWithPid
<1> QED BY <1>2 DEF NodesWithPid

\* Reaping the child of a node: unless the tool dies of a pid that is there by
\* chance, it is the node that was running, and its end is the only change to the results.
LEMMA ReapEffect ==
    ASSUME CoreInv, NEW p \in Pids, ReapNode(p), pc' # "dead"
    PROVE  LET n == proc[p].node IN
           /\ n \in Executables /\ n \in Nodes /\ p \in ExecutableChildren
           /\ Started(n) /\ ~Ended(n)
           /\ result' = [result EXCEPT ![n].exit_code = proc[p].status]
           /\ proc[p].status \in Statuses
           /\ \A m \in Nodes : Ended(m)' <=> Ended(m) \/ m = n
           /\ \A m \in Nodes : Started(m)' <=> Started(m)
           /\ handling' = TRUE /\ ~handling /\ UNCHANGED todo
           /\ frame' = <<tree.father[n], n>>
           /\ pc' = IF tree.father[n] = NoNode THEN "count" ELSE "handle"
<1> DEFINE n == proc[p].node
<1>1. NodeWithPid(p) \in Executables /\ pid[NodeWithPid(p)] = p
  BY FoundHasPid DEF ReapNode, CoreInv, TypeInv, TypeOK
<1>2. Started(NodeWithPid(p))
  BY DEF ReapNode, SegmentationFault, Started
<1>3. p \in Forked /\ NodeWithPid(p) = n
  BY <1>1, <1>2 DEF CoreInv, ProcessInv, PidInv, Recorded, ReapNode, WaitReturns
<1>4. n \in Executables /\ n \in Nodes /\ p \in ExecutableChildren /\ Started(n)
  BY <1>1, <1>3 DEF CoreInv, ProcessInv, ForkedInv, Forked, ReapNode, WaitReturns, ExecutableChildren,
                    Unreaped, Executables
<1>5. ~Ended(n)
  BY <1>4 DEF CoreInv, ProcessInv, ChildInv
<1>6. proc[p].status \in Statuses /\ result \in [Nodes -> Results] /\ ~handling
  BY DEF CoreInv, TypeInv, TypeOK, ControlInv, Processes, ReapNode, WaitReturns
<1> HIDE DEF n
<1>7. /\ result' = [result EXCEPT ![n].exit_code = proc[p].status]
      /\ handling' = TRUE /\ UNCHANGED todo
      /\ frame' = <<tree.father[n], n>>
      /\ pc' = IF tree.father[n] = NoNode THEN "count" ELSE "handle"
  BY <1>3, <1>4 DEF ReapNode, Started
<1>8. /\ result'[n].exit_code = proc[p].status
      /\ \A k \in Nodes : k # n => result'[k] = result[k]
  BY <1>4, <1>6, <1>7 DEF Results
<1>9. result'[n] # NoResult
  BY <1>6, <1>8, StatusFacts DEF NoResult
<1> QED
  BY <1>4, <1>5, <1>6, <1>7, <1>8, <1>9 DEF n, Started, Ended

\* A completed operator, when its father or the counter is next.
LEMMA EndEffect ==
    ASSUME CoreInv, pc = "handle",
           NEW s \in Statuses, EndOperator(frame[1], s)
    PROVE  LET n == frame[1] IN
           /\ n \in Nodes
           /\ result' = [result EXCEPT ![n].exit_code = s]
           /\ \A m \in Nodes : Ended(m)' <=> Ended(m) \/ m = n
           /\ \A m \in Nodes : Started(m)' <=> Started(m)
           /\ UNCHANGED <<todo, handling>>
           /\ frame' = <<tree.father[n], n>>
           /\ pc' = IF tree.father[n] = NoNode THEN "count" ELSE "handle"
<1> DEFINE n == frame[1]
<1>1. n \in Nodes /\ result[n] # NoResult /\ result \in [Nodes -> Results]
  BY DEF CoreInv, TypeInv, TypeOK, ControlInv, HandleInv, Started
<1> HIDE DEF n
<1>2. /\ result' = [result EXCEPT ![n].exit_code = s]
      /\ UNCHANGED <<todo, handling>>
      /\ frame' = <<tree.father[n], n>>
      /\ pc' = IF tree.father[n] = NoNode THEN "count" ELSE "handle"
  BY <1>1 DEF n, EndOperator
<1>3. /\ result'[n].exit_code = s
      /\ \A m \in Nodes : m # n => result'[m] = result[m]
  BY <1>1, <1>2 DEF Results
<1>4. result'[n] # NoResult
  BY <1>3, StatusFacts DEF NoResult
<1> QED
  BY <1>1, <1>2, <1>3, <1>4 DEF n, Started, Ended

-----------------------------------------------------------------------------
(* The evaluation of the tree.                                             *)

\* The father of a node that is running waits for it.
LEMMA FatherWaits ==
    ASSUME EvaluationInv, NEW n \in Nodes, Started(n), ~Ended(n),
           NEW f \in Nodes, f = tree.father[n], NoNode \notin Nodes, Nodes \subseteq Nat
    PROVE  /\ Started(f)
           /\ IsSequence(f) => /\ ~Ended(f)
                               /\ \A m \in LaterOperands(f, n) : ~Started(m)
           /\ tree.type[f] = "Pipe" /\ LaterOperands(f, n) = {} => ~Ended(f)
<1>1. n \in Operands(f) /\ f # NoNode
  BY DEF Operands
<1>2. Started(f)
  BY <1>1 DEF EvaluationInv, OrderInv
<1>3. IsSequence(f) => ~Ended(f)
  BY <1>1 DEF EvaluationInv, SequenceInv
<1>4. ASSUME IsSequence(f), NEW m \in LaterOperands(f, n) PROVE ~Started(m)
  <2>1. n \in EarlierOperands(f, m) /\ m \in Nodes /\ tree.father[m] = f
    BY <1>1, <1>4 DEF EarlierOperands, LaterOperands, Operands
  <2> QED BY <1>1, <1>4, <2>1 DEF EvaluationInv, OrderInv
<1>5. tree.type[f] = "Pipe" /\ LaterOperands(f, n) = {} => ~Ended(f)
  BY <1>1 DEF EvaluationInv, PipeInv
<1> QED BY <1>2, <1>3, <1>4, <1>5

LEMMA EvaluationNext ==
    ASSUME CoreInv, [Next]_vars, pc' # "dead"
    PROVE  EvaluationInv' /\ HandleInv'
<1> DEFINE Same == \A m \in Nodes : (Ended(m)' <=> Ended(m)) /\ (Started(m)' <=> Started(m))
<1>tree. IsTree(tree) /\ TypeOK /\ EvaluationInv /\ HandleInv /\ ControlInv
  BY DEF CoreInv, TypeInv, TypeOK
<1>const. /\ tree' = tree
          /\ Nodes' = Nodes
          /\ \A n : Operands(n)' = Operands(n)
          /\ \A n, m : EarlierOperands(n, m)' = EarlierOperands(n, m)
          /\ \A n, m : LaterOperands(n, m)' = LaterOperands(n, m)
          /\ \A n : IsSequence(n)' = IsSequence(n)
  BY TreeConstant
<1>facts. /\ Nodes \subseteq Nat /\ NoNode \notin Nodes
          /\ \A n \in Nodes : tree.father[n] \in Nodes \cup {NoNode}
          /\ \A n \in Nodes : tree.father[n] # n /\ tree.father[n] \notin Executables
          /\ \A n : Operands(n) \subseteq Nodes
          /\ \A n, m : EarlierOperands(n, m) \subseteq Nodes
          /\ \A n, m : LaterOperands(n, m) \subseteq Nodes
          /\ todo \subseteq Nodes
  BY <1>tree, TreeFacts DEF EarlierOperands, LaterOperands, TypeOK
<1>quiet. ASSUME Same, todo' = todo,
                 pc' = "handle" => pc = "handle" /\ frame' = frame
          PROVE  EvaluationInv' /\ HandleInv'
  <2>1. TodoInv'
    BY <1>tree, <1>quiet, <1>facts, <1>const DEF EvaluationInv, TodoInv
  <2>2. OrderInv'
    BY <1>tree, <1>quiet, <1>facts, <1>const DEF EvaluationInv, OrderInv
  <2>3. SequenceInv'
    BY <1>tree, <1>quiet, <1>facts, <1>const DEF EvaluationInv, SequenceInv
  <2>4. PipeInv'
    BY <1>tree, <1>quiet, <1>facts, <1>const DEF EvaluationInv, PipeInv
  <2>5. HandleInv'
    <3>1. pc = "handle" => frame \in Nodes \X Nodes
      BY <1>tree DEF ControlInv
    <3> QED BY <1>tree, <1>quiet, <1>facts, <1>const, <3>1 DEF HandleInv
  <2> QED BY <2>1, <2>2, <2>3, <2>4, <2>5 DEF EvaluationInv
<1>2. CASE ExecuteAsync
  <2> DEFINE new == todo' \ todo
  <2>n. PICK n \in todo : n = First(todo)
    BY <1>2, StartEffect DEF CoreInv
  <2>1. /\ n \in todo /\ n \in Nodes /\ ~Started(n)
        /\ \A m \in Nodes : Ended(m)' <=> Ended(m)
        /\ \A m \in Nodes : Started(m)' <=> Started(m) \/ (m = n /\ ~ForkFails(n))
    BY <1>2, <2>n, StartEffect DEF CoreInv
  <2>2. /\ n \notin todo' /\ todo \ {n} \subseteq todo'
        /\ new \subseteq Operands(n)
        /\ new # {} => Started(n)'
        /\ IsSequence(n) => \A k \in new : EarlierOperands(n, k) = {}
        /\ pc' # "handle"
    <3>1. n \notin Operands(n)
      BY <2>1, <1>facts DEF Operands
    <3>2. CASE StartPipe(n)
      <4>1. ~ForkFails(n) /\ ~IsSequence(n)
        BY <3>2 DEF StartPipe, ForkFails, IsSequence, SequenceTypes
      <4>2. Started(n)'
        BY <2>1, <4>1
      <4> QED BY <2>1, <3>1, <3>2, <4>1, <4>2 DEF StartPipe, AfterAsync
    <3>3. CASE StartSequence(n)
      <4>1. Operands(n) # {} =>
              /\ First(Operands(n)) \in Operands(n)
              /\ EarlierOperands(n, First(Operands(n))) = {}
        <5>1. Operands(n) \in SUBSET Nat
          BY <1>facts
        <5>2. Operands(n) # {} =>
                /\ First(Operands(n)) \in Operands(n)
                /\ \A m \in Operands(n) : First(Operands(n)) <= m
          BY <5>1, FirstIsLeast
        <5>3. Operands(n) # {} => \A m \in Operands(n) : ~(m < First(Operands(n)))
          BY <5>1, <5>2
        <5> QED BY <5>2, <5>3 DEF EarlierOperands
      <4>2. Started(n)'
        <5>1. ~ForkFails(n)
          BY <3>3 DEF StartSequence, SequenceTypes, ForkFails
        <5> QED BY <2>1, <5>1
      <4>3. todo' = todo \ {n} \/ (Operands(n) # {} /\ todo' = (todo \ {n}) \cup {First(Operands(n))})
        BY <3>3 DEF StartSequence
      <4>4. pc' # "handle"
        BY <3>3 DEF StartSequence, AfterAsync
      <4> QED BY <2>1, <3>1, <4>1, <4>2, <4>3, <4>4
    <3>4. CASE ForkExecutable(n) \/ ForkFails(n)
      BY <2>1, <3>4 DEF ForkExecutable, ForkFails, AfterAsync
    <3>5. CASE AppenderCannotRedirect(n)
      <4>1. pc' # "handle" /\ todo' = todo \ {n}
        BY <3>5 DEF AppenderCannotRedirect
      <4> QED BY <2>1, <4>1
    <3> QED BY <1>2, <2>n, <3>2, <3>3, <3>4, <3>5 DEF ExecuteAsync
  <2>3. \A k \in new : k \in Nodes /\ tree.father[k] = n /\ k # n /\ ~Started(k)
    <3>1. \A k \in new : k \in Nodes /\ tree.father[k] = n /\ k # n
      BY <2>2, <1>facts DEF Operands
    <3> QED BY <2>1, <3>1, <1>tree, <1>facts DEF EvaluationInv, OrderInv
  <2>4. ~Ended(n)
    BY <2>1, <1>tree, EndedIsStarted
  <2> HIDE DEF new
  <2>5. \A k \in todo' : k \in new \/ (k \in todo /\ k # n)
    BY <2>2 DEF new
  <2>6. TodoInv'
    BY <2>1, <2>2, <2>3, <2>4, <2>5, <1>tree, <1>facts, <1>const DEF EvaluationInv, TodoInv
  <2>7. OrderInv'
    <3> SUFFICES ASSUME NEW k \in Nodes, k \in todo' \/ Started(k)',
                        NEW f \in Nodes, f = tree.father[k]
                 PROVE  /\ Started(f)'
                        /\ IsSequence(f) => \A m \in EarlierOperands(f, k) : Ended(m)'
      BY <1>const, <1>facts DEF OrderInv
    <3>1. CASE k \in new
      BY <2>2, <2>3, <3>1
    <3>2. CASE k \notin new
      <4>1. k \in todo \/ Started(k)
        BY <2>1, <2>5, <3>2
      <4>2. /\ Started(f)
            /\ IsSequence(f) => \A m \in EarlierOperands(f, k) : Ended(m)
        BY <4>1, <1>tree, <1>facts DEF EvaluationInv, OrderInv
      <4> QED BY <2>1, <4>2, <1>facts
    <3> QED BY <3>1, <3>2
  <2>8. SequenceInv'
    <3> SUFFICES ASSUME NEW s \in Nodes, Ended(s)', IsSequence(s),
                        NEW m \in Operands(s), Started(m)'
                 PROVE  Ended(m)'
      BY <1>const DEF SequenceInv
    <3>1. m \in Nodes /\ tree.father[m] = s /\ Ended(s) /\ s # NoNode
      BY <2>1, <1>facts DEF Operands
    <3>2. m # n
      BY <2>1, <3>1, <1>tree DEF EvaluationInv, TodoInv
    <3> QED BY <2>1, <3>1, <3>2, <1>tree DEF EvaluationInv, SequenceInv
  <2>9. PipeInv'
    BY <2>1, <1>tree, <1>facts, <1>const DEF EvaluationInv, PipeInv
  <2>10. HandleInv'
    BY <2>2 DEF HandleInv
  <2> QED BY <2>6, <2>7, <2>8, <2>9, <2>10 DEF EvaluationInv
<1>ends. ASSUME NEW n \in Nodes, Started(n), ~Ended(n),
                IsSequence(n) => \A m \in Operands(n) : Started(m) => Ended(m),
                tree.type[n] = "Pipe" =>
                  \A m \in Operands(n) : LaterOperands(n, m) = {} => Ended(m),
                \A k \in todo : tree.father[k] # n,
                \A m \in Nodes : Ended(m)' <=> Ended(m) \/ m = n,
                \A m \in Nodes : Started(m)' <=> Started(m),
                todo' = todo, frame' = <<tree.father[n], n>>,
                pc' = IF tree.father[n] = NoNode THEN "count" ELSE "handle"
         PROVE  EvaluationInv' /\ HandleInv'
  <2>1. TodoInv'
    BY <1>ends, <1>tree, <1>facts, <1>const DEF EvaluationInv, TodoInv
  <2>2. OrderInv'
    BY <1>ends, <1>tree, <1>facts, <1>const DEF EvaluationInv, OrderInv
  <2>3. SequenceInv'
    <3> SUFFICES ASSUME NEW s \in Nodes, Ended(s)', IsSequence(s),
                        NEW m \in Operands(s), Started(m)
                 PROVE  Ended(m)'
      BY <1>ends, <1>facts, <1>const DEF SequenceInv
    <3> QED BY <1>ends, <1>tree, <1>facts DEF EvaluationInv, SequenceInv
  <2>4. PipeInv'
    BY <1>ends, <1>tree, <1>facts, <1>const DEF EvaluationInv, PipeInv
  <2>5. HandleInv'
    <3> DEFINE f == tree.father[n]
    <3> SUFFICES ASSUME f \in Nodes PROVE HandleInv'
      BY <1>ends, <1>facts DEF HandleInv
    <3>1. /\ Started(f)
          /\ IsSequence(f) => /\ ~Ended(f)
                              /\ \A m \in LaterOperands(f, n) : ~Started(m)
          /\ tree.type[f] = "Pipe" /\ LaterOperands(f, n) = {} => ~Ended(f)
      BY <1>ends, <1>tree, <1>facts, FatherWaits
    <3>2. f # n
      BY <1>facts
    <3> HIDE DEF f
    <3>3. frame' = <<f, n>>
      BY <1>ends DEF f
    <3> QED BY <1>ends, <3>1, <3>2, <3>3, <1>facts, <1>const DEF HandleInv, f
  <2> QED BY <2>1, <2>2, <2>3, <2>4, <2>5 DEF EvaluationInv
<1>5. ASSUME NEW p \in Pids, ReapNode(p) PROVE EvaluationInv' /\ HandleInv'
  <2> DEFINE n == proc[p].node
  <2>1. /\ n \in Executables /\ n \in Nodes /\ Started(n) /\ ~Ended(n)
        /\ \A m \in Nodes : Ended(m)' <=> Ended(m) \/ m = n
        /\ \A m \in Nodes : Started(m)' <=> Started(m)
        /\ UNCHANGED todo /\ frame' = <<tree.father[n], n>>
        /\ pc' = IF tree.father[n] = NoNode THEN "count" ELSE "handle"
    BY <1>5, ReapEffect
  <2>2. tree.type[n] = "Executable" /\ ~IsSequence(n)
    BY <2>1 DEF Executables, IsSequence, SequenceTypes
  <2>3. \A k \in todo : tree.father[k] # n
    BY <2>1, <1>facts
  <2> HIDE DEF n
  <2> QED BY <1>ends, <2>1, <2>2, <2>3
<1>8. CASE HandleCompleted
  <2> DEFINE operator == frame[1]
             completed == frame[2]
  <2>1. /\ operator \in Nodes /\ completed \in Nodes /\ pc = "handle" /\ todo = {}
        /\ operator = tree.father[completed]
        /\ completed \in Operands(operator) /\ operator # NoNode
    BY <1>8, <1>tree, <1>facts DEF HandleCompleted, ControlInv, HandleInv, Operands
  <2>2. /\ Started(operator) /\ Ended(completed) /\ Started(completed)
        /\ IsSequence(operator) =>
             /\ ~Ended(operator)
             /\ \A m \in LaterOperands(operator, completed) : ~Started(m)
        /\ tree.type[operator] = "Pipe" /\ LaterOperands(operator, completed) = {} =>
             ~Ended(operator)
    BY <2>1, <1>tree, EndedIsStarted DEF HandleInv
  <2>3. IsSequence(operator) => \A k \in EarlierOperands(operator, completed) : Ended(k)
    BY <2>1, <2>2, <1>tree DEF EvaluationInv, OrderInv
  <2>4. ASSUME NEW s \in Statuses, EndOperator(operator, s),
               \/ IsSequence(operator)
               \/ tree.type[operator] = "Pipe" /\ LaterOperands(operator, completed) = {}
        PROVE  EvaluationInv' /\ HandleInv'
    <3>1. /\ \A m \in Nodes : Ended(m)' <=> Ended(m) \/ m = operator
          /\ \A m \in Nodes : Started(m)' <=> Started(m)
          /\ UNCHANGED todo /\ frame' = <<tree.father[operator], operator>>
          /\ pc' = IF tree.father[operator] = NoNode THEN "count" ELSE "handle"
      BY <2>1, <2>4, EndEffect
    <3>2. \A m \in Operands(operator) :
            m = completed \/ m \in EarlierOperands(operator, completed)
                          \/ m \in LaterOperands(operator, completed)
      BY <2>1, <1>facts, OperandOrder
    <3>3. \A m \in EarlierOperands(operator, completed) :
            completed \in LaterOperands(operator, m)
      BY <2>1, <1>facts, OperandOrder DEF EarlierOperands
    <3>4. IsSequence(operator) =>
            \A m \in Operands(operator) : Started(m) => Ended(m)
      BY <2>2, <2>3, <3>2
    <3>5. tree.type[operator] = "Pipe" =>
            \A m \in Operands(operator) : LaterOperands(operator, m) = {} => Ended(m)
      <4>1. IsSequence(operator) => tree.type[operator] # "Pipe"
        BY DEF IsSequence, SequenceTypes
      <4> QED BY <2>2, <2>4, <3>2, <3>3, <4>1
    <3> HIDE DEF operator, completed
    <3> QED BY <1>ends, <2>1, <2>2, <2>4, <3>1, <3>4, <3>5
  <2>5. ASSUME IsSequence(operator), LaterOperands(operator, completed) # {},
               ExecuteNext(operator, completed), UNCHANGED tree
        PROVE  EvaluationInv' /\ HandleInv'
    <3> DEFINE k == First(LaterOperands(operator, completed))
    <3>1. /\ k \in LaterOperands(operator, completed)
          /\ \A m \in LaterOperands(operator, completed) : k <= m
      <4>1. LaterOperands(operator, completed) \in SUBSET Nat
        BY <1>facts
      <4> QED BY <2>5, <4>1, FirstIsLeast
    <3> HIDE DEF k
    <3>2. todo' = {k} /\ pc' = "async" /\ result' = result
      BY <2>5 DEF ExecuteNext, k
    <3>3. Same
      BY <3>2 DEF Ended, Started
    <3>4. k \in Nodes /\ tree.father[k] = operator /\ ~Started(k)
      BY <2>2, <2>5, <3>1, <1>facts DEF LaterOperands, Operands
    <3>5. \A m \in EarlierOperands(operator, k) : Ended(m)
      <4> SUFFICES ASSUME NEW m \in EarlierOperands(operator, k) PROVE Ended(m)
        OBVIOUS
      <4>1. m \in Nat /\ completed \in Nat /\ k \in Nat /\ m < k
        BY <1>facts, <2>1, <3>4 DEF EarlierOperands
      <4>2. m \notin LaterOperands(operator, completed)
        BY <3>1, <4>1
      <4>3. m = completed \/ m \in EarlierOperands(operator, completed)
        BY <4>1, <4>2 DEF EarlierOperands, LaterOperands
      <4> QED BY <2>2, <2>3, <2>5, <4>3
    <3> HIDE DEF operator, completed
    <3>6. TodoInv'
      BY <2>1, <2>2, <2>5, <3>2, <3>3, <3>4, <1>const DEF TodoInv
    <3>7. OrderInv'
      <4> SUFFICES ASSUME NEW m \in Nodes, m = k \/ Started(m), tree.father[m] # NoNode
                   PROVE  /\ Started(tree.father[m])
                          /\ IsSequence(tree.father[m]) =>
                               \A j \in EarlierOperands(tree.father[m], m) : Ended(j)
        BY <3>2, <3>3, <1>const, <1>facts DEF OrderInv
      <4> QED BY <2>1, <2>2, <3>4, <3>5, <1>tree DEF EvaluationInv, OrderInv
    <3>8. SequenceInv' /\ PipeInv'
      BY <3>3, <1>tree, <1>const, <1>facts DEF EvaluationInv, SequenceInv, PipeInv
    <3>9. HandleInv'
      BY <3>2 DEF HandleInv
    <3> QED BY <3>6, <3>7, <3>8, <3>9 DEF EvaluationInv
  <2>6. ASSUME pc' = "count", UNCHANGED <<todo, frame, handling, result>>
        PROVE  EvaluationInv' /\ HandleInv'
    <3>1. Same
      BY <2>6 DEF Ended, Started
    <3> QED BY <2>6, <3>1, <1>quiet
  <2>7. result[completed].exit_code \in Statuses /\ Exit(0) \in Statuses
    BY <2>2, StatusFacts DEF Ended
  <2> HIDE DEF operator, completed
  <2> QED
    BY <1>8, <2>4, <2>5, <2>6, <2>7
    DEF HandleCompleted, operator, completed, IsSequence, SequenceTypes
<1>10. CASE DeliverSigusr1
  <2>1. \A m \in Nodes : \/ result'[m] = result[m]
                         \/ /\ result[m] # NoResult
                            /\ result'[m] = [result[m] EXCEPT !.invocation_failed = TRUE]
    BY <1>10, <1>tree DEF DeliverSigusr1, TypeOK
  <2>2. Same
    <3> SUFFICES ASSUME NEW m \in Nodes
                 PROVE  /\ result'[m].exit_code = result[m].exit_code
                        /\ result'[m] = NoResult <=> result[m] = NoResult
      BY DEF Ended, Started
    <3>1. result[m] \in Results
      BY <1>tree DEF TypeOK
    <3>2. LET r == [result[m] EXCEPT !.invocation_failed = TRUE] IN
          r.exit_code = result[m].exit_code /\ r.invocation_failed = TRUE
      BY <3>1 DEF Results
    <3>3. [result[m] EXCEPT !.invocation_failed = TRUE] # NoResult
      BY <3>2 DEF NoResult
    <3> QED BY <2>1, <3>2, <3>3
  <2>3. todo' = todo /\ (pc' = "handle" => pc = "handle" /\ frame' = frame)
    BY <1>10 DEF DeliverSigusr1
  <2> QED BY <1>quiet, <2>2, <2>3
<1>12. CASE \/ RecordPid \/ CountDown \/ Return \/ KilledBySigusr1
            \/ \E p \in Pids : ReapUnknown(p) \/ Child(p)
            \/ UNCHANGED vars
  <2>1. todo' = todo /\ result' = result /\ (pc' = "handle" => pc = "handle" /\ frame' = frame)
    BY <1>12 DEF RecordPid, CountDown, Return, KilledBySigusr1, ReapUnknown, Child, vars,
       parentVars, ChildCannotInvoke, ChildExitsAfterFailure, ChildCannotRedirect,
       ChildInvokes, ProcessExits, AfterAsync
  <2>2. Same
    BY <2>1 DEF Ended, Started
  <2> QED BY SMTT(60), <1>quiet, <2>1, <2>2
<1> QED
  BY <1>2, <1>5, <1>8, <1>10, <1>12
  DEF Next, Parent, Loop, Signal, WaitFindsNoChild, Terminated

-----------------------------------------------------------------------------
(* The processes and the counter.                                          *)

LEMMA ProcessNext ==
    ASSUME ~ReusePids, CoreInv, [Next]_vars, pc' # "dead"
    PROVE  ProcessInv' /\ Counted
<1>inv. IsTree(tree) /\ TypeOK /\ ControlInv /\ ProcessInv /\ EvaluationInv /\ HandleInv
        /\ Excess \in Nat /\ to_wait \in Nat /\ handling \in BOOLEAN
  BY DEF CoreInv, TypeInv, TypeOK
<1>const. tree' = tree /\ Nodes' = Nodes /\ Executables' = Executables
  BY TreeConstant
<1>facts. Executables \subseteq Nodes /\ NoPid \notin Pids /\ IsFiniteSet(Pids)
  BY <1>inv, TreeFacts, PidsAssumption
<1>children. /\ ExecutableChildren = {p \in Forked : proc[p].state # "reaped"}
             /\ ExecutableChildren' = {p \in Forked' : proc'[p].state # "reaped"}
  BY DEF ExecutableChildren, Unreaped, Forked
<1>finite. IsFiniteSet(ExecutableChildren) /\ Cardinality(ExecutableChildren) \in Nat
  BY <1>facts, FS_Subset, FS_CardinalityType DEF ExecutableChildren, Unreaped
<1>counted. ASSUME ExecutableChildren' = ExecutableChildren,
                   to_wait' = to_wait, handling' = handling
            PROVE  Counted
  BY <1>inv, <1>counted DEF Excess, Counted
<1>keep. ASSUME Forked' = Forked, ExecutableChildren' \subseteq ExecutableChildren,
                \A q \in Forked : proc'[q].node = proc[q].node,
                \A q \in Pids : proc'[q].state \in {"child", "failed"} => q \in Forked,
                pid' = pid, pc' # "dead",
                pc' = "record" => forked' = forked, pc' = "record" <=> pc = "record",
                sigusr1' \in ExecutableChildren' \cup {NoPid},
                \A m \in Nodes : Started(m) => Started(m)',
                \A m \in Executables : Started(m)' => Started(m),
                \A q \in ExecutableChildren' : \A m \in Nodes :
                  m = proc[q].node /\ Ended(m)' => Ended(m)
         PROVE  ProcessInv'
  <2>0. /\ Forked \subseteq Pids
        /\ \A q \in Forked : proc[q].node \in Nodes /\ proc[q].node \in Executables
        /\ ExecutableChildren' \subseteq Forked
    BY <1>keep, <1>facts, <1>children DEF Forked
  <2>1. PidInv'
    <3>1. \A m \in Executables : Recorded(m)' => Recorded(m)
      BY <1>keep, <1>facts DEF Recorded
    <3>2. \A q \in Forked : pid'[proc'[q].node] = q \/ (pc' = "record" /\ forked' = <<proc'[q].node, q>>)
      BY <1>keep, <1>inv, <2>0 DEF ProcessInv, PidInv
    <3>3. pc' = "record" => forked'[2] \in Forked' /\ proc'[forked'[2]].node = forked'[1]
      BY <1>keep, <1>inv DEF ProcessInv, PidInv
    <3> QED BY <1>keep, <1>inv, <1>const, <3>1, <3>2, <3>3 DEF ProcessInv, PidInv
  <2>2. ForkedInv'
    <3>1. \A q \in Forked : Started(proc[q].node)'
      <4> SUFFICES ASSUME NEW q \in Forked, NEW m \in Nodes, m = proc[q].node
                   PROVE  Started(m)' /\ proc'[q].node = m
        BY <1>keep, <2>0
      <4> QED BY <1>keep, <1>inv DEF ProcessInv, ForkedInv
    <3> QED BY <1>keep, <1>inv, <2>0, <3>1 DEF ProcessInv, ForkedInv
  <2>3. ChildInv'
    <3> SUFFICES ASSUME NEW q \in ExecutableChildren', NEW m \in Nodes, m = proc[q].node
                 PROVE  ~Ended(m)' /\ proc'[q].node = m
      BY <1>keep, <2>0 DEF ChildInv
    <3> QED BY <1>keep, <1>inv, <2>0 DEF ProcessInv, ChildInv
  <2> QED BY <2>1, <2>2, <2>3 DEF ProcessInv
<1>same. ASSUME UNCHANGED <<proc, pid>>,
                forked' = forked, pc' # "dead", pc' = "record" <=> pc = "record",
                sigusr1' \in {sigusr1, NoPid},
                \A m \in Nodes : Started(m) => Started(m)',
                \A m \in Executables : Started(m)' => Started(m),
                \A m \in Executables : Ended(m)' => Ended(m)
         PROVE  ProcessInv' /\ ExecutableChildren' = ExecutableChildren
  <2>1. Forked' = Forked /\ ExecutableChildren' = ExecutableChildren
    BY <1>same, <1>const, <1>children DEF Forked
  <2>2. \A q \in ExecutableChildren' : \A m \in Nodes :
          m = proc[q].node /\ Ended(m)' => Ended(m)
    BY <1>same, <2>1 DEF ExecutableChildren
  <2>3. \A q \in Pids : proc'[q].state \in {"child", "failed"} => q \in Forked
    BY <1>same, <1>inv DEF ProcessInv, ForkedInv
  <2>4. sigusr1' \in ExecutableChildren' \cup {NoPid}
    BY <1>same, <2>1, <1>inv DEF ProcessInv, ChildInv
  <2> QED BY <1>same, <2>1, <2>2, <2>3, <2>4, <1>keep
<1>2. CASE ExecuteAsync
  <2>n. PICK n \in todo : n = First(todo)
    BY <1>2, StartEffect DEF CoreInv
  <2>1. /\ n \in Nodes /\ ~Started(n)
        /\ \A m \in Nodes : Ended(m)' <=> Ended(m)
        /\ \A m \in Nodes : Started(m)' <=> Started(m) \/ (m = n /\ ~ForkFails(n))
    BY <1>2, <2>n, StartEffect DEF CoreInv
  <2>2. UNCHANGED <<handling, pid, sigusr1>> /\ pc = "async"
    BY <1>2 DEF ExecuteAsync
  <2>3. /\ \A m \in Executables : Ended(m)' => Ended(m)
        /\ (n \notin Executables \/ ForkFails(n)) => \A m \in Executables : Started(m)' => Started(m)
    BY <2>1, <1>facts
  <2>4. CASE StartPipe(n)
    <3>1. /\ UNCHANGED <<forked, to_wait, proc>> /\ pc' \notin {"record", "dead"}
          /\ n \notin Executables
      BY <2>4 DEF StartPipe, AfterAsync, Executables
    <3> QED BY <2>1, <2>2, <2>3, <3>1, <1>same, <1>counted
  <2>5. CASE StartSequence(n)
    <3>1. UNCHANGED <<forked, to_wait>> /\ pc' \notin {"record", "dead"} /\ n \notin Executables
      BY <2>5 DEF StartSequence, AfterAsync, SequenceTypes, Executables
    <3>2. CASE proc' = proc
      BY <2>1, <2>2, <2>3, <3>1, <3>2, <1>same, <1>counted
    <3>3. CASE \E p \in FreePids : proc' = [proc EXCEPT ![p] = Process(n, "running")]
      <4>1. PICK p \in FreePids : proc' = [proc EXCEPT ![p] = Process(n, "running")]
        BY <3>3
      <4>2. p \in Pids /\ proc[p].state = "none"
        BY DEF FreePids
      <4>3. /\ proc'[p].node = n /\ proc'[p].state = "running"
            /\ \A q \in Pids : q # p => proc'[q] = proc[q]
        BY <4>1, <4>2, <1>inv DEF TypeOK, Process
      <4>4. Forked' = Forked /\ p \notin Forked
        BY <3>1, <4>2, <4>3, <1>const DEF Forked
      <4>5. ExecutableChildren' = ExecutableChildren
        BY <4>2, <4>3, <4>4, <1>children DEF Forked
      <4>6. \A q \in Pids : proc'[q].state \in {"child", "failed"} => q \in Forked
        BY <4>3, <1>inv DEF ProcessInv, ForkedInv
      <4>7. \A q \in Forked : proc'[q].node = proc[q].node
        BY <4>3, <4>4 DEF Forked
      <4>8. sigusr1' \in ExecutableChildren' \cup {NoPid}
        BY <2>2, <4>5, <1>inv DEF ProcessInv, ChildInv
      <4>9. ProcessInv'
        <5>1. \A m \in Executables : Started(m)' => Started(m)
          BY <2>3, <3>1
        <5>2. \A q \in ExecutableChildren' : \A m \in Nodes :
                m = proc[q].node /\ Ended(m)' => Ended(m)
          BY <2>1
        <5> QED BY <2>1, <2>2, <3>1, <4>4, <4>5, <4>6, <4>7, <4>8, <5>1, <5>2, <1>keep
      <4> QED BY <2>2, <3>1, <4>5, <4>9, <1>counted
    <3> QED BY <2>5, <3>2, <3>3 DEF StartSequence
  <2>6. CASE ForkExecutable(n)
    <3>1. PICK p \in FreePids : /\ proc' = [proc EXCEPT ![p] = Process(n, "child")]
                                /\ forked' = <<n, p>>
      BY <2>6 DEF ForkExecutable
    <3>2. p \in Pids /\ proc[p].state = "none"
      BY DEF FreePids
    <3>3. /\ proc'[p].node = n /\ proc'[p].state = "child"
          /\ \A q \in Pids : q # p => proc'[q] = proc[q]
      BY <3>1, <3>2, <1>inv DEF TypeOK, Process
    <3>4. n \in Executables /\ pc' = "record" /\ to_wait' = to_wait + 1 /\ ~ForkFails(n)
      BY <2>1, <2>6 DEF ForkExecutable, Executables, ForkFails, AfterAsync
    <3>5. Forked' = Forked \cup {p} /\ p \notin Forked
      BY <3>2, <3>3, <3>4, <1>const DEF Forked
    <3>6. ExecutableChildren' = ExecutableChildren \cup {p} /\ p \notin ExecutableChildren
      BY <3>3, <3>5, <1>children DEF Forked
    <3>7. \A q \in Forked : proc'[q] = proc[q] /\ proc[q].node # n /\ proc[q].node \in Nodes
      BY <2>1, <3>3, <3>5, <1>inv, <1>facts DEF ProcessInv, ForkedInv, Forked
    <3>8. PidInv'
      <4>1. \A m \in Executables :
              Recorded(m)' => pid[m] \in Forked' /\ proc'[pid[m]].node = m
        <5> SUFFICES ASSUME NEW m \in Executables, Recorded(m)'
                     PROVE  pid[m] \in Forked' /\ proc'[pid[m]].node = m
          OBVIOUS
        <5>1. m # n
          BY <3>1, <3>4 DEF Recorded
        <5>2. Recorded(m)
          BY <2>1, <2>2, <5>1, <1>facts DEF Recorded
        <5> QED BY <3>5, <3>7, <5>2, <1>inv DEF ProcessInv, PidInv
      <4>2. \A q \in Forked : pid[proc'[q].node] = q
        BY <2>2, <3>7, <1>inv DEF ProcessInv, PidInv
      <4> QED BY <2>2, <3>1, <3>3, <3>4, <3>5, <4>1, <4>2, <1>const DEF PidInv
    <3>9. ForkedInv'
      <4>1. \A q \in Pids : proc'[q].state \in {"child", "failed"} => q \in Forked'
        BY <3>3, <3>5, <1>inv DEF ProcessInv, ForkedInv
      <4>2. ASSUME NEW q \in Forked', NEW m, m = proc'[q].node
            PROVE  Started(m)'
        BY <2>1, <3>3, <3>4, <3>5, <3>7, <4>2, <1>inv DEF ProcessInv, ForkedInv
      <4>3. \A q, r \in Forked' : proc'[q].node = proc'[r].node => q = r
        BY <3>3, <3>5, <3>7, <1>inv DEF ProcessInv, ForkedInv
      <4> QED BY <4>1, <4>2, <4>3 DEF ForkedInv
    <3>10. ChildInv'
      <4>1. sigusr1' # NoPid => sigusr1' \in ExecutableChildren'
        BY <2>2, <3>6, <1>inv DEF ProcessInv, ChildInv
      <4>2. ASSUME NEW q \in ExecutableChildren', NEW m, m = proc'[q].node
            PROVE  ~Ended(m)'
        <5>1. CASE q = p
          BY <2>1, <3>3, <4>2, <5>1, <1>inv, EndedIsStarted
        <5>2. CASE q # p
          BY <2>1, <3>6, <3>7, <4>2, <5>2, <1>inv, <1>children DEF ProcessInv, ChildInv
        <5> QED BY <5>1, <5>2
      <4> QED BY <3>4, <4>1, <4>2 DEF ChildInv
    <3>11. Cardinality(ExecutableChildren') = Cardinality(ExecutableChildren) + 1
      BY <3>6, <1>finite, FS_AddElement
    <3>12. Counted
      BY <2>2, <3>4, <3>11, <1>inv, <1>finite DEF Excess, Counted
    <3> QED BY <3>8, <3>9, <3>10, <3>12 DEF ProcessInv
  <2>7. CASE ForkFails(n)
    <3>1. /\ UNCHANGED <<forked, proc>> /\ pc' \notin {"record", "dead"}
          /\ ForkMayFail /\ to_wait' = to_wait + 1
      BY <2>7 DEF ForkFails, AfterAsync
    <3>2. ProcessInv' /\ ExecutableChildren' = ExecutableChildren
      BY <2>1, <2>2, <2>3, <2>7, <3>1, <1>same
    <3> QED BY <2>2, <3>1, <3>2, <1>inv, <1>finite DEF Excess, Counted
  <2>8. CASE AppenderCannotRedirect(n)
    <3>1. /\ UNCHANGED <<forked, to_wait, proc>> /\ pc' \notin {"record", "dead"}
          /\ n \notin Executables
      BY <2>8 DEF AppenderCannotRedirect, SequenceTypes, Executables
    <3> QED BY <2>1, <2>2, <2>3, <3>1, <1>same, <1>counted
  <2> QED BY <1>2, <2>n, <2>4, <2>5, <2>6, <2>7, <2>8 DEF ExecuteAsync
<1>3. CASE RecordPid
  <2> DEFINE n == forked[1]
             p == forked[2]
  <2>1. /\ pc = "record" /\ n \in Executables /\ p \in Pids /\ forked = <<n, p>>
        /\ p \in Forked /\ proc[p].node = n
    BY <1>3, <1>inv DEF RecordPid, ControlInv, ProcessInv, PidInv
  <2>2. /\ UNCHANGED <<handling, to_wait, result, proc, sigusr1>>
        /\ pc' \notin {"record", "dead"}
        /\ pid' = [pid EXCEPT ![n] = p]
    BY <1>3 DEF RecordPid, AfterAsync
  <2>3. pid'[n] = p /\ \A m \in Executables : m # n => pid'[m] = pid[m]
    BY <2>1, <2>2, <1>inv, <1>facts DEF TypeOK
  <2>4. Forked' = Forked /\ ExecutableChildren' = ExecutableChildren
    BY <2>2, <1>const, <1>children DEF Forked
  <2> HIDE DEF n, p
  <2>5. PidInv'
    <3>1. \A m \in Executables :
            Recorded(m)' => pid'[m] \in Forked /\ proc[pid'[m]].node = m
      <4> SUFFICES ASSUME NEW m \in Executables, Recorded(m)'
                   PROVE  pid'[m] \in Forked /\ proc[pid'[m]].node = m
        OBVIOUS
      <4>1. CASE m = n
        BY <2>1, <2>3, <4>1
      <4>2. CASE m # n
        <5>1. Recorded(m)
          BY <2>1, <2>2, <4>2 DEF Recorded, Started
        <5> QED BY <2>3, <4>2, <5>1, <1>inv DEF ProcessInv, PidInv
      <4> QED BY <4>1, <4>2
    <3>2. \A q \in Forked : pid'[proc[q].node] = q
      <4> SUFFICES ASSUME NEW q \in Forked PROVE pid'[proc[q].node] = q
        OBVIOUS
      <4>1. CASE proc[q].node = n
        BY <2>1, <2>3, <4>1, <1>inv DEF ProcessInv, ForkedInv
      <4>2. CASE proc[q].node # n
        BY <2>1, <2>3, <4>2, <1>inv DEF ProcessInv, PidInv, Forked
      <4> QED BY <4>1, <4>2
    <3> QED BY <2>2, <2>4, <3>1, <3>2, <1>const DEF PidInv
  <2>6. ForkedInv' /\ ChildInv'
    BY <2>2, <2>4, <1>inv DEF ProcessInv, ForkedInv, ChildInv, Started, Ended
  <2> QED BY <2>2, <2>4, <2>5, <2>6, <1>counted DEF ProcessInv
<1>4. ASSUME NEW p \in Pids, ReapUnknown(p) PROVE ProcessInv' /\ Counted
  <2>1. /\ pc = "wait" /\ sigusr1 = NoPid /\ proc[p].state = "zombie"
        /\ proc' = [proc EXCEPT ![p].state = "reaped"]
        /\ UNCHANGED <<pc, forked, handling, to_wait, result, pid, sigusr1>>
    BY <1>4 DEF ReapUnknown, WaitReturns
  <2>2. p \notin Forked
    BY <1>4, <2>1, <1>inv DEF ReapUnknown, NodesWithPid, ProcessInv, PidInv, Forked
  <2>3. /\ \A q \in Pids : q # p => proc'[q] = proc[q]
        /\ proc'[p].node = proc[p].node /\ proc'[p].state = "reaped"
    BY <2>1, <1>inv DEF TypeOK, Processes
  <2>4. Forked' = Forked /\ ExecutableChildren' = ExecutableChildren
    BY <2>1, <2>2, <2>3, <1>const, <1>children DEF Forked
  <2>5. ProcessInv'
    <3>1. \A q \in Pids : proc'[q].state \in {"child", "failed"} => q \in Forked
      BY <2>3, <1>inv DEF ProcessInv, ForkedInv
    <3>2. \A m \in Nodes : (Started(m)' <=> Started(m)) /\ (Ended(m)' <=> Ended(m))
      BY <2>1 DEF Started, Ended
    <3> QED BY <2>1, <2>3, <2>4, <3>1, <3>2, <1>facts, <1>keep DEF Forked
  <2> QED BY <2>1, <2>4, <2>5, <1>counted
<1>5. ASSUME NEW p \in Pids, ReapNode(p) PROVE ProcessInv' /\ Counted
  <2>n. PICK n : n = proc[p].node
    OBVIOUS
  <2>1. /\ n \in Executables /\ n \in Nodes /\ p \in ExecutableChildren
        /\ \A m \in Nodes : Ended(m)' <=> Ended(m) \/ m = n
        /\ \A m \in Nodes : Started(m)' <=> Started(m)
        /\ handling' = TRUE /\ ~handling
        /\ pc' \in {"count", "handle"}
    BY <1>5, <2>n, ReapEffect
  <2>2. /\ pc = "wait" /\ sigusr1 = NoPid
        /\ proc' = [proc EXCEPT ![p].state = "reaped"]
        /\ UNCHANGED <<forked, to_wait, pid, sigusr1>>
    BY <1>5 DEF ReapNode, WaitReturns
  <2>3. /\ \A q \in Pids : q # p => proc'[q] = proc[q]
        /\ proc'[p].node = proc[p].node /\ proc'[p].state = "reaped"
    BY <2>2, <1>inv DEF TypeOK, Processes
  <2>4. p \in Forked
    BY <2>1, <1>children
  <2>5. Forked' = Forked /\ ExecutableChildren' = ExecutableChildren \ {p}
    BY <2>3, <2>4, <1>const, <1>children DEF Forked
  <2>6. ProcessInv'
    <3>1. \A q \in Pids : proc'[q].state \in {"child", "failed"} => q \in Forked
      BY <2>3, <1>inv DEF ProcessInv, ForkedInv
    <3>2. \A q \in ExecutableChildren' : proc[q].node # n
      BY <2>n, <2>4, <2>5, <1>inv, <1>children DEF ProcessInv, ForkedInv
    <3> QED BY <2>1, <2>2, <2>3, <2>5, <3>1, <3>2, <1>facts, <1>keep DEF Forked
  <2>7. Cardinality(ExecutableChildren') = Cardinality(ExecutableChildren) - 1
    BY <2>1, <2>5, <1>finite, FS_RemoveElement
  <2> QED BY <2>1, <2>2, <2>6, <2>7, <1>finite, <1>inv DEF Excess, Counted
<1>6. CASE CountDown
  <2>1. /\ pc = "count" /\ handling /\ to_wait \in Nat
        /\ to_wait' = to_wait - 1 /\ handling' = FALSE /\ pc' = "wait"
        /\ UNCHANGED <<forked, result, pid, proc, sigusr1>>
    BY <1>6, <1>inv DEF CountDown, ControlInv, TypeOK
  <2>2. ProcessInv' /\ ExecutableChildren' = ExecutableChildren
    BY <2>1, <1>same DEF Started, Ended
  <2> QED BY <2>1, <2>2, <1>inv, <1>finite DEF Excess, Counted
<1>7. CASE Return \/ UNCHANGED vars
  <2>1. /\ UNCHANGED <<forked, handling, to_wait, result, pid, proc, sigusr1>>
        /\ pc' # "dead" /\ (pc' = "record" <=> pc = "record")
    BY <1>7, <1>inv DEF Return, vars, ProcessInv, ChildInv
  <2>2. ProcessInv' /\ ExecutableChildren' = ExecutableChildren
    BY <2>1, <1>same DEF Started, Ended
  <2> QED BY <2>1, <2>2, <1>counted
<1>8. CASE HandleCompleted
  <2>1. UNCHANGED <<forked, to_wait, pid, proc, sigusr1>> /\ pc = "handle"
    BY <1>8 DEF HandleCompleted
  <2>2. frame[1] \in Nodes \ Executables
    BY <2>1, <1>8, <1>inv DEF HandleCompleted, ControlInv, Executables
  <2>3. result[frame[2]].exit_code \in Statuses /\ Exit(0) \in Statuses
    BY <2>1, <1>inv, StatusFacts DEF HandleInv, Ended
  <2>4. ASSUME NEW s \in Statuses, EndOperator(frame[1], s)
        PROVE  ProcessInv' /\ Counted
    <3>1. /\ \A m \in Nodes : Ended(m)' <=> Ended(m) \/ m = frame[1]
          /\ \A m \in Nodes : Started(m)' <=> Started(m)
          /\ UNCHANGED handling /\ pc' \in {"count", "handle"}
      BY <2>1, <2>4, EndEffect
    <3>2. /\ \A m \in Executables : Ended(m)' => Ended(m)
          /\ \A m \in Executables : Started(m)' => Started(m)
      BY <2>2, <3>1, <1>facts
    <3> QED BY <2>1, <3>1, <3>2, <1>same, <1>counted
  <2>5. ASSUME pc' \in {"async", "count"}, UNCHANGED <<handling, result>>
        PROVE  ProcessInv' /\ Counted
    BY <2>1, <2>5, <1>same, <1>counted DEF Started, Ended
  <2> QED
    BY <1>8, <2>3, <2>4, <2>5 DEF HandleCompleted, ExecuteNext
<1>9. ASSUME NEW p \in Pids, Child(p) PROVE ProcessInv' /\ Counted
  <2>1. /\ UNCHANGED <<pc, forked, handling, to_wait, result, pid>>
        /\ proc[p].state \in {"child", "failed", "running"}
        /\ \A q \in Pids : q # p => proc'[q] = proc[q]
        /\ proc'[p].node = proc[p].node
        /\ proc'[p].state \in {"failed", "running", "zombie"}
        /\ proc'[p].state = "failed" => proc[p].state = "child"
    BY <1>9, <1>inv
    DEF Child, ChildCannotInvoke, ChildExitsAfterFailure, ChildCannotRedirect,
        ChildInvokes, ProcessExits, parentVars, TypeOK, Processes
  <2>2. Forked' = Forked /\ ExecutableChildren' = ExecutableChildren
    BY <2>1, <1>const, <1>children DEF Forked
  <2>3. sigusr1' = sigusr1 \/ (proc[p].state = "child" /\ sigusr1' = p)
    BY <1>9 DEF Child, ChildCannotInvoke, ChildExitsAfterFailure, ChildCannotRedirect,
                ChildInvokes, ProcessExits, SignalParent
  <2>4. sigusr1' \in ExecutableChildren' \cup {NoPid}
    BY <2>1, <2>2, <2>3, <1>inv, <1>children DEF ProcessInv, ForkedInv, ChildInv
  <2>5. \A q \in Pids : proc'[q].state \in {"child", "failed"} => q \in Forked
    BY <2>1, <1>inv DEF ProcessInv, ForkedInv
  <2>6. \A m \in Nodes : (Started(m)' <=> Started(m)) /\ (Ended(m)' <=> Ended(m))
    BY <2>1 DEF Started, Ended
  <2>7. \A q \in Forked : proc'[q].node = proc[q].node
    BY <2>1 DEF Forked
  <2>8. pc' # "dead"
    BY <2>1, <1>inv DEF ProcessInv, ChildInv
  <2> QED BY <2>1, <2>2, <2>4, <2>5, <2>6, <2>7, <2>8, <1>facts, <1>keep, <1>counted
<1>10. CASE DeliverSigusr1
  <2>1. PICK n : n = NodeWithPid(sigusr1)
    OBVIOUS
  <2>2. NodesWithPid(sigusr1) # {} => n \in Nodes /\ result[n] # NoResult
    BY <1>10, <2>1, <1>inv, <1>facts, FoundHasPid DEF DeliverSigusr1
  <2>3. /\ UNCHANGED <<pc, forked, handling, to_wait, pid, proc>> /\ sigusr1' = NoPid
        /\ \/ result' = result
           \/ n \in Nodes /\ result[n] # NoResult
              /\ result' = [result EXCEPT ![n].invocation_failed = TRUE]
    BY <1>10, <2>1, <2>2 DEF DeliverSigusr1
  <2>4. \A m \in Nodes : Started(m) => result'[m] # NoResult
    <3>1. \A m \in Nodes : result'[m] = result[m] \/ result'[m].invocation_failed
      BY <2>3, <1>inv DEF TypeOK, Results
    <3>2. ~NoResult.invocation_failed
      BY DEF NoResult
    <3> QED BY <3>1, <3>2 DEF Started
  <2>5. \A m \in Nodes : result'[m].exit_code = result[m].exit_code
    BY <2>3, <1>inv DEF TypeOK, Results
  <2>6. /\ \A m \in Nodes : Started(m) <=> Started(m)'
        /\ \A m \in Executables : Ended(m)' => Ended(m)
    <3>1. \A m \in Nodes : ~Started(m) => result'[m] = NoResult
      BY <2>3, <1>inv DEF TypeOK, Started
    <3> QED BY <2>4, <2>5, <3>1, <1>facts DEF Started, Ended
  <2> QED BY <2>3, <2>6, <1>facts, <1>same, <1>counted
<1>11. CASE KilledBySigusr1
  BY <1>11 DEF KilledBySigusr1
<1> QED
  BY <1>2, <1>3, <1>4, <1>5, <1>6, <1>7, <1>8, <1>9, <1>10, <1>11
  DEF Next, Parent, Loop, Signal, WaitFindsNoChild, Terminated

-----------------------------------------------------------------------------
(* The invariant.                                                          *)

LEMMA CoreInit == Init => CoreInv
<1> SUFFICES ASSUME Init PROVE CoreInv
  OBVIOUS
<1>1. TypeInv /\ IsTree(tree)
  BY TypeInit, TreesAssumption DEF Init
<1>2. Forked = {} /\ ExecutableChildren = {}
  BY DEF Init, Forked, ExecutableChildren, Unreaped, Process
<1>3. \A n \in Nodes : ~Started(n) /\ ~Ended(n)
  BY StatusFacts DEF Init, Started, Ended
<1>4. ProcessInv
  <2>1. PidInv
    BY <1>1, <1>2, <1>3, TreeFacts DEF Init, PidInv, Recorded
  <2>2. ForkedInv /\ ChildInv
    BY <1>2 DEF Init, ForkedInv, ChildInv, Process
  <2> QED BY <2>1, <2>2 DEF ProcessInv
<1>5. EvaluationInv /\ HandleInv
  BY <1>1, <1>3, TreeFacts
  DEF Init, EvaluationInv, TodoInv, OrderInv, SequenceInv, PipeInv, HandleInv
<1>6. Excess \in Nat
  BY <1>2, FS_EmptySet DEF Init, Excess
<1> QED BY <1>1, <1>4, <1>5, <1>6 DEF CoreInv

LEMMA CoreNext == ~ReusePids /\ CoreInv /\ [Next]_vars /\ pc' # "dead" => CoreInv'
<1> SUFFICES ASSUME ~ReusePids, CoreInv, [Next]_vars, pc' # "dead" PROVE CoreInv'
  OBVIOUS
<1>1. TypeInv'
  BY TypeNext DEF CoreInv
<1>2. EvaluationInv' /\ HandleInv'
  BY EvaluationNext
<1>3. ProcessInv' /\ Counted
  BY ProcessNext
<1>4. Excess' \in Nat
  BY <1>3 DEF Counted, CoreInv
<1> QED BY <1>1, <1>2, <1>3, <1>4 DEF CoreInv

\* What the tool dies of: the pid of a child is in a node that has no result.
LEMMA Death ==
    ASSUME CoreInv, [Next]_vars, pc' = "dead"
    PROVE  /\ \E p \in Pids : /\ proc[p].state # "none"
                              /\ NodesWithPid(p) # {}
                              /\ result[NodeWithPid(p)] = NoResult
           /\ pid' = pid
           /\ \A p \in Pids : proc'[p].node = proc[p].node
           /\ Unreaped' \subseteq Unreaped /\ result' = result
<1>inv. TypeOK /\ ControlInv /\ ProcessInv /\ HandleInv /\ to_wait \in Nat /\ pc # "dead"
        /\ Excess \in Nat
  BY DEF CoreInv, TypeInv, TypeOK, ProcessInv, ChildInv
<1>1. ASSUME NEW p \in Pids, ReapNode(p)
      PROVE  /\ proc[p].state # "none"
             /\ NodesWithPid(p) # {} /\ result[NodeWithPid(p)] = NoResult
             /\ pid' = pid
             /\ \A q \in Pids : proc'[q].node = proc[q].node
             /\ Unreaped' \subseteq Unreaped /\ result' = result
  <2>1. /\ NodesWithPid(p) # {} /\ result[NodeWithPid(p)] = NoResult
        /\ proc[p].state = "zombie" /\ proc' = [proc EXCEPT ![p].state = "reaped"]
        /\ pid' = pid /\ result' = result
    BY <1>1 DEF ReapNode, WaitReturns, SegmentationFault
  <2>2. /\ \A q \in Pids : proc'[q].node = proc[q].node
        /\ Unreaped' \subseteq Unreaped
    BY <2>1, <1>inv DEF TypeOK, Processes, Unreaped
  <2> QED BY <2>1, <2>2
<1>2. CASE DeliverSigusr1
  <2>1. /\ NodesWithPid(sigusr1) # {} /\ result[NodeWithPid(sigusr1)] = NoResult
        /\ sigusr1 # NoPid /\ proc' = proc /\ pid' = pid /\ result' = result
    BY <1>2, <1>inv DEF DeliverSigusr1
  <2>2. sigusr1 \in Pids /\ proc[sigusr1].state # "none"
    BY <2>1, <1>inv DEF ProcessInv, ChildInv, ExecutableChildren, Unreaped
  <2> QED BY <2>1, <2>2 DEF Unreaped
<1>3. ~KilledBySigusr1
  <2> SUFFICES ASSUME KilledBySigusr1 PROVE FALSE
    OBVIOUS
  <2>1. to_wait = 0 /\ ~handling /\ sigusr1 \in ExecutableChildren
    BY <1>inv DEF KilledBySigusr1, ControlInv, ProcessInv, ChildInv
  <2>2. IsFiniteSet(ExecutableChildren) /\ Cardinality(ExecutableChildren) \in Nat
    BY PidsAssumption, FS_Subset, FS_CardinalityType DEF ExecutableChildren, Unreaped
  <2>3. Cardinality(ExecutableChildren) = 0
    BY <2>1, <2>2, <1>inv DEF Excess
  <2> QED BY <2>1, <2>2, <2>3, FS_EmptySet
<1>4. ~HandleCompleted
  <2> SUFFICES ASSUME HandleCompleted PROVE FALSE
    OBVIOUS
  <2>1. pc = "handle" /\ result[frame[1]] # NoResult
    BY <1>inv DEF HandleCompleted, HandleInv, Started
  <2> QED BY <2>1 DEF HandleCompleted, ExecuteNext, EndOperator
<1>5. ~(ExecuteAsync \/ RecordPid \/ CountDown \/ Return \/ UNCHANGED vars)
  BY <1>inv
  DEF ExecuteAsync, StartPipe, StartSequence, ForkExecutable, ForkFails, AppenderCannotRedirect,
      RecordPid, CountDown, Return, AfterAsync, vars
<1>6. \A p \in Pids : ~ReapUnknown(p) /\ ~Child(p)
  BY <1>inv
  DEF ReapUnknown, WaitReturns, Child, ChildCannotInvoke, ChildExitsAfterFailure,
      ChildCannotRedirect, ChildInvokes, ProcessExits, parentVars
<1> QED
  BY <1>1, <1>2, <1>3, <1>4, <1>5, <1>6
  DEF Next, Parent, Loop, Signal, WaitFindsNoChild, Terminated

\* Where no node has the pid of another one's child, the tool goes on.
LEMMA NeverDead ==
    ASSUME Inv, [Next]_vars
    PROVE  pc' # "dead"
<1> SUFFICES ASSUME pc' = "dead" PROVE FALSE
  OBVIOUS
<1>1. PICK p \in Pids : NodesWithPid(p) # {} /\ result[NodeWithPid(p)] = NoResult
  BY Death DEF Inv
<1>2. NodeWithPid(p) \in Executables /\ pid[NodeWithPid(p)] = p
  BY <1>1, FoundHasPid DEF Inv, CoreInv, TypeInv, TypeOK
<1>3. proc[p].node = NodeWithPid(p) /\ p \in Forked
  BY <1>2 DEF Inv, HeapInv
<1> QED BY <1>1, <1>3 DEF Inv, CoreInv, ProcessInv, ForkedInv, Started

\* The kernel forgets no child, as long as no pid is used again.
LEMMA ForkedStays ==
    ASSUME ~ReusePids, TypeOK, [Next]_vars, NEW p \in Forked
    PROVE  p \in Forked' /\ proc'[p].node = proc[p].node
<1>1. Executables' = Executables /\ p \in Pids /\ proc[p].state # "none"
  BY TreeConstant DEF Forked
<1>2. ASSUME NEW q \in FreePids, NEW n, NEW st, proc' = [proc EXCEPT ![q] = Process(n, st)]
      PROVE  proc'[p] = proc[p]
  <2>1. q # p
    BY <1>1 DEF FreePids
  <2> QED BY <1>1, <1>2, <2>1 DEF TypeOK
<1>3. proc' = proc => proc'[p] = proc[p]
  OBVIOUS
<1>4. CASE ExecuteAsync
  <2>1. PICK n : n = First(todo)
    OBVIOUS
  <2>2. \/ proc' = proc
        \/ \E q \in FreePids, st \in {"running", "child"} : proc' = [proc EXCEPT ![q] = Process(n, st)]
    BY <1>4, <2>1
    DEF ExecuteAsync, StartPipe, StartSequence, AppenderCannotRedirect, ForkExecutable, ForkFails
  <2> QED BY <1>1, <1>2, <2>2 DEF Forked
<1>5. ASSUME NEW q \in Pids, ReapUnknown(q) \/ ReapNode(q) \/ Child(q)
      PROVE  proc'[p].node = proc[p].node /\ proc'[p].state # "none"
  BY <1>1, <1>5
  DEF ReapUnknown, ReapNode, WaitReturns, Child, ChildCannotInvoke, ChildExitsAfterFailure,
      ChildCannotRedirect, ChildInvokes, ProcessExits, TypeOK, Processes
<1>6. CASE RecordPid \/ CountDown \/ Return \/ HandleCompleted \/ Signal \/ UNCHANGED vars
  BY <1>1, <1>6
  DEF RecordPid, CountDown, Return, HandleCompleted, Signal, DeliverSigusr1, KilledBySigusr1,
      vars, Forked
<1> QED
  BY <1>1, <1>4, <1>5, <1>6
  DEF Next, Parent, Loop, WaitFindsNoChild, Terminated, Forked

LEMMA HeapNext == NoStray /\ Inv /\ [Next]_vars => HeapInv'
<1> SUFFICES ASSUME NoStray, Inv, [Next]_vars, NEW n \in Executables, pid'[n] \in Pids
             PROVE  pid'[n] \in Forked' /\ proc'[pid'[n]].node = n
  BY TreeConstant DEF HeapInv
<1>inv. TypeOK /\ ControlInv /\ ProcessInv /\ n \in Nodes
  BY DEF Inv, CoreInv, TypeInv, Executables
<1>1. pid'[n] \in Forked /\ proc[pid'[n]].node = n
  <2>1. CASE pid' = pid
    BY <2>1 DEF Inv, HeapInv
  <2>2. CASE RecordPid
    <3>1. /\ pc = "record" /\ forked[1] \in Executables /\ pid' = [pid EXCEPT ![forked[1]] = forked[2]]
          /\ forked[2] \in Forked /\ proc[forked[2]].node = forked[1]
      BY <2>2, <1>inv DEF RecordPid, ControlInv, ProcessInv, PidInv
    <3>2. CASE n = forked[1]
      BY <3>1, <3>2, <1>inv DEF TypeOK
    <3>3. CASE n # forked[1]
      BY SMTT(60), <3>1, <3>3, <1>inv DEF TypeOK, Inv, HeapInv
    <3> QED BY <3>2, <3>3
  <2>3. pid' = pid \/ RecordPid
    BY DEF Next, Parent, Loop, ExecuteAsync, HandleCompleted, ReapUnknown, ReapNode, CountDown,
           Return, WaitFindsNoChild, Child, ChildCannotInvoke, ChildExitsAfterFailure,
           ChildCannotRedirect, ChildInvokes, ProcessExits, parentVars, Signal, DeliverSigusr1,
           KilledBySigusr1, Terminated, vars
  <2> QED BY <2>1, <2>2, <2>3
<1> QED BY <1>1, <1>inv, ForkedStays DEF NoStray

LEMMA InvInit == NoStray /\ Init => Inv
<1> SUFFICES ASSUME NoStray, Init PROVE Inv
  OBVIOUS
<1>1. HeapInv
  BY TreesAssumption, TreeFacts DEF Init, HeapInv, NoStray
<1> QED BY <1>1, CoreInit DEF Inv

LEMMA InvNext == NoStray /\ Inv /\ [Next]_vars => Inv'
<1> SUFFICES ASSUME NoStray, Inv, [Next]_vars PROVE Inv'
  OBVIOUS
<1>1. CoreInv'
  BY NeverDead, CoreNext DEF Inv, NoStray
<1> QED BY <1>1, HeapNext DEF Inv

LEMMA InvAlways == NoStray => (Spec => []Inv)
<1> SUFFICES ASSUME NoStray PROVE Spec => []Inv
  OBVIOUS
<1>1. Init => Inv
  BY InvInit
<1>2. Inv /\ [Next]_vars => Inv'
  BY InvNext
<1> QED BY <1>1, <1>2, PTL DEF Spec

-----------------------------------------------------------------------------
(* What a pid that is in a node by chance can do.                          *)

\* malloc() has left the pid of another process in a node, or what names one by now.
Stray == \E n \in Executables : pid[n] \in Pids /\ proc[pid[n]].node # n

Died == pc = "dead" /\ Stray

LEMMA DeathIsStray == CoreInv /\ [Next]_vars /\ pc' = "dead" => Died'
<1> SUFFICES ASSUME CoreInv, [Next]_vars, pc' = "dead" PROVE Stray'
  BY DEF Died
<1>1. PICK p \in Pids : /\ proc[p].state # "none" /\ NodesWithPid(p) # {}
                        /\ result[NodeWithPid(p)] = NoResult
  BY Death
<1>2. NodeWithPid(p) \in Executables /\ pid[NodeWithPid(p)] = p
  BY <1>1, FoundHasPid DEF CoreInv, TypeInv, TypeOK
<1>3. proc[p].node # NodeWithPid(p)
  BY <1>1, <1>2 DEF CoreInv, ProcessInv, ForkedInv, Forked, Started
<1>4. pid' = pid /\ proc'[p].node = proc[p].node /\ Executables' = Executables
  BY Death, TreeConstant
<1> QED BY <1>2, <1>3, <1>4 DEF Stray

\* The dead tool changes nothing any more, and its children only end.
LEMMA DiedStays ==
    ASSUME TypeOK, Died, [Next]_vars
    PROVE  /\ Died'
           /\ \A p \in Pids : proc'[p].node = proc[p].node
           /\ Unreaped' \subseteq Unreaped /\ result' = result
<1>1. /\ pc' = "dead" /\ pid' = pid /\ \A p \in Pids : proc'[p].node = proc[p].node
      /\ Unreaped' \subseteq Unreaped /\ result' = result
  <2>1. CASE UNCHANGED vars
    BY <2>1 DEF vars, Died, Unreaped
  <2>2. ASSUME NEW p \in Pids, Child(p)
        PROVE  /\ pc' = pc /\ pid' = pid /\ \A q \in Pids : proc'[q].node = proc[q].node
               /\ Unreaped' \subseteq Unreaped /\ result' = result
    BY SMTT(60), <2>2
    DEF Child, ChildCannotInvoke, ChildExitsAfterFailure, ChildCannotRedirect, ChildInvokes,
        ProcessExits, parentVars, TypeOK, Processes, Unreaped
  <2>3. ~Parent /\ ~Signal /\ ~WaitFindsNoChild
    BY DEF Died, Parent, ExecuteAsync, RecordPid, HandleCompleted, Loop, ReapUnknown, ReapNode,
           WaitReturns, CountDown, Return, Signal, DeliverSigusr1, Alive, KilledBySigusr1,
           WaitFindsNoChild
  <2> QED BY <2>1, <2>2, <2>3 DEF Next, Terminated, Died
<1> QED BY <1>1, TreeConstant DEF Died, Stray

\* Whatever malloc() has left in the nodes, as long as the kernel uses no pid again.
LEMMA CoreAlways == ~ReusePids => (Spec => []((CoreInv \/ Died) /\ TypeOK))
<1> SUFFICES ASSUME ~ReusePids PROVE Spec => []((CoreInv \/ Died) /\ TypeOK)
  OBVIOUS
<1>1. Init => CoreInv
  BY CoreInit
<1>2. (CoreInv \/ Died) /\ TypeOK /\ [Next]_vars => (CoreInv \/ Died)'
  BY CoreNext, DeathIsStray, DiedStays
<1> QED BY <1>1, <1>2, TypeCorrect, PTL DEF Spec

-----------------------------------------------------------------------------
(* The theorems.                                                           *)

\* to_wait never loses count of the executables still to be waited for, for
\* any tree, when forks succeed and no pid is stray.
THEOREM ToWaitCorrect == NoStray /\ ~ForkMayFail => (Spec => []ToWaitCounts)
<1> SUFFICES ASSUME NoStray, ~ForkMayFail PROVE Spec => []ToWaitCounts
  OBVIOUS
<1>1. Inv => (ToWaitCounts <=> Excess = 0)
  <2> SUFFICES ASSUME Inv PROVE ToWaitCounts <=> Excess = 0
    OBVIOUS
  <2>1. Cardinality(ExecutableChildren) \in Nat /\ to_wait \in Nat /\ handling \in BOOLEAN
    BY PidsAssumption, FS_Subset, FS_CardinalityType
    DEF ExecutableChildren, Unreaped, Inv, CoreInv, TypeInv, TypeOK
  <2> QED BY <2>1 DEF ToWaitCounts, Excess
<1>2. Init => Excess = 0
  <2> SUFFICES ASSUME Init PROVE Excess = 0
    OBVIOUS
  <2>1. ExecutableChildren = {}
    BY DEF Init, ExecutableChildren, Unreaped, Process
  <2> QED BY <2>1, FS_EmptySet DEF Init, Excess
<1>3. Inv /\ Excess = 0 /\ [Next]_vars => (Excess = 0)'
  BY ProcessNext, NeverDead DEF Counted, Inv, NoStray
<1> QED BY InvAlways, <1>1, <1>2, <1>3, PTL DEF Spec

\* execute() never returns with an executable running or a signal pending, not
\* even after a fork() that failed.
THEOREM QuietReturn == ~ReusePids => (Spec => []QuietAtReturn)
<1>1. CoreInv \/ Died => QuietAtReturn
  <2> SUFFICES ASSUME CoreInv, pc = "returned"
               PROVE  ExecutableChildren = {} /\ sigusr1 = NoPid
    BY DEF QuietAtReturn, Died
  <2>1. to_wait = 0 /\ ~handling
    BY DEF CoreInv, TypeInv, ControlInv
  <2>2. IsFiniteSet(ExecutableChildren) /\ Cardinality(ExecutableChildren) \in Nat
    BY PidsAssumption, FS_Subset, FS_CardinalityType DEF ExecutableChildren, Unreaped
  <2>3. ExecutableChildren = {}
    BY <2>1, <2>2, FS_EmptySet DEF CoreInv, Excess
  <2> QED BY <2>3 DEF CoreInv, ProcessInv, ChildInv
<1> QED BY CoreAlways, <1>1, PTL

\* No exit code is ever overwritten: no step ends a node twice or starts a node
\* that has ended.
LEMMA FinalNext ==
    ASSUME CoreInv, [Next]_vars, NEW n \in Nodes, Ended(n)
    PROVE  result'[n].exit_code = result[n].exit_code
<1>1. TypeOK /\ IsTree(tree) /\ ControlInv /\ HandleInv /\ result \in [Nodes -> Results]
  BY DEF CoreInv, TypeInv, TypeOK
<1>2. CASE ExecuteAsync
  <2>1. PICK m \in todo : m = First(todo)
    BY <1>2, StartEffect DEF CoreInv
  <2>2. m # n
    BY <1>1, <1>2, <2>1, StartEffect, EndedIsStarted DEF CoreInv
  <2>3. \/ result' = [result EXCEPT ![m] = NewResult]
        \/ result' = [result EXCEPT ![m] = NoResult]
    BY <1>2, <2>1
    DEF ExecuteAsync, StartPipe, StartSequence, AppenderCannotRedirect,
        ForkExecutable, ForkFails
  <2> QED BY <1>1, <2>2, <2>3
<1>3. ASSUME NEW p \in Pids, ReapNode(p)
      PROVE  result'[n].exit_code = result[n].exit_code
  <2>1. PICK m : m = proc[p].node
    OBVIOUS
  <2>2. CASE pc' = "dead"
    BY <2>2, Death
  <2>3. CASE pc' # "dead"
    <3>1. m # n /\ result' = [result EXCEPT ![m].exit_code = proc[p].status]
      BY <1>3, <2>1, <2>3, ReapEffect
    <3> QED BY <1>1, <3>1
  <2> QED BY <2>2, <2>3
<1>4. CASE HandleCompleted
  <2>1. PICK m : m = frame[1]
    OBVIOUS
  <2>2. ASSUME NEW s \in Statuses, EndOperator(m, s),
               \/ IsSequence(m)
               \/ tree.type[m] = "Pipe" /\ LaterOperands(m, frame[2]) = {}
        PROVE  result'[n].exit_code = result[n].exit_code
    <3>1. m # n
      BY <1>1, <1>4, <2>1, <2>2 DEF HandleCompleted, HandleInv
    <3>2. result' = [result EXCEPT ![m].exit_code = s]
      BY <1>4, <2>1, <2>2, EndEffect DEF HandleCompleted
    <3> QED BY <1>1, <3>1, <3>2
  <2>3. result[frame[2]].exit_code \in Statuses /\ Exit(0) \in Statuses
    BY <1>1, <1>4, StatusFacts DEF HandleCompleted, HandleInv, Ended
  <2>4. \/ result' = result
        \/ \E s \in Statuses :
             /\ EndOperator(m, s)
             /\ \/ IsSequence(m)
                \/ tree.type[m] = "Pipe" /\ LaterOperands(m, frame[2]) = {}
    BY <1>4, <2>1, <2>3 DEF HandleCompleted, ExecuteNext, IsSequence, SequenceTypes
  <2> QED BY <2>2, <2>4
<1>5. CASE DeliverSigusr1
  BY SMTT(60), <1>1, <1>5 DEF DeliverSigusr1, Results
<1>6. CASE \/ RecordPid \/ CountDown \/ Return \/ KilledBySigusr1
           \/ \E p \in Pids : ReapUnknown(p) \/ Child(p)
           \/ UNCHANGED vars
  BY <1>6
  DEF RecordPid, CountDown, Return, KilledBySigusr1, ReapUnknown, Child, vars,
      parentVars, ChildCannotInvoke, ChildExitsAfterFailure, ChildCannotRedirect,
      ChildInvokes, ProcessExits
<1> QED
  BY <1>2, <1>3, <1>4, <1>5, <1>6
  DEF Next, Parent, Loop, Signal, WaitFindsNoChild, Terminated

THEOREM ResultsFinal == ~ReusePids => (Spec => ResultsAreFinal)
<1>1. (CoreInv \/ Died) /\ TypeOK /\ [Next]_vars =>
        [\A n \in Nodes : result[n].exit_code \in Statuses =>
           result'[n].exit_code = result[n].exit_code]_vars
  BY FinalNext, DiedStays DEF Ended
<1> QED BY CoreAlways, <1>1, PTL DEF Spec, ResultsAreFinal

\* Wherever a child has been waited for, its status is in its own node.
THEOREM ResultsInPlace == NoStray => (Spec => []ResultsGoToExecutedNode)
<1> SUFFICES ASSUME NoStray PROVE Spec => []ResultsGoToExecutedNode
  OBVIOUS
<1>1. Init => ResultsGoToExecutedNode
  BY DEF Init, ResultsGoToExecutedNode, Process
<1>2. Inv /\ ResultsGoToExecutedNode /\ [Next]_vars => ResultsGoToExecutedNode'
  <2> SUFFICES ASSUME Inv, ResultsGoToExecutedNode, [Next]_vars,
                      NEW p \in Pids, proc'[p].state = "reaped",
                      NEW n \in Executables, n = proc'[p].node
               PROVE  result'[n].exit_code = proc'[p].status
    BY TreeConstant DEF ResultsGoToExecutedNode
  <2>1. TypeOK /\ n \in Nodes
    BY DEF Inv, CoreInv, TypeInv, Executables
  <2>2. CASE proc'[p] = proc[p]
    <3>1. result[n].exit_code = proc[p].status /\ Ended(n)
      BY <2>1, <2>2 DEF ResultsGoToExecutedNode, Ended, TypeOK, Processes
    <3> QED BY <2>1, <2>2, <3>1, FinalNext DEF Inv
  <2>3. CASE proc'[p] # proc[p]
    <3>1. ReapNode(p) \/ ReapUnknown(p)
      <4>1. ASSUME NEW q \in Pids, ReapNode(q) \/ ReapUnknown(q)
            PROVE  q = p
        BY <2>1, <2>3, <4>1 DEF ReapNode, ReapUnknown, WaitReturns, TypeOK
      <4>2. ASSUME NEW q \in Pids, Child(q)
            PROVE  FALSE
        BY <2>1, <2>3, <4>2
        DEF Child, ChildCannotInvoke, ChildExitsAfterFailure, ChildCannotRedirect,
            ChildInvokes, ProcessExits, TypeOK, Processes
      <4>3. ~ExecuteAsync
        <5> SUFFICES ASSUME ExecuteAsync PROVE FALSE
          OBVIOUS
        <5>1. PICK m : m = First(todo)
          OBVIOUS
        <5>2. PICK q \in Pids, s \in {"running", "child"} : proc' = [proc EXCEPT ![q] = Process(m, s)]
          BY <2>3, <5>1
          DEF ExecuteAsync, StartPipe, StartSequence, AppenderCannotRedirect,
              ForkExecutable, ForkFails, FreePids
        <5> QED BY <2>1, <2>3, <5>2 DEF TypeOK, Process
      <4>4. proc' # proc
        BY <2>3
      <4> QED
        BY <4>1, <4>2, <4>3, <4>4
        DEF Next, Parent, Loop, Signal, WaitFindsNoChild, Terminated, RecordPid,
            CountDown, Return, HandleCompleted, DeliverSigusr1, KilledBySigusr1, vars
    <3>2. /\ proc[p].state = "zombie" /\ pc = "wait"
          /\ proc' = [proc EXCEPT ![p].state = "reaped"]
      BY <3>1 DEF ReapNode, ReapUnknown, WaitReturns
    <3>3. proc'[p].node = proc[p].node /\ proc'[p].status = proc[p].status
      BY <2>1, <3>2 DEF TypeOK, Processes
    <3>4. pid[n] = p
      BY <3>2, <3>3 DEF Inv, CoreInv, ProcessInv, PidInv, Forked
    <3>5. ReapNode(p)
      BY <3>1, <3>4 DEF ReapUnknown, NodesWithPid
    <3>6. result' = [result EXCEPT ![n].exit_code = proc[p].status]
      BY <3>3, <3>5, ReapEffect, NeverDead DEF Inv
    <3> QED BY <2>1, <3>3, <3>6 DEF TypeOK, Results
  <2> QED BY <2>2, <2>3
<1> QED BY InvAlways, <1>1, <1>2, PTL DEF Spec

\* While no pid is stray nothing kills the tool: neither a NULL result, through
\* which assign_results() or the handler would write, nor a late SIGUSR1.
THEOREM NeverDies == NoStray => (Spec => [](pc # "dead"))
<1>1. Inv => pc # "dead"
  BY DEF Inv, CoreInv, ProcessInv, ChildInv
<1> QED BY InvAlways, <1>1, PTL

\* The only thing that kills the tool is a pid field that names another node's child:
\* no fork() that fails, no late SIGUSR1, and no order in which the children end.
THEOREM DeathByStrayPid == ~ReusePids => (Spec => []DiesOnlyByStrayPid)
<1>1. CoreInv \/ Died => DiesOnlyByStrayPid
  BY DEF CoreInv, ProcessInv, ChildInv, Died, Stray, DiesOnlyByStrayPid
<1> QED BY CoreAlways, <1>1, PTL

\* A pending SIGUSR1 was sent by a child that could not invoke its executable,
\* which is then past its start.
SignalInv ==
    /\ sigusr1 # NoPid => proc[sigusr1].failure = "invocation"
    /\ \A p \in Pids :
         proc[p].failure = "invocation" => proc[p].state \in {"failed", "zombie", "reaped"}

LEMMA InvocationNext ==
    ASSUME NoStray, Inv, SignalInv, InvocationFailedIsTrue, [Next]_vars
    PROVE  SignalInv' /\ InvocationFailedIsTrue'
<1>inv. TypeOK /\ ControlInv /\ HandleInv /\ ProcessInv /\ IsTree(tree)
  BY DEF Inv, CoreInv, TypeInv, TypeOK
<1>const. tree' = tree /\ Nodes' = Nodes /\ Executables' = Executables
  BY TreeConstant
<1>facts. Executables \subseteq Nodes /\ NoPid \notin Pids /\ sigusr1 \in Pids \cup {NoPid}
  BY <1>inv, TreeFacts, PidsAssumption DEF TypeOK
<1>keep. ASSUME \A n \in Executables :
                  result'[n].invocation_failed => result[n].invocation_failed,
                \A p \in Pids : proc[p].failure = "invocation" =>
                  /\ proc'[p].failure = "invocation" /\ proc'[p].node = proc[p].node
                  /\ proc'[p].state \in {"failed", "zombie", "reaped"},
                \A p \in Pids : proc'[p].failure = "invocation" =>
                  proc[p].failure = "invocation",
                sigusr1' \in {sigusr1, NoPid}
         PROVE  SignalInv' /\ InvocationFailedIsTrue'
  <2>1. SignalInv'
    BY <1>keep, <1>facts DEF SignalInv
  <2>2. InvocationFailedIsTrue'
    BY <1>keep, <1>const DEF InvocationFailedIsTrue
  <2> QED BY <2>1, <2>2
<1>2. CASE ExecuteAsync
  <2>1. PICK n \in todo : n = First(todo)
    BY <1>2, StartEffect DEF Inv, CoreInv
  <2>2. n \in Nodes /\ sigusr1' = sigusr1
    BY <1>2, <2>1, <1>inv DEF ExecuteAsync, TypeOK
  <2>3. \/ result' = [result EXCEPT ![n] = NewResult]
        \/ result' = [result EXCEPT ![n] = NoResult]
    BY <1>2, <2>1
    DEF ExecuteAsync, StartPipe, StartSequence, AppenderCannotRedirect, ForkExecutable,
        ForkFails
  <2>4. \A m \in Executables : result'[m].invocation_failed => result[m].invocation_failed
    BY <2>2, <2>3, <1>inv, <1>facts DEF TypeOK, NewResult, NoResult
  <2>5. \/ proc' = proc
        \/ \E p \in FreePids, st \in {"running", "child"} :
             proc' = [proc EXCEPT ![p] = Process(n, st)]
    BY <1>2, <2>1
    DEF ExecuteAsync, StartPipe, StartSequence, AppenderCannotRedirect, ForkExecutable,
        ForkFails
  <2>6. \/ proc' = proc
        \/ \E p \in Pids : /\ proc[p].state = "none" /\ proc'[p].failure = "none"
                           /\ \A q \in Pids : q # p => proc'[q] = proc[q]
    BY <2>5, <1>inv DEF FreePids, NoStray, TypeOK, Process
  <2>7. \A p \in Pids : proc[p].failure = "invocation" => proc'[p] = proc[p]
    BY <2>6 DEF SignalInv
  <2>8. \A p \in Pids : proc'[p].failure = "invocation" => proc'[p] = proc[p]
    BY <2>6
  <2> QED BY <2>2, <2>4, <2>7, <2>8, <1>keep DEF SignalInv
<1>3. ASSUME NEW p \in Pids, ReapUnknown(p) \/ ReapNode(p)
      PROVE  SignalInv' /\ InvocationFailedIsTrue'
  <2>1. proc' = [proc EXCEPT ![p].state = "reaped"] /\ sigusr1' = sigusr1
    BY <1>3 DEF ReapUnknown, ReapNode, WaitReturns
  <2>2. /\ \A q \in Pids : q # p => proc'[q] = proc[q]
        /\ proc'[p].node = proc[p].node /\ proc'[p].failure = proc[p].failure
        /\ proc'[p].state = "reaped"
    BY <2>1, <1>inv DEF TypeOK, Processes
  <2>3. \/ result' = result
        \/ \E n \in Nodes : result' = [result EXCEPT ![n].exit_code = proc[p].status]
    <3>1. CASE ReapUnknown(p)
      BY <3>1 DEF ReapUnknown
    <3>2. CASE ReapNode(p)
      BY <3>2, <1>facts, ReapEffect, NeverDead DEF Inv
    <3> QED BY <1>3, <3>1, <3>2
  <2>4. \A n \in Executables : result'[n].invocation_failed = result[n].invocation_failed
    BY <2>3, <1>inv, <1>facts DEF TypeOK, Results
  <2> QED BY <2>1, <2>2, <2>4, <1>keep DEF SignalInv
<1>4. CASE HandleCompleted
  <2>1. UNCHANGED <<proc, sigusr1>>
    BY <1>4 DEF HandleCompleted
  <2>2. \/ result' = result
        \/ \E s : result' = [result EXCEPT ![frame[1]].exit_code = s]
    BY <1>4 DEF HandleCompleted, ExecuteNext, EndOperator, SegmentationFault
  <2>3. frame[1] \in Nodes
    BY <1>4, <1>inv DEF HandleCompleted, ControlInv
  <2>4. \A n \in Executables : result'[n].invocation_failed = result[n].invocation_failed
    BY <2>2, <2>3, <1>inv, <1>facts DEF TypeOK, Results
  <2> QED BY <2>1, <2>4, <1>keep DEF SignalInv
<1>5. ASSUME NEW p \in Pids, Child(p) PROVE SignalInv' /\ InvocationFailedIsTrue'
  <2>1. result' = result /\ \A q \in Pids : q # p => proc'[q] = proc[q]
    BY <1>5, <1>inv
    DEF Child, ChildCannotInvoke, ChildExitsAfterFailure, ChildCannotRedirect,
        ChildInvokes, ProcessExits, parentVars, TypeOK
  <2>2. CASE ChildCannotInvoke(p)
    <3>1. /\ proc[p].state = "child"
          /\ proc'[p].failure = "invocation" /\ proc'[p].state = "failed"
          /\ sigusr1' \in {sigusr1, p}
      BY <2>2, <1>inv DEF ChildCannotInvoke, SignalParent, TypeOK, Processes
    <3>2. SignalInv'
      BY <2>1, <3>1, <1>facts DEF SignalInv
    <3>3. \A q \in Pids : proc[q].failure = "invocation" => proc'[q] = proc[q]
      BY <2>1, <3>1 DEF SignalInv
    <3>4. InvocationFailedIsTrue'
      BY <2>1, <3>3, <1>const DEF InvocationFailedIsTrue
    <3> QED BY <3>2, <3>4
  <2>3. CASE ChildExitsAfterFailure(p) \/ ChildCannotRedirect(p) \/ ChildInvokes(p)
             \/ ProcessExits(p)
    <3>1. /\ sigusr1' = sigusr1
          /\ proc'[p].node = proc[p].node
          /\ \/ proc'[p].failure = proc[p].failure /\ proc'[p].state \in {"running", "zombie"}
             \/ proc[p].state = "child" /\ proc'[p].failure = "redirect"
          /\ proc'[p].state = "running" => proc[p].state = "child"
      BY <2>3, <1>inv
      DEF ChildExitsAfterFailure, ChildCannotRedirect, ChildInvokes, ProcessExits,
          TypeOK, Processes
    <3> QED BY <2>1, <3>1, <1>keep DEF SignalInv
  <2> QED BY <1>5, <2>2, <2>3 DEF Child
<1>6. CASE DeliverSigusr1
  <2>1. UNCHANGED proc /\ sigusr1' = NoPid /\ sigusr1 \in Pids
        /\ proc[sigusr1].failure = "invocation"
    BY <1>6, <1>facts DEF DeliverSigusr1, SignalInv
  <2>2. SignalInv'
    BY <2>1 DEF SignalInv
  <2>3. PICK n : n = NodeWithPid(sigusr1)
    OBVIOUS
  <2>4. ASSUME NodesWithPid(sigusr1) # {} PROVE n \in Executables /\ proc[sigusr1].node = n
    <3>1. NodesWithPid(sigusr1) \subseteq Nodes
      BY <1>facts DEF NodesWithPid
    <3>2. n \in NodesWithPid(sigusr1)
      BY <2>3, <2>4, <3>1, <1>inv, FirstNode DEF NodeWithPid
    <3> QED BY <2>1, <3>2, <1>inv DEF NodesWithPid, Inv, HeapInv
  <2>5. \/ result' = result
        \/ /\ NodesWithPid(sigusr1) # {}
           /\ result' = [result EXCEPT ![n].invocation_failed = TRUE]
    BY <1>6, <2>3 DEF DeliverSigusr1
  <2>6. ASSUME NEW m \in Executables, result'[m].invocation_failed
        PROVE  \E p \in Pids : proc'[p].node = m /\ proc'[p].failure = "invocation"
    <3>1. CASE result[m].invocation_failed
      BY <2>1, <3>1 DEF InvocationFailedIsTrue
    <3>2. CASE ~result[m].invocation_failed
      <4>1. m = n /\ NodesWithPid(sigusr1) # {}
        BY <2>5, <2>6, <3>2, <1>inv, <1>facts DEF TypeOK, Results
      <4> QED BY <2>1, <2>4, <4>1
    <3> QED BY <3>1, <3>2
  <2>7. InvocationFailedIsTrue'
    BY <2>6, <1>const DEF InvocationFailedIsTrue
  <2> QED BY <2>2, <2>7
<1>7. CASE RecordPid \/ CountDown \/ Return \/ KilledBySigusr1 \/ UNCHANGED vars
  <2>1. UNCHANGED <<proc, result>> /\ sigusr1' \in {sigusr1, NoPid}
    BY <1>7 DEF RecordPid, CountDown, Return, KilledBySigusr1, vars
  <2> QED BY <2>1, <1>keep DEF SignalInv
<1> QED
  BY <1>2, <1>3, <1>4, <1>5, <1>6, <1>7
  DEF Next, Parent, Loop, Signal, WaitFindsNoChild, Terminated

\* Every node marked invocation_failed is one whose own child could not chdir or
\* exec: no SIGUSR1 is charged to another node.
THEOREM InvocationFailuresTrue == NoStray => (Spec => []InvocationFailedIsTrue)
<1> SUFFICES ASSUME NoStray PROVE Spec => []InvocationFailedIsTrue
  OBVIOUS
<1>1. Init => SignalInv /\ InvocationFailedIsTrue
  <2> SUFFICES ASSUME Init PROVE SignalInv /\ InvocationFailedIsTrue
    OBVIOUS
  <2>1. SignalInv
    BY DEF Init, SignalInv, Process
  <2>2. InvocationFailedIsTrue
    BY DEF Init, InvocationFailedIsTrue, Executables, NoResult
  <2> QED BY <2>1, <2>2
<1>2. Inv /\ SignalInv /\ InvocationFailedIsTrue /\ [Next]_vars =>
        SignalInv' /\ InvocationFailedIsTrue'
  BY InvocationNext
<1> QED BY InvAlways, <1>1, <1>2, PTL DEF Spec

\* Operands are started by their operators, so everything above a started node
\* was started.
LEMMA StartedAbove ==
    ASSUME IsTree(tree), OrderInv, NEW k \in Nodes, NEW n \in Nodes, Under(k, n), Started(n)
    PROVE  Started(k)
<1> DEFINE S == {m \in Nodes : Under(k, m) /\ Started(m)}
<1>1. Nodes \subseteq Nat /\ NoNode \notin Nodes
  BY TreeFacts
<1>2. ASSUME NEW m \in S, m # k PROVE \E j \in S : j < m
  <2>1. tree.father[m] \in Nodes /\ tree.father[m] < m /\ Under(k, tree.father[m])
    BY <1>2, FatherUnder
  <2>2. Started(tree.father[m])
    BY <1>1, <1>2, <2>1 DEF OrderInv
  <2> QED BY <2>1, <2>2
<1>3. S \in SUBSET Nat /\ S # {}
  BY <1>1
<1> HIDE DEF S
<1>4. k \in S
  BY <1>2, <1>3, Descent
<1> QED BY <1>4 DEF S

\* When a node without pipes under it has ended, so has every node under it that
\* was started.
LEMMA EndedBelow ==
    ASSUME IsTree(tree), OrderInv, SequenceInv, NEW k \in Nodes, Ended(k),
           \A m \in Nodes : Under(k, m) => tree.type[m] # "Pipe",
           NEW n \in Nodes, Under(k, n), Started(n)
    PROVE  Ended(n)
<1> DEFINE S == {m \in Nodes : Under(k, m) /\ Started(m) /\ ~Ended(m)}
<1>1. Nodes \subseteq Nat /\ NoNode \notin Nodes
  BY TreeFacts
<1>2. ASSUME NEW m \in S, m # k PROVE \E j \in S : j < m
  <2>1. tree.father[m] \in Nodes /\ tree.father[m] < m /\ Under(k, tree.father[m])
    BY <1>2, FatherUnder
  <2>2. Started(tree.father[m])
    BY <1>1, <1>2, <2>1 DEF OrderInv
  <2>3. IsSequence(tree.father[m])
    <3>1. tree.type[tree.father[m]] # "Pipe" /\ tree.father[m] \notin Executables
      BY <2>1, TreeFacts
    <3>2. tree.type[tree.father[m]] \in NodeTypes
      BY <2>1, TreeFacts
    <3> QED BY <2>1, <3>1, <3>2 DEF IsSequence, NodeTypes, Executables
  <2>4. ~Ended(tree.father[m])
    BY <1>2, <2>1, <2>3 DEF SequenceInv, Operands
  <2> QED BY <2>1, <2>2, <2>4
<1>3. S \in SUBSET Nat
  BY <1>1
<1>4. k \notin S
  OBVIOUS
<1> HIDE DEF S
<1>5. S = {}
  BY <1>2, <1>3, <1>4, Descent
<1> QED BY <1>5 DEF S

\* The operands of a sequence take turns: while an executable under one of them
\* runs, none under an earlier one that has no pipe is left.
THEOREM OperandsInTurn == ~ReusePids => (Spec => []OperandsTakeTurns)
<1> SUFFICES ASSUME ~ReusePids PROVE Spec => []OperandsTakeTurns
  OBVIOUS
<1>1. CoreInv => OperandsTakeTurns
  <2> SUFFICES ASSUME CoreInv, NEW p \in ExecutableChildren, NEW q \in ExecutableChildren,
                      NEW m \in Nodes, NEW s, s = tree.father[m], s # NoNode,
                      NEW a \in Nodes, a = proc[p].node, NEW b \in Nodes, b = proc[q].node,
                      Under(m, b), NEW k \in EarlierOperands(s, m),
                      tree.type[s] \in SequenceTypes,
                      \A n \in Nodes : Under(k, n) => tree.type[n] # "Pipe",
                      Under(k, a)
               PROVE  FALSE
    <3>1. \A r \in ExecutableChildren : proc[r].node \in Nodes
      BY DEF ExecutableChildren, Executables
    <3> QED BY <3>1 DEF OperandsTakeTurns
  <2>1. IsTree(tree) /\ OrderInv /\ SequenceInv /\ ForkedInv /\ ChildInv
    BY DEF CoreInv, TypeInv, TypeOK, EvaluationInv, ProcessInv
  <2>2. \A r \in ExecutableChildren : r \in Forked
    BY DEF ExecutableChildren, Unreaped, Forked
  <2>3. Started(a) /\ Started(b) /\ ~Ended(a)
    BY <2>1, <2>2 DEF ForkedInv, ChildInv
  <2>4. Started(m)
    BY <2>1, <2>3, StartedAbove
  <2>5. Ended(k) /\ k \in Nodes
    BY <2>1, <2>4 DEF OrderInv, IsSequence, EarlierOperands, Operands
  <2>6. Ended(a)
    BY <2>1, <2>3, <2>5, EndedBelow
  <2> QED BY <2>3, <2>6
<1>2. ASSUME OperandsTakeTurns, [Next]_vars, Unreaped' \subseteq Unreaped,
             \A p \in Pids : proc'[p].node = proc[p].node
      PROVE  OperandsTakeTurns'
  <2>1. /\ Nodes' = Nodes /\ tree' = tree
        /\ \A n, m : EarlierOperands(n, m)' = EarlierOperands(n, m)
        /\ ExecutableChildren' \subseteq ExecutableChildren
    BY <1>2, TreeConstant DEF ExecutableChildren, Unreaped
  <2>2. \A n, m : Under(n, m)' <=> Under(n, m)
    BY <2>1 DEF Under, Nodes
  <2>3. \A p \in ExecutableChildren : p \in Pids
    BY DEF ExecutableChildren, Unreaped
  <2> QED BY <1>2, <2>1, <2>2, <2>3 DEF OperandsTakeTurns
<1>3. (CoreInv \/ Died) /\ TypeOK /\ OperandsTakeTurns /\ [Next]_vars /\ Died'
        => OperandsTakeTurns'
  <2> SUFFICES ASSUME CoreInv \/ Died, TypeOK, OperandsTakeTurns, [Next]_vars, Died'
               PROVE  OperandsTakeTurns'
    OBVIOUS
  <2>1. CASE Died
    BY <2>1, <1>2, DiedStays
  <2>2. CASE CoreInv
    BY <2>2, <1>2, Death DEF Died
  <2> QED BY <2>1, <2>2
<1>4. Init => OperandsTakeTurns
  BY <1>1, CoreInit
<1> QED BY CoreAlways, <1>1, <1>3, <1>4, PTL DEF Spec

-----------------------------------------------------------------------------
(* Execute as an implementation of Evaluation.                             *)

\* No operator has lost every operand to the builtins.
FullTrees ==
    \A t \in Trees : \A n \in 1..t.size :
      t.type[n] # "Executable" => \E m \in 1..t.size : t.father[m] = n

\* The status of a node as the operator above it reads it.
Code(n) == IF Ended(n) THEN result[n].exit_code ELSE Uninitialised
EndedWell(n) == Ended(n) /\ ExitedCorrectly(result[n].exit_code)
EndedBadly(n) == Ended(n) /\ ~ExitedCorrectly(result[n].exit_code)

\* A node that was started, is about to be, or was lost with a failed fork(),
\* after which execute() does not return.
Awaited(n) == n \in todo \/ Started(n) \/ Excess > 0

\* The end of operand m is the end of its operator s.
Decides(s, m) ==
    \/ LaterOperands(s, m) = {}
    \/ tree.type[s] = "And" /\ EndedBadly(m)
    \/ tree.type[s] = "Or" /\ EndedWell(m)

\* What the operands before n must have come to for n to be started.
Called(n) ==
    LET father == tree.father[n] IN
    father # NoNode =>
      \A m \in EarlierOperands(father, n) :
        /\ tree.type[father] = "And" => EndedWell(m)
        /\ tree.type[father] = "Or" => EndedBadly(m)
        /\ tree.type[father] = "Semicolon" => Ended(m)

CodeInv ==   \* a result that exists holds a status or is still unset
    \A n \in Nodes :
      Started(n) => result[n].exit_code \in Statuses \cup {Uninitialised}

GuardInv ==   \* only nodes that are called for are started
    \A n \in Nodes : n \in todo \/ Started(n) => Called(n)

HeardInv ==   \* an operator has acted on the end of each of its operands
    \A n \in Nodes :
      LET father == tree.father[n] IN
      Ended(n) /\ father # NoNode =>
        \/ pc = "handle" /\ frame = <<father, n>>
        \/ Decides(father, n) /\ Ended(father)
        \/ /\ ~Decides(father, n)
           /\ IsSequence(father) => Awaited(First(LaterOperands(father, n)))

ResultInv ==   \* the status of an operator that has ended
    \A n \in Nodes :
      Ended(n) =>
        /\ tree.type[n] = "And" =>
             \/ \E m \in Operands(n) :
                  /\ EndedBadly(m) /\ Code(n) = Code(m)
                  /\ \A k \in EarlierOperands(n, m) : EndedWell(k)
             \/ Code(n) = Exit(0) /\ \A m \in Operands(n) : EndedWell(m)
        /\ tree.type[n] = "Or" =>
             \/ Code(n) = Exit(0) /\ \E m \in Operands(n) : EndedWell(m)
             \/ /\ \A m \in Operands(n) : EndedBadly(m)
                /\ \A m \in Operands(n) : LaterOperands(n, m) = {} => Code(n) = Code(m)
        /\ tree.type[n] \in {"Semicolon", "Pipe"} =>
             \A m \in Operands(n) :
               LaterOperands(n, m) = {} => Ended(m) /\ Code(n) = Code(m)

StartInv ==   \* what the start of an operator calls for is awaited
    /\ Awaited(1)
    /\ pc # "exited" =>
         \A n \in Nodes :
           LET father == tree.father[n] IN
           (/\ father # NoNode
            /\ Started(father)
            /\ IsSequence(father) => EarlierOperands(father, n) = {})
           => Awaited(n)

ForkInv ==   \* an executable that was started has a process
    \A n \in Executables : Started(n) => \E p \in Forked : proc[p].node = n

Tracking == CodeInv /\ GuardInv /\ HeardInv /\ ResultInv /\ StartInv /\ ForkInv

-----------------------------------------------------------------------------
(* The steps of execute(), as far as the evaluation can tell them apart.   *)

\* Nothing starts and nothing ends.
Quiet ==
    /\ \A m \in Nodes : /\ Started(m)' <=> Started(m)
                        /\ result'[m].exit_code = result[m].exit_code
    /\ todo' = todo
    /\ pc = "handle" => pc' = "handle" /\ frame' = frame
    /\ pc = "exited" => pc' = "exited"

\* execute_async() on n, which starts it unless a fork() fails, and the calls
\* it makes for the operands of n.
Starts(n) ==
    /\ pc = "async" /\ pc' # "handle"
    /\ n \in todo
    /\ \A m \in Nodes \ {n} : result'[m] = result[m]
    /\ Started(n)' \/ Excess' > 0
    /\ Started(n)' => result'[n].exit_code = Uninitialised
    /\ todo \ {n} \subseteq todo'
    /\ \A m \in todo' : \/ m \in todo
                        \/ m \in Operands(n) /\ (IsSequence(n) => EarlierOperands(n, m) = {})
    /\ pc' # "exited" /\ Started(n)' =>
         \A m \in Operands(n) :
           (IsSequence(n) => EarlierOperands(n, m) = {}) => m \in todo'

\* The status s of operator n once its operand m has ended.
Outcome(n, m, s) ==
    \/ tree.type[n] = "And" /\ EndedBadly(m) /\ s = Code(m)
    \/ tree.type[n] = "And" /\ EndedWell(m) /\ LaterOperands(n, m) = {} /\ s = Exit(0)
    \/ tree.type[n] = "Or" /\ EndedWell(m) /\ s = Exit(0)
    \/ tree.type[n] = "Or" /\ EndedBadly(m) /\ LaterOperands(n, m) = {} /\ s = Code(m)
    \/ /\ tree.type[n] \in {"Semicolon", "Pipe"} /\ Ended(m) /\ s = Code(m)
       /\ LaterOperands(n, m) = {}

\* Node n ends with status s: an executable, or the operator whose operand has.
Ends(n, s) ==
    /\ s \in Statuses
    /\ result' = [result EXCEPT ![n].exit_code = s]
    /\ \A m \in Nodes : Ended(m)' <=> Ended(m) \/ m = n
    /\ \A m \in Nodes : Started(m)' <=> Started(m)
    /\ todo' = todo
    /\ frame' = <<tree.father[n], n>>
    /\ pc' = IF tree.father[n] = NoNode THEN "count" ELSE "handle"
    /\ pc # "exited"
    /\ \/ n \in Executables /\ pc = "wait"
       \/ pc = "handle" /\ n = frame[1] /\ Outcome(n, frame[2], s)

\* The operator goes on: a sequence with its next operand, a pipe with those
\* that run.
GoesOn ==
    /\ pc = "handle"
    /\ ~Decides(frame[1], frame[2])
    /\ pc' \notin {"handle", "exited"}
    /\ result' = result
    /\ \/ tree.type[frame[1]] = "Pipe" /\ todo' = todo
       \/ /\ IsSequence(frame[1])
          /\ tree.type[frame[1]] = "And" => EndedWell(frame[2])
          /\ tree.type[frame[1]] = "Or" => EndedBadly(frame[2])
          /\ todo' = {First(LaterOperands(frame[1], frame[2]))}

\* execute_async() is a Starts step.
LEMMA AsyncStarts ==
    ASSUME NoStray, Inv, [Next]_vars, ExecuteAsync
    PROVE  \E n \in Nodes : Starts(n)
<1>inv. IsTree(tree) /\ TypeOK /\ EvaluationInv /\ TypeInv /\ Excess \in Nat
  BY DEF Inv, CoreInv, TypeInv, TypeOK
<1>facts. /\ Nodes \subseteq Nat
          /\ \A n \in Nodes : n \notin Operands(n)
          /\ \A n : Operands(n) \subseteq Nodes
  BY <1>inv, TreeFacts DEF Operands
<1>n. PICK n \in todo : n = First(todo)
  BY <1>inv, StartEffect
<1>1. /\ n \in todo /\ n \in Nodes /\ ~Started(n)
      /\ \A m \in Nodes : Started(m)' <=> Started(m) \/ (m = n /\ ~ForkFails(n))
  BY <1>n, <1>inv, StartEffect
<1>2. pc = "async" /\ result \in [Nodes -> Results]
  BY <1>inv DEF ExecuteAsync, TypeOK
<1>3. \A m \in Nodes \ {n} : result'[m] = result[m]
  <2>1. \/ result' = [result EXCEPT ![n] = NewResult]
        \/ result' = [result EXCEPT ![n] = NoResult]
    BY <1>n
    DEF ExecuteAsync, StartPipe, StartSequence, AppenderCannotRedirect,
        ForkExecutable, ForkFails
  <2> QED BY <1>1, <1>2, <2>1
<1>4. ASSUME tree.type[n] # "Executable", result' = [result EXCEPT ![n] = NewResult]
      PROVE  Started(n)' /\ result'[n].exit_code = Uninitialised
  <2>1. ~ForkFails(n)
    BY <1>4 DEF ForkFails
  <2>2. result'[n] = NewResult
    BY <1>1, <1>2, <1>4
  <2> QED BY <1>1, <2>1, <2>2 DEF NewResult
<1>5. CASE StartPipe(n)
  <2>1. /\ Started(n)' /\ result'[n].exit_code = Uninitialised
        /\ pc' # "handle" /\ ~IsSequence(n)
        /\ todo' = (todo \ {n}) \cup Operands(n)
    BY <1>4, <1>5 DEF StartPipe, AfterAsync, IsSequence, SequenceTypes
  <2>2. Starts(n)
    BY <1>1, <1>2, <1>3, <2>1, <1>facts DEF Starts
  <2> QED BY <1>1, <2>2
<1>6. CASE StartSequence(n)
  <2>1. /\ Started(n)' /\ result'[n].exit_code = Uninitialised
        /\ pc' # "handle" /\ IsSequence(n)
    BY <1>4, <1>6 DEF StartSequence, AfterAsync, IsSequence, SequenceTypes
  <2>2. Operands(n) # {} => /\ First(Operands(n)) \in Operands(n)
                            /\ \A m \in Operands(n) : First(Operands(n)) <= m
    <3>1. Operands(n) \in SUBSET Nat
      BY <1>facts
    <3> QED BY <3>1, FirstIsLeast
  <2>3. Operands(n) # {} =>
          \A m \in Operands(n) : EarlierOperands(n, m) = {} <=> m = First(Operands(n))
    <3> SUFFICES ASSUME Operands(n) # {}, NEW m \in Operands(n)
                 PROVE  EarlierOperands(n, m) = {} <=> m = First(Operands(n))
      OBVIOUS
    <3> DEFINE k == First(Operands(n))
    <3>1. k \in Operands(n) /\ \A j \in Operands(n) : k <= j
      BY <2>2
    <3>2. Operands(n) \subseteq Nat
      BY <1>facts
    <3> HIDE DEF k
    <3>3. m # k => k \in EarlierOperands(n, m)
      BY <3>1, <3>2 DEF EarlierOperands
    <3>4. EarlierOperands(n, k) = {}
      BY <3>1, <3>2 DEF EarlierOperands
    <3>5. m = k => EarlierOperands(n, m) = {}
      BY <3>4
    <3> QED BY <3>3, <3>5 DEF k
  <2>4. todo' = IF Operands(n) = {} THEN todo \ {n}
                ELSE (todo \ {n}) \cup {First(Operands(n))}
    BY <1>6 DEF StartSequence
  <2>5. \A m \in todo' : m \in todo \/ (m \in Operands(n) /\ EarlierOperands(n, m) = {})
    BY <2>2, <2>3, <2>4
  <2>6. \A m \in Operands(n) : EarlierOperands(n, m) = {} => m \in todo'
    BY <2>3, <2>4
  <2>7. todo \ {n} \subseteq todo'
    BY <2>4
  <2>8. Starts(n)
    BY <1>1, <1>2, <1>3, <2>1, <2>5, <2>6, <2>7 DEF Starts
  <2> QED BY <1>1, <2>8
<1>7. CASE AppenderCannotRedirect(n)
  <2>1. /\ Started(n)' /\ result'[n].exit_code = Uninitialised
        /\ pc' = "exited" /\ todo' = todo \ {n}
    BY <1>4, <1>7 DEF AppenderCannotRedirect, SequenceTypes
  <2>2. Starts(n)
    BY <1>1, <1>2, <1>3, <2>1 DEF Starts
  <2> QED BY <1>1, <2>2
<1>8. CASE ForkExecutable(n) \/ ForkFails(n)
  <2>1. /\ Operands(n) = {} /\ todo' = todo \ {n}
        /\ pc' # "handle"
    <3>1. n \in Executables
      BY <1>1, <1>8 DEF ForkExecutable, ForkFails, Executables
    <3>2. \A m \in Nodes : tree.father[m] # n
      BY <3>1, <1>inv, TreeFacts
    <3> QED BY <1>8, <3>2 DEF ForkExecutable, ForkFails, AfterAsync, Operands
  <2>2. Started(n)' \/ Excess' > 0
    <3>1. CASE ForkFails(n)
      <4>1. ExecutableChildren' = ExecutableChildren /\ handling' = handling
        BY <3>1, TreeConstant DEF ForkFails, ExecuteAsync, ExecutableChildren, Unreaped
      <4>2. to_wait' = to_wait + 1 /\ to_wait \in Nat /\ handling \in BOOLEAN
        BY <3>1, <1>inv DEF ForkFails, TypeOK
      <4>3. Cardinality(ExecutableChildren) \in Nat
        BY PidsAssumption, FS_Subset, FS_CardinalityType DEF ExecutableChildren, Unreaped
      <4> QED BY <4>1, <4>2, <4>3, <1>inv DEF Excess
    <3>2. CASE ~ForkFails(n)
      BY <1>1, <3>2
    <3> QED BY <3>1, <3>2
  <2>3. Started(n)' => result'[n].exit_code = Uninitialised
    <3>1. CASE ForkExecutable(n)
      <4>1. result'[n] = NewResult
        BY <1>1, <1>2, <3>1 DEF ForkExecutable
      <4> QED BY <4>1 DEF NewResult
    <3>2. CASE ForkFails(n)
      BY <1>1, <3>2
    <3> QED BY <1>8, <3>1, <3>2
  <2>4. Starts(n)
    BY <1>1, <1>2, <1>3, <2>1, <2>2, <2>3 DEF Starts
  <2> QED BY <1>1, <2>4
<1> QED BY <1>n, <1>5, <1>6, <1>7, <1>8 DEF ExecuteAsync

\* Every step is one of the four.
LEMMA StepKinds ==
    ASSUME NoStray, Inv, [Next]_vars
    PROVE  \/ Quiet
           \/ \E n \in Nodes : Starts(n)
           \/ \E n \in Nodes, s \in Statuses : Ends(n, s)
           \/ GoesOn
<1>inv. /\ IsTree(tree) /\ TypeOK /\ TypeInv /\ ControlInv /\ EvaluationInv /\ HandleInv
        /\ ProcessInv /\ result \in [Nodes -> Results]
  BY DEF Inv, CoreInv, TypeInv, TypeOK
<1>1. CASE ExecuteAsync
  BY <1>1, AsyncStarts
<1>2. ASSUME NEW p \in Pids, ReapNode(p)
      PROVE  \E n \in Nodes, s \in Statuses : Ends(n, s)
  <2>1. PICK n, s : n = proc[p].node /\ s = proc[p].status
    OBVIOUS
  <2>2. pc = "wait"
    BY <1>2 DEF ReapNode, WaitReturns
  <2>3. n \in Nodes /\ s \in Statuses /\ Ends(n, s)
    BY <1>2, <2>1, <2>2, ReapEffect, NeverDead DEF Ends, Inv
  <2> QED BY <2>3
<1>3. CASE HandleCompleted
  <2> DEFINE operator == frame[1]
             completed == frame[2]
             status == result[completed].exit_code
  <2>1. /\ pc = "handle" /\ operator \in Nodes /\ completed \in Nodes
        /\ Ended(completed) /\ status \in Statuses /\ Exit(0) \in Statuses
        /\ status = Code(completed) /\ todo = {}
        /\ EndedWell(completed) <=> ExitedCorrectly(status)
        /\ EndedBadly(completed) <=> ~ExitedCorrectly(status)
    BY <1>3, <1>inv, StatusFacts
    DEF HandleCompleted, ControlInv, HandleInv, Ended, Code, EndedWell, EndedBadly
  <2>2. ASSUME NEW s \in Statuses, EndOperator(operator, s), Outcome(operator, completed, s)
        PROVE  Ends(operator, s)
    BY <2>1, <2>2, EndEffect DEF Ends, Inv
  <2>3. \A n \in Nodes : IsSequence(n) <=> tree.type[n] \in {"And", "Or", "Semicolon"}
    BY DEF IsSequence, SequenceTypes
  <2> HIDE DEF operator, completed, status
  <2>4. CASE tree.type[operator] = "And"
    <3>1. \/ /\ EndedWell(completed) /\ LaterOperands(operator, completed) # {}
             /\ ExecuteNext(operator, completed)
          \/ /\ EndedWell(completed) /\ LaterOperands(operator, completed) = {}
             /\ EndOperator(operator, Exit(0))
          \/ EndedBadly(completed) /\ EndOperator(operator, status)
      BY <1>3, <2>1, <2>4 DEF HandleCompleted, operator, completed, status
    <3>2. EndedWell(completed) => ~EndedBadly(completed)
      BY DEF EndedWell, EndedBadly
    <3>3. ASSUME EndedWell(completed), LaterOperands(operator, completed) # {},
                 ExecuteNext(operator, completed)
          PROVE  GoesOn
      BY <2>1, <2>3, <2>4, <3>2, <3>3 DEF GoesOn, ExecuteNext, Decides, operator, completed
    <3>4. ASSUME EndedWell(completed), LaterOperands(operator, completed) = {},
                 EndOperator(operator, Exit(0))
          PROVE  Ends(operator, Exit(0))
      BY <2>1, <2>2, <2>4, <3>4 DEF Outcome
    <3>5. ASSUME EndedBadly(completed), EndOperator(operator, status)
          PROVE  Ends(operator, status)
      BY <2>1, <2>2, <2>4, <3>5 DEF Outcome
    <3> QED BY <2>1, <3>1, <3>3, <3>4, <3>5
  <2>5. CASE tree.type[operator] = "Or"
    <3>1. \/ EndedWell(completed) /\ EndOperator(operator, Exit(0))
          \/ /\ EndedBadly(completed) /\ LaterOperands(operator, completed) # {}
             /\ ExecuteNext(operator, completed)
          \/ /\ EndedBadly(completed) /\ LaterOperands(operator, completed) = {}
             /\ EndOperator(operator, status)
      BY <1>3, <2>1, <2>5 DEF HandleCompleted, operator, completed, status
    <3>2. EndedBadly(completed) => ~EndedWell(completed)
      BY DEF EndedWell, EndedBadly
    <3>3. ASSUME EndedBadly(completed), LaterOperands(operator, completed) # {},
                 ExecuteNext(operator, completed)
          PROVE  GoesOn
      BY <2>1, <2>3, <2>5, <3>2, <3>3 DEF GoesOn, ExecuteNext, Decides, operator, completed
    <3>4. ASSUME EndedWell(completed), EndOperator(operator, Exit(0))
          PROVE  Ends(operator, Exit(0))
      BY <2>1, <2>2, <2>5, <3>4 DEF Outcome
    <3>5. ASSUME EndedBadly(completed), LaterOperands(operator, completed) = {},
                 EndOperator(operator, status)
          PROVE  Ends(operator, status)
      BY <2>1, <2>2, <2>5, <3>5 DEF Outcome
    <3> QED BY <2>1, <3>1, <3>3, <3>4, <3>5
  <2>6. CASE tree.type[operator] \in {"Semicolon", "Pipe"}
    <3>1. \/ /\ LaterOperands(operator, completed) # {}
             /\ \/ tree.type[operator] = "Semicolon" /\ ExecuteNext(operator, completed)
                \/ /\ tree.type[operator] = "Pipe" /\ pc' = "count"
                   /\ UNCHANGED <<todo, frame, handling, result>>
          \/ LaterOperands(operator, completed) = {} /\ EndOperator(operator, status)
      BY <1>3, <2>1, <2>6 DEF HandleCompleted, operator, completed, status
    <3>2. ASSUME LaterOperands(operator, completed) # {},
                 \/ tree.type[operator] = "Semicolon" /\ ExecuteNext(operator, completed)
                 \/ /\ tree.type[operator] = "Pipe" /\ pc' = "count"
                    /\ UNCHANGED <<todo, frame, handling, result>>
          PROVE  GoesOn
      BY <2>1, <2>3, <2>6, <3>2 DEF GoesOn, ExecuteNext, Decides, operator, completed
    <3>3. ASSUME LaterOperands(operator, completed) = {}, EndOperator(operator, status)
          PROVE  Ends(operator, status)
      BY <2>1, <2>2, <2>6, <3>3 DEF Outcome
    <3> QED BY <2>1, <3>1, <3>2, <3>3
  <2> QED BY <1>3, <2>4, <2>5, <2>6 DEF HandleCompleted, operator
<1>4. CASE DeliverSigusr1
  <2>1. \A m \in Nodes : \/ result'[m] = result[m]
                         \/ /\ result[m] # NoResult
                            /\ result'[m] = [result[m] EXCEPT !.invocation_failed = TRUE]
    BY <1>4, <1>inv DEF DeliverSigusr1, TypeOK
  <2>2. ASSUME NEW m \in Nodes
        PROVE  /\ result'[m].exit_code = result[m].exit_code
               /\ result'[m] = NoResult <=> result[m] = NoResult
    <3>1. result[m] \in Results
      BY <1>inv DEF TypeOK
    <3>2. LET r == [result[m] EXCEPT !.invocation_failed = TRUE] IN
          r.exit_code = result[m].exit_code /\ r.invocation_failed = TRUE
      BY <3>1 DEF Results
    <3>3. [result[m] EXCEPT !.invocation_failed = TRUE] # NoResult
      BY <3>2 DEF NoResult
    <3> QED BY <2>1, <3>2, <3>3
  <2>3. todo' = todo /\ frame' = frame /\ pc' \in {pc, "dead"}
    BY <1>4 DEF DeliverSigusr1
  <2>4. pc' # "dead"
    BY InvNext DEF Inv, CoreInv, ProcessInv, ChildInv
  <2> QED BY <2>2, <2>3, <2>4 DEF Quiet, Started
<1>5. CASE \/ RecordPid \/ CountDown \/ Return \/ KilledBySigusr1
           \/ \E p \in Pids : ReapUnknown(p) \/ Child(p)
           \/ UNCHANGED vars
  <2>1. /\ todo' = todo /\ result' = result
        /\ pc = "handle" => pc' = pc /\ frame' = frame
        /\ pc = "exited" => pc' = pc
    BY <1>5 DEF RecordPid, CountDown, Return, KilledBySigusr1, ReapUnknown, WaitReturns,
       Child, vars, parentVars, ChildCannotInvoke, ChildExitsAfterFailure,
       ChildCannotRedirect, ChildInvokes, ProcessExits, AfterAsync
  <2> QED BY SMTT(60), <2>1 DEF Quiet, Started
<1> QED
  BY <1>1, <1>2, <1>3, <1>4, <1>5
  DEF Next, Parent, Loop, Signal, WaitFindsNoChild, Terminated

\* What was true of the nodes stays true: nothing that has ended changes, and
\* no node that is awaited is forgotten.
LEMMA Persists ==
    ASSUME NoStray, Inv, [Next]_vars
    PROVE  /\ \A m \in Nodes :
                /\ Ended(m) => Ended(m)' /\ Code(m)' = Code(m)
                /\ EndedWell(m) => EndedWell(m)'
                /\ EndedBadly(m) => EndedBadly(m)'
                /\ Started(m) => Started(m)'
                /\ Awaited(m) => Awaited(m)'
           /\ \A p \in Forked : p \in Forked' /\ proc'[p].node = proc[p].node
<1>inv. /\ TypeOK /\ TypeInv /\ ControlInv /\ EvaluationInv /\ Excess \in Nat
        /\ ProcessInv /\ IsTree(tree)
  BY DEF Inv, CoreInv, TypeInv, TypeOK
<1>const. Nodes' = Nodes /\ Executables' = Executables
  BY TreeConstant
<1>1. ASSUME NEW m \in Nodes, Ended(m)
      PROVE  Ended(m)' /\ result'[m].exit_code = result[m].exit_code
  BY <1>1, FinalNext DEF Ended, Inv
<1>2. \A m \in Nodes : Started(m) => Started(m)'
  <2>1. ASSUME NEW n \in Nodes, Starts(n), NEW m \in Nodes, Started(m) PROVE Started(m)'
    <3>1. n \notin Nodes \/ ~Started(n)
      BY <2>1, <1>inv DEF Starts, EvaluationInv, TodoInv
    <3> QED BY <2>1, <3>1 DEF Starts, Started
  <2>2. GoesOn => \A m \in Nodes : Started(m) => Started(m)'
    BY DEF GoesOn, Started
  <2> QED BY <2>1, <2>2, StepKinds DEF Quiet, Ends
<1>3. ASSUME NEW m \in Nodes, Awaited(m) PROVE Awaited(m)'
  <2>1. Excess > 0 => Excess' > 0
    BY ProcessNext, NeverDead, <1>inv DEF Counted, Inv, NoStray
  <2>2. m \in todo => m \in todo' \/ Started(m)' \/ Excess' > 0
    <3>1. ASSUME NEW n \in Nodes, Starts(n), m \in todo
          PROVE  m \in todo' \/ Started(m)' \/ Excess' > 0
      BY <3>1 DEF Starts
    <3>2. GoesOn => m \notin todo
      BY <1>inv DEF GoesOn, ControlInv
    <3> QED BY <3>1, <3>2, StepKinds DEF Quiet, Ends
  <2> QED BY <1>2, <1>3, <2>1, <2>2 DEF Awaited
<1>4. ASSUME NEW p \in Forked PROVE p \in Forked' /\ proc'[p].node = proc[p].node
  <2>1. p \in Pids /\ proc[p].state # "none" /\ proc[p].node \in Executables
    BY DEF Forked
  <2>2. CASE proc' = proc
    BY <2>1, <2>2, <1>const DEF Forked
  <2>3. ASSUME NEW n, NEW q \in FreePids, NEW s \in {"running", "child"},
               proc' = [proc EXCEPT ![q] = Process(n, s)]
        PROVE  p \in Forked' /\ proc'[p].node = proc[p].node
    <3>1. q # p
      BY <2>1, <2>3 DEF FreePids, NoStray
    <3>2. proc'[p] = proc[p]
      BY <2>1, <2>3, <3>1, <1>inv DEF TypeOK
    <3> QED BY <2>1, <3>2, <1>const DEF Forked
  <2>4. CASE ExecuteAsync
    <3>1. PICK n : n = First(todo)
      OBVIOUS
    <3>2. \/ proc' = proc
          \/ \E q \in FreePids, s \in {"running", "child"} :
               proc' = [proc EXCEPT ![q] = Process(n, s)]
      BY <2>4, <3>1
      DEF ExecuteAsync, StartPipe, StartSequence, AppenderCannotRedirect, ForkExecutable,
          ForkFails
    <3> QED BY <2>2, <2>3, <3>2
  <2>5. ASSUME NEW q \in Pids, ReapUnknown(q) \/ ReapNode(q) \/ Child(q)
        PROVE  p \in Forked' /\ proc'[p].node = proc[p].node
    <3>1. /\ proc'[p].node = proc[p].node
          /\ proc'[p].state = proc[p].state
               \/ proc'[p].state \in {"reaped", "failed", "zombie", "running"}
      BY <2>1, <2>5, <1>inv
      DEF ReapUnknown, ReapNode, WaitReturns, Child, ChildCannotInvoke,
          ChildExitsAfterFailure, ChildCannotRedirect, ChildInvokes, ProcessExits,
          TypeOK, Processes
    <3> QED BY <2>1, <3>1, <1>const DEF Forked
  <2> QED
    BY <2>2, <2>4, <2>5
    DEF Next, Parent, Loop, Signal, WaitFindsNoChild, Terminated, RecordPid,
        CountDown, Return, HandleCompleted, DeliverSigusr1, KilledBySigusr1, vars
<1> QED BY <1>1, <1>2, <1>3, <1>4 DEF Code, EndedWell, EndedBadly

LEMMA CodeNext == NoStray /\ Inv /\ CodeInv /\ [Next]_vars => CodeInv'
<1> SUFFICES ASSUME NoStray, Inv, CodeInv, [Next]_vars, NEW m \in Nodes, Started(m)'
             PROVE  result'[m].exit_code \in Statuses \cup {Uninitialised}
  BY TreeConstant DEF CodeInv
<1>1. Ended(m) => Ended(m)'
  BY Persists
<1>2. ASSUME NEW n \in Nodes, Starts(n)
      PROVE  result'[m].exit_code \in Statuses \cup {Uninitialised}
  <2>1. CASE m = n
    BY <1>2, <2>1 DEF Starts
  <2>2. CASE m # n
    BY <1>2, <2>2 DEF Starts, CodeInv, Started
  <2> QED BY <2>1, <2>2
<1>3. ASSUME NEW n \in Nodes, NEW s \in Statuses, Ends(n, s)
      PROVE  result'[m].exit_code \in Statuses \cup {Uninitialised}
  <2>1. m = n => Ended(m)'
    BY <1>3 DEF Ends
  <2>2. m # n => result'[m] = result[m]
    BY <1>3 DEF Ends, Inv, CoreInv, TypeInv, TypeOK
  <2>3. Started(m)
    BY <1>3 DEF Ends
  <2> QED BY <2>1, <2>2, <2>3 DEF CodeInv, Ended
<1> QED BY <1>2, <1>3, StepKinds DEF CodeInv, Quiet, GoesOn, Started

LEMMA GuardNext == NoStray /\ Inv /\ GuardInv /\ [Next]_vars => GuardInv'
<1> SUFFICES ASSUME NoStray, Inv, GuardInv, [Next]_vars PROVE GuardInv'
  OBVIOUS
<1>const. tree' = tree /\ Nodes' = Nodes /\ \A k, m : EarlierOperands(k, m)' = EarlierOperands(k, m)
  BY TreeConstant
<1>fathers. \A n \in Nodes : tree.father[n] \in Nodes \cup {NoNode}
  BY TreeFacts DEF Inv, CoreInv, TypeInv, TypeOK
<1> SUFFICES ASSUME NEW n \in Nodes, n \in todo' \/ Started(n)',
                    NEW f \in Nodes, f = tree.father[n], f # NoNode,
                    NEW m \in EarlierOperands(f, n)
             PROVE  /\ tree.type[f] = "And" => EndedWell(m)'
                    /\ tree.type[f] = "Or" => EndedBadly(m)'
                    /\ tree.type[f] = "Semicolon" => Ended(m)'
  BY <1>const, <1>fathers DEF GuardInv, Called
<1>inv. IsTree(tree) /\ HandleInv /\ ControlInv
  BY DEF Inv, CoreInv, TypeInv, TypeOK
<1>facts. Nodes \subseteq Nat /\ NoNode \notin Nodes /\ m \in Nodes /\ n \in Operands(f)
  BY <1>inv, TreeFacts DEF EarlierOperands, Operands
<1>1. CASE n \in todo \/ Started(n)
  <2>1. Called(n)
    BY <1>1 DEF GuardInv
  <2> QED BY <2>1, <1>facts, Persists DEF Called
<1>2. CASE ~(n \in todo \/ Started(n))
  <2>1. ASSUME NEW k \in Nodes, Starts(k) PROVE f = k /\ ~IsSequence(f)
    <3>1. n # k
      BY <1>2, <2>1 DEF Starts
    <3>2. n \in todo'
      BY <1>2, <2>1, <3>1 DEF Starts, Started
    <3>3. n \in Operands(k) /\ (IsSequence(k) => EarlierOperands(k, n) = {})
      BY <1>2, <2>1, <3>2 DEF Starts
    <3> QED BY <3>3 DEF Operands
  <2>2. ASSUME GoesOn
        PROVE  /\ f = frame[1]
               /\ m = frame[2] \/ m \in EarlierOperands(f, frame[2])
               /\ IsSequence(f)
               /\ tree.type[f] = "And" => EndedWell(frame[2])
               /\ tree.type[f] = "Or" => EndedBadly(frame[2])
               /\ Ended(frame[2]) /\ frame[2] \in Nodes
               /\ frame[1] = tree.father[frame[2]]
    <3> DEFINE operator == frame[1]
               completed == frame[2]
    <3>1. /\ operator \in Nodes /\ completed \in Nodes /\ todo = {}
          /\ operator = tree.father[completed] /\ Ended(completed)
          /\ completed \in Operands(operator)
      BY <2>2, <1>inv DEF GoesOn, ControlInv, HandleInv, Operands
    <3> HIDE DEF operator, completed
    <3>2. /\ IsSequence(operator)
          /\ tree.type[operator] = "And" => EndedWell(completed)
          /\ tree.type[operator] = "Or" => EndedBadly(completed)
          /\ n = First(LaterOperands(operator, completed))
          /\ ~Decides(operator, completed)
      BY <1>2, <2>2, <3>1 DEF GoesOn, Started, operator, completed
    <3>3. LaterOperands(operator, completed) # {}
      BY <3>2 DEF Decides
    <3>4. LaterOperands(operator, completed) \in SUBSET Nat
      BY <1>facts DEF LaterOperands, Operands
    <3>5. /\ n \in LaterOperands(operator, completed)
          /\ \A k \in LaterOperands(operator, completed) : n <= k
      BY <3>2, <3>3, <3>4, FirstIsLeast
    <3>6. f = operator
      BY <3>5 DEF LaterOperands, Operands
    <3>7. m \in Operands(operator) /\ m < n /\ m \in Nat /\ n \in Nat /\ completed \in Nat
      BY <3>1, <3>6, <1>facts DEF EarlierOperands
    <3>8. m \notin LaterOperands(operator, completed)
      BY <3>5, <3>7
    <3>9. m = completed \/ m \in EarlierOperands(f, completed)
      BY <3>6, <3>7, <3>8 DEF LaterOperands, EarlierOperands
    <3> QED BY <3>1, <3>2, <3>6, <3>9 DEF operator, completed
  <2>3. ASSUME GoesOn
        PROVE  /\ tree.type[f] = "And" => EndedWell(m)
               /\ tree.type[f] = "Or" => EndedBadly(m)
               /\ tree.type[f] = "Semicolon" => Ended(m)
    <3>1. PICK c : c = frame[2]
      OBVIOUS
    <3>2. Started(c) /\ c \in Nodes
      BY <2>2, <2>3, <3>1, EndedIsStarted DEF Inv, CoreInv, TypeInv
    <3>3. Called(c)
      BY <3>2 DEF GuardInv
    <3> QED BY <2>2, <2>3, <3>1, <3>3 DEF Called
  <2>4. ~IsSequence(f) => tree.type[f] \notin {"And", "Or", "Semicolon"}
    BY DEF IsSequence, SequenceTypes
  <2>5. \/ \E k \in Nodes : Starts(k)
        \/ GoesOn
    BY <1>2, StepKinds DEF Quiet, Ends
  <2> QED BY <2>1, <2>3, <2>4, <2>5, <1>facts, Persists
<1> QED BY <1>1, <1>2

LEMMA HeardNext == NoStray /\ Inv /\ HeardInv /\ [Next]_vars => HeardInv'
<1> SUFFICES ASSUME NoStray, Inv, HeardInv, [Next]_vars PROVE HeardInv'
  OBVIOUS
<1>const. tree' = tree /\ Nodes' = Nodes /\ \A k : IsSequence(k)' = IsSequence(k)
  BY TreeConstant
<1>fathers. \A n \in Nodes : tree.father[n] \in Nodes \cup {NoNode}
  BY TreeFacts DEF Inv, CoreInv, TypeInv, TypeOK
<1> SUFFICES ASSUME NEW n \in Nodes, Ended(n)',
                    NEW f \in Nodes, f = tree.father[n], f # NoNode
             PROVE  \/ pc' = "handle" /\ frame' = <<f, n>>
                    \/ Decides(f, n)' /\ Ended(f)'
                    \/ /\ ~Decides(f, n)'
                       /\ IsSequence(f) => Awaited(First(LaterOperands(f, n)))'
  BY <1>const, <1>fathers DEF HeardInv
<1>inv. IsTree(tree) /\ HandleInv /\ ControlInv
  BY DEF Inv, CoreInv, TypeInv, TypeOK
<1>1. ASSUME Ended(n) PROVE Decides(f, n)' <=> Decides(f, n)
  BY <1>1, Persists, TreeConstant DEF Decides, EndedWell, EndedBadly
<1>2. ASSUME Ended(n), ~Decides(f, n)
      PROVE  First(LaterOperands(f, n)) \in Nodes
  BY <1>2, <1>inv, FirstNode DEF Decides, LaterOperands, Operands
<1>3. CASE Ended(n) /\ ~(pc = "handle" /\ frame = <<f, n>>)
  <2>1. \/ Decides(f, n) /\ Ended(f)
        \/ /\ ~Decides(f, n)
           /\ IsSequence(f) => Awaited(First(LaterOperands(f, n)))
    BY <1>3 DEF HeardInv
  <2>2. CASE Decides(f, n) /\ Ended(f)
    BY <1>1, <1>3, <2>2, Persists
  <2>3. CASE ~Decides(f, n) /\ (IsSequence(f) => Awaited(First(LaterOperands(f, n))))
    <3>1. PICK k \in Nodes : k = First(LaterOperands(f, n))
      BY <1>2, <1>3, <2>3
    <3>2. IsSequence(f) => Awaited(k)'
      BY <2>3, <3>1, Persists
    <3> QED BY <1>1, <1>3, <2>3, <3>1, <3>2, TreeConstant
  <2> QED BY <2>1, <2>2, <2>3
<1>4. CASE Ended(n) /\ pc = "handle" /\ frame = <<f, n>>
  <2>1. CASE Quiet
    BY <1>4, <2>1 DEF Quiet
  <2>2. ASSUME NEW k \in Nodes, Starts(k) PROVE FALSE
    BY <1>4, <2>2 DEF Starts
  <2>3. ASSUME NEW k \in Nodes, NEW s \in Statuses, Ends(k, s)
        PROVE  Decides(f, n)' /\ Ended(f)'
    <3>1. k = f /\ Ended(f)' /\ Outcome(f, n, s)
      BY <1>4, <2>3 DEF Ends
    <3>2. Decides(f, n)
      BY <3>1 DEF Outcome, Decides
    <3> QED BY <1>1, <1>4, <3>1, <3>2
  <2>4. CASE GoesOn
    <3>1. /\ ~Decides(f, n)
          /\ IsSequence(f) => todo' = {First(LaterOperands(f, n))}
      BY <1>4, <2>4 DEF GoesOn, IsSequence, SequenceTypes
    <3>2. IsSequence(f) => First(LaterOperands(f, n)) \in todo'
      BY <3>1
    <3> QED BY <1>1, <1>4, <3>1, <3>2, TreeConstant DEF Awaited
  <2> QED BY <2>1, <2>2, <2>3, <2>4, StepKinds
<1>5. CASE ~Ended(n)
  <2>1. ASSUME NEW k \in Nodes, NEW s \in Statuses, Ends(k, s)
        PROVE  pc' = "handle" /\ frame' = <<f, n>>
    BY <1>5, <2>1 DEF Ends
  <2>2. ASSUME NEW k \in Nodes, Starts(k) PROVE FALSE
    <3>1. /\ Uninitialised \notin Statuses /\ result'[n].exit_code \in Statuses
          /\ Started(n)'
      BY StatusFacts DEF Uninitialised, Ended, Started, NoResult
    <3>2. n # k
      BY <2>2, <3>1 DEF Starts
    <3> QED BY <1>5, <2>2, <3>1, <3>2 DEF Starts, Ended
  <2> QED BY <1>5, <2>1, <2>2, StepKinds DEF Quiet, GoesOn, Ended
<1> QED BY <1>3, <1>4, <1>5

LEMMA ResultNext == NoStray /\ Inv /\ GuardInv /\ ResultInv /\ [Next]_vars => ResultInv'
<1> SUFFICES ASSUME NoStray, Inv, GuardInv, ResultInv, [Next]_vars PROVE ResultInv'
  OBVIOUS
<1>inv. IsTree(tree) /\ HandleInv /\ ControlInv /\ EvaluationInv
  BY DEF Inv, CoreInv, TypeInv, TypeOK
<1>const. /\ tree' = tree /\ Nodes' = Nodes
          /\ \A k : Operands(k)' = Operands(k)
          /\ \A k, m : EarlierOperands(k, m)' = EarlierOperands(k, m)
          /\ \A k, m : LaterOperands(k, m)' = LaterOperands(k, m)
  BY TreeConstant
<1>facts. /\ Nodes \subseteq Nat /\ NoNode \notin Nodes
          /\ \A k : Operands(k) \subseteq Nodes
          /\ \A k, m : EarlierOperands(k, m) \subseteq Nodes
  BY <1>inv, TreeFacts DEF EarlierOperands
<1> DEFINE AndEnded(n) ==
             \/ \E m \in Operands(n) :
                  /\ EndedBadly(m) /\ Code(n) = Code(m)
                  /\ \A k \in EarlierOperands(n, m) : EndedWell(k)
             \/ Code(n) = Exit(0) /\ \A m \in Operands(n) : EndedWell(m)
           OrEnded(n) ==
             \/ Code(n) = Exit(0) /\ \E m \in Operands(n) : EndedWell(m)
             \/ /\ \A m \in Operands(n) : EndedBadly(m)
                /\ \A m \in Operands(n) : LaterOperands(n, m) = {} => Code(n) = Code(m)
           LastEnded(n) ==
             \A m \in Operands(n) :
               LaterOperands(n, m) = {} => Ended(m) /\ Code(n) = Code(m)
<1> SUFFICES ASSUME NEW n \in Nodes, Ended(n)'
             PROVE  /\ tree.type[n] = "And" => AndEnded(n)'
                    /\ tree.type[n] = "Or" => OrEnded(n)'
                    /\ tree.type[n] \in {"Semicolon", "Pipe"} => LastEnded(n)'
  BY <1>const DEF ResultInv
<1>1. CASE Ended(n)
  <2>1. /\ tree.type[n] = "And" => AndEnded(n)
        /\ tree.type[n] = "Or" => OrEnded(n)
        /\ tree.type[n] \in {"Semicolon", "Pipe"} => LastEnded(n)
    BY <1>1 DEF ResultInv
  <2>2. \A m \in Nodes :
          /\ Ended(m) => Ended(m)' /\ Code(m)' = Code(m)
          /\ EndedWell(m) => EndedWell(m)'
          /\ EndedBadly(m) => EndedBadly(m)'
    BY Persists
  <2>3. \A m \in Nodes : EndedBadly(m) \/ EndedWell(m) => Ended(m)
    BY DEF EndedBadly, EndedWell
  <2>4. AndEnded(n) => AndEnded(n)'
    <3>1. CASE Code(n) = Exit(0) /\ \A m \in Operands(n) : EndedWell(m)
      BY <1>1, <2>2, <3>1, <1>const, <1>facts
    <3>2. ASSUME NEW m \in Operands(n), EndedBadly(m), Code(n) = Code(m),
                 \A k \in EarlierOperands(n, m) : EndedWell(k)
          PROVE  AndEnded(n)'
      <4>1. EndedBadly(m)' /\ Code(n)' = Code(m)'
        BY <1>1, <2>2, <2>3, <3>2, <1>facts
      <4>2. \A k \in EarlierOperands(n, m) : EndedWell(k)'
        BY <2>2, <3>2, <1>facts
      <4> QED BY <4>1, <4>2, <1>const
    <3> QED BY <3>1, <3>2
  <2>5. OrEnded(n) => OrEnded(n)'
    <3>1. CASE Code(n) = Exit(0) /\ \E m \in Operands(n) : EndedWell(m)
      BY <1>1, <2>2, <3>1, <1>const, <1>facts
    <3>2. CASE /\ \A m \in Operands(n) : EndedBadly(m)
               /\ \A m \in Operands(n) : LaterOperands(n, m) = {} => Code(n) = Code(m)
      <4>1. \A m \in Operands(n) : EndedBadly(m)' /\ Code(m)' = Code(m)
        BY <2>2, <2>3, <3>2, <1>facts
      <4>2. Code(n)' = Code(n)
        BY <1>1, <2>2
      <4> QED BY <3>2, <4>1, <4>2, <1>const
    <3> QED BY <3>1, <3>2
  <2>6. LastEnded(n) => LastEnded(n)'
    <3> SUFFICES ASSUME LastEnded(n), NEW m \in Operands(n), LaterOperands(n, m) = {}
                 PROVE  Ended(m)' /\ Code(n)' = Code(m)'
      BY <1>const
    <3>1. Ended(m) /\ Code(n) = Code(m) /\ m \in Nodes
      BY <1>facts
    <3> QED BY <1>1, <2>2, <3>1
  <2> HIDE DEF AndEnded, OrEnded, LastEnded
  <2> QED BY <2>1, <2>4, <2>5, <2>6
<1>2. CASE ~Ended(n)
  <2>1. ASSUME NEW k \in Nodes, Starts(k) PROVE FALSE
    <3>1. /\ Uninitialised \notin Statuses /\ result'[n].exit_code \in Statuses
          /\ Started(n)'
      BY StatusFacts DEF Uninitialised, Ended, Started, NoResult
    <3>2. n # k
      BY <2>1, <3>1 DEF Starts
    <3> QED BY <1>2, <2>1, <3>1, <3>2 DEF Starts, Ended
  <2>2. \E k \in Nodes, s \in Statuses : Ends(k, s)
    BY <1>2, <2>1, StepKinds DEF Quiet, GoesOn, Ended
  <2>3. PICK s \in Statuses : Ends(n, s)
    BY <1>2, <2>2 DEF Ends
  <2>4. CASE n \in Executables
    BY <2>4 DEF Executables
  <2>5. CASE n \notin Executables
    <3>c. PICK c : c = frame[2]
      OBVIOUS
    <3>1. /\ pc = "handle" /\ n = frame[1] /\ Outcome(n, c, s)
          /\ n = tree.father[c] /\ c \in Nodes /\ Ended(c) /\ Started(c)
      BY <2>3, <2>5, <3>c, <1>inv, EndedIsStarted DEF Ends, ControlInv, HandleInv, Inv, CoreInv, TypeInv
    <3>2. c \in Operands(n) /\ n # NoNode
      BY <3>1, <1>facts DEF Operands
    <3>3. Code(n)' = s
      <4>1. result'[n].exit_code = s
        BY <2>3 DEF Ends, Inv, CoreInv, TypeInv, TypeOK, Results
      <4> QED BY <4>1 DEF Code
    <3>4. Code(c)' = Code(c) /\ Ended(c)'
      BY <3>1, Persists
    <3>5. Called(c)
      BY <3>1 DEF GuardInv
    <3>6. \A m \in EarlierOperands(n, c) :
            /\ m \in Nodes
            /\ tree.type[n] = "And" => EndedWell(m)'
            /\ tree.type[n] = "Or" => EndedBadly(m)'
      BY <3>1, <3>2, <3>5, <1>facts, Persists DEF Called
    <3>7. LaterOperands(n, c) = {} =>
            \A m \in Operands(n) :
              /\ m = c \/ m \in EarlierOperands(n, c)
              /\ LaterOperands(n, m) = {} => m = c
      BY <3>2, <1>facts, OperandOrder
    <3>8. /\ EndedWell(c) => EndedWell(c)'
          /\ EndedBadly(c) => EndedBadly(c)'
      BY <3>1, Persists
    <3>9. CASE tree.type[n] = "And"
      <4>1. CASE EndedBadly(c) /\ s = Code(c)
        <5>1. EndedBadly(c)' /\ Code(n)' = Code(c)'
          BY <3>3, <3>4, <3>8, <4>1
        <5>2. \A k \in EarlierOperands(n, c) : EndedWell(k)'
          BY <3>6, <3>9
        <5>3. AndEnded(n)'
          BY <5>1, <5>2, <3>2, <1>const
        <5> QED BY <5>3, <3>9
      <4>2. CASE EndedWell(c) /\ LaterOperands(n, c) = {} /\ s = Exit(0)
        <5>1. \A m \in Operands(n) : EndedWell(m)'
          BY <3>6, <3>7, <3>8, <3>9, <4>2
        <5>2. AndEnded(n)'
          BY <5>1, <3>3, <4>2, <1>const DEF Exit
        <5> QED BY <5>2, <3>9
      <4> QED BY <3>1, <3>9, <4>1, <4>2 DEF Outcome
    <3>10. CASE tree.type[n] = "Or"
      <4>1. CASE EndedWell(c) /\ s = Exit(0)
        <5>1. OrEnded(n)'
          BY <3>2, <3>3, <3>8, <4>1, <1>const DEF Exit
        <5> QED BY <5>1, <3>10
      <4>2. CASE EndedBadly(c) /\ LaterOperands(n, c) = {} /\ s = Code(c)
        <5>1. \A m \in Operands(n) : EndedBadly(m)'
          BY <3>6, <3>7, <3>8, <3>10, <4>2
        <5>2. \A m \in Operands(n) : LaterOperands(n, m) = {} => Code(n)' = Code(m)'
          BY <3>3, <3>4, <3>7, <4>2
        <5>3. OrEnded(n)'
          BY <5>1, <5>2, <1>const
        <5> QED BY <5>3, <3>10
      <4> QED BY <3>1, <3>10, <4>1, <4>2 DEF Outcome
    <3>11. CASE tree.type[n] \in {"Semicolon", "Pipe"}
      <4>1. LaterOperands(n, c) = {} /\ s = Code(c)
        BY <3>1, <3>11 DEF Outcome
      <4>2. \A m \in Operands(n) : LaterOperands(n, m) = {} => Ended(m)' /\ Code(n)' = Code(m)'
        BY <3>3, <3>4, <3>7, <4>1
      <4>3. LastEnded(n)'
        BY <4>2, <1>const
      <4> QED BY <4>3, <3>11
    <3> QED BY <3>1, <3>9, <3>10, <3>11 DEF Outcome
  <2> QED BY <2>4, <2>5
<1> QED BY <1>1, <1>2

LEMMA StartNext == NoStray /\ Inv /\ StartInv /\ [Next]_vars => StartInv'
<1> SUFFICES ASSUME NoStray, Inv, StartInv, [Next]_vars PROVE StartInv'
  OBVIOUS
<1>const. /\ tree' = tree /\ Nodes' = Nodes /\ \A k : IsSequence(k)' = IsSequence(k)
          /\ \A k, m : EarlierOperands(k, m)' = EarlierOperands(k, m)
  BY TreeConstant
<1>facts. /\ 1 \in Nodes
          /\ \A n \in Nodes : tree.father[n] \in Nodes \cup {NoNode}
  BY TreeFacts DEF Inv, CoreInv, TypeInv, TypeOK
<1>1. Awaited(1)'
  BY <1>facts, Persists DEF StartInv
<1>2. ASSUME pc' # "exited", NEW n \in Nodes, NEW f \in Nodes, f = tree.father[n],
             Started(f)', IsSequence(f) => EarlierOperands(f, n) = {}
      PROVE  Awaited(n)'
  <2>1. ASSUME Started(f), pc # "exited" PROVE Awaited(n)'
    <3>1. f # NoNode
      BY TreeFacts DEF Inv, CoreInv, TypeInv, TypeOK
    <3>2. Awaited(n)
      BY <1>2, <2>1, <3>1 DEF StartInv
    <3> QED BY <3>2, Persists
  <2>2. ASSUME NEW k \in Nodes, Starts(k) PROVE Awaited(n)'
    <3>1. pc # "exited"
      BY <2>2 DEF Starts
    <3>2. CASE f = k
      <4>1. n \in Operands(f)
        BY <1>2 DEF Operands
      <4> QED BY <1>2, <2>2, <3>2, <4>1 DEF Starts, Awaited
    <3>3. CASE f # k
      <4>1. Started(f)
        BY <1>2, <2>2, <3>3 DEF Starts, Started
      <4> QED BY <2>1, <3>1, <4>1
    <3> QED BY <3>2, <3>3
  <2>3. Quiet \/ GoesOn \/ (\E k \in Nodes, s \in Statuses : Ends(k, s)) =>
          Started(f) /\ pc # "exited"
    BY <1>2 DEF Quiet, GoesOn, Ends, Started
  <2> QED BY <2>1, <2>2, <2>3, StepKinds
<1>3. \A n \in Nodes : tree.father[n] # NoNode => tree.father[n] \in Nodes
  BY <1>facts
<1> QED BY <1>1, <1>2, <1>3, <1>const DEF StartInv

LEMMA ForkNext == NoStray /\ Inv /\ ForkInv /\ [Next]_vars => ForkInv'
<1> SUFFICES ASSUME NoStray, Inv, ForkInv, [Next]_vars, NEW n \in Executables, Started(n)'
             PROVE  \E p \in Forked' : proc'[p].node = n
  BY TreeConstant DEF ForkInv
<1>inv. TypeOK /\ EvaluationInv /\ TypeInv /\ n \in Nodes
  BY DEF Inv, CoreInv, TypeInv, Executables
<1>1. CASE Started(n)
  BY <1>1, Persists DEF ForkInv
<1>2. CASE ~Started(n)
  <2>1. ExecuteAsync
    <3>1. PICK k \in Nodes : Starts(k)
      BY <1>inv, <1>2, StepKinds DEF Quiet, GoesOn, Ends, Started
    <3>2. pc = "async" /\ ~(result'[n] = result[n])
      BY <1>2, <3>1 DEF Starts, Started
    <3>3. ~DeliverSigusr1
      <4> SUFFICES ASSUME DeliverSigusr1 PROVE FALSE
        OBVIOUS
      <4>1. result'[n] = [result[n] EXCEPT !.invocation_failed = TRUE] /\ result[n] # NoResult
        BY <3>2, <1>inv DEF DeliverSigusr1, TypeOK
      <4> QED BY <1>2, <4>1 DEF Started
    <3> QED
      BY <3>2, <3>3
      DEF Next, Parent, Loop, Signal, WaitFindsNoChild, Terminated, RecordPid, ReapUnknown,
          ReapNode, WaitReturns, CountDown, Return, HandleCompleted, KilledBySigusr1, vars,
          Child, ChildCannotInvoke, ChildExitsAfterFailure, ChildCannotRedirect,
          ChildInvokes, ProcessExits, parentVars
  <2>2. PICK k \in todo : k = First(todo)
    BY <2>1, <1>inv, StartEffect
  <2>3. n = k /\ ~ForkFails(n)
    BY <1>2, <2>1, <2>2, <1>inv, StartEffect
  <2>4. ForkExecutable(n)
    BY <2>1, <2>2, <2>3
    DEF ExecuteAsync, StartPipe, StartSequence, AppenderCannotRedirect, SequenceTypes,
        Executables
  <2>5. PICK p \in FreePids : proc' = [proc EXCEPT ![p] = Process(n, "child")]
    BY <2>4 DEF ForkExecutable
  <2>6. p \in Pids /\ proc'[p] = Process(n, "child")
    BY <2>5, <1>inv DEF FreePids, TypeOK
  <2> QED BY SMTT(60), <2>6, TreeConstant DEF Forked, Process
<1> QED BY <1>1, <1>2

LEMMA TrackingAlways == NoStray => (Spec => []Tracking)
<1> SUFFICES ASSUME NoStray PROVE Spec => []Tracking
  OBVIOUS
<1>1. Init => Tracking
  <2> SUFFICES ASSUME Init PROVE Tracking
    OBVIOUS
  <2>1. IsTree(tree) /\ todo = {1} /\ pc = "async"
    BY TreesAssumption DEF Init
  <2>2. \A n \in Nodes : ~Started(n) /\ ~Ended(n)
    BY StatusFacts DEF Init, Started, Ended
  <2>3. Called(1)
    BY <2>1, TreeFacts DEF Called
  <2>4. \A n \in Nodes : tree.father[n] \in Nodes \cup {NoNode}
    BY <2>1, TreeFacts
  <2>5. CodeInv /\ HeardInv /\ ResultInv /\ GuardInv
    BY <2>1, <2>2, <2>3 DEF CodeInv, HeardInv, ResultInv, GuardInv
  <2>6. StartInv
    BY <2>1, <2>2, <2>4 DEF StartInv, Awaited
  <2>7. ForkInv
    BY <2>2 DEF ForkInv, Executables
  <2> QED BY <2>5, <2>6, <2>7 DEF Tracking
<1>2. Inv /\ Tracking /\ [Next]_vars => Tracking'
  BY CodeNext, GuardNext, HeardNext, ResultNext, StartNext, ForkNext DEF Tracking
<1> QED BY InvAlways, <1>1, <1>2, PTL DEF Spec

-----------------------------------------------------------------------------
(* The values of the nodes, as Evaluation computes them.                   *)

\* Evaluation reads the same tree.
LEMMA SameTree ==
    /\ E!Nodes = Nodes /\ E!Executables = Executables
    /\ E!Uninitialised = Uninitialised /\ E!NoNode = NoNode
    /\ \A n : E!Operands(n) = Operands(n)
    /\ \A n, m : E!EarlierOperands(n, m) = EarlierOperands(n, m)
    /\ \A S : E!First(S) = First(S) /\ E!Last(S) = Last(S)
    /\ \A c : E!Exit(c) = Exit(c)
    /\ \A s : E!ExitedCorrectly(s) = ExitedCorrectly(s)
<1>1. E!Nodes = Nodes
  BY DEF E!Nodes, Nodes
<1>2. E!Executables = Executables
  BY <1>1 DEF E!Executables, Executables
<1>3. \A n : E!Operands(n) = Operands(n)
  BY <1>1 DEF E!Operands, Operands
<1>4. \A n, m : E!EarlierOperands(n, m) = EarlierOperands(n, m)
  BY <1>3 DEF E!EarlierOperands, EarlierOperands
<1>5. \A S : E!First(S) = First(S) /\ E!Last(S) = Last(S)
  BY DEF E!First, First, E!Last, Last
<1>6. \A s : E!ExitedCorrectly(s) = ExitedCorrectly(s)
  BY DEF E!ExitedCorrectly, ExitedCorrectly, E!WIFEXITED, WIFEXITED, E!WEXITSTATUS, WEXITSTATUS
<1> QED
  BY <1>1, <1>2, <1>3, <1>4, <1>5, <1>6
  DEF E!Uninitialised, Uninitialised, E!NoNode, NoNode, E!Exit, Exit

Visible == [n \in Executables |->
              IF result[n] = NoResult THEN Uninitialised ELSE result[n].exit_code]

\* The equation that Value solves, and the one that Due does.
ValueAt(val, n) ==
    LET ops == E!Operands(n)
        failures == {m \in ops : E!FailedWith(val[m])}
        successes == {m \in ops : E!Succeeded(val[m])}
        allEnded == \A m \in ops : E!Ended(val[m])
    IN
    CASE tree.type[n] = "Executable" -> Visible[n]
      [] tree.type[n] # "Executable" /\ ops = {} -> E!Exit(0)
      [] tree.type[n] = "And" /\ ops # {} ->
           IF failures # {} THEN val[E!First(failures)]
           ELSE IF allEnded THEN E!Exit(0) ELSE E!Uninitialised
      [] tree.type[n] = "Or" /\ ops # {} ->
           IF successes # {} THEN E!Exit(0)
           ELSE IF allEnded THEN val[E!Last(ops)] ELSE E!Uninitialised
      [] tree.type[n] \in {"Semicolon", "Pipe"} /\ ops # {} -> val[E!Last(ops)]

LEMMA ValueUnfolds ==
    ASSUME NEW g, g = [n \in E!Nodes |-> ValueAt(g, n)]
    PROVE  E!Value = [n \in E!Nodes |-> ValueAt(E!Value, n)]
BY Zenon DEF E!Value, ValueAt, Visible

DueAt(due, n) ==
    \/ n = 1
    \/ LET father == tree.father[n]
           earlier == E!EarlierOperands(father, n)
       IN /\ due[father]
          /\ tree.type[father] = "And" =>
               \A m \in earlier : E!Succeeded(E!Value[m])
          /\ tree.type[father] = "Or" =>
               \A m \in earlier : E!FailedWith(E!Value[m])
          /\ tree.type[father] = "Semicolon" =>
               \A m \in earlier : E!Ended(E!Value[m])

LEMMA DueUnfolds ==
    ASSUME NEW g, g = [n \in E!Nodes |-> DueAt(g, n)]
    PROVE  \E due : /\ due = [n \in E!Nodes |-> DueAt(due, n)]
                    /\ E!Due = {n \in E!Executables : due[n]}
BY Zenon DEF E!Due, DueAt

\* A set of nodes that holds, with each of its members, a later one, is empty.
LEMMA Ascent ==
    ASSUME tree.size \in Nat, NEW S \in SUBSET Nodes,
           \A n \in S : \E m \in S : n < m
    PROVE  S = {}
<1> DEFINE T == {tree.size - n : n \in S}
<1>1. T \in SUBSET Nat
  BY DEF Nodes
<1>2. ASSUME NEW x \in T PROVE \E y \in T : y < x
  <2>1. PICK n \in S : x = tree.size - n
    OBVIOUS
  <2>2. PICK m \in S : n < m
    OBVIOUS
  <2>3. tree.size - m \in T /\ tree.size - m < x
    BY <2>1, <2>2 DEF Nodes
  <2> QED BY <2>3
<1>3. S # {} => T # {}
  OBVIOUS
<1> HIDE DEF T
<1>4. ~(-1 \in Nat)
  OBVIOUS
<1>5. T # {} => -1 \in T
  BY <1>1, <1>2, Descent
<1> QED BY <1>1, <1>3, <1>4, <1>5

\* Last() picks the greatest element of a set of nodes: no operand follows it.
LEMMA LastOperand ==
    ASSUME IsTree(tree), NEW n, Operands(n) # {}
    PROVE  /\ Last(Operands(n)) \in Operands(n)
           /\ LaterOperands(n, Last(Operands(n))) = {}
<1>1. tree.size \in Nat /\ Operands(n) \in SUBSET Nodes /\ Nodes \subseteq Nat
  BY TreeFacts DEF IsTree, Nodes, Operands
<1>2. PICK l \in Operands(n) : \A m \in Operands(n) : ~(l < m)
  BY <1>1, Ascent
<1>3. \A m \in Operands(n) : l >= m
  <2> SUFFICES ASSUME NEW m \in Operands(n) PROVE l >= m
    OBVIOUS
  <2>1. l \in Nat /\ m \in Nat /\ ~(l < m)
    BY <1>1, <1>2
  <2> QED BY <2>1
<1>4. PICK k : k = Last(Operands(n))
  OBVIOUS
<1>5. k \in Operands(n) /\ \A m \in Operands(n) : k >= m
  BY <1>3, <1>4 DEF Last
<1>6. LaterOperands(n, k) = {}
  <2> SUFFICES ASSUME NEW m \in LaterOperands(n, k) PROVE FALSE
    OBVIOUS
  <2>1. m \in Operands(n) /\ m > k /\ m \in Nat /\ k \in Nat
    BY <1>1, <1>5 DEF LaterOperands
  <2> QED BY <1>5, <2>1
<1> QED BY <1>4, <1>5, <1>6

\* Every operator of the tree has an operand.
Full == \A n \in Nodes : tree.type[n] # "Executable" => Operands(n) # {}

\* Between two calls of the handler, the statuses of the nodes solve the
\* equation of Value.
LEMMA CodeEquation ==
    ASSUME Inv, Tracking, Full, pc # "handle", NEW n \in Nodes, NEW val,
           \A m \in Operands(n) : val[m] = Code(m)
    PROVE  ValueAt(val, n) = Code(n)
<1>inv. /\ IsTree(tree) /\ TypeOK /\ CodeInv /\ HeardInv /\ ResultInv
        /\ result \in [Nodes -> Results]
  BY DEF Inv, CoreInv, TypeInv, TypeOK, Tracking
<1>facts. /\ Nodes \subseteq Nat /\ NoNode \notin Nodes
          /\ Operands(n) \subseteq Nodes
          /\ tree.type[n] \in NodeTypes
          /\ Uninitialised \notin Statuses /\ Exit(0) \in Statuses
  BY <1>inv, TreeFacts, StatusFacts DEF Uninitialised
<1>ops. /\ E!Operands(n) = Operands(n)
        /\ \A S : E!First(S) = First(S) /\ E!Last(S) = Last(S)
        /\ E!Exit(0) = Exit(0) /\ E!Uninitialised = Uninitialised
  BY SameTree
<1>val. \A m \in Operands(n) :
          /\ E!Ended(val[m]) <=> Ended(m)
          /\ E!Succeeded(val[m]) <=> EndedWell(m)
          /\ E!FailedWith(val[m]) <=> EndedBadly(m)
  BY <1>facts, SameTree
  DEF E!Ended, E!Succeeded, E!FailedWith, Code, Ended, EndedWell, EndedBadly
<1> DEFINE ops == Operands(n)
           failures == {m \in ops : EndedBadly(m)}
           successes == {m \in ops : EndedWell(m)}
<1>sets. /\ {m \in E!Operands(n) : E!FailedWith(val[m])} = failures
         /\ {m \in E!Operands(n) : E!Succeeded(val[m])} = successes
         /\ (\A m \in E!Operands(n) : E!Ended(val[m])) <=> \A m \in ops : Ended(m)
  BY <1>ops, <1>val
<1>heard. \A m \in ops : Ended(m) /\ Decides(n, m) => Ended(n)
  <2> SUFFICES ASSUME NEW m \in ops, Ended(m), Decides(n, m) PROVE Ended(n)
    OBVIOUS
  <2>1. m \in Nodes /\ tree.father[m] = n /\ n # NoNode
    BY <1>facts DEF Operands
  <2> QED BY <2>1, <1>inv DEF HeardInv
<1>last. ops # {} => /\ Last(ops) \in ops /\ LaterOperands(n, Last(ops)) = {}
  BY <1>inv, LastOperand
<1>1. CASE tree.type[n] = "Executable"
  <2>1. ValueAt(val, n) = Visible[n]
    BY <1>1, Zenon DEF ValueAt
  <2>2. Visible[n] = IF Started(n) THEN result[n].exit_code ELSE Uninitialised
    BY <1>1 DEF Visible, Executables, Started
  <2>3. Started(n) => result[n].exit_code \in Statuses \cup {Uninitialised}
    BY <1>inv DEF CodeInv
  <2>4. Ended(n) => Started(n)
    BY <1>inv, EndedIsStarted
  <2> QED BY <2>1, <2>2, <2>3, <2>4 DEF Code, Ended
<1>2. CASE tree.type[n] = "And"
  <2>1. ops # {}
    BY <1>2 DEF Full
  <2>2. ValueAt(val, n) =
          IF failures # {} THEN val[First(failures)]
          ELSE IF \A m \in ops : Ended(m) THEN Exit(0) ELSE Uninitialised
    <3>1. ValueAt(val, n) =
            IF {m \in E!Operands(n) : E!FailedWith(val[m])} # {}
            THEN val[E!First({m \in E!Operands(n) : E!FailedWith(val[m])})]
            ELSE IF \A m \in E!Operands(n) : E!Ended(val[m]) THEN E!Exit(0)
                 ELSE E!Uninitialised
      BY <1>2, <1>ops, <2>1, Zenon DEF ValueAt
    <3> QED BY <3>1, <1>ops, <1>sets, Zenon
  <2>3. CASE ~Ended(n)
    <3>1. failures = {}
      BY <1>2, <1>heard, <2>3 DEF Decides, EndedBadly
    <3>2. ~\A m \in ops : Ended(m)
      BY <1>last, <1>heard, <2>1, <2>3 DEF Decides
    <3> QED BY <2>2, <2>3, <3>1, <3>2 DEF Code
  <2>4. ASSUME NEW m \in Operands(n), EndedBadly(m), Code(n) = Code(m),
               \A k \in EarlierOperands(n, m) : EndedWell(k)
        PROVE  ValueAt(val, n) = Code(n)
    <3>1. m \in failures /\ failures \in SUBSET Nat
      BY <2>4, <1>facts
    <3>2. First(failures) \in failures /\ First(failures) <= m
      BY <3>1, FirstIsLeast
    <3>3. First(failures) \notin EarlierOperands(n, m)
      BY <2>4, <3>2 DEF EndedWell, EndedBadly
    <3>4. First(failures) = m
      BY <3>1, <3>2, <3>3 DEF EarlierOperands
    <3> QED BY <2>2, <2>4, <3>1, <3>4
  <2>5. ASSUME Code(n) = Exit(0), \A m \in Operands(n) : EndedWell(m)
        PROVE  ValueAt(val, n) = Code(n)
    <3>1. failures = {} /\ \A m \in ops : Ended(m)
      BY <2>5 DEF EndedWell, EndedBadly
    <3> QED BY <2>2, <2>5, <3>1
  <2> QED BY <1>2, <1>inv, <2>3, <2>4, <2>5 DEF ResultInv
<1>3. CASE tree.type[n] = "Or"
  <2>1. ops # {}
    BY <1>3 DEF Full
  <2>2. ValueAt(val, n) =
          IF successes # {} THEN Exit(0)
          ELSE IF \A m \in ops : Ended(m) THEN val[Last(ops)] ELSE Uninitialised
    <3>1. ValueAt(val, n) =
            IF {m \in E!Operands(n) : E!Succeeded(val[m])} # {} THEN E!Exit(0)
            ELSE IF \A m \in E!Operands(n) : E!Ended(val[m])
                 THEN val[E!Last(E!Operands(n))]
                 ELSE E!Uninitialised
      BY <1>3, <1>ops, <2>1, Zenon DEF ValueAt
    <3> QED BY <3>1, <1>ops, <1>sets, Zenon
  <2>3. CASE ~Ended(n)
    <3>1. successes = {}
      BY <1>3, <1>heard, <2>3 DEF Decides, EndedWell
    <3>2. ~\A m \in ops : Ended(m)
      BY <1>last, <1>heard, <2>1, <2>3 DEF Decides
    <3> QED BY <2>2, <2>3, <3>1, <3>2 DEF Code
  <2>4. ASSUME Code(n) = Exit(0), \E m \in Operands(n) : EndedWell(m)
        PROVE  ValueAt(val, n) = Code(n)
    <3>1. successes # {}
      BY <2>4
    <3> QED BY <2>2, <2>4, <3>1
  <2>5. ASSUME \A m \in Operands(n) : EndedBadly(m),
               \A m \in Operands(n) : LaterOperands(n, m) = {} => Code(n) = Code(m)
        PROVE  ValueAt(val, n) = Code(n)
    <3>1. successes = {} /\ \A m \in ops : Ended(m)
      BY <2>5 DEF EndedWell, EndedBadly
    <3>2. val[Last(ops)] = Code(n)
      BY <1>last, <2>1, <2>5
    <3> QED BY <2>2, <3>1, <3>2
  <2> QED BY <1>3, <1>inv, <2>3, <2>4, <2>5 DEF ResultInv
<1>4. CASE tree.type[n] \in {"Semicolon", "Pipe"}
  <2>1. ops # {}
    BY <1>4 DEF Full
  <2>2. ValueAt(val, n) = Code(Last(ops))
    <3>1. ValueAt(val, n) = val[E!Last(E!Operands(n))]
      <4>1. CASE tree.type[n] = "Semicolon"
        BY <4>1, <1>ops, <2>1, Zenon DEF ValueAt
      <4>2. CASE tree.type[n] = "Pipe"
        BY <4>2, <1>ops, <2>1, Zenon DEF ValueAt
      <4> QED BY <1>4, <4>1, <4>2
    <3> QED BY <3>1, <1>ops, <1>last, <2>1
  <2>3. CASE Ended(n)
    BY <1>4, <1>inv, <1>last, <2>1, <2>2, <2>3 DEF ResultInv
  <2>4. CASE ~Ended(n)
    <3>1. ~Ended(Last(ops))
      BY <1>last, <1>heard, <2>1, <2>4 DEF Decides
    <3> QED BY <2>2, <2>4, <3>1 DEF Code
  <2> QED BY <2>3, <2>4
<1> QED BY <1>1, <1>2, <1>3, <1>4, <1>facts DEF NodeTypes, SequenceTypes

\* They are the only solution, so they are what Value computes.
LEMMA CodesAreValues ==
    ASSUME Inv, Tracking, Full, pc # "handle"
    PROVE  \A n \in Nodes : E!Value[n] = Code(n)
<1>inv. IsTree(tree) /\ tree.size \in Nat
  BY DEF Inv, CoreInv, TypeInv, TypeOK, IsTree
<1>facts. /\ Nodes \subseteq Nat /\ E!Nodes = Nodes
          /\ \A n : Operands(n) \subseteq Nodes
  BY <1>inv, TreeFacts, SameTree
<1>1. PICK g : g = [n \in E!Nodes |-> Code(n)]
  OBVIOUS
<1>2. \A n \in Nodes : ValueAt(g, n) = Code(n)
  <2>1. \A m \in Nodes : g[m] = Code(m)
    BY <1>1, <1>facts
  <2> QED BY <2>1, <1>facts, CodeEquation
<1>3. g = [n \in E!Nodes |-> ValueAt(g, n)]
  BY <1>1, <1>2, <1>facts
<1>4. PICK v : v = E!Value
  OBVIOUS
<1>5. \A n \in Nodes : v[n] = ValueAt(v, n)
  <2>1. v = [n \in E!Nodes |-> ValueAt(v, n)]
    BY <1>3, <1>4, ValueUnfolds
  <2> QED BY <2>1, <1>facts
<1> DEFINE S == {n \in Nodes : v[n] # Code(n)}
<1>6. \A n \in S : \E m \in S : n < m
  <2> SUFFICES ASSUME NEW n \in S, \A m \in S : ~(n < m) PROVE FALSE
    OBVIOUS
  <2>1. \A m \in Operands(n) : m \in Nodes /\ n < m
    <3> SUFFICES ASSUME NEW m \in Operands(n) PROVE m \in Nodes /\ n < m
      OBVIOUS
    <3>1. m \in Nodes /\ tree.father[m] = n /\ n \in Nodes
      BY DEF Operands
    <3>2. m # 1
      BY <1>inv, <3>1, TreeFacts
    <3>3. m \in 2..tree.size
      BY <1>inv, <3>1, <3>2 DEF Nodes
    <3>4. tree.father[m] \in 1..(m - 1)
      BY <1>inv, <3>3 DEF IsTree
    <3> QED BY <3>1, <3>4, <1>facts
  <2>2. \A m \in Operands(n) : v[m] = Code(m)
    BY <2>1
  <2>3. ValueAt(v, n) = Code(n)
    BY <2>2, CodeEquation
  <2> QED BY <2>3, <1>5
<1> HIDE DEF S
<1>7. S \in SUBSET Nodes
  BY DEF S
<1>8. S = {}
  BY <1>6, <1>7, <1>inv, Ascent
<1> QED BY <1>8, <1>4 DEF S

-----------------------------------------------------------------------------
(* The nodes whose turn has come, as Evaluation computes them.             *)

\* Every node on the way from the root to n is called for.
Reached(n) == \A k \in Nodes : Under(k, n) => Called(k)

LEMMA ReachedStep ==
    ASSUME IsTree(tree), NEW n \in Nodes
    PROVE  Reached(n) <=> Called(n) /\ (n # 1 => Reached(tree.father[n]))
<1>1. tree.size \in Nat /\ 1 \in Nodes /\ Nodes \subseteq Nat
  BY TreeFacts DEF IsTree
<1>2. Under(n, n)
  BY <1>1 DEF Under
<1>3. ASSUME n # 1
      PROVE  /\ tree.father[n] \in Nodes
             /\ \A k \in Nodes : Under(k, tree.father[n]) <=> Under(k, n) /\ k # n
  <2> DEFINE f == tree.father[n]
  <2>1. n \in 2..tree.size
    BY <1>1, <1>3 DEF Nodes
  <2>2. /\ f \in 1..(n - 1) /\ f \in Nodes
        /\ \A m \in (f + 1)..(n - 1) : tree.father[m] >= f
    BY <2>1 DEF IsTree, Nodes
  <2>3. \A m \in Nodes : tree.father[m] \in Nat
    BY DEF IsTree, Nodes
  <2>4. ASSUME NEW k \in Nodes, Under(k, n), k # n PROVE Under(k, f)
    BY <2>4, FatherUnder
  <2>5. ASSUME NEW k \in Nodes, Under(k, f) PROVE Under(k, n) /\ k # n
    <3>1. f >= k /\ \A m \in (k + 1)..f : tree.father[m] >= k
      BY <2>5 DEF Under
    <3>2. k \in Nat /\ f \in Nat /\ n \in Nat /\ f < n
      BY <1>1, <2>2
    <3>3. ASSUME NEW m \in (k + 1)..n PROVE tree.father[m] >= k
      <4>1. CASE m <= f
        BY <3>1, <3>2, <4>1
      <4>2. CASE m > f /\ m < n
        <5>1. m \in (f + 1)..(n - 1) /\ m \in Nodes
          <6> HIDE DEF f
          <6>1. m \in Int /\ n \in Nat /\ tree.size \in Nat /\ n <= tree.size /\ m >= k + 1
            BY <1>1, <2>1, <3>2, <3>3
          <6> QED BY <3>2, <4>2, <6>1 DEF Nodes
        <5>2. tree.father[m] >= f /\ tree.father[m] \in Nat
          BY <2>2, <2>3, <5>1
        <5> QED BY <3>1, <3>2, <5>2
      <4>3. CASE m = n
        BY <3>1, <3>2, <4>3
      <4> QED BY <3>2, <4>1, <4>2, <4>3
    <3> QED BY <3>1, <3>2, <3>3 DEF Under
  <2> HIDE DEF f
  <2>6. \A k \in Nodes : Under(k, f) <=> Under(k, n) /\ k # n
    BY <2>4, <2>5
  <2> QED BY <2>2, <2>6 DEF f
<1>4. ASSUME n = 1 PROVE \A k \in Nodes : Under(k, n) => k = n
  BY <1>1, <1>4 DEF Under, Nodes
<1>5. CASE n # 1
  BY <1>2, <1>3, <1>5 DEF Reached
<1>6. CASE n = 1
  BY <1>2, <1>4, <1>6 DEF Reached
<1> QED BY <1>5, <1>6

\* Being reached solves the equation of Due, and nothing else does.
LEMMA ReachedIsDue ==
    ASSUME Inv, Tracking, Full, pc # "handle"
    PROVE  E!Due = {n \in Executables : Reached(n)}
<1>inv. IsTree(tree) /\ tree.size \in Nat
  BY DEF Inv, CoreInv, TypeInv, TypeOK, IsTree
<1>facts. /\ Nodes \subseteq Nat /\ 1 \in Nodes /\ Executables \subseteq Nodes
          /\ E!Nodes = Nodes /\ E!Executables = Executables
          /\ \A n, m : E!EarlierOperands(n, m) = EarlierOperands(n, m)
          /\ \A n, m : EarlierOperands(n, m) \subseteq Nodes
          /\ tree.father[1] = NoNode
  BY <1>inv, TreeFacts, SameTree DEF EarlierOperands
<1>fathers. \A n \in Nodes : n # 1 => tree.father[n] \in Nodes /\ tree.father[n] < n /\ tree.father[n] # NoNode
  <2> SUFFICES ASSUME NEW n \in Nodes, n # 1
               PROVE  tree.father[n] \in Nodes /\ tree.father[n] < n /\ tree.father[n] # NoNode
    OBVIOUS
  <2>1. n \in 2..tree.size
    BY <1>inv DEF Nodes
  <2>2. tree.father[n] \in 1..(n - 1)
    BY <1>inv, <2>1 DEF IsTree
  <2> QED BY <1>inv, <2>1, <2>2 DEF Nodes, NoNode
<1>val. \A m \in Nodes :
          /\ E!Ended(E!Value[m]) <=> Ended(m)
          /\ E!Succeeded(E!Value[m]) <=> EndedWell(m)
          /\ E!FailedWith(E!Value[m]) <=> EndedBadly(m)
  <2>1. Uninitialised \notin Statuses
    BY StatusFacts DEF Uninitialised
  <2> QED
    BY <2>1, CodesAreValues, SameTree
    DEF E!Ended, E!Succeeded, E!FailedWith, Code, Ended, EndedWell, EndedBadly
<1>1. ASSUME NEW due, NEW n \in Nodes, n # 1
      PROVE  DueAt(due, n) <=> due[tree.father[n]] /\ Called(n)
  <2> DEFINE f == tree.father[n]
  <2>1. f # NoNode
    BY <1>1, <1>fathers
  <2>2. \A m \in EarlierOperands(f, n) :
          /\ E!Ended(E!Value[m]) <=> Ended(m)
          /\ E!Succeeded(E!Value[m]) <=> EndedWell(m)
          /\ E!FailedWith(E!Value[m]) <=> EndedBadly(m)
    BY <1>val, <1>facts
  <2>3. E!EarlierOperands(f, n) = EarlierOperands(f, n)
    BY <1>facts
  <2> QED BY <1>1, <2>1, <2>2, <2>3, Zenon DEF DueAt, Called
<1>2. ASSUME NEW due PROVE DueAt(due, 1)
  BY DEF DueAt
<1>3. PICK g : g = [n \in E!Nodes |-> Reached(n)]
  OBVIOUS
<1>4. \A n \in Nodes : DueAt(g, n) <=> Reached(n)
  <2> SUFFICES ASSUME NEW n \in Nodes PROVE DueAt(g, n) <=> Reached(n)
    OBVIOUS
  <2>1. CASE n = 1
    <3>1. Called(1)
      BY <1>facts DEF Called
    <3>2. Reached(1)
      BY <3>1, <1>inv, <1>facts, ReachedStep
    <3> QED BY <1>2, <2>1, <3>2
  <2>2. CASE n # 1
    <3>1. g[tree.father[n]] = Reached(tree.father[n])
      BY <1>3, <1>facts, <1>fathers, <2>2
    <3> QED BY <1>1, <1>inv, <2>2, <3>1, ReachedStep
  <2> QED BY <2>1, <2>2
<1>5. \A n \in Nodes : DueAt(g, n) \in BOOLEAN /\ Reached(n) \in BOOLEAN
  BY Zenon DEF DueAt, Reached
<1>6. g = [n \in E!Nodes |-> DueAt(g, n)]
  <2>1. \A n \in E!Nodes : DueAt(g, n) = Reached(n)
    BY <1>4, <1>5, <1>facts
  <2> QED BY <1>3, <2>1
<1>7. PICK due : /\ due = [n \in E!Nodes |-> DueAt(due, n)]
                 /\ E!Due = {n \in E!Executables : due[n]}
  BY <1>6, DueUnfolds
<1> DEFINE S == {n \in Nodes : ~(due[n] <=> Reached(n))}
<1>8. \A n \in Nodes : due[n] <=> DueAt(due, n)
  <2>1. \A n \in Nodes : due[n] = DueAt(due, n)
    BY <1>7, <1>facts
  <2> QED BY <2>1
<1>9. \A n \in S : n # 1 => \E m \in S : m < n
  <2> SUFFICES ASSUME NEW n \in Nodes, ~(due[n] <=> Reached(n)), n # 1
               PROVE  tree.father[n] \in S /\ tree.father[n] < n
    OBVIOUS
  <2>1. due[n] <=> due[tree.father[n]] /\ Called(n)
    BY <1>1, <1>8
  <2>2. Reached(n) <=> Called(n) /\ Reached(tree.father[n])
    BY <1>inv, ReachedStep
  <2> QED BY <2>1, <2>2, <1>fathers
<1>10. 1 \notin S
  <2>1. due[1] <=> TRUE
    BY <1>2, <1>8, <1>facts
  <2>2. Called(1)
    BY <1>facts DEF Called
  <2>3. Reached(1)
    BY <2>2, <1>inv, <1>facts, ReachedStep
  <2> QED BY <2>1, <2>3
<1>11. S \in SUBSET Nat
  BY <1>facts
<1> HIDE DEF S
<1>12. S = {}
  BY <1>9, <1>10, <1>11, Descent
<1>13. \A n \in Executables : due[n] <=> Reached(n)
  BY <1>12, <1>facts DEF S
<1> QED BY <1>7, <1>13, <1>facts

-----------------------------------------------------------------------------
(* The refinement.                                                         *)

\* Everything above a node that is about to be started was started.
LEMMA StartedIsReached ==
    ASSUME Inv, Tracking, NEW n \in Nodes, n \in todo \/ Started(n)
    PROVE  Reached(n)
<1>inv. IsTree(tree) /\ OrderInv /\ GuardInv
  BY DEF Inv, CoreInv, TypeInv, TypeOK, EvaluationInv, Tracking
<1> SUFFICES ASSUME NEW k \in Nodes, Under(k, n) PROVE Called(k)
  BY DEF Reached
<1>1. CASE k = n
  BY <1>1, <1>inv DEF GuardInv
<1>2. CASE k # n
  <2>1. tree.father[n] \in Nodes /\ Under(k, tree.father[n])
    BY <1>2, <1>inv, FatherUnder
  <2>2. Started(tree.father[n])
    BY <1>inv, <2>1, TreeFacts DEF OrderInv
  <2>3. Started(k)
    BY <1>inv, <2>1, <2>2, StartedAbove
  <2> QED BY <1>inv, <2>3 DEF GuardInv
<1> QED BY <1>1, <1>2

\* When execute() returns, every node that was reached has been started.
LEMMA ReachedIsStarted ==
    ASSUME Inv, Tracking, pc = "wait", Excess = 0, NEW n \in Nodes, Reached(n)
    PROVE  Started(n)
<1>inv. /\ IsTree(tree) /\ todo = {} /\ HeardInv /\ StartInv
  BY DEF Inv, CoreInv, TypeInv, TypeOK, ControlInv, Tracking
<1>facts. /\ Nodes \subseteq Nat /\ NoNode \notin Nodes /\ 1 \in Nodes /\ tree.size \in Nat
  BY <1>inv, TreeFacts DEF IsTree
<1>awaited. \A m : Awaited(m) => Started(m)
  BY <1>inv DEF Awaited
<1> DEFINE S == {m \in Nodes : Under(m, n) /\ ~Started(m)}
<1>1. \A m \in S : m # 0 => \E k \in S : k < m
  <2> SUFFICES ASSUME NEW m \in Nodes, Under(m, n), ~Started(m)
               PROVE  tree.father[m] \in S /\ tree.father[m] < m
    OBVIOUS
  <2>1. m # 1
    BY <1>inv, <1>awaited DEF StartInv
  <2>2. m \in 2..tree.size
    BY <1>facts, <2>1 DEF Nodes
  <2>f. PICK f : f = tree.father[m]
    OBVIOUS
  <2>3. f \in Nodes /\ f < m /\ f # NoNode /\ m \in Operands(f)
    <3>1. f \in 1..(m - 1)
      BY <1>inv, <2>2, <2>f DEF IsTree
    <3> QED BY <1>facts, <2>2, <2>f, <3>1 DEF Operands, Nodes, NoNode
  <2>4. Under(f, n)
    <3>1. Under(f, m)
      <4>1. \A k \in (f + 1)..m : tree.father[k] >= f
        <5>1. \A k \in (f + 1)..(m - 1) : tree.father[k] >= f
          BY <1>inv, <2>2, <2>f DEF IsTree
        <5> QED BY <1>facts, <2>2, <2>3, <2>f, <5>1
      <4> QED BY <1>facts, <2>3, <4>1 DEF Under
    <3>2. ASSUME NEW k \in (f + 1)..n PROVE tree.father[k] >= f
      <4>1. f \in Nat /\ m \in Nat /\ n \in Nat /\ n >= m /\ k \in Nat
        BY <1>facts, <2>3, <3>2 DEF Under
      <4>2. CASE k <= m
        BY <3>1, <4>1, <4>2, <3>2 DEF Under
      <4>3. CASE k > m
        <5>1. k \in (m + 1)..n /\ k \in Nodes
          BY <1>facts, <3>2, <4>1, <4>3 DEF Nodes
        <5>2. tree.father[k] >= m /\ tree.father[k] \in Nat
          BY <5>1, <1>inv DEF Under, IsTree, Nodes
        <5> QED BY <2>3, <4>1, <5>2
      <4> QED BY <4>1, <4>2, <4>3
    <3> QED BY <1>facts, <2>3, <3>2 DEF Under
  <2>5. Called(m)
    BY DEF Reached
  <2>6. ASSUME Started(f) PROVE FALSE
    <3>1. IsSequence(f) /\ EarlierOperands(f, m) # {}
      BY <1>inv, <1>awaited, <2>3, <2>f, <2>6 DEF StartInv
    <3>2. PICK e \in EarlierOperands(f, m) : \A k \in EarlierOperands(f, m) : ~(e < k)
      <4>1. EarlierOperands(f, m) \in SUBSET Nodes
        BY DEF EarlierOperands, Operands
      <4> QED BY <1>facts, <3>1, <4>1, Ascent
    <3>3. /\ e \in Nodes /\ tree.father[e] = f /\ e \in Operands(f) /\ e < m
          /\ m \in LaterOperands(f, e)
      BY <1>facts, <2>3 DEF EarlierOperands, LaterOperands, Operands
    <3>4. /\ Ended(e)
          /\ tree.type[f] = "And" => EndedWell(e)
          /\ tree.type[f] = "Or" => EndedBadly(e)
      BY <2>3, <2>5, <2>f, <3>1
      DEF Called, IsSequence, SequenceTypes, EndedWell, EndedBadly
    <3>5. ~Decides(f, e)
      BY <3>3, <3>4 DEF Decides, EndedWell, EndedBadly
    <3>6. Started(First(LaterOperands(f, e)))
      BY <1>inv, <1>awaited, <2>3, <3>1, <3>3, <3>4, <3>5 DEF HeardInv
    <3>7. LaterOperands(f, e) \in SUBSET Nat
      BY <1>facts DEF LaterOperands, Operands
    <3>8. PICK k : k = First(LaterOperands(f, e))
      OBVIOUS
    <3>9. k \in LaterOperands(f, e) /\ k <= m
      BY <3>3, <3>7, <3>8, FirstIsLeast
    <3>10. k \in Nat /\ m \in Nat /\ e \in Nat /\ k \in Operands(f) /\ e < k
      BY <1>facts, <3>3, <3>7, <3>9 DEF LaterOperands
    <3>11. k \notin EarlierOperands(f, m)
      BY <3>2, <3>10
    <3>12. k = m
      BY <3>9, <3>10, <3>11 DEF EarlierOperands
    <3> QED BY <3>6, <3>8, <3>12
  <2> QED BY <2>3, <2>4, <2>6, <2>f
<1>2. S \in SUBSET Nat /\ 0 \notin S
  BY <1>facts DEF NoNode
<1>3. n \in S \/ Started(n)
  BY <1>facts DEF Under
<1> HIDE DEF S
<1>4. S = {}
  BY <1>1, <1>2, Descent
<1> QED BY <1>3, <1>4

\* What the refinement takes from the invariants.
RefInv == Inv /\ Tracking /\ Full /\ ResultsGoToExecutedNode

LEMMA RefAlways == NoStray /\ FullTrees => (Spec => []RefInv)
<1> SUFFICES ASSUME NoStray, FullTrees PROVE Spec => []RefInv
  OBVIOUS
<1>1. Init => Full
  BY DEF Init, Full, FullTrees, Nodes, Operands
<1>2. Full /\ [Next]_vars => Full'
  BY TreeConstant DEF Full
<1>3. Spec => []Full
  BY <1>1, <1>2, PTL DEF Spec
<1> QED BY <1>3, InvAlways, TrackingAlways, ResultsInPlace, PTL DEF RefInv

\* The executables that have been started, as Evaluation sees them.
Begun == {n \in Executables : result[n] # NoResult}

LEMMA RefinementInit == Init => E!Init
<1> SUFFICES ASSUME Init PROVE E!Init
  OBVIOUS
<1>1. Executables \subseteq Nodes
  BY DEF Executables
<1>2. Begun = {}
  BY <1>1 DEF Init, Begun
<1>3. Visible = [n \in Executables |-> Uninitialised]
  BY <1>1 DEF Init, Visible
<1>4. tree \in Trees /\ pc # "returned"
  BY DEF Init
<1> QED
  BY <1>2, <1>3, <1>4, SameTree DEF E!Init, Begun, Visible

\* A step that changes nothing Evaluation sees.
LEMMA Stutters ==
    ASSUME Inv, [Next]_vars, tree' = tree, pc # "returned" /\ pc' # "returned",
           \A n \in Executables :
             /\ Started(n)' <=> Started(n)
             /\ result'[n].exit_code = result[n].exit_code
    PROVE  UNCHANGED E!vars
<1>1. Executables' = Executables
  BY TreeConstant
<1>2. Begun' = Begun /\ Visible' = Visible
  BY <1>1 DEF Begun, Visible, Started
<1> QED BY <1>2 DEF E!vars, Begun, Visible

\* execute() returns when no node that was reached is left to run, with the
\* status of the whole command.
LEMMA ReturnStep ==
    ASSUME RefInv, Return, [Next]_vars
    PROVE  E!Return
<1>inv. /\ Inv /\ Tracking /\ Full /\ TypeOK /\ ControlInv /\ IsTree(tree)
        /\ ResultsGoToExecutedNode /\ CodeInv /\ StartInv /\ ForkInv
  BY DEF RefInv, Inv, CoreInv, TypeInv, TypeOK, Tracking
<1>facts. 1 \in Nodes /\ Executables \subseteq Nodes /\ E!Executables = Executables
  BY <1>inv, TreeFacts, SameTree
<1>1. /\ pc = "wait" /\ to_wait = 0 /\ pc' = "returned" /\ result' = result
      /\ tree' = tree /\ ~handling /\ todo = {}
  BY <1>inv DEF Return, ControlInv
<1>2. ExecutableChildren = {} /\ Excess = 0
  <2>1. IsFiniteSet(ExecutableChildren) /\ Cardinality(ExecutableChildren) \in Nat
    BY PidsAssumption, FS_Subset, FS_CardinalityType DEF ExecutableChildren, Unreaped
  <2>2. Excess = 0 - Cardinality(ExecutableChildren) /\ Excess \in Nat
    BY <1>1, <1>inv, <2>1 DEF Excess, Inv, CoreInv
  <2>3. Cardinality(ExecutableChildren) = 0 /\ Excess = 0
    BY <2>1, <2>2
  <2> QED BY <2>1, <2>3, FS_EmptySet
<1>3. \A n \in Executables : Started(n) => Ended(n)
  <2> SUFFICES ASSUME NEW n \in Executables, Started(n) PROVE Ended(n)
    OBVIOUS
  <2>1. PICK p \in Forked : proc[p].node = n
    BY <1>inv DEF ForkInv
  <2>2. p \in Pids /\ proc[p].state = "reaped"
    BY <1>2, <2>1 DEF Forked, ExecutableChildren, Unreaped
  <2>3. result[n].exit_code = proc[p].status /\ proc[p].status \in Statuses
    BY <1>inv, <2>1, <2>2 DEF ResultsGoToExecutedNode, TypeOK, Processes
  <2> QED BY <2>3 DEF Ended
<1>4. \A n \in E!Due : E!Ended(Visible[n])
  <2> SUFFICES ASSUME NEW n \in E!Due PROVE E!Ended(Visible[n])
    OBVIOUS
  <2>1. n \in Executables /\ n \in Nodes /\ Reached(n)
    BY <1>inv, <1>1, <1>facts, ReachedIsDue
  <2>2. Started(n) /\ Ended(n)
    BY <1>inv, <1>1, <1>2, <1>3, <2>1, ReachedIsStarted
  <2>3. Visible[n] \in Statuses
    BY <2>1, <2>2 DEF Visible, Started, Ended
  <2> QED BY <2>3, StatusFacts, SameTree DEF E!Ended, Uninitialised
<1>5. result[1].exit_code = E!Value[1]
  <2>1. E!Value[1] = Code(1)
    BY <1>inv, <1>1, <1>facts, CodesAreValues
  <2>2. Started(1)
    BY <1>inv, <1>1, <1>2 DEF StartInv, Awaited
  <2> QED BY <1>inv, <1>facts, <2>1, <2>2 DEF CodeInv, Code, Ended
<1>6. Begun' = Begun /\ Visible' = Visible
  BY <1>1, TreeConstant DEF Begun, Visible
<1> QED BY <1>1, <1>4, <1>5, <1>6 DEF E!Return, Begun, Visible

\* Every step of execute() is one that Evaluation allows, or none.
LEMMA RefinementNext ==
    ASSUME NoStray, RefInv, [Next]_vars
    PROVE  [E!Next]_(E!vars)
<1>inv. /\ Inv /\ Tracking /\ Full /\ TypeOK /\ ControlInv /\ IsTree(tree)
        /\ TodoInv /\ result \in [Nodes -> Results]
  BY DEF RefInv, Inv, CoreInv, TypeInv, TypeOK, EvaluationInv
<1>const. tree' = tree /\ Executables' = Executables /\ Nodes' = Nodes
  BY TreeConstant
<1>facts. Executables \subseteq Nodes /\ E!Executables = Executables
  BY SameTree DEF Executables
<1>never. Inv'
  BY InvNext, <1>inv
<1>1. CASE pc = "returned"
  <2>1. result' = result /\ pc' \in {"returned", "dead"}
    BY ZenonT(60), <1>1
    DEF Next, Parent, Loop, Signal, WaitFindsNoChild, Terminated, vars, ExecuteAsync,
        RecordPid, HandleCompleted, ReapUnknown, ReapNode, WaitReturns, CountDown, Return,
        DeliverSigusr1, Alive, KilledBySigusr1, Child, ChildCannotInvoke,
        ChildExitsAfterFailure, ChildCannotRedirect, ChildInvokes, ProcessExits, parentVars
  <2>2. pc' # "dead"
    BY <1>never DEF Inv, CoreInv, ProcessInv, ChildInv
  <2>3. Begun' = Begun /\ Visible' = Visible /\ pc' = pc
    BY <1>1, <2>1, <2>2, <1>const DEF Begun, Visible
  <2> QED BY SMTT(60), <1>const, <2>1, <2>3 DEF E!vars, Begun, Visible
<1>2. CASE pc # "returned" /\ pc' = "returned"
  <2>1. Return
    BY <1>2
    DEF Next, Parent, Loop, Signal, WaitFindsNoChild, Terminated, vars, ExecuteAsync,
        StartPipe, StartSequence, AppenderCannotRedirect, ForkExecutable, ForkFails,
        AfterAsync, RecordPid, HandleCompleted, ExecuteNext, EndOperator,
        SegmentationFault, ReapUnknown, ReapNode, CountDown, DeliverSigusr1,
        KilledBySigusr1, Child, ChildCannotInvoke, ChildExitsAfterFailure,
        ChildCannotRedirect, ChildInvokes, ProcessExits, parentVars
  <2>2. E!Return
    BY <2>1, ReturnStep
  <2> QED BY SMTT(60), <2>2 DEF E!Next
<1>3. CASE pc # "returned" /\ pc' # "returned"
  <2>stutters. ASSUME \A n \in Executables :
                        /\ Started(n)' <=> Started(n)
                        /\ result'[n].exit_code = result[n].exit_code
               PROVE  UNCHANGED E!vars
    BY <1>3, <1>inv, <1>const, <2>stutters, Stutters
  <2>1. CASE Quiet
    BY <2>1, <2>stutters, <1>facts DEF Quiet
  <2>2. CASE GoesOn
    <3>1. \A n \in Executables : /\ Started(n)' <=> Started(n)
                                 /\ result'[n].exit_code = result[n].exit_code
      BY <2>2 DEF GoesOn, Started
    <3> QED BY <3>1, <2>stutters
  <2>3. ASSUME NEW n \in Nodes, Starts(n) PROVE [E!Next]_(E!vars)
    <3>1. /\ n \in todo /\ pc = "async" /\ ~Started(n)
          /\ \A m \in Nodes : m # n => result'[m] = result[m]
      BY <2>3, <1>inv DEF Starts, TodoInv
    <3>2. CASE n \notin Executables \/ ~Started(n)'
      <4>1. \A m \in Executables : result'[m] = result[m]
        BY <3>1, <3>2, <1>facts DEF Started
      <4>2. \A m \in Executables : /\ Started(m)' <=> Started(m)
                                   /\ result'[m].exit_code = result[m].exit_code
        BY <4>1 DEF Started
      <4> QED BY <4>2, <2>stutters
    <3>3. CASE n \in Executables /\ Started(n)'
      <4>1. n \in E!Due
        BY <3>1, <3>3, <1>inv, <1>facts, StartedIsReached, ReachedIsDue
      <4>2. n \notin Begun /\ Begun' = Begun \cup {n}
        BY <3>1, <3>3, <1>const, <1>facts DEF Begun, Started
      <4>3. Visible' = Visible
        <5>1. result'[n] # NoResult /\ result'[n].exit_code = Uninitialised
              /\ result[n] = NoResult
          BY <2>3, <3>1, <3>3 DEF Starts, Started
        <5> QED BY <3>1, <5>1, <1>const, <1>facts DEF Visible
      <4>4. E!Start
        BY <1>3, <4>1, <4>2, <4>3, <1>const DEF E!Start, Begun, Visible
      <4> QED BY <4>4 DEF E!Next
    <3> QED BY <3>2, <3>3
  <2>4. ASSUME NEW n \in Nodes, NEW s \in Statuses, Ends(n, s) PROVE [E!Next]_(E!vars)
    <3>1. /\ \A m \in Nodes : Started(m)' <=> Started(m)
          /\ \A m \in Nodes : m # n => result'[m] = result[m]
          /\ result'[n].exit_code = s
      BY <2>4, <1>inv DEF Ends, Results
    <3>2. CASE n \notin Executables \/ Ended(n)
      <4>1. \A m \in Executables : result'[m].exit_code = result[m].exit_code
        BY <3>1, <3>2, <1>inv, <1>facts, FinalNext DEF Inv
      <4> QED BY <3>1, <4>1, <1>facts, <2>stutters
    <3>3. CASE n \in Executables /\ ~Ended(n)
      <4>1. Started(n)
        <5>1. Started(n)'
          BY <3>1, StatusFacts DEF Started, NoResult
        <5> QED BY <3>1, <5>1
      <4>2. n \in Begun /\ Begun' = Begun
        BY <3>1, <3>3, <4>1, <1>const, <1>facts DEF Begun, Started
      <4>3. ~E!Ended(Visible[n])
        <5>1. Visible[n] = Uninitialised
          BY <3>3, <4>1, <1>inv DEF Visible, Started, Tracking, CodeInv, Ended
        <5> QED BY <5>1, SameTree DEF E!Ended
      <4>4. Visible' = [Visible EXCEPT ![n] = s]
        <5>1. \A m \in Executables : Visible'[m] = IF m = n THEN s ELSE Visible[m]
          <6>1. \A m \in Executables :
                  /\ Visible[m] = IF Started(m) THEN result[m].exit_code ELSE Uninitialised
                  /\ Visible'[m] = IF Started(m)' THEN result'[m].exit_code ELSE Uninitialised
            BY <1>const DEF Visible, Started
          <6> QED BY <6>1, <3>1, <4>1, <1>facts
        <5> QED BY <5>1, <1>const DEF Visible
      <4>5. E!End
        BY <1>3, <4>2, <4>3, <4>4, <1>const DEF E!End, Begun, Visible
      <4> QED BY <4>5 DEF E!Next
    <3> QED BY <3>2, <3>3
  <2> QED BY <2>1, <2>2, <2>3, <2>4, StepKinds, <1>inv
<1> QED BY <1>1, <1>2, <1>3

\* execute() evaluates the command as a shell does: whatever tree it is given,
\* whichever of its forks fail and in whatever order its children end, it
\* starts an executable only when the operators above it call for it, and it
\* returns with none left to start and with the status of the command
\* (handle_operands_node_execution_completed).
THEOREM ExecuteEvaluates == NoStray /\ FullTrees => (Spec => Evaluates)
<1> SUFFICES ASSUME NoStray, FullTrees PROVE Spec => Evaluates
  OBVIOUS
<1>1. Init => E!Init
  BY RefinementInit
<1>2. RefInv /\ [Next]_vars => [E!Next]_(E!vars)
  BY RefinementNext
<1> QED BY RefAlways, <1>1, <1>2, PTL DEF Spec, Evaluates, E!Spec
=============================================================================
