------------------------------ MODULE Execute ------------------------------
(***************************************************************************)
(* execute() of src/src/execute/execute.c: one process, the parent, runs a *)
(* tree of commands.  It forks a child for each executable and an appender *)
(* for each And, Or and Semicolon node, waits for any child with wait3(),  *)
(* stores the status in the node that owns the pid and starts whatever the *)
(* operators above that node call for.  A child that cannot invoke its     *)
(* executable says so with SIGUSR1, whose handler runs between any two     *)
(* steps of the parent.                                                    *)
(*                                                                         *)
(* Modelled: control, processes, pids, the signal and the results.  File   *)
(* descriptors and the data that flows through them are left out, so a     *)
(* process may end at any moment.                                          *)
(***************************************************************************)
EXTENDS CommandTree

CONSTANTS
    Pids,          \* the process ids fork() may return
    HeapValues,    \* what malloc() leaves in the pid field of a new node
    ExitStatuses,  \* raw wait statuses an invoked executable may end with
    ReusePids,     \* TRUE: the kernel may hand out the pid of a reaped process
    ForkMayFail    \* TRUE: fork() may return -1

VARIABLES
    pc,        \* where the parent is: see ControlStates
    todo,      \* nodes on which execute_async() is still to be called
    forked,    \* <<node, pid>> returned by fork() and not yet stored in node->pid
    frame,     \* <<operator, completed operand>>: arguments of
               \* handle_operands_node_execution_completed()
    handling,  \* TRUE from the reaping of a known child to the to_wait-- for it
    to_wait,   \* the static counter of the same name
    result,    \* node->result of each node
    pid,       \* node->pid of each node
    proc,      \* the kernel's view: the child that has each pid
    sigusr1    \* sender of the pending SIGUSR1, or NoPid: signals do not queue

vars == <<tree, pc, todo, forked, frame, handling, to_wait, result, pid, proc,
          sigusr1>>

NoPid == 0

ASSUME PidsAssumption == IsFiniteSet(Pids) /\ NoPid \notin Pids

ASSUME StatusAssumption == ExitStatuses \subseteq Nat

ASSUME SwitchAssumption == ReusePids \in BOOLEAN /\ ForkMayFail \in BOOLEAN

-----------------------------------------------------------------------------
(* Results.                                                                *)

NoResult == [invocation_failed |-> FALSE, exit_code |-> -2]   \* a NULL pointer
NewResult == [invocation_failed |-> FALSE, exit_code |-> Uninitialised]

Statuses == ExitStatuses \cup {Exit(0), Exit(1), Exit(255)}

-----------------------------------------------------------------------------
(* Processes.                                                              *)

ProcessStates ==
    {"none",      \* the pid was never used
     "child",     \* forked, still running the tool's own code
     "failed",    \* has reported SIGUSR1, is about to exit
     "running",   \* execvp() succeeded, or an appender copying streams
     "zombie",    \* has exited, not yet waited for
     "reaped"}    \* waited for: the pid is free again

\* failure is what really stopped the executable from starting, which
\* invocation_failed is meant to record.
Process(n, s) == [node |-> n, state |-> s, status |-> 0, failure |-> "none"]

Unreaped == {p \in Pids : proc[p].state \notin {"none", "reaped"}}

\* Children that run the executable of some node; the others are appenders.
ExecutableChildren == {p \in Unreaped : proc[p].node \in Executables}

FreePids ==
    {p \in Pids : proc[p].state = "none" \/ (ReusePids /\ proc[p].state = "reaped")}

\* Mutant: the pid is not compared, any node that was started matches.
AnyNodeWithPid(p) == {n \in Executables : pid[n] \in Pids}

\* The node find_node_in_tree_with_pid() returns: the first in depth-first order.
NodesWithPid(p) == {n \in Executables : pid[n] = p}
NodeWithPid(p) == First(NodesWithPid(p))

-----------------------------------------------------------------------------
(* Control.                                                                *)

ControlStates ==
    {"async",     \* inside execute_async(), todo # {}
     "record",    \* fork() has returned, node->pid is not yet assigned
     "wait",      \* at the head of the loop on to_wait
     "handle",    \* inside handle_operands_node_execution_completed()
     "count",     \* before to_wait--
     "returned",  \* execute() has returned
     "exited",    \* program_fail(): the tool ends in the middle of execute()
     "dead"}      \* killed by SIGSEGV or by SIGUSR1's default action

Alive == pc \notin {"returned", "exited", "dead"}

\* Where the parent goes once the calls of execute_async() in t remain to be made.
AfterAsync(t) ==
    IF t # {} THEN "async" ELSE IF handling THEN "count" ELSE "wait"

Init ==
    /\ tree \in Trees
    /\ pc = "async"
    /\ todo = {1}
    /\ forked = <<NoNode, NoPid>>
    /\ frame = <<NoNode, NoNode>>
    /\ handling = FALSE
    /\ to_wait = 0
    /\ result = [n \in Nodes |-> NoResult]
    /\ \E heap \in [Executables -> HeapValues] :
         pid = [n \in Nodes |-> IF n \in Executables THEN heap[n] ELSE NoPid]
    /\ proc = [p \in Pids |-> Process(NoNode, "none")]
    /\ sigusr1 = NoPid

-----------------------------------------------------------------------------
(* execute_async(): the calls still to be made are made in preorder.       *)

\* Mutant: create_execution_result() is forgotten for a pipe.
StartPipeWithoutResult(n) ==
    /\ tree.type[n] = "Pipe"
    /\ todo' = (todo \ {n}) \cup Operands(n)
    /\ pc' = AfterAsync(todo')
    /\ UNCHANGED <<result, forked, to_wait, proc>>

\* execute_pipe_async(): every operand is executed at once.
StartPipe(n) ==
    /\ tree.type[n] = "Pipe"
    /\ result' = [result EXCEPT ![n] = NewResult]
    /\ todo' = (todo \ {n}) \cup Operands(n)
    /\ pc' = AfterAsync(todo')
    /\ UNCHANGED <<forked, to_wait, proc>>

\* execute_first_operand_async_and_start_appender().  Nothing is started, and
\* nobody is told, when the operator has no operand.
StartSequence(n) ==
    /\ tree.type[n] \in SequenceTypes
    /\ result' = [result EXCEPT ![n] = NewResult]
    /\ IF Operands(n) = {}
         THEN /\ todo' = todo \ {n}
              /\ UNCHANGED proc
         ELSE /\ todo' = (todo \ {n}) \cup {First(Operands(n))}
              /\ \/ \E p \in FreePids :
                      proc' = [proc EXCEPT ![p] = Process(n, "running")]
                 \/ ForkMayFail /\ UNCHANGED proc   \* init_appender ignores it
    /\ pc' = AfterAsync(todo')
    /\ UNCHANGED <<forked, to_wait>>

\* init_appender(): the parent itself opens the file an operator is redirected
\* to, and program_fail() ends the whole tool when it cannot.
AppenderCannotRedirect(n) ==
    /\ tree.type[n] \in SequenceTypes
    /\ Operands(n) # {}
    /\ result' = [result EXCEPT ![n] = NewResult]
    /\ todo' = todo \ {n}
    /\ pc' = "exited"
    /\ UNCHANGED <<forked, to_wait, proc>>

\* execute_executable_async() up to the return of fork().
ForkExecutable(n) ==
    /\ tree.type[n] = "Executable"
    /\ \E p \in FreePids :
         /\ proc' = [proc EXCEPT ![p] = Process(n, "child")]
         /\ forked' = <<n, p>>
    /\ result' = [result EXCEPT ![n] = NewResult]
    /\ to_wait' = to_wait + 1
    /\ todo' = todo \ {n}
    /\ pc' = "record"

\* fork() returned -1: the result is dropped, to_wait keeps its increment.
ForkFails(n) ==
    /\ ForkMayFail
    /\ tree.type[n] = "Executable"
    /\ result' = [result EXCEPT ![n] = NoResult]
    /\ to_wait' = to_wait + 1
    /\ todo' = todo \ {n}
    /\ pc' = AfterAsync(todo')
    /\ UNCHANGED <<forked, proc>>

ExecuteAsync ==
    /\ pc = "async"
    /\ LET n == First(todo) IN
         \/ StartPipe(n)
         \/ StartSequence(n)
         \/ AppenderCannotRedirect(n)
         \/ ForkExecutable(n)
         \/ ForkFails(n)
    /\ UNCHANGED <<tree, frame, handling, pid, sigusr1>>

\* node->pid = fork_result
RecordPid ==
    /\ pc = "record"
    /\ pid' = [pid EXCEPT ![forked[1]] = forked[2]]
    /\ forked' = <<NoNode, NoPid>>
    /\ pc' = AfterAsync(todo)
    /\ UNCHANGED <<tree, todo, frame, handling, to_wait, result, proc, sigusr1>>

-----------------------------------------------------------------------------
(* manage_running_nodes_and_collect_data()                                 *)

\* A write through a NULL node->result.
SegmentationFault ==
    /\ pc' = "dead"
    /\ UNCHANGED <<todo, frame, handling, result>>

\* wait3() returns a zombie.  A signal that arrived before is handled first,
\* on the way back from the system call.
WaitReturns(p) ==
    /\ pc = "wait"
    /\ to_wait > 0
    /\ sigusr1 = NoPid
    /\ proc[p].state = "zombie"
    /\ proc' = [proc EXCEPT ![p].state = "reaped"]

\* Mutant: to_wait-- is outside "if (found)".
ReapUnknownCounts(p) ==
    /\ WaitReturns(p)
    /\ NodesWithPid(p) = {}
    /\ to_wait' = to_wait - 1
    /\ UNCHANGED <<tree, pc, todo, forked, frame, handling, result, pid, sigusr1>>

\* An appender, or a child that no node knows: the loop goes on.
ReapUnknown(p) ==
    /\ WaitReturns(p)
    /\ NodesWithPid(p) = {}
    /\ UNCHANGED <<tree, pc, todo, forked, frame, handling, to_wait, result,
                   pid, sigusr1>>

\* assign_results(), then the operator above the node, if there is one.
ReapNode(p) ==
    /\ WaitReturns(p)
    /\ NodesWithPid(p) # {}
    /\ LET n == NodeWithPid(p) IN
         IF result[n] = NoResult THEN SegmentationFault
         ELSE /\ result' = [result EXCEPT ![n].exit_code = proc[p].status]
              /\ handling' = TRUE
              /\ frame' = <<tree.father[n], n>>
              /\ pc' = IF tree.father[n] = NoNode THEN "count" ELSE "handle"
              /\ UNCHANGED todo
    /\ UNCHANGED <<tree, forked, to_wait, pid, sigusr1>>

\* wait3() returns -1, which no node has as its pid: the loop spins.
WaitFindsNoChild ==
    /\ pc = "wait"
    /\ to_wait > 0
    /\ Unreaped = {}
    /\ UNCHANGED vars

\* Mutant: to_wait-- is written twice.
CountDownTwice ==
    /\ pc = "count"
    /\ to_wait' = to_wait - 2
    /\ handling' = FALSE
    /\ pc' = "wait"
    /\ UNCHANGED <<tree, todo, forked, frame, result, pid, proc, sigusr1>>

CountDown ==
    /\ pc = "count"
    /\ to_wait' = to_wait - 1
    /\ handling' = FALSE
    /\ pc' = "wait"
    /\ UNCHANGED <<tree, todo, forked, frame, result, pid, proc, sigusr1>>

\* The loop ends and execute() restores the default action of SIGUSR1.
Return ==
    /\ pc = "wait"
    /\ to_wait = 0
    /\ pc' = "returned"
    /\ UNCHANGED <<tree, todo, forked, frame, handling, to_wait, result, pid,
                   proc, sigusr1>>

-----------------------------------------------------------------------------
(* handle_operands_node_execution_completed(operator, completed): one step *)
(* for each level the recursion climbs.                                    *)

\* Mutants: every later operand is started at once, or the last one.
ExecuteAllNext(operator, completed) ==
    /\ todo' = LaterOperands(operator, completed)
    /\ pc' = "async"
    /\ UNCHANGED <<frame, handling, result>>

ExecuteLast(operator, completed) ==
    /\ todo' = {Last(LaterOperands(operator, completed))}
    /\ pc' = "async"
    /\ UNCHANGED <<frame, handling, result>>

\* execute_async(next)
ExecuteNext(operator, completed) ==
    /\ todo' = {First(LaterOperands(operator, completed))}
    /\ pc' = "async"
    /\ UNCHANGED <<frame, handling, result>>

\* end = TRUE: the operator is completed too, tell its father.
EndOperator(operator, status) ==
    IF result[operator] = NoResult THEN SegmentationFault
    ELSE /\ result' = [result EXCEPT ![operator].exit_code = status]
         /\ frame' = <<tree.father[operator], operator>>
         /\ pc' = IF tree.father[operator] = NoNode THEN "count" ELSE "handle"
         /\ UNCHANGED <<todo, handling>>

HandleCompleted ==
    /\ pc = "handle"
    /\ LET operator == frame[1]
           completed == frame[2]
           status == result[completed].exit_code
           has_next == LaterOperands(operator, completed) # {}
           exited_correctly == ExitedCorrectly(status)
       IN
         \/ /\ tree.type[operator] = "And"
            /\ \/ exited_correctly /\ has_next /\ ExecuteNext(operator, completed)
               \/ exited_correctly /\ ~has_next /\ EndOperator(operator, Exit(0))
               \/ ~exited_correctly /\ EndOperator(operator, status)
         \/ /\ tree.type[operator] = "Or"
            /\ \/ exited_correctly /\ EndOperator(operator, Exit(0))
               \/ ~exited_correctly /\ has_next /\ ExecuteNext(operator, completed)
               \/ ~exited_correctly /\ ~has_next /\ EndOperator(operator, status)
         \/ /\ tree.type[operator] = "Semicolon"
            /\ \/ has_next /\ ExecuteNext(operator, completed)
               \/ ~has_next /\ EndOperator(operator, status)
         \/ /\ tree.type[operator] = "Pipe"
            /\ \/ /\ has_next
                  /\ pc' = "count"
                  /\ UNCHANGED <<todo, frame, handling, result>>
               \/ ~has_next /\ EndOperator(operator, status)
    /\ UNCHANGED <<tree, forked, to_wait, pid, proc, sigusr1>>

-----------------------------------------------------------------------------
(* run_execute_executable_child() and the executables.                     *)

\* kill(getppid(), SIGUSR1): dropped when one is already pending.
SignalParent(p) == sigusr1' = IF sigusr1 = NoPid THEN p ELSE sigusr1

parentVars == <<tree, pc, todo, forked, frame, handling, to_wait, result, pid>>

\* chdir() or execvp() fails: report it, then exit(1) or exit(-1).
ChildCannotInvoke(p) ==
    /\ proc[p].state = "child"
    /\ \E status \in {Exit(1), Exit(255)} :
         proc' = [proc EXCEPT ![p].state = "failed", ![p].status = status,
                              ![p].failure = "invocation"]
    /\ SignalParent(p)
    /\ UNCHANGED parentVars

ChildExitsAfterFailure(p) ==
    /\ proc[p].state = "failed"
    /\ proc' = [proc EXCEPT ![p].state = "zombie"]
    /\ UNCHANGED <<parentVars, sigusr1>>

\* open_redirect_file_if_needed() fails: exit(1), and no signal.
ChildCannotRedirect(p) ==
    /\ proc[p].state = "child"
    /\ proc' = [proc EXCEPT ![p].state = "zombie", ![p].status = Exit(1),
                            ![p].failure = "redirect"]
    /\ UNCHANGED <<parentVars, sigusr1>>

ChildInvokes(p) ==
    /\ proc[p].state = "child"
    /\ proc' = [proc EXCEPT ![p].state = "running"]
    /\ UNCHANGED <<parentVars, sigusr1>>

\* An executable ends with any status, an appender with exit(0).
ProcessExits(p) ==
    /\ proc[p].state = "running"
    /\ \E status \in IF p \in ExecutableChildren THEN ExitStatuses ELSE {Exit(0)} :
         proc' = [proc EXCEPT ![p].state = "zombie", ![p].status = status]
    /\ UNCHANGED <<parentVars, sigusr1>>

-----------------------------------------------------------------------------
(* on_execution_failed(), between any two steps of execute().              *)
DeliverSigusr1 ==
    /\ sigusr1 # NoPid
    /\ Alive
    /\ sigusr1' = NoPid
    /\ IF NodesWithPid(sigusr1) = {}
         THEN UNCHANGED <<pc, result>>
         ELSE LET n == NodeWithPid(sigusr1) IN
              IF result[n] = NoResult
                THEN pc' = "dead" /\ UNCHANGED result
                ELSE /\ result' = [result EXCEPT ![n].invocation_failed = TRUE]
                     /\ UNCHANGED pc
    /\ UNCHANGED <<tree, todo, forked, frame, handling, to_wait, pid, proc>>

\* After remove_signal_handler() the signal has its default action.
KilledBySigusr1 ==
    /\ sigusr1 # NoPid
    /\ pc = "returned"
    /\ pc' = "dead"
    /\ sigusr1' = NoPid
    /\ UNCHANGED <<tree, todo, forked, frame, handling, to_wait, result, pid, proc>>

-----------------------------------------------------------------------------
Loop == \/ \E p \in Pids : ReapUnknown(p) \/ ReapNode(p)
        \/ CountDown
        \/ Return

Parent == ExecuteAsync \/ RecordPid \/ HandleCompleted \/ Loop

Child(p) == \/ ChildCannotInvoke(p)
            \/ ChildExitsAfterFailure(p)
            \/ ChildCannotRedirect(p)
            \/ ChildInvokes(p)
            \/ ProcessExits(p)

Signal == DeliverSigusr1 \/ KilledBySigusr1

\* What is left once execute() is over and every process has ended.
Terminated == ~Alive /\ UNCHANGED vars

Next == \/ Parent
        \/ WaitFindsNoChild
        \/ \E p \in Pids : Child(p)
        \/ Signal
        \/ Terminated

Spec == Init /\ [][Next]_vars

\* The scheduler runs the parent and delivers its signals; every executable
\* and appender that runs comes to an end.
FairSpec ==
    /\ Spec
    /\ WF_vars(Parent)
    /\ WF_vars(DeliverSigusr1)
    /\ \A p \in Pids : WF_vars(Child(p))

-----------------------------------------------------------------------------
(* Properties.                                                             *)

Results ==
    [invocation_failed : BOOLEAN, exit_code : Statuses \cup {Uninitialised, -2}]

Processes ==
    [node : Nodes \cup {NoNode}, state : ProcessStates, status : Statuses,
     failure : {"none", "invocation", "redirect"}]

\* Type invariant: every variable stays in its range.
TypeOK ==
    /\ IsTree(tree)
    /\ pc \in ControlStates
    /\ todo \subseteq Nodes
    /\ forked \in (Nodes \cup {NoNode}) \X (Pids \cup {NoPid})
    /\ frame \in (Nodes \cup {NoNode}) \X (Nodes \cup {NoNode})
    /\ handling \in BOOLEAN
    /\ to_wait \in Nat
    /\ result \in [Nodes -> Results]
    /\ pid \in [Nodes -> HeapValues \cup Pids \cup {NoPid}]
    /\ proc \in [Pids -> Processes]
    /\ sigusr1 \in Pids \cup {NoPid}

\* to_wait is the number of executables still to be waited for (execute.c:66):
\* appenders are never counted, and the child just reaped is counted until
\* everything its end starts has been started, so the loop cannot stop early.
ToWaitCounts ==
    to_wait = Cardinality(ExecutableChildren) + (IF handling THEN 1 ELSE 0)

\* When execute() returns no executable is left to wait for and no SIGUSR1 is
\* pending: one that came after remove_signal_handler() would kill the tool.
QuietAtReturn ==
    pc = "returned" => ExecutableChildren = {} /\ sigusr1 = NoPid

\* The status of a child that was waited for is in the node that ran it, not
\* in another one that once had the same pid (assign_results).
ResultsGoToExecutedNode ==
    \A p \in Pids :
      proc[p].state = "reaped" /\ proc[p].node \in Executables =>
        result[proc[p].node].exit_code = proc[p].status

\* A node marked invocation_failed is one whose child could not chdir or exec
\* (on_execution_failed): no other child's failure is charged to it.
InvocationFailedIsTrue ==
    \A n \in Executables :
      result[n].invocation_failed =>
        \E p \in Pids : proc[p].node = n /\ proc[p].failure = "invocation"

\* on_execution_failed (execute.c:84-87): a child that could not invoke its
\* executable is reported as such once execute() returns.
InvocationFailureReported ==
    pc = "returned" =>
      \A p \in Pids :
        proc[p].failure = "invocation" => result[proc[p].node].invocation_failed

\* No two operands of a sequencing operator run at the same time, unless the
\* earlier one contains a pipe, which ends with its last operand.
OperandsTakeTurns ==
    \A p, q \in ExecutableChildren : \A m \in Nodes :
      LET s == tree.father[m] IN
        (s # NoNode /\ Under(m, proc[q].node)) =>
          \A k \in EarlierOperands(s, m) :
            (/\ tree.type[s] \in SequenceTypes
             /\ \A n \in Nodes : Under(k, n) => tree.type[n] # "Pipe")
            => ~Under(k, proc[p].node)

\* A node's exit code is assigned once: no operand is executed twice and no
\* operator ends twice.
ResultsAreFinal ==
    [][\A n \in Nodes :
         result[n].exit_code \in Statuses =>
           result'[n].exit_code = result[n].exit_code]_vars

\* The executables started and their statuses, as the caller can see them.
E == INSTANCE Evaluation WITH
       started <- {n \in Executables : result[n] # NoResult},
       status <- [n \in Executables |->
                    IF result[n] = NoResult THEN Uninitialised
                    ELSE result[n].exit_code],
       returned <- (pc = "returned"),
       exit_code <- IF pc = "returned" THEN result[1].exit_code
                    ELSE Uninitialised

\* execute() starts each executable when the shell operators above it call for
\* it and never otherwise, ends with none left to start, and leaves the status
\* of the command in the root (handle_operands_node_execution_completed).
Evaluates == E!Spec

\* Only a pid field that names another node's child, because malloc() left it
\* there or the kernel used it again, can make execute() or the SIGUSR1 handler
\* go through a NULL result, or the signal kill the tool after the return.
DiesOnlyByStrayPid ==
    pc = "dead" => \E n \in Executables : pid[n] \in Pids /\ proc[pid[n]].node # n

\* More children are awaited than there are: a fork() failed after to_wait++.
Miscounted ==
    to_wait > Cardinality(ExecutableChildren) + (IF handling THEN 1 ELSE 0)

\* A status, or a signal, that goes to a node other than the one whose child it
\* is of: the same pid is in a node before it.
Misdirected ==
    \E p \in Pids : /\ proc[p].state = "zombie"
                    /\ NodesWithPid(p) # {}
                    /\ NodeWithPid(p) # proc[p].node

\* execute.c:104: execute() blocks until the execution of the tree is
\* completed, and no longer: it comes to an end whatever pids it is given,
\* unless a fork() that failed has left to_wait too high for ever, or the pid of
\* an operand that is used again makes its operator go on again and again.
ExecuteReturns == <>(~Alive \/ []Miscounted) \/ []<>Misdirected
=============================================================================
