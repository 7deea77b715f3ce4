------------------------------ MODULE Plumbing ------------------------------
(***************************************************************************)
(* The descriptors of src/src/execute/execute.c: the parent opens the      *)
(* pipes of a wired tree as the nodes that use them are executed, each     *)
(* fork() copies its table, the child moves its streams to 0 and 1 and     *)
(* closes what open_appender_fds lists, the appender of a sequencing       *)
(* operator copies the output of the operands one after the other.         *)
(*                                                                         *)
(* Modelled: every open, pipe, dup2, close and fork, the numbers they give *)
(* and take, end of file, SIGPIPE and full pipes.  Pids, wait statuses and *)
(* SIGUSR1 are in Execute; here a process is known by its node, fork() and *)
(* open() succeed, and to_wait is the number it counts.                    *)
(***************************************************************************)
EXTENDS Wiring, Sequences

CONSTANTS
    MaxFd,      \* the highest descriptor
    PipeSize    \* the chunks a pipe holds before its writer blocks

VARIABLES
    pc,         \* where the parent is: see ControlStates
    todo,       \* nodes on which execute_async() is still to be called
    current,    \* the node that execute_async() is called on
    opening,    \* pipes still to be opened before the fork for it
    frame,      \* arguments of handle_operands_node_execution_completed()
    state,      \* state of the process of each node, "none" if it has none
    status,     \* node->result: "none", "started", or how the node ended
    fds,        \* descriptor table of each process; the parent's is fds[0]
    desc,       \* pipe->descriptors, <<read, write>>; NoPipe if not initialized
    to_fd,      \* appender->to->file_descriptor
    open_appender_fds,  \* the list of the same name in the parent
    known,      \* its length when the process of the node was forked
    source,     \* the operand an appender is reading
    held,       \* the chunk it has read and not yet written
    buffer,     \* the chunks in each pipe
    file,       \* the chunks in the file each node is redirected to; 0: stdout
    wrote       \* executables whose output was accepted by a write()

parentVars == <<pc, todo, current, opening, frame>>
memoryVars == <<desc, to_fd, open_appender_fds, known>>
dataVars == <<source, held, buffer, file, wrote>>
vars == <<tree, parentVars, state, status, fds, memoryVars, dataVars>>

ASSUME SizesAssumption == MaxFd \in Nat /\ MaxFd >= 2 /\ PipeSize \in Nat \ {0}

ASSUME WiredAssumption == \A t \in Trees : IsWired(t)

-----------------------------------------------------------------------------
(* Descriptor tables.                                                      *)

Tool == 0                       \* the parent process
Processes == Nodes \cup {Tool}
Fd == 0..MaxFd

Closed == <<"closed", 0>>
ReadEnd(m) == <<"read", m>>
WriteEnd(m) == <<"write", m>>
Input(n) == <<"input", n>>      \* a file opened to read; 0: the tool's stdin
Output(n) == <<"output", n>>    \* a file opened to write; 0: the tool's stdout

Ends == {Closed}
          \cup {ReadEnd(m) : m \in Nodes} \cup {WriteEnd(m) : m \in Nodes}
          \cup {Input(n) : n \in Processes} \cup {Output(n) : n \in Processes}

StdTable ==
    [fd \in Fd |-> CASE fd = 0 -> Input(0)
                     [] fd \in {1, 2} -> Output(0)
                     [] OTHER -> Closed]
EmptyTable == [fd \in Fd |-> Closed]

Lowest(table) == First({fd \in Fd : table[fd] = Closed})
Opened(table, end) == [table EXCEPT ![Lowest(table)] = end]

\* close() of each number of S; one that is not open is an error nobody tests.
WithoutFds(table, S) == [fd \in Fd |-> IF fd \in S THEN Closed ELSE table[fd]]

Holds(p, end) == \E fd \in Fd : fds[p][fd] = end
Readers(m) == {p \in Processes : Holds(p, ReadEnd(m))}
Writers(m) == {p \in Processes : Holds(p, WriteEnd(m))}

NoPipe == <<0, 0>>
ReadFd(m) == desc[m][1]
WriteFd(m) == desc[m][2]

PipesOf(stream) == IF IsPipe(stream) THEN {stream[2]} ELSE {}

-----------------------------------------------------------------------------
(* init_appender_fds_collector()                                           *)

\* Mutant: count_max_appender_file_descriptors() does not recurse.
MaxAppenderFdsOfRoot ==
    IF tree.type[1] \in SequenceTypes THEN 2 * Cardinality(Operands(1)) + 2 ELSE 0

\* count_max_appender_file_descriptors() of the root: over the sequencing operators
\* of the tree, two for each operand and two for the operator.
MaxAppenderFds ==
    2 * Cardinality({m \in Nodes : IsSequenceOperand(m)}) + 2 * Cardinality(Sequencers)

-----------------------------------------------------------------------------
(* Control of the parent.                                                  *)

ControlStates ==
    {"async",     \* in execute_async(), todo # {}
     "open",      \* opening the pipes of a node, then fork()
     "close",     \* closing what the parent does not use
     "wait",      \* at the head of the loop on to_wait
     "handle",    \* in handle_operands_node_execution_completed()
     "returned",  \* execute() has returned: the tool reports and exits
     "exited"}

ProcessStates ==
    {"none",
     "forked",    \* still running the tool's own code
     "running",   \* an executable that has not read all it reads
     "writing",   \* an executable about to write
     "written",   \* an executable about to exit
     "copying",   \* an appender
     "zombie",
     "reaped"}

Alive(n) == state[n] \notin {"none", "zombie", "reaped"}

\* Mutant: appenders are counted too.
OutstandingWithAppenders ==
    {n \in Executables \cup Sequencers : state[n] \notin {"none", "reaped"}}

\* to_wait: the executables forked and not yet waited for.
Outstanding == {n \in Executables : state[n] \notin {"none", "reaped"}}

AfterAsync(t) == IF t # {} THEN "async" ELSE "wait"

Init ==
    /\ tree \in Trees
    /\ pc = "async"
    /\ todo = {1}
    /\ current = NoNode
    /\ opening = <<>>
    /\ frame = <<NoNode, NoNode>>
    /\ state = [n \in Nodes |-> "none"]
    /\ status = [n \in Nodes |-> "none"]
    /\ fds = [p \in Processes |-> IF p = Tool THEN StdTable ELSE EmptyTable]
    /\ desc = [m \in Nodes |-> NoPipe]
    /\ to_fd = [n \in Nodes |-> 1]
    /\ open_appender_fds = <<>>
    /\ known = [n \in Nodes |-> 0]
    /\ source = [n \in Nodes |-> NoNode]
    /\ held = [n \in Nodes |-> NoNode]
    /\ buffer = [m \in Nodes |-> <<>>]
    /\ file = [n \in Processes |-> <<>>]
    /\ wrote = {}

-----------------------------------------------------------------------------
(* execute_async()                                                         *)

StartPipe(n) ==
    /\ tree.type[n] = "Pipe"
    /\ todo' = (todo \ {n}) \cup Operands(n)
    /\ UNCHANGED <<pc, current, opening, fds, to_fd>>

\* open_pipe_if_needed(): those of these pipes that pipe() is called for, in order.
NotInitialized(pipes) == Ascending({m \in pipes : desc[m] = NoPipe})

\* execute_executable_async(): open_pipes_if_needed().
StartExecutable(n) ==
    /\ tree.type[n] = "Executable"
    /\ opening' = NotInitialized(PipesOf(tree.std_in[n]))
                    \o NotInitialized(PipesOf(tree.std_out[n]))
    /\ todo' = todo \ {n}
    /\ current' = n
    /\ pc' = "open"
    /\ UNCHANGED <<fds, to_fd>>

\* execute_first_operand_async_and_start_appender(), then init_appender() up to
\* the pipes.  The parent itself opens the file the operator is redirected to.
StartSequence(n) ==
    /\ tree.type[n] \in SequenceTypes
    /\ opening' = NotInitialized(PipesOf(tree.to[n]) \cup Operands(n))
    /\ IF IsFile(tree.to[n])
         THEN /\ fds' = [fds EXCEPT ![Tool] = Opened(@, Output(tree.to[n][2]))]
              /\ to_fd' = [to_fd EXCEPT ![n] = Lowest(fds[Tool])]
         ELSE UNCHANGED <<fds, to_fd>>
    /\ todo' = (todo \ {n}) \cup {First(Operands(n))}
    /\ current' = n
    /\ pc' = "open"

ExecuteAsync ==
    /\ pc = "async"
    /\ LET n == First(todo) IN
         /\ StartPipe(n) \/ StartExecutable(n) \/ StartSequence(n)
         /\ status' = [status EXCEPT ![n] = "started"]
    /\ UNCHANGED <<tree, frame, state, desc, open_appender_fds, known, dataVars>>

\* pipe(): the two lowest descriptors.
OpenPipe ==
    /\ pc = "open"
    /\ opening # <<>>
    /\ LET m == Head(opening)
           r == Lowest(fds[Tool])
           half == Opened(fds[Tool], ReadEnd(m))
       IN /\ fds' = [fds EXCEPT ![Tool] = Opened(half, WriteEnd(m))]
          /\ desc' = [desc EXCEPT ![m] = <<r, Lowest(half)>>]
    /\ opening' = Tail(opening)
    /\ UNCHANGED <<tree, pc, todo, current, frame, state, status, to_fd,
                   open_appender_fds, known, dataVars>>

\* fork(): the child has a copy of the table and of the memory.
Fork ==
    /\ pc = "open"
    /\ opening = <<>>
    /\ state' = [state EXCEPT ![current] = "forked"]
    /\ fds' = [fds EXCEPT ![current] = fds[Tool]]
    /\ known' = [known EXCEPT ![current] = Len(open_appender_fds)]
    /\ to_fd' = IF IsPipe(tree.to[current])
                  THEN [to_fd EXCEPT ![current] = WriteFd(tree.to[current][2])]
                  ELSE to_fd
    /\ pc' = "close"
    /\ UNCHANGED <<tree, todo, current, opening, frame, status, desc,
                   open_appender_fds, dataVars>>

\* Mutant: only the write end is closed.
CloseWriteEndAfterExecutable ==
    /\ tree.type[current] = "Executable"
    /\ fds' = [fds EXCEPT ![Tool] =
                 WithoutFds(@, {WriteFd(m) : m \in PipesOf(tree.std_out[current])})]
    /\ UNCHANGED open_appender_fds

\* Mutant: only the read end is closed.
CloseReadEndAfterExecutable ==
    /\ tree.type[current] = "Executable"
    /\ fds' = [fds EXCEPT ![Tool] =
                 WithoutFds(@, {ReadFd(m) : m \in PipesOf(tree.std_in[current])})]
    /\ UNCHANGED open_appender_fds

\* The ends the child uses and the parent does not.
CloseAfterExecutable ==
    /\ tree.type[current] = "Executable"
    /\ fds' = [fds EXCEPT ![Tool] =
                 WithoutFds(@, {ReadFd(m) : m \in PipesOf(tree.std_in[current])}
                               \cup {WriteFd(m) : m \in PipesOf(tree.std_out[current])})]
    /\ UNCHANGED open_appender_fds

\* init_appender() in the parent: the output of the appender and the read ends
\* of its operands are closed, the write ends are collected.
CloseAfterAppender ==
    /\ tree.type[current] \in SequenceTypes
    /\ fds' = [fds EXCEPT ![Tool] =
                 WithoutFds(@, {ReadFd(m) : m \in Operands(current)}
                               \cup ({to_fd[current]} \ {1}))]
    /\ open_appender_fds' =
         open_appender_fds
           \o [i \in 1..Cardinality(Operands(current)) |->
                 WriteFd(Ascending(Operands(current))[i])]

CloseUnused ==
    /\ pc = "close"
    /\ CloseAfterExecutable \/ CloseAfterAppender
    /\ pc' = AfterAsync(todo)
    /\ current' = NoNode
    /\ UNCHANGED <<tree, todo, opening, frame, state, status, desc, to_fd, known,
                   dataVars>>

-----------------------------------------------------------------------------
(* manage_running_nodes_and_collect_data()                                 *)

\* wait3() returns an executable that a node knows.
Reap(n) ==
    /\ pc = "wait"
    /\ n \in Executables
    /\ state[n] = "zombie"
    /\ state' = [state EXCEPT ![n] = "reaped"]
    /\ frame' = <<tree.father[n], n>>
    /\ pc' = IF tree.father[n] = NoNode THEN "wait" ELSE "handle"
    /\ UNCHANGED <<tree, todo, current, opening, status, fds, memoryVars, dataVars>>

ExecuteNext(operator, completed) ==
    /\ todo' = {First(LaterOperands(operator, completed))}
    /\ pc' = "async"
    /\ UNCHANGED <<frame, status>>

EndOperator(operator, outcome) ==
    /\ status' = [status EXCEPT ![operator] = outcome]
    /\ frame' = <<tree.father[operator], operator>>
    /\ pc' = IF tree.father[operator] = NoNode THEN "wait" ELSE "handle"
    /\ UNCHANGED todo

HandleCompleted ==
    /\ pc = "handle"
    /\ LET operator == frame[1]
           completed == frame[2]
           ok == status[completed] = "ok"
           has_next == LaterOperands(operator, completed) # {}
           goes_on == has_next /\ (\/ tree.type[operator] = "And" /\ ok
                                   \/ tree.type[operator] = "Or" /\ ~ok
                                   \/ tree.type[operator] = "Semicolon")
       IN \/ goes_on /\ ExecuteNext(operator, completed)
          \/ /\ ~goes_on
             /\ tree.type[operator] = "Pipe" => ~has_next
             /\ EndOperator(operator, status[completed])
          \/ /\ tree.type[operator] = "Pipe"
             /\ has_next
             /\ pc' = "wait"
             /\ UNCHANGED <<todo, frame, status>>
    /\ UNCHANGED <<tree, current, opening, state, fds, memoryVars, dataVars>>

Return ==
    /\ pc = "wait"
    /\ Outstanding = {}
    /\ pc' = "returned"
    /\ UNCHANGED <<tree, todo, current, opening, frame, state, status, fds,
                   memoryVars, dataVars>>

\* main() reports and exits; appenders are not waited for.
ToolExits ==
    /\ pc = "returned"
    /\ pc' = "exited"
    /\ fds' = [fds EXCEPT ![Tool] = EmptyTable]
    /\ UNCHANGED <<tree, todo, current, opening, frame, state, status, memoryVars,
                   dataVars>>

-----------------------------------------------------------------------------
(* run_execute_executable_child(), up to execvp().                         *)

\* The redirects are opened, the streams moved to 0 and 1, the originals closed.
TableWithStreams(n) ==
    LET in == tree.std_in[n]
        out == tree.std_out[n]
        t1 == IF IsFile(in) THEN Opened(fds[n], Input(in[2])) ELSE fds[n]
        t2 == IF IsFile(out) THEN Opened(t1, Output(out[2])) ELSE t1
        std_in == IF IsFile(in) THEN Lowest(fds[n])
                  ELSE IF IsPipe(in) THEN ReadFd(in[2]) ELSE 0
        std_out == IF IsFile(out) THEN Lowest(t1)
                   ELSE IF IsPipe(out) THEN WriteFd(out[2]) ELSE 1
    IN WithoutFds([t2 EXCEPT ![0] = t2[std_in], ![1] = t2[std_out]],
                  {std_in, std_out} \ {0, 1})

\* Mutant: close_appender_fds_except() is not called.
InvokedKeepingAppenders(n) == TableWithStreams(n)

\* close_appender_fds_except(): the numbers collected at the time of the fork.
InvokedTable(n) ==
    WithoutFds(TableWithStreams(n),
               {open_appender_fds[i] : i \in 1..known[n]} \ {0, 1})

ChildInvokes(n) ==
    /\ state[n] = "forked"
    /\ tree.type[n] = "Executable"
    /\ fds' = [fds EXCEPT ![n] = InvokedTable(n)]
    /\ state' = [state EXCEPT ![n] =
                   IF tree.program[n] = "filter" THEN "running" ELSE "writing"]
    /\ UNCHANGED <<tree, parentVars, status, memoryVars, dataVars>>

\* The end of a process, whose descriptors the kernel closes.
Terminates(n) ==
    /\ state' = [state EXCEPT ![n] = "zombie"]
    /\ fds' = [fds EXCEPT ![n] = EmptyTable]

\* An executable leaves a status, which the parent finds once it waits for it.
ExecutableEnds(n, outcome) ==
    /\ Terminates(n)
    /\ status' = [status EXCEPT ![n] = outcome]

\* chdir(), open() or execvp() fails.
ChildFails(n) ==
    /\ state[n] = "forked"
    /\ tree.type[n] = "Executable"
    /\ ExecutableEnds(n, "failed")
    /\ UNCHANGED <<tree, parentVars, memoryVars, dataVars>>

-----------------------------------------------------------------------------
(* The executables: a filter reads its input to the end before it writes,  *)
(* a source writes at once, an endless one writes until SIGPIPE.           *)

CanRead(n, end) == end[1] = "read" /\ buffer[end[2]] # <<>>
AtEndOfFile(end) ==
    end[1] = "read" => buffer[end[2]] = <<>> /\ Writers(end[2]) = {}

ExecutableReads(n) ==
    /\ state[n] = "running"
    /\ LET end == fds[n][0] IN
         \/ /\ CanRead(n, end)
            /\ buffer' = [buffer EXCEPT ![end[2]] = Tail(@)]
            /\ UNCHANGED state
         \/ /\ AtEndOfFile(end)
            /\ state' = [state EXCEPT ![n] = "writing"]
            /\ UNCHANGED buffer
    /\ UNCHANGED <<tree, parentVars, status, fds, memoryVars, source, held, file,
                   wrote>>

\* write() of a chunk through an end: it is accepted, or the pipe is broken.
Accepts(end) ==
    \/ end[1] = "write" /\ Readers(end[2]) # {} /\ Len(buffer[end[2]]) < PipeSize
    \/ end[1] = "output"
IsBroken(end) ==
    \/ end[1] = "write" /\ Readers(end[2]) = {}
    \/ end[1] \notin {"write", "output"}     \* EBADF

Put(end, chunk) ==
    \/ /\ end[1] = "write"
       /\ buffer' = [buffer EXCEPT ![end[2]] = Append(@, chunk)]
       /\ UNCHANGED file
    \/ /\ end[1] = "output"
       /\ file' = [file EXCEPT ![end[2]] = Append(@, chunk)]
       /\ UNCHANGED buffer

ExecutableWrites(n) ==
    /\ state[n] = "writing"
    /\ Accepts(fds[n][1])
    /\ Put(fds[n][1], n)
    /\ wrote' = wrote \cup {n}
    /\ state' = [state EXCEPT ![n] =
                   IF tree.program[n] = "endless" THEN "writing" ELSE "written"]
    /\ UNCHANGED <<tree, parentVars, status, fds, memoryVars, source, held>>

\* SIGPIPE, or a write error.
WriteFails(n) ==
    /\ state[n] = "writing"
    /\ IsBroken(fds[n][1])
    /\ ExecutableEnds(n, "failed")
    /\ UNCHANGED <<tree, parentVars, memoryVars, dataVars>>

ExecutableExits(n) ==
    /\ state[n] = "written"
    /\ \E outcome \in {"ok", "failed"} : ExecutableEnds(n, outcome)
    /\ UNCHANGED <<tree, parentVars, memoryVars, dataVars>>

-----------------------------------------------------------------------------
(* run_appender_main()                                                     *)

\* The ends the appender does not use.  The number of the read end of the pipe
\* it writes to may have been closed in the parent and given to another pipe.
AppenderStarts(n) ==
    /\ state[n] = "forked"
    /\ tree.type[n] \in SequenceTypes
    /\ fds' = [fds EXCEPT ![n] =
                 WithoutFds(@, {ReadFd(m) : m \in PipesOf(tree.to[n])}
                               \cup {WriteFd(m) : m \in Operands(n)})]
    /\ source' = [source EXCEPT ![n] = First(Operands(n))]
    /\ state' = [state EXCEPT ![n] = "copying"]
    /\ UNCHANGED <<tree, parentVars, status, memoryVars, held, buffer, file, wrote>>

\* Mutant: whichever operand has something to read is read.
AppenderReadsAny(n) ==
    /\ state[n] = "copying"
    /\ source[n] # NoNode
    /\ held[n] = NoNode
    /\ \E m \in Operands(n) :
         LET end == fds[n][ReadFd(m)] IN
         /\ CanRead(n, end)
         /\ held' = [held EXCEPT ![n] = Head(buffer[end[2]])]
         /\ buffer' = [buffer EXCEPT ![end[2]] = Tail(@)]
    /\ UNCHANGED <<tree, parentVars, state, status, fds, memoryVars, source, file,
                   wrote>>

\* copy_stream(): read().
AppenderReads(n) ==
    /\ state[n] = "copying"
    /\ source[n] # NoNode
    /\ held[n] = NoNode
    /\ LET end == fds[n][ReadFd(source[n])] IN
         /\ CanRead(n, end)
         /\ held' = [held EXCEPT ![n] = Head(buffer[end[2]])]
         /\ buffer' = [buffer EXCEPT ![end[2]] = Tail(@)]
    /\ UNCHANGED <<tree, parentVars, state, status, fds, memoryVars, source, file,
                   wrote>>

\* copy_stream(): write().
AppenderWrites(n) ==
    /\ state[n] = "copying"
    /\ held[n] # NoNode
    /\ Accepts(fds[n][to_fd[n]])
    /\ Put(fds[n][to_fd[n]], held[n])
    /\ held' = [held EXCEPT ![n] = NoNode]
    /\ UNCHANGED <<tree, parentVars, state, status, fds, memoryVars, source, wrote>>

\* SIGPIPE, or my_write() fails.
AppenderFails(n) ==
    /\ state[n] = "copying"
    /\ held[n] # NoNode
    /\ IsBroken(fds[n][to_fd[n]])
    /\ Terminates(n)
    /\ UNCHANGED <<tree, parentVars, status, memoryVars, dataVars>>

\* Mutant: the operands are read from the last to the first.
PreviousSource(n) ==
    LET left == EarlierOperands(n, source[n]) IN
    IF left = {} THEN NoNode ELSE Last(left)

\* Mutant: the operands are taken for neighbours in the numbering.
NextNodeAsSource(n) == source[n] + 1

NextSource(n) ==
    LET later == LaterOperands(n, source[n]) IN
    IF later = {} THEN NoNode ELSE First(later)

\* read() returns 0, or fails: close() and go on with the next operand.
AppenderEndsSource(n) ==
    /\ state[n] = "copying"
    /\ source[n] # NoNode
    /\ held[n] = NoNode
    /\ AtEndOfFile(fds[n][ReadFd(source[n])])
    /\ fds' = [fds EXCEPT ![n] = WithoutFds(@, {ReadFd(source[n])})]
    /\ source' = [source EXCEPT ![n] = NextSource(n)]
    /\ UNCHANGED <<tree, parentVars, state, status, memoryVars, held, buffer, file,
                   wrote>>

AppenderExits(n) ==
    /\ state[n] = "copying"
    /\ source[n] = NoNode
    /\ Terminates(n)
    /\ UNCHANGED <<tree, parentVars, status, memoryVars, dataVars>>

-----------------------------------------------------------------------------
Parent == \/ ExecuteAsync
          \/ OpenPipe
          \/ Fork
          \/ CloseUnused
          \/ \E n \in Nodes : Reap(n)
          \/ HandleCompleted
          \/ Return
          \/ ToolExits

Child(n) == ChildInvokes(n) \/ ChildFails(n)

Executable(n) ==
    \/ ExecutableReads(n)
    \/ ExecutableWrites(n)
    \/ WriteFails(n)
    \/ ExecutableExits(n)

Appender(n) ==
    \/ AppenderStarts(n)
    \/ AppenderReads(n)
    \/ AppenderWrites(n)
    \/ AppenderFails(n)
    \/ AppenderEndsSource(n)
    \/ AppenderExits(n)

Process(n) == Child(n) \/ Executable(n) \/ Appender(n)

Next == Parent \/ \E n \in Nodes : Process(n)

Spec == Init /\ [][Next]_vars

\* The system does not rest while one of its processes can take a step.
FairSpec == Spec /\ WF_vars(Next)

-----------------------------------------------------------------------------
(* Properties.                                                             *)

\* Type invariant: every variable stays in its range.
TypeOK ==
    /\ IsWired(tree)
    /\ pc \in ControlStates
    /\ todo \subseteq Nodes
    /\ current \in Nodes \cup {NoNode}
    /\ opening \in Seq(Nodes)
    /\ frame \in (Nodes \cup {NoNode}) \X (Nodes \cup {NoNode})
    /\ state \in [Nodes -> ProcessStates]
    /\ status \in [Nodes -> {"none", "started", "ok", "failed"}]
    /\ fds \in [Processes -> [Fd -> Ends]]
    /\ desc \in [Nodes -> Fd \X Fd]
    /\ to_fd \in [Nodes -> Fd]
    /\ open_appender_fds \in Seq(Fd)
    /\ known \in [Nodes -> Nat]
    /\ source \in [Nodes -> Nodes \cup {NoNode}]
    /\ held \in [Nodes -> Nodes \cup {NoNode}]
    /\ buffer \in [Nodes -> Seq(Nodes)]
    /\ file \in [Processes -> Seq(Nodes)]
    /\ wrote \subseteq Executables

Invoked(n) == n \in Executables /\ state[n] \in {"running", "writing", "written"}

\* execute.c:75-78: an executable holds no end of the pipe of an operand of a
\* sequencing operator but the one that is its standard output: an appender
\* never waits for the end of a stream because of an executable that has
\* nothing to do with it.
ExecutablesHoldNoAppenderEnds ==
    \A n \in Nodes : Invoked(n) =>
      \A fd \in Fd \ {1}, m \in Nodes :
        IsSequenceOperand(m) => fds[n][fd] # WriteEnd(m)

Started(S) == \E n \in S : state[n] # "none"

\* Whenever it waits, the parent holds an end of a pipe it has opened exactly as
\* long as no process wired to that end has been forked (execute_executable_async,
\* init_appender): the process that comes will find it, nobody else's end of
\* file waits for the parent.
ToolHoldsUnusedEnds ==
    pc = "wait" =>
      \A m \in Nodes : desc[m] # NoPipe =>
        /\ Holds(Tool, WriteEnd(m)) <=> ~Started(WiredWriters(m))
        /\ Holds(Tool, ReadEnd(m)) <=> ~Started(WiredReaders(m))

\* count_max_appender_file_descriptors(): the list never outgrows the array that
\* init_appender_fds_collector() allocates.
CollectorFits == Len(open_appender_fds) <= MaxAppenderFds

\* The output c may come before d: in the order of the command line, and only an
\* endless executable writes again.
Before(c, d) == c < d \/ (c = d /\ tree.program[c] = "endless")

InOrder(chunks) == \A i, j \in 1..Len(chunks) : i < j => Before(chunks[i], chunks[j])

\* run_appender_main(): whatever the operands overlap, what reaches a file or
\* the terminal is in the order of the command line, and nothing comes twice.
OutputInOrder == \A n \in Processes : InOrder(file[n])

AllEnded ==
    /\ pc = "exited"
    /\ \A n \in Nodes : state[n] \in {"none", "zombie", "reaped"}

\* Where what n writes must arrive: through the appenders above it to a file, to
\* the terminal, or to an executable that may do with it what it likes.
OutStream(n) == IF n \in Sequencers THEN tree.to[n] ELSE tree.std_out[n]

Destination ==
    LET dest[n \in Nodes] ==
          IF IsPipe(OutStream(n)) /\ IsSequenceOperand(OutStream(n)[2])
          THEN dest[tree.father[OutStream(n)[2]]]
          ELSE IF IsPipe(OutStream(n)) \/ IsFile(OutStream(n))
               THEN OutStream(n) ELSE FileOf(Tool)
    IN dest

\* No appender writes into the pipe of another one.
NoNestedAppenders ==
    \A n \in Sequencers : IsPipe(tree.to[n]) => ~IsSequenceOperand(tree.to[n][2])

\* execute.c:19-20: the appenders append the output of all the operands.  What an
\* executable was able to write is, once every process has ended, where its
\* redirect or the operators above it send it.
EveryOutputArrives ==
    AllEnded =>
      \A n \in wrote :
        IsFile(Destination[n]) =>
          \E i \in DOMAIN file[Destination[n][2]] : file[Destination[n][2]][i] = n

\* run_appender_main(): the same, but for an appender whose output is the input of
\* another: there the inner one may close the pipe of its own first operand.
OutputArrives == NoNestedAppenders => EveryOutputArrives

\* A process waits for an end of file, or for room in a pipe, that nobody who is
\* wired to the other end of the pipe will bring about.
WaitsForWriters(n, m) ==
    /\ buffer[m] = <<>>
    /\ Writers(m) # {} /\ Writers(m) \cap WiredWriters(m) = {}
    /\ \/ state[n] = "running" /\ fds[n][0] = ReadEnd(m)
       \/ /\ state[n] = "copying" /\ source[n] # NoNode /\ held[n] = NoNode
          /\ fds[n][ReadFd(source[n])] = ReadEnd(m)

WaitsForReaders(n, m) ==
    /\ Len(buffer[m]) = PipeSize
    /\ Readers(m) # {} /\ Readers(m) \cap WiredReaders(m) = {}
    /\ \/ state[n] = "writing" /\ fds[n][1] = WriteEnd(m)
       \/ /\ state[n] = "copying" /\ held[n] # NoNode
          /\ fds[n][to_fd[n]] = WriteEnd(m)

Leaked == \E n, m \in Nodes : WaitsForWriters(n, m) \/ WaitsForReaders(n, m)

\* execute.c:104: the tool and every process it starts come to an end, unless an
\* end of a pipe is left open in a process that is not wired to that pipe.
EndsOrLeaks == <>[](AllEnded \/ Leaked)

\* The sequencing operators inside a pipeline.
PipedSequencers ==
    {n \in Sequencers : \E k \in Nodes : tree.type[k] = "Pipe" /\ Under(k, n)}

\* The nodes whose output is made for the next operand of a pipeline.
Feeders ==
    {m \in Nodes \ {1} : /\ tree.type[tree.father[m]] = "Pipe"
                         /\ LaterOperands(tree.father[m], m) # {}}

\* The commands in which no end is left open: both ends of the pipes of a pipeline
\* are used, nothing writes for ever, there is one sequence in a pipeline at
\* most and, unless it comes last, none of its operands may be skipped.
SafeTree ==
    /\ \A m \in Feeders : WiredWriters(m) # {} /\ WiredReaders(m) # {}
    /\ \A n \in Executables : tree.program[n] # "endless"
    /\ \A n, m \in PipedSequencers : n = m
    /\ \A n \in PipedSequencers :
         (\E m \in Feeders : Under(m, n)) => tree.type[n] = "Semicolon"

\* execute.c:104: for these commands the tool and all of its processes end,
\* whatever the executables exit with and in whatever order they run.
SafeTreesEnd == SafeTree => <>AllEnded
=============================================================================
