------------------------------ MODULE Booking ------------------------------
(***************************************************************************)
(* How the tools share the log: src/src/daemon.                            *)
(*                                                                         *)
(* Every run of the tool forks a daemon candidate; the one that locks the  *)
(* lock file stays.  A tool that has results to log reads the daemon's pid *)
(* from the lock, sends a booking to the message queue derived from it and *)
(* sleeps until the daemon's signal; then both open the FIFO and the tool  *)
(* writes its report, which the daemon appends to the log.  "-s" sends     *)
(* SIGINT to the daemon, which removes queue, FIFO and lock file.          *)
(*                                                                         *)
(* Modelled: every system call on the shared objects as a step of its own, *)
(* but for calls that follow each other with no effect anyone else can see *)
(* between them.  Files, FIFOs and queues are their inodes and ids, not    *)
(* their names, so a name may come to stand for another one.               *)
(***************************************************************************)
EXTENDS Integers, Sequences, FiniteSets

CONSTANTS
    Tools,        \* runs of the tool that execute a command
    Stoppers,     \* runs of the tool with -s
    Daemons,      \* pids of daemon candidates
    Inodes,       \* inodes of the lock file, over time
    Fifos,        \* inodes of the FIFO, over time
    None,         \* no process, no inode, no queue
    MaxAttempts,  \* MAX_ATTEMPTS of daemon_socket.c, 3 in the code
    QueueSize,    \* messages the kernel lets a queue hold
    Chunks,       \* write() calls a report takes
    LogFiles,     \* the log files the tools ask for
    LogOf,        \* the one each tool asks for
    ToolsMayDie,  \* TRUE: a tool may be killed at any moment
    LogMayFail,   \* TRUE: a write to a log may fail (disk full, size limit)
    JobControl    \* TRUE: the shell may send a tool SIGCONT (fg, bg)

ASSUME BoundsAssumption ==
    MaxAttempts \in Nat \ {0} /\ QueueSize \in Nat \ {0} /\ Chunks \in Nat

ASSUME NamesAssumption ==
    /\ Tools \cap Stoppers = {}
    /\ (Tools \cup Stoppers) \cap Daemons = {}
    /\ None \notin Tools \cup Stoppers \cup Daemons \cup Inodes \cup Fifos
    /\ None \notin {"granted", "refused"}

ASSUME LogsAssumption == LogOf \in [Tools -> LogFiles]

ASSUME SwitchesAssumption ==
    ToolsMayDie \in BOOLEAN /\ LogMayFail \in BOOLEAN /\ JobControl \in BOOLEAN

VARIABLES
    tool,        \* state of each run of the tool
    daemon,      \* state of each daemon candidate
    lock_file,   \* inode that lock_file_path names, or None
    stats_fifo,  \* inode that stats_fifo_path names, or None
    queue,       \* messages of each queue that exists: tools, in order
    pipe,        \* chunks written into each FIFO and not yet read
    log,         \* for each chunk logged, in order: the log file and the writer
    cut          \* history: tools whose report was being copied when a write to
                 \* the log failed; no step depends on it

vars == <<tool, daemon, lock_file, stats_fifo, queue, pipe, log, cut>>

Users == Tools \cup Stoppers

-----------------------------------------------------------------------------
(* Processes.                                                              *)

ToolStates ==
    {"start",     \* before main() does anything that matters here
     "probe",     \* try_to_read_daemon_pid() called by stop_daemon()
     "find",      \* read_daemon_pid()
     "kill",      \* before my_kill() of stop_daemon()
     "get_queue", \* before get_message_queue_id()
     "send",      \* before my_msgsnd()
     "wait",      \* wait_booking_confirmation()
     "open",      \* before my_open() of the FIFO
     "opening",   \* blocked in it
     "write",     \* print_results()
     "done",      \* exit(0)
     "failed"}    \* exit(1), or killed

DaemonStates ==
    {"none",        \* not forked, or exited
     "open_lock",   \* acquire_lock_or_exit(), before open()
     "set_lock",    \* and before fcntl(F_SETLK)
     "get_queue",   \* the steps of initialize_daemon() that follow
     "handlers", "remove_fifo", "make_fifo",
     "check",       \* while (!interrupt_signal)
     "receive",     \* msgrcv(), not entered yet or blocked
     "open",        \* handle_message(), before my_open() of the FIFO
     "opening",     \* blocked in it
     "copy",        \* copy_stream()
     "finalize",    \* the steps of finalize_daemon()
     "unlink_fifo", "unlink_lock"}

\* A queue is known by its key: the inode of the lock file and the pid.
QueueIds == Inodes \X Daemons

NewTool == [at |-> "start", tries |-> 0, attempts |-> 0, spoiled |-> FALSE,
            lock_fd |-> None, daemon_pid |-> None, queue_id |-> None, response |-> None,
            fifo |-> None, left |-> Chunks]

NoDaemon == [at |-> "none", lock_fd |-> None, locked |-> FALSE,
             interrupted |-> FALSE, queue_id |-> None, serving |-> None,
             fifo |-> None]

\* The process ends and the kernel closes what it had open.
Ended(state) == [NewTool EXCEPT !.at = state, !.left = 0]

Live(d) == daemon[d].at # "none"
Over(u) == tool[u].at \in {"done", "failed"}

Holders(i) == {d \in Daemons : daemon[d].locked /\ daemon[d].lock_fd = i}

FreeInodes ==
    {i \in Inodes : /\ i # lock_file
                    /\ \A d \in Daemons : daemon[d].lock_fd # i
                    /\ \A u \in Users : tool[u].lock_fd # i}

FreeFifos ==
    {f \in Fifos : /\ f # stats_fifo
                   /\ \A d \in Daemons : daemon[d].fifo # f
                   /\ \A t \in Tools : tool[t].fifo # f}

\* A pid the kernel may hand out: no process, no queue and no tool knows it.
FreeDaemons ==
    {d \in Daemons : /\ ~Live(d)
                     /\ \A id \in DOMAIN queue : id[2] # d
                     /\ \A u \in Users : tool[u].daemon_pid # d}

Init ==
    /\ tool = [u \in Users |-> NewTool]
    /\ daemon = [d \in Daemons |-> NoDaemon]
    /\ lock_file \in Inodes \cup {None}
    /\ stats_fifo \in Fifos \cup {None}
    /\ queue = <<>>
    /\ pipe = [f \in Fifos |-> <<>>]
    /\ log = <<>>
    /\ cut = {}

-----------------------------------------------------------------------------
(* start_daemon() and read_daemon_pid().                                   *)

StartDaemon ==
    \E d \in FreeDaemons : daemon' = [daemon EXCEPT ![d].at = "open_lock"]

\* main() of a tool: a daemon is started, the command runs, and
\* initialize_booking_confirmation_receiver() installs the handlers.
RunCommand(t) ==
    /\ tool[t].at = "start"
    /\ StartDaemon
    /\ tool' = [tool EXCEPT ![t].at = "find"]
    /\ UNCHANGED <<lock_file, stats_fifo, queue, pipe, log, cut>>

RunStop(s) ==
    /\ tool[s].at = "start"
    /\ tool' = [tool EXCEPT ![s].at = "probe"]
    /\ UNCHANGED <<daemon, lock_file, stats_fifo, queue, pipe, log, cut>>

\* open() of one attempt of try_to_read_daemon_pid()
OpenLockFile(u) ==
    /\ tool[u].at \in {"probe", "find"}
    /\ tool[u].lock_fd = None
    /\ lock_file # None
    /\ tool' = [tool EXCEPT ![u].lock_fd = lock_file]
    /\ UNCHANGED <<daemon, lock_file, stats_fifo, queue, pipe, log, cut>>

\* F_GETLK names the holder of the lock of the file the tool has open.  Without
\* one it writes F_UNLCK into the struct, which later attempts of the same call
\* pass on: they fail.
Readable(u) ==
    tool[u].lock_fd # None /\ ~tool[u].spoiled /\ Holders(tool[u].lock_fd) # {}

\* The attempt comes to nothing: open() fails, or F_GETLK names nobody.
Unreadable(u) == ~Readable(u) /\ (tool[u].lock_fd = None => lock_file = None)

ReadDaemonPid(u) ==
    /\ tool[u].at \in {"probe", "find"}
    /\ Readable(u)
    /\ \E d \in Holders(tool[u].lock_fd) :
         tool' = [tool EXCEPT
           ![u].at = IF tool[u].at = "probe" THEN "find"
                     ELSE IF u \in Tools THEN "get_queue" ELSE "kill",
           ![u].daemon_pid = IF tool[u].at = "probe" THEN None ELSE d,
           ![u].tries = 0, ![u].attempts = 0, ![u].spoiled = FALSE,
           ![u].lock_fd = None]
    /\ UNCHANGED <<daemon, lock_file, stats_fifo, queue, pipe, log, cut>>

\* Mutant: "attempts <= MAX_ATTEMPTS".
AttemptFailsAgain(u) ==
    /\ tool[u].at \in {"probe", "find"}
    /\ Unreadable(u)
    /\ tool[u].attempts <= MaxAttempts - 1
    /\ tool' = [tool EXCEPT ![u].attempts = @ + 1,
                            ![u].spoiled = @ \/ tool[u].lock_fd # None,
                            ![u].lock_fd = None]
    /\ UNCHANGED <<daemon, lock_file, stats_fifo, queue, pipe, log, cut>>

\* One more attempt of try_to_read_daemon_pid() fails.
AttemptFails(u) ==
    /\ tool[u].at \in {"probe", "find"}
    /\ Unreadable(u)
    /\ tool[u].attempts < MaxAttempts - 1
    /\ tool' = [tool EXCEPT ![u].attempts = @ + 1,
                            ![u].spoiled = @ \/ tool[u].lock_fd # None,
                            ![u].lock_fd = None]
    /\ UNCHANGED <<daemon, lock_file, stats_fifo, queue, pipe, log, cut>>

\* The last one does: read_daemon_pid() starts a daemon and tries again.
TryFails(u) ==
    /\ tool[u].at = "find"
    /\ Unreadable(u)
    /\ tool[u].attempts = MaxAttempts - 1
    /\ tool[u].tries < MaxAttempts - 1
    /\ StartDaemon
    /\ tool' = [tool EXCEPT ![u].tries = @ + 1, ![u].attempts = 0,
                            ![u].spoiled = FALSE, ![u].lock_fd = None]
    /\ UNCHANGED <<lock_file, stats_fifo, queue, pipe, log, cut>>

GiveUp(u) ==
    /\ Unreadable(u)
    /\ tool[u].attempts = MaxAttempts - 1
    /\ \/ tool[u].at = "probe"
       \/ tool[u].at = "find" /\ tool[u].tries = MaxAttempts - 1
    /\ tool' = [tool EXCEPT ![u] = Ended("failed")]
    /\ UNCHANGED <<daemon, lock_file, stats_fifo, queue, pipe, log, cut>>

-----------------------------------------------------------------------------
(* book_and_obtain_log_fd() and print_results().                           *)

\* msgget(IPC_CREAT), by the tool or by the daemon.
OpenQueue(id) ==
    queue' = IF id \in DOMAIN queue THEN queue
             ELSE [q \in DOMAIN queue \cup {id} |->
                     IF q = id THEN <<>> ELSE queue[q]]

GetQueue(t) ==
    /\ tool[t].at = "get_queue"
    /\ IF lock_file = None     \* ftok() needs the file
         THEN /\ tool' = [tool EXCEPT ![t] = Ended("failed")]
              /\ UNCHANGED queue
         ELSE LET id == <<lock_file, tool[t].daemon_pid>> IN
              /\ OpenQueue(id)
              /\ tool' = [tool EXCEPT ![t].at = "send", ![t].queue_id = id]
    /\ UNCHANGED <<daemon, lock_file, stats_fifo, pipe, log, cut>>

\* msgsnd() blocks while the queue is full and fails when it was removed.
Send(t) ==
    /\ tool[t].at = "send"
    /\ LET id == tool[t].queue_id IN
       \/ /\ id # None
          /\ Len(queue[id]) < QueueSize
          /\ queue' = [queue EXCEPT ![id] = Append(@, t)]
          /\ tool' = [tool EXCEPT ![t].at = "wait"]
       \/ /\ id = None
          /\ tool' = [tool EXCEPT ![t] = Ended("failed")]
          /\ UNCHANGED queue
    /\ UNCHANGED <<daemon, lock_file, stats_fifo, pipe, log, cut>>

\* wait_booking_confirmation() and handle_booking_confirmation().
Confirmed(t) ==
    /\ tool[t].at = "wait"
    /\ \/ /\ tool[t].response = "granted"
          /\ tool' = [tool EXCEPT ![t].at = "open"]
       \/ /\ tool[t].response = "refused"
          /\ tool' = [tool EXCEPT ![t] = Ended("failed")]
    /\ UNCHANGED <<daemon, lock_file, stats_fifo, queue, pipe, log, cut>>

\* The ends of FIFO f that are open, or blocked until the other end is.
Readers(f) == {d \in Daemons : daemon[d].fifo = f}
Writers(f) == {t \in Tools : tool[t].fifo = f}

\* What the FIFOs still hold once process p has closed its ends: a FIFO none of
\* whose ends is open loses what it held.
LeftBy(p, held) ==
    [f \in Fifos |-> IF Readers(f) \cup Writers(f) \subseteq {p} THEN <<>> ELSE held[f]]

OpenFifoToWrite(t) ==
    /\ tool[t].at = "open"
    /\ IF stats_fifo = None
         THEN /\ tool' = [tool EXCEPT ![t] = Ended("failed")]
              /\ UNCHANGED daemon
         ELSE LET readers == Readers(stats_fifo) IN
              /\ tool' = [tool EXCEPT
                   ![t].at = IF readers = {} THEN "opening" ELSE "write",
                   ![t].fifo = stats_fifo]
              /\ daemon' = [d \in Daemons |->
                   IF d \in readers THEN [daemon[d] EXCEPT !.at = "copy"]
                   ELSE daemon[d]]
    /\ UNCHANGED <<lock_file, stats_fifo, queue, pipe, log, cut>>

\* Without a reader the write raises SIGPIPE.
Write(t) ==
    /\ tool[t].at = "write"
    /\ tool[t].left > 0
    /\ LET f == tool[t].fifo IN
       IF Readers(f) = {}
         THEN /\ tool' = [tool EXCEPT ![t] = Ended("failed")]
              /\ pipe' = LeftBy(t, pipe)
         ELSE /\ pipe' = [pipe EXCEPT ![f] = Append(@, t)]
              /\ tool' = [tool EXCEPT ![t].left = @ - 1]
    /\ UNCHANGED <<daemon, lock_file, stats_fifo, queue, log, cut>>

\* fclose() and exit.
CloseReport(t) ==
    /\ tool[t].at = "write"
    /\ tool[t].left = 0
    /\ tool' = [tool EXCEPT ![t] = Ended("done")]
    /\ pipe' = LeftBy(t, pipe)
    /\ UNCHANGED <<daemon, lock_file, stats_fifo, queue, log, cut>>

ToolDies(u) ==
    /\ ToolsMayDie
    /\ ~Over(u)
    /\ tool' = [tool EXCEPT ![u] = Ended("failed")]
    /\ pipe' = LeftBy(u, pipe)
    /\ UNCHANGED <<daemon, lock_file, stats_fifo, queue, log, cut>>

\* SIGCONT from the shell, while on_continue_signal() handles it.
Resumed(t) ==
    /\ JobControl
    /\ tool[t].at \in {"find", "get_queue", "send", "wait"}
    /\ tool' = [tool EXCEPT ![t].response = "granted"]
    /\ UNCHANGED <<daemon, lock_file, stats_fifo, queue, pipe, log, cut>>

-----------------------------------------------------------------------------
(* stop_daemon()                                                           *)

\* SIGINT is fatal before the handlers are installed.  Otherwise it sets
\* interrupt_signal, and interrupts msgrcv() if the daemon is inside it; the
\* other calls are restarted.
Interrupt(d) ==
    \/ /\ daemon[d].at \in {"open_lock", "set_lock", "get_queue", "handlers"}
       /\ daemon' = [daemon EXCEPT ![d] = NoDaemon]
    \/ /\ daemon[d].at = "receive"
       /\ daemon' = [daemon EXCEPT ![d].interrupted = TRUE, ![d].at = "check"]
    \/ /\ daemon[d].at \notin {"open_lock", "set_lock", "get_queue", "handlers"}
       /\ daemon' = [daemon EXCEPT ![d].interrupted = TRUE]

StopDaemon(s) ==
    /\ tool[s].at = "kill"
    /\ LET d == tool[s].daemon_pid IN
       IF Live(d)
         THEN /\ Interrupt(d)
              /\ tool' = [tool EXCEPT ![s] = Ended("done")]
         ELSE /\ tool' = [tool EXCEPT ![s] = Ended("failed")]
              /\ UNCHANGED daemon
    /\ UNCHANGED <<lock_file, stats_fifo, queue, pipe, log, cut>>

-----------------------------------------------------------------------------
(* initialize_daemon()                                                     *)

\* open(O_CREAT) of acquire_lock_or_exit()
OpenLock(d) ==
    /\ daemon[d].at = "open_lock"
    /\ \E i \in IF lock_file = None THEN FreeInodes ELSE {lock_file} :
         /\ lock_file' = i
         /\ daemon' = [daemon EXCEPT ![d].at = "set_lock", ![d].lock_fd = i]
    /\ UNCHANGED <<tool, stats_fifo, queue, pipe, log, cut>>

\* Mutant: the result of fcntl(F_SETLK) is not looked at.
SetLockAlways(d) ==
    /\ daemon[d].at = "set_lock"
    /\ daemon' = [daemon EXCEPT ![d].at = "get_queue", ![d].locked = TRUE]
    /\ UNCHANGED <<tool, lock_file, stats_fifo, queue, pipe, log, cut>>

SetLock(d) ==
    /\ daemon[d].at = "set_lock"
    /\ daemon' = IF Holders(daemon[d].lock_fd) = {}
                   THEN [daemon EXCEPT ![d].at = "get_queue", ![d].locked = TRUE]
                   ELSE [daemon EXCEPT ![d] = NoDaemon]
    /\ UNCHANGED <<tool, lock_file, stats_fifo, queue, pipe, log, cut>>

GetDaemonQueue(d) ==
    /\ daemon[d].at = "get_queue"
    /\ IF lock_file = None
         THEN /\ daemon' = [daemon EXCEPT ![d] = NoDaemon]
              /\ UNCHANGED queue
         ELSE LET id == <<lock_file, d>> IN
              /\ OpenQueue(id)
              /\ daemon' = [daemon EXCEPT ![d].at = "handlers", ![d].queue_id = id]
    /\ UNCHANGED <<tool, lock_file, stats_fifo, pipe, log, cut>>

InstallHandlers(d) ==
    /\ daemon[d].at = "handlers"
    /\ daemon' = [daemon EXCEPT ![d].at = "remove_fifo"]
    /\ UNCHANGED <<tool, lock_file, stats_fifo, queue, pipe, log, cut>>

RemoveFifo(d) ==
    /\ daemon[d].at = "remove_fifo"
    /\ stats_fifo' = None
    /\ daemon' = [daemon EXCEPT ![d].at = "make_fifo"]
    /\ UNCHANGED <<tool, lock_file, queue, pipe, log, cut>>

\* mkfifo() fails, and the daemon exits, when the name is taken.
MakeFifo(d) ==
    /\ daemon[d].at = "make_fifo"
    /\ IF stats_fifo # None
         THEN /\ daemon' = [daemon EXCEPT ![d] = NoDaemon]
              /\ UNCHANGED stats_fifo
         ELSE /\ stats_fifo' \in FreeFifos
              /\ daemon' = [daemon EXCEPT ![d].at = "check"]
    /\ UNCHANGED <<tool, lock_file, queue, pipe, log, cut>>

-----------------------------------------------------------------------------
(* run_daemon_main() and handle_message()                                  *)

CheckInterrupt(d) ==
    /\ daemon[d].at = "check"
    /\ daemon' = [daemon EXCEPT
         ![d].at = IF daemon[d].interrupted THEN "finalize" ELSE "receive"]
    /\ UNCHANGED <<tool, lock_file, stats_fifo, queue, pipe, log, cut>>

\* The answer reaches a tool whose handlers wait for it.
Answer(t, response) ==
    tool' = IF tool[t].at = "wait" THEN [tool EXCEPT ![t].response = response]
            ELSE tool

\* msgrcv(), the attempt to open the log, and the signal that answers.
Receive(d, response) ==
    /\ daemon[d].at = "receive"
    /\ LET id == daemon[d].queue_id IN
         /\ queue[id] # <<>>
         /\ queue' = [queue EXCEPT ![id] = Tail(@)]
         /\ Answer(Head(queue[id]), response)

\* Mutant: the daemon answers the next booking without serving this one.
GrantAndGoOn(d) ==
    /\ Receive(d, "granted")
    /\ daemon' = [daemon EXCEPT ![d].at = "check"]
    /\ UNCHANGED <<lock_file, stats_fifo, pipe, log, cut>>

Grant(d) ==
    /\ Receive(d, "granted")
    /\ daemon' = [daemon EXCEPT ![d].at = "open",
                                ![d].serving = Head(queue[daemon[d].queue_id])]
    /\ UNCHANGED <<lock_file, stats_fifo, pipe, log, cut>>

\* Mutant: kill() is forgotten when the log cannot be opened.
RefuseSilently(d) ==
    /\ daemon[d].at = "receive"
    /\ LET id == daemon[d].queue_id IN
         /\ queue[id] # <<>>
         /\ queue' = [queue EXCEPT ![id] = Tail(@)]
    /\ daemon' = [daemon EXCEPT ![d].at = "check"]
    /\ UNCHANGED <<tool, lock_file, stats_fifo, pipe, log, cut>>

Refuse(d) ==
    /\ Receive(d, "refused")
    /\ daemon' = [daemon EXCEPT ![d].at = "check"]
    /\ UNCHANGED <<lock_file, stats_fifo, pipe, log, cut>>

OpenFifoToRead(d) ==
    /\ daemon[d].at = "open"
    /\ IF stats_fifo = None
         THEN /\ daemon' = [daemon EXCEPT ![d] = NoDaemon]
              /\ UNCHANGED tool
         ELSE LET writers == Writers(stats_fifo) IN
              /\ daemon' = [daemon EXCEPT
                   ![d].at = IF writers = {} THEN "opening" ELSE "copy",
                   ![d].fifo = stats_fifo]
              /\ tool' = [u \in Users |->
                   IF u \in writers THEN [tool[u] EXCEPT !.at = "write"]
                   ELSE tool[u]]
    /\ UNCHANGED <<lock_file, stats_fifo, queue, pipe, log, cut>>

\* The chunk goes to the log of the booking that is served, whoever wrote it.  Of
\* a write() that takes only a part nobody is told: the part is the chunk here.
CopyChunk(d) ==
    /\ daemon[d].at = "copy"
    /\ LET f == daemon[d].fifo IN
         /\ pipe[f] # <<>>
         /\ log' = Append(log, [file |-> LogOf[daemon[d].serving],
                                writer |-> Head(pipe[f])])
         /\ pipe' = [pipe EXCEPT ![f] = Tail(@)]
    /\ UNCHANGED <<tool, daemon, lock_file, stats_fifo, queue, cut>>

\* my_write() fails and the daemon exits: the lock is released, the FIFO loses
\* its reader and the chunk is lost.  The names and the queue stay.
CopyFails(d) ==
    /\ LogMayFail
    /\ daemon[d].at = "copy"
    /\ LET f == daemon[d].fifo IN
         /\ pipe[f] # <<>>
         /\ pipe' = LeftBy(d, [pipe EXCEPT ![f] = Tail(@)])
         /\ cut' = cut \cup Writers(f) \cup {pipe[f][i] : i \in DOMAIN pipe[f]}
    /\ daemon' = [daemon EXCEPT ![d] = NoDaemon]
    /\ UNCHANGED <<tool, lock_file, stats_fifo, queue, log>>

\* Mutants: copy_stream() stops as soon as there is nothing to read, or as soon
\* as nobody writes, and what the pipe holds is lost.
EndOfDataReport(d) ==
    /\ daemon[d].at = "copy"
    /\ pipe[daemon[d].fifo] = <<>>
    /\ daemon' = [daemon EXCEPT ![d].at = "check", ![d].serving = None,
                                ![d].fifo = None]
    /\ UNCHANGED <<tool, lock_file, stats_fifo, queue, pipe, log, cut>>

EndOfWriterReport(d) ==
    /\ daemon[d].at = "copy"
    /\ Writers(daemon[d].fifo) = {}
    /\ pipe' = [pipe EXCEPT ![daemon[d].fifo] = <<>>]
    /\ daemon' = [daemon EXCEPT ![d].at = "check", ![d].serving = None,
                                ![d].fifo = None]
    /\ UNCHANGED <<tool, lock_file, stats_fifo, queue, log, cut>>

\* read() returns 0: nothing left to read and nobody left to write it.
EndOfReport(d) ==
    /\ daemon[d].at = "copy"
    /\ pipe[daemon[d].fifo] = <<>>
    /\ Writers(daemon[d].fifo) = {}
    /\ daemon' = [daemon EXCEPT ![d].at = "check", ![d].serving = None,
                                ![d].fifo = None]
    /\ UNCHANGED <<tool, lock_file, stats_fifo, queue, pipe, log, cut>>

-----------------------------------------------------------------------------
(* finalize_daemon()                                                       *)

\* IPC_RMID: the bookings in the queue are lost, and the id is invalid for a
\* tool that already has it.
RemoveQueue(d) ==
    /\ daemon[d].at = "finalize"
    /\ LET id == daemon[d].queue_id IN
         /\ queue' = [q \in DOMAIN queue \ {id} |-> queue[q]]
         /\ tool' = [u \in Users |->
              IF tool[u].at = "send" /\ tool[u].queue_id = id
                THEN [tool[u] EXCEPT !.queue_id = None] ELSE tool[u]]
    /\ daemon' = [daemon EXCEPT ![d].at = "unlink_fifo"]
    /\ UNCHANGED <<lock_file, stats_fifo, pipe, log, cut>>

\* my_unlink() exits when the name is gone.
UnlinkFifo(d) ==
    /\ daemon[d].at = "unlink_fifo"
    /\ stats_fifo' = None
    /\ daemon' = [daemon EXCEPT
         ![d] = IF stats_fifo = None THEN NoDaemon ELSE [@ EXCEPT !.at = "unlink_lock"]]
    /\ UNCHANGED <<tool, lock_file, queue, pipe, log, cut>>

\* The last step: the exit that follows releases the lock.
UnlinkLock(d) ==
    /\ daemon[d].at = "unlink_lock"
    /\ lock_file' = None
    /\ daemon' = [daemon EXCEPT ![d] = NoDaemon]
    /\ UNCHANGED <<tool, stats_fifo, queue, pipe, log, cut>>

-----------------------------------------------------------------------------
Tool(t) ==
    \/ RunCommand(t)
    \/ GetQueue(t)
    \/ Send(t)
    \/ Confirmed(t)
    \/ OpenFifoToWrite(t)
    \/ Write(t)
    \/ CloseReport(t)

Stopper(s) == RunStop(s) \/ StopDaemon(s)

FindDaemon(u) ==
    \/ OpenLockFile(u)
    \/ ReadDaemonPid(u)
    \/ AttemptFails(u)
    \/ TryFails(u)
    \/ GiveUp(u)

Daemon(d) ==
    \/ OpenLock(d)
    \/ SetLock(d)
    \/ GetDaemonQueue(d)
    \/ InstallHandlers(d)
    \/ RemoveFifo(d)
    \/ MakeFifo(d)
    \/ CheckInterrupt(d)
    \/ Grant(d)
    \/ Refuse(d)
    \/ OpenFifoToRead(d)
    \/ CopyChunk(d)
    \/ CopyFails(d)
    \/ EndOfReport(d)
    \/ RemoveQueue(d)
    \/ UnlinkFifo(d)
    \/ UnlinkLock(d)

Environment == \E u \in Users : ToolDies(u) \/ (u \in Tools /\ Resumed(u))

Next ==
    \/ \E t \in Tools : Tool(t)
    \/ \E s \in Stoppers : Stopper(s)
    \/ \E u \in Users : FindDaemon(u)
    \/ \E d \in Daemons : Daemon(d)
    \/ Environment

Spec == Init /\ [][Next]_vars

\* Every process that can take a step is scheduled.
FairSpec ==
    /\ Spec
    /\ \A t \in Tools : WF_vars(Tool(t) \/ FindDaemon(t))
    /\ \A s \in Stoppers : WF_vars(Stopper(s) \/ FindDaemon(s))
    /\ \A d \in Daemons : WF_vars(Daemon(d))

-----------------------------------------------------------------------------
(* Properties.                                                             *)

ToolRecords ==
    [at : ToolStates, tries : 0..(MaxAttempts - 1), attempts : 0..(MaxAttempts - 1),
     spoiled : BOOLEAN, lock_fd : Inodes \cup {None},
     daemon_pid : Daemons \cup {None},
     queue_id : QueueIds \cup {None}, response : {None, "granted", "refused"},
     fifo : Fifos \cup {None}, left : 0..Chunks]

DaemonRecords ==
    [at : DaemonStates, lock_fd : Inodes \cup {None}, locked : BOOLEAN,
     interrupted : BOOLEAN, queue_id : QueueIds \cup {None},
     serving : Tools \cup {None}, fifo : Fifos \cup {None}]

\* Type invariant: every variable stays in its range.
TypeOK ==
    /\ tool \in [Users -> ToolRecords]
    /\ daemon \in [Daemons -> DaemonRecords]
    /\ lock_file \in Inodes \cup {None}
    /\ stats_fifo \in Fifos \cup {None}
    /\ DOMAIN queue \subseteq QueueIds
    /\ queue \in [DOMAIN queue -> Seq(Tools)]
    /\ \A id \in DOMAIN queue : Len(queue[id]) <= QueueSize
    /\ pipe \in [Fifos -> Seq(Tools)]
    /\ log \in Seq([file : LogFiles, writer : Tools])
    /\ cut \subseteq Tools

\* Has got past acquire_lock_or_exit().
Running(d) == daemon[d].locked

\* daemon.c:44: a daemon that finds another one running stops itself.
SingleDaemon == \A d, e \in Daemons : Running(d) /\ Running(e) => d = e

\* What a tool has still to write when its daemon has died, nobody reads.
Writing == {t \in Tools \ cut : tool[t].at \in {"open", "opening", "write"}}

\* problemi.md:3: the logger enables one run at a time, so that two runs do
\* not write to the FIFO together, also when a daemon has died in the middle of a
\* report and another one has taken over.
OneToolAtATime == \A t, u \in Writing : t = u

\* A tool that writes its report has a daemon that reads it, and no SIGPIPE cuts
\* the report short, whatever the daemon is told meanwhile (handle_message): only
\* a write to the log that fails in the middle of that very report may.
WritersHaveReader ==
    \A t \in Tools \ cut : tool[t].at = "write" =>
      \E d \in Daemons : daemon[d].at = "copy" /\ daemon[d].fifo = tool[t].fifo

\* Once no report is being copied, every chunk of the report of every tool that
\* has exited with success is in the log file the tool asked for, once: only a
\* report that was being copied when a write failed may have lost chunks, and a
\* daemon that dies so loses nothing of the others.
ReportsLogged ==
    (\A d \in Daemons : daemon[d].serving = None) =>
      \A t \in Tools \ cut : tool[t].at = "done" =>
        Cardinality({i \in DOMAIN log : log[i] = [file |-> LogOf[t], writer |-> t]}) = Chunks

\* daemon_socket.c:47: the message specifies the path to which the tool wants to
\* write the log, and so its report goes to that file.
ReportsInOwnLog == \A i \in DOMAIN log : log[i].file = LogOf[log[i].writer]

\* The bookings that are in some queue, and the tool that is being served.
Booked == {t \in Tools : \E id \in DOMAIN queue : \E i \in DOMAIN queue[id] : queue[id][i] = t}
Served == {t \in Tools : \E d \in Daemons : daemon[d].serving = t}

Service == INSTANCE LogService WITH
    Nobody <- None,
    booked <- Booked,
    writer <- IF Served = {} THEN None ELSE CHOOSE t \in Served : TRUE

\* The daemon implements the service: it grants one tool at a time, and every
\* chunk it appends is of the tool it has granted, and goes to the log that tool
\* asked for (handle_message).
ServesOneByOne == Service!Spec

\* Every run of the tool comes to its end: bookings are answered, the FIFO is
\* opened at both ends, reports are read (book_and_obtain_log_fd).
EveryRunEnds == \A u \in Users : <>Over(u)

\* lifecycle.md: the wait for the daemon ends, by its signal or by a timeout.
WaitEnds == \A t \in Tools : [](tool[t].at = "wait" => <>(tool[t].at # "wait"))
=============================================================================
