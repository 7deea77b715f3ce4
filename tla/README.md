# Verification of command_stats

`command_stats` runs a shell command line (`|`, `&&`, `||`, `;`, redirects,
`cd`) and appends statistics on every executable of it to a log file, through
one writer daemon shared by all the runs of the tool. This directory holds TLA+
models of that program, the configurations that check them with TLC and the
proofs that TLAPS checks. Paths are relative to the repository.

## The system

| Part | Source | State it keeps | Operations |
|---|---|---|---|
| Execution | `src/execute/execute.c` | `to_wait`, the tree with a result and a pid per node, the SIGUSR1 handler, the open appender descriptors | `execute`, `execute_async`, the wait loop, `handle_operands_node_execution_completed`, `on_execution_failed`, the code of the children |
| Tree | `src/structs/node.c`, `stream.c` | nodes, streams, pipes, appenders | searches by pid, of the father, of the next operand; removal of an operand |
| Builtins and wiring | `src/parse/builtin.c` | streams of each node, `cd` lists | `apply_cd_builtin`, `wire_redirects` |
| Parser | `src/parse/parse.c`, `src/common/my_regex.c` | compiled expressions | string to tree |
| Printing | `src/print_results/*` | printer context | tree of results to text |
| Booking, tool side | `src/daemon/daemon_socket.c` | `daemon_response`, the pid read from the lock | find or restart the daemon, send the booking, wait for a signal, open the FIFO |
| Writer daemon | `src/daemon/daemon.c`, `daemonize.c`, `daemon_common.c` | lock file, message queue, FIFO, `interrupt_signal` | become a daemon, take the lock, answer bookings one at a time, stop |
| Main | `src/main.c` | arguments | start or stop the daemon, then parse, execute, book, print |
| Common | `src/common/*` | none that matters here | wrappers that exit when a call fails, `copy_stream` |

How they interact. `main` forks a daemon candidate, parses, and calls
`execute`, which forks the children and an appender process per sequencing
operator; children report to the parent by exit status and, when they cannot
invoke their executable, by SIGUSR1. After that `main` books the log: it reads
the daemon's pid from the lock, sends a message to the queue derived from that
pid, waits for a signal of the daemon and writes the results to the FIFO the
daemon reads.

What is hard here: a signal handler that runs between any two steps and reads
fields the parent is still writing; children that end in any order; a counter
that decides when to stop; pids as the only key from a status to a node; a
shutdown that removes by name things that others may have created again.
`PROJECT.json` lists every hazard at its line, with the properties that watch it.

### What makes each part correct

- **Execution**: each executable is started when the operators above it call
  for it and never otherwise; `execute()` returns, and only once nothing is left
  to run; a result is written once, in the node it belongs to; the tool is never
  killed by its own bookkeeping.
- **Plumbing** (descriptors of pipes, redirects and appenders): every reader
  sees the end of its input, so that no child and no appender waits for ever;
  the output of a sequence is that of its operands, in order.
- **Builtins and wiring**: a removed `cd` acts on the commands after it and on
  no other; the streams of a node are those the operators above it ask for.
- **Parser**: `&&` is split first, then `||`, `|` and `;`, so that `;` binds
  tightest, unlike in a shell; brackets protect operators (quotes do not); a command
  written in full becomes the tree it was written from, and no word is lost.
- **Booking**: one daemon; one tool writes at a time; every report is whole in the
  log its tool asked for; every booking is answered.
- **Printing**: every command is in the report once, in order, with the values
  asked for if it was executed; rows and tags match; the times add up.
- **Main**: the status of the tool is that of the command.

## The modules

| Module | Models | Worth knowing |
|---|---|---|
| `CommandTree` | `node.h`: the tree, its shape, raw wait statuses | one variable, `tree`, which `execute()` never changes |
| `Evaluation` | what a shell promises for such a tree, without processes | the abstract specification of `execute()` |
| `Execute` | `execute.c`: the parent, its children, the appenders, SIGUSR1 | one action per step another process or a signal can come between |
| `Wiring` | `wire_redirects()`: the stream of every node | one rule for each argument of the recursion; `IsWired` says of a tree that it obeys them |
| `Plumbing` | `execute.c` again: descriptors, pipes, appenders, data | extends `Wiring`; same control as `Execute`, without pids and signals |
| `LogService` | what the daemon promises, without a daemon | the abstract specification of the booking |
| `Booking` | `src/daemon`: tools, `-s`, daemons, lock file, queue, FIFO | one action per system call on a shared object |
| `Parser` | `parse.c`, `my_regex.c`: command line to tree | operators over sequences of words and symbols |
| `Builtin` | `builtin.c`: `cd`, then the wiring | extends `Parser` and `Wiring` |
| `Report` | `src/print_results`: tree to report, in three formats | the calls of the printer as an agenda |
| `Tool` | `main.c`, which composes the last three with an execution and a booking of one step each | extends `Builtin` and `Report`, and checks its execution against `Evaluation` |
| `MCExecute`, `MCPlumbing`, `MCBooking`, `MCTool` | trees, command lines, symmetry and refinement mappings for TLC | |
| `TreeProofs` | lemmas about trees: first, last, ascending, what is under what | used by `ExecuteProofs`, `PlumbingProofs` and `ToolProofs` |
| `ExecuteProofs` | why `Execute` never loses count, a result or itself; that it implements `Evaluation` | |
| `PlumbingProofs` | which process holds which end of which pipe, under which number | |
| `OutputProofs` | why the outputs come in order and are not lost | extends `PlumbingProofs` |
| `ToolProofs` | why every command line becomes a wired tree, who is at the ends of its streams, why its execution is that of `Evaluation`, and why times add up | extends `TreeProofs` |
| `WordProofs` | why no word of a command is lost on the way to its executables | extends `ToolProofs` |
| `ReportProofs` | why the report is complete, its lines regular and its tags nested | extends `ToolProofs` |
| `BookingProofs` | type correctness of `Booking`; why there is one daemon and one writer, and every report gets whole into its log; that `Booking` implements `LogService` | |

`map` in `PROJECT.json` gives the lines of every definition.

### Execute and Evaluation

State. `to_wait`, `result` and `pid` are the static counter and the fields of
`Node_T` (`-2` in `exit_code` stands for a result that is `NULL`, `-1` for one that
`malloc()` left unset). `pc`, `todo`, `forked`, `frame` and `handling` are the
call stack: `todo` holds the nodes on which `execute_async()` is still to be
called, `forked` the pid that `fork()` has returned and nobody has stored yet,
`frame` the arguments of `handle_operands_node_execution_completed()`, one step per
level the recursion climbs. `proc` is the kernel's table, `sigusr1` the pending
signal: one at most, because signals do not queue.

Actions. `ForkExecutable` and `RecordPid` are the two halves of
`execute_executable_async()`, because a child can fail, signal and die between
them. `AppenderCannotRedirect` is the one failure that ends the tool itself: the
parent opens the file an operator is redirected to. `DeliverSigusr1` is the handler and may run between any two steps. The
children are `ChildCannotInvoke`, `ChildCannotRedirect`, `ChildInvokes` and
`ProcessExits`: appenders are processes like the others, which `wait3()` also
returns and which no node knows (`ReapUnknown`).

Left out: descriptors and data, which are in `Plumbing`, so a process may end at
any moment; `cd` lists, which only change what the child does before `execvp()`; the
times in `struct rusage`, copied together with the status.

`Evaluation` says which executables are *due* given the statuses so far, and what
the status of the whole is. `Execute` implements it: `MCExecute!Evaluates` maps the
executables that have a result to `started`, their exit codes to `status`, and the
return of `execute()` to `returned`.

### Wiring and Plumbing

State. `Wiring` gives each node of a tree its `std_in` and `std_out` and keeps the two
arguments, `from` and `to`, that the recursion was called with for it: `to` of a
sequencing operator (`&&`, `||`, `;`) is the stream of its appender. A pipe is
known by the node whose output it was made for. `Plumbing` adds the descriptor table
of the parent and of every process (`fds`, a function from numbers to ends of pipes
and files), the numbers the program remembers (`desc`, `to_fd`, `open_appender_fds`,
`known`) and the data: what is in each pipe, what an appender holds, what has
reached each file. The point is that a number remembered is not the descriptor it
once stood for: `pipe()` takes the two lowest free numbers, `close()` frees them, and
the child works on the copy it got at `fork()`.

Actions. `ExecuteAsync`, `OpenPipe`, `Fork` and `CloseUnused` are
`execute_executable_async()` and `init_appender()`; `Reap`, `HandleCompleted` and
`Return` the loop of the parent, where `to_wait` is the number of executables not yet
reaped (`ToWaitCounts` of `Execute` says why it may be); `ChildInvokes` or
`ChildFails` is the child before `execvp()`; `Appender...` is `run_appender_main()` with
`copy_stream()`. The executables are the environment: a source writes one chunk and
exits, a filter reads to the end of its input first, an endless one (`yes`) writes
until SIGPIPE. `status` is that of a node: "started" once `execute_async()` was called for
it, then what the executable or the operator ended with; an appender leaves none.

Left out: `fork()` and `open()` failing (in `Execute`), the pids and the signal; a write to
a redirect file that fails (a full disk), of an appender or of a command: `AppenderFails` is the
write to a pipe without a reader, or to a number that was closed.

### Parser, Builtin, Report and Tool

State. A command line is a sequence of words and symbols; a word has one letter,
letters and dots, or anything, which is all the regular expressions tell apart.
`nodes` is the tree as the parser builds it, in preorder, and `work` the calls of
`create_node_from_string()` that are due. `cursor`, `cds` and `removed` are the
traversal of `apply_cd_builtin_r()`; `agenda` is what the traversal of
`print_results()` has still to call; `report` what the printer has written: values,
separators, tags. `argv`, `arguments` and `exit_status` are those of `main()`.

Actions. One per option of `parse_arguments()`, one per call of
`create_node_from_string()` (`CreateNode`), one per node for `cd` (`ApplyCd`), then
`WireRedirects`, `Run`, one per call of a printer function (`PrintResults`), `Return`.
`Run` is `execute()` and the booking as one step: `Due` and `Outcome` say what is
executed and with what status. The steps are in `Execute`, `Plumbing` and `Booking`;
the invariant `AsEvaluated` checks `Due` and `Outcome` against `Evaluation`, which
`execute_safe` shows `Execute` to implement; `RunEvaluates` and `ExecuteEvaluates` prove both.

`Parser`, `Builtin` and `Wiring` were also compared with the compiled program, on
some 4800 command lines made at random of the same words and symbols: the trees, the
arguments, the `cd` lists and the streams were the same on every one.

Left out: backslashes, the text of values, `-l` with a log that cannot be opened
(`Booking` has the refusal). Values are opaque, so `RowsMatchHeader` is about the commas
that `csv.c` writes between them: a comma in the path of a command, which `csv.c` does not
quote, adds a column all the same. `-s` exits with 0 or, if `stop_daemon()` finds no
daemon, with 1; its steps are in `Booking`.

### Booking and LogService

State. One record for each run of the tool (where it is, the lock file it has open, the
pid it read, its queue, the signal it got, the FIFO it has open, the chunks it has still to
write) and for each daemon candidate. `log` has a record for every chunk logged: the log
file it went to, which is the one that the booking in service asked for (`LogOf`), and the
tool that wrote it. `lock_file` and `stats_fifo` are what the two names
stand for: a name may be unlinked and come to stand for another inode while
somebody holds the old one, which is where the hazards of this part are. A queue
is known by `<<inode, pid>>`, as in `ftok()`. `cut` is a history variable: the tools whose
report was being copied when a write to the log failed.

Actions. Every system call on a shared object is a step. `open()` of the FIFO is
two: the first end blocks in `opening` and the arrival of the second moves both.
`Receive` is `msgrcv()`, the attempt to open the log and the `kill()` that answers:
nothing between them is visible to anybody else. `CopyFails` is `my_write()` on a disk that
is full: the daemon exits in the middle of the report, its lock is released, the FIFO loses its
reader and, if it has no writer either, what it held (`LeftBy`), while the names and the queue
stay. Handlers are in the guards:
SIGINT kills a daemon before `sigaction()`, interrupts `msgrcv()`, and only sets
the flag anywhere else, because `signal()` gives BSD semantics (`SA_RESTART`) in the
dialect the Makefile asks for, so that a blocked `open()` is restarted.

Left out: failures of `fork()` in `daemonize()`; a tool whose parent is init, for
which `daemonize()` refuses; collisions of `ftok()`; a `write()` that takes only a part of a
chunk, of which the program does not hear either (`CopyChunk` counts it as logged).

`LogService` has the bookings that wait, the tool that is served and the log.
`Booking!ServesOneByOne` maps them to the queues, to `serving` and to `log`.

## The runs

| Run | Instance | Shows |
|---|---|---|
| `execute_safe` | 41 trees of up to five nodes, 5 pids, statuses 0 and killed | the counter, the results, the turns of the operands, and `Evaluates` |
| `execute_degraded` | trees of up to three nodes, operators with no operand, `a \|\| (cd d && b)`; forks that fail, 3 pids that are reused, stray pid fields; with fairness | a stray or reused pid is the only way the tool can die; `execute()` returns unless it died, a failed fork was counted, or a reused pid misdirects it again and again |
| `plumbing` | 30 wired trees, 18 descriptors; with fairness | who holds which end, the order and arrival of the outputs, which commands end |
| `tool` | some 200 commands with four sets of options, every outcome of the executables | parser, builtins, wiring and report in three formats |
| `booking_shared` | 3 tools with a log each, 3 candidates; tools may die, writes to a log may fail | one daemon, one writer, reports whole and in the logs asked for, `ServesOneByOne` |
| `booking_faults` | 2 tools with one log, one `-s`, 3 candidates; tools die, writes fail, SIGCONT | a writer keeps its reader, a tool that succeeds has its report in the log |
| `booking_ends` | 2 tools, 3 candidates, nothing fails; with fairness | every run of the tool ends |

`WritersHaveReader`, `ReportsLogged` and `OneToolAtATime` except the reports in `cut`: a daemon
that cannot write a log leaves the tool it serves without a reader, and a tool that has already
exited with success loses what was in the FIFO. What they say is that it is *that* report only:
the next daemon, which starts among the names the dead one has left, mixes nothing and loses
nothing else.

Five runs have a counterexample as their result: they check what a comment or a
document of the repository says and the code does not do.

| Run | The text | The behaviour |
|---|---|---|
| `lost_report` | execute.c:85 | SIGUSR1 comes before `node->pid` is stored, or two of them merge: the failed invocation is not recorded |
| `lost_output` | execute.c:19 | `(echo hi && echo there) ; echo c` writes only `c`: the inner appender closes a number that has become the pipe of its own first operand |
| `exit_status` | main.c:69 | the status is returned as `wait3()` gave it: a command that exits with 1 makes the tool exit with 0 |
| `two_daemons` | daemon.c:44 | a candidate locks the inode that a stopping daemon has just unlinked; the next one locks a new file |
| `lost_booking` | lifecycle.md:8 | a booking in the queue of a daemon that stops is removed; its tool waits for ever, there is no timeout |

### What the models taught about the code

These behaviours are in the models, and follow from the lines named; they have no run
of their own.

- *Execution.* A fork that fails leaves `to_wait` one too high and the loop never
  ends (execute.c:194). An operator whose operands were all `cd` has no process and
  never ends: what comes after it is not run and the root has an unset exit code
  (execute.c:336). `find_node_in_tree_with_pid()` also returns nodes that ended long
  ago (node.c:92): with a pid the kernel uses again the result goes to another node,
  an operator restarts again and again, or `execute()` returns early and a late
  SIGUSR1 kills the tool; this is what `Misdirected` and `KilledBySigusr1` name. A child
  that cannot open its redirect file sends no report (execute.c:303).
- *Plumbing.* `EndsOrLeaks` names the one way a command can hang: an end of a pipe is
  left open by a process that is not wired to it. `SafeTree` says which commands have no
  such end. Outside it: `yes | head -1` (the left child inherits the read end,
  execute.c:224); `(false && true) | cat` and `(true || false) | cat` (the appender waits
  for an operand that is never started); `(echo a ; echo b) | (cat ; echo d)`;
  `echo a > f | cat`. The later operands of a sequence in a pipe read the tool's own
  input, and the input redirect of the first operand of a sequence is written over
  (builtin.c:165).
- *Parser.* `ls|w|wc` loses its last command: two matches of the separator cannot share
  the `w`. `WordsKept` excludes such lines (`NothingSqueezed`), and lines with redirects. `a > f && b` and `(a > f)` have no redirect but arguments.
  `((a && b))` becomes an executable `(a`. Of several redirects the last stays. Joined
  quoted arguments leave the end of `argv` unwritten (parse.c:410; `terminated` in
  `Parser`). A trailing `;` fails.
- *Builtins.* A `cd` before an operator writes into the wrong part of a union: the
  directory is lost, or the tool crashes (builtin.c:61; stage `crashed`).
  `CdsGoToFollowers` is about the brothers that are commands.
- *Report.* The exit code is `WEXITSTATUS` of a raw status, so a killed command has 0;
  nanoseconds may be negative (node.c:182), which `PrintedTimeAddsUp` permits; an unknown attribute is dropped and an unknown format is
  found only after the command was executed and the log booked.
- *Main.* The daemon is started before the missing command is noticed.
- *Daemon.* SIGINT between the test of `interrupt_signal` and `msgrcv()` has no effect
  until the next booking (daemon.c:63). `on_continue_signal()` takes the SIGCONT of a
  shell for an answer (daemon_socket.c:33): `OneToolAtATime` fails as
  soon as `JobControl` is TRUE, and so does `ReportsInOwnLog` if the tools have logs of their
  own: the tool that was resumed writes without a grant, and the daemon appends its report to
  the log file of the tool it serves (daemon.c:141, 161). When a write to a log fails the daemon exits
  (syscalls_wrappers.c:26): the tool it serves dies of SIGPIPE or, if it had already closed
  the FIFO, has exited with 0 with a part of its report lost. The bookings in the queue of
  the dead daemon stay there unread, and their tools wait for ever, as in `lost_booking`.

### Bounds, and why they are enough

- *Trees*. Every rule of `handle_operands_node_execution_completed()` concerns one
  operator, one of its operands and its father: trees of depth two with every
  pair of operators, and operators with three operands, exercise all of them. Two nested pipes are left out: their
  children never wait for one another. Five pids let every node and every
  appender of these trees have a process of its own.
- *Degraded trees*. Three pids for three nodes and their appenders are few enough
  that a pid is used again while the node that had it before is still in the tree;
  `a || (cd d && b)` is the smallest tree in which that makes an operator restart.
- *Wired trees*. Each sequencing operator alone with two and three operands,
  pipelines of two and three, each operator in a pipeline on either side, a pipeline first in
  each operator, two sequences in a pipeline, sequences nested in one another, and
  redirects of a node and of an operator. `PipeSize = 1`: a pipe is full after one
  chunk. The trees have seven nodes at most, and `MaxFd = 17` satisfies the hypothesis
  `EnoughFds` of the proofs for them: three standard descriptors, both ends of a pipe for
  each node but the root, the file of an operator, and the two redirects of a child.
- *Command lines*. Every command up to `(a o b) p (c o d)` written in full, up to three
  commands also with
  a redirect, and some thirty-five written otherwise: without blanks, with
  brackets, quotes, redirects and `cd` where nobody expects them. The options ask for
  each format, for an attribute that does not exist and for an unknown format.
  `NsPerSecond = 10`: the times have a borrow, none, minutes and hours, and a clock
  that was set back.
- *Statuses*. 0 and 9 (killed), besides the 1 and 255 that children of the tool
  itself exit with: success, failure and death by signal.
- *Tools, stoppers, daemons*. Every race on the lock and on the FIFO needs two
  candidates, or a stopping daemon, a candidate and the next one: three. Three
  tools make one served, one queued and one blocked in `msgsnd()`.
- `QueueSize = 1`: the queue is full as soon as one booking waits. The kernel's
  default lets a few of these 4 KB messages in; the proofs are for any size.
- `MaxAttempts` is 3 in the code and in `booking_shared`, 2 elsewhere: the first
  attempt, the last one, and the `F_UNLCK` the first leaves to the second.
- `Chunks = 2`: a report can be cut, or another chunk come between its two.
- `Inodes`, `Fifos`: the old and the new file of each name.
- `LogFiles`: one for each tool, so that a chunk in a wrong one shows; in `booking_faults`,
  where SIGCONT does lead to wrong logs, all tools share one.

Symmetry: pids in `Execute` and everything but the constants of control in
`Booking` are interchangeable. It is used in runs of safety properties only.
`CHECK_DEADLOCK FALSE` in the Booking runs: when all tools are over the daemon
waits for a booking, and the system rests; in the `tool` runs, where the tool exits;
and in the `plumbing` runs, where it exits or hangs: `EndsOrLeaks` says which. In `Execute` a stuttering step marks
the end of the program, so any other deadlock is reported.

### Fairness

`Execute`: the parent, the signal delivery and each child are scheduled
(`WF` on each). That an executable ends is an assumption about the user's command,
needed since `execute()` waits for it. `ExecuteReturns` then holds up to three
conditions, each a state of the model: the tool has died, a failed fork was counted
for good, or results are misdirected infinitely often. `Plumbing`: the system does not rest
while some process can take a step (`WF` of `Next`), the weakest assumption under
which anything ends. It is enough because in these trees no step can be taken for
ever: an endless executable has a pipe, which fills or breaks. `Booking`: each tool and each daemon is
scheduled; nothing is assumed about `ToolDies`, `Resumed` or the users who start
tools beyond that every tool that exists is started. `EveryRunEnds` is about daemons whose
writes do not fail (`LogMayFail` is FALSE): one that exits leaves its bookings unanswered. No strong fairness is used: a
process blocked in a system call stays enabled once the call can return.

## The proofs

TLAPS checks the theorems for every value of the constants that satisfies the
assumptions in the modules (`PidsAssumption`, `TreesAssumption`, ..., `NamesAssumption`:
the constants that name different things differ). A leaf that takes a prover some seconds
names it and allows it a minute (`SMTT(60)`, `ZenonT(60)`), so that a slower machine proves
it as well.

`ExecuteProofs`
- `TypeCorrect`: `TypeOK` with the facts that link `pc` to what is pending
  (`ControlInv`), without any hypothesis on forks and pids.
- `CoreInv`, where pids are not reused (forks may fail, and `malloc()` may leave any pid in
  a node), is inductive together with its one exception, that the tool has died
  (`CoreAlways`). `EvaluationInv`: how far the evaluation can have come, an operator has
  started its operands one after the other and ended after them; `HandleInv`: the
  operator about to hear of a completed operand still waits for it; and what `to_wait`
  counts beyond the executables that run is never negative. Without `EvaluationInv` a
  node could be started twice, and then the counter is not inductive. `QuietReturn` and
  `ResultsFinal` follow, and `OperandsInTurn` with `OrderInv`: of two operands of a sequence
  the later one, and with it everything below it, is started only after the earlier one
  has ended; an earlier operand that contains a pipe is excepted, in the property and so in the
  theorem, because a pipe ends with its last operand and the others may still run. So does
  `DeathByStrayPid`: the step that kills the tool finds a pid field that
  names another node's child.
- Under `NoStray` (besides, `malloc()` leaves no pid in a node), `HeapInv`: the pid fields and
  the kernel's table agree, but for the pid that `fork()` has just returned. Then
  `NeverDies` and `ResultsInPlace` follow, and `ToWaitCorrect` where no fork fails.
- `InvocationFailuresTrue` needs `SignalInv` besides: whoever sent the pending signal
  could not invoke its executable.

- `ExecuteEvaluates`, under `NoStray` and `FullTrees`: an operator left without operands by
  `cd` never ends (see above), and nothing is promised for it. `Tracking` says, next to `Inv`,
  how an operator and its operands agree, each part about one operator and one operand: it
  goes on exactly when the status does not decide it, ends with the status that does, and
  starts nothing before the operands before it have come to what its type asks for. Such
  facts are inductive; the refinement needs them of whole trees, where `Evaluation!Value` and
  `Due` are recursive. A recursive function may be unfolded once its equation has a solution
  (`ValueUnfolds`, `DueUnfolds`), and the invariants give one: the statuses in the results,
  and the nodes that are called for from the root down. It is the only one, because there is
  no first node where another would differ (`CodesAreValues`, `ReachedIsDue`). Each step of
  `Execute` is a step of `Evaluation` or leaves it as it is (`RefinementNext`).

`BookingProofs`: `BookingTypeCorrect`, for every number of tools, stoppers and
candidates, with deaths and SIGCONT. `TypeInv` says which fields mean something
in which state; its core is that a queue is removed only by the daemon whose pid
is in its key, so no other daemon, and no tool in `msgsnd()`, is left with an id
that names nothing.

Exclusion, in the same module, in two layers.
- `LockInv`, under `NoStop`: nobody unlinks the lock file, so every candidate that
  has opened it has the inode the name stands for, and `fcntl()` gives the lock of
  that inode to one. `OneDaemonAtATime` follows. `two_daemons` is what becomes of
  it without `NoStop`.
- `ServeInv`, under `NoStop` and no `JobControl`: a tool that was told to write is
  the one the daemon serves; while the daemon copies, that tool is writing or over;
  a tool that writes has the daemon at the other end. The second part is needed
  for the end of a report: `read()` returning 0 must mean that the tool served is
  done, and not that it has yet to open the FIFO. The tools of `cut` are excepted, and `CutInv`
  is why that does no harm: the FIFO they have open is not the one that the name stands for
  once another daemon has made its own, and no daemon reads any other. `OneToolAtOnce` and
  `EveryWriterHasReader` follow.

The reports, in the same module and under the same hypotheses. `ReportInv` accounts for every
chunk of a tool that is not in `cut`: while it is served, those logged, those in the FIFO and
those still to be written are `Chunks` together; when it is over, all are in its log once nobody
copies (`Account`). It needs `ServeInv`: without it a chunk could be in a FIFO whose daemon has
gone on. It also needs to know that nothing is left of a cut report where a daemon
reads: a FIFO with no open end is empty (`HeldInv`), so the one that a daemon makes is
(`FreshInv`), and what a daemon copies is of the tool it serves (`OwnInv`).
`EveryReportIsLogged` and `EveryReportInItsLog` follow.

`DaemonImplementsService`: `BookInv` says that a booking is in one
queue, once, and that neither a queue nor the daemon knows a tool that has not booked
yet. Each action is then a step of `LogService` or leaves it as it is: `Send` is `Book`, a
grant is `Grant`, `CopyChunk` is `Log` (by `ReportInv`, the chunk is of the tool served),
the end of file is `Release`, and so is the exit of a daemon that cannot write; a refusal is
`Drop`.

`PlumbingProofs`, under `EnoughFds`: the descriptor table holds the standard descriptors,
both ends of the pipe of every node but one and three files. With
fewer, `pipe()` or `open()` can fail, and the wrapper ends the process with `exit(1)`, which
`Plumbing` does not model. It is all that is assumed; the trees are any that
`wire_redirects()` makes of trees whose operators have operands.
- The control of the parent is that of `ExecuteProofs`, in the form `Plumbing` has it
  (`Control`): what is begun and ended when.
- The wiring: `OneWriter` and `OneReader`, that two processes are never wired to the same
  end of a pipe. An output is handed down from operator to last operand, an input from
  operator to first operand, so whoever gets a pipe is at the end of one path in the tree.
- `Memory` says what the numbers are worth. The parent's table and the numbers it remembers
  agree while it holds the end (`TableInv`), and it holds an end until the process wired to
  it is forked (`HeldInv`); afterwards the number may be given to another pipe, so nothing is
  said of it. `CollectedInv` and `ChildInv` are about the list of the collector: every write
  end of an operand that a child has inherited is in it, *under the number it has in that
  child*. This is what `NoLeakToExecutables` needs, because `close_appender_fds_except()`
  closes numbers, not pipes. `DescriptorTypes`, `ParentHoldsUnused` and `ListNeverOverflows`
  come from the same invariant; the last also needs that an operator is started once.

`OutputProofs`, under `EnoughFds`: `OutputStaysInOrder`.
- `EndsInv`: each process reads and writes where it is wired to, or finds the number closed.
  It never finds another pipe there, though it may close one by mistake (`lost_output`):
  losing output is possible, disorder is not.
- `Out(m, c)`: the chunk of command `c` has left the part of the tree below `m`. `RouteInv`:
  what comes through a pipe or into a file was made below its only writer. `SourceInv`: what
  has left an operand was read by its appender, which is at that operand or a later one.
  `BufferInv` and `HoldInv`: what is in the pipe of an operand, or read from it, belongs after
  all that has left. A chunk read is then after all the appender has written: those of
  earlier operands have smaller numbers, and those of the same operand were before it in
  the pipe. The order of the file alone is not inductive, nor with that of the pipes: it
  needs the chunks that have gone through a pipe, which are in no variable any more, and
  `Out` finds them where they are now.
- `Before` lets an endless command come again, and nobody else.

In the same module, `OutputIsNotLost`. The premise `NoNestedAppenders` of `OutputArrives` is used
twice. An appender whose output is no other appender's input writes to a file, to the
terminal or to an executable, and if it is one of the first two, no number it remembers was
closed and given again before its `fork()` (`ForkedHasEnds`). And no output passes through
two appenders, so `Destination`, a recursive function, comes down to a case distinction
(`Destinations`).
- `AppenderInv`: such an appender has the ends it works with; none was closed by mistake
  (`NeverBroken`: its write never fails).
- `InputInv`: no executable reads the pipe of an operand, so nothing is taken out of it but by
  the appender.
- `StartInv` and `SilenceInv`: an appender that is done with an operand has read the end of
  file, so no process has the pipe open for writing then, and the operand's processes that
  might still get it were forked before. Without it, what is written after the end of file
  would be lost, and the next fact would not be inductive.
- `ArriveInv`: each chunk written for an operand is in the file, in the appender's hands, or in
  the operand's pipe with the appender still to read it (`OnItsWay`). When all has ended only
  the first is left.

`ToolProofs`, for every command line. `Inv` follows `main()` from stage to stage.
- `PreorderInv` is about the nodes created *and* the strings still to be parsed: one of these
  is an operand of an operator that is still open, so the nodes are a tree in preorder after
  every call of `create_node_from_string()`, and not only at the end. `PipeInv`: a pipe has, or
  will have, two operands. It rests on `count_occurrences_of_regex()` and the splitting
  agreeing on one separator at least (`CountedFacts`).
- `CdInv`: while `apply_cd_builtin_r()` is at a node, each command has the directories of the
  cd commands that come before both it and the cursor. `CdsReachFollowers` follows when the
  cursor is at the end.
- `BuiltIsTree` and `WiredIsWired`: taking nodes away and numbering the rest anew keeps the
  preorder, and the two arguments of `wire_redirects_r()` are streams. `TreeIsBuilt` is thus
  what `ExecuteProofs`, `PlumbingProofs` and `OutputProofs` assume of a tree, but for operators
  without operands, which they exclude.
- `TimesAddUp`: `QuotientRest` says what division in C leaves, so no hour and no minute is lost
  when the clock was set back.
- `RunEvaluates`: `Outcome` looks for the first operand that decides, `Evaluation` for the
  operands that are due; `ValueSolves` shows that what the first computes solves the equation
  of the second, and `ValueIsReached`, by descent, that there is only one solution. `Outcome`
  had to follow `execute.c:466-511` to the letter for this: an `&&` that succeeds and an `||`
  that is cut short end with 0, not with the status of the operand that decided.
- `StreamsAreWired`: the streams of `wire_redirects_r()` are handed down along the tree, so the
  pipe of a node has one origin, which `OneWriter` and `OneReader` find by descent to the
  father. `OutputOf` and `InputOf` end where the handing down ends.

`WordProofs`, for every command line: `WordsAreKept`. `KeptFor` is inductive: the words of the
arguments found so far, then those of the strings still to be parsed, are those of the
command. Each call of `create_node_from_string()` gives a string of the queue away for its
pieces or for an `argv`, so it is enough that none of the functions it calls loses a word of a
string without redirects:
- `PiecesKeepWords`: between two pieces `split_string()` drops one separator and nothing else.
  For this `count_occurrences_of_regex()` must count every match (`CountedOfPlain`); it does
  not where two pipes have one character between them, which is the hypothesis of `WordsKept`.
- `BracketsAreNoWords`: outside the brackets that `remove_brackets_if_alone()` takes away there
  are only blanks.
- `ArgumentFound`: what `create_executable_from_string()` skips before, in and after the
  argument it finds are blanks and quotes, whichever alternative matches.
  `ArgumentsKeepWords` and `ArgvKeepsTexts` carry this over to the two recursive definitions,
  joined arguments included.

These are inductions over data without an induction theorem: a recursive function has a value
in its set at every position (`RecursionHasSolution`), and if a set of bad positions holds with
each position the one before it, and not the first, it is empty (`StepDown`).

`ReportProofs`, for every tree, list of options and format. A report half printed is neither
complete nor nested, and its last line has no end, so no invariant of the report alone is
inductive: `PrintingInv` is about what is written *and* the calls that are still to come.
- A `Level` is where the printing stands between two calls: the tags that are open, the node
  that comes next, the values the row has so far. `Leads` says of each call at which level it
  is due and to which it leads; the calls of the agenda are a `Chain` of such steps to the end
  of the tree. That the calls a node stands for are one (`NodeChain`) rests on the preorder:
  the subtrees of its operands follow each other without a gap (`OperandEnds`).
- `Stands`: what is written is what the level says. `Complete`: a row for each executable before
  the next node, numbered as `command_subindex` has counted, with the values it should have by
  now and nothing after it that is of an earlier one. `Table`: each line that has an end has its
  columns, the last one has two pieces less one for each value, and `previous_value` is set
  exactly if there is one. `Nested`: no tag is closed that is not open, and those of the level
  are open. One lemma for each call shows that it writes what leads from level to level
  (`CallStands`).
- At the end of the tree `ReportIsComplete`, `RowsFitHeader` and `DivsAreNested` follow.

Recursive functions of the model are used in most of these proofs, through one lemma:
`RecursionHasSolution`, that a definition in which each value depends on values of lower rank
has a solution, by descent on the rank. That it is of type follows by the same descent
(`RankDescent`).

Only model-checked, and why:
- the liveness properties `ExecuteReturns`, `EveryRunEnds`, `EndsOrLeaks`, `SafeTreesEnd`,
  with fairness and `ENABLED`, are beyond TLAPS here;
- `DiesOnlyByStrayPid` where pids are reused: a result that goes to the wrong node can start
  its operator's operands again, and of such a state nothing that is left is inductive;
  `WritersHaveReader` and `ReportsLogged` with `-s` and SIGCONT (`booking_faults`);
- `ParsesBack`: it is about the trees it is given and the text `Rendered` makes of them, and
  the tree a text stands for would have to be found again by induction over both at once.

## The plan

Done, in this order: `Execute` refining `Evaluation`; `Booking` refining `LogService`;
`Wiring` and `Plumbing`; `Parser`, `Builtin`, `Report`, and `Tool`, which composes them; the
proofs of `Execute`, `Booking`, both refinements, `Plumbing`, `Tool`, `Report` and `Parser`.

What is left to prove is `ParsesBack`, and the liveness properties.

## Not modelled

- The text of values, pages and log lines: `Report` has which value, separator and tag
  comes where, not how it is written, but for the times.
- Backslashes in a command line; regular expressions are the C library's, and
  `Parser` says what those of the program match.
- `destroy_node()`: nothing calls it.
- `syscalls_wrappers.c`: a wrapper exits with 1 when its call fails. That is part of the
  actions that call it where the failure comes from other processes or from the log: names
  and queues that others have removed or made, a redirect the parent cannot open, a write of
  the daemon that fails. Not modelled is the lack of a resource elsewhere: `pipe()` or
  `open()` without a free descriptor, a full disk under a redirect, `malloc()`. Logging.
- `fork()` failing in `daemonize()`, collisions of `ftok()` (256 pids), a `write()` that takes
  a part of its buffer.
- `src/test`, its unit tests, and `esercizi/`, course exercises that are not part of
  the program.
