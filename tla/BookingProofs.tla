---------------------------- MODULE BookingProofs ----------------------------
(***************************************************************************)
(* Proofs about Booking, for any tools, pids, inodes and FIFOs: its types, *)
(* why the daemon works while nobody stops it, why no report is lost or    *)
(* cut then, and that Booking implements LogService.                       *)
(***************************************************************************)
EXTENDS Booking, FiniteSetTheorems, SequenceTheorems, TLAPS

-----------------------------------------------------------------------------
(* Type correctness needs to know which fields mean something in which     *)
(* control state.                                                          *)

\* A tool has a FIFO open, or is blocked on it, in these states only; the pid it
\* has read is a pid; the id of its queue is valid until the queue is removed.
ToolOK(r, ids) ==
    /\ r.fifo # None <=> r.at \in {"opening", "write"}
    /\ r.at \in {"get_queue", "kill"} => r.daemon_pid \in Daemons
    /\ r.at = "send" /\ r.queue_id # None => r.queue_id \in ids

WithQueue ==
    {"handlers", "remove_fifo", "make_fifo", "check", "receive", "open", "opening",
     "copy", "finalize"}

\* A daemon has its own queue, which no other daemon can remove, and serves a tool
\* whenever it has to do with the FIFO.
DaemonOK(d, r, ids) ==
    /\ r.fifo # None <=> r.at \in {"opening", "copy"}
    /\ r.lock_fd # None <=> r.at \notin {"none", "open_lock"}
    /\ r.at \in WithQueue => r.queue_id \in ids /\ r.queue_id[2] = d
    /\ r.at \in {"open", "opening", "copy"} => r.serving \in Tools

ToolInv ==
    /\ tool \in [Users -> ToolRecords]
    /\ \A u \in Users : ToolOK(tool[u], DOMAIN queue)

DaemonInv ==
    /\ daemon \in [Daemons -> DaemonRecords]
    /\ \A d \in Daemons : DaemonOK(d, daemon[d], DOMAIN queue)

FileInv ==
    /\ lock_file \in Inodes \cup {None}
    /\ stats_fifo \in Fifos \cup {None}
    /\ DOMAIN queue \subseteq QueueIds
    /\ queue \in [DOMAIN queue -> Seq(Tools)]
    /\ \A id \in DOMAIN queue : Len(queue[id]) <= QueueSize
    /\ pipe \in [Fifos -> Seq(Tools)]
    /\ log \in Seq([file : LogFiles, writer : Tools])
    /\ cut \subseteq Tools

TypeInv == ToolInv /\ DaemonInv /\ FileInv

LEMMA NewRecords ==
    /\ NewTool \in ToolRecords
    /\ NoDaemon \in DaemonRecords
    /\ \A ids : ToolOK(NewTool, ids)
    /\ \A d, ids : DaemonOK(d, NoDaemon, ids)
<1>1. NewTool \in ToolRecords
  BY BoundsAssumption DEF NewTool, ToolRecords, ToolStates
<1>2. NoDaemon \in DaemonRecords
  BY DEF NoDaemon, DaemonRecords, DaemonStates
<1> QED BY <1>1, <1>2 DEF ToolOK, DaemonOK, NewTool, NoDaemon, WithQueue

LEMMA EndedTool ==
    ASSUME NEW s \in {"done", "failed"}
    PROVE  Ended(s) \in ToolRecords /\ \A ids : ToolOK(Ended(s), ids)
<1>1. NewTool \in ToolRecords /\ s \in ToolStates /\ 0 \in 0..Chunks
  BY NewRecords, BoundsAssumption DEF ToolStates
<1>2. Ended(s) \in ToolRecords
  BY <1>1 DEF Ended, ToolRecords
<1>3. Ended(s).at = s /\ Ended(s).fifo = None
  BY <1>1 DEF Ended, ToolRecords, NewTool
<1> QED BY <1>2, <1>3 DEF ToolOK

\* A step that changes one tool and removes no queue.
LEMMA ToolStep ==
    ASSUME ToolInv, NEW u \in Users, NEW r \in ToolRecords,
           tool' = [tool EXCEPT ![u] = r], ToolOK(r, DOMAIN queue'),
           DOMAIN queue \subseteq DOMAIN queue'
    PROVE  ToolInv'
<1>1. tool' \in [Users -> ToolRecords]
  BY DEF ToolInv
<1>2. ASSUME NEW v \in Users PROVE ToolOK(tool'[v], DOMAIN queue')
  <2>1. CASE v = u
    BY <2>1 DEF ToolInv
  <2>2. CASE v # u
    <3>1. tool'[v] = tool[v] /\ ToolOK(tool[v], DOMAIN queue)
      BY <2>2 DEF ToolInv
    <3> QED BY <3>1 DEF ToolOK
  <2> QED BY <2>1, <2>2
<1> QED BY <1>1, <1>2 DEF ToolInv

LEMMA ToolsSame ==
    ASSUME ToolInv, UNCHANGED tool, DOMAIN queue \subseteq DOMAIN queue'
    PROVE  ToolInv'
  BY DEF ToolInv, ToolOK

\* A step that changes one daemon and removes no queue but its own.
LEMMA DaemonStep ==
    ASSUME DaemonInv, NEW d \in Daemons, NEW r \in DaemonRecords,
           daemon' = [daemon EXCEPT ![d] = r], DaemonOK(d, r, DOMAIN queue'),
           \A id \in DOMAIN queue : id[2] # d => id \in DOMAIN queue'
    PROVE  DaemonInv'
<1>1. daemon' \in [Daemons -> DaemonRecords]
  BY DEF DaemonInv
<1>2. ASSUME NEW e \in Daemons PROVE DaemonOK(e, daemon'[e], DOMAIN queue')
  <2>1. CASE e = d
    BY <2>1 DEF DaemonInv
  <2>2. CASE e # d
    <3>1. daemon'[e] = daemon[e] /\ DaemonOK(e, daemon[e], DOMAIN queue)
      BY <2>2 DEF DaemonInv
    <3> QED BY <2>2, <3>1 DEF DaemonOK
  <2> QED BY <2>1, <2>2
<1> QED BY <1>1, <1>2 DEF DaemonInv

LEMMA DaemonsSame ==
    ASSUME DaemonInv, UNCHANGED daemon, DOMAIN queue \subseteq DOMAIN queue'
    PROVE  DaemonInv'
  BY DEF DaemonInv, DaemonOK

LEMMA QueueOpened ==
    ASSUME FileInv, NEW id \in QueueIds, OpenQueue(id)
    PROVE  /\ DOMAIN queue' = DOMAIN queue \cup {id}
           /\ DOMAIN queue' \subseteq QueueIds
           /\ queue' \in [DOMAIN queue' -> Seq(Tools)]
           /\ \A q \in DOMAIN queue' : Len(queue'[q]) <= QueueSize
<1>1. CASE id \in DOMAIN queue
  BY <1>1 DEF OpenQueue, FileInv
<1>2. CASE id \notin DOMAIN queue
  <2>1. queue' = [q \in DOMAIN queue \cup {id} |-> IF q = id THEN <<>> ELSE queue[q]]
    BY <1>2 DEF OpenQueue
  <2>2. DOMAIN queue' = DOMAIN queue \cup {id}
    BY <2>1
  <2>3. \A q \in DOMAIN queue' : queue'[q] \in Seq(Tools) /\ Len(queue'[q]) <= QueueSize
    BY <2>1, BoundsAssumption DEF FileInv
  <2> QED BY <2>1, <2>2, <2>3 DEF FileInv
<1> QED BY <1>1, <1>2

LEMMA TypeInit == Init => TypeInv
<1> SUFFICES ASSUME Init PROVE TypeInv
  OBVIOUS
<1>1. ToolInv /\ DaemonInv
  BY NewRecords DEF Init, ToolInv, DaemonInv
<1>2. FileInv
  BY DEF Init, FileInv
<1> QED BY <1>1, <1>2 DEF TypeInv

LEMMA DaemonStarted ==
    ASSUME TypeInv, StartDaemon, UNCHANGED queue
    PROVE  DaemonInv'
<1>1. PICK d \in FreeDaemons : daemon' = [daemon EXCEPT ![d].at = "open_lock"]
  BY DEF StartDaemon
<1> DEFINE r == [daemon[d] EXCEPT !.at = "open_lock"]
<1>2. d \in Daemons /\ daemon[d] \in DaemonRecords /\ daemon[d].at = "none"
  BY <1>1 DEF FreeDaemons, Live, TypeInv, DaemonInv
<1>3. r \in DaemonRecords /\ DaemonOK(d, r, DOMAIN queue)
  <2>1. r \in DaemonRecords
    BY <1>2 DEF DaemonRecords, DaemonStates
  <2>2. DaemonOK(d, daemon[d], DOMAIN queue)
    BY <1>2 DEF TypeInv, DaemonInv
  <2>3. r.at = "open_lock" /\ r.fifo = daemon[d].fifo /\ r.lock_fd = daemon[d].lock_fd
    BY <1>2 DEF DaemonRecords
  <2> QED BY <1>2, <2>1, <2>2, <2>3 DEF DaemonOK, WithQueue
<1>4. daemon' = [daemon EXCEPT ![d] = r]
  BY <1>1, <1>2 DEF TypeInv, DaemonInv
<1> HIDE DEF r
<1> QED BY <1>2, <1>3, <1>4, DaemonStep DEF TypeInv

\* The steps of a tool that change no shared object.
LEMMA LocalToolStep ==
    ASSUME TypeInv, NEW u \in Users, NEW r \in ToolRecords,
           tool' = [tool EXCEPT ![u] = r], ToolOK(r, DOMAIN queue),
           UNCHANGED <<daemon, lock_file, stats_fifo, queue, pipe, log, cut>>
    PROVE  TypeInv'
<1>1. ToolInv'
  BY ToolStep DEF TypeInv
<1>2. DaemonInv' /\ FileInv'
  BY DaemonsSame DEF TypeInv, FileInv
<1> QED BY <1>1, <1>2 DEF TypeInv

LEMMA TypeRunCommand == ASSUME TypeInv, NEW t \in Tools, RunCommand(t) PROVE TypeInv'
<1> DEFINE r == [tool[t] EXCEPT !.at = "find"]
<1>1. t \in Users /\ tool[t] \in ToolRecords /\ ToolOK(tool[t], DOMAIN queue) /\ tool[t].at = "start"
  BY DEF RunCommand, Users, TypeInv, ToolInv
<1>2. r \in ToolRecords /\ ToolOK(r, DOMAIN queue)
  BY <1>1 DEF ToolRecords, ToolStates, ToolOK
<1>3. tool' = [tool EXCEPT ![t] = r]
  BY <1>1 DEF RunCommand, TypeInv, ToolInv
<1> HIDE DEF r
<1>4. ToolInv'
  BY <1>1, <1>2, <1>3, ToolStep DEF TypeInv, RunCommand
<1>5. DaemonInv' /\ FileInv'
  BY DaemonStarted DEF TypeInv, FileInv, RunCommand
<1> QED BY <1>4, <1>5 DEF TypeInv

LEMMA TypeRunStop == ASSUME TypeInv, NEW s \in Stoppers, RunStop(s) PROVE TypeInv'
<1> DEFINE r == [tool[s] EXCEPT !.at = "probe"]
<1>1. s \in Users /\ tool[s] \in ToolRecords /\ ToolOK(tool[s], DOMAIN queue) /\ tool[s].at = "start"
  BY DEF RunStop, Users, TypeInv, ToolInv
<1>2. r \in ToolRecords /\ ToolOK(r, DOMAIN queue)
  BY <1>1 DEF ToolRecords, ToolStates, ToolOK
<1>3. tool' = [tool EXCEPT ![s] = r]
  BY <1>1 DEF RunStop, TypeInv, ToolInv
<1> HIDE DEF r
<1> QED BY <1>1, <1>2, <1>3, LocalToolStep DEF RunStop

LEMMA TypeOpenLockFile == ASSUME TypeInv, NEW u \in Users, OpenLockFile(u) PROVE TypeInv'
<1> DEFINE r == [tool[u] EXCEPT !.lock_fd = lock_file]
<1>1. tool[u] \in ToolRecords /\ ToolOK(tool[u], DOMAIN queue) /\ tool[u].at \in {"probe", "find"}
  BY DEF OpenLockFile, TypeInv, ToolInv
<1>2. r \in ToolRecords /\ r.at = tool[u].at /\ r.fifo = tool[u].fifo
  BY <1>1 DEF ToolRecords, TypeInv, FileInv
<1>3. tool' = [tool EXCEPT ![u] = r]
  BY <1>1 DEF OpenLockFile, TypeInv, ToolInv
<1> HIDE DEF r
<1>4. ToolOK(r, DOMAIN queue)
  BY <1>1, <1>2 DEF ToolOK
<1> QED BY <1>2, <1>3, <1>4, LocalToolStep DEF OpenLockFile

\* What a tool that has read the pid of a daemon does with it.
LEMMA PidRead ==
    ASSUME TypeInv, NEW u \in Users, ReadDaemonPid(u)
    PROVE  \E at \in {"find", "get_queue", "kill"}, pid \in Daemons \cup {None} :
             /\ at # "find" => pid \in Daemons
             /\ at = "kill" => u \notin Tools
             /\ tool' = [tool EXCEPT ![u] =
                  [tool[u] EXCEPT !.at = at, !.daemon_pid = pid, !.tries = 0, !.attempts = 0,
                                  !.spoiled = FALSE, !.lock_fd = None]]
<1>1. PICK d \in Holders(tool[u].lock_fd) :
        tool' = [tool EXCEPT
           ![u].at = IF tool[u].at = "probe" THEN "find"
                     ELSE IF u \in Tools THEN "get_queue" ELSE "kill",
           ![u].daemon_pid = IF tool[u].at = "probe" THEN None ELSE d,
           ![u].tries = 0, ![u].attempts = 0, ![u].spoiled = FALSE,
           ![u].lock_fd = None]
  BY Zenon DEF ReadDaemonPid
<1> DEFINE at == IF tool[u].at = "probe" THEN "find" ELSE IF u \in Tools THEN "get_queue" ELSE "kill"
           pid == IF tool[u].at = "probe" THEN None ELSE d
<1>2. at \in {"find", "get_queue", "kill"} /\ pid \in Daemons \cup {None}
  BY DEF Holders
<1>3. (at # "find" => pid \in Daemons) /\ (at = "kill" => u \notin Tools)
  BY DEF Holders
<1>4. tool' = [tool EXCEPT ![u] =
        [tool[u] EXCEPT !.at = at, !.daemon_pid = pid, !.tries = 0, !.attempts = 0,
                        !.spoiled = FALSE, !.lock_fd = None]]
  BY <1>1 DEF TypeInv, ToolInv
<1> HIDE DEF at, pid
<1> QED BY Zenon, <1>2, <1>3, <1>4

LEMMA TypeReadDaemonPid == ASSUME TypeInv, NEW u \in Users, ReadDaemonPid(u) PROVE TypeInv'
<1>1. PICK at \in {"find", "get_queue", "kill"}, pid \in Daemons \cup {None} :
        /\ at # "find" => pid \in Daemons
        /\ tool' = [tool EXCEPT ![u] =
             [tool[u] EXCEPT !.at = at, !.daemon_pid = pid, !.tries = 0, !.attempts = 0,
                             !.spoiled = FALSE, !.lock_fd = None]]
  BY Zenon, PidRead
<1> DEFINE r == [tool[u] EXCEPT !.at = at, !.daemon_pid = pid, !.tries = 0, !.attempts = 0,
                                !.spoiled = FALSE, !.lock_fd = None]
<1>2. tool[u] \in ToolRecords /\ ToolOK(tool[u], DOMAIN queue) /\ tool[u].at \in {"probe", "find"}
  BY DEF ReadDaemonPid, TypeInv, ToolInv
<1>3. at \in ToolStates /\ 0 \in 0..(MaxAttempts - 1)
  BY BoundsAssumption DEF ToolStates
<1>4. r \in ToolRecords /\ r.at = at /\ r.daemon_pid = pid /\ r.fifo = tool[u].fifo
  BY <1>2, <1>3 DEF ToolRecords
<1>5. tool' = [tool EXCEPT ![u] = r]
  BY <1>1
<1> HIDE DEF r
<1>6. ToolOK(r, DOMAIN queue)
  BY <1>1, <1>2, <1>4 DEF ToolOK
<1> QED BY <1>4, <1>5, <1>6, LocalToolStep DEF ReadDaemonPid

LEMMA TypeAttemptFails == ASSUME TypeInv, NEW u \in Users, AttemptFails(u) PROVE TypeInv'
<1> DEFINE spoiled == tool[u].spoiled \/ tool[u].lock_fd # None
           r == [tool[u] EXCEPT !.attempts = @ + 1, !.spoiled = spoiled, !.lock_fd = None]
<1>1. tool[u] \in ToolRecords /\ ToolOK(tool[u], DOMAIN queue) /\ tool[u].at \in {"probe", "find"}
  BY DEF AttemptFails, TypeInv, ToolInv
<1>2. tool[u].attempts + 1 \in 0..(MaxAttempts - 1)
  BY <1>1, BoundsAssumption DEF AttemptFails, ToolRecords
<1>3. spoiled \in BOOLEAN
  OBVIOUS
<1>4. tool' = [tool EXCEPT ![u] = r]
  BY <1>1 DEF AttemptFails, TypeInv, ToolInv
<1> HIDE DEF spoiled
<1>5. r \in ToolRecords /\ r.at = tool[u].at /\ r.fifo = tool[u].fifo
  BY <1>1, <1>2, <1>3 DEF ToolRecords
<1> HIDE DEF r
<1>6. ToolOK(r, DOMAIN queue)
  BY <1>1, <1>5 DEF ToolOK
<1> QED BY <1>4, <1>5, <1>6, LocalToolStep DEF AttemptFails

LEMMA TypeTryFails == ASSUME TypeInv, NEW u \in Users, TryFails(u) PROVE TypeInv'
<1> DEFINE r == [tool[u] EXCEPT !.tries = @ + 1, !.attempts = 0, !.spoiled = FALSE,
                               !.lock_fd = None]
<1>1. tool[u] \in ToolRecords /\ ToolOK(tool[u], DOMAIN queue) /\ tool[u].at = "find"
  BY DEF TryFails, TypeInv, ToolInv
<1>2. tool[u].tries + 1 \in 0..(MaxAttempts - 1) /\ 0 \in 0..(MaxAttempts - 1)
  BY <1>1, BoundsAssumption DEF TryFails, ToolRecords
<1>3. tool' = [tool EXCEPT ![u] = r]
  BY <1>1 DEF TryFails, TypeInv, ToolInv
<1>4. r \in ToolRecords /\ r.at = tool[u].at /\ r.fifo = tool[u].fifo
  BY <1>1, <1>2 DEF ToolRecords
<1> HIDE DEF r
<1>5. ToolInv'
  BY <1>1, <1>3, <1>4, ToolStep DEF TypeInv, TryFails, ToolOK
<1>6. DaemonInv' /\ FileInv'
  BY DaemonStarted DEF TypeInv, FileInv, TryFails
<1> QED BY <1>5, <1>6 DEF TypeInv

LEMMA LeftByType ==
    ASSUME NEW p, NEW held \in [Fifos -> Seq(Tools)]
    PROVE  LeftBy(p, held) \in [Fifos -> Seq(Tools)]
  BY DEF LeftBy

LEMMA TypeToolEnds ==
    ASSUME TypeInv, NEW u \in Users, NEW s \in {"done", "failed"},
           tool' = [tool EXCEPT ![u] = Ended(s)],
           UNCHANGED pipe \/ pipe' = LeftBy(u, pipe),
           UNCHANGED <<daemon, lock_file, stats_fifo, queue, log, cut>>
    PROVE  TypeInv'
<1>1. ToolInv'
  BY EndedTool, ToolStep DEF TypeInv
<1>2. pipe' \in [Fifos -> Seq(Tools)]
  BY LeftByType DEF TypeInv, FileInv
<1> QED BY <1>1, <1>2, DaemonsSame DEF TypeInv, FileInv

LEMMA TypeGiveUp == ASSUME TypeInv, NEW u \in Users, GiveUp(u) PROVE TypeInv'
  BY TypeToolEnds DEF GiveUp

LEMMA TypeGetQueue == ASSUME TypeInv, NEW t \in Tools, GetQueue(t) PROVE TypeInv'
<1>1. t \in Users /\ tool[t] \in ToolRecords /\ ToolOK(tool[t], DOMAIN queue) /\ tool[t].at = "get_queue"
  BY DEF GetQueue, Users, TypeInv, ToolInv
<1>2. CASE lock_file = None
  BY <1>1, <1>2, TypeToolEnds DEF GetQueue
<1>3. CASE lock_file # None
  <2> DEFINE id == <<lock_file, tool[t].daemon_pid>>
             r == [tool[t] EXCEPT !.at = "send", !.queue_id = id]
  <2>1. id \in QueueIds
    BY <1>1, <1>3 DEF ToolOK, TypeInv, FileInv, QueueIds
  <2>2. OpenQueue(id) /\ tool' = [tool EXCEPT ![t] = r]
    BY <1>1, <1>3 DEF GetQueue, TypeInv, ToolInv
  <2> HIDE DEF id
  <2>3. r \in ToolRecords /\ r.at = "send" /\ r.fifo = tool[t].fifo /\ r.queue_id = id
    BY <1>1, <2>1 DEF ToolRecords, ToolStates
  <2> HIDE DEF r
  <2>4. /\ DOMAIN queue' = DOMAIN queue \cup {id} /\ DOMAIN queue' \subseteq QueueIds
        /\ queue' \in [DOMAIN queue' -> Seq(Tools)]
        /\ \A q \in DOMAIN queue' : Len(queue'[q]) <= QueueSize
    BY <2>1, <2>2, QueueOpened DEF TypeInv
  <2>5. ToolOK(r, DOMAIN queue')
    BY <1>1, <2>3, <2>4 DEF ToolOK
  <2>6. ToolInv'
    BY <1>1, <2>2, <2>3, <2>4, <2>5, ToolStep DEF TypeInv
  <2>7. DaemonInv'
    BY <2>4, DaemonsSame DEF TypeInv, GetQueue
  <2>8. FileInv'
    BY <2>4 DEF TypeInv, FileInv, GetQueue
  <2> QED BY <2>6, <2>7, <2>8 DEF TypeInv
<1> QED BY <1>2, <1>3

LEMMA TypeSend == ASSUME TypeInv, NEW t \in Tools, Send(t) PROVE TypeInv'
<1> DEFINE id == tool[t].queue_id
<1>1. t \in Users /\ tool[t] \in ToolRecords /\ ToolOK(tool[t], DOMAIN queue) /\ tool[t].at = "send"
  BY DEF Send, Users, TypeInv, ToolInv
<1>2. CASE id = None
  BY <1>1, <1>2, TypeToolEnds DEF Send
<1>3. CASE id # None
  <2> DEFINE r == [tool[t] EXCEPT !.at = "wait"]
  <2>1. id \in DOMAIN queue
    BY <1>1, <1>3 DEF ToolOK
  <2>2. /\ Len(queue[id]) < QueueSize
        /\ queue' = [queue EXCEPT ![id] = Append(@, t)]
        /\ tool' = [tool EXCEPT ![t] = r]
    BY <1>1, <1>3 DEF Send, TypeInv, ToolInv
  <2> HIDE DEF id
  <2>3. queue[id] \in Seq(Tools) /\ queue \in [DOMAIN queue -> Seq(Tools)]
    BY <2>1 DEF TypeInv, FileInv
  <2>4. Append(queue[id], t) \in Seq(Tools) /\ Len(Append(queue[id], t)) = Len(queue[id]) + 1 /\ Len(queue[id]) \in Nat
    BY <2>3
  <2>5. FileInv'
    BY <2>1, <2>2, <2>3, <2>4, BoundsAssumption DEF TypeInv, FileInv, Send
  <2>6. r \in ToolRecords /\ ToolOK(r, DOMAIN queue)
    BY <1>1 DEF ToolRecords, ToolStates, ToolOK
  <2> HIDE DEF r
  <2>7. DOMAIN queue' = DOMAIN queue
    BY <2>2
  <2>8. ToolInv'
    BY <1>1, <2>2, <2>6, <2>7, ToolStep DEF TypeInv
  <2>9. DaemonInv'
    BY <2>7, DaemonsSame DEF TypeInv, Send
  <2> QED BY <2>5, <2>8, <2>9 DEF TypeInv
<1> QED BY <1>2, <1>3

LEMMA TypeConfirmed == ASSUME TypeInv, NEW t \in Tools, Confirmed(t) PROVE TypeInv'
<1>1. t \in Users /\ tool[t] \in ToolRecords /\ ToolOK(tool[t], DOMAIN queue) /\ tool[t].at = "wait"
  BY DEF Confirmed, Users, TypeInv, ToolInv
<1>2. CASE tool' = [tool EXCEPT ![t].at = "open"]
  <2> DEFINE r == [tool[t] EXCEPT !.at = "open"]
  <2>1. r \in ToolRecords /\ ToolOK(r, DOMAIN queue)
    BY <1>1 DEF ToolRecords, ToolStates, ToolOK
  <2>2. tool' = [tool EXCEPT ![t] = r]
    BY <1>1, <1>2 DEF TypeInv, ToolInv
  <2> HIDE DEF r
  <2> QED BY <1>1, <2>1, <2>2, LocalToolStep DEF Confirmed
<1>3. CASE tool' = [tool EXCEPT ![t] = Ended("failed")]
  BY <1>1, <1>3, TypeToolEnds DEF Confirmed
<1> QED BY <1>2, <1>3 DEF Confirmed

LEMMA TypeWrite == ASSUME TypeInv, NEW t \in Tools, Write(t) PROVE TypeInv'
<1>1. /\ t \in Users /\ tool[t] \in ToolRecords /\ ToolOK(tool[t], DOMAIN queue)
      /\ tool[t].at = "write" /\ tool[t].left > 0
  BY DEF Write, Users, TypeInv, ToolInv
<1>2. CASE Readers(tool[t].fifo) = {}
  BY <1>1, <1>2, TypeToolEnds DEF Write
<1>3. CASE Readers(tool[t].fifo) # {}
  <2> DEFINE r == [tool[t] EXCEPT !.left = @ - 1]
             f == tool[t].fifo
  <2>1. tool[t].left - 1 \in 0..Chunks
    BY <1>1, BoundsAssumption DEF ToolRecords
  <2>2. r \in ToolRecords /\ ToolOK(r, DOMAIN queue)
    <3>1. r \in ToolRecords /\ r.at = tool[t].at /\ r.fifo = tool[t].fifo
      BY <1>1, <2>1 DEF ToolRecords
    <3> QED BY <1>1, <3>1 DEF ToolOK
  <2>3. tool' = [tool EXCEPT ![t] = r] /\ pipe' = [pipe EXCEPT ![f] = Append(@, t)]
    BY <1>1, <1>3 DEF Write, TypeInv, ToolInv
  <2>4. f \in Fifos
    BY <1>1 DEF ToolOK, ToolRecords
  <2> HIDE DEF r, f
  <2>5. pipe' \in [Fifos -> Seq(Tools)]
    BY <2>3, <2>4 DEF TypeInv, FileInv
  <2>6. ToolInv'
    BY <1>1, <2>2, <2>3, ToolStep DEF TypeInv, Write
  <2> QED BY <2>5, <2>6, DaemonsSame DEF TypeInv, FileInv, Write
<1> QED BY <1>2, <1>3

LEMMA TypeResumed == ASSUME TypeInv, NEW t \in Tools, Resumed(t) PROVE TypeInv'
<1> DEFINE r == [tool[t] EXCEPT !.response = "granted"]
<1>1. t \in Users /\ tool[t] \in ToolRecords /\ ToolOK(tool[t], DOMAIN queue)
  BY DEF Resumed, Users, TypeInv, ToolInv
<1>2. r \in ToolRecords /\ ToolOK(r, DOMAIN queue)
  <2>1. /\ r \in ToolRecords /\ r.at = tool[t].at /\ r.fifo = tool[t].fifo
        /\ r.daemon_pid = tool[t].daemon_pid /\ r.queue_id = tool[t].queue_id
    BY <1>1 DEF ToolRecords
  <2> QED BY <1>1, <2>1 DEF ToolOK
<1>3. tool' = [tool EXCEPT ![t] = r]
  BY <1>1 DEF Resumed, TypeInv, ToolInv
<1> HIDE DEF r
<1> QED BY <1>1, <1>2, <1>3, LocalToolStep DEF Resumed

LEMMA TypeOpenFifoToWrite == ASSUME TypeInv, NEW t \in Tools, OpenFifoToWrite(t) PROVE TypeInv'
<1>1. t \in Users /\ tool[t] \in ToolRecords /\ ToolOK(tool[t], DOMAIN queue) /\ tool[t].at = "open"
  BY DEF OpenFifoToWrite, Users, TypeInv, ToolInv
<1>2. CASE stats_fifo = None
  BY <1>1, <1>2, TypeToolEnds DEF OpenFifoToWrite
<1>3. CASE stats_fifo # None
  <2> DEFINE readers == Readers(stats_fifo)
             at == IF readers = {} THEN "opening" ELSE "write"
             r == [tool[t] EXCEPT !.at = at, !.fifo = stats_fifo]
  <2>1. at \in {"opening", "write"} /\ at \in ToolStates /\ stats_fifo \in Fifos
    BY <1>3 DEF ToolStates, TypeInv, FileInv
  <2>2. /\ tool' = [tool EXCEPT ![t] = r]
        /\ daemon' = [d \in Daemons |->
                        IF d \in readers THEN [daemon[d] EXCEPT !.at = "copy"] ELSE daemon[d]]
    BY <1>1, <1>3 DEF OpenFifoToWrite, TypeInv, ToolInv
  <2>3. r \in ToolRecords /\ r.at = at /\ r.fifo = stats_fifo
    BY <1>1, <2>1 DEF ToolRecords
  <2>4. ToolOK(r, DOMAIN queue)
    BY <1>3, <2>1, <2>3 DEF ToolOK
  <2> HIDE DEF r
  <2>5. ToolInv'
    BY <1>1, <2>2, <2>3, <2>4, ToolStep DEF TypeInv, OpenFifoToWrite
  <2>6. ASSUME NEW d \in Daemons
        PROVE  daemon'[d] \in DaemonRecords /\ DaemonOK(d, daemon'[d], DOMAIN queue)
    <3>1. daemon[d] \in DaemonRecords /\ DaemonOK(d, daemon[d], DOMAIN queue)
      BY DEF TypeInv, DaemonInv
    <3>2. CASE d \in readers
      <4> DEFINE q == [daemon[d] EXCEPT !.at = "copy"]
      <4>1. /\ q \in DaemonRecords /\ q.at = "copy" /\ q.fifo = daemon[d].fifo
            /\ q.lock_fd = daemon[d].lock_fd /\ q.queue_id = daemon[d].queue_id
            /\ q.serving = daemon[d].serving
        BY <3>1 DEF DaemonRecords, DaemonStates
      <4>2. daemon'[d] = q
        BY <2>2, <3>2
      <4>3. daemon[d].at \in {"opening", "copy"}
        BY <1>3, <3>1, <3>2 DEF DaemonOK, Readers
      <4> HIDE DEF q
      <4> QED BY <3>1, <4>1, <4>2, <4>3 DEF DaemonOK, WithQueue
    <3>3. CASE d \notin readers
      BY <2>2, <3>1, <3>3
    <3> QED BY <3>2, <3>3
  <2>7. DaemonInv'
    BY <2>2, <2>6 DEF DaemonInv, OpenFifoToWrite
  <2> QED BY <2>5, <2>7 DEF TypeInv, FileInv, OpenFifoToWrite
<1> QED BY <1>2, <1>3

LEMMA TypeCloseReport == ASSUME TypeInv, NEW t \in Tools, CloseReport(t) PROVE TypeInv'
  BY TypeToolEnds DEF CloseReport, Users

LEMMA TypeToolDies == ASSUME TypeInv, NEW u \in Users, ToolDies(u) PROVE TypeInv'
  BY TypeToolEnds DEF ToolDies

LEMMA DaemonEnds ==
    ASSUME TypeInv, NEW d \in Daemons, daemon' = [daemon EXCEPT ![d] = NoDaemon],
           DOMAIN queue \subseteq DOMAIN queue'
    PROVE  DaemonInv'
  BY NewRecords, DaemonStep DEF TypeInv

LEMMA TypeStopDaemon == ASSUME TypeInv, NEW s \in Stoppers, StopDaemon(s) PROVE TypeInv'
<1> DEFINE d == tool[s].daemon_pid
<1>1. s \in Users /\ ToolOK(tool[s], DOMAIN queue) /\ tool[s].at = "kill"
  BY DEF StopDaemon, Users, TypeInv, ToolInv
<1>2. CASE ~Live(d)
  BY <1>1, <1>2, TypeToolEnds DEF StopDaemon
<1>3. CASE Live(d)
  <2>1. Interrupt(d) /\ tool' = [tool EXCEPT ![s] = Ended("done")]
    BY <1>3 DEF StopDaemon
  <2>2. d \in Daemons
    BY <1>1 DEF ToolOK
  <2> HIDE DEF d
  <2>3. daemon[d] \in DaemonRecords /\ DaemonOK(d, daemon[d], DOMAIN queue)
    BY <2>2 DEF TypeInv, DaemonInv
  <2>4. ToolInv'
    BY <1>1, <2>1, EndedTool, ToolStep DEF TypeInv, StopDaemon
  <2>5. DaemonInv'
    <3>1. CASE daemon' = [daemon EXCEPT ![d] = NoDaemon]
      BY <2>2, <3>1, DaemonEnds DEF StopDaemon
    <3>2. CASE /\ daemon[d].at = "receive"
               /\ daemon' = [daemon EXCEPT ![d].interrupted = TRUE, ![d].at = "check"]
      <4> DEFINE r == [daemon[d] EXCEPT !.interrupted = TRUE, !.at = "check"]
      <4>1. /\ r \in DaemonRecords /\ r.at = "check" /\ r.fifo = daemon[d].fifo
            /\ r.lock_fd = daemon[d].lock_fd /\ r.queue_id = daemon[d].queue_id
        BY <2>3 DEF DaemonRecords, DaemonStates
      <4>2. daemon' = [daemon EXCEPT ![d] = r]
        BY <2>2, <3>2 DEF TypeInv, DaemonInv
      <4> HIDE DEF r
      <4>3. DaemonOK(d, r, DOMAIN queue)
        BY <2>3, <3>2, <4>1 DEF DaemonOK, WithQueue
      <4> QED BY <2>2, <4>1, <4>2, <4>3, DaemonStep DEF TypeInv, StopDaemon
    <3>3. CASE daemon' = [daemon EXCEPT ![d].interrupted = TRUE]
      <4> DEFINE r == [daemon[d] EXCEPT !.interrupted = TRUE]
      <4>1. /\ r \in DaemonRecords /\ r.at = daemon[d].at /\ r.fifo = daemon[d].fifo
            /\ r.lock_fd = daemon[d].lock_fd /\ r.queue_id = daemon[d].queue_id
            /\ r.serving = daemon[d].serving
        BY <2>3 DEF DaemonRecords
      <4>2. daemon' = [daemon EXCEPT ![d] = r]
        BY <2>2, <3>3 DEF TypeInv, DaemonInv
      <4> HIDE DEF r
      <4>3. DaemonOK(d, r, DOMAIN queue)
        BY <2>3, <4>1 DEF DaemonOK, WithQueue
      <4> QED BY <2>2, <4>1, <4>2, <4>3, DaemonStep DEF TypeInv, StopDaemon
    <3> QED BY <2>1, <3>1, <3>2, <3>3 DEF Interrupt
  <2> QED BY <2>4, <2>5 DEF TypeInv, FileInv, StopDaemon
<1> QED BY <1>2, <1>3

\* The steps of a daemon on its way, with its lock, its queue and no FIFO.
LEMMA DaemonMoves ==
    ASSUME TypeInv, NEW d \in Daemons, NEW s \in WithQueue \ {"open", "opening", "copy"},
           daemon[d].at \in WithQueue \ {"open", "opening", "copy"},
           daemon' = [daemon EXCEPT ![d].at = s], DOMAIN queue \subseteq DOMAIN queue'
    PROVE  DaemonInv'
<1> DEFINE r == [daemon[d] EXCEPT !.at = s]
<1>1. daemon[d] \in DaemonRecords /\ DaemonOK(d, daemon[d], DOMAIN queue)
  BY DEF TypeInv, DaemonInv
<1>2. /\ r \in DaemonRecords /\ r.at = s /\ r.fifo = daemon[d].fifo
      /\ r.lock_fd = daemon[d].lock_fd /\ r.queue_id = daemon[d].queue_id
  BY <1>1 DEF DaemonRecords, DaemonStates, WithQueue
<1>3. daemon' = [daemon EXCEPT ![d] = r]
  BY DEF TypeInv, DaemonInv
<1> HIDE DEF r
<1>4. DaemonOK(d, r, DOMAIN queue')
  BY <1>1, <1>2 DEF DaemonOK, WithQueue
<1> QED BY <1>2, <1>3, <1>4, DaemonStep DEF TypeInv

LEMMA TypeOpenLock == ASSUME TypeInv, NEW d \in Daemons, OpenLock(d) PROVE TypeInv'
<1>1. daemon[d] \in DaemonRecords /\ DaemonOK(d, daemon[d], DOMAIN queue) /\ daemon[d].at = "open_lock"
  BY DEF OpenLock, TypeInv, DaemonInv
<1>2. PICK i \in Inodes : /\ lock_file' = i
                          /\ daemon' = [daemon EXCEPT ![d].at = "set_lock", ![d].lock_fd = i]
  BY DEF OpenLock, FreeInodes, TypeInv, FileInv
<1> DEFINE r == [daemon[d] EXCEPT !.at = "set_lock", !.lock_fd = i]
<1>3. r \in DaemonRecords /\ r.at = "set_lock" /\ r.fifo = daemon[d].fifo /\ r.lock_fd = i
  BY <1>1 DEF DaemonRecords, DaemonStates
<1>4. daemon' = [daemon EXCEPT ![d] = r]
  BY <1>2 DEF TypeInv, DaemonInv
<1> HIDE DEF r
<1>5. DaemonOK(d, r, DOMAIN queue)
  BY <1>1, <1>3, NamesAssumption DEF DaemonOK, WithQueue
<1>6. DaemonInv'
  BY <1>3, <1>4, <1>5, DaemonStep DEF TypeInv, OpenLock
<1>7. ToolInv' /\ FileInv'
  BY <1>2, ToolsSame DEF TypeInv, FileInv, OpenLock
<1> QED BY <1>6, <1>7 DEF TypeInv

LEMMA TypeSetLock == ASSUME TypeInv, NEW d \in Daemons, SetLock(d) PROVE TypeInv'
<1>1. daemon[d] \in DaemonRecords /\ DaemonOK(d, daemon[d], DOMAIN queue) /\ daemon[d].at = "set_lock"
  BY DEF SetLock, TypeInv, DaemonInv
<1>2. DaemonInv'
  <2>1. CASE daemon' = [daemon EXCEPT ![d] = NoDaemon]
    BY <2>1, DaemonEnds DEF SetLock
  <2>2. CASE daemon' = [daemon EXCEPT ![d].at = "get_queue", ![d].locked = TRUE]
    <3> DEFINE r == [daemon[d] EXCEPT !.at = "get_queue", !.locked = TRUE]
    <3>1. /\ r \in DaemonRecords /\ r.at = "get_queue" /\ r.fifo = daemon[d].fifo
          /\ r.lock_fd = daemon[d].lock_fd
      BY <1>1 DEF DaemonRecords, DaemonStates
    <3>2. daemon' = [daemon EXCEPT ![d] = r]
      BY <2>2 DEF TypeInv, DaemonInv
    <3> HIDE DEF r
    <3>3. DaemonOK(d, r, DOMAIN queue)
      BY <1>1, <3>1 DEF DaemonOK, WithQueue
    <3> QED BY <3>1, <3>2, <3>3, DaemonStep DEF TypeInv, SetLock
  <2> QED BY <2>1, <2>2 DEF SetLock
<1> QED BY <1>2, ToolsSame DEF TypeInv, FileInv, SetLock

LEMMA TypeGetDaemonQueue == ASSUME TypeInv, NEW d \in Daemons, GetDaemonQueue(d) PROVE TypeInv'
<1>1. daemon[d] \in DaemonRecords /\ DaemonOK(d, daemon[d], DOMAIN queue) /\ daemon[d].at = "get_queue"
  BY DEF GetDaemonQueue, TypeInv, DaemonInv
<1>2. CASE lock_file = None
  BY <1>2, DaemonEnds, ToolsSame DEF GetDaemonQueue, TypeInv, FileInv
<1>3. CASE lock_file # None
  <2> DEFINE id == <<lock_file, d>>
             r == [daemon[d] EXCEPT !.at = "handlers", !.queue_id = id]
  <2>1. id \in QueueIds /\ id[2] = d
    BY <1>3 DEF TypeInv, FileInv, QueueIds
  <2>2. OpenQueue(id) /\ daemon' = [daemon EXCEPT ![d] = r]
    BY <1>3 DEF GetDaemonQueue, TypeInv, DaemonInv
  <2> HIDE DEF id
  <2>3. /\ r \in DaemonRecords /\ r.at = "handlers" /\ r.fifo = daemon[d].fifo
        /\ r.lock_fd = daemon[d].lock_fd /\ r.queue_id = id
    BY <1>1, <2>1 DEF DaemonRecords, DaemonStates
  <2> HIDE DEF r
  <2>4. /\ DOMAIN queue' = DOMAIN queue \cup {id} /\ DOMAIN queue' \subseteq QueueIds
        /\ queue' \in [DOMAIN queue' -> Seq(Tools)]
        /\ \A q \in DOMAIN queue' : Len(queue'[q]) <= QueueSize
    BY <2>1, <2>2, QueueOpened DEF TypeInv
  <2>5. DaemonOK(d, r, DOMAIN queue')
    BY <1>1, <2>1, <2>3, <2>4 DEF DaemonOK, WithQueue
  <2>6. DaemonInv'
    BY <2>2, <2>3, <2>4, <2>5, DaemonStep DEF TypeInv
  <2>7. ToolInv'
    BY <2>4, ToolsSame DEF TypeInv, GetDaemonQueue
  <2>8. FileInv'
    BY <2>4 DEF TypeInv, FileInv, GetDaemonQueue
  <2> QED BY <2>6, <2>7, <2>8 DEF TypeInv
<1> QED BY <1>2, <1>3

LEMMA TypeDaemonMoves ==
    ASSUME TypeInv, NEW d \in Daemons,
           \/ InstallHandlers(d) \/ RemoveFifo(d) \/ MakeFifo(d) \/ CheckInterrupt(d)
    PROVE  TypeInv'
<1>1. CASE InstallHandlers(d)
  BY <1>1, DaemonMoves, ToolsSame DEF InstallHandlers, TypeInv, FileInv, WithQueue
<1>2. CASE RemoveFifo(d)
  BY <1>2, DaemonMoves, ToolsSame DEF RemoveFifo, TypeInv, FileInv, WithQueue
<1>3. CASE MakeFifo(d)
  <2>1. CASE stats_fifo # None
    BY <1>3, <2>1, DaemonEnds, ToolsSame DEF MakeFifo, TypeInv, FileInv
  <2>2. CASE stats_fifo = None
    <3>1. /\ stats_fifo' \in Fifos /\ daemon[d].at = "make_fifo"
          /\ daemon' = [daemon EXCEPT ![d].at = "check"]
      BY <1>3, <2>2 DEF MakeFifo, FreeFifos
    <3>2. DaemonInv'
      BY <1>3, <3>1, DaemonMoves DEF MakeFifo, WithQueue
    <3> QED BY <1>3, <3>1, <3>2, ToolsSame DEF MakeFifo, TypeInv, FileInv
  <2> QED BY <2>1, <2>2
<1>4. CASE CheckInterrupt(d)
  <2>1. PICK s \in {"finalize", "receive"} : daemon' = [daemon EXCEPT ![d].at = s]
    BY <1>4 DEF CheckInterrupt
  <2>2. DaemonInv'
    BY <1>4, <2>1, DaemonMoves DEF CheckInterrupt, WithQueue
  <2> QED BY <1>4, <2>2, ToolsSame DEF CheckInterrupt, TypeInv, FileInv
<1> QED BY <1>1, <1>2, <1>3, <1>4

\* What Receive() does to the queue and to the tool that it answers.
LEMMA Received ==
    ASSUME TypeInv, NEW d \in Daemons, NEW response \in {"granted", "refused"},
           Receive(d, response)
    PROVE  /\ ToolInv' /\ DOMAIN queue' = DOMAIN queue
           /\ queue' \in [DOMAIN queue -> Seq(Tools)]
           /\ \A q \in DOMAIN queue : Len(queue'[q]) <= QueueSize
           /\ daemon[d].queue_id \in DOMAIN queue
           /\ Head(queue[daemon[d].queue_id]) \in Tools
<1> DEFINE id == daemon[d].queue_id
           t == Head(queue[id])
<1>1. daemon[d] \in DaemonRecords /\ DaemonOK(d, daemon[d], DOMAIN queue) /\ daemon[d].at = "receive"
  BY DEF Receive, TypeInv, DaemonInv
<1>2. id \in DOMAIN queue
  BY <1>1 DEF DaemonOK, WithQueue
<1>3. queue[id] \in Seq(Tools) /\ queue[id] # <<>> /\ Len(queue[id]) <= QueueSize
  BY <1>2 DEF TypeInv, FileInv, Receive
<1>4. /\ t \in Tools /\ t \in Users /\ Tail(queue[id]) \in Seq(Tools)
      /\ Len(Tail(queue[id])) = Len(queue[id]) - 1 /\ Len(queue[id]) \in Nat
  BY <1>3 DEF Users
<1>5. queue' = [queue EXCEPT ![id] = Tail(@)] /\ Answer(t, response)
  BY DEF Receive
<1> HIDE DEF id, t
<1>6. /\ DOMAIN queue' = DOMAIN queue /\ queue' \in [DOMAIN queue -> Seq(Tools)]
      /\ \A q \in DOMAIN queue : Len(queue'[q]) <= QueueSize
  BY <1>2, <1>3, <1>4, <1>5, BoundsAssumption DEF TypeInv, FileInv
<1>7. ToolInv'
  <2>1. CASE tool[t].at # "wait"
    BY <1>5, <1>6, <2>1, ToolsSame DEF Answer, TypeInv
  <2>2. CASE tool[t].at = "wait"
    <3> DEFINE r == [tool[t] EXCEPT !.response = response]
    <3>1. tool[t] \in ToolRecords /\ ToolOK(tool[t], DOMAIN queue)
      BY <1>4 DEF TypeInv, ToolInv
    <3>2. r \in ToolRecords /\ r.at = "wait" /\ r.fifo = tool[t].fifo
      BY <2>2, <3>1 DEF ToolRecords
    <3>3. tool' = [tool EXCEPT ![t] = r]
      BY <1>4, <1>5, <2>2 DEF Answer, TypeInv, ToolInv
    <3> HIDE DEF r
    <3>4. ToolOK(r, DOMAIN queue')
      BY <2>2, <3>1, <3>2 DEF ToolOK
    <3> QED BY <1>4, <1>6, <3>2, <3>3, <3>4, ToolStep DEF TypeInv
  <2> QED BY <2>1, <2>2
<1> QED BY <1>2, <1>4, <1>6, <1>7 DEF id, t

LEMMA TypeGrant == ASSUME TypeInv, NEW d \in Daemons, Grant(d) PROVE TypeInv'
<1> DEFINE t == Head(queue[daemon[d].queue_id])
           r == [daemon[d] EXCEPT !.at = "open", !.serving = t]
<1>1. /\ ToolInv' /\ DOMAIN queue' = DOMAIN queue /\ queue' \in [DOMAIN queue -> Seq(Tools)]
      /\ \A q \in DOMAIN queue : Len(queue'[q]) <= QueueSize
      /\ t \in Tools
  BY Received DEF Grant
<1>2. daemon[d] \in DaemonRecords /\ DaemonOK(d, daemon[d], DOMAIN queue) /\ daemon[d].at = "receive"
  BY DEF Grant, Receive, TypeInv, DaemonInv
<1>3. daemon' = [daemon EXCEPT ![d] = r]
  BY DEF Grant, TypeInv, DaemonInv
<1> HIDE DEF t
<1>4. /\ r \in DaemonRecords /\ r.at = "open" /\ r.fifo = daemon[d].fifo
      /\ r.lock_fd = daemon[d].lock_fd /\ r.queue_id = daemon[d].queue_id
      /\ r.serving \in Tools
  BY <1>1, <1>2 DEF DaemonRecords, DaemonStates
<1> HIDE DEF r
<1>5. DaemonOK(d, r, DOMAIN queue')
  BY <1>1, <1>2, <1>4 DEF DaemonOK, WithQueue
<1>6. DaemonInv'
  BY <1>1, <1>3, <1>4, <1>5, DaemonStep DEF TypeInv
<1> QED BY <1>1, <1>6 DEF TypeInv, FileInv, Grant

LEMMA TypeRefuse == ASSUME TypeInv, NEW d \in Daemons, Refuse(d) PROVE TypeInv'
<1>1. /\ ToolInv' /\ DOMAIN queue' = DOMAIN queue /\ queue' \in [DOMAIN queue -> Seq(Tools)]
      /\ \A q \in DOMAIN queue : Len(queue'[q]) <= QueueSize
  BY Received DEF Refuse
<1>2. DaemonInv'
  BY <1>1, DaemonMoves DEF Refuse, Receive, WithQueue
<1> QED BY <1>1, <1>2 DEF TypeInv, FileInv, Refuse

LEMMA TypeOpenFifoToRead == ASSUME TypeInv, NEW d \in Daemons, OpenFifoToRead(d) PROVE TypeInv'
<1>1. daemon[d] \in DaemonRecords /\ DaemonOK(d, daemon[d], DOMAIN queue) /\ daemon[d].at = "open"
  BY DEF OpenFifoToRead, TypeInv, DaemonInv
<1>2. CASE stats_fifo = None
  BY <1>2, DaemonEnds, ToolsSame DEF OpenFifoToRead, TypeInv, FileInv
<1>3. CASE stats_fifo # None
  <2> DEFINE writers == Writers(stats_fifo)
             at == IF writers = {} THEN "opening" ELSE "copy"
             r == [daemon[d] EXCEPT !.at = at, !.fifo = stats_fifo]
  <2>1. at \in {"opening", "copy"} /\ at \in DaemonStates /\ stats_fifo \in Fifos
    BY <1>3 DEF DaemonStates, TypeInv, FileInv
  <2>2. /\ daemon' = [daemon EXCEPT ![d] = r]
        /\ tool' = [u \in Users |->
                      IF u \in writers THEN [tool[u] EXCEPT !.at = "write"] ELSE tool[u]]
    BY <1>3 DEF OpenFifoToRead, TypeInv, DaemonInv
  <2>3. /\ r \in DaemonRecords /\ r.at = at /\ r.fifo = stats_fifo
        /\ r.lock_fd = daemon[d].lock_fd /\ r.queue_id = daemon[d].queue_id
        /\ r.serving = daemon[d].serving
    BY <1>1, <2>1 DEF DaemonRecords
  <2>4. DaemonOK(d, r, DOMAIN queue)
    BY <1>1, <1>3, <2>1, <2>3 DEF DaemonOK, WithQueue
  <2> HIDE DEF r
  <2>5. DaemonInv'
    BY <2>2, <2>3, <2>4, DaemonStep DEF TypeInv, OpenFifoToRead
  <2>6. ASSUME NEW u \in Users
        PROVE  tool'[u] \in ToolRecords /\ ToolOK(tool'[u], DOMAIN queue)
    <3>1. tool[u] \in ToolRecords /\ ToolOK(tool[u], DOMAIN queue)
      BY DEF TypeInv, ToolInv
    <3>2. CASE u \in writers
      <4> DEFINE q == [tool[u] EXCEPT !.at = "write"]
      <4>1. q \in ToolRecords /\ q.at = "write" /\ q.fifo = tool[u].fifo
        BY <3>1 DEF ToolRecords, ToolStates
      <4>2. tool'[u] = q /\ tool[u].fifo # None
        BY <1>3, <2>2, <3>2 DEF Writers
      <4> HIDE DEF q
      <4> QED BY <4>1, <4>2 DEF ToolOK
    <3>3. CASE u \notin writers
      BY <2>2, <3>1, <3>3
    <3> QED BY <3>2, <3>3
  <2>7. ToolInv'
    BY <2>2, <2>6 DEF ToolInv, OpenFifoToRead
  <2> QED BY <2>5, <2>7 DEF TypeInv, FileInv, OpenFifoToRead
<1> QED BY <1>2, <1>3

\* The FIFO of a daemon that copies, and the chunk it reads.
LEMMA ChunkRead ==
    ASSUME TypeInv, NEW d \in Daemons, daemon[d].at = "copy", pipe[daemon[d].fifo] # <<>>
    PROVE  /\ daemon[d].fifo \in Fifos /\ daemon[d].serving \in Tools
           /\ pipe[daemon[d].fifo] \in Seq(Tools)
           /\ Head(pipe[daemon[d].fifo]) \in Tools
           /\ [pipe EXCEPT ![daemon[d].fifo] = Tail(@)] \in [Fifos -> Seq(Tools)]
<1> DEFINE f == daemon[d].fifo
<1>1. f \in Fifos /\ daemon[d].serving \in Tools
  BY DEF TypeInv, DaemonInv, DaemonOK, DaemonRecords
<1>2. pipe[f] \in Seq(Tools) /\ pipe[f] # <<>> /\ pipe \in [Fifos -> Seq(Tools)]
  BY <1>1 DEF TypeInv, FileInv
<1>3. Head(pipe[f]) \in Tools /\ Tail(pipe[f]) \in Seq(Tools)
  BY <1>2
<1> HIDE DEF f
<1>4. [pipe EXCEPT ![f] = Tail(@)] \in [Fifos -> Seq(Tools)]
  BY <1>1, <1>2, <1>3
<1> QED BY <1>1, <1>2, <1>3, <1>4 DEF f

LEMMA TypeCopyChunk == ASSUME TypeInv, NEW d \in Daemons, CopyChunk(d) PROVE TypeInv'
<1> DEFINE f == daemon[d].fifo
           chunk == [file |-> LogOf[daemon[d].serving], writer |-> Head(pipe[f])]
<1>1. /\ f \in Fifos /\ daemon[d].serving \in Tools /\ Head(pipe[f]) \in Tools
      /\ [pipe EXCEPT ![f] = Tail(@)] \in [Fifos -> Seq(Tools)]
  BY ChunkRead DEF CopyChunk
<1>2. chunk \in [file : LogFiles, writer : Tools]
  BY <1>1, LogsAssumption
<1>3. log' = Append(log, chunk) /\ pipe' = [pipe EXCEPT ![f] = Tail(@)]
  BY DEF CopyChunk
<1> HIDE DEF f, chunk
<1>4. log' \in Seq([file : LogFiles, writer : Tools]) /\ pipe' \in [Fifos -> Seq(Tools)]
  BY <1>1, <1>2, <1>3 DEF TypeInv, FileInv
<1> QED BY <1>4, ToolsSame, DaemonsSame DEF CopyChunk, TypeInv, FileInv

LEMMA TypeCopyFails == ASSUME TypeInv, NEW d \in Daemons, CopyFails(d) PROVE TypeInv'
<1> DEFINE f == daemon[d].fifo
<1>1. pipe[f] \in Seq(Tools) /\ [pipe EXCEPT ![f] = Tail(@)] \in [Fifos -> Seq(Tools)]
  BY ChunkRead DEF CopyFails
<1>2. pipe' = LeftBy(d, [pipe EXCEPT ![f] = Tail(@)])
  BY DEF CopyFails
<1>3. \A i \in DOMAIN pipe[f] : pipe[f][i] \in Tools
  BY <1>1
<1>4. cut' \subseteq Tools
  BY <1>3 DEF CopyFails, Writers, TypeInv, FileInv
<1> HIDE DEF f
<1>5. pipe' \in [Fifos -> Seq(Tools)]
  BY <1>1, <1>2, LeftByType
<1>6. DaemonInv'
  BY DaemonEnds DEF CopyFails
<1> QED BY <1>4, <1>5, <1>6, ToolsSame DEF CopyFails, TypeInv, FileInv

LEMMA TypeEndOfReport == ASSUME TypeInv, NEW d \in Daemons, EndOfReport(d) PROVE TypeInv'
<1> DEFINE r == [daemon[d] EXCEPT !.at = "check", !.serving = None, !.fifo = None]
<1>1. daemon[d] \in DaemonRecords /\ DaemonOK(d, daemon[d], DOMAIN queue) /\ daemon[d].at = "copy"
  BY DEF EndOfReport, TypeInv, DaemonInv
<1>2. daemon' = [daemon EXCEPT ![d] = r]
  BY DEF EndOfReport, TypeInv, DaemonInv
<1>3. /\ r \in DaemonRecords /\ r.at = "check" /\ r.fifo = None
      /\ r.lock_fd = daemon[d].lock_fd /\ r.queue_id = daemon[d].queue_id
  BY <1>1 DEF DaemonRecords, DaemonStates
<1> HIDE DEF r
<1>4. DaemonOK(d, r, DOMAIN queue)
  BY <1>1, <1>3 DEF DaemonOK, WithQueue
<1>5. DaemonInv'
  BY <1>2, <1>3, <1>4, DaemonStep DEF TypeInv, EndOfReport
<1> QED BY <1>5, ToolsSame DEF TypeInv, FileInv, EndOfReport

LEMMA TypeRemoveQueue == ASSUME TypeInv, NEW d \in Daemons, RemoveQueue(d) PROVE TypeInv'
<1> DEFINE id == daemon[d].queue_id
           r == [daemon[d] EXCEPT !.at = "unlink_fifo"]
<1>1. daemon[d] \in DaemonRecords /\ DaemonOK(d, daemon[d], DOMAIN queue) /\ daemon[d].at = "finalize"
  BY DEF RemoveQueue, TypeInv, DaemonInv
<1>2. daemon' = [daemon EXCEPT ![d] = r]
  BY DEF RemoveQueue, TypeInv, DaemonInv
<1>3. /\ r \in DaemonRecords /\ r.at = "unlink_fifo" /\ r.fifo = daemon[d].fifo
      /\ r.lock_fd = daemon[d].lock_fd
  BY <1>1 DEF DaemonRecords, DaemonStates
<1>4. id[2] = d
  BY <1>1 DEF DaemonOK, WithQueue
<1>5. /\ queue' = [q \in DOMAIN queue \ {id} |-> queue[q]]
      /\ tool' = [u \in Users |->
              IF tool[u].at = "send" /\ tool[u].queue_id = id
                THEN [tool[u] EXCEPT !.queue_id = None] ELSE tool[u]]
  BY DEF RemoveQueue
<1> HIDE DEF id, r
<1>6. DOMAIN queue' = DOMAIN queue \ {id}
  BY <1>5
<1>7. DaemonOK(d, r, DOMAIN queue')
  BY <1>1, <1>3 DEF DaemonOK, WithQueue
<1>8. DaemonInv'
  BY <1>2, <1>3, <1>4, <1>6, <1>7, DaemonStep DEF TypeInv
<1>9. ASSUME NEW u \in Users
      PROVE  tool'[u] \in ToolRecords /\ ToolOK(tool'[u], DOMAIN queue')
  <2>1. tool[u] \in ToolRecords /\ ToolOK(tool[u], DOMAIN queue)
    BY DEF TypeInv, ToolInv
  <2>2. CASE tool[u].at = "send" /\ tool[u].queue_id = id
    <3> DEFINE q == [tool[u] EXCEPT !.queue_id = None]
    <3>1. q \in ToolRecords /\ q.at = "send" /\ q.fifo = tool[u].fifo /\ q.queue_id = None
      BY <2>1, <2>2 DEF ToolRecords
    <3>2. tool'[u] = q
      BY <1>5, <2>2
    <3> HIDE DEF q
    <3> QED BY <2>1, <2>2, <3>1, <3>2 DEF ToolOK
  <2>3. CASE ~(tool[u].at = "send" /\ tool[u].queue_id = id)
    BY <1>5, <1>6, <2>1, <2>3 DEF ToolOK
  <2> QED BY <2>2, <2>3
<1>10. ToolInv'
  BY <1>5, <1>9 DEF ToolInv
<1>11. FileInv'
  BY <1>5, <1>6 DEF TypeInv, FileInv, RemoveQueue
<1> QED BY <1>8, <1>10, <1>11 DEF TypeInv

LEMMA TypeUnlink ==
    ASSUME TypeInv, NEW d \in Daemons, UnlinkFifo(d) \/ UnlinkLock(d)
    PROVE  TypeInv'
<1>1. ToolInv' /\ FileInv' /\ UNCHANGED queue
  BY ToolsSame DEF UnlinkFifo, UnlinkLock, TypeInv, FileInv
<1>2. CASE daemon' = [daemon EXCEPT ![d] = NoDaemon]
  BY <1>1, <1>2, DaemonEnds DEF TypeInv
<1>3. CASE /\ daemon[d].at = "unlink_fifo"
           /\ daemon' = [daemon EXCEPT ![d] = [@ EXCEPT !.at = "unlink_lock"]]
  <2> DEFINE r == [daemon[d] EXCEPT !.at = "unlink_lock"]
  <2>1. daemon[d] \in DaemonRecords /\ DaemonOK(d, daemon[d], DOMAIN queue)
    BY DEF TypeInv, DaemonInv
  <2>2. daemon' = [daemon EXCEPT ![d] = r]
    BY <1>3 DEF TypeInv, DaemonInv
  <2>3. /\ r \in DaemonRecords /\ r.at = "unlink_lock" /\ r.fifo = daemon[d].fifo
        /\ r.lock_fd = daemon[d].lock_fd
    BY <2>1 DEF DaemonRecords, DaemonStates
  <2> HIDE DEF r
  <2>4. DaemonOK(d, r, DOMAIN queue)
    BY <1>3, <2>1, <2>3 DEF DaemonOK, WithQueue
  <2> QED BY <1>1, <2>2, <2>3, <2>4, DaemonStep DEF TypeInv
<1> QED BY <1>2, <1>3 DEF UnlinkFifo, UnlinkLock

LEMMA TypeTool == ASSUME TypeInv, NEW t \in Tools, Tool(t) PROVE TypeInv'
  BY TypeRunCommand, TypeGetQueue, TypeSend, TypeConfirmed, TypeOpenFifoToWrite,
     TypeWrite, TypeCloseReport DEF Tool

LEMMA TypeFindDaemon == ASSUME TypeInv, NEW u \in Users, FindDaemon(u) PROVE TypeInv'
  BY TypeOpenLockFile, TypeReadDaemonPid, TypeAttemptFails, TypeTryFails, TypeGiveUp DEF FindDaemon

LEMMA TypeDaemon == ASSUME TypeInv, NEW d \in Daemons, Daemon(d) PROVE TypeInv'
  BY TypeOpenLock, TypeSetLock, TypeGetDaemonQueue, TypeDaemonMoves, TypeGrant,
     TypeRefuse, TypeOpenFifoToRead, TypeCopyChunk, TypeCopyFails, TypeEndOfReport,
     TypeRemoveQueue, TypeUnlink DEF Daemon

LEMMA TypeStep == TypeInv /\ [Next]_vars => TypeInv'
<1> SUFFICES ASSUME TypeInv, [Next]_vars PROVE TypeInv'
  OBVIOUS
<1>1. CASE UNCHANGED vars
  BY <1>1, ToolsSame, DaemonsSame DEF vars, TypeInv, FileInv
<1>2. CASE \E t \in Tools : Tool(t)
  BY <1>2, TypeTool
<1>3. CASE \E s \in Stoppers : Stopper(s)
  BY <1>3, TypeRunStop, TypeStopDaemon DEF Stopper
<1>4. CASE \E u \in Users : FindDaemon(u)
  BY <1>4, TypeFindDaemon
<1>5. CASE \E d \in Daemons : Daemon(d)
  BY <1>5, TypeDaemon
<1>6. CASE Environment
  BY <1>6, TypeToolDies, TypeResumed DEF Environment
<1> QED BY <1>1, <1>2, <1>3, <1>4, <1>5, <1>6 DEF Next

LEMMA TypeAlways == Spec => []TypeInv
<1> QED BY TypeInit, TypeStep, PTL DEF Spec

\* Every variable stays in its range: no system call on a FIFO, a queue or a
\* lock is ever made with an id the caller does not have.
THEOREM BookingTypeCorrect == Spec => []TypeOK
<1>1. TypeInv => TypeOK
  BY DEF TypeInv, ToolInv, DaemonInv, FileInv, TypeOK
<1> QED BY <1>1, TypeAlways, PTL

-----------------------------------------------------------------------------
(* Exclusion: the lock on the lock file admits one daemon, and that daemon *)
(* gives the FIFO to one tool at a time.                                   *)

\* Nobody runs the tool with -s: the run TwoDaemons shows what happens then.
NoStop == Stoppers = {}

-----------------------------------------------------------------------------
(* The lock.  The name of the lock file never changes, so every candidate  *)
(* has opened the same inode, and the lock on it has one holder.           *)

LockOK(r, file) ==
    /\ ~r.interrupted
    /\ r.at \notin {"finalize", "unlink_fifo", "unlink_lock"}
    /\ r.at \notin {"none", "open_lock"} => r.lock_fd = file
    /\ r.locked <=> r.at \notin {"none", "open_lock", "set_lock"}

LockInv ==
    /\ \A d \in Daemons : LockOK(daemon[d], lock_file)
    /\ SingleDaemon

LEMMA LockOfNoDaemon == \A file : LockOK(NoDaemon, file) /\ ~NoDaemon.locked
  BY DEF LockOK, NoDaemon

LEMMA LockStep ==
    ASSUME TypeInv, LockInv, NEW d \in Daemons, NEW r, daemon' = [daemon EXCEPT ![d] = r],
           LockOK(r, lock_file), r.locked => daemon[d].locked, UNCHANGED lock_file
    PROVE  LockInv'
<1>1. \A e \in Daemons : daemon'[e] = IF e = d THEN r ELSE daemon[e]
  BY DEF TypeInv, DaemonInv
<1>2. \A e \in Daemons : LockOK(daemon'[e], lock_file')
  BY <1>1 DEF LockInv
<1>3. \A e \in Daemons : daemon'[e].locked => daemon[e].locked
  BY <1>1
<1> QED BY <1>2, <1>3 DEF LockInv, SingleDaemon, Running

\* A step that ends a daemon, or moves it from one control state to another
\* on the same side of the lock.
LEMMA LockEnd ==
    ASSUME TypeInv, LockInv, NEW d \in Daemons, daemon' = [daemon EXCEPT ![d] = NoDaemon],
           UNCHANGED lock_file
    PROVE  LockInv'
  BY LockOfNoDaemon, LockStep

LEMMA LockMove ==
    ASSUME TypeInv, LockInv, NEW d \in Daemons, NEW r, daemon' = [daemon EXCEPT ![d] = r],
           UNCHANGED lock_file,
           r.locked = daemon[d].locked, r.lock_fd = daemon[d].lock_fd,
           r.interrupted = daemon[d].interrupted,
           daemon[d].at \notin {"none", "open_lock", "set_lock"},
           r.at \notin {"none", "open_lock", "set_lock", "finalize", "unlink_fifo", "unlink_lock"}
    PROVE  LockInv'
<1>1. LockOK(r, lock_file)
  BY DEF LockInv, LockOK
<1> QED BY <1>1, LockStep

LEMMA LockStarted == ASSUME TypeInv, LockInv, StartDaemon, UNCHANGED lock_file PROVE LockInv'
<1>1. PICK d \in FreeDaemons : daemon' = [daemon EXCEPT ![d].at = "open_lock"]
  BY DEF StartDaemon
<1> DEFINE r == [daemon[d] EXCEPT !.at = "open_lock"]
<1>2. d \in Daemons /\ daemon[d] \in DaemonRecords /\ daemon[d].at = "none"
  BY <1>1 DEF FreeDaemons, Live, TypeInv, DaemonInv
<1>3. /\ r.at = "open_lock" /\ r.locked = daemon[d].locked
      /\ r.interrupted = daemon[d].interrupted
  BY <1>2 DEF DaemonRecords
<1>4. daemon' = [daemon EXCEPT ![d] = r]
  BY <1>1, <1>2 DEF TypeInv, DaemonInv
<1> HIDE DEF r
<1>5. LockOK(r, lock_file)
  BY <1>2, <1>3 DEF LockInv, LockOK
<1> QED BY <1>2, <1>3, <1>4, <1>5, LockStep

LEMMA LockOpenLock == ASSUME TypeInv, LockInv, NEW d \in Daemons, OpenLock(d) PROVE LockInv'
<1>1. daemon[d] \in DaemonRecords /\ LockOK(daemon[d], lock_file) /\ daemon[d].at = "open_lock"
  BY DEF OpenLock, TypeInv, DaemonInv, LockInv
<1>2. PICK i : /\ lock_file' = i /\ (lock_file # None => i = lock_file)
               /\ daemon' = [daemon EXCEPT ![d].at = "set_lock", ![d].lock_fd = i]
  BY DEF OpenLock
<1> DEFINE r == [daemon[d] EXCEPT !.at = "set_lock", !.lock_fd = i]
<1>3. /\ r.at = "set_lock" /\ r.lock_fd = i /\ r.locked = daemon[d].locked
      /\ r.interrupted = daemon[d].interrupted
  BY <1>1 DEF DaemonRecords
<1>4. \A e \in Daemons : daemon'[e] = IF e = d THEN r ELSE daemon[e]
  BY <1>2 DEF TypeInv, DaemonInv
<1> HIDE DEF r
<1>5. ASSUME NEW e \in Daemons PROVE LockOK(daemon'[e], lock_file')
  <2>1. CASE e = d
    BY <1>1, <1>2, <1>3, <1>4, <2>1 DEF LockOK
  <2>2. CASE e # d
    <3>1. LockOK(daemon[e], lock_file) /\ DaemonOK(e, daemon[e], DOMAIN queue)
      BY DEF LockInv, TypeInv, DaemonInv
    <3>2. lock_file = None => daemon[e].at \in {"none", "open_lock"}
      BY <3>1 DEF LockOK, DaemonOK
    <3> QED BY <1>2, <1>4, <2>2, <3>1, <3>2 DEF LockOK
  <2> QED BY <2>1, <2>2
<1>6. \A e \in Daemons : daemon'[e].locked = daemon[e].locked
  BY <1>3, <1>4
<1> QED BY <1>5, <1>6 DEF LockInv, SingleDaemon, Running

\* fcntl(F_SETLK) succeeds only when nobody holds the lock of that inode.
LEMMA LockSetLock == ASSUME TypeInv, LockInv, NEW d \in Daemons, SetLock(d) PROVE LockInv'
<1>1. daemon[d] \in DaemonRecords /\ LockOK(daemon[d], lock_file) /\ daemon[d].at = "set_lock"
  BY DEF SetLock, TypeInv, DaemonInv, LockInv
<1>2. CASE Holders(daemon[d].lock_fd) # {}
  BY <1>2, LockEnd DEF SetLock
<1>3. CASE Holders(daemon[d].lock_fd) = {}
  <2> DEFINE r == [daemon[d] EXCEPT !.at = "get_queue", !.locked = TRUE]
  <2>1. /\ r.at = "get_queue" /\ r.lock_fd = daemon[d].lock_fd /\ r.locked = TRUE
        /\ r.interrupted = daemon[d].interrupted
    BY <1>1 DEF DaemonRecords
  <2>2. \A e \in Daemons : daemon'[e] = IF e = d THEN r ELSE daemon[e]
    BY <1>3 DEF SetLock, TypeInv, DaemonInv
  <2> HIDE DEF r
  <2>3. ASSUME NEW e \in Daemons PROVE LockOK(daemon'[e], lock_file')
    <3>1. CASE e = d
      BY <1>1, <2>1, <2>2, <3>1 DEF LockOK, SetLock
    <3>2. CASE e # d
      BY <2>2, <3>2 DEF LockInv, SetLock
    <3> QED BY <3>1, <3>2
  <2>4. ASSUME NEW e \in Daemons, e # d PROVE ~daemon'[e].locked
    <3>1. LockOK(daemon[e], lock_file) /\ ~(daemon[e].locked /\ daemon[e].lock_fd = daemon[d].lock_fd)
      BY <1>3 DEF LockInv, Holders
    <3>2. daemon[e].locked => daemon[e].lock_fd = lock_file
      BY <3>1 DEF LockOK
    <3>3. daemon[d].lock_fd = lock_file
      BY <1>1 DEF LockOK
    <3> QED BY <2>2, <2>4, <3>1, <3>2, <3>3
  <2> QED BY <2>3, <2>4 DEF LockInv, SingleDaemon, Running
<1> QED BY <1>2, <1>3

\* The steps of the daemon that holds the lock.
LEMMA LockDaemon ==
    ASSUME TypeInv, LockInv, NEW d \in Daemons, Daemon(d)
    PROVE  LockInv'
<1> DEFINE old == daemon[d]
<1>1. old \in DaemonRecords /\ LockOK(old, lock_file)
  BY DEF TypeInv, DaemonInv, LockInv
<1>2. old.at \notin {"finalize", "unlink_fifo", "unlink_lock"} /\ ~old.interrupted
  BY <1>1 DEF LockOK
<1>3. ASSUME NEW r \in DaemonRecords, daemon' = [daemon EXCEPT ![d] = r],
             r.locked = old.locked, r.lock_fd = old.lock_fd, r.interrupted = old.interrupted,
             old.at \notin {"none", "open_lock", "set_lock"},
             r.at \notin {"none", "open_lock", "set_lock", "finalize", "unlink_fifo", "unlink_lock"},
             UNCHANGED lock_file
      PROVE  LockInv'
  BY <1>3, LockMove
<1>4. daemon \in [Daemons -> DaemonRecords]
  BY DEF TypeInv, DaemonInv
<1>5. ASSUME NEW s \in DaemonStates, daemon' = [daemon EXCEPT ![d].at = s],
             s \notin {"none", "open_lock", "set_lock", "finalize", "unlink_fifo", "unlink_lock"},
             old.at \notin {"none", "open_lock", "set_lock"}, UNCHANGED lock_file
      PROVE  LockInv'
  <2> DEFINE r == [old EXCEPT !.at = s]
  <2>1. /\ r \in DaemonRecords /\ r.at = s /\ r.locked = old.locked /\ r.lock_fd = old.lock_fd
        /\ r.interrupted = old.interrupted
    BY <1>1 DEF DaemonRecords
  <2>2. daemon' = [daemon EXCEPT ![d] = r]
    BY <1>4, <1>5
  <2> HIDE DEF r, old
  <2> QED BY <1>3, <1>5, <2>1, <2>2
<1>6. CASE OpenLock(d) \/ SetLock(d)
  BY <1>6, LockOpenLock, LockSetLock
<1>7. CASE GetDaemonQueue(d)
  <2> DEFINE id == <<lock_file, d>>
             r == [old EXCEPT !.at = "handlers", !.queue_id = id]
  <2>1. CASE lock_file = None
    BY <1>7, <2>1, LockEnd DEF GetDaemonQueue
  <2>2. CASE lock_file # None
    <3>1. id \in QueueIds
      BY <2>2 DEF TypeInv, FileInv, QueueIds
    <3>2. /\ r \in DaemonRecords /\ r.at = "handlers" /\ r.locked = old.locked
          /\ r.lock_fd = old.lock_fd /\ r.interrupted = old.interrupted
      BY <1>1, <3>1 DEF DaemonRecords, DaemonStates
    <3>3. daemon' = [daemon EXCEPT ![d] = r] /\ UNCHANGED lock_file /\ old.at = "get_queue"
      BY <1>4, <1>7, <2>2 DEF GetDaemonQueue
    <3> HIDE DEF r, old
    <3> QED BY <1>3, <3>2, <3>3
  <2> QED BY <2>1, <2>2
<1>8. CASE InstallHandlers(d) \/ RemoveFifo(d) \/ MakeFifo(d) \/ CheckInterrupt(d) \/ Refuse(d)
  <2>1. CASE daemon' = [daemon EXCEPT ![d] = NoDaemon]
    BY <1>8, <2>1, LockEnd DEF InstallHandlers, RemoveFifo, MakeFifo, CheckInterrupt, Refuse, Receive
  <2>2. CASE daemon' # [daemon EXCEPT ![d] = NoDaemon]
    <3>1. PICK s \in {"remove_fifo", "make_fifo", "check", "receive"} :
            daemon' = [daemon EXCEPT ![d].at = s]
      BY <1>2, <1>8, <2>2 DEF InstallHandlers, RemoveFifo, MakeFifo, CheckInterrupt, Refuse
    <3>2. old.at \notin {"none", "open_lock", "set_lock"} /\ UNCHANGED lock_file
      BY <1>8 DEF InstallHandlers, RemoveFifo, MakeFifo, CheckInterrupt, Refuse, Receive
    <3> QED BY <1>5, <3>1, <3>2 DEF DaemonStates
  <2> QED BY <2>1, <2>2
<1>9. CASE Grant(d)
  <2> DEFINE t == Head(queue[old.queue_id])
             r == [old EXCEPT !.at = "open", !.serving = t]
  <2>1. t \in Tools
    BY <1>9, Received DEF Grant
  <2>2. /\ r \in DaemonRecords /\ r.at = "open" /\ r.locked = old.locked
        /\ r.lock_fd = old.lock_fd /\ r.interrupted = old.interrupted
    BY <1>1, <2>1 DEF DaemonRecords, DaemonStates
  <2>3. daemon' = [daemon EXCEPT ![d] = r] /\ UNCHANGED lock_file /\ old.at = "receive"
    BY <1>4, <1>9 DEF Grant, Receive
  <2> HIDE DEF r, old
  <2> QED BY <1>3, <2>2, <2>3
<1>10. CASE OpenFifoToRead(d)
  <2>1. CASE stats_fifo = None
    BY <1>10, <2>1, LockEnd DEF OpenFifoToRead
  <2>2. CASE stats_fifo # None
    <3> DEFINE at == IF Writers(stats_fifo) = {} THEN "opening" ELSE "copy"
               r == [old EXCEPT !.at = at, !.fifo = stats_fifo]
    <3>1. at \in {"opening", "copy"} /\ stats_fifo \in Fifos
      BY <2>2 DEF TypeInv, FileInv
    <3>2. daemon' = [daemon EXCEPT ![d] = r] /\ UNCHANGED lock_file /\ old.at = "open"
      BY <1>4, <1>10, <2>2 DEF OpenFifoToRead
    <3> HIDE DEF at
    <3>3. /\ r \in DaemonRecords /\ r.at = at /\ r.locked = old.locked
          /\ r.lock_fd = old.lock_fd /\ r.interrupted = old.interrupted
      BY <1>1, <3>1 DEF DaemonRecords, DaemonStates
    <3> HIDE DEF r, old
    <3> QED BY <1>3, <3>1, <3>2, <3>3
  <2> QED BY <2>1, <2>2
<1>11. CASE CopyChunk(d)
  BY <1>11 DEF CopyChunk, LockInv, SingleDaemon, Running
<1>12. CASE EndOfReport(d)
  <2> DEFINE r == [old EXCEPT !.at = "check", !.serving = None, !.fifo = None]
  <2>1. /\ r \in DaemonRecords /\ r.at = "check" /\ r.locked = old.locked
        /\ r.lock_fd = old.lock_fd /\ r.interrupted = old.interrupted
    BY <1>1 DEF DaemonRecords, DaemonStates
  <2>2. daemon' = [daemon EXCEPT ![d] = r] /\ UNCHANGED lock_file /\ old.at = "copy"
    BY <1>4, <1>12 DEF EndOfReport
  <2> HIDE DEF r, old
  <2> QED BY <1>3, <2>1, <2>2
<1>13. CASE CopyFails(d)
  BY <1>13, LockEnd DEF CopyFails
<1>14. ~(RemoveQueue(d) \/ UnlinkFifo(d) \/ UnlinkLock(d))
  BY <1>2 DEF RemoveQueue, UnlinkFifo, UnlinkLock
<1> QED BY <1>6, <1>7, <1>8, <1>9, <1>10, <1>11, <1>12, <1>13, <1>14 DEF Daemon

\* A tool that opens the FIFO wakes the daemon that waits for it there.
LEMMA LockOpenFifo == ASSUME TypeInv, LockInv, NEW t \in Tools, OpenFifoToWrite(t) PROVE LockInv'
<1>1. CASE stats_fifo = None
  BY <1>1 DEF OpenFifoToWrite, LockInv, SingleDaemon, Running
<1>2. CASE stats_fifo # None
  <2>1. ASSUME NEW d \in Daemons
        PROVE  LockOK(daemon'[d], lock_file') /\ daemon'[d].locked = daemon[d].locked
    <3>1. daemon[d] \in DaemonRecords /\ LockOK(daemon[d], lock_file) /\ UNCHANGED lock_file
      BY DEF TypeInv, DaemonInv, LockInv, OpenFifoToWrite
    <3>2. CASE d \in Readers(stats_fifo)
      <4> DEFINE r == [daemon[d] EXCEPT !.at = "copy"]
      <4>1. daemon'[d] = r
        BY <1>2, <3>2 DEF OpenFifoToWrite
      <4>2. /\ r.at = "copy" /\ r.locked = daemon[d].locked /\ r.lock_fd = daemon[d].lock_fd
            /\ r.interrupted = daemon[d].interrupted
        BY <3>1 DEF DaemonRecords
      <4>3. daemon[d].at \in {"opening", "copy"}
        BY <1>2, <3>2 DEF TypeInv, DaemonInv, DaemonOK, Readers
      <4> HIDE DEF r
      <4> QED BY <3>1, <4>1, <4>2, <4>3 DEF LockOK
    <3>3. CASE d \notin Readers(stats_fifo)
      BY <1>2, <3>1, <3>3 DEF OpenFifoToWrite
    <3> QED BY <3>2, <3>3
  <2> QED BY <2>1 DEF LockInv, SingleDaemon, Running
<1> QED BY <1>1, <1>2

LEMMA LockSame == ASSUME LockInv, UNCHANGED <<daemon, lock_file>> PROVE LockInv'
  BY DEF LockInv, SingleDaemon, Running

LEMMA LockNext == NoStop /\ TypeInv /\ LockInv /\ [Next]_vars => LockInv'
<1> SUFFICES ASSUME NoStop, TypeInv, LockInv, [Next]_vars PROVE LockInv'
  OBVIOUS
<1>1. CASE UNCHANGED vars
  BY <1>1, LockSame DEF vars
<1>2. CASE \E t \in Tools : Tool(t)
  <2>1. PICK t \in Tools : Tool(t)
    BY <1>2
  <2>2. CASE RunCommand(t)
    BY <2>2, LockStarted DEF RunCommand
  <2>3. CASE OpenFifoToWrite(t)
    BY <2>3, LockOpenFifo
  <2>4. CASE \/ GetQueue(t) \/ Send(t) \/ Confirmed(t) \/ Write(t) \/ CloseReport(t)
    BY <2>4, LockSame DEF GetQueue, Send, Confirmed, Write, CloseReport
  <2> QED BY <2>1, <2>2, <2>3, <2>4 DEF Tool
<1>3. CASE \E s \in Stoppers : Stopper(s)
  BY SMTT(60), <1>3 DEF NoStop
<1>4. CASE \E u \in Users : FindDaemon(u)
  <2>1. PICK u \in Users : FindDaemon(u)
    BY <1>4
  <2>2. CASE TryFails(u)
    BY <2>2, LockStarted DEF TryFails
  <2>3. CASE OpenLockFile(u) \/ ReadDaemonPid(u) \/ AttemptFails(u) \/ GiveUp(u)
    <3>1. UNCHANGED <<daemon, lock_file>>
      BY Zenon, <2>3 DEF OpenLockFile, ReadDaemonPid, AttemptFails, GiveUp
    <3> QED BY <3>1, LockSame
  <2> QED BY <2>1, <2>2, <2>3 DEF FindDaemon
<1>5. CASE \E d \in Daemons : Daemon(d)
  BY <1>5, LockDaemon
<1>6. CASE Environment
  BY <1>6, LockSame DEF Environment, ToolDies, Resumed
<1> QED BY <1>1, <1>2, <1>3, <1>4, <1>5, <1>6 DEF Next

LEMMA LockInit == Init => LockInv
  BY LockOfNoDaemon DEF Init, LockInv, SingleDaemon, Running

LEMMA LockAlways == ASSUME NoStop PROVE Spec => [](TypeInv /\ LockInv)
<1>1. TypeInv /\ LockInv /\ [Next]_vars => (TypeInv /\ LockInv)'
  BY TypeStep, LockNext
<1> QED BY <1>1, TypeInit, LockInit, PTL DEF Spec

\* However many tools start a daemon at once, and whenever they do, at most one
\* gets past acquire_lock_or_exit(), provided that nobody runs the tool with -s.
THEOREM OneDaemonAtATime == ASSUME NoStop PROVE Spec => []SingleDaemon
<1>1. LockInv => SingleDaemon
  BY DEF LockInv
<1> QED BY <1>1, LockAlways, PTL

-----------------------------------------------------------------------------
(* The service.  A tool that has been told to write is the one that the    *)
(* daemon serves, until the daemon has read the end of its report, or has  *)
(* died because it could not log it.  The next daemon makes a FIFO of its  *)
(* own, which what is left of the cut reports does not reach.              *)

Early == {"start", "probe", "find", "get_queue", "send"}
Busy  == {"open", "opening", "copy"}
Ready == {"check", "receive"} \cup Busy
Written == {"write", "done", "failed"}

\* SIGUSR1 has told the tool to write, and it has not finished.
Granted(r) ==
    \/ r.at \in {"open", "opening", "write"}
    \/ r.at = "wait" /\ r.response = "granted"

\* What is in a FIFO comes from tools that have got to write.
PipeInv == \A f \in Fifos : \A i \in DOMAIN pipe[f] : tool[pipe[f][i]].at \in Written

\* The tools whose report was cut have written, and are away from the FIFO that
\* the next daemon makes.
CutInv ==
    /\ \A t \in cut : tool[t].at \in Written
    /\ \A d \in Daemons : daemon[d].at \in {"opening", "copy"} => daemon[d].fifo = stats_fifo
    /\ \A d \in Daemons : daemon[d].at \in Ready =>
         \A t \in cut : tool[t].fifo # stats_fifo

ServeInv ==
    /\ PipeInv /\ CutInv
    /\ \A d \in Daemons : daemon[d].serving # None <=> daemon[d].at \in Busy
    /\ \A d \in Daemons : daemon[d].at \in Ready => stats_fifo # None
    /\ \A d \in Daemons : daemon[d].at = "copy" => tool[daemon[d].serving].at \in Written
    /\ \A t \in Tools : tool[t].at \in Early => tool[t].response = None
    /\ \A t \in Tools \ cut : Granted(tool[t]) => \E d \in Daemons : daemon[d].serving = t
    /\ \A t \in Tools \ cut : tool[t].at = "write" =>
         \E d \in Daemons : daemon[d].at = "copy" /\ daemon[d].fifo = tool[t].fifo

\* Only the daemon that holds the lock can be serving.
LEMMA OneServer ==
    ASSUME LockInv, NEW d \in Daemons, NEW e \in Daemons,
           daemon[d].at \notin {"none", "open_lock", "set_lock"},
           daemon[e].at \notin {"none", "open_lock", "set_lock"}
    PROVE  d = e
  BY DEF LockInv, LockOK, SingleDaemon, Running

\* A step of a tool that does not bring it nearer to the FIFO.
Quiet(r, q) ==
    /\ Granted(q) => Granted(r)
    /\ q.at = "write" => r.at = "write" /\ q.fifo = r.fifo
    /\ q.at \in Early => q.response = None
    /\ r.at \in Written => q.at \in Written /\ q.fifo \in {r.fifo, None}

\* Whoever has got to write stays there, or ends.
LEMMA PipeStep ==
    ASSUME TypeInv, PipeInv,
           \A t \in Tools : tool[t].at \in Written => tool'[t].at \in Written,
           UNCHANGED pipe \/ \E p : pipe' = LeftBy(p, pipe)
    PROVE  PipeInv'
<1>1. ASSUME NEW f \in Fifos, NEW i \in DOMAIN pipe[f] PROVE tool'[pipe[f][i]].at \in Written
  <2>1. pipe[f][i] \in Tools
    BY DEF TypeInv, FileInv
  <2> QED BY <2>1 DEF PipeInv
<1>2. \A f \in Fifos : pipe'[f] \in {pipe[f], <<>>}
  BY DEF LeftBy
<1>3. ASSUME NEW f \in Fifos, NEW i \in DOMAIN pipe'[f] PROVE tool'[pipe'[f][i]].at \in Written
  BY <1>1, <1>2
<1> QED BY <1>3 DEF PipeInv

LEMMA QuietStep ==
    ASSUME TypeInv, ServeInv, UNCHANGED cut, PipeInv',
           \A d \in Daemons : daemon[d].at \in {"opening", "copy"} => UNCHANGED stats_fifo,
           \A d \in Daemons : daemon'[d].at \in Ready =>
             \/ UNCHANGED stats_fifo /\ daemon[d].at \in Ready
             \/ \A t \in Tools : tool'[t].fifo # stats_fifo',
           \A d \in Daemons : \/ daemon'[d] = daemon[d]
                              \/ /\ daemon[d].at \notin Busy /\ daemon'[d].at \notin Busy
                                 /\ daemon'[d].serving = None,
           \A d \in Daemons : daemon'[d].at \in Ready => stats_fifo' # None,
           \A t \in Tools : tool'[t] = tool[t] \/ Quiet(tool[t], tool'[t])
    PROVE  ServeInv'
<1>1. \A d \in Daemons : daemon'[d].serving # None <=> daemon'[d].at \in Busy
  BY DEF ServeInv
<1>2. ASSUME NEW d \in Daemons, daemon'[d].at = "copy"
      PROVE  tool'[daemon'[d].serving].at \in Written
  <2>1. daemon'[d] = daemon[d] /\ daemon[d].serving # None
    BY <1>2 DEF Busy, ServeInv
  <2>2. daemon[d].serving \in Tools
    BY <2>1 DEF TypeInv, DaemonInv, DaemonRecords
  <2>3. tool[daemon[d].serving].at \in Written
    BY <1>2, <2>1 DEF ServeInv
  <2> QED BY <2>1, <2>2, <2>3 DEF Quiet
<1>3. \A t \in Tools : tool'[t].at \in Early => tool'[t].response = None
  BY DEF ServeInv, Quiet
<1>4. ASSUME NEW t \in Tools \ cut, Granted(tool'[t])
      PROVE  \E d \in Daemons : daemon'[d].serving = t
  <2>1. Granted(tool[t])
    BY <1>4 DEF Quiet
  <2>2. PICK d \in Daemons : daemon[d].serving = t
    BY <2>1 DEF ServeInv
  <2>3. t # None
    BY NamesAssumption
  <2>4. daemon[d].at \in Busy
    BY <2>2, <2>3 DEF ServeInv
  <2> QED BY <2>2, <2>4
<1>5. ASSUME NEW t \in Tools \ cut, tool'[t].at = "write"
      PROVE  \E d \in Daemons : daemon'[d].at = "copy" /\ daemon'[d].fifo = tool'[t].fifo
  <2>1. tool[t].at = "write" /\ tool'[t].fifo = tool[t].fifo
    BY <1>5 DEF Quiet
  <2>2. PICK d \in Daemons : daemon[d].at = "copy" /\ daemon[d].fifo = tool[t].fifo
    BY <2>1 DEF ServeInv
  <2> QED BY <2>1, <2>2 DEF Busy
<1>6. ASSUME NEW t \in cut
      PROVE  /\ tool'[t].at \in Written
             /\ \A d \in Daemons : daemon'[d].at \in Ready => tool'[t].fifo # stats_fifo'
  <2>1. t \in Tools /\ tool[t].at \in Written
    BY DEF TypeInv, FileInv, ServeInv, CutInv
  <2>2. tool'[t].at \in Written /\ tool'[t].fifo \in {tool[t].fifo, None}
    BY <2>1 DEF Quiet
  <2>3. ASSUME NEW d \in Daemons, UNCHANGED stats_fifo, daemon[d].at \in Ready
        PROVE  tool'[t].fifo # stats_fifo'
    BY <2>2, <2>3 DEF ServeInv, CutInv
  <2> QED BY <2>1, <2>2, <2>3
<1>7. ASSUME NEW d \in Daemons, daemon'[d].at \in {"opening", "copy"}
      PROVE  daemon'[d].fifo = stats_fifo'
  <2>1. daemon'[d] = daemon[d]
    BY <1>7 DEF Busy
  <2> QED BY <1>7, <2>1 DEF ServeInv, CutInv
<1>8. CutInv'
  BY <1>6, <1>7 DEF CutInv
<1> QED BY <1>1, <1>2, <1>3, <1>4, <1>5, <1>8 DEF ServeInv

\* A step of one tool, which may start a daemon.
LEMMA ServeToolStep ==
    ASSUME TypeInv, ServeInv, NEW u \in Users, NEW r, tool' = [tool EXCEPT ![u] = r],
           u \in Tools => Quiet(tool[u], r),
           UNCHANGED daemon \/ StartDaemon, UNCHANGED <<stats_fifo, cut>>,
           \/ UNCHANGED pipe
           \/ \E p : pipe' = LeftBy(p, pipe)
           \/ \E f \in Fifos : u \in Tools /\ r.at \in Written /\ pipe' = [pipe EXCEPT ![f] = Append(@, u)]
    PROVE  ServeInv'
<1>1. \A v \in Users : tool'[v] = IF v = u THEN r ELSE tool[v]
  BY DEF TypeInv, ToolInv
<1>2. \A t \in Tools : tool'[t] = tool[t] \/ Quiet(tool[t], tool'[t])
  BY <1>1 DEF Users
<1>3. ASSUME NEW d \in Daemons
      PROVE  /\ \/ daemon'[d] = daemon[d]
                \/ /\ daemon[d].at \notin Busy /\ daemon'[d].at \notin Busy
                   /\ daemon'[d].serving = None
             /\ daemon'[d].at \in Ready => stats_fifo' # None /\ daemon[d].at \in Ready
  <2>1. CASE UNCHANGED daemon
    BY <2>1 DEF ServeInv
  <2>2. CASE StartDaemon
    <3>1. PICK e \in FreeDaemons : daemon' = [daemon EXCEPT ![e].at = "open_lock"]
      BY <2>2 DEF StartDaemon
    <3>2. daemon[d] \in DaemonRecords /\ daemon \in [Daemons -> DaemonRecords]
      BY DEF TypeInv, DaemonInv
    <3>3. CASE d = e
      <4>1. daemon'[d] = [daemon[d] EXCEPT !.at = "open_lock"] /\ daemon[d].at = "none"
        BY <3>1, <3>2, <3>3 DEF FreeDaemons, Live
      <4>2. daemon'[d].at = "open_lock" /\ daemon'[d].serving = daemon[d].serving
        BY <3>2, <4>1 DEF DaemonRecords
      <4>3. daemon[d].serving = None
        BY <4>1 DEF ServeInv, Busy
      <4> QED BY <4>1, <4>2, <4>3 DEF Busy, Ready
    <3>4. CASE d # e
      BY <3>1, <3>2, <3>4 DEF ServeInv
    <3> QED BY <3>3, <3>4
  <2> QED BY <2>1, <2>2
<1>4. \A t \in Tools : tool[t].at \in Written => tool'[t].at \in Written
  BY <1>2 DEF Quiet
<1>5. PipeInv'
  <2>1. CASE UNCHANGED pipe \/ \E p : pipe' = LeftBy(p, pipe)
    BY <1>4, <2>1, PipeStep DEF ServeInv
  <2>2. CASE \E f \in Fifos : u \in Tools /\ r.at \in Written /\ pipe' = [pipe EXCEPT ![f] = Append(@, u)]
    <3>1. PICK f \in Fifos : u \in Tools /\ r.at \in Written /\ pipe' = [pipe EXCEPT ![f] = Append(@, u)]
      BY <2>2
    <3>2. ASSUME NEW g \in Fifos, NEW i \in DOMAIN pipe'[g] PROVE tool'[pipe'[g][i]].at \in Written
      <4>1. pipe[g] \in Seq(Tools) /\ pipe \in [Fifos -> Seq(Tools)]
        BY DEF TypeInv, FileInv
      <4>2. pipe'[g][i] = u \/ (i \in DOMAIN pipe[g] /\ pipe'[g][i] = pipe[g][i])
        BY <3>1, <4>1
      <4>3. tool'[u].at \in Written
        BY <1>1, <3>1
      <4>4. i \in DOMAIN pipe[g] => pipe[g][i] \in Tools /\ tool[pipe[g][i]].at \in Written
        BY <4>1 DEF ServeInv, PipeInv
      <4> QED BY <1>4, <4>2, <4>3, <4>4
    <3> QED BY <3>2 DEF PipeInv
  <2> QED BY <2>1, <2>2
<1> QED BY <1>2, <1>3, <1>5, QuietStep

LEMMA EndedQuiet ==
    ASSUME NEW r, NEW s \in {"done", "failed"}
    PROVE  Quiet(r, Ended(s))
<1>1. Ended(s).at = s /\ Ended(s).fifo = None
  BY DEF Ended, NewTool
<1> QED BY <1>1 DEF Quiet, Granted, Early, Written

LEMMA ServeToolEnds ==
    ASSUME TypeInv, ServeInv, NEW u \in Users, NEW s \in {"done", "failed"},
           tool' = [tool EXCEPT ![u] = Ended(s)], UNCHANGED <<daemon, stats_fifo, cut>>,
           UNCHANGED pipe \/ pipe' = LeftBy(u, pipe)
    PROVE  ServeInv'
<1>1. Quiet(tool[u], Ended(s))
  BY EndedQuiet
<1> QED BY <1>1, ServeToolStep

\* What an attempt to find the daemon changes of a tool, but for the last one.
LEMMA FindStep ==
    ASSUME NoStop, TypeInv, NEW u \in Users,
           OpenLockFile(u) \/ ReadDaemonPid(u) \/ AttemptFails(u) \/ TryFails(u)
    PROVE  /\ u \in Tools /\ tool' = [tool EXCEPT ![u] = tool'[u]]
           /\ tool[u].at \in {"probe", "find"} /\ tool'[u].at \in {"probe", "find", "get_queue"}
           /\ tool'[u].response = tool[u].response /\ tool'[u].left = tool[u].left
           /\ UNCHANGED daemon \/ StartDaemon
           /\ UNCHANGED <<stats_fifo, queue, pipe, log, cut>>
<1>1. u \in Tools /\ tool[u] \in ToolRecords /\ tool \in [Users -> ToolRecords]
  BY DEF NoStop, Users, TypeInv, ToolInv
<1>2. tool[u].at \in {"probe", "find"}
  BY Zenon DEF OpenLockFile, ReadDaemonPid, AttemptFails, TryFails
<1>3. (UNCHANGED daemon \/ StartDaemon) /\ UNCHANGED <<stats_fifo, queue, pipe, log, cut>>
  BY Zenon DEF OpenLockFile, ReadDaemonPid, AttemptFails, TryFails
<1>4. PICK r : /\ tool' = [tool EXCEPT ![u] = r] /\ r.at \in {"probe", "find", "get_queue"}
               /\ r.response = tool[u].response /\ r.left = tool[u].left
  <2>1. CASE OpenLockFile(u)
    <3> DEFINE q == [tool[u] EXCEPT !.lock_fd = lock_file]
    <3>1. tool' = [tool EXCEPT ![u] = q]
      BY <1>1, <2>1 DEF OpenLockFile
    <3>2. q.at = tool[u].at /\ q.response = tool[u].response /\ q.left = tool[u].left
      BY <1>1 DEF ToolRecords
    <3> HIDE DEF q
    <3> QED BY <1>2, <3>1, <3>2
  <2>2. CASE ReadDaemonPid(u)
    <3>1. PICK at \in {"find", "get_queue", "kill"}, pid \in Daemons \cup {None} :
            /\ at = "kill" => u \notin Tools
            /\ tool' = [tool EXCEPT ![u] =
                 [tool[u] EXCEPT !.at = at, !.daemon_pid = pid, !.tries = 0, !.attempts = 0,
                                 !.spoiled = FALSE, !.lock_fd = None]]
      BY Zenon, <2>2, PidRead
    <3> DEFINE q == [tool[u] EXCEPT !.at = at, !.daemon_pid = pid, !.tries = 0, !.attempts = 0,
                                    !.spoiled = FALSE, !.lock_fd = None]
    <3>2. q.at = at /\ q.response = tool[u].response /\ q.left = tool[u].left
      BY <1>1 DEF ToolRecords
    <3>3. tool' = [tool EXCEPT ![u] = q] /\ at # "kill"
      BY <1>1, <3>1
    <3> HIDE DEF q
    <3> QED BY <3>1, <3>2, <3>3
  <2>3. CASE AttemptFails(u)
    <3> DEFINE q == [tool[u] EXCEPT !.attempts = @ + 1, !.spoiled = @ \/ tool[u].lock_fd # None,
                                    !.lock_fd = None]
    <3>1. tool' = [tool EXCEPT ![u] = q]
      BY <1>1, <2>3 DEF AttemptFails
    <3>2. q.at = tool[u].at /\ q.response = tool[u].response /\ q.left = tool[u].left
      BY <1>1 DEF ToolRecords
    <3> HIDE DEF q
    <3> QED BY <1>2, <3>1, <3>2
  <2>4. CASE TryFails(u)
    <3> DEFINE q == [tool[u] EXCEPT !.tries = @ + 1, !.attempts = 0, !.spoiled = FALSE,
                                    !.lock_fd = None]
    <3>1. tool' = [tool EXCEPT ![u] = q]
      BY <1>1, <2>4 DEF TryFails
    <3>2. q.at = tool[u].at /\ q.response = tool[u].response /\ q.left = tool[u].left
      BY <1>1 DEF ToolRecords
    <3> HIDE DEF q
    <3> QED BY <1>2, <3>1, <3>2
  <2> QED BY <2>1, <2>2, <2>3, <2>4
<1>5. tool'[u] = r
  BY <1>1, <1>4
<1> QED BY <1>1, <1>2, <1>3, <1>4, <1>5

LEMMA ServeFindDaemon ==
    ASSUME NoStop, TypeInv, ServeInv, NEW u \in Users, FindDaemon(u)
    PROVE  ServeInv'
<1>1. CASE GiveUp(u)
  BY <1>1, ServeToolEnds DEF GiveUp
<1>2. CASE OpenLockFile(u) \/ ReadDaemonPid(u) \/ AttemptFails(u) \/ TryFails(u)
  <2>1. /\ u \in Tools /\ tool' = [tool EXCEPT ![u] = tool'[u]]
        /\ tool[u].at \in {"probe", "find"} /\ tool'[u].at \in {"probe", "find", "get_queue"}
        /\ tool'[u].response = tool[u].response
        /\ UNCHANGED daemon \/ StartDaemon
        /\ UNCHANGED <<stats_fifo, pipe, cut>>
    BY <1>2, FindStep
  <2>2. tool[u].response = None
    BY <2>1 DEF ServeInv, Early
  <2>3. Quiet(tool[u], tool'[u])
    BY SMTT(60), <2>1, <2>2 DEF Quiet, Granted, Early, Written
  <2> QED BY <2>1, <2>3, ServeToolStep
<1> QED BY <1>1, <1>2 DEF FindDaemon

\* The steps of a tool other than those that open the FIFO.
LEMMA ServeTool ==
    ASSUME TypeInv, ServeInv, NEW t \in Tools,
           \/ RunCommand(t) \/ GetQueue(t) \/ Send(t) \/ Confirmed(t) \/ Write(t) \/ CloseReport(t)
    PROVE  ServeInv'
<1>1. /\ t \in Users /\ tool[t] \in ToolRecords /\ tool \in [Users -> ToolRecords]
      /\ tool[t].at \in Early => tool[t].response = None
  BY DEF Users, TypeInv, ToolInv, ServeInv
<1> DEFINE Writes == Write(t) /\ Readers(tool[t].fifo) # {}
<1>2. CASE Writes
  <2> DEFINE r == [tool[t] EXCEPT !.left = @ - 1]
             f == tool[t].fifo
  <2>1. /\ tool' = [tool EXCEPT ![t] = r] /\ pipe' = [pipe EXCEPT ![f] = Append(@, t)]
        /\ tool[t].at = "write" /\ UNCHANGED <<daemon, stats_fifo, cut>>
    BY <1>1, <1>2 DEF Write
  <2>2. r.at = "write" /\ r.fifo = f /\ f \in Fifos
    BY <1>1, <2>1 DEF ToolRecords, TypeInv, ToolInv, ToolOK
  <2>3. Quiet(tool[t], r)
    BY <2>1, <2>2 DEF Quiet, Granted, Early, Written
  <2> HIDE DEF r, f
  <2> QED BY <1>1, <2>1, <2>2, <2>3, ServeToolStep DEF Written
<1> HIDE DEF Writes
<1>3. CASE ~Writes /\ \E s \in {"done", "failed"} : tool' = [tool EXCEPT ![t] = Ended(s)]
  <2>1. PICK s \in {"done", "failed"} : tool' = [tool EXCEPT ![t] = Ended(s)]
    BY <1>3
  <2>2. CASE RunCommand(t)
    BY <1>1, <2>1, <2>2, EndedQuiet, ServeToolStep DEF RunCommand
  <2>3. CASE GetQueue(t) \/ Send(t) \/ Confirmed(t) \/ Write(t) \/ CloseReport(t)
    <3>1. UNCHANGED <<daemon, stats_fifo, cut>>
      BY Zenon, <2>3 DEF GetQueue, Send, Confirmed, Write, CloseReport
    <3>2. UNCHANGED pipe \/ pipe' = LeftBy(t, pipe)
      <4>1. CASE Write(t)
        BY Zenon, <1>3, <4>1 DEF Write, Writes
      <4>2. CASE GetQueue(t) \/ Send(t) \/ Confirmed(t) \/ CloseReport(t)
        BY Zenon, <4>2 DEF GetQueue, Send, Confirmed, CloseReport
      <4> QED BY <2>3, <4>1, <4>2
    <3> QED BY Zenon, <1>1, <2>1, <3>1, <3>2, ServeToolEnds
  <2> QED BY <2>2, <2>3
<1>4. CASE ~Writes /\ ~ \E s \in {"done", "failed"} : tool' = [tool EXCEPT ![t] = Ended(s)]
  <2>1. RunCommand(t) \/ GetQueue(t) \/ Send(t) \/ Confirmed(t)
    BY Zenon, <1>4 DEF Write, CloseReport, Writes
  <2>2. (UNCHANGED daemon \/ StartDaemon) /\ UNCHANGED <<stats_fifo, pipe, cut>>
    BY Zenon, <2>1 DEF RunCommand, GetQueue, Send, Confirmed
  <2>3. tool' = [tool EXCEPT ![t] = tool'[t]]
    BY <1>1, <2>1 DEF RunCommand, GetQueue, Send, Confirmed
  <2>4. Quiet(tool[t], tool'[t])
    <3>1. CASE RunCommand(t)
      <4>1. tool'[t] = [tool[t] EXCEPT !.at = "find"]
        BY <1>1, <3>1 DEF RunCommand
      <4>2. tool'[t].at = "find" /\ tool'[t].response = tool[t].response /\ tool[t].at = "start"
        BY <1>1, <3>1, <4>1 DEF ToolRecords, RunCommand
      <4> QED BY <1>1, <4>2 DEF Quiet, Granted, Early, Written
    <3>2. CASE GetQueue(t)
      <4> DEFINE id == <<lock_file, tool[t].daemon_pid>>
      <4>1. tool'[t] = [tool[t] EXCEPT !.at = "send", !.queue_id = id]
        BY <1>1, <1>4, <3>2 DEF GetQueue
      <4> HIDE DEF id
      <4>2. tool'[t].at = "send" /\ tool'[t].response = tool[t].response /\ tool[t].at = "get_queue"
        BY <1>1, <3>2, <4>1 DEF ToolRecords, GetQueue
      <4> QED BY <1>1, <4>2 DEF Quiet, Granted, Early, Written
    <3>3. CASE Send(t)
      <4>1. tool'[t] = [tool[t] EXCEPT !.at = "wait"]
        BY <1>1, <1>4, <3>3 DEF Send
      <4>2. tool'[t].at = "wait" /\ tool'[t].response = tool[t].response /\ tool[t].at = "send"
        BY <1>1, <3>3, <4>1 DEF ToolRecords, Send
      <4> QED BY <1>1, <4>2, NamesAssumption DEF Quiet, Granted, Early, Written
    <3>4. CASE Confirmed(t)
      <4>1. tool'[t] = [tool[t] EXCEPT !.at = "open"] /\ Granted(tool[t]) /\ tool[t].at = "wait"
        BY <1>1, <1>4, <3>4 DEF Confirmed, Granted
      <4>2. tool'[t].at = "open"
        BY <1>1, <4>1 DEF ToolRecords
      <4> QED BY <4>1, <4>2 DEF Quiet, Early, Written
    <3> QED BY <2>1, <3>1, <3>2, <3>3, <3>4
  <2> QED BY <1>1, <2>2, <2>3, <2>4, ServeToolStep
<1> QED BY <1>2, <1>3, <1>4

\* A step of a daemon that serves no tool before it and none after it.
LEMMA ServeDaemonStep ==
    ASSUME TypeInv, ServeInv, NEW d \in Daemons, NEW r, daemon' = [daemon EXCEPT ![d] = r],
           daemon[d].at \notin Busy, r.at \notin Busy, r.serving = None,
           r.at \in Ready => stats_fifo' # None,
           r.at \in Ready =>
             \/ UNCHANGED stats_fifo /\ daemon[d].at \in Ready
             \/ \A t \in Tools : tool'[t].fifo # stats_fifo',
           \/ UNCHANGED stats_fifo
           \/ \A e \in Daemons : e # d => daemon[e].at \notin Ready,
           \A t \in Tools : tool'[t] = tool[t] \/ Quiet(tool[t], tool'[t]),
           UNCHANGED <<pipe, cut>>
    PROVE  ServeInv'
<1>1. \A e \in Daemons : daemon'[e] = IF e = d THEN r ELSE daemon[e]
  BY DEF TypeInv, DaemonInv
<1>2. \A e \in Daemons : daemon'[e].at \in Ready => stats_fifo' # None
  BY <1>1 DEF ServeInv
<1>3. PipeInv'
  BY PipeStep DEF ServeInv, Quiet
<1>4. \A e \in Daemons : daemon[e].at \in {"opening", "copy"} => UNCHANGED stats_fifo
  BY DEF Ready, Busy
<1>5. \A e \in Daemons : daemon'[e].at \in Ready =>
        \/ UNCHANGED stats_fifo /\ daemon[e].at \in Ready
        \/ \A t \in Tools : tool'[t].fifo # stats_fifo'
  BY <1>1
<1>6. \A e \in Daemons : \/ daemon'[e] = daemon[e]
                         \/ /\ daemon[e].at \notin Busy /\ daemon'[e].at \notin Busy
                            /\ daemon'[e].serving = None
  BY <1>1
<1> QED BY <1>2, <1>3, <1>4, <1>5, <1>6, QuietStep

LEMMA RefusedQuiet ==
    ASSUME TypeInv, NEW d \in Daemons, Refuse(d)
    PROVE  \A t \in Tools : tool'[t] = tool[t] \/ Quiet(tool[t], tool'[t])
<1> DEFINE u == Head(queue[daemon[d].queue_id])
<1>1. u \in Tools /\ Answer(u, "refused")
  BY Received DEF Refuse, Receive
<1> HIDE DEF u
<1>2. CASE tool[u].at # "wait"
  BY <1>1, <1>2 DEF Answer
<1>3. CASE tool[u].at = "wait"
  <2>1. u \in Users /\ tool[u] \in ToolRecords /\ tool \in [Users -> ToolRecords]
    BY <1>1 DEF Users, TypeInv, ToolInv
  <2>2. tool' = [tool EXCEPT ![u].response = "refused"]
    BY <1>1, <1>3 DEF Answer
  <2>3. tool'[u] = [tool[u] EXCEPT !.response = "refused"]
    BY <2>1, <2>2
  <2>4. tool'[u].at = "wait" /\ tool'[u].response = "refused"
    BY <1>3, <2>1, <2>3 DEF ToolRecords
  <2>5. Quiet(tool[u], tool'[u])
    BY <1>3, <2>4 DEF Quiet, Granted, Early, Written
  <2>6. ASSUME NEW t \in Tools, t # u PROVE tool'[t] = tool[t]
    BY <2>1, <2>2, <2>6 DEF Users
  <2> QED BY <2>5, <2>6
<1> QED BY <1>2, <1>3

\* What the steps of a daemon between two bookings change.
LEMMA IdleDaemon ==
    ASSUME TypeInv, LockInv, NEW d \in Daemons,
           \/ OpenLock(d) \/ SetLock(d) \/ GetDaemonQueue(d) \/ InstallHandlers(d)
           \/ RemoveFifo(d) \/ MakeFifo(d) \/ CheckInterrupt(d) \/ Refuse(d)
    PROVE  /\ daemon' = [daemon EXCEPT ![d] = daemon'[d]]
           /\ daemon[d].at \notin Busy /\ daemon'[d].at \notin Busy
           /\ daemon'[d].serving \in {None, daemon[d].serving}
           /\ daemon'[d].at \in Ready => \/ stats_fifo' \in FreeFifos /\ UNCHANGED tool
                                         \/ UNCHANGED stats_fifo /\ daemon[d].at \in Ready
           /\ UNCHANGED stats_fifo \/ \A e \in Daemons : e # d => daemon[e].at \notin Ready
           /\ UNCHANGED <<pipe, log, cut>>
<1>1. daemon[d] \in DaemonRecords /\ daemon \in [Daemons -> DaemonRecords]
  BY DEF TypeInv, DaemonInv
<1>2. daemon[d].at \notin Busy
  BY DEF OpenLock, SetLock, GetDaemonQueue, InstallHandlers, RemoveFifo, MakeFifo,
         CheckInterrupt, Refuse, Receive, Busy
<1>3. UNCHANGED <<pipe, log, cut>>
  BY Zenon DEF OpenLock, SetLock, GetDaemonQueue, InstallHandlers, RemoveFifo, MakeFifo,
         CheckInterrupt, Refuse
<1>4. \/ UNCHANGED stats_fifo
      \/ \A e \in Daemons : e # d => daemon[e].at \notin Ready
  <2>1. CASE RemoveFifo(d) \/ MakeFifo(d)
    <3>1. ASSUME NEW e \in Daemons, daemon[e].at \in Ready PROVE e = d
      BY <2>1, <3>1, OneServer DEF RemoveFifo, MakeFifo, Ready, Busy
    <3> QED BY <3>1
  <2>2. CASE ~(RemoveFifo(d) \/ MakeFifo(d))
    BY <2>2 DEF OpenLock, SetLock, GetDaemonQueue, InstallHandlers, CheckInterrupt, Refuse
  <2> QED BY <2>1, <2>2
<1>5. CASE daemon' = [daemon EXCEPT ![d] = NoDaemon]
  <2>1. NoDaemon.at = "none" /\ NoDaemon.serving = None
    BY DEF NoDaemon
  <2> QED BY <1>1, <1>2, <1>3, <1>4, <1>5, <2>1 DEF Busy, Ready
<1>6. CASE daemon' # [daemon EXCEPT ![d] = NoDaemon]
  <2>1. daemon' = [daemon EXCEPT ![d] = daemon'[d]]
    BY <1>1, <1>6 DEF OpenLock, SetLock, GetDaemonQueue, InstallHandlers, RemoveFifo,
           MakeFifo, CheckInterrupt, Refuse
  <2>2. /\ daemon'[d].serving = daemon[d].serving /\ daemon'[d].at \notin Busy
        /\ daemon'[d].at \in Ready => MakeFifo(d) \/ CheckInterrupt(d) \/ Refuse(d)
    <3>1. CASE OpenLock(d)
      <4>1. PICK i : daemon' = [daemon EXCEPT ![d].at = "set_lock", ![d].lock_fd = i]
        BY Zenon, <3>1 DEF OpenLock
      <4>2. daemon'[d] = [daemon[d] EXCEPT !.at = "set_lock", !.lock_fd = i]
        BY <1>1, <4>1
      <4>3. daemon'[d].at = "set_lock" /\ daemon'[d].serving = daemon[d].serving
        BY <1>1, <4>2 DEF DaemonRecords
      <4> QED BY <4>3 DEF Busy, Ready
    <3>2. CASE SetLock(d)
      <4>1. daemon'[d] = [daemon[d] EXCEPT !.at = "get_queue", !.locked = TRUE]
        BY <1>1, <1>6, <3>2 DEF SetLock
      <4>2. daemon'[d].at = "get_queue" /\ daemon'[d].serving = daemon[d].serving
        BY <1>1, <4>1 DEF DaemonRecords
      <4> QED BY <4>2 DEF Busy, Ready
    <3>3. CASE GetDaemonQueue(d)
      <4> DEFINE id == <<lock_file, d>>
      <4>1. daemon'[d] = [daemon[d] EXCEPT !.at = "handlers", !.queue_id = id]
        BY <1>1, <1>6, <3>3 DEF GetDaemonQueue
      <4> HIDE DEF id
      <4>2. daemon'[d].at = "handlers" /\ daemon'[d].serving = daemon[d].serving
        BY <1>1, <4>1 DEF DaemonRecords
      <4> QED BY <4>2 DEF Busy, Ready
    <3>4. CASE \/ InstallHandlers(d) \/ RemoveFifo(d) \/ MakeFifo(d) \/ CheckInterrupt(d)
               \/ Refuse(d)
      <4>1. PICK s \in {"remove_fifo", "make_fifo", "check", "finalize", "receive"} :
              /\ daemon'[d] = [daemon[d] EXCEPT !.at = s]
              /\ s \in Ready => MakeFifo(d) \/ CheckInterrupt(d) \/ Refuse(d)
        BY <1>1, <1>6, <3>4 DEF InstallHandlers, RemoveFifo, MakeFifo, CheckInterrupt,
               Refuse, Ready, Busy
      <4>2. daemon'[d].at = s /\ daemon'[d].serving = daemon[d].serving
        BY <1>1, <4>1 DEF DaemonRecords
      <4> QED BY <4>1, <4>2 DEF Busy
    <3> QED BY <3>1, <3>2, <3>3, <3>4
  <2>3. daemon'[d].at \in Ready => \/ stats_fifo' \in FreeFifos /\ UNCHANGED tool
                                   \/ UNCHANGED stats_fifo /\ daemon[d].at \in Ready
    <3>1. CASE MakeFifo(d)
      <4>1. stats_fifo' \in FreeFifos
        BY <1>6, <3>1 DEF MakeFifo
      <4>2. UNCHANGED tool
        BY Zenon, <3>1 DEF MakeFifo
      <4> QED BY Zenon, <4>1, <4>2
    <3>2. CASE CheckInterrupt(d) \/ Refuse(d)
      BY <3>2 DEF CheckInterrupt, Refuse, Receive, Ready
    <3> QED BY <2>2, <3>1, <3>2
  <2> QED BY <1>2, <1>3, <1>4, <2>1, <2>2, <2>3
<1> QED BY <1>5, <1>6

LEMMA ServeIdleDaemon ==
    ASSUME TypeInv, LockInv, ServeInv, NEW d \in Daemons,
           \/ OpenLock(d) \/ SetLock(d) \/ GetDaemonQueue(d) \/ InstallHandlers(d)
           \/ RemoveFifo(d) \/ MakeFifo(d) \/ CheckInterrupt(d) \/ Refuse(d)
    PROVE  ServeInv'
<1> DEFINE r == daemon'[d]
<1>1. /\ daemon' = [daemon EXCEPT ![d] = r]
      /\ daemon[d].at \notin Busy /\ r.at \notin Busy
      /\ r.serving \in {None, daemon[d].serving}
      /\ r.at \in Ready => \/ stats_fifo' \in FreeFifos /\ UNCHANGED tool
                           \/ UNCHANGED stats_fifo /\ daemon[d].at \in Ready
      /\ UNCHANGED stats_fifo \/ \A e \in Daemons : e # d => daemon[e].at \notin Ready
      /\ UNCHANGED <<pipe, cut>>
  BY IdleDaemon
<1>2. \A t \in Tools : tool'[t] = tool[t] \/ Quiet(tool[t], tool'[t])
  <2>1. CASE Refuse(d)
    BY <2>1, RefusedQuiet
  <2>2. CASE ~Refuse(d)
    BY <2>2 DEF OpenLock, SetLock, GetDaemonQueue, InstallHandlers, RemoveFifo, MakeFifo,
           CheckInterrupt
  <2> QED BY <2>1, <2>2
<1> HIDE DEF r
<1>3. r.serving = None
  BY <1>1 DEF ServeInv
<1>4. r.at \in Ready =>
        /\ stats_fifo' # None
        /\ \/ UNCHANGED stats_fifo /\ daemon[d].at \in Ready
           \/ \A t \in Tools : tool'[t].fifo # stats_fifo'
  BY <1>1, NamesAssumption DEF ServeInv, FreeFifos
<1> QED BY <1>1, <1>2, <1>3, <1>4, ServeDaemonStep

\* While a daemon is between two bookings no tool is told to write.
LEMMA NobodyGranted ==
    ASSUME LockInv, ServeInv, NEW d \in Daemons, daemon[d].at \notin Busy,
           daemon[d].at \notin {"none", "open_lock", "set_lock"}
    PROVE  \A t \in Tools \ cut : ~Granted(tool[t])
<1>1. SUFFICES ASSUME NEW t \in Tools \ cut, Granted(tool[t]) PROVE FALSE
  OBVIOUS
<1>2. PICK e \in Daemons : daemon[e].serving = t
  BY <1>1 DEF ServeInv
<1>3. daemon[e].at \in Busy
  BY <1>2, NamesAssumption DEF ServeInv
<1>4. d = e
  BY <1>3, OneServer DEF Busy
<1> QED BY <1>3, <1>4

LEMMA ServeGrant ==
    ASSUME TypeInv, LockInv, ServeInv, NEW d \in Daemons, Grant(d)
    PROVE  ServeInv'
<1> DEFINE u == Head(queue[daemon[d].queue_id])
           r == [daemon[d] EXCEPT !.at = "open", !.serving = u]
<1>1. /\ daemon[d] \in DaemonRecords /\ daemon \in [Daemons -> DaemonRecords]
      /\ daemon[d].at = "receive" /\ tool \in [Users -> ToolRecords]
  BY DEF TypeInv, DaemonInv, ToolInv, Grant, Receive
<1>2. u \in Tools /\ Answer(u, "granted") /\ UNCHANGED stats_fifo
  BY Received DEF Grant, Receive
<1>3. daemon' = [daemon EXCEPT ![d] = r]
  BY <1>1 DEF Grant
<1> HIDE DEF u
<1>4. r.at = "open" /\ r.serving = u
  BY <1>1 DEF DaemonRecords
<1> HIDE DEF r
<1>5. \A e \in Daemons : daemon'[e] = IF e = d THEN r ELSE daemon[e]
  BY <1>1, <1>3
<1>6. \A t \in Tools \ cut : ~Granted(tool[t])
  BY <1>1, NobodyGranted DEF Busy
<1>7. \A t \in Tools : t # u => tool'[t] = tool[t]
  BY <1>1, <1>2 DEF Answer, Users
<1>8. tool'[u] = tool[u] \/ tool'[u].at = "wait"
  <2>1. CASE tool[u].at # "wait"
    BY <1>2, <2>1 DEF Answer
  <2>2. CASE tool[u].at = "wait"
    <3>1. u \in Users /\ tool[u] \in ToolRecords
      BY <1>1, <1>2 DEF Users
    <3>2. tool'[u] = [tool[u] EXCEPT !.response = "granted"]
      BY <1>1, <1>2, <2>2, <3>1 DEF Answer
    <3> QED BY <2>2, <3>1, <3>2 DEF ToolRecords
  <2> QED BY <2>1, <2>2
<1>9. \A e \in Daemons : daemon'[e].serving # None <=> daemon'[e].at \in Busy
  BY <1>2, <1>4, <1>5, NamesAssumption DEF ServeInv, Busy
<1>10. \A e \in Daemons : daemon'[e].at \in Ready => stats_fifo' # None
  BY <1>1, <1>2, <1>5 DEF ServeInv, Ready
<1>11. \A e \in Daemons : daemon'[e].at # "copy"
  BY <1>1, <1>4, <1>5, OneServer
<1>12. \A t \in Tools : tool'[t].at \in Early => tool'[t].response = None
  BY <1>2, <1>7, <1>8 DEF ServeInv, Early
<1>13. ASSUME NEW t \in Tools \ cut, Granted(tool'[t])
       PROVE  \E e \in Daemons : daemon'[e].serving = t
  BY <1>4, <1>5, <1>6, <1>7, <1>13
<1>14. ASSUME NEW t \in Tools \ cut PROVE tool'[t].at # "write"
  <2>1. tool[t].at # "write"
    BY <1>6 DEF Granted
  <2> QED BY <1>7, <1>8, <2>1
<1>15. UNCHANGED <<pipe, cut>>
  BY DEF Grant
<1>16. \A t \in Tools : tool[t].at \in Written => tool'[t] = tool[t]
  BY <1>2, <1>7 DEF Answer, Written
<1>17. PipeInv'
  BY <1>15, <1>16, PipeStep DEF ServeInv
<1>18. CutInv'
  <2>1. \A t \in cut : tool'[t] = tool[t]
    BY <1>16 DEF TypeInv, FileInv, ServeInv, CutInv
  <2>2. \A e \in Daemons : daemon'[e].at \in {"opening", "copy"} =>
          e # d /\ daemon'[e] = daemon[e]
    BY <1>4, <1>5
  <2>3. \A e \in Daemons : daemon'[e].at \in Ready => daemon[e].at \in Ready
    BY <1>1, <1>5 DEF Ready
  <2> QED BY <1>2, <1>15, <2>1, <2>2, <2>3 DEF ServeInv, CutInv
<1> QED BY <1>9, <1>10, <1>11, <1>12, <1>13, <1>14, <1>15, <1>17, <1>18 DEF ServeInv

\* A tool that opens the FIFO has been granted, so the daemon that may wait for
\* it there is the one that serves it.
LEMMA ServeOpenFifoToWrite ==
    ASSUME TypeInv, LockInv, ServeInv, NEW t \in Tools, OpenFifoToWrite(t)
    PROVE  ServeInv'
<1>1. /\ t \in Users /\ tool[t] \in ToolRecords /\ tool \in [Users -> ToolRecords]
      /\ tool[t].at = "open" /\ daemon \in [Daemons -> DaemonRecords]
      /\ t \notin cut /\ UNCHANGED <<pipe, cut>>
  BY DEF Users, TypeInv, ToolInv, DaemonInv, OpenFifoToWrite, ServeInv, CutInv, Written
<1>2. CASE stats_fifo = None
  BY <1>1, <1>2, ServeToolEnds DEF OpenFifoToWrite
<1>3. CASE stats_fifo # None
  <2> DEFINE readers == Readers(stats_fifo)
             at == IF readers = {} THEN "opening" ELSE "write"
             r == [tool[t] EXCEPT !.at = at, !.fifo = stats_fifo]
  <2>1. at \in {"opening", "write"} /\ (at = "write" <=> readers # {})
    OBVIOUS
  <2>2. \A u \in Tools : tool'[u] = IF u = t THEN r ELSE tool[u]
    BY <1>1, <1>3 DEF OpenFifoToWrite, Users
  <2>3. /\ \A e \in Daemons : daemon'[e] = IF e \in readers THEN [daemon[e] EXCEPT !.at = "copy"]
                                             ELSE daemon[e]
        /\ UNCHANGED stats_fifo
    BY <1>3 DEF OpenFifoToWrite
  <2>4. \A e \in readers : e \in Daemons /\ daemon[e].fifo = stats_fifo
    BY DEF Readers
  <2> HIDE DEF at, readers
  <2>5. r.at = at /\ r.fifo = stats_fifo
    BY <1>1 DEF ToolRecords
  <2> HIDE DEF r
  <2>6. PICK d \in Daemons : daemon[d].serving = t /\ daemon[d].at \in Busy
    <3>1. t \notin cut /\ Granted(tool[t])
      BY <1>1 DEF Granted
    <3>2. PICK d \in Daemons : daemon[d].serving = t
      BY <3>1 DEF ServeInv
    <3> QED BY <3>2, NamesAssumption DEF ServeInv
  <2>7. \A e \in readers : e = d
    <3>1. \A e \in readers : daemon[e].at \in {"opening", "copy"}
      BY <1>3, <2>4 DEF TypeInv, DaemonInv, DaemonOK
    <3> QED BY <2>4, <2>6, <3>1, OneServer DEF Busy
  <2>8. daemon[d].at # "copy"
    BY <1>1, <2>6 DEF ServeInv, Written
  <2>9. ASSUME NEW e \in Daemons
        PROVE  /\ daemon'[e].serving = daemon[e].serving
               /\ daemon'[e].fifo = daemon[e].fifo
               /\ daemon'[e].at = IF e \in readers THEN "copy" ELSE daemon[e].at
    <3>1. daemon[e] \in DaemonRecords
      BY <1>1
    <3> QED BY <2>3, <3>1 DEF DaemonRecords
  <2>10. \A e \in Daemons : daemon'[e].serving # None <=> daemon'[e].at \in Busy
    BY <2>6, <2>7, <2>9 DEF ServeInv, Busy
  <2>11. \A e \in Daemons : daemon'[e].at \in Ready => stats_fifo' # None
    BY <1>3, <2>3
  <2>12. ASSUME NEW e \in Daemons, daemon'[e].at = "copy"
         PROVE  tool'[daemon'[e].serving].at \in Written
    <3>1. CASE e \in readers
      BY <2>1, <2>2, <2>5, <2>6, <2>7, <2>9, <3>1 DEF Written
    <3>2. CASE e \notin readers
      <4>1. daemon[e].at = "copy"
        BY <2>9, <2>12, <3>2
      <4>2. e = d
        BY <2>6, <4>1, OneServer DEF Busy
      <4> QED BY <2>8, <4>1, <4>2
    <3> QED BY <3>1, <3>2
  <2>13. \A u \in Tools : tool'[u].at \in Early => tool'[u].response = None
    BY <2>1, <2>2, <2>5 DEF ServeInv, Early
  <2>14. ASSUME NEW u \in Tools \ cut, Granted(tool'[u])
         PROVE  \E e \in Daemons : daemon'[e].serving = u
    <3>1. CASE u = t
      BY <2>6, <2>9, <3>1
    <3>2. CASE u # t
      <4>1. PICK e \in Daemons : daemon[e].serving = u
        BY <2>2, <2>14, <3>2 DEF ServeInv
      <4> QED BY <2>9, <4>1
    <3> QED BY <3>1, <3>2
  <2>15. ASSUME NEW u \in Tools \ cut, tool'[u].at = "write"
         PROVE  \E e \in Daemons : daemon'[e].at = "copy" /\ daemon'[e].fifo = tool'[u].fifo
    <3>1. CASE u = t
      <4>1. PICK e \in readers : TRUE
        BY <2>1, <2>2, <2>5, <2>15, <3>1
      <4> QED BY <2>2, <2>4, <2>5, <2>9, <3>1, <4>1
    <3>2. CASE u # t
      <4>1. tool'[u] = tool[u]
        BY <2>2, <3>2
      <4>2. PICK e \in Daemons : daemon[e].at = "copy" /\ daemon[e].fifo = tool[u].fifo
        BY <2>15, <4>1 DEF ServeInv
      <4> QED BY <2>9, <4>1, <4>2
    <3> QED BY <3>1, <3>2
  <2>16. \A u \in Tools : tool[u].at \in Written => tool'[u] = tool[u]
    BY <1>1, <2>2 DEF Written
  <2>17. PipeInv'
    BY <1>1, <2>16, PipeStep DEF ServeInv
  <2>18. CutInv'
    <3>1. \A u \in cut : u \in Tools /\ tool'[u] = tool[u]
      BY <2>16 DEF TypeInv, FileInv, ServeInv, CutInv
    <3>2. ASSUME NEW e \in Daemons, daemon'[e].at \in {"opening", "copy"}
          PROVE  daemon'[e].fifo = stats_fifo'
      BY <2>3, <2>4, <2>9, <3>2 DEF ServeInv, CutInv
    <3>3. \A e \in Daemons : daemon'[e].at \in Ready => daemon[e].at \in Ready
      BY <2>6, <2>7, <2>9 DEF Ready
    <3> QED BY <1>1, <2>3, <3>1, <3>2, <3>3 DEF ServeInv, CutInv
  <2> QED BY <1>1, <2>10, <2>11, <2>12, <2>13, <2>14, <2>15, <2>17, <2>18 DEF ServeInv
<1> QED BY <1>2, <1>3

LEMMA ServeOpenFifoToRead ==
    ASSUME TypeInv, LockInv, ServeInv, NEW d \in Daemons, OpenFifoToRead(d)
    PROVE  ServeInv'
<1>1. /\ daemon[d] \in DaemonRecords /\ daemon \in [Daemons -> DaemonRecords]
      /\ daemon[d].at = "open" /\ tool \in [Users -> ToolRecords] /\ stats_fifo # None
      /\ UNCHANGED <<pipe, cut>>
  BY DEF TypeInv, DaemonInv, ToolInv, OpenFifoToRead, ServeInv, Ready, Busy
<1> DEFINE writers == Writers(stats_fifo)
           at == IF writers = {} THEN "opening" ELSE "copy"
           r == [daemon[d] EXCEPT !.at = at, !.fifo = stats_fifo]
<1>2. at \in {"opening", "copy"} /\ (at = "copy" <=> writers # {})
  OBVIOUS
<1>3. /\ \A e \in Daemons : daemon'[e] = IF e = d THEN r ELSE daemon[e]
      /\ \A t \in Tools : tool'[t] = IF t \in writers THEN [tool[t] EXCEPT !.at = "write"]
                                     ELSE tool[t]
      /\ UNCHANGED stats_fifo
  <2>1. daemon' = [daemon EXCEPT ![d] = r] /\ UNCHANGED stats_fifo
    BY <1>1 DEF OpenFifoToRead
  <2>2. \A t \in Tools : tool'[t] = IF t \in writers THEN [tool[t] EXCEPT !.at = "write"]
                                    ELSE tool[t]
    BY <1>1 DEF OpenFifoToRead, Users
  <2> HIDE DEF r, writers
  <2> QED BY <1>1, <2>1, <2>2
<1>4. \A t \in writers : t \in Tools /\ tool[t].fifo = stats_fifo /\ t \notin cut
  <2>1. \A t \in cut : tool[t].fifo # stats_fifo
    BY <1>1 DEF ServeInv, CutInv, Ready, Busy
  <2> QED BY <2>1 DEF Writers
<1> HIDE DEF at, writers
<1>5. r.at = at /\ r.fifo = stats_fifo /\ r.serving = daemon[d].serving
  BY <1>1 DEF DaemonRecords
<1> HIDE DEF r
<1>6. ASSUME NEW t \in Tools
      PROVE  /\ tool'[t].fifo = tool[t].fifo /\ tool'[t].response = tool[t].response
             /\ tool'[t].at = IF t \in writers THEN "write" ELSE tool[t].at
  <2>1. tool[t] \in ToolRecords
    BY <1>1 DEF Users
  <2> QED BY <1>3, <2>1 DEF ToolRecords
<1>7. ASSUME NEW t \in writers PROVE Granted(tool[t]) /\ daemon[d].serving = t
  <2>1. Granted(tool[t])
    <3>1. t \in Users /\ tool[t].fifo # None
      BY <1>1, <1>4 DEF Users
    <3>2. tool[t].at \in {"opening", "write"}
      BY <3>1 DEF TypeInv, ToolInv, ToolOK
    <3> QED BY <3>2 DEF Granted
  <2>2. PICK e \in Daemons : daemon[e].serving = t
    BY <1>4, <2>1 DEF ServeInv
  <2>3. daemon[e].at \in Busy
    BY <1>4, <2>2, NamesAssumption DEF ServeInv
  <2>4. e = d
    BY <1>1, <2>3, OneServer DEF Busy
  <2> QED BY <2>1, <2>2, <2>4
<1>8. \A e \in Daemons : daemon'[e].serving # None <=> daemon'[e].at \in Busy
  BY <1>1, <1>2, <1>3, <1>5 DEF ServeInv, Busy
<1>9. \A e \in Daemons : daemon'[e].at \in Ready => stats_fifo' # None
  BY <1>1, <1>3
<1>10. ASSUME NEW e \in Daemons, daemon'[e].at = "copy"
       PROVE  tool'[daemon'[e].serving].at \in Written
  <2>1. e = d
    BY <1>1, <1>3, <1>10, OneServer
  <2>2. PICK t \in writers : TRUE
    BY <1>2, <1>3, <1>5, <1>10, <2>1
  <2> QED BY <1>3, <1>4, <1>5, <1>6, <1>7, <2>1, <2>2 DEF Written
<1>11. \A t \in Tools : tool'[t].at \in Early => tool'[t].response = None
  BY <1>6 DEF ServeInv, Early
<1>12. ASSUME NEW t \in Tools \ cut, Granted(tool'[t])
       PROVE  \E e \in Daemons : daemon'[e].serving = t
  <2>1. Granted(tool[t])
    BY <1>6, <1>7, <1>12 DEF Granted
  <2>2. PICK e \in Daemons : daemon[e].serving = t
    BY <2>1 DEF ServeInv
  <2> QED BY <1>3, <1>5, <2>2
<1>13. ASSUME NEW t \in Tools \ cut, tool'[t].at = "write"
       PROVE  \E e \in Daemons : daemon'[e].at = "copy" /\ daemon'[e].fifo = tool'[t].fifo
  <2>1. CASE t \in writers
    BY <1>2, <1>3, <1>4, <1>5, <1>6, <2>1
  <2>2. CASE t \notin writers
    <3>1. PICK e \in Daemons : daemon[e].at = "copy" /\ daemon[e].fifo = tool[t].fifo
      BY <1>6, <1>13, <2>2 DEF ServeInv
    <3>2. e # d
      BY <1>1, <3>1
    <3> QED BY <1>3, <1>6, <3>1, <3>2
  <2> QED BY <2>1, <2>2
<1>14. PipeInv'
  <2>1. \A t \in Tools : tool[t].at \in Written => tool'[t].at \in Written
    BY <1>6 DEF Written
  <2> QED BY <1>1, <2>1, PipeStep DEF ServeInv
<1>15. CutInv'
  <2>1. \A t \in cut : t \in Tools /\ tool'[t] = tool[t]
    BY <1>3, <1>4 DEF TypeInv, FileInv
  <2>2. \A e \in Daemons : daemon'[e].at \in {"opening", "copy"} => daemon'[e].fifo = stats_fifo'
    BY <1>3, <1>5 DEF ServeInv, CutInv
  <2>3. \A e \in Daemons : daemon'[e].at \in Ready => daemon[e].at \in Ready
    BY <1>1, <1>3 DEF Ready, Busy
  <2> QED BY <1>1, <1>3, <2>1, <2>2, <2>3 DEF ServeInv, CutInv
<1> QED BY <1>1, <1>8, <1>9, <1>10, <1>11, <1>12, <1>13, <1>14, <1>15 DEF ServeInv

\* read() returns 0 only when the tool that is served has closed the FIFO, or is
\* dead: the next booking is not answered before that.
LEMMA ServeEndOfReport ==
    ASSUME TypeInv, LockInv, ServeInv, NEW d \in Daemons, EndOfReport(d)
    PROVE  ServeInv'
<1> DEFINE r == [daemon[d] EXCEPT !.at = "check", !.serving = None, !.fifo = None]
<1>1. /\ daemon[d] \in DaemonRecords /\ daemon \in [Daemons -> DaemonRecords]
      /\ daemon[d].at = "copy" /\ UNCHANGED <<tool, stats_fifo, pipe, cut>>
  BY DEF TypeInv, DaemonInv, EndOfReport
<1>2. r.at = "check" /\ r.serving = None
  BY <1>1 DEF DaemonRecords
<1>3. \A e \in Daemons : daemon'[e] = IF e = d THEN r ELSE daemon[e]
  BY <1>1 DEF EndOfReport
<1> HIDE DEF r
<1>4. ASSUME NEW t \in Tools \ cut PROVE tool[t].at # "write"
  <2>1. SUFFICES ASSUME tool[t].at = "write" PROVE FALSE
    OBVIOUS
  <2>2. PICK e \in Daemons : daemon[e].at = "copy" /\ daemon[e].fifo = tool[t].fifo
    BY <2>1 DEF ServeInv
  <2>3. e = d
    BY <1>1, <2>2, OneServer
  <2> QED BY <2>2, <2>3 DEF EndOfReport, Writers
<1>5. ASSUME NEW t \in Tools \ cut PROVE ~Granted(tool[t])
  <2>1. SUFFICES ASSUME Granted(tool[t]) PROVE FALSE
    OBVIOUS
  <2>2. PICK e \in Daemons : daemon[e].serving = t
    BY <2>1 DEF ServeInv
  <2>3. daemon[e].at \in Busy
    BY <2>2, NamesAssumption DEF ServeInv
  <2>4. e = d
    BY <1>1, <2>3, OneServer DEF Busy
  <2>5. tool[t].at \in Written
    BY <1>1, <2>2, <2>4 DEF ServeInv
  <2> QED BY <1>4, <2>1, <2>5 DEF Granted, Written
<1>6. \A e \in Daemons : daemon'[e].at # "copy"
  BY <1>1, <1>2, <1>3, OneServer
<1>7. \A e \in Daemons : daemon'[e].serving # None <=> daemon'[e].at \in Busy
  BY <1>2, <1>3 DEF ServeInv, Busy
<1>8. \A e \in Daemons : daemon'[e].at \in Ready => stats_fifo' # None
  BY <1>1, <1>3 DEF ServeInv, Ready, Busy
<1>9. PipeInv' /\ CutInv'
  BY <1>1, <1>2, <1>3 DEF ServeInv, PipeInv, CutInv, Ready, Busy
<1> QED BY <1>1, <1>4, <1>5, <1>6, <1>7, <1>8, <1>9 DEF ServeInv

\* The daemon that cannot write the log leaves nobody who has been told to write,
\* but for the tool whose report it was copying.
LEMMA ServeCopyFails ==
    ASSUME TypeInv, LockInv, ServeInv, NEW d \in Daemons, CopyFails(d)
    PROVE  ServeInv'
<1> DEFINE f == daemon[d].fifo
<1>1. /\ daemon[d].at = "copy" /\ UNCHANGED <<tool, stats_fifo>> /\ pipe[f] # <<>>
      /\ cut' = cut \cup Writers(f) \cup {pipe[f][i] : i \in DOMAIN pipe[f]}
      /\ pipe' = LeftBy(d, [pipe EXCEPT ![f] = Tail(@)])
  BY Zenon DEF CopyFails
<1>2. \A e \in Daemons : daemon'[e] = IF e = d THEN NoDaemon ELSE daemon[e]
  BY DEF CopyFails, TypeInv, DaemonInv
<1>3. NoDaemon.at = "none" /\ NoDaemon.serving = None
  BY DEF NoDaemon
<1>4. f \in Fifos /\ pipe \in [Fifos -> Seq(Tools)]
  BY <1>1, ChunkRead DEF TypeInv, FileInv
<1> HIDE DEF f
<1>5. \A e \in Daemons : daemon'[e].at \notin Ready
  BY <1>1, <1>2, <1>3, OneServer DEF Ready, Busy
<1>6. \A e \in Daemons : daemon'[e].serving # None <=> daemon'[e].at \in Busy
  BY <1>2, <1>3 DEF ServeInv, Busy
<1>7. ASSUME NEW t \in Tools, tool[t].at = "write" PROVE t \in cut'
  <2>1. SUFFICES ASSUME t \notin cut PROVE t \in cut'
    BY <1>1
  <2>2. PICK e \in Daemons : daemon[e].at = "copy" /\ daemon[e].fifo = tool[t].fifo
    BY <1>7, <2>1 DEF ServeInv
  <2>3. e = d
    BY <1>1, <2>2, OneServer
  <2> QED BY <1>1, <2>2, <2>3 DEF Writers, f
<1>8. ASSUME NEW t \in Tools \ cut', Granted(tool[t]) PROVE FALSE
  <2>1. PICK e \in Daemons : daemon[e].serving = t
    BY <1>1, <1>8 DEF ServeInv
  <2>2. daemon[e].at \in Busy
    BY <2>1, NamesAssumption DEF ServeInv
  <2>3. e = d
    BY <1>1, <2>2, OneServer DEF Busy
  <2>4. tool[t].at \in Written
    BY <1>1, <2>1, <2>3 DEF ServeInv
  <2> QED BY <1>7, <1>8, <2>4 DEF Granted, Written
<1>9. PipeInv'
  <2>1. ASSUME NEW g \in Fifos, NEW i \in DOMAIN pipe'[g]
        PROVE  \E j \in DOMAIN pipe[g] : pipe'[g][i] = pipe[g][j]
    <3>1. pipe'[g] \in {pipe[g], Tail(pipe[g]), <<>>} /\ (pipe'[g] = Tail(pipe[g]) => pipe[g] # <<>>)
      BY <1>1, <1>4 DEF LeftBy
    <3>2. CASE pipe'[g] = pipe[g]
      BY <3>2
    <3>3. CASE pipe'[g] = Tail(pipe[g])
      <4>1. pipe[g] \in Seq(Tools) /\ pipe[g] # <<>> /\ i \in DOMAIN Tail(pipe[g])
        BY <1>4, <3>1, <3>3
      <4>2. i + 1 \in DOMAIN pipe[g] /\ Tail(pipe[g])[i] = pipe[g][i + 1]
        BY <4>1
      <4> QED BY <3>3, <4>2
    <3>4. CASE pipe'[g] = <<>>
      BY <3>4
    <3> QED BY <3>1, <3>2, <3>3, <3>4
  <2>2. ASSUME NEW g \in Fifos, NEW i \in DOMAIN pipe'[g] PROVE tool'[pipe'[g][i]].at \in Written
    BY Zenon, <1>1, <2>1, <2>2 DEF ServeInv, PipeInv
  <2> QED BY <2>2 DEF PipeInv
<1>10. CutInv'
  <2>1. ASSUME NEW t \in cut' PROVE tool[t].at \in Written
    <3>1. CASE t \in cut
      BY <3>1 DEF ServeInv, CutInv
    <3>2. CASE t \in Writers(f)
      <4>1. t \in Tools /\ tool[t].at \in {"opening", "write"}
        BY <1>4, <3>2, NamesAssumption DEF Writers, Users, TypeInv, ToolInv, ToolOK
      <4>2. SUFFICES ASSUME tool[t].at = "opening", t \notin cut PROVE FALSE
        BY <3>1, <4>1 DEF Written
      <4>3. PICK e \in Daemons : daemon[e].serving = t
        BY <4>1, <4>2 DEF ServeInv, Granted
      <4>4. e = d
        BY <1>1, <4>1, <4>3, OneServer, NamesAssumption DEF ServeInv, Busy
      <4> QED BY <1>1, <4>2, <4>3, <4>4 DEF ServeInv, Written
    <3>3. CASE t \in {pipe[f][i] : i \in DOMAIN pipe[f]}
      BY <1>4, <3>3 DEF ServeInv, PipeInv
    <3> QED BY <1>1, <3>1, <3>2, <3>3
  <2> QED BY <1>1, <1>5, <2>1 DEF CutInv, Ready, Busy
<1> QED BY <1>1, <1>5, <1>6, <1>7, <1>8, <1>9, <1>10 DEF ServeInv, Ready, Busy

LEMMA ServeCopyChunk ==
    ASSUME TypeInv, LockInv, ServeInv, NEW d \in Daemons, CopyChunk(d)
    PROVE  ServeInv'
<1> DEFINE f == daemon[d].fifo
<1>1. /\ UNCHANGED <<tool, daemon, stats_fifo, cut>> /\ pipe' = [pipe EXCEPT ![f] = Tail(@)]
      /\ pipe[f] # <<>>
  BY DEF CopyChunk
<1>2. f \in Fifos /\ pipe \in [Fifos -> Seq(Tools)]
  BY ChunkRead DEF CopyChunk, TypeInv, FileInv
<1> HIDE DEF f
<1>3. ASSUME NEW g \in Fifos, NEW i \in DOMAIN pipe'[g]
      PROVE  \E j \in DOMAIN pipe[g] : pipe'[g][i] = pipe[g][j]
  <2>1. CASE g = f
    <3>1. pipe[f] \in Seq(Tools) /\ pipe[f] # <<>> /\ pipe'[f] = Tail(pipe[f])
      BY <1>1, <1>2
    <3>2. i + 1 \in DOMAIN pipe[f] /\ Tail(pipe[f])[i] = pipe[f][i + 1]
      BY <2>1, <3>1
    <3> QED BY <2>1, <3>1, <3>2
  <2>2. CASE g # f
    BY <1>1, <1>2, <2>2
  <2> QED BY <2>1, <2>2
<1>4. PipeInv'
  BY <1>1, <1>3 DEF ServeInv, PipeInv
<1>5. CutInv'
  BY <1>1 DEF ServeInv, CutInv
<1> QED BY <1>1, <1>4, <1>5 DEF ServeInv

LEMMA ServeNext ==
    NoStop /\ ~JobControl /\ TypeInv /\ LockInv /\ ServeInv /\ [Next]_vars => ServeInv'
<1> SUFFICES ASSUME NoStop, ~JobControl, TypeInv, LockInv, ServeInv, [Next]_vars
             PROVE  ServeInv'
  OBVIOUS
<1>1. CASE UNCHANGED vars
  BY <1>1 DEF vars, ServeInv, PipeInv, CutInv
<1>2. CASE \E t \in Tools : Tool(t)
  BY <1>2, ServeTool, ServeOpenFifoToWrite DEF Tool
<1>3. CASE \E s \in Stoppers : Stopper(s)
  BY <1>3 DEF NoStop
<1>4. CASE \E u \in Users : FindDaemon(u)
  BY <1>4, ServeFindDaemon
<1>5. CASE \E d \in Daemons : Daemon(d)
  <2>1. PICK d \in Daemons : Daemon(d)
    BY <1>5
  <2>2. LockOK(daemon[d], lock_file)
    BY DEF LockInv
  <2>3. ~(RemoveQueue(d) \/ UnlinkFifo(d) \/ UnlinkLock(d))
    BY <2>2 DEF LockOK, RemoveQueue, UnlinkFifo, UnlinkLock
  <2> QED BY <2>1, <2>3, ServeIdleDaemon, ServeGrant, ServeOpenFifoToRead, ServeCopyChunk,
             ServeCopyFails, ServeEndOfReport DEF Daemon
<1>6. CASE Environment
  BY <1>6, ServeToolEnds DEF Environment, ToolDies, Resumed
<1> QED BY <1>1, <1>2, <1>3, <1>4, <1>5, <1>6 DEF Next

LEMMA ServeInit == Init => ServeInv
  BY NamesAssumption DEF Init, ServeInv, PipeInv, CutInv, NewTool, NoDaemon, Busy, Ready,
     Granted, Early, Users

LEMMA ServeAlways ==
    ASSUME NoStop, ~JobControl PROVE Spec => [](TypeInv /\ LockInv /\ ServeInv)
<1>1. TypeInv /\ LockInv /\ ServeInv /\ [Next]_vars => (TypeInv /\ LockInv /\ ServeInv)'
  BY TypeStep, LockNext, ServeNext
<1> QED BY <1>1, TypeInit, LockInit, ServeInit, PTL DEF Spec

\* The logger enables one run at a time, provided that nobody runs the tool with
\* -s and no shell sends it SIGCONT; tools may be killed at any moment, and a daemon
\* that cannot write the log may die in the middle of a report: what is left of that
\* report nobody reads.
THEOREM OneToolAtOnce == ASSUME NoStop, ~JobControl PROVE Spec => []OneToolAtATime
<1>1. LockInv /\ ServeInv => OneToolAtATime
  <2> SUFFICES ASSUME LockInv, ServeInv, NEW t \in Writing, NEW u \in Writing PROVE t = u
    BY DEF OneToolAtATime
  <2>1. /\ t \in Tools \ cut /\ Granted(tool[t])
        /\ u \in Tools \ cut /\ Granted(tool[u])
    BY DEF Writing, Granted
  <2>2. PICK d \in Daemons, e \in Daemons : daemon[d].serving = t /\ daemon[e].serving = u
    BY <2>1 DEF ServeInv
  <2>3. daemon[d].at \in Busy /\ daemon[e].at \in Busy
    BY <2>1, <2>2, NamesAssumption DEF ServeInv
  <2>4. d = e
    BY <2>3, OneServer DEF Busy
  <2> QED BY <2>2, <2>4
<1> QED BY <1>1, ServeAlways, PTL

\* A tool that writes its report has the daemon at the other end of the FIFO, under
\* the same provisos: SIGPIPE cuts no report short but one in the middle of which a
\* write to the log has failed and ended the daemon.
THEOREM EveryWriterHasReader == ASSUME NoStop, ~JobControl PROVE Spec => []WritersHaveReader
<1>1. ServeInv => WritersHaveReader
  BY DEF ServeInv, WritersHaveReader
<1> QED BY <1>1, ServeAlways, PTL

-----------------------------------------------------------------------------
(* Every chunk that a tool has written is in the log or in the FIFO,       *)
(* unless its report was cut, and the daemon leaves the FIFO only when it  *)
(* is empty and the tool it serves has closed it, or dies.  A FIFO that a  *)
(* daemon makes is empty, so what is left of a cut report reaches no log.  *)

Unwritten == Early \cup {"wait", "open", "opening"}

\* A chunk of the report of tool t, where it should be.
Chunk(t) == [file |-> LogOf[t], writer |-> t]

Logged(t) == Cardinality({i \in DOMAIN log : log[i] = Chunk(t)})

\* Daemon d reads the report of tool t.
Copies(d, t) == daemon[d].at = "copy" /\ daemon[d].serving = t

\* Where the chunks of t's report are.
Account(t) ==
    /\ tool[t].at \in Unwritten => tool[t].left = Chunks /\ Logged(t) = 0
    /\ tool[t].at = "done" => tool[t].left = 0
    /\ \A d \in Daemons : Copies(d, t) /\ tool[t].at \in {"write", "done"} =>
         Logged(t) + Len(pipe[daemon[d].fifo]) + tool[t].left = Chunks
    /\ tool[t].at = "done" /\ (\A d \in Daemons : ~Copies(d, t)) => Logged(t) = Chunks

\* A FIFO that holds something has an end open.
HeldInv == \A f \in Fifos : pipe[f] # <<>> => Readers(f) \cup Writers(f) # {}

\* Nobody has written to the FIFO of a daemon that does not copy yet.
Waiting == Ready \ {"copy"}

FreshInv == \A d \in Daemons : daemon[d].at \in Waiting => pipe[stats_fifo] = <<>>

\* What a daemon copies is the report of the tool it serves.
OwnInv ==
    \A d \in Daemons : daemon[d].at = "copy" =>
      \A i \in DOMAIN pipe[daemon[d].fifo] : pipe[daemon[d].fifo][i] = daemon[d].serving

ReportInv ==
    /\ HeldInv /\ FreshInv /\ OwnInv
    /\ \A t \in Tools \ cut : Account(t)
    /\ ReportsInOwnLog

LEMMA ChunkIs ==
    ASSUME NEW t \in Tools
    PROVE  /\ Chunk(t) \in [file : LogFiles, writer : Tools]
           /\ Chunk(t).file = LogOf[t] /\ Chunk(t).writer = t
  BY LogsAssumption DEF Chunk

LEMMA LoggedAppend ==
    ASSUME NEW t \in Tools, NEW u \in Tools,
           log \in Seq([file : LogFiles, writer : Tools]), log' = Append(log, Chunk(u))
    PROVE  /\ Logged(t) \in Nat
           /\ Logged(t)' = IF t = u THEN Logged(t) + 1 ELSE Logged(t)
<1> DEFINE n == Len(log)
           c == Chunk(t)
           S == {i \in 1..n : log[i] = c}
<1>1. PICK e \in [file : LogFiles, writer : Tools] : e = Chunk(u) /\ (e = c <=> t = u)
  BY ChunkIs
<1>2. /\ n \in Nat /\ DOMAIN log = 1..n /\ DOMAIN log' = 1..(n + 1)
      /\ \A i \in 1..n : log'[i] = log[i]
      /\ log'[n + 1] = e
  BY <1>1
<1> HIDE DEF n, c
<1>3. IsFiniteSet(S) /\ n + 1 \notin S
  <2>1. IsFiniteSet(1..n) /\ S \in SUBSET (1..n)
    BY <1>2, FS_Interval
  <2>2. IsFiniteSet(S)
    BY <2>1, FS_Subset
  <2> QED BY <1>2, <2>2
<1>4. {i \in DOMAIN log' : log'[i] = c} = IF t = u THEN S \cup {n + 1} ELSE S
  <2>1. 1..(n + 1) = (1..n) \cup {n + 1} /\ n + 1 \notin 1..n
    BY <1>2
  <2> QED BY <1>1, <1>2, <2>1
<1>5. {i \in DOMAIN log : log[i] = c} = S
  BY <1>2
<1> HIDE DEF S
<1>6. Cardinality(S) \in Nat /\ Cardinality(S \cup {n + 1}) = Cardinality(S) + 1
  BY <1>3, FS_AddElement, FS_CardinalityType
<1>7. Chunk(t)' = Chunk(t)
  BY DEF Chunk
<1> QED BY <1>4, <1>5, <1>6, <1>7 DEF Logged, c

LEMMA LoggedNat ==
    ASSUME NEW t, log \in Seq([file : LogFiles, writer : Tools])
    PROVE  IsFiniteSet({i \in DOMAIN log : log[i] = Chunk(t)}) /\ Logged(t) \in Nat
<1>1. DOMAIN log = 1..Len(log) /\ Len(log) \in Nat
  OBVIOUS
<1>2. IsFiniteSet(DOMAIN log)
  BY <1>1, FS_Interval
<1>3. {i \in DOMAIN log : log[i] = Chunk(t)} \in SUBSET DOMAIN log
  OBVIOUS
<1> QED BY <1>2, <1>3, FS_Subset, FS_CardinalityType DEF Logged

LEMMA LoggedSame == ASSUME UNCHANGED log PROVE \A t : Logged(t)' = Logged(t)
  BY DEF Logged, Chunk

\* The tool that writes is the one the copying daemon serves.
LEMMA WriterServed ==
    ASSUME LockInv, ServeInv, NEW t \in Tools \ cut, tool[t].at = "write"
    PROVE  \E d \in Daemons : Copies(d, t) /\ daemon[d].fifo = tool[t].fifo
<1>1. PICK d \in Daemons : daemon[d].at = "copy" /\ daemon[d].fifo = tool[t].fifo
  BY DEF ServeInv
<1>2. PICK e \in Daemons : daemon[e].serving = t
  BY DEF ServeInv, Granted
<1>3. daemon[e].at \in Busy
  BY <1>2, NamesAssumption DEF ServeInv
<1>4. d = e
  BY <1>1, <1>3, OneServer DEF Busy
<1> QED BY <1>1, <1>2, <1>4 DEF Copies

\* A tool whose report was cut writes to a FIFO that nobody reads.
LEMMA CutUnread ==
    ASSUME TypeInv, ServeInv, NEW t \in cut, tool[t].at = "write"
    PROVE  Readers(tool[t].fifo) = {}
<1>1. t \in Tools /\ tool[t].fifo # None
  BY DEF TypeInv, FileInv, ToolInv, ToolOK, Users
<1>2. ASSUME NEW d \in Daemons, daemon[d].fifo = tool[t].fifo PROVE FALSE
  <2>1. daemon[d].at \in {"opening", "copy"}
    BY <1>1, <1>2 DEF TypeInv, DaemonInv, DaemonOK
  <2>2. daemon[d].fifo = stats_fifo /\ tool[t].fifo # stats_fifo
    BY <2>1 DEF ServeInv, CutInv, Ready, Busy
  <2> QED BY <1>2, <2>2
<1> QED BY <1>2 DEF Readers

\* While a daemon is in another state than "copy", past the lock, nothing is read.
LEMMA NobodyCopies ==
    ASSUME LockInv, NEW d \in Daemons,
           daemon[d].at \notin {"none", "open_lock", "set_lock", "copy"}
    PROVE  \A e \in Daemons : daemon[e].at # "copy"
  BY OneServer

-----------------------------------------------------------------------------
(* What the FIFOs hold.                                                    *)

\* No end is closed but those of process p, when it ends.
LEMMA HeldStep ==
    ASSUME HeldInv, NEW p, pipe' = LeftBy(p, pipe) \/ (UNCHANGED pipe /\ p = None),
           \A d \in Daemons : d # p => daemon[d].fifo \in {None, daemon'[d].fifo},
           \A t \in Tools : t # p => tool[t].fifo \in {None, tool'[t].fifo}
    PROVE  HeldInv'
<1> SUFFICES ASSUME NEW f \in Fifos, pipe'[f] # <<>> PROVE Readers(f)' \cup Writers(f)' # {}
  BY DEF HeldInv
<1>1. PICK q \in Readers(f) \cup Writers(f) : q # p
  <2>1. CASE pipe' = LeftBy(p, pipe)
    BY <2>1 DEF LeftBy
  <2>2. CASE UNCHANGED pipe /\ p = None
    BY <2>2, NamesAssumption DEF HeldInv, Readers, Writers
  <2> QED BY <2>1, <2>2
<1>2. f # None
  BY NamesAssumption
<1> QED BY <1>1, <1>2 DEF Readers, Writers

\* The daemon makes its FIFO, or keeps it.
LEMMA FreshStep ==
    ASSUME TypeInv, ServeInv, HeldInv, FreshInv, \A f \in Fifos : pipe'[f] \in {pipe[f], <<>>},
           \A d \in Daemons : daemon'[d].at \in Waiting =>
             stats_fifo' \in FreeFifos \/ (UNCHANGED stats_fifo /\ daemon[d].at \in Waiting)
    PROVE  FreshInv'
<1> SUFFICES ASSUME NEW d \in Daemons, daemon'[d].at \in Waiting PROVE pipe'[stats_fifo'] = <<>>
  BY DEF FreshInv, Waiting, Ready, Busy
<1>1. CASE stats_fifo' \in FreeFifos
  <2>1. stats_fifo' \in Fifos /\ Readers(stats_fifo') \cup Writers(stats_fifo') = {}
    BY <1>1 DEF FreeFifos, Readers, Writers
  <2> QED BY <2>1 DEF HeldInv
<1>2. CASE UNCHANGED stats_fifo /\ daemon[d].at \in Waiting
  <2>1. stats_fifo \in Fifos
    BY <1>2 DEF TypeInv, FileInv, ServeInv, Waiting
  <2> QED BY <1>2, <2>1 DEF FreshInv
<1> QED BY <1>1, <1>2

LEMMA LeftByHeld ==
    ASSUME NEW p, pipe' = LeftBy(p, pipe) \/ UNCHANGED pipe
    PROVE  \A f \in Fifos : pipe'[f] \in {pipe[f], <<>>}
  BY DEF LeftBy

-----------------------------------------------------------------------------
(* Steps that move no chunk.                                               *)

Calm(r, q) ==
    \/ q = r
    \/ q.at = "failed"
    \/ /\ r.at \in Unwritten /\ q.at \in Unwritten /\ q.left = r.left
       /\ q.at \in Early => r.at \in Early
    \/ r.at = "write" /\ q.at = "done" /\ r.left = 0 /\ q.left = 0

LEMMA CalmStep ==
    ASSUME TypeInv, LockInv, ServeInv, ReportInv, HeldInv', FreshInv', UNCHANGED <<log, cut>>,
           \A d \in Daemons : daemon[d].at = "copy" =>
             pipe'[daemon[d].fifo] = pipe[daemon[d].fifo],
           \A d \in Daemons : \/ daemon'[d] = daemon[d]
                              \/ daemon[d].at # "copy" /\ daemon'[d].at # "copy",
           \A t \in Tools : Calm(tool[t], tool'[t])
    PROVE  ReportInv'
<1>1. /\ \A d \in Daemons : daemon[d].at = "copy" \/ daemon'[d].at = "copy" => daemon'[d] = daemon[d]
      /\ \A d \in Daemons : \A t : Copies(d, t)' <=> Copies(d, t)
  BY DEF Copies
<1>2. OwnInv'
  BY <1>1 DEF ReportInv, OwnInv
<1>3. ReportsInOwnLog'
  BY DEF ReportInv, ReportsInOwnLog
<1>4. ASSUME NEW t \in Tools \ cut PROVE Account(t)'
  <2>1. Account(t) /\ Logged(t)' = Logged(t) /\ Calm(tool[t], tool'[t])
    BY LoggedSame DEF ReportInv
  <2>2. ASSUME NEW d \in Daemons, Copies(d, t)', tool[t].at \in {"write", "done"}
        PROVE  /\ Logged(t) + Len(pipe[daemon[d].fifo]) + tool[t].left = Chunks
               /\ pipe'[daemon'[d].fifo] = pipe[daemon[d].fifo]
    <3>1. Copies(d, t) /\ daemon'[d] = daemon[d]
      BY <1>1, <2>2 DEF Copies
    <3> QED BY <2>1, <2>2, <3>1 DEF Account, Copies
  <2>3. CASE tool'[t] = tool[t]
    <3>1. ASSUME NEW d \in Daemons, Copies(d, t)', tool[t].at \in {"write", "done"}
          PROVE  Logged(t)' + Len(pipe'[daemon'[d].fifo]) + tool'[t].left = Chunks
      BY <2>1, <2>2, <2>3, <3>1
    <3> QED BY <1>1, <2>1, <2>3, <3>1 DEF Account
  <2>4. CASE tool'[t].at = "failed"
    BY <2>4 DEF Account, Unwritten, Early
  <2>5. CASE tool[t].at \in Unwritten /\ tool'[t].at \in Unwritten /\ tool'[t].left = tool[t].left
    BY <2>1, <2>5 DEF Account, Unwritten, Early
  <2>6. CASE tool[t].at = "write" /\ tool'[t].at = "done" /\ tool[t].left = 0 /\ tool'[t].left = 0
    <3>1. PICK d \in Daemons : Copies(d, t)
      BY <2>6, WriterServed
    <3>2. ASSUME NEW e \in Daemons, Copies(e, t)'
          PROVE  Logged(t)' + Len(pipe'[daemon'[e].fifo]) + tool'[t].left = Chunks
      BY <2>1, <2>2, <2>6, <3>2
    <3> QED BY <1>1, <2>6, <3>1, <3>2 DEF Account, Unwritten, Early
  <2> QED BY <2>1, <2>3, <2>4, <2>5, <2>6 DEF Calm
<1> QED BY <1>2, <1>3, <1>4 DEF ReportInv

LEMMA EndedCalm == ASSUME NEW r PROVE Calm(r, Ended("failed"))
<1>1. Ended("failed").at = "failed"
  BY DEF Ended, NewTool
<1> QED BY <1>1 DEF Calm

\* The steps of a tool before it opens the FIFO, and those that end it.
ToolMoves(u) ==
    \/ u \in Tools /\ \/ RunCommand(u) \/ GetQueue(u) \/ Send(u) \/ Confirmed(u)
                      \/ Write(u) /\ Readers(tool[u].fifo) = {}
                      \/ CloseReport(u)
    \/ FindDaemon(u)
    \/ ToolDies(u)

LEMMA ToolShares ==
    ASSUME NEW u \in Users, ToolMoves(u)
    PROVE  /\ UNCHANGED daemon \/ StartDaemon
           /\ UNCHANGED <<stats_fifo, log, cut>>
           /\ \/ pipe' = LeftBy(u, pipe)
              \/ UNCHANGED pipe /\ tool[u].at \notin {"opening", "write"}
<1>1. CASE u \in Tools /\ (RunCommand(u) \/ GetQueue(u) \/ Send(u) \/ Confirmed(u))
  <2>1. tool[u].at \notin {"opening", "write"}
    BY <1>1 DEF RunCommand, GetQueue, Send, Confirmed
  <2>2. (UNCHANGED daemon \/ StartDaemon) /\ UNCHANGED <<stats_fifo, pipe, log, cut>>
    BY Zenon, <1>1 DEF RunCommand, GetQueue, Send, Confirmed
  <2> QED BY <2>1, <2>2
<1>2. CASE \/ u \in Tools /\ \/ Write(u) /\ Readers(tool[u].fifo) = {}
                             \/ CloseReport(u)
           \/ ToolDies(u)
  BY Zenon, <1>2 DEF Write, CloseReport, ToolDies
<1>3. CASE FindDaemon(u)
  <2>1. tool[u].at \in {"probe", "find"}
    BY Zenon, <1>3 DEF FindDaemon, OpenLockFile, ReadDaemonPid, AttemptFails, TryFails, GiveUp
  <2>2. (UNCHANGED daemon \/ StartDaemon) /\ UNCHANGED <<stats_fifo, pipe, log, cut>>
    BY Zenon, <1>3 DEF FindDaemon, OpenLockFile, ReadDaemonPid, AttemptFails, TryFails, GiveUp
  <2> QED BY <2>1, <2>2
<1> QED BY <1>1, <1>2, <1>3 DEF ToolMoves

LEMMA ToolCalm ==
    ASSUME NoStop, ~JobControl, TypeInv, NEW u \in Users, ToolMoves(u)
    PROVE  /\ \A t \in Tools : Calm(tool[t], tool'[t])
           /\ \A t \in Tools : t # u => tool'[t] = tool[t]
<1>1. u \in Tools /\ tool[u] \in ToolRecords /\ tool \in [Users -> ToolRecords]
  BY DEF NoStop, Users, TypeInv, ToolInv
<1>2. CASE tool' = [tool EXCEPT ![u] = Ended("failed")]
  BY <1>1, <1>2, EndedCalm DEF Calm, Users
<1>3. CASE OpenLockFile(u) \/ ReadDaemonPid(u) \/ AttemptFails(u) \/ TryFails(u)
  <2>1. Calm(tool[u], tool'[u])
    BY <1>3, FindStep DEF Calm, Unwritten, Early
  <2>2. \A t \in Tools : t # u => tool'[t] = tool[t]
    BY <1>1, <1>3, FindStep DEF Users
  <2> QED BY <2>1, <2>2 DEF Calm
<1>4. CASE /\ RunCommand(u) \/ GetQueue(u) \/ Send(u) \/ Confirmed(u) \/ CloseReport(u)
           /\ tool' # [tool EXCEPT ![u] = Ended("failed")]
  <2>1. \A t \in Tools : t # u => tool'[t] = tool[t]
    BY <1>1, <1>4 DEF RunCommand, GetQueue, Send, Confirmed, CloseReport, Users
  <2>2. Calm(tool[u], tool'[u])
    <3>1. CASE RunCommand(u)
      <4>1. tool'[u] = [tool[u] EXCEPT !.at = "find"] /\ tool[u].at = "start"
        BY <1>1, <3>1 DEF RunCommand
      <4>2. tool'[u].at = "find" /\ tool'[u].left = tool[u].left
        BY <1>1, <4>1 DEF ToolRecords
      <4> QED BY <4>1, <4>2 DEF Calm, Unwritten, Early
    <3>2. CASE GetQueue(u)
      <4> DEFINE id == <<lock_file, tool[u].daemon_pid>>
      <4>1. tool'[u] = [tool[u] EXCEPT !.at = "send", !.queue_id = id]
        BY <1>1, <1>4, <3>2 DEF GetQueue
      <4> HIDE DEF id
      <4>2. tool'[u].at = "send" /\ tool'[u].left = tool[u].left /\ tool[u].at = "get_queue"
        BY <1>1, <3>2, <4>1 DEF ToolRecords, GetQueue
      <4> QED BY <4>2 DEF Calm, Unwritten, Early
    <3>3. CASE Send(u) \/ Confirmed(u)
      <4>1. PICK s \in {"wait", "open"} : tool'[u] = [tool[u] EXCEPT !.at = s]
        BY <1>1, <1>4, <3>3 DEF Send, Confirmed
      <4>2. tool'[u].at = s /\ tool'[u].left = tool[u].left /\ tool[u].at \in {"send", "wait"}
        BY <1>1, <3>3, <4>1 DEF ToolRecords, Send, Confirmed
      <4> QED BY <4>2 DEF Calm, Unwritten, Early
    <3>4. CASE CloseReport(u)
      <4>1. tool'[u] = Ended("done") /\ tool[u].at = "write" /\ tool[u].left = 0
        BY <1>1, <3>4 DEF CloseReport
      <4>2. Ended("done").at = "done" /\ Ended("done").left = 0
        BY DEF Ended, NewTool
      <4> QED BY <4>1, <4>2 DEF Calm
    <3> QED BY <1>4, <3>1, <3>2, <3>3, <3>4
  <2> QED BY <2>1, <2>2 DEF Calm
<1>5. CASE GiveUp(u) \/ ToolDies(u) \/ (Write(u) /\ Readers(tool[u].fifo) = {})
  <2>1. tool' = [tool EXCEPT ![u] = Ended("failed")]
    BY Zenon, <1>5 DEF GiveUp, ToolDies, Write
  <2> QED BY <1>2, <2>1
<1>6. \/ RunCommand(u) \/ GetQueue(u) \/ Send(u) \/ Confirmed(u) \/ CloseReport(u)
      \/ OpenLockFile(u) \/ ReadDaemonPid(u) \/ AttemptFails(u) \/ TryFails(u)
      \/ GiveUp(u) \/ ToolDies(u) \/ (Write(u) /\ Readers(tool[u].fifo) = {})
  BY Zenon DEF ToolMoves, FindDaemon
<1> QED BY Zenon, <1>2, <1>3, <1>4, <1>5, <1>6

\* An answer changes no more of a tool than its response.
LEMMA AnswerCalm ==
    ASSUME TypeInv, NEW d \in Daemons, NEW response \in {"granted", "refused"},
           Receive(d, response)
    PROVE  \A t \in Tools : Calm(tool[t], tool'[t]) /\ tool'[t].fifo = tool[t].fifo
<1> DEFINE u == Head(queue[daemon[d].queue_id])
<1>1. u \in Tools /\ Answer(u, response)
  BY Received DEF Receive
<1> HIDE DEF u
<1>2. u \in Users /\ tool[u] \in ToolRecords /\ tool \in [Users -> ToolRecords]
  BY <1>1 DEF Users, TypeInv, ToolInv
<1>3. \A t \in Tools : t # u => tool'[t] = tool[t]
  BY <1>1, <1>2 DEF Answer, Users
<1>4. CASE tool[u].at # "wait"
  BY <1>1, <1>4 DEF Answer, Calm
<1>5. CASE tool[u].at = "wait"
  <2>1. tool'[u] = [tool[u] EXCEPT !.response = response]
    BY <1>1, <1>2, <1>5 DEF Answer
  <2>2. tool'[u].at = "wait" /\ tool'[u].left = tool[u].left /\ tool'[u].fifo = tool[u].fifo
    BY <1>2, <1>5, <2>1 DEF ToolRecords
  <2> QED BY <1>3, <1>5, <2>2 DEF Calm, Unwritten, Early
<1> QED BY <1>4, <1>5

LEMMA StartCalm ==
    ASSUME TypeInv, StartDaemon \/ UNCHANGED daemon
    PROVE  \A e \in Daemons : \/ daemon'[e] = daemon[e]
                              \/ /\ daemon[e].at \notin Ready /\ daemon'[e].at \notin Ready
                                 /\ daemon'[e].fifo = daemon[e].fifo
<1>1. CASE UNCHANGED daemon
  BY <1>1
<1>2. CASE StartDaemon
  <2>1. PICK d \in FreeDaemons : daemon' = [daemon EXCEPT ![d].at = "open_lock"]
    BY <1>2 DEF StartDaemon
  <2>2. d \in Daemons /\ daemon[d].at = "none" /\ daemon \in [Daemons -> DaemonRecords]
    BY <2>1 DEF FreeDaemons, Live, TypeInv, DaemonInv
  <2>3. daemon'[d] = [daemon[d] EXCEPT !.at = "open_lock"]
    BY <2>1, <2>2
  <2>4. daemon'[d].at = "open_lock" /\ daemon'[d].fifo = daemon[d].fifo
    BY <2>2, <2>3 DEF DaemonRecords
  <2> QED BY <2>1, <2>2, <2>4 DEF Ready, Busy
<1> QED BY <1>1, <1>2

\* A step of one tool, which may start a daemon or end, and moves no chunk.
LEMMA ReportToolStep ==
    ASSUME TypeInv, LockInv, ServeInv, ReportInv, NEW u \in Users,
           \A t \in Tools : Calm(tool[t], tool'[t]),
           \A t \in Tools : t # u => tool'[t] = tool[t],
           UNCHANGED daemon \/ StartDaemon, UNCHANGED <<stats_fifo, log, cut>>,
           \/ pipe' = LeftBy(u, pipe)
           \/ UNCHANGED pipe /\ tool[u].at \notin {"opening", "write"}
    PROVE  ReportInv'
<1>1. \A d \in Daemons : \/ daemon'[d] = daemon[d]
                         \/ /\ daemon[d].at \notin Ready /\ daemon'[d].at \notin Ready
                            /\ daemon'[d].fifo = daemon[d].fifo
  BY StartCalm
<1>2. tool[u].at \notin {"opening", "write"} => tool[u].fifo = None
  BY DEF TypeInv, ToolInv, ToolOK
<1>3. HeldInv'
  <2>1. HeldInv /\ \A d \in Daemons : daemon[d].fifo = daemon'[d].fifo
    BY <1>1 DEF ReportInv
  <2>2. CASE pipe' = LeftBy(u, pipe)
    <3>1. /\ \A d \in Daemons : d # u => daemon[d].fifo \in {None, daemon'[d].fifo}
          /\ \A t \in Tools : t # u => tool[t].fifo \in {None, tool'[t].fifo}
      BY <2>1
    <3> QED BY Zenon, <2>1, <2>2, <3>1, HeldStep
  <2>3. CASE UNCHANGED pipe /\ tool[u].at \notin {"opening", "write"}
    <3>1. /\ \A d \in Daemons : d # None => daemon[d].fifo \in {None, daemon'[d].fifo}
          /\ \A t \in Tools : t # None => tool[t].fifo \in {None, tool'[t].fifo}
      BY <1>2, <2>1, <2>3
    <3> QED BY Zenon, <2>1, <2>3, <3>1, HeldStep
  <2> QED BY <2>2, <2>3
<1>4. FreshInv'
  <2>1. \A f \in Fifos : pipe'[f] \in {pipe[f], <<>>}
    BY LeftByHeld
  <2> QED BY <1>1, <2>1, FreshStep DEF ReportInv, Waiting
<1>5. ASSUME NEW d \in Daemons, daemon[d].at = "copy"
      PROVE  pipe'[daemon[d].fifo] = pipe[daemon[d].fifo]
  <2>1. daemon[d].fifo \in Fifos
    BY <1>5 DEF TypeInv, DaemonInv, DaemonOK, DaemonRecords
  <2>2. d \in Readers(daemon[d].fifo) /\ d # u
    BY NamesAssumption DEF Readers, Users
  <2> QED BY <2>1, <2>2 DEF LeftBy
<1> QED BY <1>1, <1>3, <1>4, <1>5, CalmStep DEF Ready, Busy

LEMMA ReportTool ==
    ASSUME NoStop, ~JobControl, TypeInv, LockInv, ServeInv, ReportInv,
           NEW u \in Users, ToolMoves(u)
    PROVE  ReportInv'
  BY ToolCalm, ToolShares, ReportToolStep

LEMMA GrantCalm ==
    ASSUME TypeInv, NEW d \in Daemons, Grant(d)
    PROVE  /\ \A e \in Daemons : e # d => daemon'[e] = daemon[e]
           /\ daemon[d].at = "receive" /\ daemon'[d].at = "open"
           /\ daemon'[d].serving = Head(queue[daemon[d].queue_id])
<1>1. daemon[d] \in DaemonRecords /\ daemon \in [Daemons -> DaemonRecords]
  BY DEF TypeInv, DaemonInv
<1>2. daemon'[d] = [daemon[d] EXCEPT !.at = "open", !.serving = Head(queue[daemon[d].queue_id])]
  BY <1>1 DEF Grant
<1> QED BY <1>1, <1>2 DEF DaemonRecords, Grant, Receive

\* The steps of a daemon between two bookings.
Between(d) ==
    \/ OpenLock(d) \/ SetLock(d) \/ GetDaemonQueue(d) \/ InstallHandlers(d)
    \/ RemoveFifo(d) \/ MakeFifo(d) \/ CheckInterrupt(d) \/ Refuse(d)

LEMMA ReportIdleDaemon ==
    ASSUME TypeInv, LockInv, ServeInv, ReportInv, NEW d \in Daemons, Between(d) \/ Grant(d)
    PROVE  ReportInv'
<1>1. /\ daemon[d].at \notin Busy /\ daemon'[d].at # "copy"
      /\ \A e \in Daemons : e # d => daemon'[e] = daemon[e]
      /\ daemon'[d].at \in Waiting =>
           stats_fifo' \in FreeFifos \/ (UNCHANGED stats_fifo /\ daemon[d].at \in Waiting)
      /\ UNCHANGED stats_fifo \/ \A e \in Daemons : e # d => daemon[e].at \notin Ready
      /\ UNCHANGED <<pipe, log, cut>>
  <2>1. CASE Between(d)
    <3>1. /\ daemon' = [daemon EXCEPT ![d] = daemon'[d]]
          /\ daemon[d].at \notin Busy /\ daemon'[d].at \notin Busy
          /\ daemon'[d].at \in Ready => \/ stats_fifo' \in FreeFifos
                                        \/ UNCHANGED stats_fifo /\ daemon[d].at \in Ready
          /\ UNCHANGED stats_fifo \/ \A e \in Daemons : e # d => daemon[e].at \notin Ready
          /\ UNCHANGED <<pipe, log, cut>>
      BY <2>1, IdleDaemon DEF Between
    <3>2. \A e \in Daemons : e # d => daemon'[e] = daemon[e]
      BY <3>1 DEF TypeInv, DaemonInv
    <3>3. /\ daemon'[d].at # "copy"
          /\ daemon'[d].at \in Waiting => daemon'[d].at \in Ready
          /\ daemon[d].at \in Ready => daemon[d].at \in Waiting
      BY <3>1 DEF Waiting, Busy
    <3> QED BY Zenon, <3>1, <3>2, <3>3
  <2>2. CASE Grant(d)
    <3>1. UNCHANGED <<stats_fifo, pipe, log, cut>>
      BY <2>2 DEF Grant
    <3> QED BY <2>2, <3>1, GrantCalm DEF Waiting, Ready, Busy
  <2> QED BY <2>1, <2>2
<1>2. \A t \in Tools : Calm(tool[t], tool'[t]) /\ tool'[t].fifo = tool[t].fifo
  <2>1. CASE Grant(d) \/ Refuse(d)
    BY <2>1, AnswerCalm DEF Grant, Refuse
  <2>2. CASE Between(d) /\ ~Refuse(d)
    <3>1. UNCHANGED tool
      BY Zenon, <2>2 DEF Between, OpenLock, SetLock, GetDaemonQueue, InstallHandlers,
         RemoveFifo, MakeFifo, CheckInterrupt
    <3> QED BY <3>1 DEF Calm
  <2> QED BY <2>1, <2>2
<1>3. HeldInv'
  <2>1. daemon[d].fifo = None
    BY <1>1 DEF TypeInv, DaemonInv, DaemonOK, Busy
  <2>2. \A e \in Daemons : daemon[e].fifo \in {None, daemon'[e].fifo}
    BY <1>1, <2>1
  <2> QED BY <1>1, <1>2, <2>2, HeldStep DEF ReportInv
<1>4. FreshInv'
  <2>1. \A e \in Daemons : daemon'[e].at \in Waiting =>
          stats_fifo' \in FreeFifos \/ (UNCHANGED stats_fifo /\ daemon[e].at \in Waiting)
    BY <1>1 DEF Waiting
  <2> QED BY <1>1, <2>1, FreshStep DEF ReportInv
<1> QED BY <1>1, <1>2, <1>3, <1>4, CalmStep DEF Busy

-----------------------------------------------------------------------------
(* Steps that open the FIFO, and those that move or release a chunk.       *)

\* While a daemon copies no other one has got to its FIFO.
LEMMA CopyAlone ==
    ASSUME LockInv, NEW d \in Daemons, daemon[d].at = "copy",
           \A e \in Daemons : e # d => daemon'[e] = daemon[e],
           daemon'[d].at \notin Waiting
    PROVE  FreshInv'
<1>1. \A e \in Daemons : daemon'[e].at \notin Waiting
  BY OneServer DEF Waiting, Ready, Busy
<1> QED BY <1>1 DEF FreshInv, Waiting, Ready, Busy

LEMMA ReportWrite ==
    ASSUME NoStop, ~JobControl, TypeInv, LockInv, ServeInv, ReportInv, NEW t \in Tools, Write(t)
    PROVE  ReportInv'
<1> DEFINE f == tool[t].fifo
<1>1. /\ tool[t] \in ToolRecords /\ tool \in [Users -> ToolRecords] /\ t \in Users
      /\ tool[t].at = "write" /\ tool[t].left > 0 /\ tool[t].left \in Nat
  BY DEF Write, Users, TypeInv, ToolInv, ToolRecords
<1>2. CASE Readers(f) = {}
  BY <1>1, <1>2, ReportTool DEF ToolMoves
<1>3. CASE Readers(f) # {}
  <2>1. t \in Tools \ cut
    BY <1>1, <1>3, CutUnread
  <2>2. PICK d \in Daemons : Copies(d, t) /\ daemon[d].fifo = f
    BY <1>1, <2>1, WriterServed
  <2>3. f \in Fifos /\ pipe \in [Fifos -> Seq(Tools)]
    BY <1>1 DEF TypeInv, ToolInv, ToolOK, ToolRecords, FileInv
  <2>4. /\ pipe' = [pipe EXCEPT ![f] = Append(@, t)]
        /\ tool' = [tool EXCEPT ![t].left = @ - 1]
        /\ UNCHANGED <<daemon, stats_fifo, log, cut>>
    BY <1>3 DEF Write
  <2>5. /\ \A u \in Tools : u # t => tool'[u] = tool[u]
        /\ tool'[t].at = "write" /\ tool'[t].left = tool[t].left - 1
    <3>1. tool'[t] = [tool[t] EXCEPT !.left = @ - 1]
      BY <1>1, <2>4
    <3> QED BY <1>1, <2>4, <3>1 DEF ToolRecords, Users
  <2>6. \A e \in Daemons : daemon[e].at = "copy" => e = d
    BY <2>2, OneServer DEF Copies
  <2> HIDE DEF f
  <2>7. /\ Len(pipe'[f]) = Len(pipe[f]) + 1 /\ Len(pipe[f]) \in Nat
        /\ \A i \in DOMAIN pipe'[f] : \/ i \in DOMAIN pipe[f] /\ pipe'[f][i] = pipe[f][i]
                                     \/ pipe'[f][i] = t
        /\ \A g \in Fifos : g # f => pipe'[g] = pipe[g]
    <3>1. pipe[f] \in Seq(Tools)
      BY <2>3
    <3>2. pipe'[f] = Append(pipe[f], t) /\ \A g \in Fifos : g # f => pipe'[g] = pipe[g]
      BY <2>3, <2>4
    <3> QED BY <3>1, <3>2
  <2>8. HeldInv'
    <3>1. ASSUME NEW g \in Fifos, pipe'[g] # <<>> PROVE Readers(g)' \cup Writers(g)' # {}
      <4>1. CASE g = f
        BY <2>2, <2>4, <4>1 DEF Readers
      <4>2. CASE g # f
        <5>1. PICK q \in Readers(g) \cup Writers(g) : TRUE
          BY <2>7, <3>1, <4>2 DEF ReportInv, HeldInv
        <5>2. \A u \in Tools : tool'[u].fifo = tool[u].fifo
          BY <1>1, <2>4 DEF ToolRecords, Users
        <5> QED BY <2>4, <5>1, <5>2 DEF Readers, Writers
      <4> QED BY <4>1, <4>2
    <3> QED BY <3>1 DEF HeldInv
  <2>9. FreshInv'
    BY <2>2, <2>4, CopyAlone DEF Copies, Waiting
  <2>10. OwnInv'
    <3> SUFFICES ASSUME NEW e \in Daemons, daemon'[e].at = "copy",
                        NEW i \in DOMAIN pipe'[daemon'[e].fifo]
                 PROVE  pipe'[daemon'[e].fifo][i] = daemon'[e].serving
      BY DEF OwnInv
    <3>1. e = d /\ daemon'[e].fifo = f /\ daemon'[e].serving = t
      BY <2>2, <2>4, <2>6 DEF Copies
    <3>2. i \in DOMAIN pipe'[f]
      BY <3>1
    <3>3. i \in DOMAIN pipe[f] => pipe[f][i] = t
      BY <2>2 DEF ReportInv, OwnInv, Copies
    <3> QED BY <2>7, <3>1, <3>2, <3>3
  <2>11. ASSUME NEW u \in Tools \ cut PROVE Account(u)'
    <3>1. Account(u) /\ Logged(u)' = Logged(u) /\ \A e \in Daemons : Copies(e, u)' <=> Copies(e, u)
      BY <2>4, LoggedSame DEF ReportInv, Copies
    <3>2. CASE u = t
      <4>1. Logged(t) + Len(pipe[f]) + tool[t].left = Chunks /\ Logged(t) \in Nat
        <5>1. Logged(t) \in Nat
          BY LoggedNat DEF TypeInv, FileInv
        <5> QED BY <1>1, <2>2, <3>1, <3>2, <5>1 DEF Account
      <4>2. Logged(t) + Len(pipe'[f]) + tool'[t].left = Chunks
        BY <1>1, <2>5, <2>7, <4>1
      <4>3. \A e \in Daemons : Copies(e, t)' => daemon'[e].fifo = f
        BY <2>2, <2>4, <2>6 DEF Copies
      <4> QED BY <2>5, <3>1, <3>2, <4>2, <4>3 DEF Account, Unwritten, Early
    <3>3. CASE u # t
      <4>1. \A e \in Daemons : ~Copies(e, u)
        BY <2>2, <2>6, <3>3 DEF Copies
      <4>2. \A e \in Daemons : ~Copies(e, u)'
        BY <3>1, <4>1
      <4> QED BY <2>5, <3>1, <3>3, <4>1, <4>2 DEF Account
    <3> QED BY <3>2, <3>3
  <2>12. ReportsInOwnLog'
    BY <2>4 DEF ReportInv, ReportsInOwnLog
  <2> QED BY <2>4, <2>8, <2>9, <2>10, <2>11, <2>12 DEF ReportInv
<1> QED BY <1>2, <1>3

\* Both ends of the FIFO are open: daemon d begins to copy the report of tool t.
LEMMA ReportOpened ==
    ASSUME TypeInv, LockInv, ServeInv, ReportInv, NEW d \in Daemons, NEW t \in Tools,
           daemon[d].at \in {"open", "opening"},
           tool[t].at \in Unwritten, tool[t].fifo \in {None, stats_fifo},
           \A e \in Daemons : e # d => daemon'[e] = daemon[e],
           \A u \in Tools : u # t => tool'[u] = tool[u],
           daemon'[d].at = "copy", daemon'[d].serving = t, daemon'[d].fifo = stats_fifo,
           tool'[t].at = "write", tool'[t].left = tool[t].left, tool'[t].fifo = stats_fifo,
           UNCHANGED <<stats_fifo, pipe, log, cut>>
    PROVE  ReportInv'
<1>1. /\ \A e \in Daemons : daemon[e].at # "copy"
      /\ pipe[stats_fifo] = <<>>
  BY NobodyCopies DEF ReportInv, FreshInv, Waiting, Ready, Busy
<1>2. \A e \in Daemons : daemon'[e].at = "copy" => e = d
  BY <1>1
<1>3. HeldInv'
  <2>1. daemon[d].fifo \in {None, stats_fifo}
    BY DEF TypeInv, DaemonInv, DaemonOK, ServeInv, CutInv
  <2> QED BY <2>1, HeldStep DEF ReportInv
<1>4. FreshInv'
  <2>1. ASSUME NEW e \in Daemons, daemon'[e].at \in Waiting PROVE FALSE
    <3>1. e # d /\ daemon[e].at \in Waiting
      BY <2>1 DEF Waiting
    <3> QED BY <3>1, OneServer DEF Waiting, Ready, Busy
  <2> QED BY <2>1 DEF FreshInv, Waiting, Ready, Busy
<1>5. OwnInv'
  BY <1>1, <1>2 DEF OwnInv
<1>6. ReportsInOwnLog'
  BY DEF ReportInv, ReportsInOwnLog
<1>7. ASSUME NEW u \in Tools \ cut PROVE Account(u)'
  <2>1. Account(u) /\ Logged(u)' = Logged(u)
    BY LoggedSame DEF ReportInv
  <2>2. CASE u = t
    <3>1. tool[t].left = Chunks /\ Logged(t) = 0
      BY <2>1, <2>2 DEF Account
    <3>2. Logged(t)' + Len(pipe'[daemon'[d].fifo]) + tool'[t].left = Chunks
      <4>1. Len(pipe'[daemon'[d].fifo]) = 0
        BY <1>1
      <4> QED BY <2>1, <2>2, <3>1, <4>1, BoundsAssumption
    <3> QED BY <1>2, <2>2, <3>2 DEF Account, Copies, Unwritten, Early
  <2>3. CASE u # t
    <3>1. \A e \in Daemons : ~Copies(e, u) /\ ~Copies(e, u)'
      BY <1>1, <1>2, <2>3 DEF Copies
    <3> QED BY <2>1, <2>3, <3>1 DEF Account
  <2> QED BY <2>2, <2>3
<1> QED BY <1>3, <1>4, <1>5, <1>6, <1>7 DEF ReportInv

LEMMA ReportOpenFifoToWrite ==
    ASSUME TypeInv, LockInv, ServeInv, ReportInv, NEW t \in Tools, OpenFifoToWrite(t)
    PROVE  ReportInv'
<1>1. /\ t \in Users /\ tool[t] \in ToolRecords /\ tool \in [Users -> ToolRecords]
      /\ tool[t].at = "open" /\ daemon \in [Daemons -> DaemonRecords]
      /\ UNCHANGED <<stats_fifo, pipe, log, cut>>
  BY DEF Users, TypeInv, ToolInv, DaemonInv, OpenFifoToWrite
<1>2. CASE stats_fifo = None
  <2>1. tool' = [tool EXCEPT ![t] = Ended("failed")] /\ UNCHANGED daemon
    BY <1>2 DEF OpenFifoToWrite
  <2>2. /\ \A u \in Tools : Calm(tool[u], tool'[u])
        /\ \A u \in Tools : u # t => tool'[u] = tool[u]
    BY <1>1, <2>1, EndedCalm DEF Calm, Users
  <2> QED BY <1>1, <2>1, <2>2, ReportToolStep
<1>3. CASE stats_fifo # None
  <2> DEFINE readers == Readers(stats_fifo)
             at == IF readers = {} THEN "opening" ELSE "write"
             r == [tool[t] EXCEPT !.at = at, !.fifo = stats_fifo]
  <2>1. \A u \in Tools : tool'[u] = IF u = t THEN r ELSE tool[u]
    BY <1>1, <1>3 DEF OpenFifoToWrite, Users
  <2>2. /\ daemon' = [e \in Daemons |-> daemon'[e]]
        /\ \A e \in Daemons : daemon'[e] = IF e \in readers THEN [daemon[e] EXCEPT !.at = "copy"]
                                           ELSE daemon[e]
    BY <1>3 DEF OpenFifoToWrite
  <2>3. \A e \in readers : e \in Daemons /\ daemon[e].fifo = stats_fifo
    BY DEF Readers
  <2>4. at = IF readers = {} THEN "opening" ELSE "write"
    OBVIOUS
  <2> HIDE DEF at, readers
  <2>5. r.at = at /\ r.left = tool[t].left /\ r.fifo = stats_fifo
    BY <1>1 DEF ToolRecords
  <2> HIDE DEF r
  <2>6. CASE readers = {}
    <3>1. /\ \A u \in Tools : Calm(tool[u], tool'[u])
          /\ \A u \in Tools : u # t => tool'[u] = tool[u]
      BY <1>1, <2>1, <2>4, <2>5, <2>6 DEF Calm, Unwritten, Early
    <3>2. UNCHANGED daemon
      BY <1>1, <2>2, <2>6
    <3> QED BY <1>1, <3>1, <3>2, ReportToolStep
  <2>7. CASE readers # {}
    <3>1. PICK d \in readers : TRUE
      BY <2>7
    <3>2. PICK e \in Daemons : daemon[e].serving = t
      <4>1. t \notin cut
        BY <1>1 DEF ServeInv, CutInv, Written
      <4> QED BY <1>1, <4>1 DEF ServeInv, Granted
    <3>3. daemon[e].at \in Busy
      BY <3>2, NamesAssumption DEF ServeInv
    <3>4. \A c \in readers : c = e /\ daemon[c].at \in {"opening", "copy"}
      <4>1. \A c \in readers : daemon[c].at \in {"opening", "copy"}
        BY <1>3, <2>3 DEF TypeInv, DaemonInv, DaemonOK
      <4> QED BY <2>3, <3>3, <4>1, OneServer DEF Busy
    <3>5. d = e /\ daemon[d].at = "opening"
      <4>1. daemon[e].at # "copy"
        BY <1>1, <3>2 DEF ServeInv, Written
      <4> QED BY <3>1, <3>4, <4>1
    <3>6. /\ daemon'[d].at = "copy" /\ daemon'[d].serving = t /\ daemon'[d].fifo = stats_fifo
          /\ \A c \in Daemons : c # d => daemon'[c] = daemon[c]
      <4>1. daemon'[d] = [daemon[d] EXCEPT !.at = "copy"] /\ daemon[d] \in DaemonRecords
        BY <1>1, <2>2, <2>3, <3>1
      <4>2. /\ daemon'[d].at = "copy" /\ daemon'[d].serving = daemon[d].serving
            /\ daemon'[d].fifo = daemon[d].fifo
        BY <4>1 DEF DaemonRecords
      <4> QED BY <2>2, <2>3, <3>1, <3>2, <3>4, <3>5, <4>2
    <3>7. /\ tool[t].at \in Unwritten /\ tool[t].fifo = None /\ tool'[t].at = "write"
          /\ tool'[t].left = tool[t].left /\ tool'[t].fifo = stats_fifo
          /\ \A u \in Tools : u # t => tool'[u] = tool[u]
      BY <1>1, <2>1, <2>4, <2>5, <2>7 DEF Unwritten, TypeInv, ToolInv, ToolOK
    <3> QED BY <1>1, <2>3, <3>1, <3>5, <3>6, <3>7, ReportOpened
  <2> QED BY <2>6, <2>7
<1> QED BY <1>2, <1>3

LEMMA ReportOpenFifoToRead ==
    ASSUME TypeInv, LockInv, ServeInv, ReportInv, NEW d \in Daemons, OpenFifoToRead(d)
    PROVE  ReportInv'
<1>1. /\ daemon[d] \in DaemonRecords /\ daemon \in [Daemons -> DaemonRecords]
      /\ daemon[d].at = "open" /\ tool \in [Users -> ToolRecords] /\ stats_fifo # None
      /\ stats_fifo \in Fifos /\ UNCHANGED <<stats_fifo, pipe, log, cut>>
  BY DEF TypeInv, DaemonInv, ToolInv, FileInv, OpenFifoToRead, ServeInv, Ready, Busy
<1> DEFINE writers == Writers(stats_fifo)
           at == IF writers = {} THEN "opening" ELSE "copy"
           r == [daemon[d] EXCEPT !.at = at, !.fifo = stats_fifo]
<1>2. at = IF writers = {} THEN "opening" ELSE "copy"
  OBVIOUS
<1>3. /\ \A e \in Daemons : daemon'[e] = IF e = d THEN r ELSE daemon[e]
      /\ \A t \in Tools : tool'[t] = IF t \in writers THEN [tool[t] EXCEPT !.at = "write"]
                                     ELSE tool[t]
  <2>1. daemon' = [daemon EXCEPT ![d] = r]
    BY <1>1 DEF OpenFifoToRead
  <2>2. tool' = [u \in Users |-> IF u \in writers THEN [tool[u] EXCEPT !.at = "write"] ELSE tool[u]]
    BY <1>1 DEF OpenFifoToRead
  <2> HIDE DEF r, writers
  <2> QED BY <1>1, <2>1, <2>2 DEF Users
<1>4. \A t \in writers : t \in Tools \ cut /\ tool[t].fifo = stats_fifo
  BY <1>1 DEF Writers, ServeInv, CutInv, Ready, Busy
<1> HIDE DEF at, writers
<1>5. r.at = at /\ r.fifo = stats_fifo /\ r.serving = daemon[d].serving
  BY <1>1 DEF ToolRecords, DaemonRecords
<1> HIDE DEF r
<1>6. CASE writers = {}
  <2>1. \A t \in Tools : tool'[t] = tool[t]
    BY <1>3, <1>6
  <2>2. daemon[d].fifo = None
    BY <1>1 DEF TypeInv, DaemonInv, DaemonOK
  <2>3. HeldInv'
    BY <1>1, <1>3, <2>1, <2>2, HeldStep DEF ReportInv
  <2>4. FreshInv'
    BY <1>1, <1>3, FreshStep DEF ReportInv, Waiting, Ready, Busy
  <2> QED BY <1>1, <1>2, <1>3, <1>5, <1>6, <2>1, <2>3, <2>4, CalmStep DEF Calm
<1>7. CASE writers # {}
  <2>1. ASSUME NEW t \in writers PROVE tool[t].at = "opening" /\ daemon[d].serving = t
    <3>1. t \in Users /\ tool[t].fifo # None /\ t \in Tools \ cut
      BY <1>1, <1>4 DEF Users
    <3>2. tool[t].at \in {"opening", "write"}
      BY <3>1 DEF TypeInv, ToolInv, ToolOK
    <3>3. PICK e \in Daemons : daemon[e].serving = t
      BY <3>1, <3>2 DEF ServeInv, Granted
    <3>4. daemon[e].at \in Busy
      BY <3>1, <3>3, NamesAssumption DEF ServeInv
    <3>5. e = d
      BY <1>1, <3>4, OneServer DEF Busy
    <3>6. tool[t].at # "write"
      BY <1>1, <3>1, NobodyCopies DEF ServeInv
    <3> QED BY <3>2, <3>3, <3>5, <3>6
  <2>2. PICK t \in writers : TRUE
    BY <1>7
  <2>3. writers = {t} /\ t \in Tools
    BY <1>4, <2>1, <2>2
  <2>4. /\ tool'[t].at = "write" /\ tool'[t].left = tool[t].left
        /\ tool[t].at \in Unwritten /\ tool[t].fifo = stats_fifo /\ tool'[t].fifo = stats_fifo
    <3>1. tool'[t] = [tool[t] EXCEPT !.at = "write"] /\ tool[t] \in ToolRecords
      BY <1>1, <1>3, <2>2, <2>3 DEF Users
    <3> QED BY <1>4, <2>1, <2>2, <3>1 DEF ToolRecords, Unwritten
  <2>5. /\ \A e \in Daemons : e # d => daemon'[e] = daemon[e]
        /\ \A u \in Tools : u # t => tool'[u] = tool[u]
    BY <1>3, <2>3
  <2>6. daemon'[d].serving = t /\ daemon'[d].fifo = stats_fifo /\ daemon'[d].at = "copy"
    BY <1>2, <1>3, <1>5, <1>7, <2>1, <2>2
  <2> QED BY <1>1, <2>3, <2>4, <2>5, <2>6, ReportOpened
<1> QED BY <1>6, <1>7

\* The chunk at the head of the FIFO is the served tool's, and goes to its log.
LEMMA ChunkCopied ==
    ASSUME TypeInv, ReportInv, NEW d \in Daemons, CopyChunk(d)
    PROVE  /\ daemon[d].serving \in Tools
           /\ log' = Append(log, Chunk(daemon[d].serving))
           /\ daemon[d].fifo \in Fifos
           /\ pipe[daemon[d].fifo] \in Seq(Tools) /\ pipe[daemon[d].fifo] # <<>>
           /\ pipe' = [pipe EXCEPT ![daemon[d].fifo] = Tail(@)]
<1> DEFINE f == daemon[d].fifo
<1>1. /\ daemon[d].at = "copy" /\ f \in Fifos /\ daemon[d].serving \in Tools
      /\ pipe[f] \in Seq(Tools) /\ pipe[f] # <<>>
      /\ pipe' = [pipe EXCEPT ![f] = Tail(@)]
  BY ChunkRead DEF CopyChunk
<1>2. 1 \in DOMAIN pipe[f] /\ Head(pipe[f]) = pipe[f][1]
  BY <1>1
<1>3. pipe[f][1] = daemon[d].serving
  BY <1>1, <1>2 DEF ReportInv, OwnInv
<1> QED BY <1>1, <1>2, <1>3 DEF CopyChunk, Chunk

LEMMA ReportCopyChunk ==
    ASSUME TypeInv, LockInv, ServeInv, ReportInv, NEW d \in Daemons, CopyChunk(d)
    PROVE  ReportInv'
<1>1. PICK t, f : daemon[d].serving = t /\ daemon[d].fifo = f
  OBVIOUS
<1>2. /\ t \in Tools /\ f \in Fifos /\ log' = Append(log, Chunk(t))
      /\ log \in Seq([file : LogFiles, writer : Tools])
      /\ pipe[f] \in Seq(Tools) /\ pipe[f] # <<>> /\ pipe' = [pipe EXCEPT ![f] = Tail(@)]
      /\ pipe \in [Fifos -> Seq(Tools)]
  BY <1>1, ChunkCopied DEF TypeInv, FileInv
<1>3. /\ daemon[d].at = "copy" /\ UNCHANGED <<tool, daemon, stats_fifo, cut>>
      /\ tool[t].at \in Written
  BY <1>1 DEF CopyChunk, ServeInv
<1>4. \A e \in Daemons : daemon[e].at = "copy" => e = d
  BY <1>3, OneServer
<1>5. tool[t].left \in Nat
  BY <1>2 DEF TypeInv, ToolInv, ToolRecords, Users
<1>6. \A i \in DOMAIN pipe[f] : pipe[f][i] = t
  BY <1>3, <1>1 DEF ReportInv, OwnInv
<1>7. \A e \in Daemons : \A u : Copies(e, u)' <=> Copies(e, u)
  BY <1>3 DEF Copies
<1>8. Copies(d, t) /\ \A e \in Daemons : \A u : Copies(e, u) => e = d /\ u = t
  BY <1>3, <1>4, <1>1 DEF Copies
<1>9. /\ pipe'[f] = Tail(pipe[f]) /\ Len(pipe'[f]) = Len(pipe[f]) - 1 /\ Len(pipe[f]) \in Nat
      /\ \A i \in DOMAIN pipe'[f] : i + 1 \in DOMAIN pipe[f] /\ pipe'[f][i] = pipe[f][i + 1]
      /\ \A g \in Fifos : g # f => pipe'[g] = pipe[g]
  BY <1>2
<1>10. HeldInv'
  <2>1. \A g \in Fifos : pipe'[g] # <<>> => Readers(g) \cup Writers(g) # {}
    BY <1>2, <1>9 DEF ReportInv, HeldInv
  <2> QED BY <1>3, <2>1 DEF HeldInv, Readers, Writers
<1>11. FreshInv'
  BY <1>3, CopyAlone DEF Waiting
<1>12. OwnInv'
  <2> SUFFICES ASSUME NEW e \in Daemons, daemon'[e].at = "copy",
                      NEW i \in DOMAIN pipe'[daemon'[e].fifo]
               PROVE  pipe'[daemon'[e].fifo][i] = daemon'[e].serving
    BY DEF OwnInv
  <2>1. daemon'[e].fifo = f /\ daemon'[e].serving = t
    BY <1>1, <1>3, <1>4
  <2>2. i \in DOMAIN pipe'[f]
    BY <2>1
  <2> QED BY <1>6, <1>9, <2>1, <2>2
<1>13. ReportsInOwnLog'
  <2>1. Chunk(t) \in [file : LogFiles, writer : Tools] /\ Chunk(t).file = LogOf[Chunk(t).writer]
    BY <1>2, ChunkIs
  <2>2. ASSUME NEW i \in DOMAIN log'
        PROVE  log'[i] = Chunk(t) \/ (i \in DOMAIN log /\ log'[i] = log[i])
    <3>1. PICK c \in [file : LogFiles, writer : Tools] : c = Chunk(t) /\ log' = Append(log, c)
      BY <1>2, <2>1
    <3> QED BY <1>2, <3>1
  <2> QED BY <2>1, <2>2 DEF ReportInv, ReportsInOwnLog
<1>14. ASSUME NEW u \in Tools \ cut PROVE Account(u)'
  <2>1. /\ Account(u) /\ Logged(u) \in Nat
        /\ Logged(u)' = IF u = t THEN Logged(u) + 1 ELSE Logged(u)
    BY <1>2, LoggedAppend DEF ReportInv
  <2>2. CASE u = t
    <3>1. tool[t].at \in {"write", "done"} => Logged(t)' + Len(pipe'[f]) + tool'[t].left = Chunks
      <4>1. SUFFICES ASSUME tool[t].at \in {"write", "done"}
                     PROVE  Logged(t)' + Len(pipe'[f]) + tool'[t].left = Chunks
        OBVIOUS
      <4>2. Logged(t) + Len(pipe[f]) + tool[t].left = Chunks
        BY <1>8, <1>1, <2>1, <2>2, <4>1 DEF Account
      <4> QED BY <1>3, <1>5, <1>9, <2>1, <2>2, <4>2
    <3>2. tool'[t].at \notin Unwritten /\ (tool'[t].at = "done" => tool'[t].left = 0)
      BY <1>3, <2>1, <2>2 DEF Account, Written, Unwritten, Early
    <3>3. \A e \in Daemons : Copies(e, t)' => daemon'[e].fifo = f
      BY <1>3, <1>7, <1>8, <1>1
    <3>4. Copies(d, t)'
      BY <1>7, <1>8
    <3> QED BY <1>3, <2>2, <3>1, <3>2, <3>3, <3>4 DEF Account
  <2>3. CASE u # t
    <3>1. \A e \in Daemons : ~Copies(e, u) /\ ~Copies(e, u)'
      BY <1>7, <1>8, <2>3
    <3> QED BY <1>3, <2>1, <2>3, <3>1 DEF Account
  <2> QED BY <2>2, <2>3
<1> QED BY <1>3, <1>10, <1>11, <1>12, <1>13, <1>14 DEF ReportInv

\* The FIFO is empty when the daemon leaves it: what its tool wrote is logged.
LEMMA ReportEndOfReport ==
    ASSUME TypeInv, LockInv, ServeInv, ReportInv, NEW d \in Daemons, EndOfReport(d)
    PROVE  ReportInv'
<1> DEFINE r == [daemon[d] EXCEPT !.at = "check", !.serving = None, !.fifo = None]
<1>1. /\ daemon[d] \in DaemonRecords /\ daemon \in [Daemons -> DaemonRecords]
      /\ daemon[d].at = "copy" /\ UNCHANGED <<tool, stats_fifo, pipe, log, cut>>
      /\ pipe[daemon[d].fifo] = <<>> /\ daemon[d].fifo = stats_fifo
  BY DEF TypeInv, DaemonInv, EndOfReport, ServeInv, CutInv
<1>2. r.at = "check"
  BY <1>1 DEF DaemonRecords
<1>3. \A e \in Daemons : daemon'[e] = IF e = d THEN r ELSE daemon[e]
  BY <1>1 DEF EndOfReport
<1> HIDE DEF r
<1>4. \A e \in Daemons : e # d => daemon[e].at \notin Ready
  BY <1>1, OneServer DEF Ready, Busy
<1>5. \A e \in Daemons : daemon'[e].at # "copy"
  BY <1>2, <1>3, <1>4 DEF Ready, Busy
<1>6. HeldInv'
  <2>1. ASSUME NEW f \in Fifos, pipe[f] # <<>> PROVE Readers(f)' \cup Writers(f)' # {}
    <3>1. PICK p \in Readers(f) \cup Writers(f) : TRUE
      BY <2>1 DEF ReportInv, HeldInv
    <3>2. p \in Readers(f) => p # d
      BY <1>1, <2>1 DEF Readers
    <3> QED BY <1>1, <1>3, <3>1, <3>2 DEF Readers, Writers
  <2> QED BY <1>1, <2>1 DEF HeldInv
<1>7. FreshInv'
  <2>1. \A e \in Daemons : daemon'[e].at \in Waiting => e = d
    BY <1>3, <1>4 DEF Waiting
  <2> QED BY <1>1, <2>1 DEF FreshInv
<1>8. OwnInv' /\ ReportsInOwnLog'
  BY <1>1, <1>5 DEF ReportInv, OwnInv, ReportsInOwnLog
<1>9. ASSUME NEW t \in Tools \ cut PROVE Account(t)'
  <2>1. Account(t) /\ Logged(t)' = Logged(t) /\ \A e \in Daemons : ~Copies(e, t)'
    BY <1>1, <1>5, LoggedSame DEF ReportInv, Copies
  <2>2. tool[t].at = "done" => Logged(t) = Chunks
    <3>1. SUFFICES ASSUME tool[t].at = "done", Copies(d, t) PROVE Logged(t) = Chunks
      <4>1. ASSUME ~Copies(d, t), tool[t].at = "done" PROVE Logged(t) = Chunks
        BY <1>4, <2>1, <4>1 DEF Account, Copies, Ready, Busy
      <4> QED BY <4>1
    <3>2. Logged(t) + Len(pipe[daemon[d].fifo]) + tool[t].left = Chunks /\ tool[t].left = 0
      BY <2>1, <3>1 DEF Account
    <3>3. Logged(t) \in Nat /\ Len(pipe[daemon[d].fifo]) = 0
      BY <1>1, LoggedNat DEF TypeInv, FileInv
    <3> QED BY <3>2, <3>3
  <2> QED BY <1>1, <2>1, <2>2 DEF Account
<1> QED BY <1>1, <1>6, <1>7, <1>8, <1>9 DEF ReportInv

\* The report that the daemon was copying when a write failed is accounted for no
\* more; it has copied no other one.
LEMMA ReportCopyFails ==
    ASSUME TypeInv, LockInv, ServeInv, ReportInv, NEW d \in Daemons, CopyFails(d)
    PROVE  ReportInv'
<1> DEFINE f == daemon[d].fifo
<1>1. /\ daemon[d].at = "copy" /\ UNCHANGED <<tool, stats_fifo, log>> /\ pipe[f] # <<>>
      /\ cut' = cut \cup Writers(f) \cup {pipe[f][i] : i \in DOMAIN pipe[f]}
      /\ pipe' = LeftBy(d, [pipe EXCEPT ![f] = Tail(@)])
  BY Zenon DEF CopyFails
<1>2. \A e \in Daemons : daemon'[e] = IF e = d THEN NoDaemon ELSE daemon[e]
  BY DEF CopyFails, TypeInv, DaemonInv
<1>3. f \in Fifos /\ pipe \in [Fifos -> Seq(Tools)] /\ pipe[f] \in Seq(Tools)
  BY <1>1, ChunkRead DEF TypeInv, FileInv
<1> HIDE DEF f
<1>4. \A e \in Daemons : daemon'[e].at \notin Ready
  BY <1>1, <1>2, OneServer DEF NoDaemon, Ready, Busy
<1>5. HeldInv'
  <2>1. ASSUME NEW g \in Fifos, pipe'[g] # <<>> PROVE Readers(g)' \cup Writers(g)' # {}
    <3>1. PICK p \in Readers(g) \cup Writers(g) : p # d
      BY <1>1, <2>1 DEF LeftBy
    <3> QED BY <1>1, <1>2, <3>1 DEF Readers, Writers
  <2> QED BY <2>1 DEF HeldInv
<1>6. FreshInv' /\ OwnInv'
  BY <1>4 DEF FreshInv, OwnInv, Waiting, Ready, Busy
<1>7. ReportsInOwnLog'
  BY <1>1 DEF ReportInv, ReportsInOwnLog
<1>8. daemon[d].serving \in cut'
  <2>1. 1 \in DOMAIN pipe[f]
    BY <1>1, <1>3
  <2>2. pipe[f][1] = daemon[d].serving
    BY <1>1, <2>1 DEF ReportInv, OwnInv, f
  <2> QED BY <1>1, <2>1, <2>2
<1>9. ASSUME NEW t \in Tools \ cut' PROVE Account(t)'
  <2>1. Account(t) /\ Logged(t)' = Logged(t)
    BY <1>1, LoggedSame DEF ReportInv
  <2>2. \A e \in Daemons : ~Copies(e, t) /\ ~Copies(e, t)'
    <3>1. \A e \in Daemons : daemon[e].at = "copy" => e = d
      BY <1>1, OneServer
    <3> QED BY <1>4, <1>8, <3>1 DEF Copies, Ready, Busy
  <2> QED BY <1>1, <2>1, <2>2 DEF Account
<1> QED BY <1>5, <1>6, <1>7, <1>9 DEF ReportInv

LEMMA ReportInit == Init => ReportInv
<1> SUFFICES ASSUME Init PROVE ReportInv
  OBVIOUS
<1>1. /\ \A f \in Fifos : pipe[f] = <<>>
      /\ \A d \in Daemons : daemon[d].at = "none"
      /\ \A t \in Tools : tool[t].at = "start" /\ tool[t].left = Chunks
      /\ log = <<>>
  BY DEF Init, NewTool, NoDaemon, Users
<1>2. \A t : Logged(t) = 0
  <2>1. \A t : {i \in DOMAIN log : log[i] = Chunk(t)} = {}
    BY <1>1
  <2> QED BY <2>1, FS_EmptySet DEF Logged
<1>3. \A t \in Tools : Account(t)
  BY <1>1, <1>2 DEF Account, Copies, Unwritten, Early
<1>4. HeldInv /\ FreshInv /\ OwnInv /\ ReportsInOwnLog
  BY <1>1 DEF HeldInv, FreshInv, OwnInv, ReportsInOwnLog, Waiting, Ready, Busy
<1> QED BY <1>3, <1>4 DEF ReportInv

LEMMA ReportNext ==
    NoStop /\ ~JobControl /\ TypeInv /\ LockInv /\ ServeInv /\ ReportInv /\ [Next]_vars
      => ReportInv'
<1> SUFFICES ASSUME NoStop, ~JobControl, TypeInv, LockInv, ServeInv, ReportInv, [Next]_vars
             PROVE  ReportInv'
  OBVIOUS
<1>1. CASE UNCHANGED vars
  <2>1. UNCHANGED <<tool, daemon, stats_fifo, pipe, log, cut>>
    BY <1>1 DEF vars
  <2>2. HeldInv' /\ FreshInv'
    BY <2>1 DEF ReportInv, HeldInv, FreshInv, Readers, Writers
  <2> QED BY <2>1, <2>2, CalmStep DEF Calm
<1>2. CASE \E t \in Tools : Tool(t)
  <2>1. PICK t \in Tools : Tool(t)
    BY <1>2
  <2>2. t \in Users /\ (ToolMoves(t) \/ OpenFifoToWrite(t) \/ Write(t))
    BY Zenon, <2>1 DEF Tool, ToolMoves, Users
  <2> QED BY <2>2, ReportTool, ReportWrite, ReportOpenFifoToWrite
<1>3. CASE \E s \in Stoppers : Stopper(s)
  BY <1>3 DEF NoStop
<1>4. CASE \E u \in Users : FindDaemon(u)
  BY Zenon, <1>4, ReportTool DEF ToolMoves
<1>5. CASE Environment
  BY Zenon, <1>5, ReportTool DEF ToolMoves, Environment, Resumed
<1>6. ASSUME NEW d \in Daemons, Daemon(d) PROVE ReportInv'
  <2>1. ~(RemoveQueue(d) \/ UnlinkFifo(d) \/ UnlinkLock(d))
    BY DEF LockInv, LockOK, RemoveQueue, UnlinkFifo, UnlinkLock
  <2>2. \/ Between(d) \/ Grant(d) \/ OpenFifoToRead(d)
        \/ CopyChunk(d) \/ CopyFails(d) \/ EndOfReport(d)
    BY Zenon, <1>6, <2>1 DEF Daemon, Between
  <2> QED BY <2>2, ReportIdleDaemon, ReportOpenFifoToRead, ReportCopyChunk, ReportCopyFails,
             ReportEndOfReport
<1> QED BY <1>1, <1>2, <1>3, <1>4, <1>5, <1>6 DEF Next

LEMMA ReportAlways ==
    ASSUME NoStop, ~JobControl PROVE Spec => [](TypeInv /\ LockInv /\ ServeInv /\ ReportInv)
<1>1. /\ TypeInv /\ LockInv /\ ServeInv /\ ReportInv /\ [Next]_vars
      => (TypeInv /\ LockInv /\ ServeInv /\ ReportInv)'
  BY TypeStep, LockNext, ServeNext, ReportNext
<1> QED BY <1>1, TypeInit, LockInit, ServeInit, ReportInit, PTL DEF Spec

\* Once nothing is being copied, the report of every tool that has exited with
\* success is whole and once in the log that it asked for, provided that nobody runs
\* the tool with -s and no shell sends it SIGCONT.  Other tools may be killed at any
\* moment; a daemon that dies because a write to the log fails loses no other report
\* than the one it was copying then.
THEOREM EveryReportIsLogged == ASSUME NoStop, ~JobControl PROVE Spec => []ReportsLogged
<1>1. ServeInv /\ ReportInv => ReportsLogged
  <2> SUFFICES ASSUME ServeInv, ReportInv, \A d \in Daemons : daemon[d].serving = None,
                      NEW t \in Tools \ cut, tool[t].at = "done"
               PROVE  Logged(t) = Chunks
    BY DEF ReportsLogged, Logged, Chunk
  <2>1. \A d \in Daemons : ~Copies(d, t)
    BY NamesAssumption DEF Copies
  <2> QED BY <2>1 DEF ReportInv, Account
<1> QED BY <1>1, ReportAlways, PTL

\* No chunk of a report ends up in another log than the one its tool asked for, under
\* the same provisos, in the cut reports too.
THEOREM EveryReportInItsLog == ASSUME NoStop, ~JobControl PROVE Spec => []ReportsInOwnLog
<1>1. ReportInv => ReportsInOwnLog
  BY DEF ReportInv
<1> QED BY <1>1, ReportAlways, PTL

-----------------------------------------------------------------------------
(* LogService.  What is known of a booking on its way to the daemon.       *)

\* A booking is in one queue, once, and its tool has sent it; a tool that is
\* served has sent its booking.
BookInv ==
    /\ \A q \in DOMAIN queue : \A i \in DOMAIN queue[q] : tool[queue[q][i]].at \notin Early
    /\ \A q, p \in DOMAIN queue : \A i \in DOMAIN queue[q], j \in DOMAIN queue[p] :
         queue[q][i] = queue[p][j] => q = p /\ i = j
    /\ \A t \in Tools : tool[t].at \in Early => t \notin Served

LEMMA QueueElement ==
    ASSUME TypeInv, NEW q \in DOMAIN queue, NEW i \in DOMAIN queue[q]
    PROVE  queue[q][i] \in Tools /\ queue[q] \in Seq(Tools)
  BY DEF TypeInv, FileInv

\* A step that adds no booking and takes none away.
LEMMA BookSame ==
    ASSUME TypeInv, BookInv,
           queue' = queue \/ \E id : OpenQueue(id),
           \A t \in Tools : tool'[t].at \in Early => tool[t].at \in Early,
           Served' \subseteq Served
    PROVE  BookInv' /\ Booked' = Booked
<1>0. /\ \A q \in DOMAIN queue : q \in DOMAIN queue' /\ queue'[q] = queue[q]
      /\ \A q \in DOMAIN queue' : q \notin DOMAIN queue => queue'[q] = <<>>
  <2>1. CASE queue' = queue
    BY <2>1
  <2>2. CASE \E id : OpenQueue(id)
    <3>1. PICK id : OpenQueue(id)
      BY <2>2
    <3> QED BY <3>1 DEF OpenQueue
  <2> QED BY <2>1, <2>2
<1>1. ASSUME NEW q \in DOMAIN queue', NEW i \in DOMAIN queue'[q]
      PROVE  q \in DOMAIN queue /\ i \in DOMAIN queue[q] /\ queue'[q][i] = queue[q][i]
  BY <1>0
<1>2. ASSUME NEW q \in DOMAIN queue, NEW i \in DOMAIN queue[q]
      PROVE  q \in DOMAIN queue' /\ i \in DOMAIN queue'[q] /\ queue'[q][i] = queue[q][i]
  BY <1>0
<1>3. Booked' = Booked
  BY <1>1, <1>2 DEF Booked
<1>4. \A q \in DOMAIN queue' : \A i \in DOMAIN queue'[q] : tool'[queue'[q][i]].at \notin Early
  BY <1>1, QueueElement DEF BookInv
<1>5. \A q, p \in DOMAIN queue' : \A i \in DOMAIN queue'[q], j \in DOMAIN queue'[p] :
        queue'[q][i] = queue'[p][j] => q = p /\ i = j
  BY <1>1 DEF BookInv
<1> QED BY <1>3, <1>4, <1>5 DEF BookInv

\* What the service sees of a step that only moves a process.
LEMMA Unseen ==
    ASSUME Booked' = Booked, Served' = Served, UNCHANGED log
    PROVE  UNCHANGED Service!vars
  BY DEF Service!vars

LEMMA SameServed ==
    ASSUME ServeInv, ServeInv',
           \A d \in Daemons : \/ daemon'[d].serving = daemon[d].serving
                              \/ daemon[d].at \notin Busy /\ daemon'[d].at \notin Busy
    PROVE  Served' = Served
<1>1. \A d \in Daemons : daemon'[d].serving = daemon[d].serving
  BY DEF ServeInv
<1> QED BY <1>1 DEF Served

LEMMA OneServed ==
    ASSUME TypeInv, LockInv, ServeInv, NEW d \in Daemons,
           daemon[d].at \notin {"none", "open_lock", "set_lock"}
    PROVE  Served = IF daemon[d].serving = None THEN {} ELSE {daemon[d].serving}
<1>1. ASSUME NEW e \in Daemons, daemon[e].serving # None PROVE e = d
  <2>1. daemon[e].at \in Busy
    BY <1>1 DEF ServeInv
  <2> QED BY <2>1, OneServer DEF Busy
<1>2. daemon[d].serving \in Tools \cup {None}
  BY DEF TypeInv, DaemonInv, DaemonRecords
<1>3. None \notin Tools
  BY NamesAssumption
<1> QED BY <1>1, <1>2, <1>3 DEF Served

-----------------------------------------------------------------------------
(* Send() is Book(): the tool has no booking, is not served and has no     *)
(* chunk in the log.                                                       *)

LEMMA ServiceSend ==
    ASSUME TypeInv, ServeInv, ReportInv, BookInv, NEW t \in Tools, Send(t),
           tool[t].queue_id # None, tool'[t].at = "wait"
    PROVE  BookInv' /\ Service!Book(t)
<1> DEFINE id == tool[t].queue_id
           s == queue[id]
<1>1. /\ t \in Users /\ tool[t] \in ToolRecords /\ tool \in [Users -> ToolRecords]
      /\ tool[t].at = "send" /\ id \in DOMAIN queue
  BY DEF Send, Users, TypeInv, ToolInv, ToolOK
<1>2. s \in Seq(Tools) /\ queue \in [DOMAIN queue -> Seq(Tools)]
  BY <1>1 DEF TypeInv, FileInv
<1>3. /\ queue' = [queue EXCEPT ![id] = Append(@, t)]
      /\ \A u \in Tools : u # t => tool'[u] = tool[u]
      /\ UNCHANGED <<daemon, log, cut>>
  BY <1>1 DEF Send, Users
<1> HIDE DEF id
<1>4. /\ DOMAIN queue' = DOMAIN queue /\ queue'[id] = Append(s, t)
      /\ \A q \in DOMAIN queue : q # id => queue'[q] = queue[q]
  BY <1>1, <1>2, <1>3
<1>5. /\ DOMAIN s = 1..Len(s) /\ Len(s) \in Nat /\ DOMAIN queue'[id] = 1..(Len(s) + 1)
      /\ \A i \in 1..Len(s) : queue'[id][i] = s[i]
      /\ queue'[id][Len(s) + 1] = t
  BY <1>2, <1>4
<1>6. \A q \in DOMAIN queue : \A i \in DOMAIN queue[q] : queue[q][i] # t
  BY <1>1 DEF BookInv, Early
<1>7. ASSUME NEW q \in DOMAIN queue', NEW i \in DOMAIN queue'[q]
      PROVE  \/ i \in DOMAIN queue[q] /\ queue'[q][i] = queue[q][i]
             \/ q = id /\ i = Len(s) + 1 /\ queue'[q][i] = t
  <2>1. CASE q = id
    <3>1. i \in 1..Len(s) \/ i = Len(s) + 1
      BY <1>5, <2>1
    <3> QED BY <1>5, <2>1, <3>1
  <2>2. CASE q # id
    BY <1>4, <2>2
  <2> QED BY <2>1, <2>2
<1>8. Booked' = Booked \cup {t} /\ t \notin Booked
  <2>1. t \notin Booked
    BY <1>6 DEF Booked
  <2>2. ASSUME NEW u \in Booked PROVE u \in Booked'
    <3>0. PICK q \in DOMAIN queue : \E i \in DOMAIN queue[q] : queue[q][i] = u /\ u \in Tools
      BY DEF Booked
    <3>1. PICK i \in DOMAIN queue[q] : queue[q][i] = u /\ u \in Tools
      BY <3>0
    <3>2. q \in DOMAIN queue' /\ i \in DOMAIN queue'[q] /\ queue'[q][i] = u
      <4>1. CASE q = id
        BY <1>4, <1>5, <3>1, <4>1
      <4>2. CASE q # id
        BY <1>4, <3>1, <4>2
      <4> QED BY <4>1, <4>2
    <3> QED BY <3>1, <3>2 DEF Booked
  <2>3. t \in Booked'
    <3>1. Len(s) + 1 \in DOMAIN queue'[id] /\ id \in DOMAIN queue'
      BY <1>1, <1>4, <1>5
    <3> QED BY <1>5, <3>1 DEF Booked
  <2>4. ASSUME NEW u \in Booked' PROVE u \in Booked \cup {t}
    <3>0. PICK q \in DOMAIN queue' : \E i \in DOMAIN queue'[q] : queue'[q][i] = u /\ u \in Tools
      BY DEF Booked
    <3>1. PICK i \in DOMAIN queue'[q] : queue'[q][i] = u /\ u \in Tools
      BY <3>0
    <3> QED BY <1>4, <1>7, <3>1 DEF Booked
  <2> QED BY <2>1, <2>2, <2>3, <2>4
<1>9. BookInv'
  <2>1. ASSUME NEW q \in DOMAIN queue', NEW i \in DOMAIN queue'[q]
        PROVE  tool'[queue'[q][i]].at \notin Early
    <3>1. CASE i \in DOMAIN queue[q] /\ queue'[q][i] = queue[q][i]
      <4>1. queue[q][i] \in Tools /\ queue[q][i] # t /\ tool[queue[q][i]].at \notin Early
        BY <1>4, <1>6, <3>1, QueueElement DEF BookInv
      <4> QED BY <1>3, <3>1, <4>1
    <3>2. CASE queue'[q][i] = t
      BY <3>2 DEF Early
    <3> QED BY <1>7, <3>1, <3>2
  <2>2. ASSUME NEW q \in DOMAIN queue', NEW p \in DOMAIN queue',
               NEW i \in DOMAIN queue'[q], NEW j \in DOMAIN queue'[p],
               queue'[q][i] = queue'[p][j]
        PROVE  q = p /\ i = j
    <3>1. q \in DOMAIN queue /\ p \in DOMAIN queue
      BY <1>4
    <3>2. \/ i \in DOMAIN queue[q] /\ queue'[q][i] = queue[q][i]
          \/ q = id /\ i = Len(s) + 1 /\ queue'[q][i] = t
      BY <1>7
    <3>3. \/ j \in DOMAIN queue[p] /\ queue'[p][j] = queue[p][j]
          \/ p = id /\ j = Len(s) + 1 /\ queue'[p][j] = t
      BY <1>7
    <3>4. CASE i \in DOMAIN queue[q] /\ j \in DOMAIN queue[p] /\ queue[q][i] = queue[p][j]
      BY <3>1, <3>4 DEF BookInv
    <3>5. /\ i \in DOMAIN queue[q] => queue[q][i] # t
          /\ j \in DOMAIN queue[p] => queue[p][j] # t
      BY <1>6, <3>1
    <3>6. CASE i \in DOMAIN queue[q] /\ queue'[q][i] = queue[q][i]
      <4>1. queue'[p][j] # t
        BY <2>2, <3>5, <3>6
      <4>2. j \in DOMAIN queue[p] /\ queue'[p][j] = queue[p][j]
        BY <3>3, <4>1
      <4> QED BY <2>2, <3>4, <3>6, <4>2
    <3>7. CASE q = id /\ i = Len(s) + 1 /\ queue'[q][i] = t
      <4>1. queue'[p][j] = t
        BY <2>2, <3>7
      <4>2. p = id /\ j = Len(s) + 1
        BY <3>3, <3>5, <4>1
      <4> QED BY <3>7, <4>2
    <3> QED BY <3>2, <3>6, <3>7
  <2>3. \A u \in Tools : tool'[u].at \in Early => u \notin Served'
    BY <1>3 DEF BookInv, Served, Early
  <2> QED BY <2>1, <2>2, <2>3 DEF BookInv
<1>10. t \notin Served /\ Served' = Served
  BY <1>1, <1>3 DEF BookInv, Early, Served
<1>11. \A i \in DOMAIN log : log[i].writer # t
  <2>1. {i \in DOMAIN log : log[i] = Chunk(t)} = {}
    <3>1. t \in Tools \ cut
      BY <1>1 DEF ServeInv, CutInv, Written
    <3>2. Logged(t) = 0
      BY <1>1, <3>1 DEF ReportInv, Account, Unwritten, Early
    <3>3. IsFiniteSet({i \in DOMAIN log : log[i] = Chunk(t)})
      BY LoggedNat DEF TypeInv, FileInv
    <3> QED BY <3>2, <3>3, FS_EmptySet DEF Logged
  <2> SUFFICES ASSUME NEW i \in DOMAIN log, log[i].writer = t PROVE FALSE
    OBVIOUS
  <2>2. log[i] \in [file : LogFiles, writer : Tools]
    <3> DEFINE S == [file : LogFiles, writer : Tools]
    <3>1. log \in Seq(S)
      BY DEF TypeInv, FileInv
    <3> HIDE DEF S
    <3>2. log[i] \in S
      BY <3>1
    <3> QED BY <3>2 DEF S
  <2>3. log[i].file = LogOf[t]
    BY DEF ReportInv, ReportsInOwnLog
  <2>4. log[i] = Chunk(t)
    BY <2>2, <2>3 DEF Chunk
  <2> QED BY <2>1, <2>4
<1> DEFINE w == IF Served = {} THEN None ELSE CHOOSE u \in Served : TRUE
<1>12. t # w
  <2>1. None \notin Tools
    BY NamesAssumption
  <2> QED BY <1>10, <2>1
<1>13. Service!ChunksOf(t) = {}
  BY <1>11 DEF Service!ChunksOf
<1> QED BY <1>3, <1>8, <1>9, <1>10, <1>12, <1>13 DEF Service!Book

-----------------------------------------------------------------------------
(* Receive() takes a booking away, which is granted or dropped.            *)

LEMMA ServiceReceive ==
    ASSUME TypeInv, BookInv, NEW d \in Daemons, NEW response \in {"granted", "refused"},
           Receive(d, response),
           Served' \subseteq Served \cup {Head(queue[daemon[d].queue_id])}
    PROVE  /\ BookInv'
           /\ Head(queue[daemon[d].queue_id]) \in Booked
           /\ Booked' = Booked \ {Head(queue[daemon[d].queue_id])}
<1>0. PICK id, s, u : id = daemon[d].queue_id /\ s = queue[id] /\ u = Head(s)
  OBVIOUS
<1>1. /\ id = daemon[d].queue_id /\ id \in DOMAIN queue
      /\ s = queue[id] /\ s \in Seq(Tools) /\ s # <<>>
      /\ u = Head(s) /\ u \in Tools
      /\ queue' = [queue EXCEPT ![id] = Tail(@)]
  <2>1. id \in DOMAIN queue /\ u \in Tools
    BY <1>0, Received
  <2>2. s \in Seq(Tools)
    BY <1>0, <2>1 DEF TypeInv, FileInv
  <2> QED BY <1>0, <2>1, <2>2 DEF Receive
<1>2. \A t \in Tools : tool'[t].at \in Early => tool[t].at \in Early
  BY AnswerCalm DEF Calm, Early
<1>3. queue \in [DOMAIN queue -> Seq(Tools)]
  BY DEF TypeInv, FileInv
<1>4. /\ DOMAIN queue' = DOMAIN queue /\ queue'[id] = Tail(s)
      /\ \A q \in DOMAIN queue : q # id => queue'[q] = queue[q]
  BY <1>1, <1>3
<1>5. /\ Len(s) \in Nat /\ Len(s) > 0 /\ DOMAIN s = 1..Len(s) /\ u = s[1]
      /\ DOMAIN Tail(s) = 1..(Len(s) - 1)
      /\ \A i \in 1..(Len(s) - 1) : Tail(s)[i] = s[i + 1]
  BY <1>1
\* Where each booking that stays was, and that none of them is u's.
<1> DEFINE Was(q, i) == IF q = id THEN i + 1 ELSE i
<1>6. ASSUME NEW q \in DOMAIN queue', NEW i \in DOMAIN queue'[q]
      PROVE  /\ q \in DOMAIN queue /\ Was(q, i) \in DOMAIN queue[q]
             /\ queue'[q][i] = queue[q][Was(q, i)] /\ queue'[q][i] # u
  <2>1. q \in DOMAIN queue /\ Was(q, i) \in DOMAIN queue[q] /\ queue'[q][i] = queue[q][Was(q, i)]
    <3>1. CASE q = id
      BY <1>1, <1>4, <1>5, <3>1
    <3>2. CASE q # id
      BY <1>4, <3>2
    <3> QED BY <3>1, <3>2
  <2>2. q = id => Was(q, i) # 1
    <3>1. q = id => i \in 1..(Len(s) - 1)
      BY <1>4, <1>5
    <3> QED BY <1>5, <3>1
  <2>3. 1 \in DOMAIN queue[id] /\ queue[id][1] = u
    BY <1>1, <1>5
  <2>4. queue[q][Was(q, i)] = queue[id][1] => q = id /\ Was(q, i) = 1
    BY <1>1, <2>1, <2>3 DEF BookInv
  <2> QED BY <2>1, <2>2, <2>3, <2>4
<1>7. Booked' = Booked \ {u} /\ u \in Booked
  <2>1. u \in Booked
    <3>1. 1 \in DOMAIN queue[id] /\ queue[id][1] = u
      BY <1>1, <1>5
    <3> QED BY <1>1, <3>1 DEF Booked
  <2>2. ASSUME NEW t \in Booked' PROVE t \in Booked \ {u}
    <3>1. PICK q \in DOMAIN queue' : \E i \in DOMAIN queue'[q] : queue'[q][i] = t /\ t \in Tools
      BY DEF Booked
    <3>2. PICK i \in DOMAIN queue'[q] : queue'[q][i] = t /\ t \in Tools
      BY <3>1
    <3>3. /\ q \in DOMAIN queue /\ Was(q, i) \in DOMAIN queue[q]
          /\ t = queue[q][Was(q, i)] /\ t # u
      BY <1>6, <3>2
    <3> HIDE DEF Was
    <3> QED BY <3>2, <3>3 DEF Booked
  <2>3. ASSUME NEW t \in Booked, t # u PROVE t \in Booked'
    <3>1. PICK q \in DOMAIN queue : \E i \in DOMAIN queue[q] : queue[q][i] = t /\ t \in Tools
      BY DEF Booked
    <3>2. PICK i \in DOMAIN queue[q] : queue[q][i] = t /\ t \in Tools
      BY <3>1
    <3>3. \E j \in DOMAIN queue'[q] : queue'[q][j] = t
      <4>1. CASE q = id
        <5>1. i \in 1..Len(s) /\ i # 1
          BY <1>1, <1>5, <2>3, <3>2, <4>1
        <5>2. i - 1 \in 1..(Len(s) - 1) /\ (i - 1) + 1 = i
          BY <1>5, <5>1
        <5>3. Tail(s)[i - 1] = s[i]
          BY <1>5, <5>2
        <5> QED BY <1>1, <1>4, <1>5, <3>2, <4>1, <5>2, <5>3
      <4>2. CASE q # id
        BY <1>4, <3>2, <4>2
      <4> QED BY <4>1, <4>2
    <3> QED BY <1>4, <3>2, <3>3 DEF Booked
  <2> QED BY <2>1, <2>2, <2>3
<1>8. \A q \in DOMAIN queue' : \A i \in DOMAIN queue'[q] : tool'[queue'[q][i]].at \notin Early
  <2> SUFFICES ASSUME NEW q \in DOMAIN queue', NEW i \in DOMAIN queue'[q]
               PROVE  tool'[queue'[q][i]].at \notin Early
    OBVIOUS
  <2>1. PICK k \in DOMAIN queue[q] : q \in DOMAIN queue /\ queue'[q][i] = queue[q][k]
    BY <1>6
  <2>2. queue[q][k] \in Tools /\ tool[queue[q][k]].at \notin Early
    BY <2>1, QueueElement DEF BookInv
  <2> QED BY <1>2, <2>1, <2>2
<1>9. ASSUME NEW q \in DOMAIN queue', NEW p \in DOMAIN queue',
             NEW i \in DOMAIN queue'[q], NEW j \in DOMAIN queue'[p],
             queue'[q][i] = queue'[p][j]
      PROVE  q = p /\ i = j
  <2>1. /\ q \in DOMAIN queue /\ Was(q, i) \in DOMAIN queue[q] /\ queue'[q][i] = queue[q][Was(q, i)]
        /\ p \in DOMAIN queue /\ Was(p, j) \in DOMAIN queue[p] /\ queue'[p][j] = queue[p][Was(p, j)]
    BY <1>6
  <2>2. q = p /\ Was(q, i) = Was(p, j)
    <3>1. PICK k, l : k = Was(q, i) /\ l = Was(p, j)
      OBVIOUS
    <3>2. k \in DOMAIN queue[q] /\ l \in DOMAIN queue[p] /\ queue[q][k] = queue[p][l]
      BY <1>9, <2>1, <3>1
    <3>3. q = p /\ k = l
      BY <2>1, <3>2 DEF BookInv
    <3> QED BY <3>1, <3>3
  <2>3. i \in Nat /\ j \in Nat
    <3>1. queue' \in [DOMAIN queue' -> Seq(Tools)]
      BY <1>4, Received
    <3>2. queue'[q] \in Seq(Tools) /\ queue'[p] \in Seq(Tools)
      BY <3>1
    <3>3. /\ DOMAIN queue'[q] = 1..Len(queue'[q]) /\ Len(queue'[q]) \in Nat
          /\ DOMAIN queue'[p] = 1..Len(queue'[p]) /\ Len(queue'[p]) \in Nat
      BY <3>2
    <3> QED BY <1>9, <3>3
  <2> QED BY <2>2, <2>3
<1>10. \A t \in Tools : tool'[t].at \in Early => t \notin Served'
  <2>1. tool[u].at \notin Early
    BY <1>1, <1>5 DEF BookInv
  <2> QED BY <1>1, <1>2, <2>1 DEF BookInv
<1>11. BookInv'
  BY <1>8, <1>9, <1>10 DEF BookInv
<1> QED BY <1>1, <1>7, <1>11

-----------------------------------------------------------------------------
(* The other steps of a daemon.                                            *)

LEMMA ServiceCopyChunk ==
    ASSUME TypeInv, LockInv, ServeInv, ReportInv, NEW d \in Daemons, CopyChunk(d)
    PROVE  Service!Log
<1>1. PICK t \in Tools : daemon[d].serving = t /\ log' = Append(log, Chunk(t))
  BY ChunkCopied
<1>2. Served = {t}
  <2>1. daemon[d].at = "copy" /\ t # None
    BY NamesAssumption DEF CopyChunk
  <2> QED BY <1>1, <2>1, OneServed
<1>3. UNCHANGED <<queue, daemon>>
  BY DEF CopyChunk
<1>4. Booked' = Booked /\ Served' = Served
  BY <1>3 DEF Booked, Served
<1>5. t # None /\ (CHOOSE u \in Served : TRUE) = t
  BY <1>2, NamesAssumption
<1> QED BY <1>1, <1>2, <1>4, <1>5 DEF Service!Log, Chunk

\* The daemon stops serving its tool, at the end of the report or at its own.
LEMMA ServiceRelease ==
    ASSUME TypeInv, LockInv, ServeInv, NEW d \in Daemons, EndOfReport(d) \/ CopyFails(d)
    PROVE  Service!Release /\ Served' = {}
<1>1. /\ daemon[d] \in DaemonRecords /\ daemon \in [Daemons -> DaemonRecords]
      /\ daemon[d].at = "copy" /\ UNCHANGED <<queue, log>>
  BY Zenon DEF TypeInv, DaemonInv, EndOfReport, CopyFails
<1>2. PICK t \in Tools : daemon[d].serving = t /\ Served = {t} /\ t # None
  <2>1. daemon[d].serving # None
    BY <1>1 DEF ServeInv, Busy
  <2>2. daemon[d].serving \in Tools
    BY <1>1, <2>1 DEF DaemonRecords
  <2> QED BY <1>1, <2>1, <2>2, OneServed
<1>3. daemon'[d].serving = None /\ \A e \in Daemons : e # d => daemon'[e] = daemon[e]
  <2>1. CASE EndOfReport(d)
    <3>1. daemon'[d] = [daemon[d] EXCEPT !.at = "check", !.serving = None, !.fifo = None]
      BY <1>1, <2>1 DEF EndOfReport
    <3> QED BY <1>1, <2>1, <3>1 DEF DaemonRecords, EndOfReport
  <2>2. CASE CopyFails(d)
    BY <1>1, <2>2 DEF CopyFails, NoDaemon
  <2> QED BY <2>1, <2>2
<1>4. Served' = {}
  <2>1. \A e \in Daemons : e # d => daemon[e].serving # t
    <3>1. \A e \in Daemons : daemon[e].serving = t => daemon[e].at \in Busy
      BY <1>2 DEF ServeInv
    <3> QED BY <1>1, <3>1, OneServer DEF Busy
  <2>2. \A e \in Daemons, u \in Tools : daemon[e].serving = u => u = t
    BY <1>2 DEF Served
  <2>3. None \notin Tools
    BY NamesAssumption
  <2> QED BY <1>3, <2>1, <2>2, <2>3 DEF Served
<1>5. Booked' = Booked
  BY <1>1 DEF Booked
<1>6. (CHOOSE u \in Served : TRUE) = t
  BY <1>2
<1> QED BY <1>1, <1>2, <1>4, <1>5, <1>6 DEF Service!Release

LEMMA ServiceGrant ==
    ASSUME TypeInv, LockInv, ServeInv, BookInv, NEW d \in Daemons, Grant(d)
    PROVE  BookInv' /\ \E t \in Tools : Service!Grant(t)
<1>1. PICK u \in Tools : u = Head(queue[daemon[d].queue_id])
  BY Received DEF Grant
<1>2. /\ \A e \in Daemons : e # d => daemon'[e] = daemon[e]
      /\ daemon[d].at = "receive" /\ daemon'[d].serving = u /\ u # None
  BY <1>1, GrantCalm, NamesAssumption
<1>3. Served = {}
  <2>1. daemon[d].serving = None
    BY <1>2 DEF ServeInv, Busy
  <2> QED BY <1>2, <2>1, OneServed
<1>4. Served' = {u}
  BY <1>1, <1>2, <1>3 DEF Served
<1>5. BookInv' /\ u \in Booked /\ Booked' = Booked \ {u}
  BY <1>1, <1>4, ServiceReceive DEF Grant
<1>6. (CHOOSE t \in Served' : TRUE) = u
  BY <1>4
<1>7. Service!Grant(u)
  BY <1>2, <1>3, <1>4, <1>5, <1>6 DEF Service!Grant, Grant
<1> QED BY <1>5, <1>7

LEMMA ServiceRefuse ==
    ASSUME TypeInv, LockInv, ServeInv, ServeInv', BookInv, NEW d \in Daemons, Refuse(d)
    PROVE  BookInv' /\ Service!Drop
<1>1. PICK u \in Tools : u = Head(queue[daemon[d].queue_id])
  BY Received DEF Refuse
<1>2. Served' = Served
  <2>1. /\ daemon' = [daemon EXCEPT ![d] = daemon'[d]]
        /\ daemon[d].at \notin Busy /\ daemon'[d].at \notin Busy
    BY IdleDaemon
  <2>2. \A e \in Daemons : e # d => daemon'[e] = daemon[e]
    BY <2>1 DEF TypeInv, DaemonInv
  <2> QED BY <2>1, <2>2, SameServed
<1>3. BookInv' /\ u \in Booked /\ Booked' = Booked \ {u}
  BY <1>1, <1>2, ServiceReceive DEF Refuse
<1> QED BY <1>2, <1>3 DEF Service!Drop, Refuse

\* Opening the FIFO, at either end, and writing to it are steps of processes only.
LEMMA ServiceFifo ==
    ASSUME TypeInv, ServeInv, BookInv,
           \/ \E t \in Tools : OpenFifoToWrite(t) \/ Write(t)
           \/ \E d \in Daemons : OpenFifoToRead(d)
    PROVE  BookInv' /\ UNCHANGED Service!vars
<1>1. tool \in [Users -> ToolRecords] /\ daemon \in [Daemons -> DaemonRecords] /\ Tools \subseteq Users
  BY DEF TypeInv, ToolInv, DaemonInv, Users
<1>2. UNCHANGED <<queue, log, cut>>
  BY DEF OpenFifoToWrite, Write, OpenFifoToRead
<1>3. CASE \E t \in Tools : OpenFifoToWrite(t) \/ Write(t)
  <2>1. PICK t \in Tools : OpenFifoToWrite(t) \/ Write(t)
    BY <1>3
  <2>2. \A u \in Tools : u # t => tool'[u] = tool[u]
    BY <1>1, <2>1 DEF OpenFifoToWrite, Write
  <2>3. tool[t] \in ToolRecords /\ tool[t].at \notin Early
    BY <1>1, <2>1 DEF OpenFifoToWrite, Write, Early
  <2>4. tool'[t].at \notin Early
    <3>1. CASE tool' = [tool EXCEPT ![t] = Ended("failed")]
      BY <1>1, <3>1 DEF Ended, NewTool, Early
    <3>2. CASE tool' # [tool EXCEPT ![t] = Ended("failed")]
      <4>1. \/ \E at \in {"opening", "write"} :
                 tool'[t] = [tool[t] EXCEPT !.at = at, !.fifo = stats_fifo]
            \/ tool'[t] = [tool[t] EXCEPT !.left = @ - 1]
        BY <1>1, <2>1, <3>2 DEF OpenFifoToWrite, Write
      <4> QED BY <2>3, <4>1 DEF ToolRecords, Early
    <3> QED BY <3>1, <3>2
  <2>5. \A d \in Daemons : daemon'[d].serving = daemon[d].serving
    <3>1. \A d \in Daemons : daemon'[d] = daemon[d] \/ daemon'[d] = [daemon[d] EXCEPT !.at = "copy"]
      BY <2>1 DEF OpenFifoToWrite, Write
    <3> QED BY ZenonT(60), <1>1, <3>1 DEF DaemonRecords
  <2>6. Served' = Served
    BY <2>5 DEF Served
  <2> QED BY <1>2, <2>2, <2>4, <2>6, BookSame, Unseen
<1>4. CASE \E d \in Daemons : OpenFifoToRead(d)
  <2>1. PICK d \in Daemons : OpenFifoToRead(d)
    BY <1>4
  <2>2. stats_fifo # None
    BY <2>1 DEF OpenFifoToRead, ServeInv, Ready, Busy
  <2>3. \A t \in Tools : tool'[t] = tool[t] \/ tool'[t] = [tool[t] EXCEPT !.at = "write"]
    BY <1>1, <2>1, <2>2 DEF OpenFifoToRead
  <2>4. \A t \in Tools : tool'[t].at \in Early => tool[t].at \in Early
    <3> SUFFICES ASSUME NEW t \in Tools, tool'[t].at \in Early PROVE tool[t].at \in Early
      OBVIOUS
    <3>1. tool[t] \in ToolRecords
      BY <1>1
    <3> QED BY <2>3, <3>1 DEF ToolRecords, Early
  <2>5. PICK at : daemon' = [daemon EXCEPT ![d].at = at, ![d].fifo = stats_fifo]
    BY <2>1, <2>2 DEF OpenFifoToRead
  <2>6. daemon'[d].serving = daemon[d].serving /\ \A e \in Daemons : e # d => daemon'[e] = daemon[e]
    <3>1. daemon'[d] = [daemon[d] EXCEPT !.at = at, !.fifo = stats_fifo]
      BY <1>1, <2>5
    <3> QED BY <1>1, <2>5, <3>1 DEF DaemonRecords
  <2>7. Served' = Served
    BY <2>6 DEF Served
  <2> QED BY <1>2, <2>4, <2>7, BookSame, Unseen
<1> QED BY <1>3, <1>4

-----------------------------------------------------------------------------
(* The refinement.                                                         *)

LEMMA BookInit == Init => BookInv /\ Service!Init
<1> SUFFICES ASSUME Init PROVE BookInv /\ Service!Init
  OBVIOUS
<1>1. DOMAIN queue = {} /\ log = <<>>
  BY DEF Init
<1>2. \A d \in Daemons : daemon[d].serving = None
  BY DEF Init, NoDaemon
<1>3. Booked = {} /\ Served = {}
  BY <1>1, <1>2, NamesAssumption DEF Booked, Served
<1> QED BY <1>1, <1>3 DEF BookInv, Service!Init

\* No such step takes a tool from Send() to the wait for the daemon.
LEMMA ToolLeaves ==
    ASSUME NoStop, TypeInv, NEW u \in Users, FindDaemon(u) \/ ToolDies(u), tool[u].at = "send"
    PROVE  tool'[u].at # "wait"
<1>1. tool' = [tool EXCEPT ![u] = Ended("failed")]
  BY Zenon, FindStep DEF FindDaemon, GiveUp, ToolDies
<1> QED BY <1>1 DEF TypeInv, ToolInv, Ended, NewTool

LEMMA ServiceStep ==
    ASSUME NoStop, ~JobControl, TypeInv, LockInv, ServeInv, ReportInv, BookInv, ServeInv', Next
    PROVE  BookInv' /\ [Service!Next]_(Service!vars)
<1>1. ASSUME NEW u \in Users, ToolMoves(u),
             Send(u) => ~(tool[u].queue_id # None /\ tool'[u].at = "wait")
      PROVE  BookInv' /\ UNCHANGED Service!vars
  <2>1. \A t \in Tools : tool'[t].at \in Early => tool[t].at \in Early
    BY <1>1, ToolCalm DEF Calm, Early
  <2>2. (StartDaemon \/ UNCHANGED daemon) /\ UNCHANGED log
    BY <1>1, ToolShares
  <2>3. Served' = Served
    BY <2>2, StartCalm, SameServed DEF Ready
  <2>4. queue' = queue \/ \E id : OpenQueue(id)
    <3>1. CASE Send(u)
      <4>1. u \in Users /\ tool[u] \in ToolRecords /\ tool \in [Users -> ToolRecords]
        BY <1>1 DEF TypeInv, ToolInv, Users
      <4>2. tool' = [tool EXCEPT ![u].at = "wait"] => tool'[u].at = "wait"
        BY <4>1 DEF ToolRecords
      <4>3. CASE tool[u].queue_id # None
        BY <1>1, <3>1, <4>2, <4>3 DEF Send
      <4>4. CASE tool[u].queue_id = None
        BY <3>1, <4>4 DEF Send
      <4> QED BY <4>3, <4>4
    <3>2. CASE GetQueue(u)
      BY Zenon, <3>2 DEF GetQueue
    <3>3. CASE ~(Send(u) \/ GetQueue(u))
      BY Zenon, <1>1, <3>3 DEF ToolMoves, RunCommand, Confirmed, Write, CloseReport, ToolDies,
         FindDaemon, OpenLockFile, ReadDaemonPid, AttemptFails, TryFails, GiveUp
    <3> QED BY <3>1, <3>2, <3>3
  <2> QED BY <2>1, <2>2, <2>3, <2>4, BookSame, Unseen
<1>2. ASSUME NEW t \in Tools, Send(t), tool[t].queue_id # None, tool'[t].at = "wait"
      PROVE  BookInv' /\ Service!Next
  BY <1>2, ServiceSend DEF Service!Next
<1>3. CASE \E t \in Tools : Tool(t)
  <2>1. PICK t \in Tools : Tool(t)
    BY <1>3
  <2>2. CASE Send(t)
    BY <1>1, <1>2, <2>2 DEF ToolMoves, Users
  <2>3. CASE OpenFifoToWrite(t) \/ Write(t)
    BY <2>3, ServiceFifo
  <2>4. CASE ~(Send(t) \/ OpenFifoToWrite(t) \/ Write(t))
    <3>1. t \in Users /\ ToolMoves(t)
      BY Zenon, <2>1, <2>4 DEF Tool, ToolMoves, Users
    <3> QED BY <1>1, <2>4, <3>1
  <2> QED BY <2>2, <2>3, <2>4
<1>4. CASE \E s \in Stoppers : Stopper(s)
  BY <1>4 DEF NoStop
<1>5. CASE (\E u \in Users : FindDaemon(u)) \/ Environment
  <2>1. PICK u \in Users : FindDaemon(u) \/ ToolDies(u)
    BY Zenon, <1>5 DEF Environment, Resumed
  <2>2. ToolMoves(u)
    BY <2>1 DEF ToolMoves
  <2>3. tool[u].at = "send" => tool'[u].at # "wait"
    BY <2>1, ToolLeaves
  <2>4. Send(u) => tool[u].at = "send"
    BY DEF Send
  <2> QED BY <1>1, <2>2, <2>3, <2>4
<1>6. ASSUME NEW d \in Daemons, Daemon(d)
      PROVE  BookInv' /\ [Service!Next]_(Service!vars)
  <2>1. ~(RemoveQueue(d) \/ UnlinkFifo(d) \/ UnlinkLock(d))
    BY DEF LockInv, LockOK, RemoveQueue, UnlinkFifo, UnlinkLock
  <2>2. CASE \/ OpenLock(d) \/ SetLock(d) \/ GetDaemonQueue(d) \/ InstallHandlers(d)
             \/ RemoveFifo(d) \/ MakeFifo(d) \/ CheckInterrupt(d)
    <3>1. UNCHANGED <<tool, log, cut>> /\ (queue' = queue \/ \E id : OpenQueue(id))
      BY <2>2 DEF OpenLock, SetLock, GetDaemonQueue, InstallHandlers, RemoveFifo, MakeFifo,
             CheckInterrupt
    <3>2. Served' = Served
      <4>1. /\ daemon' = [daemon EXCEPT ![d] = daemon'[d]]
            /\ daemon[d].at \notin Busy /\ daemon'[d].at \notin Busy
        BY <2>2, IdleDaemon
      <4>2. \A e \in Daemons : e # d => daemon'[e] = daemon[e]
        BY <4>1 DEF TypeInv, DaemonInv
      <4> QED BY <4>1, <4>2, SameServed
    <3> QED BY <3>1, <3>2, BookSame, Unseen
  <2>3. CASE Grant(d)
    BY <2>3, ServiceGrant DEF Service!Next
  <2>4. CASE Refuse(d)
    BY <2>4, ServiceRefuse DEF Service!Next
  <2>5. CASE OpenFifoToRead(d)
    BY <2>5, ServiceFifo
  <2>6. CASE CopyChunk(d)
    <3>1. UNCHANGED <<tool, daemon, queue>>
      BY <2>6 DEF CopyChunk
    <3>2. Served' = Served
      BY <3>1 DEF Served
    <3> QED BY <2>6, <3>1, <3>2, BookSame, ServiceCopyChunk DEF Service!Next
  <2>7. CASE EndOfReport(d) \/ CopyFails(d)
    <3>1. UNCHANGED <<tool, queue>>
      BY Zenon, <2>7 DEF EndOfReport, CopyFails
    <3> QED BY <2>7, <3>1, BookSame, ServiceRelease DEF Service!Next
  <2> QED BY <1>6, <2>1, <2>2, <2>3, <2>4, <2>5, <2>6, <2>7 DEF Daemon
<1> QED BY <1>3, <1>4, <1>5, <1>6 DEF Next

\* The daemon implements the service: it grants one booking at a time, no booking
\* twice, and logs nothing but the report of the tool it has granted, in the log that
\* tool asked for, provided that nobody runs the tool with -s and no shell sends it
\* SIGCONT.  A daemon that dies because it cannot write a log is a Release of the
\* service, at once: the rest of the report stays out of the logs.
THEOREM DaemonImplementsService == ASSUME NoStop, ~JobControl PROVE Spec => ServesOneByOne
<1> DEFINE I == TypeInv /\ LockInv /\ ServeInv /\ ReportInv
<1>1. I /\ BookInv /\ I' /\ [Next]_vars => BookInv' /\ [Service!Next]_(Service!vars)
  <2> SUFFICES ASSUME I, BookInv, I', [Next]_vars PROVE BookInv' /\ [Service!Next]_(Service!vars)
    OBVIOUS
  <2>1. CASE Next
    BY <2>1, ServiceStep
  <2>2. CASE UNCHANGED vars
    <3>1. UNCHANGED <<tool, daemon, queue, log, cut>>
      BY <2>2 DEF vars
    <3>2. Served' = Served
      BY <3>1 DEF Served
    <3> QED BY <3>1, <3>2, BookSame, Unseen
  <2> QED BY <2>1, <2>2
<1>2. Spec => []I
  BY ReportAlways DEF I
<1> HIDE DEF I
<1>3. Spec => Service!Init /\ [][Service!Next]_(Service!vars)
  BY <1>1, <1>2, BookInit, PTL DEF Spec
<1> QED BY <1>3 DEF ServesOneByOne, Service!Spec
==============================================================================
