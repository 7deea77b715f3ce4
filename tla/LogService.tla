----------------------------- MODULE LogService -----------------------------
(***************************************************************************)
(* What the writer daemon promises the tools that share it: a booking is   *)
(* granted at most once, one tool at a time writes its report, to the log  *)
(* file it asked for, and nothing else gets into a log meanwhile.  No      *)
(* daemon, lock, queue, FIFO or signal appears here.                       *)
(***************************************************************************)
EXTENDS Integers, Sequences

CONSTANTS
    Tools,
    LogOf,    \* the log file each tool asks for
    Nobody

VARIABLES
    booked,   \* tools whose booking is neither granted nor refused yet
    writer,   \* the tool whose report is being logged, or Nobody
    log       \* for each chunk logged, in order: the log file and the writer

vars == <<booked, writer, log>>

ChunksOf(t) == {i \in DOMAIN log : log[i].writer = t}

Init ==
    /\ booked = {}
    /\ writer = Nobody
    /\ log = <<>>

Book(t) ==
    /\ t \notin booked \cup {writer}
    /\ ChunksOf(t) = {}
    /\ booked' = booked \cup {t}
    /\ UNCHANGED <<writer, log>>

\* Refused, because its log cannot be written, or lost with a stopped daemon.
Drop ==
    /\ booked # {}
    /\ booked' \in SUBSET booked
    /\ UNCHANGED <<writer, log>>

Grant(t) ==
    /\ t \in booked
    /\ writer = Nobody
    /\ booked' = booked \ {t}
    /\ writer' = t
    /\ UNCHANGED log

Log ==
    /\ writer # Nobody
    /\ log' = Append(log, [file |-> LogOf[writer], writer |-> writer])
    /\ UNCHANGED <<booked, writer>>

\* The report is complete, unless its tool died before the end or its log could
\* not be written.
Release ==
    /\ writer # Nobody
    /\ writer' = Nobody
    /\ UNCHANGED <<booked, log>>

Next == Log \/ Release \/ Drop \/ \E t \in Tools : Book(t) \/ Grant(t)

Spec == Init /\ [][Next]_vars
=============================================================================
