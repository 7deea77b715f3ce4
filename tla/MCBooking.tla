----------------------------- MODULE MCBooking -----------------------------
EXTENDS Booking, TLC

\* A log of its own for every tool, known by the tool, or one for all.
OwnLogs == [t \in Tools |-> t]
OneLog == [t \in Tools |-> None]

Symmetry ==
    Permutations(Tools) \cup Permutations(Daemons) \cup Permutations(Inodes)
    \cup Permutations(Fifos)
=============================================================================
