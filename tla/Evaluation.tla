----------------------------- MODULE Evaluation -----------------------------
(***************************************************************************)
(* What execute() promises its caller: the executables run in the order    *)
(* the operators of a shell command line ask for, and the call returns     *)
(* once none is left to run, with the status of the whole command.         *)
(* There are no processes here, no pids, no signals and no counters.       *)
(***************************************************************************)
EXTENDS CommandTree

CONSTANT Statuses   \* the wait statuses an executable may end with

VARIABLES
    started,    \* the executables that have been started
    status,     \* wait status of each executable, Uninitialised until it ends
    returned,   \* TRUE once execute() has returned
    exit_code   \* the status of the command, then

vars == <<tree, started, status, returned, exit_code>>

Ended(s) == s # Uninitialised
Succeeded(s) == Ended(s) /\ ExitedCorrectly(s)
FailedWith(s) == Ended(s) /\ ~ExitedCorrectly(s)

\* The status of each node as far as its executables have ended.  A pipeline
\* has the status of its last command, and an operator with nothing to do
\* succeeds.
Value ==
    LET val[n \in Nodes] ==
          LET ops == Operands(n)
              failures == {m \in ops : FailedWith(val[m])}
              successes == {m \in ops : Succeeded(val[m])}
              allEnded == \A m \in ops : Ended(val[m])
          IN
          CASE tree.type[n] = "Executable" -> status[n]
            [] tree.type[n] # "Executable" /\ ops = {} -> Exit(0)
            [] tree.type[n] = "And" /\ ops # {} ->
                 IF failures # {} THEN val[First(failures)]
                 ELSE IF allEnded THEN Exit(0) ELSE Uninitialised
            [] tree.type[n] = "Or" /\ ops # {} ->
                 IF successes # {} THEN Exit(0)
                 ELSE IF allEnded THEN val[Last(ops)] ELSE Uninitialised
            [] tree.type[n] \in {"Semicolon", "Pipe"} /\ ops # {} -> val[Last(ops)]
    IN val

\* The nodes whose turn has come: the statuses so far ask for them.
Due ==
    LET value == Value
        due[n \in Nodes] ==
          \/ n = 1
          \/ LET father == tree.father[n]
                 earlier == EarlierOperands(father, n)
             IN /\ due[father]
                /\ tree.type[father] = "And" =>
                     \A m \in earlier : Succeeded(value[m])
                /\ tree.type[father] = "Or" =>
                     \A m \in earlier : FailedWith(value[m])
                /\ tree.type[father] = "Semicolon" =>
                     \A m \in earlier : Ended(value[m])
    IN {n \in Executables : due[n]}

Init ==
    /\ tree \in Trees
    /\ started = {}
    /\ status = [n \in Executables |-> Uninitialised]
    /\ returned = FALSE
    /\ exit_code = Uninitialised

Start ==
    /\ ~returned
    /\ \E n \in Due \ started : started' = started \cup {n}
    /\ UNCHANGED <<tree, status, returned, exit_code>>

End ==
    /\ ~returned
    /\ \E n \in started, s \in Statuses :
         /\ ~Ended(status[n])
         /\ status' = [status EXCEPT ![n] = s]
    /\ UNCHANGED <<tree, started, returned, exit_code>>

Return ==
    /\ ~returned
    /\ \A n \in Due : Ended(status[n])
    /\ returned' = TRUE
    /\ exit_code' = Value[1]
    /\ UNCHANGED <<tree, started, status>>

Next == Start \/ End \/ Return

Spec == Init /\ [][Next]_vars
=============================================================================
