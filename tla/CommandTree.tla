---------------------------- MODULE CommandTree ----------------------------
(***************************************************************************)
(* The tree of a command, src/src/structs/node.h: executables at the       *)
(* leaves, the operators |, &&, || and ; above them.  Nodes are numbered   *)
(* in preorder from the root, node 1, so the depth-first searches of       *)
(* node.c visit them in ascending order.                                   *)
(***************************************************************************)
EXTENDS Integers, FiniteSets

CONSTANT Trees     \* the command trees execute() may be called with

VARIABLE tree      \* the one it is called with

SequenceTypes == {"And", "Or", "Semicolon"}
NodeTypes == SequenceTypes \cup {"Pipe", "Executable"}

NoNode == 0

\* What parse() and handle_builtins() build.  A sequencing operator can be
\* left with no operand, when each of them was a cd; a pipe has at least two.
IsTree(t) ==
    /\ t.size \in Nat \ {0}
    /\ t.type \in [1..t.size -> NodeTypes]
    /\ t.father \in [1..t.size -> 0..t.size]
    /\ t.father[1] = NoNode
    /\ \A n \in 2..t.size :
         /\ t.father[n] \in 1..(n - 1)
         /\ t.type[t.father[n]] # "Executable"
         /\ \A m \in (t.father[n] + 1)..(n - 1) : t.father[m] >= t.father[n]
    /\ \A n \in 1..t.size :
         t.type[n] = "Pipe" =>
           \E k, m \in 1..t.size : k # m /\ t.father[k] = n /\ t.father[m] = n

ASSUME TreesAssumption == \A t \in Trees : IsTree(t)

Nodes == 1..tree.size

Executables == {n \in Nodes : tree.type[n] = "Executable"}

Operands(n) == {m \in Nodes : tree.father[m] = n}

First(S) == CHOOSE n \in S : \A m \in S : n <= m
Last(S) == CHOOSE n \in S : \A m \in S : n >= m

\* The elements of a set of numbers, in ascending order.
Ascending(S) == [i \in 1..Cardinality(S) |->
                   CHOOSE m \in S : Cardinality({k \in S : k < m}) = i - 1]

EarlierOperands(father, n) == {m \in Operands(father) : m < n}

\* Mutant: the search for the next operand finds the completed one again.
SameOrLaterOperands(father, n) == {m \in Operands(father) : m >= n}

LaterOperands(father, n) == {m \in Operands(father) : m > n}

\* n is in the subtree of k: in preorder, nothing between them leaves it.
Under(k, n) == n >= k /\ \A m \in (k + 1)..n : tree.father[m] >= k

-----------------------------------------------------------------------------
(* Raw wait statuses, as wait3() stores them.                              *)

Uninitialised == -1   \* an exit_code that malloc() left unset

WIFEXITED(status) == status % 128 = 0
WEXITSTATUS(status) == (status \div 256) % 256
Exit(code) == 256 * code

ExitedCorrectly(status) == WIFEXITED(status) /\ WEXITSTATUS(status) = 0
=============================================================================
