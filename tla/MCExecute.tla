----------------------------- MODULE MCExecute -----------------------------
EXTENDS Execute, Sequences, TLC

Shape(types, fathers) ==
    [size |-> Len(types), type |-> types, father |-> fathers]

X == "Executable"

\* Every tree of at most three nodes in which each operator has an operand.
SmallTrees ==
    UNION {{t \in [size : {k}, type : [1..k -> NodeTypes], father : [1..k -> 0..k]] :
              /\ IsTree(t)
              /\ \A n \in 1..k : t.type[n] # X => \E m \in 1..k : t.father[m] = n}
           : k \in 1..3}

\* a o1 (b o2 c) for every pair of operators but two pipes, whose three children
\* run side by side and never wait for one another, and (a o2 b) o1 c for the
\* pairs of different operators that may end early or overlap.
Operators == NodeTypes \ {X}

NestedTrees ==
    {Shape(<<o[1], X, o[2], X, X>>, <<0, 1, 1, 3, 3>>) :
       o \in (Operators \X Operators) \ {<<"Pipe", "Pipe">>}}
    \cup
    {Shape(<<o[1], o[2], X, X, X>>, <<0, 1, 2, 2, 1>>) :
       o \in {<<"And", "Or">>, <<"Or", "And">>, <<"And", "Pipe">>, <<"Pipe", "Or">>,
              <<"Semicolon", "Pipe">>}}

\* a o b o c, which parse() makes one operator with three operands.
WideTrees == {Shape(<<o, X, X, X>>, <<0, 1, 1, 1>>) : o \in Operators}

CoreTrees == SmallTrees \cup NestedTrees \cup WideTrees

\* Trees in which every operand of an operator was a cd: (cd a && cd b), alone,
\* before another command, and in a pipe.
EmptiedTrees ==
    {Shape(<<"And">>, <<0>>),
     Shape(<<"Semicolon", "And", X>>, <<0, 1, 1>>),
     Shape(<<"And", X, "Or", X>>, <<0, 1, 1, 1>>),
     Shape(<<"Pipe", "And", X>>, <<0, 1, 1>>)}

\* a || (cd d && b), in which b is the only operand of an operator: its appender
\* and b are forked when the pid of a is free again.
ShortenedTree == Shape(<<"Or", X, "And", X>>, <<0, 1, 1, 3>>)

DegradedTrees == SmallTrees \cup EmptiedTrees \cup {ShortenedTree}

Symmetry == Permutations(Pids)
=============================================================================
