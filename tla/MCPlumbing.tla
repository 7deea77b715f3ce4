----------------------------- MODULE MCPlumbing -----------------------------
EXTENDS Plumbing, TLC

X == "Executable"

\* A tree by its types and fathers in preorder, the nodes with a redirect, and
\* the program of each leaf, a source where nothing is said.
Command(types, fathers, in, out, programs) ==
    [size |-> Len(types), type |-> types, father |-> fathers,
     redirect_in |-> in, redirect_out |-> out,
     program |-> programs @@ [n \in 1..Len(types) |-> "source"]]

Plain(types, fathers) == Command(types, fathers, {}, {}, <<>>)

\* a o b and a o b o c.
FlatSequences ==
    {Plain(<<o, X, X>>, <<0, 1, 1>>) : o \in SequenceTypes}
    \cup {Plain(<<o, X, X, X>>, <<0, 1, 1, 1>>) : o \in SequenceTypes}

Pipelines ==
    {Command(<<"Pipe", X, X>>, <<0, 1, 1>>, {}, {}, 3 :> "filter"),
     Command(<<"Pipe", X, X, X>>, <<0, 1, 1, 1>>, {}, {}, [n \in {3, 4} |-> "filter"]),
     Command(<<"Pipe", X, X>>, <<0, 1, 1>>, {}, {}, 2 :> "endless"),
     Command(<<"Pipe", X, X>>, <<0, 1, 1>>, {}, {2}, 3 :> "filter"),
     Command(<<"Pipe", X, X>>, <<0, 1, 1>>, {}, {3}, 3 :> "filter")}

\* Sequences and pipelines in one another.
Mixed ==
    {Command(<<"Pipe", o, X, X, X>>, <<0, 1, 2, 2, 1>>, {}, {}, 5 :> "filter") :
       o \in SequenceTypes}
    \cup {Command(<<"Pipe", X, o, X, X>>, <<0, 1, 1, 3, 3>>, {}, {}, 4 :> "filter") :
       o \in SequenceTypes}
    \cup {Command(<<"Pipe", "Semicolon", X, X, "Semicolon", X, X>>,
                  <<0, 1, 2, 2, 1, 5, 5>>, {}, {}, 6 :> "filter"),
           Command(<<"Pipe", X, "Semicolon", X, X, X>>, <<0, 1, 1, 3, 3, 1>>,
                   {}, {}, [n \in {4, 6} |-> "filter"])}
    \cup {Command(<<o, "Pipe", X, X, X>>, <<0, 1, 2, 2, 1>>, {}, {}, 4 :> "filter") :
       o \in SequenceTypes}

\* a o1 (b o2 c) and (a o1 b) o2 c.
Nested ==
    {Plain(<<o[1], X, o[2], X, X>>, <<0, 1, 1, 3, 3>>) :
       o \in {<<"And", "Or">>, <<"Or", "And">>, <<"Semicolon", "And">>}}
    \cup {Plain(<<o[1], o[2], X, X, X>>, <<0, 1, 2, 2, 1>>) :
       o \in {<<"And", "Or">>, <<"Or", "And">>, <<"Semicolon", "And">>}}

Redirected ==
    {Command(<<"And", X, X>>, <<0, 1, 1>>, {}, {1}, <<>>),
     Command(<<"Semicolon", X, X>>, <<0, 1, 1>>, {1}, {2}, 2 :> "filter")}

WiredTrees ==
    {Wired(t) : t \in FlatSequences \cup Pipelines \cup Mixed \cup Nested
                      \cup Redirected}
=============================================================================
