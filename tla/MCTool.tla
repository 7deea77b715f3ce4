------------------------------- MODULE MCTool -------------------------------
EXTENDS Tool, TLC

\* Words: a, b, w are letters, cd, dir, tmp and file.txt longer ones, -x an argument.
Letters == {"a", "b", "w"}
Files == {"cd", "dir", "tmp", "file.txt"}
Others == {"-x", "-o", "-f", "-h"}

Node(type, father, args) ==
    [type |-> type, father |-> father, argv |-> args, terminated |-> TRUE,
     in |-> NoFile, out |-> NoFile]

Leaf(father, word) == Node("Executable", father, <<<<word>>>>)
Operator(type, father) == Node(type, father, <<>>)
Types == NodeTypes \ {"Executable"}

\* a; a o b; a o b o c; (a o b) o c; a o (b o c); (a o b) o (c o d), the operators
\* nested in one another different.
Pairs == {o \in Types \X Types : o[1] # o[2]}

TreesOfCommands ==
    {<<Node("Executable", 0, <<<<"a">>, <<"-x">>, <<"b">>>>)>>}
    \cup {<<Operator(o, 0), Leaf(1, "a"), Leaf(1, "b")>> : o \in Types}
    \cup {<<Operator(o, 0), Leaf(1, "a"), Leaf(1, "b"), Leaf(1, "tmp")>> : o \in Types}
    \cup {<<Operator(o[1], 0), Operator(o[2], 1), Leaf(2, "a"), Leaf(2, "b"),
            Leaf(1, "tmp")>> : o \in Pairs}
    \cup {<<Operator(o[1], 0), Leaf(1, "a"), Operator(o[2], 1), Leaf(3, "b"),
            Leaf(3, "tmp")>> : o \in Pairs}
    \cup {<<Operator(o[1], 0), Operator(o[2], 1), Leaf(2, "a"), Leaf(2, "b"),
            Operator(o[2], 1), Leaf(5, "tmp"), Leaf(5, "w")>> : o \in Pairs}

\* A redirect of the whole command, which parse() gives to the root.
Redirected(ns) == {[ns EXCEPT ![1].out = <<">", "file.txt">>],
                   [ns EXCEPT ![1].in = <<"<", "file.txt">>]}

Written ==
    TreesOfCommands
      \cup UNION {Redirected(ns) : ns \in {t \in TreesOfCommands : Len(t) < 5}}

S == Blank
Q == Quote

\* Commands without blanks or with too many, with cd, quotes, redirects and
\* brackets in unexpected places.
Irregular ==
    {<<"a", "|", "w", "|", "b">>,                       \* a|w|b: b is dropped
     <<"tmp", "|", "dir", "|", "b">>,
     <<"a", "|", S, "w", "|", "b">>,
     <<"a", "||", "b", "&&", "w", ";", "tmp">>,
     <<"a", ";", "b", ";">>,                            \* fails
     <<S, S>>, <<Q>>, <<"(", ")">>,
     <<"(", "(", "a", "&&", "b", ")", ")">>,
     <<"(", "a", ")", "&&", "(", "b", ")">>,
     <<"(", "a", "&&", "b">>, <<"a", ")", "&&", "b">>,
     <<Q, "a", S, "b", Q, S, "w">>,
     <<Q, "a", Q, Q, "b", Q>>,                          \* joined arguments
     <<"a", S, Q, "b", S, "w">>,
     <<Q, "a", "&&", "b", Q>>,
     <<"a", S, Q, "(", Q>>,
     <<"a", ">", "file.txt">>, <<"a", "<", "b", ">", "tmp">>, <<"a", ">">>,
     <<"a", S, ">", S, "tmp", S, "&&", S, "b">>,
     <<"a", ">", "tmp", "|", "b", "<", "dir">>,
     <<"(", "a", "|", "b", ")", ">", "tmp", "|", "w">>,
     <<"(", "a", ";", "b", ")", "<", "tmp", "|", "w">>,
     <<"cd", S, "dir">>, <<"cd", S, "dir", "|", "a">>, <<"a", "|", "cd", S, "dir">>,
     <<"cd", S, "dir", "&&", "a", "&&", "b">>,
     <<"a", ";", "cd", S, "dir", ";", "b", ";", "cd", S, "tmp", ";", "w">>,
     <<"cd", S, "dir", ";", "(", "a", "|", "b", ")", ";", "w">>,
     <<"cd", S, "dir", "&&", "cd", S, "tmp">>,
     <<"(", "cd", S, "dir", "&&", "cd", S, "tmp", ")", ";", "a">>,
     <<"a", "|", "(", "cd", S, "dir", ";", "cd", S, "tmp", ")">>,
     <<"(", "cd", S, "dir", ";", "cd", S, "tmp", ")", "|", "a">>,
     <<"a", ";", "(", "cd", S, "dir", ";", "b", ")">>}

Commands == {Rendered(ns) : ns \in Written} \cup Irregular

\* Options before a command.
ShortOptions ==
    {<< <<"-o">>, <<"exit_code", "size", "total_time">>, <<"-f">>, <<format_name>> >> :
       format_name \in {"csv", "html", "xml"}}
    \cup {<< <<"-o">>, <<"total_time">> >>}

\* Runs that execute nothing, options as arguments of the command, and an option
\* without its value.
OtherLines ==
    {<<>>, << <<"-h">> >>, << <<"-s">>, <<"--help">> >>, << <<"--stop-daemon">>, <<"a">> >>,
     << <<"-v">>, <<"-l">>, <<"tmp">> >>, << <<"-o">> >>, << <<>> >>,
     << <<"-f">> >>, << <<"a">>, <<"-h">> >>, << <<"a", S, "|">>, <<"b">>, <<"-f">> >>}

Lines ==
    {options \o <<c>> : options \in ShortOptions, c \in Commands}
    \cup OtherLines

\* Less than a second with and without a borrow, minutes and hours, and a clock
\* that was set back.
Times == {<<<<1, 9>>, <<2, 1>>>>, <<<<5, 2>>, <<5, 7>>>>, <<<<3, 0>>, <<3735, 4>>>>,
          <<<<90, 3>>, <<20, 5>>>>}
=============================================================================
