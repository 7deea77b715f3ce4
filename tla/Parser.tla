------------------------------- MODULE Parser -------------------------------
(***************************************************************************)
(* create_node_from_string() of src/src/parse/parse.c, with the splitting  *)
(* of src/src/common/my_regex.c: a command line becomes a tree.            *)
(*                                                                         *)
(* A command line is a sequence of words and symbols.  The regular         *)
(* expressions of the program see characters: what matters of a word is    *)
(* whether it has one character, which [^|](\|)[^|] may swallow, and       *)
(* whether it has only letters and dots, as the name after a redirect      *)
(* must.  Backslashes are left out.                                        *)
(***************************************************************************)
EXTENDS CommandTree, Sequences

CONSTANTS
    LetterWords,    \* words of one letter
    FileWords,      \* longer words of letters and dots
    OtherWords      \* words with any other character

VARIABLES
    stage,      \* how far main() has come: see Tool
    work,       \* strings that create_node_from_string() is still to be called
                \* with, and the operator each is an operand of
    nodes       \* the nodes created, in preorder

parserVars == <<stage, work, nodes>>

Blank == " "
Quote == "\""
Redirects == {"<", ">", ">>"}
Symbols == {Blank, Quote, "&&", "||", "|", ";", "(", ")"} \cup Redirects
Words == LetterWords \cup FileWords \cup OtherWords
OneCharacter == LetterWords \cup (Symbols \ {"&&", "||", ">>"})
NameWords == LetterWords \cup FileWords

ASSUME WordsAssumption == Words \cap Symbols = {} /\ {"cd"} \subseteq FileWords

From(s, i) == SubSeq(s, i, Len(s))

\* The first position from i on that holds no blank; Len(s) + 1 if none does.
NonBlank(s, i) ==
    First({j \in i..(Len(s) + 1) : j <= Len(s) => s[j] # Blank})

-----------------------------------------------------------------------------
(* create_split_command_from_redirect()                                    *)

\* chain[i]: s from i on is ((>>|>|<) *([a-zA-Z\.]*))+, redirects and nothing else.
RedirectChain(s) ==
    LET chain[i \in 1..(Len(s) + 1)] ==
          /\ i <= Len(s)
          /\ s[i] \in Redirects
          /\ LET j == NonBlank(s, i + 1) IN
               \/ j > Len(s)
               \/ s[j] \in NameWords /\ (j = Len(s) \/ chain[j + 1])
               \/ chain[j]
    IN chain

RedirectStarts(s) == {i \in 1..Len(s) : RedirectChain(s)[i]}

\* The part before the redirects, which the regular expression finds leftmost.
CommandPart(s) ==
    IF RedirectStarts(s) = {} THEN s ELSE SubSeq(s, 1, First(RedirectStarts(s)) - 1)

NoFile == <<>>

\* fill_redirect_with_redirects_and_file_names(): the groups of the expression
\* hold its last repetition, so the last redirect of the chain is the only one.
\* A name may be missing: then it is empty.
RedirectOf(s, kinds) ==
    LET i == Last(RedirectStarts(s))
        j == NonBlank(s, i + 1)
    IN IF RedirectStarts(s) # {} /\ s[i] \in kinds
         THEN <<s[i], IF j <= Len(s) /\ s[j] \in NameWords THEN s[j] ELSE Blank>>
         ELSE NoFile

-----------------------------------------------------------------------------
(* Brackets.                                                               *)

Depth(s, i) ==
    Cardinality({j \in 1..i : s[j] = "("}) - Cardinality({j \in 1..i : s[j] = ")"})

\* obfuscate_brackets_in_string(): the positions that become '#'.
Obfuscated(s) ==
    {i \in 1..Len(s) : Depth(s, i) > 0 \/ (s[i] = ")" /\ Depth(s, i - 1) > 0)}

\* Mutant: any string that begins and ends with a bracket loses both.
OutermostBracketsRemoved(s) ==
    LET p == NonBlank(s, 1)
        q == Last({j \in 0..Len(s) : j > 0 => s[j] # Blank})
    IN IF p < q /\ s[p] = "(" /\ s[q] = ")" THEN SubSeq(s, p + 1, q - 1) ELSE s

\* remove_brackets_if_alone()
BracketsRemoved(s) ==
    LET p == NonBlank(s, 1)
        q == Last({j \in 0..Len(s) : j > 0 => s[j] # Blank})
        inside == SubSeq(s, p + 1, q - 1)
        broken == \E i \in 1..Len(inside) : Depth(inside, i) < 0
    IN IF p < q /\ s[p] = "(" /\ s[q] = ")" /\ ~broken THEN inside ELSE s

-----------------------------------------------------------------------------
(* priority_map and split_obfuscated_string()                              *)

Separator == [And |-> "&&", Or |-> "||", Pipe |-> "|", Semicolon |-> ";"]
Priority == <<"And", "Or", "Pipe", "Semicolon">>

\* Where the separator is matched, one match after the other.
Matches(s, type) ==
    {i \in 1..Len(s) \ Obfuscated(s) :
       /\ s[i] = Separator[type]
       /\ type = "Pipe" => /\ i > 1 /\ i < Len(s)
                           /\ s[i - 1] # "|" /\ s[i + 1] # "|"}

\* count_occurrences_of_regex(): a match consumes the character after the pipe,
\* which the next match would need before it.
Counted(s, type) ==
    LET counts[i \in 0..Len(s)] ==
          /\ i \in Matches(s, type)
          /\ ~(/\ type = "Pipe" /\ i > 2 /\ counts[i - 2]
               /\ s[i - 1] \in OneCharacter)
    IN Cardinality({i \in 1..Len(s) : counts[i]})

\* One piece more than the separators counted; the last ends at the next match.
Pieces(s, type) ==
    LET cuts == <<0>> \o Ascending(Matches(s, type)) \o <<Len(s) + 1>>
    IN [k \in 1..(Counted(s, type) + 1) |-> SubSeq(s, cuts[k] + 1, cuts[k + 1] - 1)]

\* The operators that split s, by their places in the order of priority.
Splitting(s) == {k \in 1..Len(Priority) : Counted(s, Priority[k]) > 0}

-----------------------------------------------------------------------------
(* create_executable_from_string()                                         *)

\* The arguments are the matches of ( *"(([^"\\]|\\.)+)" *)|( *([^"][^ ]*) *).

\* Where the quote opened at q is closed, if there is something in it.
Closing(s, q) ==
    {e \in (q + 2)..Len(s) : s[e] = Quote /\ \A j \in (q + 1)..(e - 1) : s[j] # Quote}

IsQuoted(s, q) == q <= Len(s) /\ s[q] = Quote /\ Closing(s, q) # {}

NextBlank(s, i) == First({j \in i..(Len(s) + 1) : j <= Len(s) => s[j] = Blank})

\* The argument matched from position p on: the longer of the alternatives, the
\* quoted one if they are equally long.  next is where the search goes on.
ArgumentAt(s, p) ==
    LET q == NonBlank(s, p)
        close == First(Closing(s, q))
        quoted == [text |-> SubSeq(s, q + 1, close - 1), quoted |-> TRUE,
                   open |-> q, close |-> close, next |-> NonBlank(s, close + 1)]
        start == IF q <= Len(s) /\ s[q] # Quote THEN q ELSE q - 1
        end == NextBlank(s, start + 1)
        plain == [text |-> SubSeq(s, start, end - 1), quoted |-> FALSE,
                  open |-> start, close |-> end, next |-> NonBlank(s, end)]
    IN IF IsQuoted(s, q) /\ (start < p \/ quoted.next >= plain.next)
         THEN quoted ELSE plain

\* Where a match may begin: an opening quote that is not closed is skipped.
ArgumentStarts(s, i) ==
    {p \in i..Len(s) : s[p] # Quote \/ IsQuoted(s, p)}

Arguments(s) ==
    LET args[i \in 1..(Len(s) + 1)] ==
          IF ArgumentStarts(s, i) = {} THEN <<>>
          ELSE LET arg == ArgumentAt(s, First(ArgumentStarts(s, i)))
               IN <<arg>> \o args[arg.next]
    IN args[1]

\* A quoted argument right after a quoted one is joined to it.
IsJoined(args, i) ==
    /\ i > 1
    /\ args[i].quoted /\ args[i - 1].quoted
    /\ args[i].open = args[i - 1].close + 1

\* Mutant: strcpy() in place of strcat().
ArgvOverwritten(args) ==
    LET argv[i \in 0..Len(args)] ==
          IF i = 0 THEN <<>>
          ELSE LET before == argv[i - 1]
                   last == Len(before)
               IN IF IsJoined(args, i)
                    THEN [before EXCEPT ![last] = args[i].text]
                    ELSE Append(before, args[i].text)
    IN argv[Len(args)]

Argv(args) ==
    LET argv[i \in 0..Len(args)] ==
          IF i = 0 THEN <<>>
          ELSE LET before == argv[i - 1]
                   last == Len(before)
               IN IF IsJoined(args, i)
                    THEN [before EXCEPT ![last] = @ \o args[i].text]
                    ELSE Append(before, args[i].text)
    IN argv[Len(args)]

\* argv[arguments_count] = NULL: entry argc is NULL if no arguments were joined,
\* otherwise it was never written.
IsTerminated(args) == \A i \in 1..Len(args) : ~IsJoined(args, i)

-----------------------------------------------------------------------------
NewNode(type, father, s) ==
    [type |-> type, father |-> father, argv |-> <<>>, terminated |-> TRUE,
     in |-> RedirectOf(s, {"<"}), out |-> RedirectOf(s, {">", ">>"})]

\* create_operands_from_string() and create_pipe_from_strings(): one more call of
\* create_node_from_string() for each piece, before those already due.
CreateOperands(type, father, s, pieces) ==
    /\ nodes' = Append(nodes, NewNode(type, father, s))
    /\ work' = [k \in 1..Len(pieces) |->
                  [string |-> pieces[k], father |-> Len(nodes) + 1]] \o Tail(work)
    /\ UNCHANGED stage

CreateExecutable(father, s, args) ==
    /\ args # <<>>
    /\ nodes' = Append(nodes, [NewNode("Executable", father, s) EXCEPT
                                 !.argv = Argv(args),
                                 !.terminated = IsTerminated(args)])
    /\ work' = Tail(work)
    /\ UNCHANGED stage

\* program_fail() if there is nothing to execute.
CannotParse(args) ==
    /\ args = <<>>
    /\ stage' = "failed"
    /\ UNCHANGED <<work, nodes>>

CreateNode ==
    /\ stage = "parsing"
    /\ work # <<>>
    /\ LET s == Head(work).string
           father == Head(work).father
           bare == BracketsRemoved(CommandPart(s))
           operators == Splitting(bare)
           type == Priority[First(operators)]
           args == Arguments(bare)
       IN \/ /\ operators # {}
             /\ CreateOperands(type, father, s, Pieces(bare, type))
          \/ /\ operators = {}
             /\ CreateExecutable(father, s, args) \/ CannotParse(args)

\* create_tree_from_string() goes on with apply_builtin().
ParsingEnds ==
    /\ stage = "parsing"
    /\ work = <<>>
    /\ stage' = "builtins"
    /\ UNCHANGED <<work, nodes>>

Parse == CreateNode \/ ParsingEnds
=============================================================================
