------------------------------ MODULE Builtin ------------------------------
(***************************************************************************)
(* apply_builtin() of src/src/parse/builtin.c on the tree the parser has   *)
(* built: apply_cd_builtin() removes the cd commands and gives their       *)
(* directories to the commands after them, wire_redirects() connects the   *)
(* streams of what is left.                                                *)
(***************************************************************************)
EXTENDS Parser, Wiring

VARIABLES
    cursor,     \* the node apply_cd_builtin_r() visits
    cds,        \* executable->cd of each node: the directories, in order
    removed     \* the nodes remove_node_from_operands() has taken away

builtinVars == <<cursor, cds, removed, tree>>

Created == 1..Len(nodes)

\* strcmp(executable->path, "cd") == 0 && executable->argc == 2
IsCd(n) ==
    /\ nodes[n].type = "Executable"
    /\ Len(nodes[n].argv) = 2
    /\ nodes[n].argv[1] = <<"cd">>

Directory(n) == nodes[n].argv[2]

\* Mutant: the father may be a pipe.
InAnyOperator(n) == nodes[n].father # NoNode

InSequence(n) == nodes[n].father # NoNode /\ nodes[nodes[n].father].type # "Pipe"

\* Mutant: every other operand of the operator gets the directory.
AllBrothers(n) ==
    {m \in Created \ (removed \cup {n}) : nodes[m].father = nodes[n].father}

\* What find_next_node_in_operands() finds, called on its own result.
NextBrothers(n) ==
    {m \in Created \ removed : m > n /\ nodes[m].father = nodes[n].father}

StartBuiltins ==
    /\ cursor' = 1
    /\ cds' = [n \in Created |-> <<>>]
    /\ removed' = {}

AddCd(S, dir) == cds' = [n \in Created |-> IF n \in S THEN Append(cds[n], dir)
                                           ELSE cds[n]]

\* apply_cd_builtin_r() on one node.  A brother that is an operator has no cd
\* list: add_cd() takes for one what malloc() left in the part of the union that
\* an operator does not use, so the directory is lost or the tool crashes.
ApplyCd ==
    /\ stage = "builtins"
    /\ cursor <= Len(nodes)
    /\ \/ ~IsCd(cursor) /\ UNCHANGED <<cds, removed, stage>>
       \/ /\ IsCd(cursor) /\ ~InSequence(cursor)
          /\ AddCd({cursor}, Directory(cursor))
          /\ UNCHANGED <<removed, stage>>
       \/ /\ IsCd(cursor) /\ InSequence(cursor)
          /\ AddCd({m \in NextBrothers(cursor) : nodes[m].type = "Executable"},
                   Directory(cursor))
          /\ removed' = removed \cup {cursor}
          /\ \/ UNCHANGED stage
             \/ /\ \E m \in NextBrothers(cursor) : nodes[m].type # "Executable"
                /\ stage' = "crashed"
    /\ cursor' = cursor + 1
    /\ UNCHANGED <<work, nodes, tree>>

Kept == Ascending(Created \ removed)

\* The number of a node among those that are left.
Renumbered(n) == Cardinality({m \in Created \ removed : m <= n})

\* The tree that is left; the program of an executable is its argv and its cds.
BuiltTree ==
    LET size == Len(Kept)
        type == [n \in 1..size |-> nodes[Kept[n]].type]
    IN [size |-> size,
        type |-> type,
        father |-> [n \in 1..size |-> IF nodes[Kept[n]].father = NoNode THEN NoNode
                                      ELSE Renumbered(nodes[Kept[n]].father)],
        redirect_in |-> {n \in 1..size : nodes[Kept[n]].in # NoFile},
        redirect_out |-> {n \in 1..size : nodes[Kept[n]].out # NoFile},
        program |-> [n \in 1..size |-> <<nodes[Kept[n]].argv, cds[Kept[n]]>>]]

WireRedirects ==
    /\ stage = "builtins"
    /\ cursor > Len(nodes)
    /\ tree' = Wired(BuiltTree)
    /\ stage' = "executing"
    /\ UNCHANGED <<work, nodes, cursor, cds, removed>>

ApplyBuiltin == ApplyCd \/ WireRedirects

-----------------------------------------------------------------------------
(* Properties.                                                             *)

\* After apply_cd_builtin() each command has the directories of the cd commands
\* before it in its own sequence, in order, and of no others; a cd that is not in
\* a sequence has its own.
CdsOf(n) ==
    IF IsCd(n) /\ ~InSequence(n) THEN <<Directory(n)>>
    ELSE LET before == {m \in Created : /\ IsCd(m) /\ InSequence(m) /\ m < n
                                        /\ nodes[m].father = nodes[n].father}
         IN [i \in 1..Cardinality(before) |-> Directory(Ascending(before)[i])]

CdsGoToFollowers ==
    stage = "executing" =>
      \A n \in Created \ removed :
        nodes[n].type = "Executable" => cds[n] = CdsOf(n)
=============================================================================
