----------------------------- MODULE ToolProofs -----------------------------
(***************************************************************************)
(* What main() makes of a command line: proofs about Parser, Builtin,      *)
(* Report and Tool, for every command line.                                *)
(***************************************************************************)
EXTENDS Tool, TreeProofs, SequenceTheorems

-----------------------------------------------------------------------------
(* Recursive functions.                                                    *)

\* step[n][g] is the value at n of a function whose other values are those of g:
\* it depends on those of lower rank only.
IsRecursion(D, V, b, rank, step) ==
    /\ rank \in [D -> 0..b]
    /\ step \in [D -> [[D -> V] -> V]]
    /\ \A n \in D : \A g, h \in [D -> V] :
         (\A m \in D : rank[m] < rank[n] => g[m] = h[m]) => step[n][g] = step[n][h]

\* A recursive definition of that form has a solution.
LEMMA RecursionHasSolution ==
    ASSUME NEW D, NEW V, V # {}, NEW b \in Nat, NEW rank, NEW step,
           IsRecursion(D, V, b, rank, step)
    PROVE  \E g \in [D -> V] : \A n \in D : g[n] = step[n][g]
<1> DEFINE Solves(g, k) == \A n \in D : rank[n] < k => g[n] = step[n][g]
           Unsolved == {k \in Nat : \A g \in [D -> V] : ~Solves(g, k)}
<1>1. /\ rank \in [D -> 0..b]
      /\ step \in [D -> [[D -> V] -> V]]
  BY DEF IsRecursion
<1>2. 0 \notin Unsolved
  <2>1. PICK v \in V : TRUE
    OBVIOUS
  <2>2. [n \in D |-> v] \in [D -> V]
    OBVIOUS
  <2>3. Solves([n \in D |-> v], 0)
    BY <1>1
  <2> QED BY <2>2, <2>3
<1>3. ASSUME NEW k \in Nat, k \notin Unsolved PROVE k + 1 \notin Unsolved
  <2>1. PICK g \in [D -> V] : Solves(g, k)
    BY <1>3
  <2> DEFINE h == [n \in D |-> step[n][g]]
  <2>2. h \in [D -> V]
    BY <1>1
  <2>3. \A m \in D : rank[m] < k => h[m] = g[m]
    BY <2>1
  <2>4. ASSUME NEW n \in D, rank[n] < k + 1 PROVE h[n] = step[n][h]
    <3>1. \A m \in D : rank[m] < rank[n] => g[m] = h[m]
      <4> SUFFICES ASSUME NEW m \in D, rank[m] < rank[n] PROVE g[m] = h[m]
        OBVIOUS
      <4>1. rank[m] \in Nat /\ rank[n] \in Nat
        BY <1>1
      <4>2. rank[m] < k
        BY <2>4, <4>1
      <4> QED BY <2>3, <4>2
    <3> HIDE DEF h
    <3>2. step[n][g] = step[n][h]
      BY <2>2, <3>1 DEF IsRecursion
    <3> QED BY <3>2 DEF h
  <2>5. Solves(h, k + 1)
    BY <2>4
  <2> HIDE DEF h
  <2> QED BY <2>2, <2>5
<1> HIDE DEF Unsolved
<1>4. Unsolved = {}
  <2>1. SUFFICES ASSUME Unsolved # {} PROVE FALSE
    OBVIOUS
  <2>2. Unsolved \in SUBSET Nat
    BY DEF Unsolved
  <2>3. First(Unsolved) \in Unsolved /\ \A m \in Unsolved : First(Unsolved) <= m
    BY <2>1, <2>2, FirstIsLeast
  <2>4. First(Unsolved) \in Nat /\ First(Unsolved) # 0
    BY <1>2, <2>2, <2>3
  <2>5. First(Unsolved) - 1 \in Nat /\ First(Unsolved) - 1 \notin Unsolved
    BY <2>3, <2>4
  <2>6. (First(Unsolved) - 1) + 1 \notin Unsolved
    BY <1>3, <2>5
  <2> QED BY <2>3, <2>4, <2>6
<1>5. b + 1 \notin Unsolved
  BY <1>4
<1>6. PICK g \in [D -> V] : Solves(g, b + 1)
  BY <1>5 DEF Unsolved
<1>7. \A n \in D : rank[n] < b + 1
  BY <1>1
<1> QED BY <1>6, <1>7

\* A set that holds, with each of its members, one of lower rank, is empty.
IsBottomless(D, b, rank, S) ==
    /\ b \in Nat
    /\ rank \in [D -> 0..b]
    /\ S \subseteq D
    /\ \A n \in S : \E m \in S : rank[m] < rank[n]

LEMMA RankDescent ==
    ASSUME NEW D, NEW b, NEW rank, NEW S, IsBottomless(D, b, rank, S)
    PROVE  S = {}
<1> DEFINE T == {rank[n] : n \in S}
<1>1. T \in SUBSET Nat
  BY DEF IsBottomless
<1>2. \A x \in T : \E y \in T : y < x
  BY DEF IsBottomless
<1>3. -1 \notin Nat
  OBVIOUS
<1> HIDE DEF T
<1>4. T # {} => -1 \in T
  BY <1>1, <1>2, Descent
<1>5. T = {}
  BY <1>1, <1>3, <1>4
<1> QED BY <1>5 DEF T

-----------------------------------------------------------------------------
(* Sequences.                                                              *)

\* A sequence, of whatever elements.
Listed(s) == s \in Seq({s[i] : i \in 1..Len(s)})

LEMMA ListedIsFunction ==
    ASSUME NEW s, Listed(s)
    PROVE  Len(s) \in Nat /\ s = [i \in 1..Len(s) |-> s[i]] /\ DOMAIN s = 1..Len(s)
BY LenProperties DEF Listed

LEMMA SeqIsListed ==
    ASSUME NEW S, NEW s \in Seq(S)
    PROVE  Listed(s)
<1>1. Len(s) \in Nat /\ s \in [1..Len(s) -> S] /\ DOMAIN s = 1..Len(s)
  BY LenProperties
<1> DEFINE T == {s[i] : i \in 1..Len(s)}
<1>2. s \in [1..Len(s) -> T]
  BY <1>1
<1> HIDE DEF T
<1>3. s \in Seq(T)
  BY <1>1, <1>2
<1> QED BY <1>3 DEF Listed, T

LEMMA FunctionIsListed ==
    ASSUME NEW n \in Nat, NEW s, DOMAIN s = 1..n, s = [i \in 1..n |-> s[i]]
    PROVE  Listed(s) /\ Len(s) = n
<1> DEFINE T == {s[i] : i \in 1..n}
<1>1. s \in [1..n -> T]
  OBVIOUS
<1> HIDE DEF T
<1>2. s \in Seq(T) /\ Len(s) = n
  BY <1>1
<1> QED BY <1>2, SeqIsListed

LEMMA ListedConcat ==
    ASSUME NEW s, NEW t, Listed(s), Listed(t)
    PROVE  /\ Listed(s \o t)
           /\ Len(s \o t) = Len(s) + Len(t)
           /\ \A i \in 1..(Len(s) + Len(t)) :
                (s \o t)[i] = IF i <= Len(s) THEN s[i] ELSE t[i - Len(s)]
<1> DEFINE S == {s[i] : i \in 1..Len(s)}
           T == {t[i] : i \in 1..Len(t)}
           B == S \cup T
<1>1. s \in Seq(S) /\ t \in Seq(T)
  BY DEF Listed
<1>2. S \subseteq B /\ T \subseteq B
  OBVIOUS
<1> HIDE DEF S, T, B
<1>3. s \in Seq(B) /\ t \in Seq(B)
  BY <1>1, <1>2, SeqMonotonic
<1>4. s \o t \in Seq(B)
  BY <1>3, ConcatProperties
<1> QED BY <1>3, <1>4, ConcatProperties, SeqIsListed

LEMMA ListedAppend ==
    ASSUME NEW s, NEW e, Listed(s)
    PROVE  /\ Listed(Append(s, e))
           /\ Len(Append(s, e)) = Len(s) + 1
           /\ \A i \in 1..Len(s) : Append(s, e)[i] = s[i]
           /\ Append(s, e)[Len(s) + 1] = e
<1> DEFINE S == {s[i] : i \in 1..Len(s)}
           B == S \cup {e}
<1>1. s \in Seq(S)
  BY DEF Listed
<1>2. S \subseteq B /\ e \in B
  OBVIOUS
<1> HIDE DEF S, B
<1>3. s \in Seq(B)
  BY <1>1, <1>2, SeqMonotonic
<1>4. Append(s, e) \in Seq(B)
  BY <1>2, <1>3, AppendProperties
<1>5. Listed(Append(s, e))
  BY <1>4, SeqIsListed
<1>6. /\ Len(Append(s, e)) = Len(s) + 1
      /\ \A i \in 1..Len(s) : Append(s, e)[i] = s[i]
      /\ Append(s, e)[Len(s) + 1] = e
  BY <1>2, <1>3, AppendProperties
<1> QED BY <1>5, <1>6

LEMMA ListedTail ==
    ASSUME NEW s, Listed(s), s # <<>>
    PROVE  /\ Listed(Tail(s))
           /\ Len(s) \in Nat \ {0} /\ Len(Tail(s)) = Len(s) - 1
           /\ Head(s) = s[1]
           /\ \A i \in 1..Len(Tail(s)) : Tail(s)[i] = s[i + 1]
<1> DEFINE S == {s[i] : i \in 1..Len(s)}
<1>1. s \in Seq(S)
  BY DEF Listed
<1> HIDE DEF S
<1>2. Tail(s) \in Seq(S)
  BY <1>1, HeadTailProperties
<1>3. Len(s) \in Nat \ {0}
  BY <1>1, EmptySeq
<1>4. Head(s) = s[1]
  BY <1>1
<1> QED BY <1>1, <1>2, <1>3, <1>4, HeadTailProperties, SeqIsListed

LEMMA SameListed ==
    ASSUME NEW s, NEW t, Listed(s), Listed(t), Len(s) = Len(t),
           \A i \in 1..Len(s) : s[i] = t[i]
    PROVE  s = t
<1>1. /\ s = [i \in 1..Len(s) |-> s[i]]
      /\ t = [i \in 1..Len(s) |-> t[i]]
  BY ListedIsFunction
<1> QED BY <1>1

-----------------------------------------------------------------------------
(* Sets of numbers in ascending order.                                     *)

\* Each element has its place.
LEMMA AscendingPlace ==
    ASSUME NEW S \in SUBSET Nat, IsFiniteSet(S), NEW m \in S
    PROVE  /\ Cardinality({k \in S : k < m}) + 1 \in 1..Cardinality(S)
           /\ Ascending(S)[Cardinality({k \in S : k < m}) + 1] = m
<1>1. PICK i \in 1..Cardinality(S) : Ascending(S)[i] = m
  BY AscendingFacts
<1>2. Cardinality({k \in S : k < m}) = i - 1
  BY <1>1, AscendingFacts
<1>3. Cardinality(S) \in Nat
  BY FS_CardinalityType
<1> QED BY <1>1, <1>2, <1>3

\* Later places hold greater numbers.
LEMMA AscendingOrder ==
    ASSUME NEW S \in SUBSET Nat, IsFiniteSet(S),
           NEW i \in 1..Cardinality(S), NEW j \in 1..Cardinality(S), i < j
    PROVE  Ascending(S)[i] < Ascending(S)[j]
<1> DEFINE a == Ascending(S)[i]
           b == Ascending(S)[j]
           Below(m) == {k \in S : k < m}
<1>1. a \in S /\ b \in S /\ a \in Nat /\ b \in Nat
  BY AscendingFacts
<1>2. Cardinality(Below(a)) = i - 1 /\ Cardinality(Below(b)) = j - 1
  BY AscendingFacts
<1>3. a # b
  BY AscendingFacts
<1>4. SUFFICES ASSUME b < a PROVE FALSE
  BY <1>1, <1>3
<1> HIDE DEF a, b
<1>5. Below(b) \in SUBSET Below(a) /\ Below(a) \in SUBSET S
  <2>1. \A k \in S : k \in Nat
    OBVIOUS
  <2>2. \A k \in S : k < b => k < a
    BY <1>1, <1>4, <2>1
  <2> QED BY <2>2
<1> HIDE DEF Below
<1>6. IsFiniteSet(Below(a))
  BY <1>5, FS_Subset
<1>7. Cardinality(Below(b)) <= Cardinality(Below(a))
  BY <1>5, <1>6, FS_Subset
<1> QED BY <1>2, <1>7

\* A number greater than all comes last.
LEMMA AscendingWithGreater ==
    ASSUME NEW S \in SUBSET Nat, IsFiniteSet(S), NEW x \in Nat, \A m \in S : m < x
    PROVE  /\ IsFiniteSet(S \cup {x})
           /\ Cardinality(S \cup {x}) = Cardinality(S) + 1
           /\ \A i \in 1..Cardinality(S) : Ascending(S \cup {x})[i] = Ascending(S)[i]
           /\ Ascending(S \cup {x})[Cardinality(S) + 1] = x
<1> DEFINE T == S \cup {x}
<1>1. x \notin S /\ T \in SUBSET Nat
  OBVIOUS
<1>2. IsFiniteSet(T) /\ Cardinality(T) = Cardinality(S) + 1 /\ Cardinality(S) \in Nat
  BY <1>1, FS_AddElement, FS_CardinalityType
<1>3. {k \in T : k < x} = S
  <2>1. ~(x < x)
    OBVIOUS
  <2> QED BY <2>1
<1>4. x \in T
  OBVIOUS
<1>5. Ascending(T)[Cardinality(S) + 1] = x
  <2> HIDE DEF T
  <2> QED BY <1>1, <1>2, <1>3, <1>4, AscendingPlace
<1>6. ASSUME NEW i \in 1..Cardinality(S) PROVE Ascending(T)[i] = Ascending(S)[i]
  <2> DEFINE m == Ascending(S)[i]
  <2>1. m \in S /\ Cardinality({k \in S : k < m}) = i - 1
    BY AscendingFacts
  <2> HIDE DEF m
  <2>2. m \in Nat /\ m < x /\ m \in T
    BY <2>1
  <2>3. {k \in T : k < m} = {k \in S : k < m}
    BY <2>2
  <2> HIDE DEF T
  <2>4. Ascending(T)[(i - 1) + 1] = m
    BY <1>1, <1>2, <2>1, <2>2, <2>3, AscendingPlace
  <2> QED BY <2>4 DEF m
<1> QED BY <1>2, <1>5, <1>6

LEMMA AtPlacesMore ==
    ASSUME NEW s, Listed(s), NEW e, NEW S \in SUBSET (1..Len(s))
    PROVE  /\ Listed(AtPlaces(s, S)) /\ Len(AtPlaces(s, S)) = Cardinality(S)
           /\ Cardinality(S) \in Nat
           /\ AtPlaces(Append(s, e), S) = AtPlaces(s, S)
           /\ AtPlaces(Append(s, e), S \cup {Len(s) + 1}) = Append(AtPlaces(s, S), e)
<1> DEFINE t == Append(s, e)
           l == Len(s)
           c == Cardinality(S)
           U == S \cup {l + 1}
           a == AtPlaces(s, S)
           b == AtPlaces(t, U)
<1>1. /\ l \in Nat /\ \A i \in 1..l : t[i] = s[i]
      /\ t[l + 1] = e
  BY ListedAppend, ListedIsFunction
<1>2. S \in SUBSET Nat /\ \A m \in S : m < l + 1
  BY <1>1
<1>3. IsFiniteSet(S)
  <2>1. IsFiniteSet(1..l)
    BY <1>1, FS_Interval
  <2> QED BY <2>1, FS_Subset
<1>4. c \in Nat /\ \A i \in 1..c : Ascending(S)[i] \in S
  BY <1>2, <1>3, AscendingFacts
<1>5. /\ Cardinality(U) = c + 1
      /\ \A i \in 1..c : Ascending(U)[i] = Ascending(S)[i]
      /\ Ascending(U)[c + 1] = l + 1
  <2>1. l + 1 \in Nat
    BY <1>1
  <2> QED BY <1>2, <1>3, <2>1, AscendingWithGreater
<1> HIDE DEF t, l, c, U
<1>6. /\ DOMAIN a = 1..c /\ a = [k \in 1..c |-> a[k]]
      /\ \A k \in 1..c : a[k] = s[Ascending(S)[k]]
  BY DEF AtPlaces, c
<1>7. /\ DOMAIN b = 1..(c + 1) /\ b = [k \in 1..(c + 1) |-> b[k]]
      /\ \A k \in 1..(c + 1) : b[k] = t[Ascending(U)[k]]
  BY <1>5 DEF AtPlaces
<1>8. AtPlaces(t, S) = a
  <2>1. \A k \in 1..c : Ascending(S)[k] \in 1..l
    BY <1>4 DEF l
  <2>2. \A k \in 1..c : t[Ascending(S)[k]] = s[Ascending(S)[k]]
    BY <1>1, <2>1
  <2> QED BY <2>2 DEF AtPlaces, c
<1> HIDE DEF a, b
<1>9. Listed(a) /\ Len(a) = c /\ Listed(b) /\ Len(b) = c + 1
  BY <1>4, <1>6, <1>7, FunctionIsListed
<1>10. b = Append(a, e)
  <2>1. /\ Listed(Append(a, e)) /\ Len(Append(a, e)) = c + 1
        /\ \A i \in 1..c : Append(a, e)[i] = a[i]
        /\ Append(a, e)[c + 1] = e
    BY <1>9, ListedAppend
  <2>2. ASSUME NEW k \in 1..(c + 1) PROVE b[k] = Append(a, e)[k]
    <3>1. CASE k = c + 1
      BY <1>1, <1>5, <1>7, <2>1, <3>1
    <3>2. CASE k # c + 1
      <4>1. k \in 1..c
        BY <1>4, <3>2
      <4>2. Ascending(S)[k] \in 1..l
        BY <1>4, <4>1 DEF l
      <4>3. b[k] = t[Ascending(S)[k]]
        BY <1>5, <1>7, <4>1
      <4>4. b[k] = a[k]
        BY <1>1, <1>6, <4>1, <4>2, <4>3
      <4> QED BY <2>1, <4>1, <4>4
    <3> QED BY <3>1, <3>2
  <2> QED BY <1>9, <2>1, <2>2, SameListed
<1> QED BY <1>4, <1>8, <1>9, <1>10 DEF a, b, c, t, U, l

-----------------------------------------------------------------------------
(* The invariant.                                                          *)

\* A blank and the attributes are strings, which the provers do not know.
Glyphs == STRING \cup {Blank} \cup Attributes
Texts == Seq(Glyphs)
Early == {"arguments", "starting", "parsing", "builtins", "executing"}

TypeInv ==
    /\ stage \in Stages
    /\ argv \in Seq(Texts)
    /\ arguments \in [print_help : BOOLEAN, stop_daemon : BOOLEAN,
                      command : Texts, log_options : Texts]
    /\ work \in Seq([string : Texts, father : Nat])
    /\ Listed(nodes)
    /\ \A n \in Created : nodes[n].type \in NodeTypes
    /\ attributes \in Seq(Attributes)
    /\ clock \in (Nat \X Nat) \X (Nat \X Nat)
    /\ root_code \in Nat \cup {Uninitialised}
    /\ exit_status \in {Uninitialised} \cup 0..255
    /\ stage \in {"failed", "exited"} <=> exit_status # Uninitialised

\* The father of the node that is, or once the strings before it are parsed will
\* be, the p-th.
FatherAt(p) == IF p <= Len(nodes) THEN nodes[p].father ELSE work[p - Len(nodes)].father

Places == 1..(Len(nodes) + Len(work))

\* The nodes created and the strings still to be parsed are a tree in preorder: a
\* string is an operand of an operator that is still open.
PreorderInv ==
    \A p \in Places :
      /\ FatherAt(p) \in Nat /\ FatherAt(p) < p /\ FatherAt(p) <= Len(nodes)
      /\ FatherAt(p) = NoNode <=> p = 1
      /\ p # 1 => nodes[FatherAt(p)].type # "Executable"
      /\ \A q \in (FatherAt(p) + 1)..(p - 1) : FatherAt(q) >= FatherAt(p)

\* A pipe has two operands, or will have.
PipeInv ==
    \A n \in Created :
      nodes[n].type = "Pipe" =>
        \E p, q \in Places : p # q /\ FatherAt(p) = n /\ FatherAt(q) = n

ProgressInv ==
    /\ stage \in {"arguments", "starting"} => nodes = <<>> /\ work = <<>>
    /\ stage = "parsing" => Places # {}
    /\ stage \in {"builtins", "executing", "printing"} => nodes # <<>> /\ work = <<>>
    /\ stage \in Early => executed = {} /\ report = <<>>

\* A cd whose directory goes to the commands after it.
IsHandedOn(n) == IsCd(n) /\ InSequence(n)

Directories == {Directory(m) : m \in {n \in Created : IsCd(n)}}

\* The directories of the cd commands before c that n gets.
CdsBefore(n, c) ==
    {m \in Created : /\ IsHandedOn(m) /\ m < n /\ m < c
                     /\ nodes[m].father = nodes[n].father}

DirectoriesOf(before) ==
    [i \in 1..Cardinality(before) |-> Directory(Ascending(before)[i])]

CdInv ==
    stage = "builtins" =>
      /\ cursor \in 1..(Len(nodes) + 1)
      /\ removed = {n \in Created : IsHandedOn(n) /\ n < cursor}
      /\ cds \in [Created -> Seq(Directories)]
      /\ \A n \in Created \ removed :
           nodes[n].type = "Executable" =>
             IF IsCd(n) /\ ~InSequence(n)
               THEN cds[n] = IF n < cursor THEN <<Directory(n)>> ELSE <<>>
               ELSE cds[n] = DirectoriesOf(CdsBefore(n, cursor))

ReportInv ==
    /\ Listed(report)
    /\ PrintedTimeAddsUp

Inv ==
    /\ TypeInv
    /\ ProgressInv
    /\ PreorderInv
    /\ PipeInv
    /\ CdInv
    /\ BuiltTreeIsTree
    /\ CdsGoToFollowers
    /\ executed \subseteq Executables
    /\ ReportInv

-----------------------------------------------------------------------------
(* Strings stay strings.                                                   *)

LEMMA PartOfText ==
    ASSUME NEW s \in Texts, NEW i \in Int, NEW j \in Int, 1 <= i, j <= Len(s)
    PROVE  SubSeq(s, i, j) \in Texts
<1>1. \A k \in i..j : k \in 1..Len(s)
  BY LenProperties DEF Texts
<1>2. \A k \in i..j : s[k] \in Glyphs
  BY <1>1, ElementOfSeq DEF Texts
<1> QED BY <1>2, SubSeqProperties DEF Texts

LEMMA CommandPartIsText ==
    ASSUME NEW s \in Texts
    PROVE  CommandPart(s) \in Texts
<1>1. Len(s) \in Nat
  BY LenProperties DEF Texts
<1> DEFINE R == RedirectStarts(s)
<1>2. R \in SUBSET Nat /\ \A i \in R : i \in 1..Len(s)
  BY <1>1 DEF RedirectStarts
<1>3. CASE R = {}
  BY <1>3 DEF CommandPart
<1>4. CASE R # {}
  <2> HIDE DEF R
  <2>1. First(R) \in 1..Len(s)
    BY <1>2, <1>4, FirstIsLeast
  <2>2. First(R) - 1 \in Int /\ 1 \in Int /\ First(R) - 1 <= Len(s)
    BY <1>1, <2>1
  <2>3. SubSeq(s, 1, First(R) - 1) \in Texts
    BY <2>2, PartOfText
  <2> QED BY <1>4, <2>3 DEF CommandPart, R
<1> QED BY <1>3, <1>4

LEMMA BracketsRemovedIsText ==
    ASSUME NEW s \in Texts
    PROVE  BracketsRemoved(s) \in Texts
<1>1. Len(s) \in Nat
  BY LenProperties DEF Texts
<1> DEFINE P == {j \in 1..(Len(s) + 1) : j <= Len(s) => s[j] # Blank}
           Q == {j \in 0..Len(s) : j > 0 => s[j] # Blank}
<1>2. P \in SUBSET Nat /\ Len(s) + 1 \in P /\ \A j \in P : j >= 1
  BY <1>1
<1>3. Q \in SUBSET (0..Len(s)) /\ 0 \in Q
  BY <1>1
<1>4. BracketsRemoved(s) = s \/ BracketsRemoved(s) = SubSeq(s, First(P) + 1, Last(Q) - 1)
  BY DEF BracketsRemoved, NonBlank
<1> HIDE DEF P, Q
<1>5. First(P) \in Nat /\ First(P) >= 1
  BY <1>2, FirstIsLeast
<1>6. Last(Q) \in 0..Len(s)
  BY <1>1, <1>3, LastIsGreatest
<1>7. SubSeq(s, First(P) + 1, Last(Q) - 1) \in Texts
  <2>1. /\ First(P) + 1 \in Int /\ Last(Q) - 1 \in Int
        /\ 1 <= First(P) + 1 /\ Last(Q) - 1 <= Len(s)
    BY <1>1, <1>5, <1>6
  <2> QED BY <2>1, PartOfText
<1> QED BY <1>4, <1>7

CountsAt(counts, s, type, i) ==
    /\ i \in Matches(s, type)
    /\ ~(/\ type = "Pipe" /\ i > 2 /\ counts[i - 2]
         /\ s[i - 1] \in OneCharacter)

LEMMA CountedUnfolds ==
    ASSUME NEW s, NEW type, NEW g, g = [i \in 0..Len(s) |-> CountsAt(g, s, type, i)]
    PROVE  \E counts : /\ counts = [i \in 0..Len(s) |-> CountsAt(counts, s, type, i)]
                       /\ Counted(s, type) = Cardinality({i \in 1..Len(s) : counts[i]})
BY Zenon DEF Counted, CountsAt

LEMMA CountsSolved ==
    ASSUME NEW s \in Texts, NEW type
    PROVE  \E counts :
             /\ \A i \in 0..Len(s) : counts[i] = CountsAt(counts, s, type, i)
             /\ Counted(s, type) = Cardinality({i \in 1..Len(s) : counts[i]})
<1>1. Len(s) \in Nat
  BY LenProperties DEF Texts
<1> DEFINE D == 0..Len(s)
           step == [i \in D |-> [g \in [D -> BOOLEAN] |-> CountsAt(g, s, type, i)]]
           rank == [i \in D |-> i]
<1>2. \A i \in D : \A g : CountsAt(g, s, type, i) \in BOOLEAN
  BY DEF CountsAt
<1>3. rank \in [D -> 0..Len(s)] /\ step \in [D -> [[D -> BOOLEAN] -> BOOLEAN]]
  BY <1>2
<1>4. ASSUME NEW i \in D, NEW g \in [D -> BOOLEAN], NEW h \in [D -> BOOLEAN],
             \A m \in D : rank[m] < rank[i] => g[m] = h[m]
      PROVE  step[i][g] = step[i][h]
  <2>1. i > 2 => i - 2 \in D /\ g[i - 2] = h[i - 2]
    BY <1>1, <1>4
  <2>2. CountsAt(g, s, type, i) = CountsAt(h, s, type, i)
    BY <2>1 DEF CountsAt
  <2> QED BY <2>2
<1>5. \E g \in [D -> BOOLEAN] : \A i \in D : g[i] = step[i][g]
  <2>1. IsRecursion(D, BOOLEAN, Len(s), rank, step)
    BY <1>3, <1>4 DEF IsRecursion
  <2>2. BOOLEAN # {}
    OBVIOUS
  <2> HIDE DEF D, step, rank
  <2> QED BY <1>1, <2>1, <2>2, RecursionHasSolution
<1>6. PICK g \in [D -> BOOLEAN] : \A i \in D : g[i] = CountsAt(g, s, type, i)
  BY <1>5
<1>7. g = [i \in D |-> CountsAt(g, s, type, i)]
  BY <1>6
<1> HIDE DEF step, rank
<1>8. PICK counts :
        /\ counts = [i \in 0..Len(s) |-> CountsAt(counts, s, type, i)]
        /\ Counted(s, type) = Cardinality({i \in 1..Len(s) : counts[i]})
  <2>1. g = [i \in 0..Len(s) |-> CountsAt(g, s, type, i)]
    BY <1>7
  <2> HIDE DEF D
  <2> QED BY SMTT(60), <2>1, CountedUnfolds
<1>9. \A i \in D : counts[i] = CountsAt(counts, s, type, i)
  <2> HIDE DEF D
  <2> QED BY <1>8 DEF D
<1> QED BY <1>8, <1>9

\* No separator is counted that is not there.
LEMMA CountedFacts ==
    ASSUME NEW s \in Texts, NEW type
    PROVE  /\ Matches(s, type) \in SUBSET (1..Len(s))
           /\ IsFiniteSet(Matches(s, type))
           /\ Counted(s, type) \in Nat
           /\ Counted(s, type) <= Cardinality(Matches(s, type))
<1>1. Len(s) \in Nat
  BY LenProperties DEF Texts
<1>2. PICK counts :
        /\ \A i \in 0..Len(s) : counts[i] = CountsAt(counts, s, type, i)
        /\ Counted(s, type) = Cardinality({i \in 1..Len(s) : counts[i]})
  BY CountsSolved
<1> DEFINE C == {i \in 1..Len(s) : counts[i]}
<1>3. \A i \in 1..Len(s) : counts[i] => i \in Matches(s, type)
  <2>1. \A i \in 1..Len(s) : i \in 0..Len(s)
    BY <1>1
  <2> QED BY <1>2, <2>1 DEF CountsAt
<1>4. C \in SUBSET Matches(s, type)
  BY <1>3
<1>5. Matches(s, type) \in SUBSET (1..Len(s))
  BY DEF Matches
<1>6. IsFiniteSet(1..Len(s))
  BY <1>1, FS_Interval
<1>7. IsFiniteSet(Matches(s, type))
  BY <1>5, <1>6, FS_Subset
<1> HIDE DEF C
<1>8. IsFiniteSet(C) /\ Cardinality(C) <= Cardinality(Matches(s, type))
  BY <1>4, <1>7, FS_Subset
<1>9. Cardinality(C) \in Nat
  BY <1>8, FS_CardinalityType
<1>10. Counted(s, type) = Cardinality(C)
  BY <1>2 DEF C
<1> QED BY <1>5, <1>7, <1>8, <1>9, <1>10

\* A string is cut into one piece more than there are separators counted.
LEMMA PiecesAreTexts ==
    ASSUME NEW s \in Texts, NEW type
    PROVE  Pieces(s, type) \in Seq(Texts) /\ Len(Pieces(s, type)) = Counted(s, type) + 1
<1> DEFINE M == Matches(s, type)
           c == Cardinality(M)
           n == Counted(s, type)
           cuts == <<0>> \o Ascending(M) \o <<Len(s) + 1>>
           D == 0..(Len(s) + 1)
<1>1. Len(s) \in Nat
  BY LenProperties DEF Texts
<1>2. /\ M \in SUBSET (1..Len(s)) /\ IsFiniteSet(M)
      /\ n \in Nat /\ n <= c
  BY CountedFacts
<1>3. M \in SUBSET Nat /\ M \in SUBSET D
  BY <1>1, <1>2
<1> HIDE DEF M, n
<1>4. c \in Nat /\ Ascending(M) \in [1..c -> M]
  BY <1>2, <1>3, AscendingFacts
<1> HIDE DEF c
<1>5. Ascending(M) \in [1..c -> D]
  BY <1>3, <1>4
<1>6. Ascending(M) \in Seq(D) /\ Len(Ascending(M)) = c
  BY <1>4, <1>5
<1>7. <<0>> \in Seq(D) /\ <<Len(s) + 1>> \in Seq(D) /\ Len(<<0>>) = 1
      /\ Len(<<Len(s) + 1>>) = 1
  BY <1>1
<1> HIDE DEF D
<1>8. <<0>> \o Ascending(M) \in Seq(D) /\ Len(<<0>> \o Ascending(M)) = 1 + c
  BY <1>6, <1>7, ConcatProperties
<1>9. cuts \in Seq(D) /\ Len(cuts) = c + 2
  <2> DEFINE first == <<0>> \o Ascending(M)
             last == <<Len(s) + 1>>
  <2>1. first \in Seq(D) /\ last \in Seq(D) /\ Len(first) = 1 + c /\ Len(last) = 1
    BY <1>7, <1>8
  <2>2. cuts = first \o last
    OBVIOUS
  <2> HIDE DEF first, last, cuts
  <2>3. cuts \in Seq(D) /\ Len(cuts) = (1 + c) + 1
    <3>1. first \o last \in Seq(D) /\ Len(first \o last) = Len(first) + Len(last)
      BY <2>1, ConcatProperties
    <3> QED BY <2>1, <2>2, <3>1
  <2> QED BY <1>4, <2>3
<1> HIDE DEF cuts
<1>10. ASSUME NEW k \in 1..(n + 1)
       PROVE  SubSeq(s, cuts[k] + 1, cuts[k + 1] - 1) \in Texts
  <2>1. k \in 1..Len(cuts) /\ k + 1 \in 1..Len(cuts)
    BY <1>2, <1>4, <1>9
  <2>2. cuts[k] \in D /\ cuts[k + 1] \in D
    BY <1>9, <2>1, ElementOfSeq
  <2>3. /\ cuts[k] + 1 \in Int /\ cuts[k + 1] - 1 \in Int
        /\ 1 <= cuts[k] + 1 /\ cuts[k + 1] - 1 <= Len(s)
    BY <1>1, <2>2 DEF D
  <2> QED BY <2>3, PartOfText
<1>11. Pieces(s, type) = [k \in 1..(n + 1) |-> SubSeq(s, cuts[k] + 1, cuts[k + 1] - 1)]
  BY DEF Pieces, cuts, M, n
<1>12. Pieces(s, type) \in [1..(n + 1) -> Texts]
  BY <1>10, <1>11
<1>13. n + 1 \in Nat
  BY <1>2
<1>14. Pieces(s, type) \in Seq(Texts) /\ Len(Pieces(s, type)) = n + 1
  BY <1>12, <1>13
<1> QED BY <1>14 DEF n

JoinedAt(joined, strings, separator, i) ==
    IF i = 1 THEN strings[1] ELSE joined[i - 1] \o separator \o strings[i]

LEMMA JoinedUnfolds ==
    ASSUME NEW strings, NEW separator, NEW g,
           g = [i \in 1..Len(strings) |-> JoinedAt(g, strings, separator, i)]
    PROVE  \E joined :
             /\ joined = [i \in 1..Len(strings) |-> JoinedAt(joined, strings, separator, i)]
             /\ Joined(strings, separator) =
                  IF strings = <<>> THEN <<>> ELSE joined[Len(strings)]
<1> DEFINE joined == CHOOSE joined :
                       joined = [i \in 1..Len(strings) |->
                                   JoinedAt(joined, strings, separator, i)]
<1>1. joined = [i \in 1..Len(strings) |-> JoinedAt(joined, strings, separator, i)]
  BY Zenon
<1>2. Joined(strings, separator) = IF strings = <<>> THEN <<>> ELSE joined[Len(strings)]
  BY DEF Joined, JoinedAt
<1> HIDE DEF joined
<1> QED BY <1>1, <1>2

LEMMA JoinedSolved ==
    ASSUME NEW strings \in Seq(Texts), NEW separator \in Texts
    PROVE  \E joined \in [1..Len(strings) -> Texts] :
             /\ \A i \in 1..Len(strings) :
                  joined[i] = JoinedAt(joined, strings, separator, i)
             /\ Joined(strings, separator) =
                  IF strings = <<>> THEN <<>> ELSE joined[Len(strings)]
<1> DEFINE D == 1..Len(strings)
           At(g, i) == JoinedAt(g, strings, separator, i)
           step == [i \in D |-> [g \in [D -> Texts] |-> At(g, i)]]
           rank == [i \in D |-> i]
<1>1. Len(strings) \in Nat
  BY LenProperties
<1>2. \A i \in 1..Len(strings) : strings[i] \in Texts
  BY ElementOfSeq
<1>3. ASSUME NEW g, NEW i \in D, i > 1 => g[i - 1] \in Texts
      PROVE  At(g, i) \in Texts
  <2>2. CASE i = 1
    BY <1>1, <1>2, <2>2 DEF JoinedAt
  <2>3. CASE i > 1
    <3>0. i # 1
      BY <2>3
    <3>1. At(g, i) = g[i - 1] \o separator \o strings[i]
      BY <3>0, Zenon DEF JoinedAt
    <3>2. strings[i] \in Texts /\ g[i - 1] \in Texts
      BY <1>1, <1>2, <1>3, <2>3
    <3>3. g[i - 1] \o separator \in Texts
      BY <3>2, ConcatProperties DEF Texts
    <3>4. (g[i - 1] \o separator) \o strings[i] \in Texts
      BY <3>2, <3>3, ConcatProperties DEF Texts
    <3> QED BY <3>1, <3>4
  <2> QED BY <1>1, <2>2, <2>3
<1>4. rank \in [D -> 0..Len(strings)] /\ step \in [D -> [[D -> Texts] -> Texts]]
  <2>1. \A i \in D : \A g \in [D -> Texts] : At(g, i) \in Texts
    <3> SUFFICES ASSUME NEW i \in D, NEW g \in [D -> Texts] PROVE At(g, i) \in Texts
      OBVIOUS
    <3>1. i > 1 => i - 1 \in D
      BY <1>1
    <3> QED BY <1>3, <3>1
  <2> HIDE DEF At
  <2> QED BY <2>1
<1>5. ASSUME NEW i \in D, NEW g \in [D -> Texts], NEW h \in [D -> Texts],
             \A m \in D : rank[m] < rank[i] => g[m] = h[m]
      PROVE  step[i][g] = step[i][h]
  <2>1. i > 1 => i - 1 \in D /\ g[i - 1] = h[i - 1]
    BY <1>1, <1>5
  <2>2. At(g, i) = At(h, i)
    BY <1>1, <2>1 DEF JoinedAt
  <2> HIDE DEF At
  <2> QED BY <2>2
<1>6. PICK g \in [D -> Texts] : \A i \in D : g[i] = step[i][g]
  <2>1. IsRecursion(D, Texts, Len(strings), rank, step)
    BY <1>4, <1>5 DEF IsRecursion
  <2>2. <<>> \in Texts
    BY DEF Texts
  <2> HIDE DEF D, step, rank
  <2> QED BY <1>1, <2>1, <2>2, RecursionHasSolution
<1>7. g = [i \in D |-> At(g, i)]
  <2> HIDE DEF At
  <2> QED BY <1>6
<1> HIDE DEF step
<1>8. PICK joined :
        /\ joined = [i \in 1..Len(strings) |-> JoinedAt(joined, strings, separator, i)]
        /\ Joined(strings, separator) = (IF strings = <<>> THEN <<>> ELSE joined[Len(strings)])
  BY <1>7, JoinedUnfolds
<1> DEFINE S == {i \in D : joined[i] \notin Texts}
<1>9. \A i \in S : \E m \in S : rank[m] < rank[i]
  <2> SUFFICES ASSUME NEW i \in S, \A m \in S : ~(rank[m] < rank[i]) PROVE FALSE
    OBVIOUS
  <2>1. i > 1 => i - 1 \in D /\ joined[i - 1] \in Texts
    BY <1>1
  <2>2. At(joined, i) \in Texts
    BY <1>3, <2>1
  <2>3. joined[i] = At(joined, i)
    BY <1>8
  <2> QED BY <2>2, <2>3
<1>10. S = {}
  <2>1. IsBottomless(D, Len(strings), rank, S)
    BY <1>1, <1>4, <1>9 DEF IsBottomless
  <2> HIDE DEF S, rank, D
  <2> QED BY <2>1, RankDescent
<1>11. joined \in [D -> Texts]
  <2>1. \A i \in D : joined[i] \in Texts
    BY <1>10
  <2> HIDE DEF D
  <2> QED BY <1>8, <2>1 DEF D
<1>12. \A i \in D : joined[i] = JoinedAt(joined, strings, separator, i)
  BY <1>8
<1> QED BY <1>8, <1>11, <1>12

LEMMA JoinedIsText ==
    ASSUME NEW strings \in Seq(Texts), NEW separator \in Texts
    PROVE  Joined(strings, separator) \in Texts
<1>1. PICK joined \in [1..Len(strings) -> Texts] :
        Joined(strings, separator) = (IF strings = <<>> THEN <<>> ELSE joined[Len(strings)])
  BY JoinedSolved
<1>2. <<>> \in Texts
  BY DEF Texts
<1>3. strings # <<>> => Len(strings) \in 1..Len(strings)
  <2>1. strings # <<>> => Len(strings) \in Nat \ {0}
    BY EmptySeq
  <2> QED BY <2>1
<1> QED BY <1>1, <1>2, <1>3

-----------------------------------------------------------------------------
(* Parsing.                                                                *)

WorkItems == [string : Texts, father : Nat]

LEMMA WorkFacts ==
    ASSUME TypeInv
    PROVE  /\ Len(nodes) \in Nat /\ Len(work) \in Nat
           /\ work \in Seq(WorkItems)
           /\ work # <<>> =>
                /\ Len(work) >= 1
                /\ Head(work) = work[1] /\ work[1] \in WorkItems
                /\ Tail(work) \in Seq(WorkItems)
                /\ Len(Tail(work)) = Len(work) - 1
                /\ \A k \in 1..(Len(work) - 1) : Tail(work)[k] = work[k + 1]
<1>1. work \in Seq(WorkItems) /\ Listed(nodes)
  BY DEF TypeInv, WorkItems
<1>2. Len(nodes) \in Nat /\ Len(work) \in Nat
  BY <1>1, ListedIsFunction, LenProperties
<1> HIDE DEF WorkItems
<1>3. ASSUME work # <<>>
      PROVE  /\ Len(work) >= 1
             /\ Head(work) = work[1] /\ work[1] \in WorkItems
             /\ Tail(work) \in Seq(WorkItems)
             /\ Len(Tail(work)) = Len(work) - 1
             /\ \A k \in 1..(Len(work) - 1) : Tail(work)[k] = work[k + 1]
  <2>1. Len(work) \in Nat \ {0}
    BY <1>1, <1>3, EmptySeq
  <2>2. Head(work) = work[1]
    BY <1>1
  <2>3. work[1] \in WorkItems
    BY <1>1, <2>1, ElementOfSeq
  <2> QED BY <1>1, <1>3, <2>1, <2>2, <2>3, HeadTailProperties
<1> QED BY <1>1, <1>2, <1>3

\* An executable takes the place its string had.
LEMMA ExecutableCreated ==
    ASSUME TypeInv, PreorderInv, PipeInv, work # <<>>, NEW node,
           node.type = "Executable", node.father = Head(work).father,
           nodes' = Append(nodes, node), work' = Tail(work)
    PROVE  /\ Listed(nodes') /\ work' \in Seq(WorkItems)
           /\ \A n \in Created' : nodes'[n].type \in NodeTypes
           /\ PreorderInv' /\ PipeInv' /\ (Places # {})'
<1> DEFINE L == Len(nodes)
           W == Len(work)
<1>1. /\ L \in Nat /\ W \in Nat /\ W >= 1
      /\ Head(work) = work[1]
      /\ work' \in Seq(WorkItems) /\ Len(work') = W - 1
      /\ \A k \in 1..(W - 1) : work'[k] = work[k + 1]
  BY WorkFacts
<1>2. /\ Listed(nodes') /\ Len(nodes') = L + 1
      /\ \A n \in 1..L : nodes'[n] = nodes[n]
      /\ nodes'[L + 1] = node
  <2>1. Listed(nodes)
    BY DEF TypeInv
  <2> QED BY <2>1, ListedAppend
<1>3. Places' = Places /\ 1 \in Places
  BY <1>1, <1>2 DEF Places
<1>4. \A p \in Places : FatherAt(p)' = FatherAt(p)
  <2> SUFFICES ASSUME NEW p \in Places PROVE FatherAt(p)' = FatherAt(p)
    OBVIOUS
  <2>1. CASE p <= L
    BY <1>1, <1>2, <2>1 DEF FatherAt, Places
  <2>2. CASE p = L + 1
    BY <1>1, <1>2, <2>2 DEF FatherAt
  <2>3. CASE p > L + 1
    <3>1. p - (L + 1) \in 1..(W - 1) /\ (p - (L + 1)) + 1 = p - L
      BY <1>1, <2>3 DEF Places
    <3>2. p \in Nat /\ ~(p <= L + 1) /\ ~(p <= L)
      BY <1>1, <2>3 DEF Places
    <3>3. FatherAt(p)' = work'[p - (L + 1)].father
      BY <1>2, <3>2 DEF FatherAt
    <3>4. FatherAt(p) = work[p - L].father
      BY <3>2 DEF FatherAt
    <3> QED BY <1>1, <3>1, <3>3, <3>4
  <2> QED BY <1>1, <2>1, <2>2, <2>3 DEF Places
<1>5. \A n \in Created' : nodes'[n].type \in NodeTypes
  BY SMTT(60), <1>1, <1>2 DEF TypeInv, Created, NodeTypes
<1>6. PreorderInv'
  <2> SUFFICES ASSUME NEW p \in Places
               PROVE  /\ FatherAt(p) \in Nat /\ FatherAt(p) < p
                      /\ FatherAt(p) <= Len(nodes)'
                      /\ FatherAt(p) = NoNode <=> p = 1
                      /\ p # 1 => nodes'[FatherAt(p)].type # "Executable"
                      /\ \A q \in (FatherAt(p) + 1)..(p - 1) : FatherAt(q)' >= FatherAt(p)
    BY <1>3, <1>4 DEF PreorderInv
  <2>1. /\ FatherAt(p) \in Nat /\ FatherAt(p) < p /\ FatherAt(p) <= L
        /\ FatherAt(p) = NoNode <=> p = 1
        /\ p # 1 => nodes[FatherAt(p)].type # "Executable"
        /\ \A q \in (FatherAt(p) + 1)..(p - 1) : FatherAt(q) >= FatherAt(p)
    BY DEF PreorderInv
  <2>2. p # 1 => FatherAt(p) \in 1..L
    BY <1>1, <2>1 DEF NoNode
  <2>3. \A q \in (FatherAt(p) + 1)..(p - 1) : q \in Places
    BY <1>1, <2>1 DEF Places
  <2> QED BY <1>1, <1>2, <1>4, <2>1, <2>2, <2>3
<1>7. PipeInv'
  <2> SUFFICES ASSUME NEW n \in Created', nodes'[n].type = "Pipe"
               PROVE  \E p, q \in Places : p # q /\ FatherAt(p)' = n /\ FatherAt(q)' = n
    BY <1>3 DEF PipeInv
  <2>1. n \in 1..L
    BY <1>1, <1>2 DEF Created
  <2>2. n \in Created /\ nodes[n].type = "Pipe"
    BY <1>2, <2>1 DEF Created
  <2> QED BY <1>4, <2>2 DEF PipeInv
<1> QED BY <1>1, <1>2, <1>3, <1>5, <1>6, <1>7

\* An operator takes the place its string had, and makes room for its operands.
LEMMA OperatorCreated ==
    ASSUME TypeInv, PreorderInv, PipeInv, work # <<>>,
           NEW type \in NodeTypes \ {"Executable"}, NEW s,
           NEW pieces \in Seq(Texts), Len(pieces) >= 2,
           CreateOperands(type, Head(work).father, s, pieces)
    PROVE  /\ Listed(nodes') /\ work' \in Seq(WorkItems)
           /\ \A n \in Created' : nodes'[n].type \in NodeTypes
           /\ PreorderInv' /\ PipeInv' /\ (Places # {})'
<1> DEFINE L == Len(nodes)
           W == Len(work)
           P == Len(pieces)
           node == NewNode(type, Head(work).father, s)
           operands == [k \in 1..P |-> [string |-> pieces[k], father |-> L + 1]]
<1>1. /\ L \in Nat /\ W \in Nat /\ W >= 1
      /\ Head(work) = work[1]
      /\ Tail(work) \in Seq(WorkItems) /\ Len(Tail(work)) = W - 1
      /\ \A k \in 1..(W - 1) : Tail(work)[k] = work[k + 1]
  BY WorkFacts
<1>2. /\ Listed(nodes') /\ Len(nodes') = L + 1
      /\ \A n \in 1..L : nodes'[n] = nodes[n]
      /\ nodes'[L + 1] = node
  <2>1. Listed(nodes)
    BY DEF TypeInv
  <2>2. nodes' = Append(nodes, node)
    BY DEF CreateOperands
  <2> HIDE DEF node
  <2> QED BY <2>1, <2>2, ListedAppend
<1>3. node.type = type /\ node.father = work[1].father
  BY <1>1 DEF NewNode
<1>4. P \in Nat /\ P >= 2
  BY LenProperties
<1>5. operands \in Seq(WorkItems) /\ Len(operands) = P
  <2>1. \A k \in 1..P : pieces[k] \in Texts
    BY ElementOfSeq
  <2>2. operands \in [1..P -> WorkItems]
    BY <1>1, <2>1 DEF WorkItems
  <2> HIDE DEF operands
  <2> QED BY <1>4, <2>2
<1>6. work' = operands \o Tail(work)
  BY DEF CreateOperands
<1> HIDE DEF node
<1>7. /\ work' \in Seq(WorkItems) /\ Len(work') = P + (W - 1)
      /\ \A k \in 1..P : work'[k].father = L + 1
      /\ \A k \in (P + 1)..(P + W - 1) : work'[k] = work[k - P + 1]
  <2>1. \A k \in 1..P : operands[k].father = L + 1
    OBVIOUS
  <2> HIDE DEF operands
  <2>2. /\ work' \in Seq(WorkItems) /\ Len(work') = P + (W - 1)
        /\ \A k \in 1..(P + (W - 1)) :
             work'[k] = IF k <= P THEN operands[k] ELSE Tail(work)[k - P]
    <3> DEFINE rest == Tail(work)
    <3>1. rest \in Seq(WorkItems) /\ operands \in Seq(WorkItems)
      BY <1>1, <1>5
    <3> HIDE DEF rest
    <3>2. /\ operands \o rest \in Seq(WorkItems)
          /\ Len(operands \o rest) = Len(operands) + Len(rest)
          /\ \A k \in 1..(Len(operands) + Len(rest)) :
               (operands \o rest)[k] = IF k <= Len(operands) THEN operands[k]
                                       ELSE rest[k - Len(operands)]
      BY <3>1, ConcatProperties
    <3> QED BY <1>1, <1>5, <1>6, <3>2 DEF rest
  <2>3. ASSUME NEW k \in 1..P PROVE work'[k].father = L + 1
    <3>1. k \in 1..(P + (W - 1)) /\ k <= P
      BY <1>1, <1>4
    <3> QED BY <2>1, <2>2, <3>1
  <2>4. ASSUME NEW k \in (P + 1)..(P + W - 1) PROVE work'[k] = work[k - P + 1]
    <3>1. k \in 1..(P + (W - 1)) /\ ~(k <= P) /\ k - P \in 1..(W - 1)
      BY <1>1, <1>4
    <3> QED BY <1>1, <2>2, <3>1
  <2> QED BY <2>2, <2>3, <2>4
<1> HIDE DEF operands
<1>8. Places' = 1..(L + W + P) /\ Places = 1..(L + W)
  BY <1>1, <1>2, <1>4, <1>7 DEF Places
<1>9. \A p \in 1..(L + 1) : FatherAt(p)' = FatherAt(p)
  <2> SUFFICES ASSUME NEW p \in 1..(L + 1) PROVE FatherAt(p)' = FatherAt(p)
    OBVIOUS
  <2>1. CASE p <= L
    BY <1>1, <1>2, <2>1 DEF FatherAt
  <2>2. CASE p = L + 1
    BY <1>1, <1>2, <1>3, <2>2 DEF FatherAt
  <2> QED BY <1>1, <2>1, <2>2
<1>10. \A p \in (L + 2)..(L + 1 + P) : FatherAt(p)' = L + 1
  <2> SUFFICES ASSUME NEW p \in (L + 2)..(L + 1 + P) PROVE FatherAt(p)' = L + 1
    OBVIOUS
  <2>1. p \in Nat /\ ~(p <= L + 1) /\ p - (L + 1) \in 1..P
    BY <1>1, <1>4
  <2> QED BY <1>2, <1>7, <2>1 DEF FatherAt
<1>11. \A p \in (L + 2 + P)..(L + W + P) : FatherAt(p)' = FatherAt(p - P)
  <2> SUFFICES ASSUME NEW p \in (L + 2 + P)..(L + W + P)
               PROVE  FatherAt(p)' = FatherAt(p - P)
    OBVIOUS
  <2>1. /\ p \in Nat /\ ~(p <= L + 1) /\ ~(p - P <= L)
        /\ p - (L + 1) \in (P + 1)..(P + W - 1)
        /\ (p - (L + 1)) - P + 1 = (p - P) - L
    BY <1>1, <1>4
  <2>2. FatherAt(p)' = work'[p - (L + 1)].father
    BY <1>2, <2>1 DEF FatherAt
  <2>3. FatherAt(p - P) = work[(p - P) - L].father
    BY <2>1 DEF FatherAt
  <2> QED BY <1>7, <2>1, <2>2, <2>3
<1>12. \A n \in Created' : nodes'[n].type \in NodeTypes
  <2> SUFFICES ASSUME NEW n \in 1..(L + 1) PROVE nodes'[n].type \in NodeTypes
    BY <1>2 DEF Created
  <2>1. CASE n = L + 1
    BY <1>2, <1>3, <2>1
  <2>2. CASE n # L + 1
    <3>1. n \in 1..L
      BY <1>1, <2>2
    <3> QED BY <1>2, <3>1 DEF TypeInv, Created
  <2> QED BY <2>1, <2>2
<1>13. \A p \in Places :
         /\ FatherAt(p) \in Nat /\ FatherAt(p) < p /\ FatherAt(p) <= L
         /\ FatherAt(p) = 0 <=> p = 1
         /\ p # 1 => nodes[FatherAt(p)].type # "Executable"
         /\ \A q \in (FatherAt(p) + 1)..(p - 1) : FatherAt(q) >= FatherAt(p)
  BY DEF PreorderInv, NoNode
<1>14. PreorderInv'
  <2> SUFFICES ASSUME NEW p \in 1..(L + W + P)
               PROVE  /\ FatherAt(p)' \in Nat /\ FatherAt(p)' < p
                      /\ FatherAt(p)' <= L + 1
                      /\ FatherAt(p)' = 0 <=> p = 1
                      /\ p # 1 => nodes'[FatherAt(p)'].type # "Executable"
                      /\ \A q \in (FatherAt(p)' + 1)..(p - 1) : FatherAt(q)' >= FatherAt(p)'
    BY <1>2, <1>8 DEF PreorderInv, NoNode
  <2>1. CASE p \in 1..(L + 1)
    <3>1. p \in Places /\ FatherAt(p)' = FatherAt(p)
      BY <1>1, <1>4, <1>8, <1>9, <2>1
    <3>2. p # 1 => FatherAt(p) \in 1..L
      BY <1>1, <1>13, <3>1
    <3>3. \A q \in (FatherAt(p) + 1)..(p - 1) : FatherAt(q)' = FatherAt(q)
      BY <1>1, <1>9, <1>13, <2>1, <3>1
    <3> QED BY <1>1, <1>2, <1>13, <3>1, <3>2, <3>3
  <2>2. CASE p \in (L + 2)..(L + 1 + P)
    <3>1. FatherAt(p)' = L + 1 /\ p # 1
      BY <1>1, <1>10, <2>2
    <3>2. \A q \in (L + 2)..(p - 1) : FatherAt(q)' = L + 1
      BY <1>1, <1>4, <1>10, <2>2
    <3>3. nodes'[L + 1].type # "Executable"
      BY <1>2, <1>3
    <3> QED BY <1>1, <2>2, <3>1, <3>2, <3>3
  <2>3. CASE p \in (L + 2 + P)..(L + W + P)
    <3> DEFINE r == p - P
               f == FatherAt(r)
    <3>1. r \in Places /\ r >= L + 2 /\ r < p /\ FatherAt(p)' = f
      BY <1>1, <1>4, <1>8, <1>11, <2>3
    <3>2. f \in Nat /\ f <= L /\ f # 0 /\ f \in 1..L
      BY <1>1, <1>13, <3>1
    <3>3. nodes'[f].type # "Executable"
      BY <1>1, <1>2, <1>13, <3>1, <3>2
    <3>4. ASSUME NEW q \in (f + 1)..(p - 1) PROVE FatherAt(q)' >= f
      <4>1. CASE q \in 1..(L + 1)
        <5>1. q \in (f + 1)..(r - 1) /\ FatherAt(q)' = FatherAt(q)
          BY <1>1, <1>9, <3>1, <3>2, <4>1
        <5> QED BY <1>13, <3>1, <5>1
      <4>2. CASE q \in (L + 2)..(L + 1 + P)
        BY <1>1, <1>10, <3>2, <4>2
      <4>3. CASE q \in (L + 2 + P)..(L + W + P)
        <5>1. q - P \in (f + 1)..(r - 1) /\ FatherAt(q)' = FatherAt(q - P)
          BY <1>1, <1>4, <1>11, <3>2, <4>3
        <5> QED BY <1>13, <3>1, <5>1
      <4> QED BY <1>1, <1>4, <3>2, <4>1, <4>2, <4>3
    <3> QED BY <1>1, <1>4, <2>3, <3>1, <3>2, <3>3, <3>4
  <2> QED BY <1>1, <1>4, <2>1, <2>2, <2>3
<1>15. PipeInv'
  <2> SUFFICES ASSUME NEW n \in Created', nodes'[n].type = "Pipe"
               PROVE  \E p, q \in 1..(L + W + P) :
                        p # q /\ FatherAt(p)' = n /\ FatherAt(q)' = n
    BY <1>8 DEF PipeInv
  <2>1. CASE n = L + 1
    <3>0. L + 2 \in Nat /\ L + 3 \in Nat
      BY <1>1
    <3>1. PICK p \in Nat, q \in Nat : p = L + 2 /\ q = L + 3
      BY <3>0, Zenon
    <3>2. p \in 1..(L + W + P) /\ q \in 1..(L + W + P) /\ p # q
      BY <1>1, <1>4, <3>1
    <3>3. FatherAt(p)' = n /\ FatherAt(q)' = n
      BY <1>1, <1>4, <1>10, <2>1, <3>1
    <3> QED BY <3>2, <3>3
  <2>2. CASE n # L + 1
    <3>1. n \in 1..L
      BY <1>1, <1>2, <2>2 DEF Created
    <3>2. n \in Created /\ nodes[n].type = "Pipe"
      BY <1>2, <3>1 DEF Created
    <3>3. PICK p \in 1..(L + W), q \in 1..(L + W) :
            p # q /\ FatherAt(p) = n /\ FatherAt(q) = n
      BY <1>8, <3>2 DEF PipeInv
    <3> DEFINE Moved(m) == IF m <= L + 1 THEN m ELSE m + P
    <3>4. ASSUME NEW m \in 1..(L + W)
          PROVE  \E a \in 1..(L + W + P) : a = Moved(m) /\ FatherAt(a)' = FatherAt(m)
      <4>1. CASE m <= L + 1
        <5>1. m \in 1..(L + 1) /\ m \in 1..(L + W + P) /\ Moved(m) = m
          BY <1>1, <1>4, <4>1
        <5> QED BY <1>9, <5>1
      <4>2. CASE m > L + 1
        <5>1. PICK a \in Nat : a = m + P
          BY <1>1, <1>4
        <5>2. a \in (L + 2 + P)..(L + W + P) /\ a - P = m /\ Moved(m) = a
          BY <1>1, <1>4, <4>2, <5>1
        <5>3. FatherAt(a)' = FatherAt(a - P)
          BY <1>11, <5>2
        <5> QED BY <1>1, <1>4, <5>2, <5>3
      <4> QED BY <1>1, <4>1, <4>2
    <3>5. Moved(p) # Moved(q)
      BY <1>1, <1>4, <3>3
    <3> HIDE DEF Moved
    <3> QED BY <3>3, <3>4, <3>5
  <2> QED BY <2>1, <2>2
<1>16. (Places # {})'
  <2>1. 1 \in 1..(L + W + P)
    BY <1>1, <1>4
  <2> QED BY <1>8, <2>1
<1> QED BY <1>2, <1>7, <1>12, <1>14, <1>15, <1>16

LEMMA NodeCreated ==
    ASSUME TypeInv, ProgressInv, PreorderInv, PipeInv, CreateNode
    PROVE  \/ /\ stage' = stage
              /\ Listed(nodes') /\ work' \in Seq(WorkItems)
              /\ \A n \in Created' : nodes'[n].type \in NodeTypes
              /\ PreorderInv' /\ PipeInv' /\ (Places # {})'
           \/ stage' = "failed" /\ UNCHANGED <<work, nodes>>
<1> DEFINE s == Head(work).string
           father == Head(work).father
           bare == BracketsRemoved(CommandPart(s))
           operators == Splitting(bare)
           type == Priority[First(operators)]
           args == Arguments(bare)
<1>1. /\ stage = "parsing" /\ work # <<>>
      /\ \/ /\ operators # {}
            /\ CreateOperands(type, father, s, Pieces(bare, type))
         \/ CreateExecutable(father, s, args)
         \/ CannotParse(args)
  BY DEF CreateNode
<1>2. s \in Texts
  BY <1>1, WorkFacts DEF WorkItems
<1> HIDE DEF s
<1>3. bare \in Texts
  BY <1>2, CommandPartIsText, BracketsRemovedIsText
<1>4. CASE operators # {} /\ CreateOperands(type, father, s, Pieces(bare, type))
  <2>1. operators \in SUBSET (1..4) /\ \A k \in operators : Counted(bare, Priority[k]) > 0
    BY DEF Splitting, Priority
  <2> HIDE DEF bare, operators
  <2>2. First(operators) \in 1..4 /\ Counted(bare, type) > 0
    <3>1. operators \in SUBSET Nat /\ operators # {}
      BY <1>4, <2>1
    <3>2. First(operators) \in operators
      BY <3>1, FirstIsLeast
    <3> QED BY <2>1, <3>2
  <2>3. type \in NodeTypes \ {"Executable"}
    BY <2>2 DEF Priority, NodeTypes, SequenceTypes
  <2> DEFINE pieces == Pieces(bare, type)
  <2> HIDE DEF type
  <2>4. pieces \in Seq(Texts) /\ Len(pieces) >= 2
    BY <1>3, <2>2, PiecesAreTexts, CountedFacts
  <2>5. CreateOperands(type, Head(work).father, s, pieces)
    BY <1>4
  <2>6. stage' = stage
    BY <2>5 DEF CreateOperands
  <2> HIDE DEF pieces
  <2> QED BY <1>1, <2>3, <2>4, <2>5, <2>6, OperatorCreated
<1>5. CASE CreateExecutable(father, s, args)
  <2> DEFINE node == [NewNode("Executable", father, s) EXCEPT
                        !.argv = Argv(args), !.terminated = IsTerminated(args)]
  <2>1. nodes' = Append(nodes, node) /\ work' = Tail(work) /\ stage' = stage
    BY <1>5 DEF CreateExecutable
  <2>2. node.type = "Executable" /\ node.father = Head(work).father
    BY DEF NewNode
  <2> HIDE DEF node
  <2> QED BY <1>1, <2>1, <2>2, ExecutableCreated
<1>6. CASE CannotParse(args)
  BY <1>6 DEF CannotParse
<1> QED BY <1>1, <1>4, <1>5, <1>6

-----------------------------------------------------------------------------
(* The builtins.                                                           *)

LEMMA CdsBeforeFacts ==
    ASSUME Len(nodes) \in Nat, NEW n \in Created, NEW c \in 1..(Len(nodes) + 1)
    PROVE  /\ CdsBefore(n, c) \in SUBSET Nat /\ IsFiniteSet(CdsBefore(n, c))
           /\ \A m \in CdsBefore(n, c) : m < c
           /\ c \in Created =>
                CdsBefore(n, c + 1) =
                  IF IsHandedOn(c) /\ c < n /\ nodes[c].father = nodes[n].father
                    THEN CdsBefore(n, c) \cup {c} ELSE CdsBefore(n, c)
<1>1. IsFiniteSet(1..Len(nodes))
  BY FS_Interval
<1>2. CdsBefore(n, c) \in SUBSET (1..Len(nodes))
  BY DEF CdsBefore, Created
<1>3. IsFiniteSet(CdsBefore(n, c))
  BY <1>1, <1>2, FS_Subset
<1>4. ASSUME c \in Created
      PROVE  CdsBefore(n, c + 1) =
               IF IsHandedOn(c) /\ c < n /\ nodes[c].father = nodes[n].father
                 THEN CdsBefore(n, c) \cup {c} ELSE CdsBefore(n, c)
  <2>1. \A m \in Created : m < c + 1 <=> m < c \/ m = c
    BY DEF Created
  <2>2. ~(c < c)
    OBVIOUS
  <2> QED BY <1>4, <2>1, <2>2 DEF CdsBefore
<1> QED BY <1>2, <1>3, <1>4 DEF CdsBefore

\* One more directory comes at the end.
LEMMA DirectoriesGrow ==
    ASSUME NEW S \in SUBSET Created, Len(nodes) \in Nat, IsFiniteSet(S),
           NEW c \in Nat, \A m \in S : m < c
    PROVE  DirectoriesOf(S \cup {c}) = Append(DirectoriesOf(S), Directory(c))
<1> DEFINE k == Cardinality(S)
           a == DirectoriesOf(S)
           b == DirectoriesOf(S \cup {c})
           d == Append(a, Directory(c))
<1>1. S \in SUBSET Nat /\ k \in Nat
  BY FS_CardinalityType DEF Created
<1>2. /\ Cardinality(S \cup {c}) = k + 1
      /\ \A i \in 1..k : Ascending(S \cup {c})[i] = Ascending(S)[i]
      /\ Ascending(S \cup {c})[k + 1] = c
  BY <1>1, AscendingWithGreater
<1>3. Listed(a) /\ Len(a) = k /\ \A i \in 1..k : a[i] = Directory(Ascending(S)[i])
  <2>1. a = [i \in 1..k |-> Directory(Ascending(S)[i])]
    BY DEF DirectoriesOf
  <2> HIDE DEF a, k
  <2>2. DOMAIN a = 1..k /\ a = [i \in 1..k |-> a[i]]
    BY <2>1
  <2> QED BY <1>1, <2>1, <2>2, FunctionIsListed
<1>4. /\ DOMAIN b = 1..(k + 1)
      /\ \A i \in 1..(k + 1) : b[i] = Directory(Ascending(S \cup {c})[i])
      /\ b = [i \in 1..(k + 1) |-> b[i]]
  BY <1>2 DEF DirectoriesOf
<1> HIDE DEF a, b, k
<1>5. Listed(d) /\ Len(d) = k + 1 /\ \A i \in 1..k : d[i] = a[i] /\ d[k + 1] = Directory(c)
  BY <1>1, <1>3, ListedAppend
<1>6. d = [i \in 1..(k + 1) |-> d[i]]
  <2> HIDE DEF d
  <2> QED BY <1>5, ListedIsFunction
<1>7. d[k + 1] = Directory(c)
  BY <1>1, <1>3, ListedAppend
<1> HIDE DEF d
<1>8. \A i \in 1..(k + 1) : b[i] = d[i]
  <2> SUFFICES ASSUME NEW i \in 1..(k + 1) PROVE b[i] = d[i]
    OBVIOUS
  <2>1. CASE i = k + 1
    BY <1>2, <1>4, <1>7, <2>1
  <2>2. CASE i # k + 1
    <3>1. i \in 1..k
      BY <1>1, <2>2
    <3> QED BY <1>2, <1>3, <1>4, <1>5, <3>1
  <2> QED BY <2>1, <2>2
<1>9. b = d
  BY <1>4, <1>6, <1>8
<1> QED BY <1>9 DEF b, d, a

\* Where the directory of the cd at the cursor goes, the list of n grows by it.
LEMMA CdApplied ==
    ASSUME TypeInv, CdInv, ApplyCd
    PROVE  CdInv'
<1> SUFFICES ASSUME stage' = "builtins" PROVE CdInv'
  BY DEF CdInv
<1> DEFINE c == cursor
           dir == Directory(c)
           Brothers == {m \in NextBrothers(c) : nodes[m].type = "Executable"}
<1>1. /\ Len(nodes) \in Nat /\ c \in Created /\ c \in 1..Len(nodes)
      /\ c \in 1..(Len(nodes) + 1) /\ c' = c + 1
      /\ c + 1 \in 1..(Len(nodes) + 1)
      /\ nodes' = nodes /\ Created' = Created
  <2>1. Len(nodes) \in Nat
    BY WorkFacts
  <2>2. c \in 1..(Len(nodes) + 1) /\ c <= Len(nodes) /\ c' = c + 1 /\ nodes' = nodes
    BY DEF ApplyCd, CdInv
  <2> QED BY <2>1, <2>2 DEF Created
<1>2. /\ removed = {n \in Created : IsHandedOn(n) /\ n < c}
      /\ cds \in [Created -> Seq(Directories)]
      /\ \A n \in Created \ removed :
           nodes[n].type = "Executable" =>
             IF IsCd(n) /\ ~InSequence(n)
               THEN cds[n] = IF n < c THEN <<Directory(n)>> ELSE <<>>
               ELSE cds[n] = DirectoriesOf(CdsBefore(n, c))
  BY DEF ApplyCd, CdInv
<1>3. /\ \A n : /\ IsCd(n)' = IsCd(n) /\ InSequence(n)' = InSequence(n)
               /\ IsHandedOn(n)' = IsHandedOn(n) /\ Directory(n)' = Directory(n)
      /\ Directories' = Directories
      /\ \A n : DirectoriesOf(CdsBefore(n, cursor))' = DirectoriesOf(CdsBefore(n, c + 1))
  BY <1>1 DEF IsCd, InSequence, IsHandedOn, Directory, Directories, CdsBefore,
              DirectoriesOf
<1>4. ASSUME NEW n \in Created
      PROVE  /\ CdsBefore(n, c) \in SUBSET Created /\ IsFiniteSet(CdsBefore(n, c))
             /\ \A m \in CdsBefore(n, c) : m < c
             /\ CdsBefore(n, c + 1) =
                  IF IsHandedOn(c) /\ c < n /\ nodes[c].father = nodes[n].father
                    THEN CdsBefore(n, c) \cup {c} ELSE CdsBefore(n, c)
  <2>1. CdsBefore(n, c) \in SUBSET Created
    BY DEF CdsBefore
  <2> HIDE DEF c
  <2> QED BY <1>1, <2>1, CdsBeforeFacts
<1>5. removed' = {n \in Created : IsHandedOn(n) /\ n < c + 1}
  <2>1. \A n \in Created : n < c + 1 <=> n < c \/ n = c
    BY <1>1 DEF Created
  <2>2. removed' = IF IsHandedOn(c) THEN removed \cup {c} ELSE removed
    BY DEF ApplyCd, IsHandedOn
  <2>3. CASE IsHandedOn(c)
    BY <1>1, <1>2, <2>1, <2>2, <2>3
  <2>4. CASE ~IsHandedOn(c)
    BY <1>1, <1>2, <2>1, <2>2, <2>4
  <2> QED BY <2>3, <2>4
<1>6. IsCd(c) => dir \in Directories
  BY <1>1 DEF Directories
<1>7. CASE ~IsCd(c)
  <2>1. cds' = cds
    BY <1>7 DEF ApplyCd
  <2>2. ~IsHandedOn(c)
    BY <1>7 DEF IsHandedOn
  <2>3. ASSUME NEW n \in Created \ removed', nodes[n].type = "Executable"
        PROVE  IF IsCd(n) /\ ~InSequence(n)
                 THEN cds'[n] = IF n < c + 1 THEN <<Directory(n)>> ELSE <<>>
                 ELSE cds'[n] = DirectoriesOf(CdsBefore(n, c + 1))
    <3>1. n \notin removed /\ n \in Nat
      BY <1>1, <1>2, <1>5 DEF Created
    <3>2. CASE IsCd(n) /\ ~InSequence(n)
      <4>1. n # c
        BY <1>7, <3>2
      <4> QED BY <1>1, <1>2, <2>1, <2>3, <3>1, <3>2, <4>1
    <3>3. CASE ~(IsCd(n) /\ ~InSequence(n))
      BY <1>2, <1>4, <2>1, <2>2, <2>3, <3>1, <3>3
    <3> QED BY <3>2, <3>3
  <2> QED BY <1>1, <1>2, <1>3, <1>5, <2>1, <2>3 DEF CdInv
<1>8. CASE IsCd(c) /\ ~InSequence(c)
  <2>1. cds' = [n \in Created |-> IF n \in {c} THEN Append(cds[n], dir) ELSE cds[n]]
    BY <1>8 DEF ApplyCd, AddCd
  <2>2. ~IsHandedOn(c)
    BY <1>8 DEF IsHandedOn
  <2>3. cds' \in [Created -> Seq(Directories)]
    <3>1. \A n \in Created : Append(cds[n], dir) \in Seq(Directories)
      BY <1>2, <1>6, <1>8, AppendProperties
    <3> QED BY <1>2, <2>1, <3>1
  <2>4. ASSUME NEW n \in Created \ removed', nodes[n].type = "Executable"
        PROVE  IF IsCd(n) /\ ~InSequence(n)
                 THEN cds'[n] = IF n < c + 1 THEN <<Directory(n)>> ELSE <<>>
                 ELSE cds'[n] = DirectoriesOf(CdsBefore(n, c + 1))
    <3>1. n \notin removed /\ n \in Nat
      BY <1>1, <1>2, <1>5 DEF Created
    <3>2. CASE n = c
      <4>1. ~(c < c) /\ c < c + 1
        BY <1>1
      <4>2. cds[c] = <<>>
        BY <1>2, <1>8, <2>4, <3>1, <3>2, <4>1
      <4>3. cds'[c] = <<dir>>
        <5>1. cds'[c] = Append(<<>>, dir)
          BY <1>1, <2>1, <4>2
        <5> HIDE DEF dir
        <5>2. Append(<<>>, dir) = <<dir>>
          OBVIOUS
        <5> QED BY <5>1, <5>2
      <4> QED BY <1>8, <3>2, <4>1, <4>3
    <3>3. CASE n # c
      <4>1. cds'[n] = cds[n]
        BY <2>1, <3>3
      <4>2. CASE IsCd(n) /\ ~InSequence(n)
        BY <1>1, <1>2, <2>4, <3>1, <3>3, <4>1, <4>2
      <4>3. CASE ~(IsCd(n) /\ ~InSequence(n))
        BY <1>2, <1>4, <2>2, <2>4, <3>1, <4>1, <4>3
      <4> QED BY <4>2, <4>3
    <3> QED BY <3>2, <3>3
  <2> QED BY <1>1, <1>3, <1>5, <2>3, <2>4 DEF CdInv
<1>9. CASE IsCd(c) /\ InSequence(c)
  <2>1. cds' = [n \in Created |-> IF n \in Brothers THEN Append(cds[n], dir) ELSE cds[n]]
    BY <1>9 DEF ApplyCd, AddCd
  <2>2. IsHandedOn(c)
    BY <1>9 DEF IsHandedOn
  <2>3. cds' \in [Created -> Seq(Directories)]
    <3>1. \A n \in Created : Append(cds[n], dir) \in Seq(Directories)
      BY <1>2, <1>6, <1>9, AppendProperties
    <3> HIDE DEF dir, Brothers
    <3> QED BY <1>2, <2>1, <3>1
  <2>4. ASSUME NEW n \in Created \ removed', nodes[n].type = "Executable"
        PROVE  IF IsCd(n) /\ ~InSequence(n)
                 THEN cds'[n] = IF n < c + 1 THEN <<Directory(n)>> ELSE <<>>
                 ELSE cds'[n] = DirectoriesOf(CdsBefore(n, c + 1))
    <3>1. n \notin removed /\ n \in Nat /\ n # c
      BY <1>1, <1>2, <1>5, <2>2 DEF Created
    <3>2. n \in Brothers <=> c < n /\ nodes[c].father = nodes[n].father
      BY <1>1, <2>4, <3>1 DEF NextBrothers
    <3>3. CASE IsCd(n) /\ ~InSequence(n)
      <4>1. n \notin Brothers
        BY <1>9, <3>2, <3>3 DEF InSequence
      <4>2. cds'[n] = cds[n]
        BY <2>1, <4>1
      <4> QED BY <1>1, <1>2, <2>4, <3>1, <3>3, <4>2
    <3>4. CASE ~(IsCd(n) /\ ~InSequence(n))
      <4>1. cds[n] = DirectoriesOf(CdsBefore(n, c))
        BY <1>2, <2>4, <3>1, <3>4
      <4>2. CASE n \in Brothers
        <5>1. cds'[n] = Append(cds[n], dir)
          BY <2>1, <4>2
        <5>2. CdsBefore(n, c + 1) = CdsBefore(n, c) \cup {c}
          BY <1>4, <2>2, <3>2, <4>2
        <5>3. DirectoriesOf(CdsBefore(n, c) \cup {c}) =
                Append(DirectoriesOf(CdsBefore(n, c)), dir)
          <6>1. c \in Nat
            BY <1>1
          <6> DEFINE S == CdsBefore(n, c)
          <6>2. S \in SUBSET Created /\ IsFiniteSet(S) /\ \A m \in S : m < c
            BY <1>4
          <6> HIDE DEF S
          <6> QED BY <1>1, <6>1, <6>2, DirectoriesGrow DEF S
        <5> QED BY <3>4, <4>1, <5>1, <5>2, <5>3
      <4>3. CASE n \notin Brothers
        <5>1. cds'[n] = cds[n]
          BY <2>1, <4>3
        <5>2. CdsBefore(n, c + 1) = CdsBefore(n, c)
          BY <1>4, <3>2, <4>3
        <5> QED BY <3>4, <4>1, <5>1, <5>2
      <4> QED BY <4>2, <4>3
    <3> QED BY <3>3, <3>4
  <2> QED BY <1>1, <1>3, <1>5, <2>3, <2>4 DEF CdInv
<1> QED BY <1>7, <1>8, <1>9

-----------------------------------------------------------------------------
(* The tree that is built.                                                 *)

\* What is left of the nodes, and their new numbers.
LEMMA RenumberedFacts ==
    ASSUME Len(nodes) \in Nat
    PROVE  LET K == Created \ removed
           IN /\ Len(Kept) \in Nat /\ Len(Kept) = Cardinality(K)
              /\ Kept \in [1..Len(Kept) -> K]
              /\ \A i, j \in 1..Len(Kept) : i < j => Kept[i] < Kept[j]
              /\ \A n \in K : Renumbered(n) \in 1..Len(Kept) /\ Kept[Renumbered(n)] = n
              /\ \A m, n \in K : m < n => Renumbered(m) < Renumbered(n)
<1> DEFINE K == Created \ removed
           c == Cardinality(K)
<1>1. IsFiniteSet(Created) /\ Created \in SUBSET Nat
  BY FS_Interval DEF Created
<1>2. K \in SUBSET Nat /\ IsFiniteSet(K)
  BY <1>1, FS_Subset
<1>3. Kept = Ascending(K)
  BY DEF Kept
<1> HIDE DEF K
<1>4. c \in Nat /\ Kept \in [1..c -> K]
  BY <1>2, <1>3, AscendingFacts
<1>5. Len(Kept) = c
  BY <1>4
<1>6. ASSUME NEW i \in 1..c, NEW j \in 1..c, i < j PROVE Kept[i] < Kept[j]
  BY <1>2, <1>3, <1>6, AscendingOrder
<1>7. ASSUME NEW n \in K PROVE Renumbered(n) \in 1..c /\ Kept[Renumbered(n)] = n
  <2> DEFINE B == {k \in K : k < n}
  <2>1. B \in SUBSET K /\ n \notin B /\ n \in Nat
    BY <1>2
  <2>2. {m \in K : m <= n} = B \cup {n}
    <3>1. \A m \in K : m <= n <=> (m < n \/ m = n)
      BY <1>2, <2>1
    <3> QED BY <3>1, <1>7
  <2>3. Renumbered(n) = Cardinality(B \cup {n})
    BY <2>2 DEF Renumbered, K
  <2>4. Cardinality(B) + 1 \in 1..c /\ Kept[Cardinality(B) + 1] = n
    BY <1>2, <1>3, AscendingPlace
  <2> HIDE DEF B
  <2>5. IsFiniteSet(B)
    BY <1>2, <2>1, FS_Subset
  <2>6. Cardinality(B \cup {n}) = Cardinality(B) + 1
    BY <2>1, <2>5, FS_AddElement
  <2> QED BY <2>3, <2>4, <2>6
<1>8. ASSUME NEW m \in K, NEW n \in K, m < n PROVE Renumbered(m) < Renumbered(n)
  <2> DEFINE i == Renumbered(m)
             j == Renumbered(n)
  <2>1. i \in 1..c /\ j \in 1..c /\ Kept[i] = m /\ Kept[j] = n
    BY <1>7
  <2> HIDE DEF i, j
  <2>2. m \in Nat /\ n \in Nat
    BY <1>2
  <2>3. ~(j < i) /\ i # j
    BY <1>6, <1>8, <2>1, <2>2
  <2>4. i \in Nat /\ j \in Nat
    BY <1>4, <2>1
  <2>5. i < j
    BY <2>3, <2>4
  <2> QED BY <2>5 DEF i, j
<1> QED BY <1>4, <1>5, <1>6, <1>7, <1>8 DEF K

\* Taking away the cds that were handed on leaves a tree.
LEMMA BuiltIsTree ==
    ASSUME TypeInv, PreorderInv, PipeInv, nodes # <<>>, work = <<>>,
           removed = {n \in Created : IsHandedOn(n)}
    PROVE  IsTree(BuiltTree)
<1> DEFINE L == Len(nodes)
           K == Created \ removed
           size == Len(Kept)
           R(n) == Renumbered(n)
           t == BuiltTree
           father(n) == nodes[n].father
<1>1. L \in Nat /\ L >= 1
  <2>1. Listed(nodes)
    BY DEF TypeInv
  <2> QED BY <2>1, ListedTail
<1>2. Places = Created /\ \A p \in Created : FatherAt(p) = father(p)
  <2>1. Len(work) = 0
    OBVIOUS
  <2> QED BY <1>1, <2>1 DEF Places, Created, FatherAt
<1>3. ASSUME NEW n \in Created
      PROVE  /\ n \in Nat /\ father(n) \in Nat /\ father(n) < n
             /\ father(n) = 0 <=> n = 1
             /\ n # 1 => father(n) \in Created /\ nodes[father(n)].type # "Executable"
             /\ \A q \in Created : father(n) < q /\ q < n => father(q) >= father(n)
  <2>1. /\ father(n) \in Nat /\ father(n) < n /\ father(n) <= L
        /\ father(n) = 0 <=> n = 1
        /\ n # 1 => nodes[father(n)].type # "Executable"
        /\ \A q \in (father(n) + 1)..(n - 1) : FatherAt(q) >= father(n)
    BY <1>2 DEF PreorderInv, NoNode
  <2>2. n \in Nat /\ n # 1 => father(n) \in Created
    BY <1>1, <2>1 DEF Created
  <2>3. \A q \in Created : father(n) < q /\ q < n => father(q) >= father(n)
    <3> SUFFICES ASSUME NEW q \in Created, father(n) < q, q < n
                 PROVE  father(q) >= father(n)
      OBVIOUS
    <3>1. q \in (father(n) + 1)..(n - 1)
      BY <1>1, <2>1 DEF Created
    <3> QED BY <1>2, <2>1, <3>1
  <2> QED BY <1>1, <2>1, <2>2, <2>3 DEF Created
<1>4. ASSUME NEW n \in removed
      PROVE  /\ n \in Created /\ nodes[n].type = "Executable"
             /\ father(n) # 0 /\ nodes[father(n)].type # "Pipe"
  BY DEF IsHandedOn, IsCd, InSequence, NoNode
<1>5. 1 \in K
  BY <1>1, <1>3, <1>4 DEF Created
<1>6. ASSUME NEW n \in K PROVE n # 1 => father(n) \in K
  BY <1>3, <1>4
<1>7. /\ size \in Nat /\ Kept \in [1..size -> K]
      /\ \A i, j \in 1..size : i < j => Kept[i] < Kept[j]
      /\ \A n \in K : R(n) \in 1..size /\ Kept[R(n)] = n
      /\ \A m, n \in K : m < n => R(m) < R(n)
  BY <1>1, RenumberedFacts
<1>8. /\ t.size = size
      /\ t.type = [i \in 1..size |-> nodes[Kept[i]].type]
      /\ t.father = [i \in 1..size |-> IF father(Kept[i]) = 0 THEN 0 ELSE R(father(Kept[i]))]
  BY DEF BuiltTree, NoNode
<1> HIDE DEF t
<1>9. size >= 1 /\ size \in Nat \ {0} /\ R(1) \in 1..size
  BY <1>5, <1>7
<1>10. Kept[1] = 1
  <2>1. 1 \in 1..size
    BY <1>7, <1>9
  <2>2. Kept[1] \in Created /\ R(1) \in Nat /\ Kept[R(1)] = 1
    BY <1>5, <1>7, <2>1
  <2>3. R(1) > 1 => Kept[1] < 1
    BY <1>7, <1>9, <2>1, <2>2
  <2>4. Kept[1] \in Nat /\ Kept[1] >= 1
    BY <1>1, <2>2 DEF Created
  <2>5. R(1) = 1
    BY <1>7, <1>9, <2>2, <2>3, <2>4
  <2> QED BY <2>2, <2>5
<1>11. \A i \in 1..size : Kept[i] \in Created /\ Kept[i] \in K /\ (Kept[i] = 1 <=> i = 1)
  <2> SUFFICES ASSUME NEW i \in 1..size PROVE Kept[i] \in K /\ (Kept[i] = 1 <=> i = 1)
    OBVIOUS
  <2>1. Kept[i] \in K /\ Kept[i] \in Nat /\ i \in Nat /\ i >= 1 /\ 1 \in 1..size
    <3>1. Kept[i] \in K
      BY <1>7
    <3>2. Kept[i] \in Nat
      BY <1>3, <3>1
    <3>3. i \in Nat /\ i >= 1 /\ 1 \in 1..size
      BY <1>7, <1>9
    <3> QED BY <3>1, <3>2, <3>3
  <2>2. i > 1 => 1 < Kept[i]
    BY <1>7, <1>10, <2>1
  <2> QED BY <1>10, <2>1, <2>2
<1>12. t.type \in [1..size -> NodeTypes]
  <2>1. \A i \in 1..size : nodes[Kept[i]].type \in NodeTypes
    BY <1>11 DEF TypeInv
  <2> QED BY <1>8, <2>1
<1>13. t.father[1] = 0
  <2>1. 1 \in 1..size /\ father(Kept[1]) = 0
    BY <1>7, <1>9, <1>3, <1>5, <1>10
  <2> QED BY <1>8, <2>1
<1>14. ASSUME NEW i \in 1..size, i # 1
       PROVE  /\ father(Kept[i]) \in K /\ t.father[i] = R(father(Kept[i]))
              /\ t.father[i] \in 1..size /\ t.father[i] < i
              /\ Kept[t.father[i]] = father(Kept[i])
  <2> DEFINE n == Kept[i]
  <2>1. n \in K /\ n # 1 /\ n \in Created
    BY <1>11, <1>14
  <2>2. father(n) \in K /\ father(n) # 0 /\ father(n) < n /\ n \in Nat
    BY <1>3, <1>6, <2>1
  <2>3. t.father[i] = R(father(n))
    BY <1>8, <2>2
  <2> HIDE DEF n, father
  <2>4. R(father(n)) \in 1..size /\ Kept[R(father(n))] = father(n)
    BY <1>7, <2>2
  <2>5. R(father(n)) < R(n)
    BY <1>7, <2>1, <2>2
  <2>6. R(n) = i
    <3>1. R(n) \in 1..size /\ Kept[R(n)] = Kept[i]
      BY <1>7, <2>1 DEF n
    <3>2. R(n) \in Nat /\ i \in Nat /\ Kept[i] \in Nat
      BY <1>7, <1>3, <1>11, <3>1
    <3>3. ~(R(n) < i) /\ ~(i < R(n))
      BY <1>7, <3>1, <3>2
    <3> QED BY <3>2, <3>3
  <2> QED BY <2>2, <2>3, <2>4, <2>5, <2>6 DEF n
<1>15. t.father \in [1..size -> 0..size]
  <2>1. \A i \in 1..size : t.father[i] \in 0..size
    BY <1>7, <1>13, <1>14
  <2> HIDE DEF father
  <2>2. DOMAIN t.father = 1..size /\ t.father = [i \in 1..size |-> t.father[i]]
    BY <1>8
  <2> QED BY <2>1, <2>2
<1>16. ASSUME NEW i \in 2..size
       PROVE  /\ t.father[i] \in 1..(i - 1)
              /\ t.type[t.father[i]] # "Executable"
              /\ \A j \in (t.father[i] + 1)..(i - 1) : t.father[j] >= t.father[i]
  <2> DEFINE f == t.father[i]
  <2>1. i \in 1..size /\ i # 1 /\ i \in Nat
    BY <1>7
  <2>2. /\ f \in 1..size /\ f < i /\ Kept[f] = father(Kept[i]) /\ Kept[f] \in K
        /\ f = R(father(Kept[i]))
    BY <1>14, <2>1
  <2>3. f \in 1..(i - 1)
    BY SMTT(60), <1>7, <2>1, <2>2
  <2>4. t.type[f] # "Executable"
    <3>1. nodes[father(Kept[i])].type # "Executable"
      BY <1>3, <1>11, <2>1
    <3> QED BY ZenonT(60), <1>8, <2>2, <3>1
  <2>5. ASSUME NEW j \in (f + 1)..(i - 1) PROVE t.father[j] >= f
    <3>1. j \in 1..size /\ j # 1 /\ f < j /\ j < i
      BY <1>7, <2>1, <2>2
    <3>2. Kept[f] < Kept[j] /\ Kept[j] < Kept[i]
      BY <1>7, <2>1, <2>2, <3>1
    <3>3. father(Kept[j]) >= Kept[f]
      BY <1>3, <1>11, <2>1, <2>2, <3>1, <3>2
    <3>4. father(Kept[j]) \in K /\ t.father[j] = R(father(Kept[j])) /\ t.father[j] \in 1..size
      BY <1>14, <3>1
    <3>5. father(Kept[j]) \in Nat /\ Kept[f] \in Nat
      BY <1>3, <2>2, <3>4
    <3>6. CASE father(Kept[j]) = Kept[f]
      BY <1>7, <2>2, <3>4, <3>6
    <3>7. CASE Kept[f] < father(Kept[j])
      <4>1. R(Kept[f]) < R(father(Kept[j]))
        BY <1>7, <2>2, <3>4, <3>7
      <4> QED BY <1>7, <2>2, <3>4, <4>1
    <3> QED BY <3>3, <3>5, <3>6, <3>7
  <2> QED BY <2>3, <2>4, <2>5
<1>17. ASSUME NEW i \in 1..size, t.type[i] = "Pipe"
       PROVE  \E k, m \in 1..size : k # m /\ t.father[k] = i /\ t.father[m] = i
  <2> DEFINE n == Kept[i]
  <2>1. n \in Created /\ nodes[n].type = "Pipe" /\ n \in K
    BY <1>8, <1>11, <1>17
  <2>2. PICK p \in Created, q \in Created : p # q /\ father(p) = n /\ father(q) = n
    BY <1>2, <2>1 DEF PipeInv
  <2>3. p \in K /\ q \in K
    BY <1>4, <2>1, <2>2
  <2>4. ASSUME NEW r \in K, father(r) = n
        PROVE  R(r) \in 1..size /\ Kept[R(r)] = r /\ t.father[R(r)] = i
    <3>1. R(r) \in 1..size /\ Kept[R(r)] = r
      BY <1>7
    <3>2. n # 0 /\ R(r) # 1
      BY <1>3, <1>10, <2>1, <2>4, <3>1
    <3>3. t.father[R(r)] \in 1..size /\ Kept[t.father[R(r)]] = Kept[i]
      BY <1>14, <2>4, <3>1, <3>2
    <3>4. t.father[R(r)] \in Nat /\ i \in Nat /\ Kept[i] \in Nat
      BY <1>3, <1>7, <1>11, <3>3
    <3>5. ~(t.father[R(r)] < i) /\ ~(i < t.father[R(r)])
      BY <1>7, <3>3, <3>4
    <3> QED BY <3>1, <3>4, <3>5
  <2>5. R(p) # R(q)
    BY <2>2, <2>3, <2>4
  <2> QED BY <2>2, <2>3, <2>4, <2>5
<1>18. IsTree(t)
  <2>1. \A i \in 2..size :
          /\ t.father[i] \in 1..(i - 1)
          /\ t.type[t.father[i]] # "Executable"
          /\ \A j \in (t.father[i] + 1)..(i - 1) : t.father[j] >= t.father[i]
    BY <1>16
  <2>2. \A i \in 1..size : t.type[i] = "Pipe" =>
          \E k, m \in 1..size : k # m /\ t.father[k] = i /\ t.father[m] = i
    BY <1>17
  <2>3. t.size = size
    BY <1>8
  <2> HIDE DEF size
  <2> QED BY <1>9, <1>12, <1>13, <1>15, <2>1, <2>2, <2>3 DEF IsTree, NoNode
<1> QED BY <1>18 DEF t

-----------------------------------------------------------------------------
(* Wiring.                                                                 *)

InStreams(t) == StreamsOf(t) \ {Std(1)}
OutStreams(t) == StreamsOf(t) \ {Std(0)}

IsIn(t, in) == in = [n \in 1..t.size |-> InArgument(t, in, n)]
IsOut(t, out) == out = [n \in 1..t.size |-> OutArgument(t, out, n)]

LEMMA StreamFacts ==
    ASSUME NEW t, NEW n \in 1..t.size
    PROVE  /\ FileOf(n) \in InStreams(t) /\ FileOf(n) \in OutStreams(t)
           /\ PipeOf(n) \in InStreams(t) /\ PipeOf(n) \in OutStreams(t)
           /\ Std(0) \in InStreams(t) /\ Std(1) \in OutStreams(t)
BY DEF StreamsOf, InStreams, OutStreams, FileOf, PipeOf, Std

\* The arguments of wire_redirects_r() are those of the operator or new streams.
LEMMA InArgumentCases ==
    ASSUME NEW t, IsTree(t), NEW n \in 1..t.size
    PROVE  \/ \E v \in InStreams(t) : \A g : InArgument(t, g, n) = v
           \/ /\ \A g : InArgument(t, g, n) = g[t.father[n]]
              /\ t.father[n] \in 1..t.size /\ t.father[n] < n
<1> DEFINE f == t.father[n]
           left == {m \in OperandsIn(t, f) : m < n}
           own == IF n \in t.redirect_in THEN FileOf(n) ELSE Std(0)
<1>1. own \in InStreams(t)
  BY StreamFacts
<1>2. t.size \in Nat
  BY DEF IsTree
<1>3. CASE n = 1
  <2>1. \A g : InArgument(t, g, n) = own
    BY <1>3 DEF InArgument
  <2> QED BY <1>1, <2>1
<1>4. CASE n # 1 /\ left = {}
  <2>1. \A g : InArgument(t, g, n) = g[f]
    BY <1>4 DEF InArgument
  <2>2. f \in 1..t.size /\ f < n
    BY <1>2, <1>4 DEF IsTree
  <2> QED BY <2>1, <2>2
<1>5. CASE n # 1 /\ left # {} /\ t.type[f] = "Pipe"
  <2>1. \A g : InArgument(t, g, n) = PipeOf(Last(left))
    BY <1>5 DEF InArgument
  <2>2. left \in SUBSET (0..t.size) /\ left \in SUBSET (1..t.size)
    BY <1>2 DEF OperandsIn
  <2> HIDE DEF left
  <2>3. Last(left) \in 1..t.size
    BY <1>2, <1>5, <2>2, LastIsGreatest
  <2> QED BY <2>1, <2>3, StreamFacts
<1>6. CASE n # 1 /\ left # {} /\ t.type[f] # "Pipe"
  <2>1. \A g : InArgument(t, g, n) = own
    BY <1>6 DEF InArgument
  <2> QED BY <1>1, <2>1
<1> QED BY <1>3, <1>4, <1>5, <1>6

LEMMA OutArgumentCases ==
    ASSUME NEW t, IsTree(t), NEW n \in 1..t.size
    PROVE  \/ \E v \in OutStreams(t) : \A g : OutArgument(t, g, n) = v
           \/ /\ \A g : OutArgument(t, g, n) = g[t.father[n]]
              /\ t.father[n] \in 1..t.size /\ t.father[n] < n
<1> DEFINE f == t.father[n]
           handsOn == t.type[f] = "Pipe" /\ n = Last(OperandsIn(t, f))
           own == IF n \in t.redirect_out THEN FileOf(n) ELSE Std(1)
<1>1. own \in OutStreams(t)
  BY StreamFacts
<1>2. t.size \in Nat
  BY DEF IsTree
<1>3. CASE n = 1
  <2>1. \A g : OutArgument(t, g, n) = own
    BY <1>3 DEF OutArgument
  <2> QED BY <1>1, <2>1
<1>4. CASE n # 1 /\ handsOn
  <2>1. \A g : OutArgument(t, g, n) = g[f]
    BY <1>4 DEF OutArgument
  <2>2. f \in 1..t.size /\ f < n
    BY <1>2, <1>4 DEF IsTree
  <2> QED BY <2>1, <2>2
<1>5. CASE n # 1 /\ ~handsOn
  <2>1. \A g : OutArgument(t, g, n) = PipeOf(n)
    BY <1>5 DEF OutArgument
  <2> QED BY <2>1, StreamFacts
<1> QED BY <1>3, <1>4, <1>5

LEMMA InHasSolution ==
    ASSUME NEW t, IsTree(t)
    PROVE  \E g : IsIn(t, g)
<1> DEFINE D == 1..t.size
           V == InStreams(t)
           rank == [n \in D |-> n]
           step == [n \in D |-> [g \in [D -> V] |-> InArgument(t, g, n)]]
<1>1. t.size \in Nat
  BY DEF IsTree
<1>2. rank \in [D -> 0..t.size]
  BY <1>1
<1>3. ASSUME NEW n \in D, NEW g \in [D -> V] PROVE InArgument(t, g, n) \in V
  <2>1. CASE \E v \in V : \A h : InArgument(t, h, n) = v
    BY <2>1
  <2>2. CASE /\ \A h : InArgument(t, h, n) = h[t.father[n]]
             /\ t.father[n] \in D /\ t.father[n] < n
    BY <2>2
  <2> QED BY <2>1, <2>2, InArgumentCases
<1>4. step \in [D -> [[D -> V] -> V]]
  BY <1>3
<1>5. ASSUME NEW n \in D, NEW g \in [D -> V], NEW h \in [D -> V],
             \A m \in D : rank[m] < rank[n] => g[m] = h[m]
      PROVE  step[n][g] = step[n][h]
  <2>1. CASE \E v \in V : \A k : InArgument(t, k, n) = v
    BY <2>1
  <2>2. CASE /\ \A k : InArgument(t, k, n) = k[t.father[n]]
             /\ t.father[n] \in D /\ t.father[n] < n
    <3>1. g[t.father[n]] = h[t.father[n]]
      BY <1>5, <2>2
    <3>2. InArgument(t, g, n) = InArgument(t, h, n)
      BY <2>2, <3>1
    <3> QED BY <3>2
  <2> QED BY <2>1, <2>2, InArgumentCases
<1>6. V # {}
  <2>1. Std(0) \in V
    BY DEF InStreams, StreamsOf, Std
  <2> QED BY <2>1
<1>7. IsRecursion(D, V, t.size, rank, step)
  BY <1>2, <1>4, <1>5 DEF IsRecursion
<1>8. PICK g \in [D -> V] : \A n \in D : g[n] = step[n][g]
  <2> HIDE DEF D, V, rank, step
  <2> QED BY <1>1, <1>6, <1>7, RecursionHasSolution
<1>9. g = [n \in D |-> InArgument(t, g, n)]
  BY <1>8
<1> QED BY <1>9 DEF IsIn

LEMMA OutHasSolution ==
    ASSUME NEW t, IsTree(t)
    PROVE  \E g : IsOut(t, g)
<1> DEFINE D == 1..t.size
           V == OutStreams(t)
           rank == [n \in D |-> n]
           step == [n \in D |-> [g \in [D -> V] |-> OutArgument(t, g, n)]]
<1>1. t.size \in Nat
  BY DEF IsTree
<1>2. rank \in [D -> 0..t.size]
  BY <1>1
<1>3. ASSUME NEW n \in D, NEW g \in [D -> V] PROVE OutArgument(t, g, n) \in V
  <2>1. CASE \E v \in V : \A h : OutArgument(t, h, n) = v
    BY <2>1
  <2>2. CASE /\ \A h : OutArgument(t, h, n) = h[t.father[n]]
             /\ t.father[n] \in D /\ t.father[n] < n
    BY <2>2
  <2> QED BY <2>1, <2>2, OutArgumentCases
<1>4. step \in [D -> [[D -> V] -> V]]
  BY <1>3
<1>5. ASSUME NEW n \in D, NEW g \in [D -> V], NEW h \in [D -> V],
             \A m \in D : rank[m] < rank[n] => g[m] = h[m]
      PROVE  step[n][g] = step[n][h]
  <2>1. CASE \E v \in V : \A k : OutArgument(t, k, n) = v
    BY <2>1
  <2>2. CASE /\ \A k : OutArgument(t, k, n) = k[t.father[n]]
             /\ t.father[n] \in D /\ t.father[n] < n
    <3>1. g[t.father[n]] = h[t.father[n]]
      BY <1>5, <2>2
    <3>2. OutArgument(t, g, n) = OutArgument(t, h, n)
      BY <2>2, <3>1
    <3> QED BY <3>2
  <2> QED BY <2>1, <2>2, OutArgumentCases
<1>6. V # {}
  <2>1. Std(1) \in V
    BY DEF OutStreams, StreamsOf, Std
  <2> QED BY <2>1
<1>7. IsRecursion(D, V, t.size, rank, step)
  BY <1>2, <1>4, <1>5 DEF IsRecursion
<1>8. PICK g \in [D -> V] : \A n \in D : g[n] = step[n][g]
  <2> HIDE DEF D, V, rank, step
  <2> QED BY <1>1, <1>6, <1>7, RecursionHasSolution
<1>9. g = [n \in D |-> OutArgument(t, g, n)]
  BY <1>8
<1> QED BY <1>9 DEF IsOut

\* The streams a solution gives.
LEMMA InIsStream ==
    ASSUME NEW t, IsTree(t), NEW in, IsIn(t, in)
    PROVE  in \in [1..t.size -> InStreams(t)]
<1> DEFINE D == 1..t.size
           rank == [n \in D |-> n]
           Bad == {n \in D : in[n] \notin InStreams(t)}
<1>1. t.size \in Nat
  BY DEF IsTree
<1>2. in = [n \in D |-> InArgument(t, in, n)]
  BY DEF IsIn
<1>3. ASSUME NEW n \in Bad PROVE \E m \in Bad : rank[m] < rank[n]
  <2>1. n \in D /\ in[n] = InArgument(t, in, n)
    BY <1>2
  <2>2. in[n] = in[t.father[n]] /\ t.father[n] \in D /\ t.father[n] < n
    BY <1>3, <2>1, InArgumentCases
  <2> QED BY <2>1, <2>2
<1>4. rank \in [D -> 0..t.size] /\ Bad \subseteq D
  BY <1>1
<1>5. IsBottomless(D, t.size, rank, Bad)
  BY <1>1, <1>3, <1>4 DEF IsBottomless
<1>6. Bad = {}
  BY <1>5, RankDescent
<1> QED BY <1>2, <1>6

LEMMA OutIsStream ==
    ASSUME NEW t, IsTree(t), NEW out, IsOut(t, out)
    PROVE  out \in [1..t.size -> OutStreams(t)]
<1> DEFINE D == 1..t.size
           rank == [n \in D |-> n]
           Bad == {n \in D : out[n] \notin OutStreams(t)}
<1>1. t.size \in Nat
  BY DEF IsTree
<1>2. out = [n \in D |-> OutArgument(t, out, n)]
  BY DEF IsOut
<1>3. ASSUME NEW n \in Bad PROVE \E m \in Bad : rank[m] < rank[n]
  <2>1. n \in D /\ out[n] = OutArgument(t, out, n)
    BY <1>2
  <2>2. out[n] = out[t.father[n]] /\ t.father[n] \in D /\ t.father[n] < n
    BY <1>3, <2>1, OutArgumentCases
  <2> QED BY <2>1, <2>2
<1>4. rank \in [D -> 0..t.size] /\ Bad \subseteq D
  BY <1>1
<1>5. IsBottomless(D, t.size, rank, Bad)
  BY <1>1, <1>3, <1>4 DEF IsBottomless
<1>6. Bad = {}
  BY <1>5, RankDescent
<1> QED BY <1>2, <1>6

\* The streams of a wired tree are those that wire_redirects_r() hands down.
LEMMA WiredUnfolds ==
    ASSUME NEW t, IsTree(t)
    PROVE  LET w == Wired(t)
           IN /\ w.size = t.size /\ w.type = t.type /\ w.father = t.father
              /\ w.redirect_in = t.redirect_in /\ w.redirect_out = t.redirect_out
              /\ IsIn(t, w.from) /\ IsOut(t, w.to)
              /\ w.std_in = StdIn(t, w.from) /\ w.std_out = StdOut(t, w.to)
<1> DEFINE in == CHOOSE in : in = [n \in 1..t.size |-> InArgument(t, in, n)]
           out == CHOOSE out : out = [n \in 1..t.size |-> OutArgument(t, out, n)]
<1>1. IsIn(t, in)
  BY InHasSolution DEF IsIn
<1>2. IsOut(t, out)
  BY OutHasSolution DEF IsOut
<1>3. Wired(t) =
        [size |-> t.size, type |-> t.type, father |-> t.father,
         program |-> t.program,
         redirect_in |-> t.redirect_in, redirect_out |-> t.redirect_out,
         std_in |-> StdIn(t, in), std_out |-> StdOut(t, out),
         from |-> in, to |-> out]
  BY DEF Wired
<1> HIDE DEF in, out
<1> QED BY <1>1, <1>2, <1>3

\* wire_redirects() wires a tree.
LEMMA WiredIsWired ==
    ASSUME NEW t, IsTree(t)
    PROVE  LET w == Wired(t)
           IN /\ IsTree(w)
              /\ (\A n \in 1..w.size : w.type[n] # "Executable" => OperandsIn(w, n) # {})
                   => IsWired(w)
<1> DEFINE w == Wired(t)
<1>1. /\ w.size = t.size /\ w.type = t.type /\ w.father = t.father
      /\ w.redirect_in = t.redirect_in /\ w.redirect_out = t.redirect_out
      /\ IsIn(t, w.from) /\ IsOut(t, w.to)
      /\ w.std_in = StdIn(t, w.from) /\ w.std_out = StdOut(t, w.to)
  BY WiredUnfolds
<1> HIDE DEF w
<1>2. IsTree(w)
  BY <1>1 DEF IsTree
<1>3. InStreams(w) = InStreams(t) /\ OutStreams(w) = OutStreams(t)
  BY <1>1 DEF InStreams, OutStreams, StreamsOf
<1>4. w.from \in [1..w.size -> InStreams(w)] /\ w.to \in [1..w.size -> OutStreams(w)]
  BY <1>1, <1>3, InIsStream, OutIsStream
<1>5. \A n : OperandsIn(w, n) = OperandsIn(t, n)
  BY <1>1 DEF OperandsIn
<1>6. \A n \in 1..w.size : /\ w.from[n] = InArgument(w, w.from, n)
                          /\ w.to[n] = OutArgument(w, w.to, n)
  <2>1. \A in, n : InArgument(w, in, n) = InArgument(t, in, n)
    BY <1>1, <1>5 DEF InArgument
  <2>2. \A out, n : OutArgument(w, out, n) = OutArgument(t, out, n)
    BY <1>1, <1>5 DEF OutArgument
  <2> QED BY <1>1, <2>1, <2>2 DEF IsIn, IsOut
<1>7. w.std_in = StdIn(w, w.from) /\ w.std_out = StdOut(w, w.to)
  BY <1>1, <1>5 DEF StdIn, StdOut
<1>8. \A n \in 1..w.size : FileOf(n) \in InStreams(w) /\ FileOf(n) \in OutStreams(w)
  BY StreamFacts
<1>9. w.std_in \in [1..w.size -> InStreams(w)]
  <2>1. \A n \in 1..w.size : StdIn(w, w.from)[n] = FileOf(n) \/ StdIn(w, w.from)[n] = w.from[n]
    BY DEF StdIn
  <2>2. \A n \in 1..w.size : w.std_in[n] \in InStreams(w)
    BY <1>4, <1>7, <1>8, <2>1
  <2>3. DOMAIN w.std_in = 1..w.size /\ w.std_in = [n \in 1..w.size |-> w.std_in[n]]
    BY <1>7 DEF StdIn
  <2> QED BY <2>2, <2>3
<1>10. w.std_out \in [1..w.size -> OutStreams(w)]
  BY <1>4, <1>7, <1>8 DEF StdOut
<1>11. (\A n \in 1..w.size : w.type[n] # "Executable" => OperandsIn(w, n) # {}) => IsWired(w)
  BY <1>2, <1>4, <1>6, <1>7, <1>9, <1>10 DEF IsWired, InStreams, OutStreams
<1> QED BY <1>2, <1>11 DEF w

-----------------------------------------------------------------------------
(* What a step that leaves part of the state alone leaves true.            *)

LEMMA PreorderKept ==
    ASSUME PreorderInv, PipeInv, nodes' = nodes, work' = work
    PROVE  PreorderInv' /\ PipeInv'
<1>1. \A p : FatherAt(p)' = FatherAt(p)
  BY DEF FatherAt
<1>2. Places' = Places /\ Created' = Created
  BY DEF Places, Created
<1>3. PreorderInv'
  BY <1>1, <1>2 DEF PreorderInv
<1>4. PipeInv'
  BY <1>1, <1>2 DEF PipeInv
<1> QED BY <1>3, <1>4

LEMMA BuiltinsKept ==
    ASSUME CdInv, BuiltTreeIsTree, CdsGoToFollowers, executed \subseteq Executables,
           nodes' = nodes, UNCHANGED builtinVars,
           stage' = stage \/ stage' \notin {"builtins", "executing"}
    PROVE  /\ CdInv' /\ BuiltTreeIsTree' /\ CdsGoToFollowers'
           /\ Executables' = Executables
<1>1. cursor' = cursor /\ cds' = cds /\ removed' = removed /\ tree' = tree
  BY DEF builtinVars
<1>2. /\ \A n : /\ IsCd(n)' = IsCd(n) /\ InSequence(n)' = InSequence(n)
               /\ IsHandedOn(n)' = IsHandedOn(n) /\ Directory(n)' = Directory(n)
      /\ Created' = Created /\ Directories' = Directories
      /\ \A n : DirectoriesOf(CdsBefore(n, cursor))' = DirectoriesOf(CdsBefore(n, cursor))
      /\ \A n : CdsOf(n)' = CdsOf(n)
  BY <1>1 DEF IsCd, InSequence, IsHandedOn, Directory, Directories, CdsBefore,
              DirectoriesOf, Created, CdsOf
<1>3. CASE stage' = stage
  <2>1. CdInv'
    BY <1>1, <1>2, <1>3 DEF CdInv
  <2>2. CdsGoToFollowers'
    BY <1>1, <1>2, <1>3 DEF CdsGoToFollowers
  <2>3. BuiltTreeIsTree'
    BY SMTT(60), <1>1, <1>3 DEF BuiltTreeIsTree, IsTree, IsWired, Nodes, Executables, Operands
  <2> QED BY <1>1, <2>1, <2>2, <2>3 DEF Executables, Nodes
<1>4. CASE stage' \notin {"builtins", "executing"}
  BY SMTT(60), <1>1, <1>4 DEF CdInv, CdsGoToFollowers, BuiltTreeIsTree, Executables, Nodes
<1> QED BY <1>3, <1>4

LEMMA ReportKept ==
    ASSUME ReportInv, report' = report, clock' = clock
    PROVE  ReportInv'
BY DEF ReportInv, Listed, PrintedTimeAddsUp

\* Steps that only move on, before the tree is built or after it was executed.
LEMMA TreeKept ==
    ASSUME Inv, nodes' = nodes, work' = work, UNCHANGED <<builtinVars, reportVars>>,
           stage' = stage \/ stage' \notin {"builtins", "executing"},
           TypeInv', ProgressInv'
    PROVE  Inv'
<1>1. PreorderInv' /\ PipeInv'
  BY PreorderKept DEF Inv
<1>2. CdInv' /\ BuiltTreeIsTree' /\ CdsGoToFollowers' /\ Executables' = Executables
  BY BuiltinsKept DEF Inv
<1>3. ReportInv' /\ executed' = executed
  BY ReportKept DEF Inv, reportVars
<1> QED BY <1>1, <1>2, <1>3 DEF Inv

-----------------------------------------------------------------------------
(* Arguments.                                                              *)

LEMMA OptionParsed ==
    ASSUME Inv, ParseOption
    PROVE  Inv'
<1>1. /\ stage = "arguments" /\ stage' = "arguments" /\ argv # <<>>
      /\ nodes' = nodes /\ work' = work /\ UNCHANGED builtinVars
      /\ executed' = executed /\ clock' = clock /\ attributes' = attributes
      /\ report' = report /\ root_code' = root_code /\ exit_status' = exit_status
  BY DEF ParseOption
<1>2. /\ argv \in Seq(Texts)
      /\ arguments \in [print_help : BOOLEAN, stop_daemon : BOOLEAN,
                        command : Texts, log_options : Texts]
  BY DEF Inv, TypeInv
<1>3. argv' \in Seq(Texts) /\ (Head(argv) \in OptionsOptions => argv[2] \in Texts)
  <2> HIDE DEF Texts
  <2>1. Tail(argv) \in Seq(Texts) /\ Len(argv) \in Nat
    BY <1>1, <1>2
  <2>2. Len(argv) > 1 => Tail(Tail(argv)) \in Seq(Texts) /\ argv[2] \in Texts
    <3>1. Len(argv) > 1 => Len(Tail(argv)) > 0 /\ argv[2] \in Texts
      BY <1>1, <1>2, <2>1, HeadTailProperties, ElementOfSeq
    <3>2. Tail(argv) # <<>> => Tail(Tail(argv)) \in Seq(Texts)
      BY <2>1, HeadTailProperties
    <3>3. Len(Tail(argv)) > 0 => Tail(argv) # <<>>
      OBVIOUS
    <3> QED BY <3>1, <3>2, <3>3
  <2>3. Head(argv) \in LogOptions \cup OptionsOptions \cup FormatOptions => Len(argv) > 1
    BY DEF ParseOption, IsOption, NextArgumentExists, LogOptions, OptionsOptions,
           FormatOptions, HelpOptions, VerboseOptions, StopOptions
  <2> QED BY <2>1, <2>2, <2>3 DEF ParseOption
<1>4. arguments' \in [print_help : BOOLEAN, stop_daemon : BOOLEAN,
                      command : Texts, log_options : Texts]
  <2> HIDE DEF Texts
  <2>1. arguments' =
          [arguments EXCEPT
             !.print_help = @ \/ Head(argv) \in HelpOptions,
             !.stop_daemon = @ \/ Head(argv) \in StopOptions,
             !.log_options = IF Head(argv) \in OptionsOptions THEN argv[2] ELSE @]
    BY DEF ParseOption
  <2> QED BY <1>2, <1>3, <2>1
<1>5. TypeInv'
  BY <1>1, <1>3, <1>4 DEF Inv, TypeInv, Created
<1>6. ProgressInv'
  BY <1>1 DEF Inv, ProgressInv, Places
<1>7. PreorderInv' /\ PipeInv'
  BY <1>1, PreorderKept DEF Inv
<1>8. CdInv' /\ BuiltTreeIsTree' /\ CdsGoToFollowers' /\ Executables' = Executables
  BY <1>1, BuiltinsKept DEF Inv
<1>9. ReportInv'
  BY <1>1, ReportKept DEF Inv
<1> QED BY <1>1, <1>5, <1>6, <1>7, <1>8, <1>9 DEF Inv

LEMMA CommandTaken ==
    ASSUME Inv, TakeCommand
    PROVE  Inv'
<1>1. /\ stage = "arguments" /\ stage' = "starting" /\ argv' = <<>>
      /\ nodes' = nodes /\ work' = work /\ UNCHANGED builtinVars
      /\ UNCHANGED reportVars
      /\ root_code' = root_code /\ exit_status' = exit_status
  BY DEF TakeCommand
<1>2. /\ argv \in Seq(Texts)
      /\ arguments \in [print_help : BOOLEAN, stop_daemon : BOOLEAN,
                        command : Texts, log_options : Texts]
  BY DEF Inv, TypeInv
<1>3. Concatenated(argv) \in Texts /\ <<>> \in Texts
  <2>1. <<Blank>> \in Texts /\ <<>> \in Texts
    <3>1. Blank \in Glyphs
      BY DEF Glyphs
    <3> QED BY <3>1 DEF Texts
  <2> QED BY <1>2, <2>1, JoinedIsText DEF Concatenated
<1>4. arguments' \in [print_help : BOOLEAN, stop_daemon : BOOLEAN,
                      command : Texts, log_options : Texts]
  <2> HIDE DEF Texts
  <2> QED BY <1>2, <1>3 DEF TakeCommand
<1>5. TypeInv'
  <2>1. argv' \in Seq(Texts)
    BY <1>1
  <2> QED BY <1>1, <1>4, <2>1 DEF Inv, TypeInv, Created, reportVars, Stages
<1>6. ProgressInv'
  BY <1>1 DEF Inv, ProgressInv, Places, reportVars, Early
<1> QED BY <1>1, <1>5, <1>6, TreeKept

-----------------------------------------------------------------------------
(* main()                                                                  *)

LEMMA HelpPrinted ==
    ASSUME Inv, PrintHelp \/ StopDaemon
    PROVE  Inv'
<1>1. /\ stage = "starting" /\ stage' = "exited" /\ exit_status' \in {0, 1}
      /\ nodes' = nodes /\ work' = work /\ UNCHANGED builtinVars
      /\ UNCHANGED reportVars
      /\ argv' = argv /\ arguments' = arguments /\ root_code' = root_code
  BY DEF PrintHelp, StopDaemon, Exits
<1>2. TypeInv'
  BY <1>1 DEF Inv, TypeInv, Created, reportVars, Stages, Uninitialised
<1>3. ProgressInv'
  BY <1>1 DEF Inv, ProgressInv, Early
<1> QED BY <1>1, <1>2, <1>3, TreeKept

LEMMA DaemonStarted ==
    ASSUME Inv, StartDaemon
    PROVE  Inv'
<1>1. /\ stage = "starting" /\ nodes' = nodes /\ UNCHANGED builtinVars
      /\ UNCHANGED reportVars
      /\ argv' = argv /\ arguments' = arguments /\ root_code' = root_code
  BY DEF StartDaemon
<1>2. nodes = <<>> /\ work = <<>>
  BY <1>1 DEF Inv, ProgressInv
<1>3. CASE stage' = "exited" /\ exit_status' = 1 /\ work' = work
  <2>1. TypeInv'
    BY <1>1, <1>3 DEF Inv, TypeInv, Created, reportVars, Stages, Uninitialised
  <2>2. ProgressInv'
    BY <1>1, <1>3 DEF Inv, ProgressInv, Early
  <2> QED BY <1>1, <1>3, <2>1, <2>2, TreeKept
<1>4. CASE /\ stage' = "parsing" /\ exit_status' = exit_status
           /\ work' = <<[string |-> arguments.command, father |-> NoNode]>>
  <2>1. arguments.command \in Texts
    BY DEF Inv, TypeInv
  <2>2. work' \in Seq([string : Texts, father : Nat]) /\ Len(work') = 1
    <3> HIDE DEF Texts
    <3> QED BY <1>4, <2>1 DEF NoNode
  <2>3. TypeInv'
    BY <1>1, <1>4, <2>2 DEF Inv, TypeInv, Created, reportVars, Stages
  <2>4. Len(nodes) = 0 /\ Places' = {1} /\ Created' = {}
    BY <1>1, <1>2, <2>2 DEF Places, Created
  <2>5. ProgressInv'
    BY <1>1, <1>4, <2>4 DEF Inv, ProgressInv, Early, reportVars
  <2>6. FatherAt(1)' = NoNode
    BY <1>1, <1>4, <2>4 DEF FatherAt
  <2>7. PreorderInv'
    <3>1. (FatherAt(1)' + 1)..(1 - 1) = {}
      BY <2>6 DEF NoNode
    <3> QED BY <1>1, <2>4, <2>6, <3>1 DEF PreorderInv, NoNode
  <2>8. PipeInv'
    BY <2>4 DEF PipeInv
  <2>9. CdInv' /\ BuiltTreeIsTree' /\ CdsGoToFollowers' /\ Executables' = Executables
    BY <1>1, <1>4, BuiltinsKept DEF Inv
  <2>10. ReportInv' /\ executed' = executed
    BY <1>1, ReportKept DEF Inv, reportVars
  <2> QED BY <2>3, <2>5, <2>7, <2>8, <2>9, <2>10 DEF Inv
<1> QED BY <1>1, <1>3, <1>4 DEF StartDaemon, Exits

-----------------------------------------------------------------------------
(* create_tree_from_string()                                               *)

LEMMA NodeStep ==
    ASSUME Inv, CreateTreeFromString, CreateNode, UNCHANGED builtinVars
    PROVE  Inv'
<1>1. /\ UNCHANGED reportVars /\ argv' = argv /\ arguments' = arguments
      /\ root_code' = root_code
      /\ exit_status' = IF stage' = "failed" THEN 1 ELSE exit_status
      /\ stage = "parsing"
  BY DEF CreateTreeFromString, CreateNode
<1>2. TypeInv /\ ProgressInv /\ PreorderInv /\ PipeInv
  BY DEF Inv
<1>3. CASE /\ stage' = stage
           /\ Listed(nodes') /\ work' \in Seq(WorkItems)
           /\ \A n \in Created' : nodes'[n].type \in NodeTypes
           /\ PreorderInv' /\ PipeInv' /\ (Places # {})'
  <2>1. TypeInv'
    BY <1>1, <1>2, <1>3 DEF TypeInv, reportVars, WorkItems
  <2>2. ProgressInv'
    BY <1>1, <1>2, <1>3 DEF ProgressInv, reportVars, Early
  <2>3. CdInv' /\ BuiltTreeIsTree' /\ CdsGoToFollowers'
    BY <1>1, <1>3 DEF CdInv, BuiltTreeIsTree, CdsGoToFollowers
  <2>4. ReportInv'
    BY <1>1, ReportKept DEF Inv, reportVars
  <2>5. executed' \subseteq Executables'
    BY <1>1, <1>2 DEF ProgressInv, Early, reportVars
  <2> QED BY <1>3, <2>1, <2>2, <2>3, <2>4, <2>5 DEF Inv
<1>4. CASE stage' = "failed" /\ UNCHANGED <<work, nodes>>
  <2>1. TypeInv'
    BY <1>1, <1>2, <1>4 DEF TypeInv, Created, reportVars, Stages, Uninitialised
  <2>2. ProgressInv'
    BY <1>1, <1>2, <1>4 DEF ProgressInv, Early
  <2> QED BY <1>1, <1>4, <2>1, <2>2, TreeKept
<1> QED BY <1>2, <1>3, <1>4, NodeCreated

LEMMA ParsingEnded ==
    ASSUME Inv, CreateTreeFromString, ParsingEnds, StartBuiltins, tree' = tree
    PROVE  Inv'
<1>1. /\ UNCHANGED reportVars /\ argv' = argv /\ arguments' = arguments
      /\ root_code' = root_code /\ exit_status' = exit_status
      /\ stage = "parsing" /\ work = <<>> /\ stage' = "builtins"
      /\ work' = work /\ nodes' = nodes
  BY DEF CreateTreeFromString, ParsingEnds
<1>2. TypeInv /\ ProgressInv /\ PreorderInv /\ PipeInv
  BY DEF Inv
<1>3. TypeInv'
  BY <1>1, <1>2 DEF TypeInv, Created, reportVars, Stages
<1>4. nodes # <<>> /\ Len(nodes) \in Nat
  <2>1. Len(nodes) \in Nat
    BY <1>2, WorkFacts
  <2> QED BY <1>1, <1>2, <2>1 DEF ProgressInv, Places
<1>5. ProgressInv'
  BY <1>1, <1>2, <1>4 DEF ProgressInv, Early, reportVars
<1>6. PreorderInv' /\ PipeInv'
  BY <1>1, <1>2, PreorderKept
<1>7. CdInv'
  <2>1. /\ \A n : /\ IsCd(n)' = IsCd(n) /\ InSequence(n)' = InSequence(n)
                 /\ IsHandedOn(n)' = IsHandedOn(n) /\ Directory(n)' = Directory(n)
        /\ Created' = Created /\ Directories' = Directories
        /\ cursor' = 1 /\ removed' = {} /\ cds' = [n \in Created |-> <<>>]
    BY <1>1 DEF IsCd, InSequence, IsHandedOn, Directory, Directories, Created,
                StartBuiltins
  <2>2. \A n : DirectoriesOf(CdsBefore(n, cursor))' = DirectoriesOf(CdsBefore(n, 1))
    BY <1>1, <2>1 DEF Directory, CdsBefore, DirectoriesOf
  <2>3. {n \in Created : IsHandedOn(n) /\ n < 1} = {}
    BY <1>4 DEF Created
  <2>4. \A n \in Created : ~(n < 1) /\ DirectoriesOf(CdsBefore(n, 1)) = <<>>
    <3> SUFFICES ASSUME NEW n \in Created
                 PROVE  ~(n < 1) /\ DirectoriesOf(CdsBefore(n, 1)) = <<>>
      OBVIOUS
    <3>1. CdsBefore(n, 1) = {}
      BY <1>4 DEF CdsBefore, Created
    <3>2. DirectoriesOf({}) = <<>>
      <4>1. Cardinality({}) = 0
        BY FS_EmptySet
      <4> QED BY <4>1 DEF DirectoriesOf
    <3> QED BY <1>4, <3>1, <3>2 DEF Created
  <2>5. cds' \in [Created -> Seq(Directories)]
    <3> HIDE DEF Created, Directories
    <3> QED BY <2>1
  <2>6. cursor' \in 1..(Len(nodes) + 1) /\ \A n \in Created : cds'[n] = <<>>
    BY <1>4, <2>1
  <2> QED BY <1>1, <2>1, <2>2, <2>3, <2>4, <2>5, <2>6 DEF CdInv
<1>8. BuiltTreeIsTree' /\ CdsGoToFollowers'
  BY <1>1 DEF BuiltTreeIsTree, CdsGoToFollowers
<1>9. ReportInv'
  BY <1>1, ReportKept DEF Inv, reportVars
<1>10. executed' \subseteq Executables'
  BY <1>1, <1>2 DEF ProgressInv, Early, reportVars
<1> QED BY <1>3, <1>5, <1>6, <1>7, <1>8, <1>9, <1>10 DEF Inv

LEMMA CdStep ==
    ASSUME Inv, CreateTreeFromString, ApplyCd
    PROVE  Inv'
<1>1. /\ UNCHANGED reportVars /\ argv' = argv /\ arguments' = arguments
      /\ root_code' = root_code
      /\ exit_status' = IF stage' = "failed" THEN 1 ELSE exit_status
      /\ stage = "builtins" /\ stage' \in {"builtins", "crashed"}
      /\ work' = work /\ nodes' = nodes /\ tree' = tree
  BY DEF CreateTreeFromString, ApplyCd
<1>2. TypeInv /\ ProgressInv /\ PreorderInv /\ PipeInv /\ CdInv
  BY DEF Inv
<1>3. TypeInv'
  BY <1>1, <1>2 DEF TypeInv, Created, reportVars, Stages
<1>4. ProgressInv'
  BY <1>1, <1>2 DEF ProgressInv, Early, reportVars
<1>5. PreorderInv' /\ PipeInv'
  BY <1>1, <1>2, PreorderKept
<1>6. CdInv'
  BY <1>2, CdApplied
<1>7. BuiltTreeIsTree' /\ CdsGoToFollowers'
  BY <1>1 DEF BuiltTreeIsTree, CdsGoToFollowers
<1>8. ReportInv'
  BY <1>1, ReportKept DEF Inv, reportVars
<1>9. executed' \subseteq Executables'
  BY <1>1, <1>2 DEF ProgressInv, Early, reportVars
<1> QED BY <1>3, <1>4, <1>5, <1>6, <1>7, <1>8, <1>9 DEF Inv

LEMMA TreeWired ==
    ASSUME Inv, CreateTreeFromString, WireRedirects
    PROVE  Inv'
<1>1. /\ UNCHANGED reportVars /\ argv' = argv /\ arguments' = arguments
      /\ root_code' = root_code /\ exit_status' = exit_status
      /\ stage = "builtins" /\ stage' = "executing" /\ cursor > Len(nodes)
      /\ work' = work /\ nodes' = nodes /\ cds' = cds /\ removed' = removed
      /\ tree' = Wired(BuiltTree)
  BY DEF CreateTreeFromString, WireRedirects
<1>2. TypeInv /\ ProgressInv /\ PreorderInv /\ PipeInv /\ CdInv
  BY DEF Inv
<1>3. TypeInv'
  BY <1>1, <1>2 DEF TypeInv, Created, reportVars, Stages
<1>4. ProgressInv'
  BY <1>1, <1>2 DEF ProgressInv, Early, reportVars
<1>5. PreorderInv' /\ PipeInv'
  BY <1>1, <1>2, PreorderKept
<1>6. Len(nodes) \in Nat /\ \A n \in Created : n \in Nat /\ n < cursor
  BY <1>1, <1>2, WorkFacts DEF CdInv, Created
<1>7. removed = {n \in Created : IsHandedOn(n)}
  BY <1>1, <1>2, <1>6 DEF CdInv
<1>8. IsTree(BuiltTree)
  BY <1>1, <1>2, <1>7, BuiltIsTree DEF ProgressInv
<1>9. BuiltTreeIsTree'
  <2> DEFINE w == Wired(BuiltTree)
  <2>1. /\ IsTree(w)
        /\ (\A n \in 1..w.size : w.type[n] # "Executable" => OperandsIn(w, n) # {})
             => IsWired(w)
    BY <1>8, WiredIsWired
  <2> HIDE DEF w
  <2>2. tree' = w
    BY <1>1 DEF w
  <2>3. Nodes' = 1..w.size /\ Executables' = {n \in 1..w.size : w.type[n] = "Executable"}
    BY <2>2 DEF Nodes, Executables
  <2>4. \A n : Operands(n)' = OperandsIn(w, n)
    BY <2>2 DEF Operands, OperandsIn, Nodes
  <2>5. IsTree(tree)' /\ (IsWired(w) => IsWired(tree)')
    BY <2>1, <2>2
  <2> QED BY <2>1, <2>3, <2>4, <2>5 DEF BuiltTreeIsTree
<1>10. CdsGoToFollowers'
  <2>1. /\ \A n : IsCd(n)' = IsCd(n) /\ InSequence(n)' = InSequence(n)
        /\ Created' = Created /\ \A n : CdsOf(n)' = CdsOf(n)
    BY <1>1 DEF IsCd, InSequence, Directory, Created, CdsOf
  <2>2. ASSUME NEW n \in Created \ removed, nodes[n].type = "Executable"
        PROVE  cds[n] = CdsOf(n)
    <3>1. IF IsCd(n) /\ ~InSequence(n)
            THEN cds[n] = <<Directory(n)>>
            ELSE cds[n] = DirectoriesOf(CdsBefore(n, cursor))
      BY <1>1, <1>2, <1>6, <2>2 DEF CdInv
    <3>2. CdsBefore(n, cursor) =
            {m \in Created : /\ IsCd(m) /\ InSequence(m) /\ m < n
                             /\ nodes[m].father = nodes[n].father}
      BY <1>6 DEF CdsBefore, IsHandedOn
    <3> QED BY <3>1, <3>2 DEF CdsOf, DirectoriesOf
  <2> QED BY <1>1, <2>1, <2>2 DEF CdsGoToFollowers
<1>11. CdInv'
  BY <1>1 DEF CdInv
<1>12. ReportInv'
  BY <1>1, ReportKept DEF Inv, reportVars
<1>13. executed' \subseteq Executables'
  BY <1>1, <1>2 DEF ProgressInv, Early, reportVars
<1> QED BY <1>3, <1>4, <1>5, <1>9, <1>10, <1>11, <1>12, <1>13 DEF Inv

LEMMA TreeStep ==
    ASSUME Inv, CreateTreeFromString
    PROVE  Inv'
<1>1. CASE CreateNode /\ UNCHANGED builtinVars
  BY <1>1, NodeStep
<1>2. CASE ParsingEnds /\ StartBuiltins /\ UNCHANGED tree
  BY <1>2, ParsingEnded
<1>3. CASE ApplyBuiltin
  BY <1>3, CdStep, TreeWired DEF ApplyBuiltin
<1> QED BY <1>1, <1>2, <1>3 DEF CreateTreeFromString

-----------------------------------------------------------------------------
(* What an execution ends with.                                            *)

StopsAt(code, n) ==
    {m \in Operands(n) :
       \/ code[m] = Uninitialised /\ tree.type[n] # "Pipe"
       \/ tree.type[n] = "And" /\ ~ExitedCorrectly(code[m])
       \/ tree.type[n] = "Or" /\ ExitedCorrectly(code[m])}

\* The operand whose end is the last an operator waits for.
DecidesAt(code, n) ==
    IF StopsAt(code, n) = {} THEN Last(Operands(n)) ELSE First(StopsAt(code, n))

OutcomeAt(code, status, n) ==
    CASE tree.type[n] = "Executable" -> status[n]
      [] tree.type[n] # "Executable" /\ Operands(n) = {} -> Uninitialised
      [] tree.type[n] # "Executable" /\ Operands(n) # {} ->
           LET decides == code[DecidesAt(code, n)]
           IN IF tree.type[n] \in {"And", "Or"} /\ ExitedCorrectly(decides)
                THEN Exit(0) ELSE decides

IsOutcome(code, status) == code = [n \in Nodes |-> OutcomeAt(code, status, n)]

Codes == ExitStatuses \cup {Exit(0), Uninitialised}

LEMMA OutcomeCases ==
    ASSUME IsTree(tree), NEW n \in Nodes, NEW status
    PROVE  \/ /\ n \in Executables
              /\ \A code : OutcomeAt(code, status, n) = status[n]
           \/ /\ n \notin Executables /\ Operands(n) = {}
              /\ \A code : OutcomeAt(code, status, n) = Uninitialised
           \/ /\ n \notin Executables /\ Operands(n) # {}
              /\ \A code : \E m \in Operands(n) :
                   /\ OutcomeAt(code, status, n) =
                        IF tree.type[n] \in {"And", "Or"} /\ ExitedCorrectly(code[m])
                          THEN Exit(0) ELSE code[m]
                   /\ m = DecidesAt(code, n)
<1>1. tree.size \in Nat /\ Operands(n) \in SUBSET (0..tree.size) /\ Operands(n) \in SUBSET Nat
  BY DEF IsTree, Operands, Nodes
<1>2. CASE n \in Executables
  BY <1>2 DEF OutcomeAt, Executables
<1>3. CASE n \notin Executables /\ Operands(n) = {}
  BY <1>3 DEF OutcomeAt, Executables
<1>4. CASE n \notin Executables /\ Operands(n) # {}
  <2>1. SUFFICES ASSUME NEW code
                 PROVE  \E m \in Operands(n) :
                          /\ OutcomeAt(code, status, n) =
                               IF tree.type[n] \in {"And", "Or"} /\ ExitedCorrectly(code[m])
                                 THEN Exit(0) ELSE code[m]
                          /\ m = DecidesAt(code, n)
    BY <1>4
  <2> DEFINE m == DecidesAt(code, n)
  <2>2. OutcomeAt(code, status, n) =
          IF tree.type[n] \in {"And", "Or"} /\ ExitedCorrectly(code[m])
            THEN Exit(0) ELSE code[m]
    BY <1>4 DEF OutcomeAt, Executables
  <2>3. StopsAt(code, n) \in SUBSET Operands(n)
    BY DEF StopsAt
  <2>4. Last(Operands(n)) \in Operands(n)
    BY <1>1, <1>4, LastIsGreatest
  <2>5. StopsAt(code, n) # {} => First(StopsAt(code, n)) \in Operands(n)
    <3>1. StopsAt(code, n) \in SUBSET Nat
      BY <1>1, <2>3
    <3> QED BY <2>3, <3>1, FirstIsLeast
  <2>6. m \in Operands(n)
    BY <2>4, <2>5 DEF DecidesAt
  <2> HIDE DEF m
  <2> QED BY <2>2, <2>6 DEF m
<1> QED BY <1>2, <1>3, <1>4

LEMMA OperandIsLater ==
    ASSUME IsTree(tree), NEW n \in Nodes, NEW m \in Operands(n)
    PROVE  /\ m \in Nodes /\ n < m /\ n \in Nat /\ m \in Nat
           /\ tree.size - m < tree.size - n
<1>1. tree.size \in Nat /\ tree.father[1] = NoNode
  BY DEF IsTree
<1>2. m \in Nodes /\ tree.father[m] = n /\ n \in Nat /\ m \in Nat /\ n # 0
  BY <1>1 DEF Operands, Nodes
<1>3. m # 1
  BY <1>1, <1>2 DEF NoNode
<1>4. m \in 2..tree.size
  BY <1>1, <1>2, <1>3 DEF Nodes
<1>5. tree.father[m] \in 1..(m - 1)
  BY <1>4 DEF IsTree
<1> QED BY <1>1, <1>2, <1>5

\* The outcome of an operator depends on those of its operands only.
LEMMA OutcomeOfOperands ==
    ASSUME IsTree(tree), NEW n \in Nodes, NEW status, NEW g, NEW h,
           \A m \in Operands(n) : g[m] = h[m]
    PROVE  OutcomeAt(g, status, n) = OutcomeAt(h, status, n)
<1>1. StopsAt(g, n) = StopsAt(h, n)
  BY DEF StopsAt
<1>2. DecidesAt(g, n) = DecidesAt(h, n)
  BY <1>1 DEF DecidesAt
<1> QED BY <1>2, OutcomeCases

LEMMA OutcomeHasSolution ==
    ASSUME IsTree(tree), NEW status \in [Executables -> ExitStatuses]
    PROVE  \E g : IsOutcome(g, status)
<1> DEFINE V == Codes
           rank == [n \in Nodes |-> tree.size - n]
           step == [n \in Nodes |-> [g \in [Nodes -> V] |-> OutcomeAt(g, status, n)]]
<1>1. tree.size \in Nat
  BY DEF IsTree
<1>2. rank \in [Nodes -> 0..tree.size]
  BY <1>1 DEF Nodes
<1>3. ASSUME NEW n \in Nodes, NEW g \in [Nodes -> V] PROVE OutcomeAt(g, status, n) \in V
  <2>1. Operands(n) \in SUBSET Nodes
    BY DEF Operands
  <2>2. CASE n \in Executables /\ \A code : OutcomeAt(code, status, n) = status[n]
    BY <2>2 DEF Codes
  <2>3. CASE \A code : OutcomeAt(code, status, n) = Uninitialised
    BY <2>3 DEF Codes
  <2>4. CASE \A code : \E m \in Operands(n) : OutcomeAt(code, status, n) \in {code[m], Exit(0)}
    BY <2>1, <2>4 DEF Codes
  <2> QED BY <2>2, <2>3, <2>4, OutcomeCases
<1>4. step \in [Nodes -> [[Nodes -> V] -> V]]
  BY <1>3
<1>5. ASSUME NEW n \in Nodes, NEW g \in [Nodes -> V], NEW h \in [Nodes -> V],
             \A m \in Nodes : rank[m] < rank[n] => g[m] = h[m]
      PROVE  step[n][g] = step[n][h]
  <2>1. \A m \in Operands(n) : m \in Nodes /\ tree.size - m < tree.size - n
    BY OperandIsLater
  <2>2. \A m \in Operands(n) : g[m] = h[m]
    BY <1>5, <2>1
  <2>3. OutcomeAt(g, status, n) = OutcomeAt(h, status, n)
    BY <2>2, OutcomeOfOperands
  <2> QED BY <2>3
<1>6. V # {}
  BY DEF Codes
<1>7. IsRecursion(Nodes, V, tree.size, rank, step)
  BY <1>2, <1>4, <1>5 DEF IsRecursion
<1>8. PICK g \in [Nodes -> V] : \A n \in Nodes : g[n] = step[n][g]
  <2> HIDE DEF V, rank, step
  <2> QED BY <1>1, <1>6, <1>7, RecursionHasSolution
<1>9. g = [n \in Nodes |-> OutcomeAt(g, status, n)]
  BY <1>8
<1> QED BY <1>9 DEF IsOutcome

\* Outcome is such a solution.
LEMMA OutcomeUnfolds ==
    ASSUME IsTree(tree), NEW status \in [Executables -> ExitStatuses]
    PROVE  IsOutcome(Outcome(status), status)
<1> DEFINE code == CHOOSE code : code = [n \in Nodes |-> OutcomeAt(code, status, n)]
<1>1. IsOutcome(code, status)
  BY OutcomeHasSolution DEF IsOutcome
<1>2. Outcome(status) = code
  BY DEF Outcome, OutcomeAt, DecidesAt, StopsAt
<1> HIDE DEF code
<1> QED BY <1>1, <1>2

\* An outcome is the status of a command, or none.
LEMMA OutcomeIsCode ==
    ASSUME IsTree(tree), NEW status \in [Executables -> ExitStatuses]
    PROVE  Outcome(status) \in [Nodes -> Codes]
<1> DEFINE code == Outcome(status)
           rank == [n \in Nodes |-> tree.size - n]
           Bad == {n \in Nodes : code[n] \notin Codes}
<1>1. tree.size \in Nat
  BY DEF IsTree
<1>2. code = [n \in Nodes |-> OutcomeAt(code, status, n)]
  BY OutcomeUnfolds DEF IsOutcome
<1> HIDE DEF code
<1>3. ASSUME NEW n \in Bad PROVE \E m \in Bad : rank[m] < rank[n]
  <2>1. n \in Nodes /\ code[n] = OutcomeAt(code, status, n) /\ code[n] \notin Codes
    BY <1>2
  <2>2. PICK m \in Operands(n) : code[n] = code[m]
    <3>1. n \in Executables => status[n] \in Codes
      BY DEF Codes
    <3>2. Uninitialised \in Codes /\ Exit(0) \in Codes
      BY DEF Codes
    <3> HIDE DEF Bad
    <3> QED BY <2>1, <3>1, <3>2, OutcomeCases
  <2>3. m \in Nodes /\ tree.size - m < tree.size - n
    BY <2>1, OperandIsLater
  <2> QED BY <2>1, <2>2, <2>3
<1>4. rank \in [Nodes -> 0..tree.size] /\ Bad \subseteq Nodes
  BY <1>1 DEF Nodes
<1>5. IsBottomless(Nodes, tree.size, rank, Bad)
  BY <1>1, <1>3, <1>4 DEF IsBottomless
<1>6. Bad = {}
  BY <1>5, RankDescent
<1>7. \A n \in Nodes : code[n] \in Codes
  BY <1>6
<1> QED BY <1>2, <1>7 DEF code

LEMMA AttributesParsed ==
    ASSUME NEW options \in Texts
    PROVE  ParsedAttributes(options) \in Seq(Attributes)
<1> DEFINE S == {i \in 1..Len(options) : options[i] \in Attributes}
           valid == Ascending(S)
           k == Cardinality(S)
<1>1. Len(options) \in Nat
  BY LenProperties DEF Texts
<1>2. IsFiniteSet(1..Len(options)) /\ S \in SUBSET (1..Len(options)) /\ S \in SUBSET Nat
  BY SMTT(60), <1>1, FS_Interval
<1>3. \A i \in S : options[i] \in Attributes
  OBVIOUS
<1> HIDE DEF S
<1>4. IsFiniteSet(S)
  BY <1>2, FS_Subset
<1>5. k \in Nat /\ valid \in [1..k -> S]
  BY <1>2, <1>4, AscendingFacts
<1>6. Len(valid) = k
  BY <1>5
<1>7. ParsedAttributes(options) = [i \in 1..k |-> options[valid[i]]]
  BY <1>6 DEF ParsedAttributes, S
<1>8. \A i \in 1..k : options[valid[i]] \in Attributes
  BY <1>3, <1>5
<1> HIDE DEF k, valid
<1>9. [i \in 1..k |-> options[valid[i]]] \in [1..k -> Attributes]
  <2> HIDE DEF Attributes
  <2> QED BY <1>8
<1> HIDE DEF Attributes
<1> QED BY <1>5, <1>7, <1>9

LEMMA RunStep ==
    ASSUME Inv, Run
    PROVE  Inv'
<1>1. /\ stage = "executing" /\ nodes' = nodes /\ work' = work
      /\ UNCHANGED builtinVars
      /\ argv' = argv /\ arguments' = arguments /\ report' = report
      /\ \/ stage' = "exited" /\ exit_status' = 1 /\ attributes' = attributes
         \/ /\ stage' = "printing" /\ exit_status' = exit_status
            /\ attributes' = ParsedAttributes(arguments.log_options)
  BY DEF Run, Exits, StartReport
<1>2. TypeInv /\ ProgressInv /\ PreorderInv /\ PipeInv
  BY DEF Inv
<1>3. IsTree(tree)
  BY <1>1 DEF Inv, BuiltTreeIsTree
<1>4. PICK status \in [Executables -> ExitStatuses] :
        executed' = Due(status) \cap Executables /\ root_code' = Outcome(status)[1]
  BY DEF Run
<1>5. root_code' \in Nat \cup {Uninitialised}
  <2>1. 1 \in Nodes
    BY <1>3, TreeFacts
  <2>2. root_code' \in Codes
    BY <1>3, <1>4, <2>1, OutcomeIsCode
  <2> QED BY <2>2, InputsAssumption DEF Codes, Exit
<1>6. clock' \in (Nat \X Nat) \X (Nat \X Nat)
  <2>1. clock' \in Clocks
    BY DEF Run
  <2>2. clock' \in (Nat \X (0..(NsPerSecond - 1))) \X (Nat \X (0..(NsPerSecond - 1)))
    BY <2>1, ClocksAssumption
  <2>3. 0..(NsPerSecond - 1) \subseteq Nat
    BY ClocksAssumption
  <2> QED BY <2>2, <2>3
<1>7. attributes' \in Seq(Attributes)
  <2>1. arguments.log_options \in Texts /\ attributes \in Seq(Attributes)
    BY <1>2 DEF TypeInv
  <2> QED BY <1>1, <2>1, AttributesParsed
<1>8. TypeInv'
  BY SMTT(60), <1>1, <1>2, <1>5, <1>6, <1>7 DEF TypeInv, Created, Stages, Uninitialised
<1>9. ProgressInv'
  BY <1>1, <1>2 DEF ProgressInv, Early
<1>10. PreorderInv' /\ PipeInv'
  BY <1>1, <1>2, PreorderKept
<1>11. CdInv' /\ BuiltTreeIsTree' /\ CdsGoToFollowers' /\ Executables' = Executables
  BY <1>1, BuiltinsKept DEF Inv
<1>12. executed' \subseteq Executables'
  BY <1>4, <1>11
<1>13. ReportInv'
  <2>1. report = <<>>
    BY <1>1, <1>2 DEF ProgressInv, Early
  <2>2. report' = <<>> /\ Len(<<>>) = 0
    BY <1>1, <2>1
  <2>3. Listed(report')
    BY <2>2 DEF Listed
  <2>4. PrintedTimeAddsUp'
    BY <2>2 DEF PrintedTimeAddsUp
  <2> QED BY <2>3, <2>4 DEF ReportInv
<1> QED BY <1>8, <1>9, <1>10, <1>11, <1>12, <1>13 DEF Inv

LEMMA ReturnStep ==
    ASSUME Inv, Return
    PROVE  Inv'
<1>1. /\ stage = "printing" /\ stage' = "exited"
      /\ nodes' = nodes /\ work' = work /\ UNCHANGED builtinVars
      /\ UNCHANGED reportVars
      /\ argv' = argv /\ arguments' = arguments /\ root_code' = root_code
  BY DEF Return, Exits
<1>2. TypeInv /\ ProgressInv
  BY DEF Inv
<1>3. exit_status' \in 0..255
  <2>1. PICK garbage \in {0, 1} :
          exit_status' = IF root_code = Uninitialised THEN garbage ELSE root_code % 256
    BY DEF Return, Exits
  <2>2. root_code \in Nat => root_code % 256 \in 0..255
    OBVIOUS
  <2> QED BY <1>2, <2>1, <2>2 DEF TypeInv
<1>4. TypeInv'
  BY <1>1, <1>2, <1>3 DEF TypeInv, Created, reportVars, Stages, Uninitialised
<1>5. ProgressInv'
  BY <1>1, <1>2 DEF ProgressInv, Early
<1> QED BY <1>1, <1>4, <1>5, TreeKept

-----------------------------------------------------------------------------
(* What is printed.                                                        *)

\* Division in C leaves a rest smaller than the divisor, of the sign of the dividend.
LEMMA QuotientRest ==
    ASSUME NEW a \in Int, NEW b \in Nat, b > 0
    PROVE  \E q, r \in Int :
             /\ Quotient(a, b) = q /\ a = q * b + r
             /\ a >= 0 => 0 <= r /\ r < b
             /\ a < 0 => -b < r /\ r <= 0
<1>1. CASE a >= 0
  <2>1. a \div b \in Int /\ a % b \in Int /\ a = (a \div b) * b + (a % b)
        /\ 0 <= a % b /\ a % b < b
    OBVIOUS
  <2>2. Quotient(a, b) = a \div b
    BY <1>1 DEF Quotient
  <2> QED BY <1>1, <2>1, <2>2
<1>2. CASE a < 0
  <2> DEFINE q == (-a) \div b
             r == (-a) % b
  <2>1. q \in Int /\ r \in Int /\ -a = q * b + r /\ 0 <= r /\ r < b
    <3>1. -a \in Int
      OBVIOUS
    <3> QED BY <3>1
  <2>2. Quotient(a, b) = -q
    BY <1>2 DEF Quotient
  <2> HIDE DEF q, r
  <2>3. -q \in Int /\ -r \in Int /\ a = (-q) * b + (-r) /\ -b < -r /\ -r <= 0
    BY <2>1
  <2>4. ~(a >= 0)
    BY <1>2
  <2> -q \in Int /\ -r \in Int
    BY <2>3
  <2> WITNESS -q \in Int, -r \in Int
  <2> QED BY <2>2, <2>3, <2>4
<1> QED BY <1>1, <1>2

LEMMA RestOfHours ==
    ASSUME NEW s \in Int, NEW h \in Int, NEW r \in Int, s = h * 3600 + r
    PROVE  s - h * 60 * 60 = r
OBVIOUS

LEMMA RestOfMinutes ==
    ASSUME NEW rest \in Int, NEW m \in Int, NEW r \in Int, rest = m * 60 + r,
           rest >= 0 => rest < 3600 /\ 0 <= r /\ r < 60,
           rest < 0 => -3600 < rest /\ -60 < r /\ r <= 0
    PROVE  -60 < m /\ m < 60 /\ -60 < r /\ r < 60
<1>1. CASE rest >= 0
  BY <1>1
<1>2. CASE rest < 0
  BY <1>2
<1> QED BY <1>1, <1>2

\* An hour, a minute and a second of a time in seconds.
LEMMA PrintedFacts ==
    ASSUME NEW t \in Int, NEW ns
    PROVE  LET time == Printed(<<t, ns>>)
           IN /\ time.ns = ns
              /\ (time.h * 60 + time.m) * 60 + time.s = t
              /\ time.m \in -59..59 /\ time.s \in -59..59
<1>1. PICK h \in Int, rest \in Int :
        /\ Quotient(t, 3600) = h /\ t = h * 3600 + rest
        /\ t >= 0 => 0 <= rest /\ rest < 3600
        /\ t < 0 => -3600 < rest /\ rest <= 0
  BY QuotientRest
<1>2. Quotient(t, 60 * 60) = h /\ t - h * 60 * 60 = rest
  <2>1. 60 * 60 = 3600
    OBVIOUS
  <2> QED BY <1>1, <2>1, RestOfHours
<1>3. PICK m \in Int, s \in Int :
        /\ Quotient(rest, 60) = m /\ rest = m * 60 + s
        /\ rest >= 0 => 0 <= s /\ s < 60
        /\ rest < 0 => -60 < s /\ s <= 0
  BY QuotientRest
<1>4. -60 < m /\ m < 60 /\ -60 < s /\ s < 60
  <2>1. rest >= 0 => rest < 3600
    BY <1>1
  <2>2. rest < 0 => -3600 < rest
    BY <1>1
  <2> QED BY <1>3, <2>1, <2>2, RestOfMinutes
<1>5. m \in -59..59 /\ s \in -59..59
  BY <1>4
<1>6. rest - m * 60 = s
  BY <1>3
<1>7. Printed(<<t, ns>>) = [h |-> h, m |-> m, s |-> s, ns |-> ns]
  <2> DEFINE time == <<t, ns>>
  <2>1. time[1] = t /\ time[2] = ns
    OBVIOUS
  <2> HIDE DEF time
  <2>2. Printed(time) = [h |-> h, m |-> m, s |-> s, ns |-> ns]
    BY <1>2, <1>3, <1>6, <2>1 DEF Printed
  <2> QED BY <2>2 DEF time
<1>8. (h * 60 + m) * 60 + s = t
  <2>1. (h * 60 + m) * 60 = h * 3600 + m * 60
    OBVIOUS
  <2> QED BY <1>1, <1>3, <2>1
<1> QED BY <1>5, <1>7, <1>8

\* A piece of the report whose total time, if it is one, adds up.
AddsUp(e) ==
    /\ e.kind = "value"
    /\ e.what[1] = "total_time"
    /\ e.node # NoNode
    =>
      LET time == e.what[2]
      IN /\ ((time.h * 60 + time.m) * 60 + time.s) * NsPerSecond + time.ns
              = (clock[2][1] - clock[1][1]) * NsPerSecond + clock[2][2] - clock[1][2]
         /\ time.m \in -59..59 /\ time.s \in -59..59

AllAddUp(s) == Listed(s) /\ \A i \in 1..Len(s) : AddsUp(s[i])

LEMMA MoreAddUp ==
    ASSUME NEW s, NEW t, AllAddUp(s), AllAddUp(t)
    PROVE  AllAddUp(s \o t)
<1>1. Len(s) \in Nat /\ Len(t) \in Nat
  BY ListedIsFunction DEF AllAddUp
<1>2. /\ Listed(s \o t) /\ Len(s \o t) = Len(s) + Len(t)
      /\ \A i \in 1..(Len(s) + Len(t)) :
           (s \o t)[i] = IF i <= Len(s) THEN s[i] ELSE t[i - Len(s)]
  BY ListedConcat DEF AllAddUp
<1>3. (\A i \in 1..Len(s) : AddsUp(s[i])) /\ (\A i \in 1..Len(t) : AddsUp(t[i]))
  BY DEF AllAddUp
<1>4. ASSUME NEW i \in 1..(Len(s) + Len(t)) PROVE AddsUp((s \o t)[i])
  <2>1. CASE i <= Len(s)
    <3>1. (s \o t)[i] = s[i] /\ i \in 1..Len(s)
      BY <1>1, <1>2, <2>1
    <3> QED BY <1>3, <3>1
  <2>2. CASE ~(i <= Len(s))
    <3>1. (s \o t)[i] = t[i - Len(s)] /\ i - Len(s) \in 1..Len(t)
      BY <1>1, <1>2, <2>2
    <3> QED BY <1>3, <3>1
  <2> QED BY <2>1, <2>2
<1> QED BY <1>2, <1>4 DEF AllAddUp

LEMMA PiecesAddUp ==
    ASSUME NEW a, NEW b, NEW c, NEW d, NEW e,
           AddsUp(a), AddsUp(b), AddsUp(c), AddsUp(d), AddsUp(e)
    PROVE  /\ AllAddUp(<<>>) /\ AllAddUp(<<a>>) /\ AllAddUp(<<a, b>>)
           /\ AllAddUp(<<a, b, c>>) /\ AllAddUp(<<a, b, c, d, e>>)
<1> DEFINE P == {a, b, c, d, e}
<1>1. /\ <<>> \in Seq(P) /\ <<a>> \in Seq(P) /\ <<a, b>> \in Seq(P)
      /\ <<a, b, c>> \in Seq(P) /\ <<a, b, c, d, e>> \in Seq(P)
  OBVIOUS
<1>2. \A p \in P : AddsUp(p)
  OBVIOUS
<1> HIDE DEF P
<1>3. ASSUME NEW s \in Seq(P) PROVE AllAddUp(s)
  <2>1. \A i \in 1..Len(s) : s[i] \in P
    BY ElementOfSeq
  <2> QED BY <1>2, <2>1, SeqIsListed DEF AllAddUp
<1> QED BY <1>1, <1>3

LEMMA MarksAddUp ==
    /\ AddsUp(Comma) /\ AddsUp(Newline) /\ AddsUp(Div) /\ AddsUp(EndDiv)
    /\ \A n : AddsUp(Row(n)) /\ AddsUp(Value(n, <<"arguments">>))
    /\ \A n, x : AddsUp(Value(n, <<"executed", x>>)) /\ AddsUp(Value(NoNode, x))
BY DEF AddsUp, Comma, Newline, Div, EndDiv, Mark, Row, Value

\* The total time that is printed for a command.
LEMMA AttributeAddsUp ==
    ASSUME TypeInv, NEW n, NEW attribute
    PROVE  AddsUp(AttributeValue(n, attribute))
<1> DEFINE start == clock[1]
           end == clock[2]
           t == end[1] - start[1]
           ns == end[2] - start[2]
           time == Printed(<<t, ns>>)
<1>1. start \in Nat \X Nat /\ end \in Nat \X Nat
  BY DEF TypeInv
<1>2. t \in Int /\ ns \in Int /\ start[2] \in Nat /\ end[2] \in Nat
  BY <1>1
<1>3. CASE attribute = "total_time"
  <2>1. AttributeValue(n, attribute) = Value(n, <<attribute, time>>)
    BY <1>3 DEF AttributeValue, TotalClockTime
  <2> HIDE DEF t, ns
  <2>2. /\ time.ns = ns /\ (time.h * 60 + time.m) * 60 + time.s = t
        /\ time.m \in -59..59 /\ time.s \in -59..59
    BY <1>2, PrintedFacts
  <2> HIDE DEF time, start, end
  <2>3. ((time.h * 60 + time.m) * 60 + time.s) * NsPerSecond + time.ns
          = t * NsPerSecond + ns
    BY <2>2
  <2>4. t * NsPerSecond + ns = t * NsPerSecond + end[2] - start[2]
    <3>1. t * NsPerSecond \in Int
      BY <1>2, ClocksAssumption
    <3> QED BY <1>2, <3>1 DEF ns
  <2>5. Value(n, <<attribute, time>>).what[2] = time
    BY DEF Value
  <2> QED BY <2>1, <2>2, <2>3, <2>4, <2>5 DEF AddsUp, t, start, end
<1>4. CASE attribute # "total_time"
  BY <1>4 DEF AttributeValue, Value, AddsUp
<1> QED BY <1>3, <1>4

LEMMA CsvHeadAddsUp ==
    ASSUME TypeInv
    PROVE  AllAddUp(CsvHead)
<1> DEFINE a == <<Value(NoNode, <<"executable_name">>)>>
           k == Len(attributes)
           b == [i \in 1..k |-> Value(NoNode, <<attributes[i]>>)]
           names == a \o b
           row == [i \in 1..(2 * Len(names) - 1) |->
                     IF i % 2 = 1 THEN names[(i + 1) \div 2] ELSE Comma]
           Heads == {Value(NoNode, x) : x \in {<<"executable_name">>} \cup
                                              {<<attributes[i]>> : i \in 1..k}}
<1>1. k \in Nat
  BY LenProperties DEF TypeInv
<1>2. \A e \in Heads : AddsUp(e)
  BY MarksAddUp
<1>3. a \in Seq(Heads) /\ b \in Seq(Heads)
  <2>1. \A i \in 1..k : Value(NoNode, <<attributes[i]>>) \in Heads
    OBVIOUS
  <2>2. Value(NoNode, <<"executable_name">>) \in Heads
    OBVIOUS
  <2> HIDE DEF Heads, k
  <2>3. b \in [1..k -> Heads]
    BY <2>1
  <2>4. b \in Seq(Heads)
    <3> HIDE DEF b
    <3> QED BY <1>1, <2>3
  <2> QED BY <2>2, <2>4
<1>4. names \in Seq(Heads) /\ Len(names) >= 1
  <2>1. Len(a) = 1
    OBVIOUS
  <2> HIDE DEF Heads, a, b, k
  <2>2. Len(b) \in Nat
    BY <1>3, LenProperties
  <2> QED BY <1>3, <2>1, <2>2, ConcatProperties
<1> HIDE DEF Heads, a, b, k
<1> HIDE DEF names
<1> DEFINE c == 2 * Len(names) - 1
<1>5. Len(names) \in Nat /\ Len(names) >= 1 /\ \A j \in 1..Len(names) : AddsUp(names[j])
  BY <1>2, <1>4, LenProperties, ElementOfSeq
<1>6. ASSUME NEW i \in 1..c PROVE AddsUp(row[i])
  <2>1. CASE i % 2 = 1
    <3>1. (i + 1) \div 2 \in 1..Len(names)
      BY <1>5
    <3> QED BY <1>5, <2>1, <3>1
  <2>2. CASE i % 2 # 1
    BY <2>2, MarksAddUp
  <2> QED BY <2>1, <2>2
<1>7. AllAddUp(row)
  <2>1. DOMAIN row = 1..c /\ row = [i \in 1..c |-> row[i]]
    OBVIOUS
  <2>2. c \in Nat
    BY <1>5
  <2> HIDE DEF row, c
  <2>3. Listed(row) /\ Len(row) = c
    BY <2>1, <2>2, FunctionIsListed
  <2> QED BY <1>6, <2>3 DEF AllAddUp
<1>8. CsvHead = row \o <<Newline>>
  BY DEF CsvHead, names, a, b, k
<1>9. AllAddUp(<<Newline>>)
  BY MarksAddUp, PiecesAddUp
<1> HIDE DEF row
<1> QED BY <1>7, <1>8, <1>9, MoreAddUp

\* Whatever a printer writes adds up.
LEMMA PrintedAddsUp ==
    ASSUME TypeInv, Printing, AllAddUp(report)
    PROVE  AllAddUp(report')
<1> DEFINE n == Head(agenda).node
           value == AttributeValue(n, Head(agenda).attribute)
<1>1. CASE PrintHead
  <2>1. report' = report \o CsvHead \/ report' = report
    BY <1>1 DEF PrintHead
  <2> QED BY <2>1, CsvHeadAddsUp, MoreAddUp
<1>2. CASE PrintNode
  BY <1>2 DEF PrintNode
<1>3. CASE EnterOperandNode
  <2>1. report' = report \o <<Div, Div>> \/ report' = report
    BY <1>3 DEF EnterOperandNode
  <2>2. AllAddUp(<<Div, Div>>)
    BY MarksAddUp, PiecesAddUp
  <2> QED BY <2>1, <2>2, MoreAddUp
<1>4. CASE ExitOperandNode
  <2>1. report' = report \o <<EndDiv, EndDiv>> \/ report' = report
    BY <1>4 DEF ExitOperandNode
  <2>2. AllAddUp(<<EndDiv, EndDiv>>)
    BY MarksAddUp, PiecesAddUp
  <2> QED BY <2>1, <2>2, MoreAddUp
<1>5. CASE ExecutableHead
  <2>1. CASE TxtExecutableHead(n)
    <3>1. report' = report \o <<Row(n), Newline>>
      BY <2>1 DEF TxtExecutableHead
    <3>2. AllAddUp(<<Row(n), Newline>>)
      BY MarksAddUp, PiecesAddUp
    <3> QED BY <3>1, <3>2, MoreAddUp
  <2>2. CASE CsvExecutableHead(n)
    <3>1. report' = report \o CsvValue(Row(n))
      BY <2>2 DEF CsvExecutableHead
    <3>2. AllAddUp(<<Comma>>) /\ AllAddUp(<<>>) /\ AllAddUp(<<Row(n)>>)
      BY MarksAddUp, PiecesAddUp
    <3>3. AllAddUp(CsvValue(Row(n)))
      BY <3>2, MoreAddUp DEF CsvValue
    <3> QED BY <3>1, <3>3, MoreAddUp
  <2>3. CASE HtmlExecutableHead(n)
    <3> DEFINE more == <<Div, Row(n), Div, Value(n, <<"arguments">>), EndDiv>>
               last == <<Div, Value(n, <<"executed", n \in executed>>), EndDiv>>
    <3>1. report' = report \o more \o last
      BY <2>3 DEF HtmlExecutableHead
    <3>2. AllAddUp(more) /\ AllAddUp(last)
      BY MarksAddUp, PiecesAddUp
    <3> HIDE DEF more, last
    <3>3. AllAddUp(report \o more)
      BY <3>2, MoreAddUp
    <3> QED BY <3>1, <3>2, <3>3, MoreAddUp
  <2> QED BY <1>5, <2>1, <2>2, <2>3 DEF ExecutableHead
<1>6. CASE PrintAttribute
  <2>1. AddsUp(value) /\ AddsUp(Div) /\ AddsUp(EndDiv) /\ AddsUp(Comma)
    BY AttributeAddsUp, MarksAddUp
  <2> HIDE DEF value
  <2>2. TxtAttribute(value) \/ CsvAttribute(value) \/ HtmlAttribute(value)
    BY <1>6 DEF PrintAttribute, value
  <2>3. CASE TxtAttribute(value)
    <3>1. AllAddUp(<<value, Newline>>)
      BY <2>1, MarksAddUp, PiecesAddUp
    <3> QED BY <2>3, <3>1, MoreAddUp DEF TxtAttribute
  <2>4. CASE CsvAttribute(value)
    <3>1. AllAddUp(<<Comma>>) /\ AllAddUp(<<>>) /\ AllAddUp(<<value>>)
      BY <2>1, PiecesAddUp
    <3>2. AllAddUp(CsvValue(value))
      BY <3>1, MoreAddUp DEF CsvValue
    <3> QED BY <2>4, <3>2, MoreAddUp DEF CsvAttribute
  <2>5. CASE HtmlAttribute(value)
    <3>1. AllAddUp(<<value>>) /\ AllAddUp(<<Div, value, EndDiv>>)
      BY <2>1, PiecesAddUp
    <3> QED BY <2>5, <3>1, MoreAddUp DEF HtmlAttribute
  <2> QED BY <2>2, <2>3, <2>4, <2>5
<1>7. CASE ExecutableFoot
  <2>1. report' = report \o <<EndDiv>> \/ report' = report \o <<Newline>>
    BY <1>7 DEF ExecutableFoot
  <2>2. AllAddUp(<<EndDiv>>) /\ AllAddUp(<<Newline>>)
    BY MarksAddUp, PiecesAddUp
  <2> QED BY <2>1, <2>2, MoreAddUp
<1>8. CASE PrintFoot
  <2>1. report' = report \o <<Newline, Newline, Newline>> \/ report' = report
    BY <1>8 DEF PrintFoot
  <2>2. AllAddUp(<<Newline, Newline, Newline>>)
    BY MarksAddUp, PiecesAddUp
  <2> QED BY <2>1, <2>2, MoreAddUp
<1> QED BY <1>1, <1>2, <1>3, <1>4, <1>5, <1>6, <1>7, <1>8 DEF Printing

LEMMA ReportAddsUp ==
    ReportInv <=> AllAddUp(report)
BY DEF ReportInv, AllAddUp, AddsUp, PrintedTimeAddsUp

LEMMA PrintStep ==
    ASSUME Inv, PrintResults
    PROVE  Inv'
<1>1. /\ stage = "printing" /\ stage' = stage /\ nodes' = nodes /\ work' = work
      /\ UNCHANGED builtinVars
      /\ executed' = executed /\ clock' = clock /\ attributes' = attributes
      /\ argv' = argv /\ arguments' = arguments /\ root_code' = root_code
      /\ exit_status' = exit_status /\ Printing
  BY DEF PrintResults, Printing, parserVars, mainVars
<1>2. TypeInv /\ ProgressInv /\ PreorderInv /\ PipeInv /\ AllAddUp(report)
  BY ReportAddsUp DEF Inv
<1>3. TypeInv'
  BY <1>1, <1>2 DEF TypeInv, Created
<1>4. ProgressInv'
  BY <1>1, <1>2 DEF ProgressInv, Early
<1>5. PreorderInv' /\ PipeInv'
  BY <1>1, <1>2, PreorderKept
<1>6. CdInv' /\ BuiltTreeIsTree' /\ CdsGoToFollowers' /\ Executables' = Executables
  BY SMTT(60), <1>1, BuiltinsKept DEF Inv
<1>7. ReportInv'
  <2>1. AllAddUp(report')
    BY <1>1, <1>2, PrintedAddsUp
  <2> QED BY <1>1, <2>1 DEF AllAddUp, AddsUp, ReportInv, PrintedTimeAddsUp
<1> QED BY <1>1, <1>3, <1>4, <1>5, <1>6, <1>7 DEF Inv

-----------------------------------------------------------------------------
(* Outcome and Due are what Evaluation arrives at.                         *)

\* Every operator has something to execute.
NothingEmpty == \A n \in Nodes \ Executables : Operands(n) # {}

LEMMA OutcomeIsEnded ==
    ASSUME IsTree(tree), NothingEmpty, NEW status \in [Executables -> ExitStatuses]
    PROVE  Outcome(status) \in [Nodes -> Nat]
<1> DEFINE code == Outcome(status)
           rank == [n \in Nodes |-> tree.size - n]
           Bad == {n \in Nodes : code[n] \notin Nat}
<1>1. tree.size \in Nat
  BY DEF IsTree
<1>2. code = [n \in Nodes |-> OutcomeAt(code, status, n)]
  BY OutcomeUnfolds DEF IsOutcome
<1> HIDE DEF code
<1>3. ASSUME NEW n \in Bad PROVE \E m \in Bad : rank[m] < rank[n]
  <2>1. n \in Nodes /\ code[n] = OutcomeAt(code, status, n) /\ code[n] \notin Nat
    BY <1>2
  <2>2. PICK m \in Operands(n) : code[n] = code[m]
    <3>1. n \in Executables => status[n] \in Nat
      BY InputsAssumption
    <3>2. Exit(0) \in Nat
      BY DEF Exit
    <3>3. n \notin Executables => Operands(n) # {}
      BY <2>1 DEF NothingEmpty
    <3> HIDE DEF Bad
    <3> QED BY <2>1, <3>1, <3>2, <3>3, OutcomeCases
  <2>3. m \in Nodes /\ tree.size - m < tree.size - n
    BY <2>1, OperandIsLater
  <2> QED BY <2>1, <2>2, <2>3
<1>4. rank \in [Nodes -> 0..tree.size] /\ Bad \subseteq Nodes
  BY <1>1 DEF Nodes
<1>5. IsBottomless(Nodes, tree.size, rank, Bad)
  BY <1>1, <1>3, <1>4 DEF IsBottomless
<1>6. Bad = {}
  BY <1>5, RankDescent
<1>7. \A n \in Nodes : code[n] \in Nat
  BY <1>6
<1> QED BY <1>2, <1>7 DEF code

\* What the operands before n have ended with when execute_async() is called with n.
CalledBy(code, n) ==
    \A m \in EarlierOperands(tree.father[n], n) :
      CASE tree.type[tree.father[n]] = "Pipe" -> TRUE
        [] tree.type[tree.father[n]] = "And" ->
             code[m] # Uninitialised /\ ExitedCorrectly(code[m])
        [] tree.type[tree.father[n]] = "Or" ->
             code[m] # Uninitialised /\ ~ExitedCorrectly(code[m])
        [] tree.type[tree.father[n]] = "Semicolon" -> code[m] # Uninitialised

DueStep(due, code, n) == n = 1 \/ (due[tree.father[n]] /\ CalledBy(code, n))

LEMMA DueUnfolds ==
    ASSUME IsTree(tree), NEW status
    PROVE  /\ Due(status) \subseteq Nodes
           /\ 1 \in Due(status)
           /\ \A n \in Nodes \ {1} :
                n \in Due(status) <=> /\ tree.father[n] \in Due(status)
                                      /\ CalledBy(Outcome(status), n)
<1> DEFINE code == Outcome(status)
           rank == [n \in Nodes |-> n]
           step == [n \in Nodes |->
                      [g \in [Nodes -> BOOLEAN] |-> DueStep(g, code, n)]]
           due == CHOOSE due : due = [n \in Nodes |-> DueStep(due, code, n)]
<1>1. tree.size \in Nat /\ 1 \in Nodes
  BY TreeFacts DEF IsTree
<1>2. ASSUME NEW n \in Nodes, n # 1
      PROVE  tree.father[n] \in Nodes /\ tree.father[n] < n
  <2>1. n \in 2..tree.size
    BY <1>1, <1>2 DEF Nodes
  <2>2. tree.father[n] \in 1..(n - 1)
    BY <2>1 DEF IsTree
  <2> QED BY <1>1, <2>1, <2>2 DEF Nodes
<1> HIDE DEF code
<1>3. ASSUME NEW n \in Nodes, NEW g \in [Nodes -> BOOLEAN]
      PROVE  DueStep(g, code, n) \in BOOLEAN
  BY DEF DueStep
<1>4. ASSUME NEW n \in Nodes, NEW g \in [Nodes -> BOOLEAN], NEW h \in [Nodes -> BOOLEAN],
             \A m \in Nodes : rank[m] < rank[n] => g[m] = h[m]
      PROVE  step[n][g] = step[n][h]
  <2>1. n # 1 => g[tree.father[n]] = h[tree.father[n]]
    BY <1>2, <1>4
  <2>2. DueStep(g, code, n) = DueStep(h, code, n)
    BY <2>1 DEF DueStep
  <2> QED BY <2>2
<1>5. step \in [Nodes -> [[Nodes -> BOOLEAN] -> BOOLEAN]]
  BY <1>3
<1>6. rank \in [Nodes -> 0..tree.size]
  BY <1>1 DEF Nodes
<1>7. IsRecursion(Nodes, BOOLEAN, tree.size, rank, step)
  BY <1>4, <1>5, <1>6 DEF IsRecursion
<1>8. PICK g \in [Nodes -> BOOLEAN] : \A n \in Nodes : g[n] = step[n][g]
  <2> HIDE DEF rank, step
  <2> DEFINE B == BOOLEAN
  <2>1. B # {}
    OBVIOUS
  <2>2. IsRecursion(Nodes, B, tree.size, rank, step)
    BY <1>7
  <2>3. \E g \in [Nodes -> B] : \A n \in Nodes : g[n] = step[n][g]
    <3> HIDE DEF B
    <3> QED BY <1>1, <2>1, <2>2, RecursionHasSolution
  <2> QED BY <2>3
<1>9. g = [n \in Nodes |-> DueStep(g, code, n)]
  BY <1>8
<1>10. due = [n \in Nodes |-> DueStep(due, code, n)]
  BY <1>9, Zenon
<1>11. Due(status) = {n \in Nodes : due[n]}
  BY DEF Due, DueStep, CalledBy, code
<1> HIDE DEF due
<1>12. \A n \in Nodes : due[n] <=> DueStep(due, code, n)
  BY <1>10, Zenon
<1> QED BY <1>1, <1>2, <1>11, <1>12, Zenon DEF DueStep, code

\* The equations that Value and Due of Evaluation solve.
ValueAt(val, status, n) ==
    LET ops == Operands(n)
        failures == {m \in ops : val[m] # Uninitialised /\ ~ExitedCorrectly(val[m])}
        successes == {m \in ops : val[m] # Uninitialised /\ ExitedCorrectly(val[m])}
        allEnded == \A m \in ops : val[m] # Uninitialised
    IN
    CASE tree.type[n] = "Executable" -> status[n]
      [] tree.type[n] # "Executable" /\ ops = {} -> Exit(0)
      [] tree.type[n] = "And" /\ ops # {} ->
           IF failures # {} THEN val[First(failures)]
           ELSE IF allEnded THEN Exit(0) ELSE Uninitialised
      [] tree.type[n] = "Or" /\ ops # {} ->
           IF successes # {} THEN Exit(0)
           ELSE IF allEnded THEN val[Last(ops)] ELSE Uninitialised
      [] tree.type[n] \in {"Semicolon", "Pipe"} /\ ops # {} -> val[Last(ops)]

AskedFor(due, value, n) ==
    \/ n = 1
    \/ LET father == tree.father[n]
           earlier == EarlierOperands(father, n)
       IN /\ due[father]
          /\ tree.type[father] = "And" =>
               \A m \in earlier : value[m] # Uninitialised /\ ExitedCorrectly(value[m])
          /\ tree.type[father] = "Or" =>
               \A m \in earlier : value[m] # Uninitialised /\ ~ExitedCorrectly(value[m])
          /\ tree.type[father] = "Semicolon" =>
               \A m \in earlier : value[m] # Uninitialised

LEMMA SameOperators ==
    ASSUME NEW d, NEW e
    PROVE  /\ Evaluated(d, e)!Nodes = Nodes
           /\ Evaluated(d, e)!Executables = Executables
           /\ Evaluated(d, e)!Uninitialised = Uninitialised
           /\ \A n : Evaluated(d, e)!Operands(n) = Operands(n)
           /\ \A n, m : Evaluated(d, e)!EarlierOperands(n, m) = EarlierOperands(n, m)
           /\ \A S : Evaluated(d, e)!First(S) = First(S) /\ Evaluated(d, e)!Last(S) = Last(S)
           /\ \A s : Evaluated(d, e)!Exit(s) = Exit(s)
           /\ \A s : Evaluated(d, e)!ExitedCorrectly(s) <=> ExitedCorrectly(s)
<1>1. Evaluated(d, e)!Nodes = Nodes
  BY DEF Evaluated!Nodes, Nodes
<1>2. Evaluated(d, e)!Executables = Executables
  BY <1>1 DEF Evaluated!Executables, Executables
<1>3. \A n : Evaluated(d, e)!Operands(n) = Operands(n)
  BY <1>1 DEF Evaluated!Operands, Operands
<1>4. \A n, m : Evaluated(d, e)!EarlierOperands(n, m) = EarlierOperands(n, m)
  BY <1>3 DEF Evaluated!EarlierOperands, EarlierOperands
<1>5. \A S : Evaluated(d, e)!First(S) = First(S) /\ Evaluated(d, e)!Last(S) = Last(S)
  BY DEF Evaluated!First, First, Evaluated!Last, Last
<1>6. \A s : Evaluated(d, e)!ExitedCorrectly(s) <=> ExitedCorrectly(s)
  BY DEF Evaluated!ExitedCorrectly, ExitedCorrectly, Evaluated!WIFEXITED, WIFEXITED,
         Evaluated!WEXITSTATUS, WEXITSTATUS
<1> QED
  BY <1>1, <1>2, <1>3, <1>4, <1>5, <1>6
  DEF Evaluated!Uninitialised, Uninitialised, Evaluated!Exit, Exit

LEMMA ValueUnfolds ==
    ASSUME NEW d, NEW e, NEW g, g = [n \in Nodes |-> ValueAt(g, e, n)]
    PROVE  LET v == Evaluated(d, e)!Value IN v = [n \in Nodes |-> ValueAt(v, e, n)]
BY ZenonT(60)
DEF Evaluated!Value, ValueAt, Evaluated!Nodes, Nodes, Evaluated!Operands, Operands,
    Evaluated!FailedWith, Evaluated!Succeeded, Evaluated!Ended, Evaluated!Uninitialised,
    Uninitialised, Evaluated!Exit, Exit, Evaluated!First, First, Evaluated!Last, Last,
    Evaluated!ExitedCorrectly, ExitedCorrectly, Evaluated!WIFEXITED, WIFEXITED,
    Evaluated!WEXITSTATUS, WEXITSTATUS

\* The same in the words of Evaluation.
DueAt(d, e, due, n) ==
    \/ n = 1
    \/ LET father == tree.father[n]
           earlier == Evaluated(d, e)!EarlierOperands(father, n)
       IN /\ due[father]
          /\ tree.type[father] = "And" =>
               \A m \in earlier : Evaluated(d, e)!Succeeded(Evaluated(d, e)!Value[m])
          /\ tree.type[father] = "Or" =>
               \A m \in earlier : Evaluated(d, e)!FailedWith(Evaluated(d, e)!Value[m])
          /\ tree.type[father] = "Semicolon" =>
               \A m \in earlier : Evaluated(d, e)!Ended(Evaluated(d, e)!Value[m])

LEMMA DueAtIsAskedFor ==
    ASSUME NEW d, NEW e, NEW due, NEW n
    PROVE  DueAt(d, e, due, n) = AskedFor(due, Evaluated(d, e)!Value, n)
<1> DEFINE v == Evaluated(d, e)!Value
<1>1. \A m : /\ Evaluated(d, e)!Ended(v[m]) <=> v[m] # Uninitialised
             /\ Evaluated(d, e)!Succeeded(v[m])
                  <=> v[m] # Uninitialised /\ ExitedCorrectly(v[m])
             /\ Evaluated(d, e)!FailedWith(v[m])
                  <=> v[m] # Uninitialised /\ ~ExitedCorrectly(v[m])
  BY SameOperators, Zenon DEF Evaluated!Ended, Evaluated!Succeeded, Evaluated!FailedWith
<1>2. \A f : Evaluated(d, e)!EarlierOperands(f, n) = EarlierOperands(f, n)
  BY SameOperators
<1> HIDE DEF v
<1>3. DueAt(d, e, due, n) <=> AskedFor(due, v, n)
  BY <1>1, <1>2, Zenon DEF DueAt, AskedFor, v
<1>4. DueAt(d, e, due, n) \in BOOLEAN /\ AskedFor(due, v, n) \in BOOLEAN
  BY Zenon DEF DueAt, AskedFor
<1> QED BY <1>3, <1>4 DEF v

LEMMA AskedForUnfolds ==
    ASSUME NEW d, NEW e,
           NEW g, g = [n \in Nodes |-> AskedFor(g, Evaluated(d, e)!Value, n)]
    PROVE  \E due : /\ due = [n \in Nodes |-> AskedFor(due, Evaluated(d, e)!Value, n)]
                    /\ Evaluated(d, e)!Due = {n \in Executables : due[n]}
<1>1. /\ Evaluated(d, e)!Nodes = Nodes /\ Evaluated(d, e)!Executables = Executables
      /\ \A h : [n \in Nodes |-> AskedFor(h, Evaluated(d, e)!Value, n)]
                 = [n \in Nodes |-> DueAt(d, e, h, n)]
  BY SameOperators, DueAtIsAskedFor, Zenon
<1>2. g = [n \in Evaluated(d, e)!Nodes |-> DueAt(d, e, g, n)]
  BY <1>1
<1> DEFINE due == CHOOSE due : due = [n \in Evaluated(d, e)!Nodes |-> DueAt(d, e, due, n)]
<1>3. due = [n \in Evaluated(d, e)!Nodes |-> DueAt(d, e, due, n)]
  BY <1>2, Zenon
<1>4. Evaluated(d, e)!Due = {n \in Evaluated(d, e)!Executables : due[n]}
  BY DEF Evaluated!Due, DueAt
<1> HIDE DEF due
<1> QED BY <1>1, <1>3, <1>4, Zenon

\* The statuses of the executables once those that are due have ended, and the
\* values of the nodes that result.
EndedAs(status) ==
    [n \in Executables |-> IF n \in Due(status) \cap Executables THEN status[n]
                           ELSE Uninitialised]

ValueOf(status) ==
    [n \in Nodes |-> IF n \in Due(status) THEN Outcome(status)[n] ELSE Uninitialised]

\* What the operands of an operator that is due, or is not, have come to.
LEMMA OperandsDue ==
    ASSUME IsTree(tree), NothingEmpty, NEW status \in [Executables -> ExitStatuses],
           NEW n \in Nodes
    PROVE  LET code == Outcome(status)
               value == ValueOf(status)
           IN /\ \A m \in Operands(n) :
                   /\ m \in Nodes /\ code[m] # Uninitialised
                   /\ value[m] = IF m \in Due(status) THEN code[m] ELSE Uninitialised
              /\ n \notin Due(status) => \A m \in Operands(n) : m \notin Due(status)
              /\ n \in Due(status) => \A m \in Operands(n) :
                   /\ tree.type[n] \in {"Semicolon", "Pipe"} => m \in Due(status)
                   /\ tree.type[n] = "And" =>
                        (m \in Due(status) <=>
                           \A k \in Operands(n) : k < m => ExitedCorrectly(code[k]))
                   /\ tree.type[n] = "Or" =>
                        (m \in Due(status) <=>
                           \A k \in Operands(n) : k < m => ~ExitedCorrectly(code[k]))
<1> DEFINE code == Outcome(status)
           value == ValueOf(status)
           D == Due(status)
<1>1. \A m \in Nodes : code[m] \in Nat
  BY OutcomeIsEnded
<1>2. \A m \in Nodes : value[m] = IF m \in D THEN code[m] ELSE Uninitialised
  BY DEF ValueOf
<1>3. \A m \in Nodes \ {1} : m \in D <=> tree.father[m] \in D /\ CalledBy(code, m)
  BY DueUnfolds
<1> HIDE DEF code, value, D
<1>4. ASSUME NEW m \in Operands(n)
      PROVE  m \in Nodes \ {1} /\ tree.father[m] = n /\ n \in Nat /\ m \in Nat
  BY OperandIsLater, TreeFacts DEF Operands, NoNode
<1>5. ASSUME NEW m \in Operands(n)
      PROVE  code[m] # Uninitialised
  BY <1>1, <1>4 DEF Uninitialised
<1>6. ASSUME NEW m \in Operands(n), m \in D PROVE n \in D
  BY <1>3, <1>4, <1>6
<1>7. ASSUME n \in D, NEW m \in Operands(n)
      PROVE  /\ tree.type[n] \in {"Semicolon", "Pipe"} => m \in D
             /\ tree.type[n] = "And" =>
                  (m \in D <=> \A k \in Operands(n) : k < m => ExitedCorrectly(code[k]))
             /\ tree.type[n] = "Or" =>
                  (m \in D <=> \A k \in Operands(n) : k < m => ~ExitedCorrectly(code[k]))
  <2>1. m \in D <=> CalledBy(code, m)
    BY <1>3, <1>4, <1>7
  <2>2. \A k : k \in EarlierOperands(n, m) <=> k \in Operands(n) /\ k < m
    BY DEF EarlierOperands
  <2>3. tree.father[m] = n
    BY <1>4
  <2>4. CASE tree.type[n] \in {"Semicolon", "Pipe"}
    BY <1>5, <2>1, <2>2, <2>3, <2>4 DEF CalledBy
  <2>5. CASE tree.type[n] = "And"
    BY <1>5, <2>1, <2>2, <2>3, <2>5 DEF CalledBy
  <2>6. CASE tree.type[n] = "Or"
    BY <1>5, <2>1, <2>2, <2>3, <2>6 DEF CalledBy
  <2> QED BY <2>4, <2>5, <2>6
<1> QED BY <1>2, <1>4, <1>5, <1>6, <1>7 DEF code, value, D

LEMMA ValueSolves ==
    ASSUME IsTree(tree), NothingEmpty, NEW status \in [Executables -> ExitStatuses],
           NEW n \in Nodes
    PROVE  ValueAt(ValueOf(status), EndedAs(status), n) = ValueOf(status)[n]
<1> DEFINE code == Outcome(status)
           value == ValueOf(status)
           D == Due(status)
           ops == Operands(n)
           failures == {m \in ops : value[m] # Uninitialised /\ ~ExitedCorrectly(value[m])}
           successes == {m \in ops : value[m] # Uninitialised /\ ExitedCorrectly(value[m])}
           stops == StopsAt(code, n)
           d == DecidesAt(code, n)
<1>1. /\ \A m \in ops : /\ m \in Nodes /\ code[m] # Uninitialised
                         /\ value[m] = IF m \in D THEN code[m] ELSE Uninitialised
      /\ n \notin D => \A m \in ops : m \notin D
  BY OperandsDue
<1>2. value[n] = IF n \in D THEN code[n] ELSE Uninitialised
  BY DEF ValueOf
<1>3. code[n] = OutcomeAt(code, status, n)
  BY OutcomeUnfolds, Zenon DEF IsOutcome
<1>4. tree.type[n] \in NodeTypes
  BY TreeFacts
<1>5. CASE tree.type[n] = "Executable"
  <2>1. n \in Executables
    BY <1>5 DEF Executables
  <2>2. code[n] = status[n]
    BY <1>3, <1>5 DEF OutcomeAt
  <2>3. ValueAt(value, EndedAs(status), n) = EndedAs(status)[n]
    BY <1>5 DEF ValueAt
  <2>4. EndedAs(status)[n] = IF n \in D THEN status[n] ELSE Uninitialised
    BY <2>1 DEF EndedAs
  <2> HIDE DEF value, code, D
  <2>5. ValueAt(value, EndedAs(status), n) = value[n]
    BY <1>2, <2>2, <2>3, <2>4
  <2> QED BY <2>5 DEF value
<1>6. CASE tree.type[n] # "Executable"
  <2>1. n \notin Executables /\ ops # {} /\ ops \in SUBSET (0..tree.size)
        /\ ops \in SUBSET Nat /\ tree.size \in Nat
    BY <1>6, TreeFacts DEF NothingEmpty, Executables, IsTree, Operands, Nodes
  <2>2. \A S \in SUBSET ops : S # {} => First(S) \in S /\ \A k \in S : First(S) <= k
    <3> SUFFICES ASSUME NEW S \in SUBSET ops, S # {}
                 PROVE  First(S) \in S /\ \A k \in S : First(S) <= k
      OBVIOUS
    <3>1. S \in SUBSET Nat
      BY <2>1
    <3> QED BY <3>1, FirstIsLeast
  <2>3. Last(ops) \in ops
    BY <2>1, LastIsGreatest
  <2>4. /\ d \in ops
        /\ code[n] = IF tree.type[n] \in {"And", "Or"} /\ ExitedCorrectly(code[d])
                       THEN Exit(0) ELSE code[d]
        /\ d = IF stops = {} THEN Last(ops) ELSE First(stops)
    BY <1>3, <2>1, OutcomeCases DEF DecidesAt
  <2>5. stops = {m \in ops : \/ tree.type[n] = "And" /\ ~ExitedCorrectly(code[m])
                             \/ tree.type[n] = "Or" /\ ExitedCorrectly(code[m])}
    BY <1>1 DEF StopsAt
  <2>6. failures \in SUBSET ops /\ successes \in SUBSET ops /\ stops \in SUBSET ops
    BY <2>5
  <2>7. \A k, m \in ops : k \in Nat /\ m \in Nat
    BY <2>1
  <2>8. CASE tree.type[n] = "And"
    <3>1. n \in D => \A m \in ops :
            m \in D <=> \A k \in ops : k < m => ExitedCorrectly(code[k])
      BY <2>8, OperandsDue
    <3>2. ValueAt(value, EndedAs(status), n) =
            IF failures # {} THEN value[First(failures)]
            ELSE IF \A m \in ops : value[m] # Uninitialised THEN Exit(0)
            ELSE Uninitialised
      BY <2>1, <2>8 DEF ValueAt
    <3> HIDE DEF value, code, D, ops, stops, d
    <3>3. CASE n \notin D
      <4>1. failures = {} /\ ~(\A m \in ops : value[m] # Uninitialised)
        BY <1>1, <2>1, <3>3
      <4> HIDE DEF failures
      <4>2. ValueAt(value, EndedAs(status), n) = value[n]
        BY <1>2, <3>2, <3>3, <4>1
      <4> QED BY <4>2 DEF value
    <3>4. CASE n \in D /\ stops = {}
      <4>1. \A m \in ops : ExitedCorrectly(code[m])
        BY <2>5, <2>8, <3>4
      <4>2. \A m \in ops : m \in D /\ value[m] = code[m]
        BY <1>1, <3>1, <3>4, <4>1
      <4>3. failures = {} /\ \A m \in ops : value[m] # Uninitialised
        BY <1>1, <4>1, <4>2
      <4>4. code[n] = Exit(0)
        BY <2>4, <2>8, <4>1
      <4> HIDE DEF failures
      <4>5. ValueAt(value, EndedAs(status), n) = value[n]
        BY <1>2, <3>2, <3>4, <4>3, <4>4
      <4> QED BY <4>5 DEF value
    <3>5. CASE n \in D /\ stops # {}
      <4>1. d \in stops /\ \A k \in stops : d <= k
        BY <2>2, <2>4, <2>6, <3>5
      <4>2. ~ExitedCorrectly(code[d]) /\ code[n] = code[d]
        BY <2>4, <2>5, <2>8, <4>1
      <4>3. \A k \in ops : k < d => ExitedCorrectly(code[k])
        BY <2>5, <2>7, <2>8, <4>1
      <4>4. d \in D /\ value[d] = code[d] /\ d \in failures
        BY <1>1, <2>4, <3>1, <3>5, <4>2, <4>3
      <4>5. ASSUME NEW m \in failures PROVE m \in stops /\ m <= d
        <5>1. m \in ops /\ m \in D /\ ~ExitedCorrectly(code[m])
          BY <1>1
        <5>2. ~(d < m)
          BY <2>4, <3>1, <3>5, <4>2, <5>1
        <5>3. m <= d
          BY <2>4, <2>7, <5>1, <5>2
        <5> QED BY <2>5, <2>8, <5>1, <5>3
      <4> HIDE DEF failures
      <4>6. First(failures) \in failures
        BY <2>2, <2>6, <4>4
      <4>7. First(failures) = d
        BY <2>4, <2>6, <2>7, <4>1, <4>5, <4>6
      <4>8. ValueAt(value, EndedAs(status), n) = value[n]
        BY <1>2, <3>2, <3>5, <4>2, <4>4, <4>7
      <4> QED BY <4>8 DEF value
    <3> QED BY <3>3, <3>4, <3>5
  <2>9. CASE tree.type[n] = "Or"
    <3>1. n \in D => \A m \in ops :
            m \in D <=> \A k \in ops : k < m => ~ExitedCorrectly(code[k])
      BY <2>9, OperandsDue
    <3>2. ValueAt(value, EndedAs(status), n) =
            IF successes # {} THEN Exit(0)
            ELSE IF \A m \in ops : value[m] # Uninitialised THEN value[Last(ops)]
            ELSE Uninitialised
      BY <2>1, <2>9 DEF ValueAt
    <3> HIDE DEF value, code, D, ops, stops, d
    <3>3. CASE n \notin D
      <4>1. successes = {} /\ ~(\A m \in ops : value[m] # Uninitialised)
        BY <1>1, <2>1, <3>3
      <4> HIDE DEF successes
      <4>2. ValueAt(value, EndedAs(status), n) = value[n]
        BY <1>2, <3>2, <3>3, <4>1
      <4> QED BY <4>2 DEF value
    <3>4. CASE n \in D /\ stops = {}
      <4>1. \A m \in ops : ~ExitedCorrectly(code[m])
        BY <2>5, <2>9, <3>4
      <4>2. \A m \in ops : m \in D /\ value[m] = code[m]
        BY <1>1, <3>1, <3>4, <4>1
      <4>3. successes = {} /\ \A m \in ops : value[m] # Uninitialised
        BY <1>1, <4>1, <4>2
      <4>4. d = Last(ops) /\ code[n] = code[d]
        BY <2>4, <3>4, <4>1
      <4> HIDE DEF successes
      <4>5. ValueAt(value, EndedAs(status), n) = value[n]
        BY <1>2, <2>3, <3>2, <3>4, <4>2, <4>3, <4>4
      <4> QED BY <4>5 DEF value
    <3>5. CASE n \in D /\ stops # {}
      <4>1. d \in stops /\ \A k \in stops : d <= k
        BY <2>2, <2>4, <2>6, <3>5
      <4>2. ExitedCorrectly(code[d]) /\ code[n] = Exit(0)
        BY <2>4, <2>5, <2>9, <4>1
      <4>3. \A k \in ops : k < d => ~ExitedCorrectly(code[k])
        BY <2>5, <2>7, <2>9, <4>1
      <4>4. d \in D /\ value[d] = code[d] /\ d \in successes
        BY <1>1, <2>4, <3>1, <3>5, <4>2, <4>3
      <4> HIDE DEF successes
      <4>5. ValueAt(value, EndedAs(status), n) = value[n]
        BY <1>2, <3>2, <3>5, <4>2, <4>4
      <4> QED BY <4>5 DEF value
    <3> QED BY <3>3, <3>4, <3>5
  <2>10. CASE tree.type[n] \in {"Semicolon", "Pipe"}
    <3>1. n \in D => \A m \in ops : m \in D
      BY <2>10, OperandsDue
    <3>2. ValueAt(value, EndedAs(status), n) = value[Last(ops)]
      BY <2>1, <2>10 DEF ValueAt
    <3>3. stops = {} /\ code[n] = code[Last(ops)]
      <4>1. stops = {}
        BY <2>5, <2>10
      <4> HIDE DEF stops, code, d, ops
      <4> QED BY <2>4, <2>10, <4>1
    <3> HIDE DEF value, code, D, ops, stops, d
    <3>4. ValueAt(value, EndedAs(status), n) = value[n]
      BY <1>1, <1>2, <2>3, <3>1, <3>2, <3>3
    <3> QED BY <3>4 DEF value
  <2> QED BY <1>4, <1>6, <2>8, <2>9, <2>10 DEF NodeTypes, SequenceTypes
<1> QED BY <1>5, <1>6

\* The value of an operator depends on those of its operands only.
LEMMA ValueOfOperands ==
    ASSUME IsTree(tree), NEW n \in Nodes, NEW status, NEW g, NEW h,
           \A m \in Operands(n) : g[m] = h[m]
    PROVE  ValueAt(g, status, n) = ValueAt(h, status, n)
<1> DEFINE ops == Operands(n)
           Failures(v) == {m \in ops : v[m] # Uninitialised /\ ~ExitedCorrectly(v[m])}
           Successes(v) == {m \in ops : v[m] # Uninitialised /\ ExitedCorrectly(v[m])}
           AllEnded(v) == \A m \in ops : v[m] # Uninitialised
<1>1. Failures(g) = Failures(h) /\ Successes(g) = Successes(h) /\ AllEnded(g) = AllEnded(h)
  OBVIOUS
<1>2. ops \in SUBSET (0..tree.size) /\ ops \in SUBSET Nat /\ tree.size \in Nat
  BY DEF IsTree, Operands, Nodes
<1>3. ops # {} => Last(ops) \in ops
  BY <1>2, LastIsGreatest
<1>4. Failures(g) # {} => First(Failures(g)) \in ops
  <2>1. Failures(g) \in SUBSET ops
    OBVIOUS
  <2> HIDE DEF Failures, ops
  <2>2. Failures(g) \in SUBSET Nat
    BY <1>2, <2>1
  <2> QED BY <2>1, <2>2, FirstIsLeast
<1>5. \A v : ValueAt(v, status, n) =
        CASE tree.type[n] = "Executable" -> status[n]
          [] tree.type[n] # "Executable" /\ ops = {} -> Exit(0)
          [] tree.type[n] = "And" /\ ops # {} ->
               IF Failures(v) # {} THEN v[First(Failures(v))]
               ELSE IF AllEnded(v) THEN Exit(0) ELSE Uninitialised
          [] tree.type[n] = "Or" /\ ops # {} ->
               IF Successes(v) # {} THEN Exit(0)
               ELSE IF AllEnded(v) THEN v[Last(ops)] ELSE Uninitialised
          [] tree.type[n] \in {"Semicolon", "Pipe"} /\ ops # {} -> v[Last(ops)]
  BY DEF ValueAt
<1>6. tree.type[n] \in NodeTypes
  BY TreeFacts
<1>7. /\ \A m \in ops : g[m] = h[m]
  OBVIOUS
<1> HIDE DEF Failures, Successes, AllEnded, ops
<1> QED BY <1>1, <1>3, <1>4, <1>5, <1>6, <1>7 DEF NodeTypes, SequenceTypes

LEMMA ValueIsReached ==
    ASSUME IsTree(tree), NothingEmpty, NEW status \in [Executables -> ExitStatuses], NEW d
    PROVE  Evaluated(d, EndedAs(status))!Value = ValueOf(status)
<1> DEFINE v == Evaluated(d, EndedAs(status))!Value
           w == ValueOf(status)
           e == EndedAs(status)
           rank == [n \in Nodes |-> tree.size - n]
           Bad == {n \in Nodes : v[n] # w[n]}
<1>1. tree.size \in Nat
  BY DEF IsTree
<1>2. \A n \in Nodes : ValueAt(w, e, n) = w[n]
  BY ValueSolves
<1>3. w = [n \in Nodes |-> w[n]]
  BY DEF ValueOf
<1>4. w = [n \in Nodes |-> ValueAt(w, e, n)]
  <2> HIDE DEF w, e
  <2> QED BY <1>2, <1>3
<1>5. v = [n \in Nodes |-> ValueAt(v, e, n)]
  <2> HIDE DEF w
  <2>1. LET u == Evaluated(d, EndedAs(status))!Value
        IN u = [n \in Nodes |-> ValueAt(u, EndedAs(status), n)]
    BY <1>4, ValueUnfolds
  <2> QED BY <2>1
<1> HIDE DEF v, w, e
<1>6. ASSUME NEW n \in Bad PROVE \E m \in Bad : rank[m] < rank[n]
  <2>1. n \in Nodes /\ ValueAt(v, e, n) # ValueAt(w, e, n)
    BY <1>4, <1>5
  <2>2. PICK m \in Operands(n) : v[m] # w[m]
    BY <2>1, ValueOfOperands
  <2>3. m \in Nodes /\ tree.size - m < tree.size - n
    BY <2>1, OperandIsLater
  <2> QED BY <2>1, <2>2, <2>3
<1>7. rank \in [Nodes -> 0..tree.size] /\ Bad \subseteq Nodes
  BY <1>1 DEF Nodes
<1>8. IsBottomless(Nodes, tree.size, rank, Bad)
  BY <1>1, <1>6, <1>7 DEF IsBottomless
<1>9. \A n \in Nodes : v[n] = w[n]
  BY <1>8, RankDescent
<1>10. v = w
  BY <1>3, <1>5, <1>9
<1> QED BY <1>10 DEF v, w, e

LEMMA DueIsReached ==
    ASSUME IsTree(tree), NothingEmpty, NEW status \in [Executables -> ExitStatuses], NEW d
    PROVE  Evaluated(d, EndedAs(status))!Due = Due(status) \cap Executables
<1> DEFINE v == Evaluated(d, EndedAs(status))!Value
           w == ValueOf(status)
           D == Due(status)
           code == Outcome(status)
           g == [n \in Nodes |-> n \in D]
<1>1. v = w
  BY ValueIsReached
<1>2. /\ \A m \in Nodes \ {1} : m \in D <=> tree.father[m] \in D /\ CalledBy(code, m)
      /\ 1 \in D
  BY DueUnfolds
<1>3. ASSUME NEW n \in Nodes, n # 1
      PROVE  tree.father[n] \in Nodes /\ tree.father[n] < n /\ n \in Operands(tree.father[n])
  <2>1. tree.size \in Nat
    BY DEF IsTree
  <2>2. n \in 2..tree.size
    BY <1>3, <2>1 DEF Nodes
  <2>3. tree.father[n] \in 1..(n - 1)
    BY <2>2 DEF IsTree
  <2> QED BY <2>1, <2>2, <2>3 DEF Nodes, Operands
<1>4. ASSUME NEW n \in Nodes, n # 1, NEW due, due[tree.father[n]] <=> tree.father[n] \in D
      PROVE  AskedFor(due, w, n) <=> n \in D
  <2> DEFINE f == tree.father[n]
  <2>1. f \in Nodes /\ n \in Operands(f) /\ n \in Nat
    BY <1>3, <1>4, TreeFacts
  <2>2. f \notin D => n \notin D
    BY <1>2, <1>4
  <2>3. AskedFor(due, w, n) <=>
          /\ f \in D
          /\ tree.type[f] = "And" =>
               \A m \in EarlierOperands(f, n) : w[m] # Uninitialised /\ ExitedCorrectly(w[m])
          /\ tree.type[f] = "Or" =>
               \A m \in EarlierOperands(f, n) : w[m] # Uninitialised /\ ~ExitedCorrectly(w[m])
          /\ tree.type[f] = "Semicolon" =>
               \A m \in EarlierOperands(f, n) : w[m] # Uninitialised
    <3> HIDE DEF w, D
    <3> QED BY <1>4, Zenon DEF AskedFor
  <2>4. CASE f \notin D
    BY <2>2, <2>3, <2>4
  <2>5. CASE f \in D
    <3>1. \A m \in Operands(f) :
            /\ m \in Nodes /\ code[m] # Uninitialised
            /\ w[m] = IF m \in D THEN code[m] ELSE Uninitialised
            /\ tree.type[f] \in {"Semicolon", "Pipe"} => m \in D
            /\ tree.type[f] = "And" =>
                 (m \in D <=> \A k \in Operands(f) : k < m => ExitedCorrectly(code[k]))
            /\ tree.type[f] = "Or" =>
                 (m \in D <=> \A k \in Operands(f) : k < m => ~ExitedCorrectly(code[k]))
      <4>1. \A m \in Operands(f) :
              /\ m \in Nodes /\ code[m] # Uninitialised
              /\ w[m] = IF m \in D THEN code[m] ELSE Uninitialised
        BY ZenonT(60), <2>1, OperandsDue
      <4>2. \A m \in Operands(f) :
              /\ tree.type[f] \in {"Semicolon", "Pipe"} => m \in D
              /\ tree.type[f] = "And" =>
                   (m \in D <=> \A k \in Operands(f) : k < m => ExitedCorrectly(code[k]))
              /\ tree.type[f] = "Or" =>
                   (m \in D <=> \A k \in Operands(f) : k < m => ~ExitedCorrectly(code[k]))
        <5> HIDE DEF f
        <5> QED BY <2>1, <2>5, OperandsDue
      <4> HIDE DEF w, D, code, f
      <4> QED BY <4>1, <4>2
    <3>2. \A m : m \in EarlierOperands(f, n) <=> m \in Operands(f) /\ m < n
      BY DEF EarlierOperands
    <3>3. Operands(f) \subseteq Nat
      BY <3>1, TreeFacts
    <3>4. tree.type[f] \in {"And", "Or", "Semicolon", "Pipe"}
      <4>1. tree.type[f] \in NodeTypes /\ f \notin Executables
        BY <2>1, TreeFacts
      <4> QED BY <2>1, <4>1 DEF NodeTypes, SequenceTypes, Executables
    <3> HIDE DEF w, D, code, f
    <3>5. CASE tree.type[f] = "And"
      <4>1. ASSUME n \in D, NEW m \in EarlierOperands(f, n)
            PROVE  w[m] # Uninitialised /\ ExitedCorrectly(w[m])
        <5>1. m \in Operands(f) /\ m < n
          BY <3>2, <4>1
        <5>2. ExitedCorrectly(code[m])
          BY <2>1, <3>1, <3>5, <4>1, <5>1
        <5>3. \A k \in Operands(f) : k < m => ExitedCorrectly(code[k])
          <6>1. \A k \in Operands(f) : k < m => k < n
            BY <2>1, <3>3, <5>1
          <6> QED BY <2>1, <3>1, <3>5, <4>1, <6>1
        <5>4. m \in D
          BY <3>1, <3>5, <5>1, <5>3
        <5> QED BY <3>1, <5>1, <5>2, <5>4
      <4>2. ASSUME \A m \in EarlierOperands(f, n) :
                     w[m] # Uninitialised /\ ExitedCorrectly(w[m])
            PROVE  n \in D
        BY <2>1, <3>1, <3>2, <3>5, <4>2
      <4> QED BY <2>3, <2>5, <3>5, <4>1, <4>2
    <3>6. CASE tree.type[f] = "Or"
      <4>1. ASSUME n \in D, NEW m \in EarlierOperands(f, n)
            PROVE  w[m] # Uninitialised /\ ~ExitedCorrectly(w[m])
        <5>1. m \in Operands(f) /\ m < n
          BY <3>2, <4>1
        <5>2. ~ExitedCorrectly(code[m])
          BY <2>1, <3>1, <3>6, <4>1, <5>1
        <5>3. \A k \in Operands(f) : k < m => ~ExitedCorrectly(code[k])
          <6>1. \A k \in Operands(f) : k < m => k < n
            BY <2>1, <3>3, <5>1
          <6> QED BY <2>1, <3>1, <3>6, <4>1, <6>1
        <5>4. m \in D
          BY <3>1, <3>6, <5>1, <5>3
        <5> QED BY <3>1, <5>1, <5>2, <5>4
      <4>2. ASSUME \A m \in EarlierOperands(f, n) :
                     w[m] # Uninitialised /\ ~ExitedCorrectly(w[m])
            PROVE  n \in D
        BY <2>1, <3>1, <3>2, <3>6, <4>2
      <4> QED BY <2>3, <2>5, <3>6, <4>1, <4>2
    <3>7. CASE tree.type[f] = "Semicolon"
      <4>1. \A m \in EarlierOperands(f, n) : w[m] # Uninitialised
        BY <3>1, <3>2, <3>7
      <4> QED BY <2>1, <2>3, <2>5, <3>1, <3>7, <4>1
    <3>8. CASE tree.type[f] = "Pipe"
      BY <2>1, <2>3, <2>5, <3>1, <3>8
    <3> QED BY <3>4, <3>5, <3>6, <3>7, <3>8
  <2> QED BY <2>4, <2>5
<1>5. ASSUME NEW due PROVE AskedFor(due, w, 1)
  BY DEF AskedFor
<1> HIDE DEF v, w, D, code
<1>6. g = [n \in Nodes |-> AskedFor(g, w, n)]
  <2>1. ASSUME NEW n \in Nodes PROVE (n \in D) = AskedFor(g, w, n)
    <3>1. AskedFor(g, w, n) \in BOOLEAN
      BY Zenon DEF AskedFor
    <3>2. n # 1 => (g[tree.father[n]] <=> tree.father[n] \in D)
      BY <1>3
    <3> HIDE DEF g
    <3>3. AskedFor(g, w, n) <=> n \in D
      BY <1>2, <1>4, <1>5, <3>2
    <3> QED BY <3>1, <3>3
  <2> QED BY <2>1
<1>7. PICK due : /\ due = [n \in Nodes |-> AskedFor(due, w, n)]
                 /\ Evaluated(d, EndedAs(status))!Due = {n \in Executables : due[n]}
  <2>1. g = [n \in Nodes |-> AskedFor(g, v, n)]
    BY <1>1, <1>6
  <2> HIDE DEF g
  <2>2. \E due : /\ due = [n \in Nodes |-> AskedFor(due, v, n)]
                 /\ Evaluated(d, EndedAs(status))!Due = {n \in Executables : due[n]}
    BY <2>1, AskedForUnfolds DEF v
  <2> QED BY <1>1, <2>2
<1>8. \A n \in Nodes : due[n] <=> AskedFor(due, w, n)
  BY <1>7, Zenon
<1> DEFINE rank == [n \in Nodes |-> n]
           Bad == {n \in Nodes : ~(due[n] <=> n \in D)}
<1>9. ASSUME NEW n \in Bad PROVE \E m \in Bad : rank[m] < rank[n]
  <2>1. n \in Nodes /\ ~(due[n] <=> n \in D)
    OBVIOUS
  <2>2. n # 1
    BY <1>2, <1>5, <1>8, <2>1
  <2>3. tree.father[n] \in Nodes /\ tree.father[n] < n
    BY <1>3, <2>1, <2>2
  <2>4. tree.father[n] \in Bad
    BY <1>4, <1>8, <2>1, <2>2, <2>3
  <2> QED BY <2>1, <2>3, <2>4
<1>10. tree.size \in Nat /\ rank \in [Nodes -> 0..tree.size] /\ Bad \subseteq Nodes
  BY DEF IsTree, Nodes
<1>11. IsBottomless(Nodes, tree.size, rank, Bad)
  BY <1>9, <1>10 DEF IsBottomless
<1>12. \A n \in Nodes : due[n] <=> n \in D
  <2>1. Bad = {}
    <3> HIDE DEF Bad, rank
    <3> QED BY <1>11, RankDescent
  <2> QED BY <2>1
<1>13. Executables \subseteq Nodes
  BY DEF Executables
<1> QED BY <1>7, <1>12, <1>13 DEF D

-----------------------------------------------------------------------------
(* Who writes into a pipe and who reads it.                                *)

\* What wire_redirects() leaves.
IsStreamed(t) ==
    /\ IsTree(t)
    /\ IsIn(t, t.from) /\ IsOut(t, t.to)
    /\ t.std_in = StdIn(t, t.from) /\ t.std_out = StdOut(t, t.to)

StreamsWired == IsStreamed(tree)

WireInv == stage = "executing" => StreamsWired

LEMMA StreamsDiffer ==
    \A n, m, k : /\ PipeOf(n) # FileOf(m) /\ PipeOf(n) # Std(k)
                 /\ PipeOf(n) = PipeOf(m) => n = m
BY DEF PipeOf, FileOf, Std

LEMMA WiredStreams ==
    ASSUME NEW t, IsTree(t)
    PROVE  IsStreamed(Wired(t))
<1> DEFINE w == Wired(t)
<1>1. /\ w.size = t.size /\ w.type = t.type /\ w.father = t.father
      /\ w.redirect_in = t.redirect_in /\ w.redirect_out = t.redirect_out
      /\ IsIn(t, w.from) /\ IsOut(t, w.to)
      /\ w.std_in = StdIn(t, w.from) /\ w.std_out = StdOut(t, w.to)
  BY WiredUnfolds
<1>2. IsTree(w)
  BY WiredIsWired
<1> HIDE DEF w
<1>3. \A n : OperandsIn(w, n) = OperandsIn(t, n)
  BY <1>1 DEF OperandsIn
<1>4. /\ \A in, n : InArgument(w, in, n) = InArgument(t, in, n)
      /\ \A out, n : OutArgument(w, out, n) = OutArgument(t, out, n)
  BY <1>1, <1>3 DEF InArgument, OutArgument
<1>5. IsIn(w, w.from) /\ IsOut(w, w.to)
  <2> DEFINE in == w.from
             out == w.to
  <2>1. /\ in = [n \in 1..t.size |-> InArgument(t, in, n)]
        /\ out = [n \in 1..t.size |-> OutArgument(t, out, n)]
    BY <1>1 DEF IsIn, IsOut
  <2> HIDE DEF in, out
  <2>2. /\ in = [n \in 1..w.size |-> InArgument(w, in, n)]
        /\ out = [n \in 1..w.size |-> OutArgument(w, out, n)]
    <3>1. /\ \A n : InArgument(w, in, n) = InArgument(t, in, n)
          /\ \A n : OutArgument(w, out, n) = OutArgument(t, out, n)
          /\ w.size = t.size
      BY <1>1, <1>4
    <3> QED BY <2>1, <3>1, Zenon
  <2> QED BY <2>2 DEF IsIn, IsOut, in, out
<1>6. w.std_in = StdIn(w, w.from) /\ w.std_out = StdOut(w, w.to)
  BY <1>1, <1>3 DEF StdIn, StdOut
<1> QED BY <1>2, <1>5, <1>6 DEF IsStreamed, w

\* The stream of a node that is not that of the operator it belongs to.
HandsOn(n) ==
    tree.type[tree.father[n]] = "Pipe" /\ n = Last(Operands(tree.father[n]))

LEMMA OperandPlaces ==
    ASSUME IsTree(tree), NEW n \in Nodes, Operands(n) # {}
    PROVE  /\ First(Operands(n)) \in Operands(n) /\ Last(Operands(n)) \in Operands(n)
           /\ \A m \in Operands(n) : First(Operands(n)) <= m /\ m <= Last(Operands(n))
<1>1. tree.size \in Nat /\ Operands(n) \in SUBSET (0..tree.size) /\ Operands(n) \in SUBSET Nat
  BY DEF IsTree, Operands, Nodes
<1> QED BY <1>1, FirstIsLeast, LastIsGreatest

LEMMA FatherOfNode ==
    ASSUME IsTree(tree), NEW n \in Nodes, n # 1
    PROVE  LET f == tree.father[n]
           IN /\ f \in Nodes /\ n \in Operands(f) /\ f < n /\ f \in Nat /\ n \in Nat
              /\ tree.type[f] \in SequenceTypes \cup {"Pipe"}
<1>1. tree.size \in Nat
  BY DEF IsTree
<1>2. n \in 2..tree.size
  BY <1>1 DEF Nodes
<1>3. tree.father[n] \in 1..(n - 1)
  BY <1>2 DEF IsTree
<1>4. tree.father[n] \in Nodes
  BY <1>1, <1>2, <1>3 DEF Nodes
<1>5. tree.type[tree.father[n]] \in NodeTypes /\ tree.type[tree.father[n]] # "Executable"
  BY <1>2, <1>4, TreeFacts DEF IsTree
<1> QED BY <1>2, <1>3, <1>4, <1>5 DEF Operands, NodeTypes

LEMMA OutCases ==
    ASSUME StreamsWired, NEW n \in Nodes
    PROVE  /\ n = 1 => tree.to[n] = IF n \in tree.redirect_out THEN FileOf(n) ELSE Std(1)
           /\ n # 1 => tree.to[n] = IF HandsOn(n) THEN tree.to[tree.father[n]] ELSE PipeOf(n)
           /\ tree.std_out[n] = IF n \in tree.redirect_out THEN FileOf(n) ELSE tree.to[n]
<1> DEFINE out == tree.to
<1>1. out[n] = OutArgument(tree, out, n)
  <2>1. out = [m \in 1..tree.size |-> OutArgument(tree, out, m)]
    BY DEF StreamsWired, IsStreamed, IsOut
  <2> HIDE DEF out
  <2> QED BY <2>1 DEF Nodes
<1>2. \A m : OperandsIn(tree, m) = Operands(m)
  BY DEF OperandsIn, Operands, Nodes
<1>3. /\ n = 1 => OutArgument(tree, out, n) =
                    IF n \in tree.redirect_out THEN FileOf(n) ELSE Std(1)
      /\ n # 1 => OutArgument(tree, out, n) =
                    IF HandsOn(n) THEN out[tree.father[n]] ELSE PipeOf(n)
  BY <1>2 DEF OutArgument, HandsOn
<1>4. tree.std_out[n] = IF n \in tree.redirect_out THEN FileOf(n) ELSE out[n]
  BY DEF StreamsWired, IsStreamed, StdOut, Nodes
<1> HIDE DEF out
<1> QED BY <1>1, <1>3, <1>4 DEF out

LEMMA InCases ==
    ASSUME StreamsWired, NEW n \in Nodes
    PROVE  LET f == tree.father[n]
               own == IF n \in tree.redirect_in THEN FileOf(n) ELSE Std(0)
           IN /\ n = 1 => tree.from[n] = own
              /\ n # 1 /\ EarlierOperands(f, n) = {} => tree.from[n] = tree.from[f]
              /\ n # 1 /\ EarlierOperands(f, n) # {} =>
                   tree.from[n] = IF tree.type[f] = "Pipe"
                                    THEN PipeOf(Last(EarlierOperands(f, n))) ELSE own
              /\ tree.std_in[n] \in {tree.from[n], FileOf(n)}
              /\ n \notin tree.redirect_in => tree.std_in[n] = tree.from[n]
<1> DEFINE in == tree.from
           f == tree.father[n]
<1>1. in[n] = InArgument(tree, in, n)
  <2>1. in = [m \in 1..tree.size |-> InArgument(tree, in, m)]
    BY DEF StreamsWired, IsStreamed, IsIn
  <2> HIDE DEF in
  <2> QED BY <2>1 DEF Nodes
<1>2. {m \in OperandsIn(tree, f) : m < n} = EarlierOperands(f, n)
  BY DEF OperandsIn, EarlierOperands, Operands, Nodes
<1>3. InArgument(tree, in, n) =
        LET own == IF n \in tree.redirect_in THEN FileOf(n) ELSE Std(0)
        IN IF n = 1 THEN own
           ELSE IF EarlierOperands(f, n) = {} THEN in[f]
           ELSE IF tree.type[f] = "Pipe" THEN PipeOf(Last(EarlierOperands(f, n)))
           ELSE own
  BY <1>2, Zenon DEF InArgument
<1>4. /\ tree.std_in[n] \in {in[n], FileOf(n)}
      /\ n \notin tree.redirect_in => tree.std_in[n] = in[n]
  BY DEF StreamsWired, IsStreamed, StdIn, Nodes
<1> HIDE DEF in
<1> QED BY <1>1, <1>3, <1>4 DEF in

-----------------------------------------------------------------------------
(* OutputOf and InputOf.                                                   *)

\* A pipe has a last operand.
LEMMA PipeHasOperand ==
    ASSUME IsTree(tree), NEW n \in Nodes, tree.type[n] = "Pipe"
    PROVE  Operands(n) # {}
<1>1. \E k, m \in 1..tree.size : k # m /\ tree.father[k] = n /\ tree.father[m] = n
  BY DEF IsTree, Nodes
<1> QED BY <1>1 DEF Operands, Nodes

OutputAt(g, n) == IF tree.type[n] = "Pipe" THEN g[Last(Operands(n))] ELSE n

LEMMA OutputOfUnfolds ==
    ASSUME IsTree(tree)
    PROVE  \A n \in Nodes :
             OutputOf(n) = IF tree.type[n] = "Pipe" THEN OutputOf(Last(Operands(n))) ELSE n
<1> DEFINE rank == [n \in Nodes |-> tree.size - n]
           step == [n \in Nodes |-> [g \in [Nodes -> Nodes] |-> OutputAt(g, n)]]
           output == CHOOSE output : output = [n \in Nodes |-> OutputAt(output, n)]
<1>1. tree.size \in Nat /\ Nodes # {}
  BY TreeFacts DEF IsTree
<1>2. rank \in [Nodes -> 0..tree.size]
  BY <1>1 DEF Nodes
<1>3. ASSUME NEW n \in Nodes, tree.type[n] = "Pipe"
      PROVE  /\ Last(Operands(n)) \in Nodes
             /\ tree.size - Last(Operands(n)) < tree.size - n
  BY <1>3, PipeHasOperand, OperandPlaces, OperandIsLater
<1>4. step \in [Nodes -> [[Nodes -> Nodes] -> Nodes]]
  BY <1>3 DEF OutputAt
<1>5. ASSUME NEW n \in Nodes, NEW g \in [Nodes -> Nodes], NEW h \in [Nodes -> Nodes],
             \A m \in Nodes : rank[m] < rank[n] => g[m] = h[m]
      PROVE  step[n][g] = step[n][h]
  <2>1. OutputAt(g, n) = OutputAt(h, n)
    BY <1>3, <1>5 DEF OutputAt
  <2> QED BY <2>1
<1>6. IsRecursion(Nodes, Nodes, tree.size, rank, step)
  BY <1>2, <1>4, <1>5 DEF IsRecursion
<1>7. PICK g \in [Nodes -> Nodes] : \A n \in Nodes : g[n] = step[n][g]
  <2> HIDE DEF rank, step
  <2> QED BY <1>1, <1>6, RecursionHasSolution
<1>8. g = [n \in Nodes |-> OutputAt(g, n)]
  BY <1>7
<1>9. output = [n \in Nodes |-> OutputAt(output, n)]
  BY <1>8, Zenon
<1>10. \A n : OutputOf(n) = output[n]
  BY DEF OutputOf, OutputAt
<1> HIDE DEF output
<1>11. \A n \in Nodes : output[n] = OutputAt(output, n)
  BY <1>9, Zenon
<1> QED BY <1>10, <1>11, Zenon DEF OutputAt

InputAt(g, n) ==
    CASE tree.type[n] = "Executable" -> {n}
      [] tree.type[n] # "Executable" /\ Operands(n) = {} -> {}
      [] OTHER -> g[First(Operands(n))]

LEMMA InputOfUnfolds ==
    ASSUME IsTree(tree)
    PROVE  \A n \in Nodes :
             InputOf(n) = IF n \in Executables THEN {n}
                          ELSE IF Operands(n) = {} THEN {}
                          ELSE InputOf(First(Operands(n)))
<1> DEFINE V == SUBSET Nodes
           rank == [n \in Nodes |-> tree.size - n]
           step == [n \in Nodes |-> [g \in [Nodes -> V] |-> InputAt(g, n)]]
           input == CHOOSE input : input = [n \in Nodes |-> InputAt(input, n)]
<1>1. tree.size \in Nat /\ V # {}
  BY DEF IsTree
<1>2. rank \in [Nodes -> 0..tree.size]
  BY <1>1 DEF Nodes
<1>3. ASSUME NEW n \in Nodes, Operands(n) # {}
      PROVE  /\ First(Operands(n)) \in Nodes
             /\ tree.size - First(Operands(n)) < tree.size - n
  BY <1>3, OperandPlaces, OperandIsLater
<1>4. ASSUME NEW n \in Nodes, NEW g
      PROVE  InputAt(g, n) = IF tree.type[n] = "Executable" THEN {n}
                             ELSE IF Operands(n) = {} THEN {}
                             ELSE g[First(Operands(n))]
  BY DEF InputAt
<1>5. step \in [Nodes -> [[Nodes -> V] -> V]]
  BY <1>3, <1>4
<1>6. ASSUME NEW n \in Nodes, NEW g \in [Nodes -> V], NEW h \in [Nodes -> V],
             \A m \in Nodes : rank[m] < rank[n] => g[m] = h[m]
      PROVE  step[n][g] = step[n][h]
  <2>1. Operands(n) # {} => g[First(Operands(n))] = h[First(Operands(n))]
    BY <1>3, <1>6
  <2>2. InputAt(g, n) = InputAt(h, n)
    BY <1>4, <2>1
  <2> QED BY <2>2
<1>7. IsRecursion(Nodes, V, tree.size, rank, step)
  BY <1>2, <1>5, <1>6 DEF IsRecursion
<1>8. PICK g \in [Nodes -> V] : \A n \in Nodes : g[n] = step[n][g]
  <2> HIDE DEF rank, step, V
  <2> QED BY <1>1, <1>7, RecursionHasSolution
<1>9. g = [n \in Nodes |-> InputAt(g, n)]
  BY <1>8
<1>10. input = [n \in Nodes |-> InputAt(input, n)]
  BY <1>9, Zenon
<1>11. \A n : InputOf(n) = input[n]
  BY DEF InputOf, InputAt
<1> HIDE DEF input
<1>12. \A n \in Nodes : input[n] = InputAt(input, n)
  BY <1>10, Zenon
<1> QED BY <1>4, <1>11, <1>12 DEF Executables

\* OutputOf(n) is where the output of n comes from.
LEMMA OutputFacts ==
    ASSUME StreamsWired, NEW n \in Nodes
    PROVE  LET x == OutputOf(n)
           IN /\ x \in Nodes /\ tree.type[x] # "Pipe" /\ tree.to[x] = tree.to[n]
<1> DEFINE Good(m) == LET x == OutputOf(m)
                      IN x \in Nodes /\ tree.type[x] # "Pipe" /\ tree.to[x] = tree.to[m]
           rank == [m \in Nodes |-> tree.size - m]
           Bad == {m \in Nodes : ~Good(m)}
<1>1. IsTree(tree) /\ tree.size \in Nat
  BY DEF StreamsWired, IsStreamed, IsTree
<1>2. ASSUME NEW m \in Nodes, ~Good(m) PROVE \E k \in Nodes : ~Good(k) /\ rank[k] < rank[m]
  <2> DEFINE k == Last(Operands(m))
  <2>1. tree.type[m] = "Pipe" /\ OutputOf(m) = OutputOf(k)
    BY <1>1, <1>2, OutputOfUnfolds
  <2>2. k \in Operands(m) /\ k \in Nodes /\ tree.size - k < tree.size - m
    BY <1>1, <2>1, PipeHasOperand, OperandPlaces, OperandIsLater
  <2>3. k # 1 /\ HandsOn(k) /\ tree.father[k] = m
    BY <1>1, <2>1, <2>2, TreeFacts DEF HandsOn, Operands
  <2> HIDE DEF k
  <2>4. tree.to[k] = tree.to[m]
    BY <2>2, <2>3, OutCases
  <2>5. ~Good(k)
    BY <1>2, <2>1, <2>4
  <2> QED BY <2>2, <2>5
<1> HIDE DEF Good
<1>3. rank \in [Nodes -> 0..tree.size] /\ Bad \subseteq Nodes
  BY <1>1 DEF Nodes
<1>4. IsBottomless(Nodes, tree.size, rank, Bad)
  BY <1>1, <1>2, <1>3 DEF IsBottomless
<1>5. Bad = {}
  <2> HIDE DEF Bad, rank
  <2> QED BY <1>4, RankDescent
<1> QED BY <1>5 DEF Good

\* Nothing else writes into its pipe.
LEMMA OneWriter ==
    ASSUME StreamsWired, NEW n \in Nodes, NEW y \in Nodes, tree.to[y] = PipeOf(n),
           tree.type[y] # "Pipe"
    PROVE  y = OutputOf(n)
<1> DEFINE rank == [m \in Nodes |-> m]
           Bad == {m \in Nodes : tree.to[m] = PipeOf(n) /\ OutputOf(m) # OutputOf(n)}
<1>1. IsTree(tree) /\ tree.size \in Nat
  BY DEF StreamsWired, IsStreamed, IsTree
<1>2. ASSUME NEW m \in Bad PROVE \E k \in Bad : rank[k] < rank[m]
  <2> DEFINE f == tree.father[m]
  <2>1. m \in Nodes /\ tree.to[m] = PipeOf(n) /\ OutputOf(m) # OutputOf(n)
    OBVIOUS
  <2>2. m # 1
    BY <2>1, OutCases, StreamsDiffer
  <2>3. f \in Nodes /\ f < m
    BY <1>1, <2>1, <2>2, FatherOfNode
  <2>4. m # n
    BY <2>1
  <2>5. HandsOn(m) /\ tree.to[f] = PipeOf(n)
    BY <2>1, <2>2, <2>4, OutCases, StreamsDiffer
  <2>6. OutputOf(f) = OutputOf(m)
    BY <1>1, <2>3, <2>5, OutputOfUnfolds DEF HandsOn
  <2>7. f \in Bad
    BY <2>1, <2>3, <2>5, <2>6
  <2> QED BY <2>1, <2>3, <2>7
<1>3. rank \in [Nodes -> 0..tree.size] /\ Bad \subseteq Nodes
  BY <1>1 DEF Nodes
<1>4. IsBottomless(Nodes, tree.size, rank, Bad)
  <2> HIDE DEF Bad
  <2> QED BY <1>1, <1>2, <1>3 DEF IsBottomless
<1>5. Bad = {}
  <2> HIDE DEF Bad, rank
  <2> QED BY <1>4, RankDescent
<1>6. OutputOf(y) = OutputOf(n)
  BY <1>5
<1> QED BY <1>1, <1>6, OutputOfUnfolds

\* InputOf(n) are executables, and they read what n reads.
LEMMA InputFacts ==
    ASSUME StreamsWired, NEW n \in Nodes, NEW x \in InputOf(n)
    PROVE  x \in Executables /\ x \in Nodes /\ tree.from[x] = tree.from[n]
<1> DEFINE Good(m) == \A y \in InputOf(m) : y \in Executables /\ tree.from[y] = tree.from[m]
           rank == [m \in Nodes |-> tree.size - m]
           Bad == {m \in Nodes : ~Good(m)}
<1>1. IsTree(tree) /\ tree.size \in Nat
  BY DEF StreamsWired, IsStreamed, IsTree
<1>2. ASSUME NEW m \in Nodes, ~Good(m) PROVE \E k \in Nodes : ~Good(k) /\ rank[k] < rank[m]
  <2> DEFINE k == First(Operands(m))
  <2>1. Operands(m) # {} /\ InputOf(m) = InputOf(k)
    <3>1. InputOf(m) = IF m \in Executables THEN {m}
                       ELSE IF Operands(m) = {} THEN {} ELSE InputOf(k)
      BY <1>1, <1>2, InputOfUnfolds
    <3> HIDE DEF k
    <3>2. m \in Executables => Good(m)
      BY <3>1
    <3>3. m \notin Executables /\ Operands(m) = {} => Good(m)
      BY <3>1
    <3> HIDE DEF Good
    <3> QED BY <1>2, <3>1, <3>2, <3>3
  <2>2. /\ k \in Operands(m) /\ k \in Nodes /\ tree.size - k < tree.size - m
        /\ \A j \in Operands(m) : k <= j
    BY <1>1, <2>1, OperandPlaces, OperandIsLater
  <2>3. k # 1 /\ tree.father[k] = m /\ k \in Nat
    BY <1>1, <2>2, TreeFacts DEF Operands
  <2> HIDE DEF k
  <2>4. EarlierOperands(m, k) = {}
    <3>1. \A j \in Operands(m) : j \in Nat
      BY <1>1, TreeFacts
    <3>2. \A j \in Operands(m) : ~(j < k)
      <4> SUFFICES ASSUME NEW j \in Operands(m) PROVE ~(j < k)
        OBVIOUS
      <4>1. k <= j /\ j \in Nat
        BY <2>2, <3>1
      <4> QED BY <2>3, <4>1
    <3> QED BY <3>2 DEF EarlierOperands
  <2>5. tree.from[k] = tree.from[m]
    BY <2>2, <2>3, <2>4, InCases
  <2>6. ~Good(k)
    BY <1>2, <2>1, <2>5
  <2> QED BY <2>2, <2>6
<1> HIDE DEF Good
<1>3. rank \in [Nodes -> 0..tree.size] /\ Bad \subseteq Nodes
  BY <1>1 DEF Nodes
<1>4. IsBottomless(Nodes, tree.size, rank, Bad)
  BY <1>1, <1>2, <1>3 DEF IsBottomless
<1>5. Bad = {}
  <2> HIDE DEF Bad, rank
  <2> QED BY <1>4, RankDescent
<1>6. Good(n)
  BY <1>5
<1> QED BY <1>1, <1>6, TreeFacts DEF Good

\* Only the commands at the input of the next operand of a pipe read from the pipe of
\* an operand.
LEMMA OneReader ==
    ASSUME StreamsWired, NEW n \in Nodes, NEW y \in Nodes, tree.from[y] = PipeOf(n)
    PROVE  /\ n # 1 /\ tree.type[tree.father[n]] = "Pipe"
           /\ InputOf(y) = InputOf(NextOperand(n))
<1> DEFINE Good(m) == /\ n # 1 /\ tree.type[tree.father[n]] = "Pipe"
                      /\ InputOf(m) = InputOf(NextOperand(n))
           rank == [m \in Nodes |-> m]
           Bad == {m \in Nodes : tree.from[m] = PipeOf(n) /\ ~Good(m)}
<1>1. IsTree(tree) /\ tree.size \in Nat
  BY DEF StreamsWired, IsStreamed, IsTree
<1>2. ASSUME NEW m \in Nodes, tree.from[m] = PipeOf(n), ~Good(m)
      PROVE  \E k \in Nodes : tree.from[k] = PipeOf(n) /\ ~Good(k) /\ rank[k] < rank[m]
  <2> DEFINE f == tree.father[m]
             left == EarlierOperands(f, m)
  <2>1. m # 1
    BY <1>2, InCases, StreamsDiffer
  <2>2. /\ f \in Nodes /\ m \in Operands(f) /\ f < m /\ f \in Nat /\ m \in Nat
        /\ tree.type[f] \in SequenceTypes \cup {"Pipe"}
    BY <1>1, <2>1, FatherOfNode
  <2>3. CASE left = {}
    <3>1. tree.from[f] = tree.from[m]
      BY <2>1, <2>3, InCases
    <3>2. First(Operands(f)) = m
      <4>1. First(Operands(f)) \in Operands(f) /\ First(Operands(f)) <= m
        BY <1>1, <2>2, OperandPlaces
      <4>2. ~(First(Operands(f)) < m)
        BY <2>3, <4>1 DEF EarlierOperands
      <4>3. First(Operands(f)) \in Nat
        BY <1>1, <4>1, TreeFacts
      <4> QED BY <2>2, <4>1, <4>2, <4>3
    <3>3. InputOf(f) = InputOf(m)
      <4>1. f \notin Executables /\ Operands(f) # {}
        BY <2>2 DEF Executables, SequenceTypes
      <4> QED BY <1>1, <2>2, <3>2, <4>1, InputOfUnfolds
    <3>4. ~Good(f)
      BY <1>2, <3>3
    <3> HIDE DEF Good, f
    <3> QED BY <1>2, <2>2, <3>1, <3>4
  <2>4. CASE left # {}
    <3>1. tree.type[f] = "Pipe" /\ PipeOf(Last(left)) = PipeOf(n)
      BY <1>2, <2>1, <2>4, InCases, StreamsDiffer
    <3>2. n = Last(left)
      BY <3>1, StreamsDiffer
    <3>3. left \in SUBSET (0..tree.size)
      BY <1>1 DEF EarlierOperands, Operands, Nodes
    <3>4. n \in left /\ \A k \in left : k <= n
      <4> HIDE DEF left
      <4> QED BY <1>1, <2>4, <3>2, <3>3, LastIsGreatest
    <3>5. n \in Operands(f) /\ n < m /\ tree.father[n] = f /\ n \in Nat
      BY <3>3, <3>4 DEF EarlierOperands, Operands
    <3>6. n # 1
      BY <1>1, <2>2, <3>5, TreeFacts
    <3>7. NextOperand(n) = m
      <4> DEFINE later == LaterOperands(f, n)
      <4>1. later \in SUBSET Nat
        BY <1>1, TreeFacts DEF LaterOperands, Operands
      <4>2. m \in later
        BY <2>2, <3>5 DEF LaterOperands
      <4>3. \A k \in later : k \in Operands(f) /\ n < k
        BY DEF LaterOperands
      <4>4. NextOperand(n) = First(later)
        BY <3>5 DEF NextOperand
      <4> HIDE DEF later
      <4>5. First(later) \in later /\ First(later) <= m
        BY <4>1, <4>2, FirstIsLeast
      <4>6. ~(First(later) < m)
        <5>1. First(later) < m => First(later) \in left
          BY <4>3, <4>5 DEF EarlierOperands
        <5>2. First(later) \in left => First(later) <= n
          BY <3>4
        <5>3. First(later) \in Nat /\ n < First(later)
          BY <4>1, <4>3, <4>5
        <5> QED BY <3>5, <5>1, <5>2, <5>3
      <4> QED BY <2>2, <4>1, <4>4, <4>5, <4>6
    <3>8. Good(m)
      BY <3>1, <3>5, <3>6, <3>7
    <3> QED BY <1>2, <3>8
  <2> QED BY <2>3, <2>4
<1> HIDE DEF Good
<1>3. rank \in [Nodes -> 0..tree.size] /\ Bad \subseteq Nodes
  BY <1>1 DEF Nodes
<1>4. IsBottomless(Nodes, tree.size, rank, Bad)
  BY <1>1, <1>2, <1>3 DEF IsBottomless
<1>5. Bad = {}
  <2> HIDE DEF Bad, rank
  <2> QED BY <1>4, RankDescent
<1>6. Good(y)
  BY <1>5
<1> QED BY <1>6 DEF Good

\* StreamsAsAsked of a wired tree.
LEMMA StreamsConnect ==
    ASSUME StreamsWired
    PROVE  StreamsAsAsked
<1> DEFINE redirected(m) == tree.type[m] = "Executable" /\ m \in tree.redirect_out
           writes(m) == IF m \in Executables THEN tree.std_out[m] ELSE tree.to[m]
           whole(redirects, descriptor) ==
             IF 1 \in redirects THEN FileOf(1) ELSE Std(descriptor)
           Piped(n) == tree.type[tree.father[n]] = "Pipe"
           Readers(n) == IF Piped(n) THEN InputOf(NextOperand(n)) ELSE {tree.father[n]}
<1>1. IsTree(tree) /\ 1 \in Nodes /\ Executables \subseteq Nodes
  BY TreeFacts DEF StreamsWired, IsStreamed
<1>2. redirected(OutputOf(1)) \/ writes(OutputOf(1)) = whole(tree.redirect_out, 1)
  <2> DEFINE x == OutputOf(1)
  <2>1. x \in Nodes /\ tree.to[x] = tree.to[1]
    BY <1>1, OutputFacts
  <2>2. tree.to[1] = whole(tree.redirect_out, 1)
    BY <1>1, OutCases
  <2> HIDE DEF x
  <2>3. tree.std_out[x] = IF x \in tree.redirect_out THEN FileOf(x) ELSE tree.to[x]
    BY <2>1, OutCases
  <2> QED BY <2>1, <2>2, <2>3 DEF x, Executables
<1>3. ASSUME NEW m \in InputOf(1) \ tree.redirect_in
      PROVE  tree.std_in[m] = whole(tree.redirect_in, 0)
  <2>1. m \in Nodes /\ tree.from[m] = tree.from[1]
    BY <1>1, InputFacts
  <2>2. tree.from[1] = whole(tree.redirect_in, 0) /\ tree.std_in[m] = tree.from[m]
    BY <1>1, <2>1, InCases
  <2> QED BY <2>1, <2>2
<1>4. ASSUME NEW n \in Nodes \ {1}, ~HandsOn(n)
      PROVE  /\ WiredWriters(n) = {m \in {OutputOf(n)} : ~redirected(m)}
             /\ WiredReaders(n) \subseteq Readers(n)
             /\ Readers(n) \ WiredReaders(n) \subseteq tree.redirect_in
  <2> DEFINE f == tree.father[n]
             x == OutputOf(n)
  <2>1. /\ f \in Nodes /\ n \in Operands(f) /\ f < n /\ f \in Nat /\ n \in Nat
        /\ tree.type[f] \in SequenceTypes \cup {"Pipe"}
    BY <1>1, FatherOfNode
  <2>2. WiredWriters(n) = {m \in {x} : ~redirected(m)}
    <3>1. x \in Nodes /\ tree.type[x] # "Pipe" /\ tree.to[x] = PipeOf(n)
      <4>1. tree.to[n] = PipeOf(n)
        BY <1>4, OutCases
      <4> QED BY <4>1, OutputFacts
    <3> HIDE DEF x
    <3>2. ASSUME NEW m \in WiredWriters(n) PROVE m = x /\ ~redirected(m)
      <4>1. m \in Nodes /\ tree.type[m] # "Pipe"
        BY <3>2 DEF WiredWriters, Executables, Sequencers, SequenceTypes
      <4>2. tree.to[m] = PipeOf(n) /\ ~redirected(m)
        <5>1. m \in Executables => tree.std_out[m] = PipeOf(n)
          BY <3>2 DEF WiredWriters, Executables, Sequencers, SequenceTypes
        <5>2. m \notin Executables => tree.to[m] = PipeOf(n)
          BY <3>2 DEF WiredWriters
        <5> QED BY <4>1, <5>1, <5>2, OutCases, StreamsDiffer DEF Executables
      <4> QED BY <4>1, <4>2, OneWriter DEF x
    <3>3. ASSUME ~redirected(x) PROVE x \in WiredWriters(n)
      <4>1. tree.type[x] \in SequenceTypes \cup {"Executable"}
        BY <1>1, <3>1, TreeFacts DEF NodeTypes
      <4>2. CASE tree.type[x] = "Executable"
        BY <3>1, <3>3, <4>2, OutCases DEF WiredWriters, Executables
      <4>3. CASE tree.type[x] \in SequenceTypes
        BY <3>1, <4>3 DEF WiredWriters, Sequencers
      <4> QED BY <4>1, <4>2, <4>3
    <3> QED BY <3>2, <3>3
  <2>3. CASE Piped(n)
    <3> DEFINE N == NextOperand(n)
    <3>1. \A s \in Sequencers : n \notin Operands(s)
      BY <2>3 DEF Sequencers, Operands, SequenceTypes
    <3>2. ASSUME NEW m \in WiredReaders(n) PROVE m \in InputOf(N)
      <4>1. m \in Executables /\ m \in Nodes /\ tree.std_in[m] = PipeOf(n)
        BY <1>1, <3>1, <3>2 DEF WiredReaders
      <4>2. tree.from[m] = PipeOf(n)
        BY <4>1, InCases, StreamsDiffer
      <4>3. InputOf(m) = InputOf(N)
        BY <4>1, <4>2, OneReader
      <4>4. InputOf(m) = {m}
        BY <1>1, <4>1, InputOfUnfolds
      <4> QED BY <4>3, <4>4
    <3>3. /\ N \in Nodes \ {1} /\ tree.father[N] = f
          /\ EarlierOperands(f, N) # {} /\ Last(EarlierOperands(f, N)) = n
      <4> DEFINE later == LaterOperands(f, n)
      <4>1. later \in SUBSET Nat /\ Operands(f) \in SUBSET Nat
            /\ later = {k \in Operands(f) : n < k}
        BY <1>1, TreeFacts DEF LaterOperands
      <4>2. Last(Operands(f)) \in Operands(f) /\ n <= Last(Operands(f)) /\ n # Last(Operands(f))
        BY <1>1, <1>4, <2>1, <2>3, OperandPlaces DEF HandsOn
      <4>3. Last(Operands(f)) \in later
        BY <2>1, <4>1, <4>2
      <4>4. N = First(later)
        BY DEF NextOperand
      <4> HIDE DEF later
      <4>5. N \in later /\ \A k \in later : N <= k
        BY <4>1, <4>3, <4>4, FirstIsLeast
      <4> HIDE DEF N, f
      <4>6. N \in Operands(f) /\ n < N /\ N \in Nat
        BY <4>1, <4>5
      <4>7. N \in Nodes /\ tree.father[N] = f /\ N # 1
        BY <1>1, <2>1, <4>6, TreeFacts DEF Operands
      <4> DEFINE left == EarlierOperands(f, N)
      <4>8. n \in left
        BY <2>1, <4>6 DEF EarlierOperands
      <4>9. ASSUME NEW k \in left PROVE k <= n
        <5>1. k \in Operands(f) /\ k < N /\ k \in Nat
          BY <4>1 DEF EarlierOperands
        <5>2. ~(n < k)
          <6>1. n < k => N <= k
            BY <4>1, <4>5, <5>1
          <6> QED BY <4>6, <5>1, <6>1
        <5> QED BY <2>1, <5>1, <5>2
      <4>10. left \in SUBSET (0..tree.size) /\ tree.size \in Nat
        BY <1>1 DEF IsTree, EarlierOperands, Operands, Nodes
      <4> HIDE DEF left
      <4>11. Last(left) \in left /\ n <= Last(left)
        BY <4>8, <4>10, LastIsGreatest
      <4>12. Last(left) = n
        <5>1. Last(left) <= n
          BY <4>9, <4>11
        <5>2. Last(left) \in Nat
          <6>1. left \in SUBSET Nat
            BY <4>1 DEF left, EarlierOperands
          <6> QED BY <4>11, <6>1
        <5> QED BY <2>1, <4>11, <5>1, <5>2
      <4> QED BY <4>7, <4>8, <4>12 DEF left
    <3> HIDE DEF N
    <3>4. tree.from[N] = PipeOf(n)
      BY <2>3, <3>3, InCases
    <3>5. ASSUME NEW m \in InputOf(N), m \notin tree.redirect_in PROVE m \in WiredReaders(n)
      <4>1. m \in Executables /\ m \in Nodes /\ tree.from[m] = PipeOf(n)
        BY <3>3, <3>4, InputFacts
      <4>2. tree.std_in[m] = PipeOf(n)
        BY <3>5, <4>1, InCases
      <4> QED BY <4>1, <4>2 DEF WiredReaders
    <3> QED BY <2>2, <2>3, <3>2, <3>5 DEF N
  <2>4. CASE ~Piped(n)
    <3>1. f \in Sequencers
      BY <2>1, <2>4 DEF Sequencers
    <3>2. \A s \in Sequencers : n \in Operands(s) <=> s = f
      BY <2>1, <3>1 DEF Operands
    <3>3. ASSUME NEW m \in Executables PROVE tree.std_in[m] # PipeOf(n)
      <4>1. m \in Nodes
        BY <1>1
      <4>2. tree.from[m] # PipeOf(n)
        BY <2>4, <4>1, OneReader
      <4> QED BY <4>1, <4>2, InCases, StreamsDiffer
    <3>4. WiredReaders(n) = {f}
      BY <3>1, <3>2, <3>3 DEF WiredReaders
    <3> QED BY <2>2, <2>4, <3>4
  <2> QED BY <2>3, <2>4
<1> QED
  BY <1>2, <1>3, <1>4 DEF StreamsAsAsked, HandsOn

\* Only wire_redirects() takes the tool to where it executes.
LEMMA WiringStep ==
    ASSUME Inv, WireInv, [Next]_vars
    PROVE  WireInv'
<1>1. CASE stage = "executing" /\ stage' = "executing" /\ tree' = tree
  BY <1>1 DEF WireInv, StreamsWired
<1>2. CASE stage' # "executing"
  BY <1>2 DEF WireInv
<1>3. CASE WireRedirects
  <2>1. /\ stage = "builtins" /\ cursor > Len(nodes) /\ tree' = Wired(BuiltTree)
        /\ TypeInv /\ ProgressInv /\ PreorderInv /\ PipeInv /\ CdInv
    BY <1>3 DEF WireRedirects, Inv
  <2>2. Len(nodes) \in Nat /\ \A n \in Created : n \in Nat /\ n < cursor
    BY <2>1, WorkFacts DEF CdInv, Created
  <2>3. removed = {n \in Created : IsHandedOn(n)}
    BY <2>1, <2>2 DEF CdInv
  <2>4. IsTree(BuiltTree)
    BY <2>1, <2>3, BuiltIsTree DEF ProgressInv
  <2>5. StreamsWired'
    BY <2>1, <2>4, WiredStreams DEF StreamsWired
  <2> QED BY <2>5 DEF WireInv
<1>4. CASE UNCHANGED vars
  <2>1. stage' = stage /\ tree' = tree
    BY <1>4 DEF vars, parserVars, builtinVars
  <2> QED BY <1>1, <1>2, <2>1
<1>5. CASE CreateTreeFromString
  <2>1. CreateNode => stage' # "executing"
    <3>1. CreateNode => stage = "parsing" /\ (stage' = stage \/ stage' = "failed")
      <4>1. CreateNode => stage = "parsing"
        BY DEF CreateNode
      <4> QED BY <4>1, NodeCreated DEF Inv
    <3> QED BY <3>1
  <2> QED BY <1>2, <1>3, <1>5, <2>1 DEF CreateTreeFromString, ParsingEnds, ApplyBuiltin, ApplyCd
<1>6. CASE ParseOption \/ TakeCommand \/ PrintHelp \/ StopDaemon \/ StartDaemon
  BY <1>2, <1>6 DEF ParseOption, TakeCommand, PrintHelp, StopDaemon, StartDaemon, Exits
<1>7. CASE Run \/ PrintResults \/ Return
  <2>1. stage' # "executing"
    BY <1>7 DEF Run, PrintResults, Printing, Return, Exits, parserVars
  <2> QED BY <1>2, <2>1
<1> QED BY <1>3, <1>4, <1>5, <1>6, <1>7 DEF Next

-----------------------------------------------------------------------------
(* Theorems.                                                               *)

LEMMA InvInit ==
    Init => Inv
<1> SUFFICES ASSUME Init PROVE Inv
  OBVIOUS
<1>1. /\ stage = "arguments" /\ argv \in CommandLines
      /\ arguments = [print_help |-> FALSE, stop_daemon |-> FALSE, command |-> <<>>,
                      log_options |-> DEFAULT_LOG_OPTIONS]
      /\ clock = <<<<0, 0>>, <<0, 0>>>>
      /\ root_code = Uninitialised /\ exit_status = Uninitialised
      /\ work = <<>> /\ nodes = <<>> /\ executed = {} /\ attributes = <<>>
      /\ report = <<>>
  BY DEF Init
<1>2. argv \in Seq(Texts)
  <2>1. argv \in Seq(Seq(STRING))
    BY <1>1, InputsAssumption
  <2>2. STRING \subseteq Glyphs
    BY DEF Glyphs
  <2> DEFINE Strings == Seq(STRING)
  <2>3. Strings \subseteq Texts
    <3> SUFFICES ASSUME NEW s \in Strings PROVE s \in Texts
      OBVIOUS
    <3> QED BY <2>2, SeqMonotonic DEF Texts
  <2> HIDE DEF Strings, Texts
  <2>4. argv \in Seq(Strings)
    BY <2>1 DEF Strings
  <2> QED BY <2>3, <2>4, SeqMonotonic
<1>3. DEFAULT_LOG_OPTIONS \in Texts /\ <<>> \in Texts
  <2>1. /\ "invocation_failed" \in Glyphs /\ "pid" \in Glyphs /\ "start_time" \in Glyphs
        /\ "end_time" \in Glyphs /\ "total_time" \in Glyphs /\ "user_cpu_time" \in Glyphs
        /\ "system_cpu_time" \in Glyphs /\ "exit_code" \in Glyphs
    BY DEF Glyphs, Attributes
  <2> QED BY <2>1 DEF Texts, DEFAULT_LOG_OPTIONS
<1>4. Listed(nodes) /\ Len(nodes) = 0 /\ Listed(report) /\ Len(report) = 0
  <2>1. Len(<<>>) = 0 /\ \A S : <<>> \in Seq(S)
    OBVIOUS
  <2> QED BY <1>1, <2>1 DEF Listed
<1>5. Created = {} /\ Places = {}
  BY <1>1, <1>4 DEF Created, Places
<1>6. TypeInv
  <2>1. work \in Seq([string : Texts, father : Nat]) /\ attributes \in Seq(Attributes)
    BY <1>1
  <2>2. arguments \in [print_help : BOOLEAN, stop_daemon : BOOLEAN,
                       command : Texts, log_options : Texts]
    <3> HIDE DEF Texts, DEFAULT_LOG_OPTIONS
    <3> QED BY <1>1, <1>3
  <2>3. clock \in (Nat \X Nat) \X (Nat \X Nat)
    BY <1>1
  <2> QED BY <1>1, <1>2, <1>4, <1>5, <2>1, <2>2, <2>3 DEF TypeInv, Stages
<1>7. ProgressInv /\ PreorderInv /\ PipeInv
  BY <1>1, <1>5 DEF ProgressInv, PreorderInv, PipeInv
<1>8. CdInv /\ BuiltTreeIsTree /\ CdsGoToFollowers
  BY <1>1 DEF CdInv, BuiltTreeIsTree, CdsGoToFollowers
<1>9. ReportInv
  BY <1>4 DEF ReportInv, PrintedTimeAddsUp
<1> QED BY <1>1, <1>6, <1>7, <1>8, <1>9 DEF Inv

LEMMA InvNext ==
    Inv /\ [Next]_vars => Inv'
<1> SUFFICES ASSUME Inv, [Next]_vars PROVE Inv'
  OBVIOUS
<1>1. CASE ParseOption
  BY <1>1, OptionParsed
<1>2. CASE TakeCommand
  BY <1>2, CommandTaken
<1>3. CASE PrintHelp \/ StopDaemon
  BY <1>3, HelpPrinted
<1>4. CASE StartDaemon
  BY <1>4, DaemonStarted
<1>5. CASE CreateTreeFromString
  BY <1>5, TreeStep
<1>6. CASE Run
  BY <1>6, RunStep
<1>7. CASE PrintResults
  BY <1>7, PrintStep
<1>8. CASE Return
  BY <1>8, ReturnStep
<1>9. CASE UNCHANGED vars
  <2>1. /\ stage' = stage /\ work' = work /\ nodes' = nodes
        /\ UNCHANGED builtinVars /\ UNCHANGED reportVars
        /\ argv' = argv /\ arguments' = arguments /\ root_code' = root_code
        /\ exit_status' = exit_status
    BY <1>9 DEF vars, parserVars, mainVars
  <2>2. TypeInv'
    BY <2>1 DEF Inv, TypeInv, Created, reportVars
  <2>3. ProgressInv'
    BY <2>1 DEF Inv, ProgressInv, Places, reportVars
  <2> QED BY <2>1, <2>2, <2>3, TreeKept
<1> QED BY <1>1, <1>2, <1>3, <1>4, <1>5, <1>6, <1>7, <1>8, <1>9 DEF Next

LEMMA InvAlways ==
    Spec => []Inv
BY InvInit, InvNext, PTL DEF Spec

\* The tool is in a known stage, each node comes after the operator it is an operand
\* of, and it has an exit status of eight bits exactly when it ends.
THEOREM ToolTypes == Spec => []TypeOK
<1>1. Inv => TypeOK
  <2> SUFFICES ASSUME Inv PROVE TypeOK
    OBVIOUS
  <2>1. TypeInv /\ PreorderInv /\ executed \subseteq Executables
    BY DEF Inv
  <2>2. Len(nodes) \in Nat /\ Len(work) \in Nat
    BY <2>1, WorkFacts
  <2>3. ASSUME NEW n \in Created PROVE nodes[n].father \in 0..(n - 1)
    <3>1. n \in Places /\ n \in Nat /\ FatherAt(n) = nodes[n].father
      BY <2>2 DEF Created, Places, FatherAt
    <3>2. FatherAt(n) \in Nat /\ FatherAt(n) < n
      BY <2>1, <3>1 DEF PreorderInv
    <3> QED BY <3>1, <3>2
  <2> QED BY <2>1, <2>3 DEF TypeInv, TypeOK
<1> QED BY <1>1, InvAlways, PTL

\* Whatever the command line, what apply_cd_builtin() leaves of the parsed nodes is a
\* tree whose pipes have two operands, and wire_redirects() wires it.
THEOREM TreeIsBuilt == Spec => []BuiltTreeIsTree
<1>1. Inv => BuiltTreeIsTree
  BY DEF Inv
<1> QED BY <1>1, InvAlways, PTL

\* apply_cd_builtin() gives each command the directories of the cd commands before it
\* in its own sequence, in order, and of no others.
THEOREM CdsReachFollowers == Spec => []CdsGoToFollowers
<1>1. Inv => CdsGoToFollowers
  BY DEF Inv
<1> QED BY <1>1, InvAlways, PTL

\* The hours, minutes, seconds and nanoseconds that print_timespec() prints make up
\* the time between start and end, whatever the clock showed.
THEOREM TimesAddUp == Spec => []PrintedTimeAddsUp
<1>1. Inv => PrintedTimeAddsUp
  BY DEF Inv, ReportInv
<1> QED BY <1>1, InvAlways, PTL

\* Outcome and Due, one step for the whole of handle_operands_node_execution_completed()
\* and execute_async(), are what the interleaved evaluation of Evaluation arrives at:
\* once the commands that are due have ended no other is due, and the command has the
\* status of Outcome.
THEOREM RunEvaluates == Spec => []AsEvaluated
<1>1. Inv => AsEvaluated
  <2> SUFFICES ASSUME Inv, stage = "executing", \A n \in Nodes \ Executables : Operands(n) # {},
                      NEW status \in [Executables -> ExitStatuses]
               PROVE  LET due == Due(status) \cap Executables
                          ended == [n \in Executables |-> IF n \in due THEN status[n]
                                                         ELSE Uninitialised]
                      IN /\ Evaluated(due, ended)!Due = due
                         /\ Evaluated(due, ended)!Value[1] = Outcome(status)[1]
    BY DEF AsEvaluated
  <2>1. IsTree(tree) /\ NothingEmpty
    BY DEF Inv, BuiltTreeIsTree, NothingEmpty
  <2> DEFINE due == Due(status) \cap Executables
  <2>2. Evaluated(due, EndedAs(status))!Due = due
    BY <2>1, DueIsReached
  <2>3. Evaluated(due, EndedAs(status))!Value = ValueOf(status)
    BY <2>1, ValueIsReached
  <2>4. ValueOf(status)[1] = Outcome(status)[1]
    BY <2>1, TreeFacts, DueUnfolds DEF ValueOf
  <2> QED BY <2>2, <2>3, <2>4 DEF EndedAs
<1> QED BY <1>1, InvAlways, PTL

\* Whatever the command line, between two operands of a pipe, and between an operand
\* of a sequence and its appender, wire_redirects() puts one pipe with one writer and
\* one reader, unless the command at that end has a redirect of its own.
THEOREM StreamsAreWired == Spec => []StreamsAsAsked
<1>1. Init => WireInv
  BY DEF Init, WireInv
<1>2. Inv /\ WireInv /\ [Next]_vars => WireInv'
  BY WiringStep
<1>3. WireInv => StreamsAsAsked
  <2>1. stage # "executing" => StreamsAsAsked
    BY DEF StreamsAsAsked
  <2> QED BY <2>1, StreamsConnect DEF WireInv
<1> QED BY <1>1, <1>2, <1>3, InvAlways, PTL DEF Spec

=============================================================================
