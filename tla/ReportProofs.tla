---------------------------- MODULE ReportProofs ----------------------------
(***************************************************************************)
(* What print_results() writes: proofs about Report and Tool, for every    *)
(* tree, every choice of attributes and each of the three formats.         *)
(***************************************************************************)
EXTENDS ToolProofs

-----------------------------------------------------------------------------
(* The page: tags.                                                         *)

\* The depth of a node, as in DivsNest.
DepthOf(n) ==
    LET depth[m \in Nodes] == IF m = 1 THEN 0 ELSE depth[tree.father[m]] + 1
    IN depth[n]

DepthAt(g, m) == IF m = 1 THEN 0 ELSE g[tree.father[m]] + 1

LEMMA DepthUnfolds ==
    ASSUME IsTree(tree), NEW n \in Nodes
    PROVE  /\ DepthOf(n) \in Nat
           /\ DepthOf(n) = IF n = 1 THEN 0 ELSE DepthOf(tree.father[n]) + 1
<1> DEFINE rank == [m \in Nodes |-> m]
           step == [m \in Nodes |-> [g \in [Nodes -> Nat] |-> DepthAt(g, m)]]
           depth == CHOOSE depth : depth = [m \in Nodes |-> DepthAt(depth, m)]
           Bad == {m \in Nodes : depth[m] \notin Nat}
<1>1. tree.size \in Nat /\ Nat # {}
  BY DEF IsTree
<1>2. rank \in [Nodes -> 0..tree.size]
  BY <1>1 DEF Nodes
<1>3. ASSUME NEW m \in Nodes, m # 1
      PROVE  tree.father[m] \in Nodes /\ tree.father[m] < m
  BY <1>3, FatherOfNode
<1>4. step \in [Nodes -> [[Nodes -> Nat] -> Nat]]
  <2> SUFFICES ASSUME NEW m \in Nodes, NEW g \in [Nodes -> Nat] PROVE DepthAt(g, m) \in Nat
    OBVIOUS
  <2>1. m # 1 => g[tree.father[m]] \in Nat
    BY <1>3
  <2> QED BY <2>1 DEF DepthAt
<1>5. ASSUME NEW m \in Nodes, NEW g \in [Nodes -> Nat], NEW h \in [Nodes -> Nat],
             \A k \in Nodes : rank[k] < rank[m] => g[k] = h[k]
      PROVE  step[m][g] = step[m][h]
  <2>1. DepthAt(g, m) = DepthAt(h, m)
    BY <1>3, <1>5 DEF DepthAt
  <2> QED BY <2>1
<1>6. IsRecursion(Nodes, Nat, tree.size, rank, step)
  BY <1>2, <1>4, <1>5 DEF IsRecursion
<1>7. PICK g \in [Nodes -> Nat] : \A m \in Nodes : g[m] = step[m][g]
  <2> HIDE DEF rank, step
  <2> QED BY <1>1, <1>6, RecursionHasSolution
<1>8. g = [m \in Nodes |-> DepthAt(g, m)]
  BY <1>7
<1>9. depth = [m \in Nodes |-> DepthAt(depth, m)]
  BY <1>8, Zenon
<1>10. \A m : DepthOf(m) = depth[m]
  BY DEF DepthOf, DepthAt
<1> HIDE DEF depth
<1>11. \A m \in Nodes : depth[m] = IF m = 1 THEN 0 ELSE depth[tree.father[m]] + 1
  BY <1>9, Zenon DEF DepthAt
<1>12. ASSUME NEW m \in Nodes, depth[m] \notin Nat
       PROVE  \E k \in Nodes : depth[k] \notin Nat /\ rank[k] < rank[m]
  <2>1. m # 1 /\ depth[tree.father[m]] \notin Nat
    BY <1>11, <1>12
  <2> QED BY <1>3, <2>1
<1>13. IsBottomless(Nodes, tree.size, rank, Bad)
  BY <1>1, <1>2, <1>12 DEF IsBottomless
<1>14. Bad = {}
  <2> HIDE DEF Bad, rank
  <2> QED BY <1>13, RankDescent
<1>15. depth[n] \in Nat
  BY <1>14
<1> QED BY <1>10, <1>11, <1>15

\* How often x is among the first i pieces, and how many tags are open after them.
CountOf(s, i, x) == Cardinality({j \in 1..i : s[j] = x})
OpenAt(s, i) == CountOf(s, i, Div) - CountOf(s, i, EndDiv)

\* The pieces written so far are nested, and c tags are open.
Nested(s, c) ==
    /\ Listed(s)
    /\ OpenAt(s, Len(s)) = c
    /\ \A i \in 1..Len(s) :
         /\ OpenAt(s, i) >= 0
         /\ s[i].kind = "executable" => OpenAt(s, i) = 2 * DepthOf(s[i].node) + 1

LEMMA Tags ==
    /\ Div # EndDiv /\ Div.kind = "mark" /\ EndDiv.kind = "mark"
    /\ \A n, what : Value(n, what) \notin {Div, EndDiv} /\ Value(n, what).kind = "value"
    /\ \A n : /\ Row(n) \notin {Div, EndDiv} /\ Row(n).kind = "executable"
              /\ Row(n).node = n
<1>1. Div.kind = "mark" /\ EndDiv.kind = "mark" /\ Div.what[1] # EndDiv.what[1]
  BY DEF Div, EndDiv, Mark
<1>2. \A n, what : Value(n, what).kind = "value"
  BY DEF Value
<1>3. \A n : Row(n).kind = "executable" /\ Row(n).node = n
  BY DEF Row
<1> QED BY <1>1, <1>2, <1>3

\* Counting one piece more.
LEMMA CountedMore ==
    ASSUME NEW s, Listed(s), NEW e, NEW x
    PROVE  /\ \A i \in 1..Len(s) : CountOf(Append(s, e), i, x) = CountOf(s, i, x)
           /\ CountOf(Append(s, e), Len(s) + 1, x)
                = CountOf(s, Len(s), x) + (IF e = x THEN 1 ELSE 0)
           /\ \A i \in 0..Len(s) : CountOf(s, i, x) \in Nat
<1> DEFINE t == Append(s, e)
           l == Len(s)
           Found(i) == {j \in 1..i : s[j] = x}
<1>1. /\ l \in Nat /\ \A i \in 1..l : t[i] = s[i]
      /\ t[l + 1] = e
  BY ListedAppend, ListedIsFunction
<1> HIDE DEF t, l
<1>2. ASSUME NEW i \in 0..l PROVE IsFiniteSet(Found(i)) /\ Cardinality(Found(i)) \in Nat
  <2>1. IsFiniteSet(1..i) /\ Found(i) \in SUBSET (1..i)
    BY <1>1, FS_Interval
  <2> QED BY <2>1, FS_Subset, FS_CardinalityType
<1>3. ASSUME NEW i \in 1..l PROVE {j \in 1..i : t[j] = x} = Found(i)
  BY <1>1
<1>4. {j \in 1..(l + 1) : t[j] = x} = IF e = x THEN Found(l) \cup {l + 1} ELSE Found(l)
  BY <1>1
<1>5. l \in 0..l /\ l + 1 \notin Found(l)
  BY <1>1
<1> HIDE DEF Found
<1>6. Cardinality(Found(l) \cup {l + 1}) = Cardinality(Found(l)) + 1 /\ Cardinality(Found(l)) \in Nat
  BY <1>2, <1>5, FS_AddElement
<1> DEFINE Grown == {j \in 1..(l + 1) : t[j] = x}
<1>7. (e = x => Grown = Found(l) \cup {l + 1}) /\ (e # x => Grown = Found(l))
  BY <1>4
<1> HIDE DEF Grown
<1>8. Cardinality(Grown) = Cardinality(Found(l)) + (IF e = x THEN 1 ELSE 0)
  BY <1>6, <1>7
<1> QED BY <1>2, <1>3, <1>8 DEF Grown, Found, CountOf, t, l

TagChange(e) == IF e = Div THEN 1 ELSE IF e = EndDiv THEN -1 ELSE 0

LEMMA NestedMore ==
    ASSUME NEW s, NEW c \in Nat, NEW e, Nested(s, c), c + TagChange(e) \in Nat,
           e.kind = "executable" => c = 2 * DepthOf(e.node) + 1
    PROVE  Nested(Append(s, e), c + TagChange(e))
<1> DEFINE t == Append(s, e)
           l == Len(s)
<1>1. /\ Listed(s) /\ Listed(t) /\ Len(t) = l + 1 /\ l \in Nat
      /\ \A i \in 1..l : t[i] = s[i]
      /\ t[l + 1] = e
  BY ListedAppend, ListedIsFunction DEF Nested
<1>2. /\ \A i \in 1..l : CountOf(t, i, Div) = CountOf(s, i, Div)
      /\ CountOf(t, l + 1, Div) = CountOf(s, l, Div) + (IF e = Div THEN 1 ELSE 0)
      /\ CountOf(s, l, Div) \in Nat
  <2>1. l \in 0..l
    BY <1>1
  <2> QED BY <1>1, <2>1, CountedMore
<1>3. /\ \A i \in 1..l : CountOf(t, i, EndDiv) = CountOf(s, i, EndDiv)
      /\ CountOf(t, l + 1, EndDiv) = CountOf(s, l, EndDiv) + (IF e = EndDiv THEN 1 ELSE 0)
      /\ CountOf(s, l, EndDiv) \in Nat
  <2>1. l \in 0..l
    BY <1>1
  <2> QED BY <1>1, <2>1, CountedMore
<1> HIDE DEF t
<1>4. \A i \in 1..l : OpenAt(t, i) = OpenAt(s, i)
  BY <1>2, <1>3 DEF OpenAt
<1>5. OpenAt(t, l + 1) = c + TagChange(e)
  <2>1. OpenAt(s, l) = c
    BY DEF Nested
  <2>2. OpenAt(t, l + 1) = OpenAt(s, l) + (IF e = Div THEN 1 ELSE 0) - (IF e = EndDiv THEN 1 ELSE 0)
    BY <1>2, <1>3 DEF OpenAt
  <2> HIDE DEF l
  <2>3. TagChange(e) = (IF e = Div THEN 1 ELSE 0) - (IF e = EndDiv THEN 1 ELSE 0)
    BY Tags DEF TagChange
  <2> QED BY <2>1, <2>2, <2>3
<1>6. e.kind = "executable" => TagChange(e) = 0
  BY Tags DEF TagChange
<1>7. ASSUME NEW i \in 1..(l + 1)
      PROVE  /\ OpenAt(t, i) >= 0
             /\ t[i].kind = "executable" => OpenAt(t, i) = 2 * DepthOf(t[i].node) + 1
  <2>1. CASE i = l + 1
    <3>1. OpenAt(t, i) = c + TagChange(e) /\ t[i] = e
      BY <1>1, <1>5, <2>1
    <3> QED BY <1>6, <3>1
  <2>2. CASE i # l + 1
    <3>1. i \in 1..l
      BY <1>1, <2>2
    <3> QED BY <1>1, <1>4, <3>1 DEF Nested
  <2> QED BY <2>1, <2>2
<1>8. Nested(t, c + TagChange(e))
  BY <1>1, <1>5, <1>7 DEF Nested
<1> QED BY <1>8 DEF t

\* What a printer appends, piece by piece.
LEMMA Appends ==
    ASSUME NEW s, Listed(s), NEW a, NEW b, NEW c
    PROVE  /\ s \o <<a>> = Append(s, a)
           /\ s \o <<a, b>> = Append(Append(s, a), b)
           /\ s \o <<a, b, c>> = Append(Append(Append(s, a), b), c)
<1> DEFINE l == Len(s)
           s1 == Append(s, a)
           s2 == Append(s1, b)
           s3 == Append(s2, c)
<1>1. /\ Listed(<<a>>) /\ Len(<<a>>) = 1 /\ <<a>>[1] = a
      /\ Listed(<<a, b>>) /\ Len(<<a, b>>) = 2 /\ <<a, b>>[1] = a /\ <<a, b>>[2] = b
      /\ Listed(<<a, b, c>>) /\ Len(<<a, b, c>>) = 3
      /\ <<a, b, c>>[1] = a /\ <<a, b, c>>[2] = b /\ <<a, b, c>>[3] = c
  <2>1. <<a>> \in Seq({a, b, c}) /\ <<a, b>> \in Seq({a, b, c}) /\ <<a, b, c>> \in Seq({a, b, c})
    OBVIOUS
  <2> QED BY <2>1, SeqIsListed
<1>2. l \in Nat
  BY ListedIsFunction
<1>3. /\ Listed(s1) /\ Len(s1) = l + 1
      /\ \A i \in 1..l : s1[i] = s[i]
      /\ s1[l + 1] = a
  BY ListedAppend
<1> HIDE DEF s1
<1>4. /\ Listed(s2) /\ Len(s2) = l + 2
      /\ \A i \in 1..(l + 1) : s2[i] = s1[i]
      /\ s2[l + 2] = b
  <2>1. /\ Listed(s2) /\ Len(s2) = Len(s1) + 1
        /\ \A i \in 1..Len(s1) : s2[i] = s1[i]
        /\ s2[Len(s1) + 1] = b
    BY <1>3, ListedAppend
  <2>2. l + 1 + 1 = l + 2
    BY <1>2
  <2> QED BY <1>3, <2>1, <2>2
<1> HIDE DEF s2
<1>5. /\ Listed(s3) /\ Len(s3) = l + 3
      /\ \A i \in 1..(l + 2) : s3[i] = s2[i]
      /\ s3[l + 3] = c
  <2>1. /\ Listed(s3) /\ Len(s3) = Len(s2) + 1
        /\ \A i \in 1..Len(s2) : s3[i] = s2[i]
        /\ s3[Len(s2) + 1] = c
    BY <1>4, ListedAppend
  <2>2. l + 2 + 1 = l + 3
    BY <1>2
  <2> QED BY <1>4, <2>1, <2>2
<1> HIDE DEF s3, l
<1>6. s \o <<a>> = s1
  <2>1. /\ Listed(s \o <<a>>) /\ Len(s \o <<a>>) = l + 1
        /\ \A i \in 1..(l + 1) :
             (s \o <<a>>)[i] = IF i <= l THEN s[i] ELSE <<a>>[i - l]
    BY <1>1, ListedConcat DEF l
  <2>2. \A i \in 1..(l + 1) : (s \o <<a>>)[i] = s1[i]
    BY <1>1, <1>2, <1>3, <2>1
  <2> QED BY <1>3, <2>1, <2>2, SameListed
<1>7. s \o <<a, b>> = s2
  <2>1. /\ Listed(s \o <<a, b>>) /\ Len(s \o <<a, b>>) = l + 2
        /\ \A i \in 1..(l + 2) :
             (s \o <<a, b>>)[i] = IF i <= l THEN s[i] ELSE <<a, b>>[i - l]
    BY <1>1, ListedConcat DEF l
  <2>2. \A i \in 1..(l + 2) : (s \o <<a, b>>)[i] = s2[i]
    BY <1>1, <1>2, <1>3, <1>4, <2>1
  <2> QED BY <1>4, <2>1, <2>2, SameListed
<1>8. s \o <<a, b, c>> = s3
  <2>1. /\ Listed(s \o <<a, b, c>>) /\ Len(s \o <<a, b, c>>) = l + 3
        /\ \A i \in 1..(l + 3) :
             (s \o <<a, b, c>>)[i] = IF i <= l THEN s[i] ELSE <<a, b, c>>[i - l]
    BY <1>1, ListedConcat DEF l
  <2>2. \A i \in 1..(l + 3) : (s \o <<a, b, c>>)[i] = s3[i]
    BY SMTT(60), <1>1, <1>2, <1>3, <1>4, <1>5, <2>1
  <2> QED BY <1>5, <2>1, <2>2, SameListed
<1> QED BY <1>6, <1>7, <1>8 DEF s1, s2, s3

LEMMA DepthKept ==
    ASSUME tree' = tree
    PROVE  \A n : DepthOf(n)' = DepthOf(n)
<1>1. Nodes' = Nodes
  BY DEF Nodes
<1> QED BY <1>1 DEF DepthOf

\* Nested of the report after a step.
LEMMA NestedKept ==
    ASSUME tree' = tree, NEW c, Nested(report', c)
    PROVE  Nested(report, c)'
BY DepthKept DEF Nested, OpenAt, CountOf, Listed, Div, EndDiv, Mark, NoNode

LEMMA AppendedOne ==
    ASSUME NEW s, Listed(s), NEW a
    PROVE  s \o <<a>> = Append(s, a)
<1>1. s \o <<a, a, a>> = Append(Append(Append(s, a), a), a)
  BY Appends
<1> QED BY <1>1, Appends

LEMMA AppendedTwo ==
    ASSUME NEW s, Listed(s), NEW a, NEW b
    PROVE  s \o <<a, b>> = Append(Append(s, a), b)
<1>1. s \o <<a, b, a>> = Append(Append(Append(s, a), b), a)
  BY Appends
<1> QED BY <1>1, Appends

LEMMA FiveAppended ==
    ASSUME NEW s, Listed(s), NEW a, NEW b, NEW c, NEW d, NEW e
    PROVE  s \o <<a, b, c, d, e>> = (s \o <<a, b, c>>) \o <<d, e>>
<1> DEFINE l == Len(s)
           three == <<a, b, c>>
           two == <<d, e>>
           five == <<a, b, c, d, e>>
<1>1. /\ Listed(three) /\ Listed(two) /\ Listed(five)
      /\ Len(three) = 3 /\ Len(two) = 2 /\ Len(five) = 5
      /\ five[1] = three[1] /\ five[2] = three[2] /\ five[3] = three[3]
      /\ five[4] = two[1] /\ five[5] = two[2]
  <2>1. /\ three \in Seq({a, b, c, d, e}) /\ two \in Seq({a, b, c, d, e})
        /\ five \in Seq({a, b, c, d, e})
    OBVIOUS
  <2> QED BY <2>1, SeqIsListed
<1>2. l \in Nat /\ Listed(s)
  BY ListedIsFunction
<1> HIDE DEF three, two, five
<1>3. /\ Listed(s \o five) /\ Len(s \o five) = l + 5
      /\ \A i \in 1..(l + 5) : (s \o five)[i] = IF i <= l THEN s[i] ELSE five[i - l]
  <2>1. /\ Listed(s \o five) /\ Len(s \o five) = Len(s) + Len(five)
        /\ \A i \in 1..(Len(s) + Len(five)) :
             (s \o five)[i] = IF i <= Len(s) THEN s[i] ELSE five[i - Len(s)]
    BY <1>1, <1>2, ListedConcat, Zenon
  <2> QED BY <1>1, <2>1
<1>4. /\ Listed(s \o three) /\ Len(s \o three) = l + 3
      /\ \A i \in 1..(l + 3) : (s \o three)[i] = IF i <= l THEN s[i] ELSE three[i - l]
  <2>1. /\ Listed(s \o three) /\ Len(s \o three) = Len(s) + Len(three)
        /\ \A i \in 1..(Len(s) + Len(three)) :
             (s \o three)[i] = IF i <= Len(s) THEN s[i] ELSE three[i - Len(s)]
    BY <1>1, <1>2, ListedConcat, Zenon
  <2> QED BY <1>1, <2>1
<1> HIDE DEF l
<1> DEFINE st == s \o three
<1>5. /\ Listed(st \o two) /\ Len(st \o two) = l + 5
      /\ \A i \in 1..(l + 5) : (st \o two)[i] = IF i <= l + 3 THEN st[i] ELSE two[i - (l + 3)]
  <2>1. Listed(st) /\ Len(st) = l + 3
    BY <1>4
  <2> HIDE DEF st
  <2>2. /\ Listed(st \o two) /\ Len(st \o two) = Len(st) + Len(two)
        /\ \A i \in 1..(Len(st) + Len(two)) :
             (st \o two)[i] = IF i <= Len(st) THEN st[i] ELSE two[i - Len(st)]
    BY <1>1, <2>1, ListedConcat, Zenon
  <2>3. l + 3 + 2 = l + 5
    BY <1>2
  <2> QED BY <1>1, <2>1, <2>2, <2>3
<1>6. \A i \in 1..(l + 5) : (s \o five)[i] = (st \o two)[i]
  <2> SUFFICES ASSUME NEW i \in 1..(l + 5) PROVE (s \o five)[i] = (st \o two)[i]
    OBVIOUS
  <2>1. /\ (s \o five)[i] = IF i <= l THEN s[i] ELSE five[i - l]
        /\ (st \o two)[i] = IF i <= l + 3 THEN st[i] ELSE two[i - (l + 3)]
    BY <1>3, <1>5
  <2>2. i <= l + 3 => st[i] = IF i <= l THEN s[i] ELSE three[i - l]
    <3>1. i <= l + 3 => i \in 1..(l + 3)
      BY <1>2
    <3> QED BY <1>4, <3>1
  <2> HIDE DEF st
  <2>3. CASE i <= l
    BY <1>2, <2>1, <2>2, <2>3
  <2>4. CASE i > l
    <3>1. i - l \in 1..5 /\ i - (l + 3) = (i - l) - 3
      BY <1>2, <2>4
    <3>2. (st \o two)[i] = IF i - l <= 3 THEN three[i - l] ELSE two[(i - l) - 3]
      BY <1>2, <2>1, <2>2, <2>4, <3>1
    <3>3. (s \o five)[i] = five[i - l]
      BY <1>2, <2>1, <2>4
    <3>4. \A k \in 1..5 : five[k] = IF k <= 3 THEN three[k] ELSE two[k - 3]
      <4> SUFFICES ASSUME NEW k \in 1..5
                   PROVE  five[k] = IF k <= 3 THEN three[k] ELSE two[k - 3]
        OBVIOUS
      <4>1. k \in {1, 2, 3, 4, 5}
        OBVIOUS
      <4> QED BY <1>1, <4>1
    <3> QED BY <3>1, <3>2, <3>3, <3>4
  <2>5. i <= l \/ i > l
    BY <1>2
  <2> QED BY <2>3, <2>4, <2>5
<1>7. s \o five = st \o two
  <2> HIDE DEF st
  <2> QED BY <1>3, <1>5, <1>6, SameListed
<1> QED BY <1>7 DEF five, three, two

\* Pieces that are neither tags nor rows, and pairs of tags around them.
LEMMA NestedPieces ==
    ASSUME NEW s, NEW c \in Nat, Nested(s, c), NEW v, NEW what, NEW k
    PROVE  /\ v = Value(k, what) => Nested(s \o <<v>>, c)
           /\ v = Value(k, what) => Nested(s \o <<Div, v, EndDiv>>, c)
           /\ Nested(s \o <<Div, Div>>, c + 2)
           /\ c > 0 => Nested(s \o <<EndDiv>>, c - 1)
           /\ c > 1 => Nested(s \o <<EndDiv, EndDiv>>, c - 2)
           /\ v = Row(k) /\ c = 2 * DepthOf(k) =>
                Nested(s \o <<Div, v, Div, Value(k, what), EndDiv>>, c + 1)
<1>1. Listed(s)
  BY DEF Nested
<1>2. /\ Div.kind # "executable" /\ TagChange(Div) = 1
      /\ EndDiv.kind # "executable" /\ TagChange(EndDiv) = -1
      /\ \A n, w : Value(n, w).kind # "executable" /\ TagChange(Value(n, w)) = 0
      /\ \A n : Row(n).node = n /\ TagChange(Row(n)) = 0
  BY Tags DEF TagChange
<1>3. ASSUME NEW t, NEW d \in Nat, Nested(t, d)
      PROVE  /\ Nested(Append(t, Div), d + 1)
             /\ d > 0 => Nested(Append(t, EndDiv), d - 1)
             /\ \A n, w : Nested(Append(t, Value(n, w)), d)
             /\ \A n : d = 2 * DepthOf(n) + 1 => Nested(Append(t, Row(n)), d)
  <2>1. d + 1 \in Nat /\ d + 0 = d /\ (d > 0 => d + (-1) \in Nat /\ d + (-1) = d - 1)
    OBVIOUS
  <2>2. Nested(Append(t, Div), d + 1)
    BY <1>2, <1>3, <2>1, NestedMore
  <2>3. ASSUME d > 0 PROVE Nested(Append(t, EndDiv), d - 1)
    <3>1. d + TagChange(EndDiv) = d - 1 /\ d + TagChange(EndDiv) \in Nat
      BY <1>2, <2>1, <2>3
    <3>2. Nested(Append(t, EndDiv), d + TagChange(EndDiv))
      BY <1>2, <1>3, <3>1, NestedMore
    <3> QED BY <3>1, <3>2
  <2>4. ASSUME NEW n, NEW w PROVE Nested(Append(t, Value(n, w)), d)
    BY <1>2, <1>3, <2>1, NestedMore
  <2>5. ASSUME NEW n, d = 2 * DepthOf(n) + 1 PROVE Nested(Append(t, Row(n)), d)
    BY <1>2, <1>3, <2>1, <2>5, NestedMore
  <2> QED BY <2>2, <2>3, <2>4, <2>5
<1>4. ASSUME v = Value(k, what) PROVE Nested(s \o <<v>>, c)
  BY <1>1, <1>3, <1>4, AppendedOne
<1>5. ASSUME NEW t, NEW d \in Nat, Nested(t, d), NEW w
      PROVE  Nested(t \o <<Div, Value(k, w), EndDiv>>, d)
  <2>1. d + 1 \in Nat /\ d + 1 > 0 /\ d + 1 - 1 = d
    OBVIOUS
  <2>2. Nested(Append(Append(Append(t, Div), Value(k, w)), EndDiv), d)
    BY <1>3, <1>5, <2>1
  <2>3. Listed(t)
    BY <1>5 DEF Nested
  <2>4. t \o <<Div, Value(k, w), EndDiv>> = Append(Append(Append(t, Div), Value(k, w)), EndDiv)
    BY <2>3, Appends
  <2> QED BY <2>2, <2>4
<1>6. Nested(s \o <<Div, Div>>, c + 2)
  <2>1. c + 1 \in Nat /\ c + 1 + 1 = c + 2
    OBVIOUS
  <2>2. Nested(Append(Append(s, Div), Div), c + 2)
    BY <1>3, <2>1
  <2>3. s \o <<Div, Div>> = Append(Append(s, Div), Div)
    BY <1>1, AppendedTwo
  <2> QED BY <2>2, <2>3
<1>7. ASSUME c > 0 PROVE Nested(s \o <<EndDiv>>, c - 1)
  BY <1>1, <1>3, <1>7, AppendedOne
<1>8. ASSUME c > 1 PROVE Nested(s \o <<EndDiv, EndDiv>>, c - 2)
  <2>1. c > 0 /\ c - 1 \in Nat /\ c - 1 > 0 /\ c - 1 - 1 = c - 2
    BY <1>8
  <2>2. Nested(Append(Append(s, EndDiv), EndDiv), c - 2)
    BY <1>3, <2>1
  <2>3. s \o <<EndDiv, EndDiv>> = Append(Append(s, EndDiv), EndDiv)
    BY <1>1, AppendedTwo
  <2> QED BY <2>2, <2>3
<1>9. ASSUME v = Row(k), c = 2 * DepthOf(k)
      PROVE  Nested(s \o <<Div, v, Div, Value(k, what), EndDiv>>, c + 1)
  <2> DEFINE t == Append(Append(s, Div), v)
  <2>1. c + 1 \in Nat /\ c + 1 + 1 \in Nat /\ c + 1 + 1 > 0 /\ c + 1 + 1 - 1 = c + 1
    OBVIOUS
  <2>2. Nested(Append(s, Div), c + 1) /\ c + 1 = 2 * DepthOf(k) + 1
    BY <1>3, <1>9
  <2>3. Nested(t, c + 1)
    BY <1>3, <1>9, <2>1, <2>2
  <2>4. Nested(Append(t, Div), c + 1 + 1)
    BY <1>3, <2>1, <2>3
  <2>5. s \o <<Div, v, Div>> = Append(t, Div)
    BY <1>1, Appends
  <2>6. Listed(Append(t, Div))
    BY <2>4 DEF Nested
  <2>7. Append(t, Div) \o <<Value(k, what), EndDiv>>
          = Append(Append(Append(t, Div), Value(k, what)), EndDiv)
    BY <2>6, AppendedTwo
  <2>8. Nested(Append(Append(Append(t, Div), Value(k, what)), EndDiv), c + 1)
    BY <1>3, <2>1, <2>4
  <2>9. s \o <<Div, v, Div, Value(k, what), EndDiv>>
          = (s \o <<Div, v, Div>>) \o <<Value(k, what), EndDiv>>
    BY SMTT(60), <1>1, FiveAppended
  <2> QED BY <2>5, <2>7, <2>8, <2>9
<1>10. ASSUME v = Value(k, what) PROVE Nested(s \o <<Div, v, EndDiv>>, c)
  BY <1>5, <1>10
<1> QED BY <1>4, <1>6, <1>7, <1>8, <1>9, <1>10

-----------------------------------------------------------------------------
(* The calls still to be made.                                             *)

\* Where the printing stands between two calls: how many tags are open, the node that
\* comes next, and how many values the row that is begun has, if there is one.  Before
\* the head of the report no node comes next.
Level(open, next, values) == [open |-> open, next |-> next, values |-> values]
Levels == [open : Nat, next : Nat, values : Nat]

\* The last node of a subtree.
End(n) == Last({m \in Nodes : Under(n, m)})

Width(n) == IF n \in executed THEN Len(attributes) + 1 ELSE 1

\* The call a is due at b and leads to e.
Leads(a, b, e) ==
    LET n == a.node
        d == 2 * DepthOf(n)
    IN \/ a.call = "head" /\ b = Level(0, 0, 0) /\ e = Level(0, 1, 0)
       \/ a.call = "foot" /\ b = Level(0, tree.size + 1, 0) /\ e = b
       \/ /\ a.call = "node" /\ n \in Nodes
          /\ b = Level(d, n, 0) /\ e = Level(d, End(n) + 1, 0)
       \/ /\ a.call = "enter_operand_node" /\ n \in Nodes \ Executables
          /\ b = Level(d, n, 0) /\ e = Level(d + 2, n + 1, 0)
       \/ /\ a.call = "exit_operand_node" /\ n \in Nodes \ Executables
          /\ b = Level(d + 2, End(n) + 1, 0) /\ e = Level(d, End(n) + 1, 0)
       \/ /\ a.call = "executable_head" /\ n \in Executables
          /\ b = Level(d, n, 0) /\ e = Level(d + 1, n + 1, 1)
       \/ /\ a.call = "attribute" /\ n \in Executables \cap executed
          /\ \E k \in 1..Len(attributes) :
               /\ a.attribute = attributes[k]
               /\ b = Level(d + 1, n + 1, k) /\ e = Level(d + 1, n + 1, k + 1)
       \/ /\ a.call = "executable_foot" /\ n \in Executables
          /\ b = Level(d + 1, n + 1, Width(n)) /\ e = Level(d, n + 1, 0)

\* The calls lead from c to d: each is due where the one before has led.
Chain(s, c, d) ==
    /\ Listed(s)
    /\ \E level : /\ level[1] = c /\ level[Len(s) + 1] = d
                  /\ \A i \in 1..Len(s) : Leads(s[i], level[i], level[i + 1])

LEMMA EndFacts ==
    ASSUME IsTree(tree), NEW n \in Nodes
    PROVE  /\ End(n) \in Nodes /\ Under(n, End(n))
           /\ \A m \in Nodes : Under(n, m) => m <= End(n)
<1> DEFINE S == {m \in Nodes : Under(n, m)}
<1>1. tree.size \in Nat /\ S \in SUBSET (0..tree.size) /\ n \in S
  BY UnderRoot DEF IsTree, Nodes
<1> HIDE DEF S
<1>2. Last(S) \in S /\ \A m \in S : m <= Last(S)
  BY <1>1, LastIsGreatest
<1> QED BY <1>2 DEF S, End

LEMMA EndIs ==
    ASSUME IsTree(tree), NEW n \in Nodes, NEW e \in Nodes, Under(n, e),
           \A m \in Nodes : Under(n, m) => m <= e
    PROVE  End(n) = e
<1>1. End(n) <= e /\ e <= End(n) /\ End(n) \in Nodes
  BY EndFacts
<1>2. End(n) \in Nat /\ e \in Nat
  BY <1>1, TreeFacts
<1> QED BY <1>1, <1>2

\* The root ends with the tree, an executable with itself.
LEMMA EndsOfTree ==
    ASSUME IsTree(tree)
    PROVE  /\ End(1) = tree.size
           /\ \A n \in Executables : End(n) = n
<1>1. tree.size \in Nodes /\ 1 \in Nodes /\ \A m \in Nodes : m <= tree.size
  BY DEF IsTree, Nodes
<1>2. End(1) = tree.size
  BY <1>1, EndIs, UnderRoot
<1>3. ASSUME NEW n \in Executables PROVE End(n) = n
  <2>1. n \in Nodes
    BY DEF Executables
  <2> QED BY <2>1, EndFacts, UnderLeaf
<1> QED BY <1>2, <1>3

LEMMA OperandsListed ==
    ASSUME IsTree(tree), NEW n \in Nodes
    PROVE  LET S == Operands(n)
           IN /\ S \in SUBSET Nat /\ IsFiniteSet(S) /\ Cardinality(S) \in Nat
              /\ \A i \in 1..Cardinality(S) : Ascending(S)[i] \in S
              /\ \A m \in S : \E i \in 1..Cardinality(S) : Ascending(S)[i] = m
<1> DEFINE S == Operands(n)
<1>1. tree.size \in Nat
  BY DEF IsTree
<1>2. IsFiniteSet(1..tree.size)
  BY <1>1, FS_Interval
<1>3. S \in SUBSET (1..tree.size) /\ S \in SUBSET Nat
  BY <1>1 DEF Operands, Nodes
<1> HIDE DEF S
<1>4. IsFiniteSet(S)
  BY <1>2, <1>3, FS_Subset
<1>5. Cardinality(S) \in Nat
  BY <1>4, FS_CardinalityType
<1>6. /\ \A i \in 1..Cardinality(S) : Ascending(S)[i] \in S
      /\ \A m \in S : \E i \in 1..Cardinality(S) : Ascending(S)[i] = m
  BY <1>3, <1>4, AscendingFacts
<1> QED BY <1>3, <1>4, <1>5, <1>6 DEF S

\* The subtrees of its operands follow a node and each other without a gap.
LEMMA OperandEnds ==
    ASSUME IsTree(tree), NEW n \in Nodes
    PROVE  LET S == Operands(n)
               m == Ascending(S)
               K == Cardinality(S)
           IN /\ K = 0 => End(n) = n
              /\ K > 0 => m[1] = n + 1 /\ End(m[K]) = End(n)
              /\ \A i \in 1..(K - 1) : End(m[i]) + 1 = m[i + 1]
<1> DEFINE S == Operands(n)
           m == Ascending(S)
           K == Cardinality(S)
<1>1. /\ S \in SUBSET Nat /\ IsFiniteSet(S) /\ K \in Nat
      /\ \A i \in 1..K : m[i] \in S
      /\ \A k \in S : \E i \in 1..K : m[i] = k
  BY OperandsListed
<1>2. \A i, j \in 1..K : i < j => m[i] < m[j]
  BY <1>1, AscendingOrder
<1>3. ASSUME NEW k \in S PROVE k \in Nodes /\ k \in Nat /\ n < k /\ Under(n, k)
  <2>1. k \in Nodes /\ n < k
    BY OperandIsLater
  <2>2. tree.father[k] = n /\ Under(n, n)
    BY UnderRoot DEF Operands
  <2> QED BY <1>1, <2>1, <2>2, OperandUnder
<1> HIDE DEF S, m, K
<1>4. n \in Nat /\ End(n) \in Nodes /\ Nodes \subseteq Nat
  BY EndFacts, TreeFacts
<1>5. ASSUME K = 0 PROVE End(n) = n
  <2>1. S = {}
    BY <1>1, <1>5
  <2> QED BY <2>1, EndFacts, SomeOperand DEF S
<1>6. ASSUME NEW i \in 1..K, NEW x \in Nodes, m[i] <= x, Under(n, x),
             i < K => x < m[i + 1]
      PROVE  Under(m[i], x)
  <2>1. m[i] \in S /\ m[i] \in Nat /\ n < m[i] /\ x \in Nat
    BY <1>1, <1>3, <1>4
  <2>2. PICK k \in S : Under(k, x)
    BY <1>4, <1>6, <2>1, SomeOperand DEF S
  <2>3. PICK j \in 1..K : m[j] = k
    BY <1>1
  <2>4. k \in Nat /\ k <= x
    BY <1>3, <2>2 DEF Under
  <2>5. CASE j < i
    <3>1. m[j] < m[i]
      BY <1>2, <2>5
    <3>2. x < m[i]
      BY <2>1, <2>2, <2>3, <3>1, <1>6, UnderOperand DEF S
    <3> QED BY <1>6, <2>1, <3>2
  <2>6. CASE j > i
    <3>1. i < K /\ i + 1 \in 1..K /\ (j = i + 1 \/ i + 1 < j)
      BY <1>1, <2>6
    <3>2. m[i + 1] \in S /\ m[i + 1] \in Nat
      BY <1>1, <1>3, <3>1
    <3>3. m[i + 1] = m[j] \/ m[i + 1] < m[j]
      BY <1>2, <3>1
    <3> QED BY <1>6, <2>1, <2>3, <2>4, <3>1, <3>2, <3>3
  <2>7. CASE j = i
    BY <2>2, <2>3, <2>7
  <2> QED BY <1>1, <2>5, <2>6, <2>7
<1>7. ASSUME K > 0 PROVE m[1] = n + 1
  <2>1. 1 \in 1..K /\ m[1] \in S
    BY <1>1, <1>7
  <2>2. n + 1 \in Nodes /\ n + 1 <= m[1] /\ m[1] \in Nat
    BY <1>3, <1>4, <2>1 DEF Nodes, IsTree
  <2>3. tree.father[n + 1] >= n
    BY <1>3, <1>4, <2>1, <2>2 DEF Under
  <2>4. n + 1 # 1
    BY <1>4 DEF Nodes
  <2>5. tree.father[n + 1] < n + 1 /\ tree.father[n + 1] \in Nat
    BY <2>2, <2>4, FatherOfNode
  <2>6. n + 1 \in S
    BY <1>4, <2>2, <2>3, <2>5 DEF S, Operands
  <2>7. PICK j \in 1..K : m[j] = n + 1
    BY <1>1, <2>6
  <2>8. j # 1 => m[1] < m[j]
    BY <1>1, <1>2, <2>1
  <2> QED BY <1>4, <2>2, <2>7, <2>8
<1>8. ASSUME K > 0 PROVE End(m[K]) = End(n)
  <2>1. K \in 1..K /\ m[K] \in S
    BY <1>1, <1>8
  <2>2. m[K] \in Nodes /\ Under(n, m[K]) /\ m[K] <= End(n)
    BY <1>3, <2>1, EndFacts
  <2>3. Under(m[K], End(n))
    <3>1. Under(n, End(n)) /\ ~(K < K)
      BY <1>1, EndFacts
    <3> QED BY <1>4, <1>6, <2>1, <2>2, <3>1
  <2>4. ASSUME NEW c \in Nodes, Under(m[K], c) PROVE c <= End(n)
    <3>1. Under(n, c)
      BY <2>2, <2>4, UnderTransitive
    <3> QED BY <3>1, EndFacts
  <2> QED BY <1>4, <2>2, <2>3, <2>4, EndIs
<1>9. ASSUME NEW i \in 1..(K - 1) PROVE End(m[i]) + 1 = m[i + 1]
  <2> DEFINE x == m[i + 1] - 1
  <2>1. i \in 1..K /\ i + 1 \in 1..K /\ i < i + 1
    BY <1>1
  <2>2. /\ m[i] \in S /\ m[i + 1] \in S /\ m[i] \in Nodes /\ m[i + 1] \in Nodes
        /\ m[i] \in Nat /\ m[i + 1] \in Nat /\ m[i] < m[i + 1] /\ n < m[i]
        /\ Under(n, m[i + 1])
    BY <1>1, <1>2, <1>3, <2>1
  <2>3. x \in Nodes /\ m[i] <= x /\ x < m[i + 1] /\ x \in Nat /\ x + 1 = m[i + 1]
    <3>1. m[i] <= x /\ x < m[i + 1] /\ x \in Nat /\ x + 1 = m[i + 1] /\ 1 <= m[i]
      BY <2>2 DEF Nodes
    <3> HIDE DEF x
    <3>2. m[i + 1] <= tree.size /\ tree.size \in Nat
      BY <2>2 DEF Nodes, IsTree
    <3>3. x <= tree.size /\ 1 <= x
      BY <2>2, <3>1, <3>2
    <3> QED BY <3>1, <3>2, <3>3 DEF Nodes
  <2>4. Under(n, x)
    BY <1>4, <2>2, <2>3 DEF Under
  <2> HIDE DEF x
  <2>5. Under(m[i], x)
    BY <1>6, <2>1, <2>3, <2>4
  <2>6. ASSUME NEW c \in Nodes, Under(m[i], c) PROVE c <= x
    <3>1. c < m[i + 1]
      BY <2>2, <2>6, UnderOperand DEF S
    <3> QED BY <1>4, <2>3, <3>1
  <2>7. End(m[i]) = x
    BY <2>2, <2>3, <2>5, <2>6, EndIs
  <2> QED BY <2>3, <2>7
<1> QED BY <1>5, <1>7, <1>8, <1>9 DEF S, m, K

LEMMA LeadsToLevels ==
    ASSUME IsTree(tree), NEW a, NEW b, NEW e, Leads(a, b, e), Len(attributes) \in Nat
    PROVE  b \in Levels /\ e \in Levels
<1> DEFINE n == a.node
           d == DepthOf(n)
           x == End(n)
           w == Width(n)
           l == Len(attributes)
<1>1. n \in Nodes => n \in Nat /\ d \in Nat /\ x \in Nat /\ w \in Nat
  BY TreeFacts, DepthUnfolds, EndFacts DEF Width
<1>2. Executables \subseteq Nodes /\ tree.size \in Nat
  BY TreeFacts DEF IsTree
<1>3. ASSUME NEW i \in Nat, NEW j \in Nat, NEW k \in Nat
      PROVE  Level(i, j, k) \in Levels
  BY DEF Level, Levels
<1> HIDE DEF d, x, w, l
<1>4. CASE n \in Nodes
  <2>1. /\ 2 * d \in Nat /\ 2 * d + 1 \in Nat /\ 2 * d + 2 \in Nat
        /\ n \in Nat /\ n + 1 \in Nat /\ x + 1 \in Nat /\ w \in Nat
        /\ tree.size + 1 \in Nat /\ 0 \in Nat /\ 1 \in Nat
    <3>1. \A i \in Nat : i + 1 \in Nat /\ 2 * i \in Nat /\ 2 * i + 1 \in Nat /\ 2 * i + 2 \in Nat
      OBVIOUS
    <3>2. n \in Nat /\ d \in Nat /\ x \in Nat /\ w \in Nat /\ tree.size \in Nat
      BY <1>1, <1>2, <1>4
    <3> HIDE DEF n
    <3> QED BY <3>1, <3>2
  <2>2. \A k \in 1..l : k \in Nat /\ k + 1 \in Nat
    BY DEF l
  <2>3. CASE a.call = "attribute"
    <3>1. PICK k \in 1..l : b = Level(2 * d + 1, n + 1, k) /\ e = Level(2 * d + 1, n + 1, k + 1)
      BY <2>3 DEF Leads, d, l
    <3> QED BY <1>3, <2>1, <2>2, <3>1
  <2>4. CASE a.call # "attribute"
    <3>1. \/ b = Level(0, 0, 0) /\ e = Level(0, 1, 0)
          \/ b = Level(0, tree.size + 1, 0) /\ e = b
          \/ b = Level(2 * d, n, 0) /\ e = Level(2 * d, x + 1, 0)
          \/ b = Level(2 * d, n, 0) /\ e = Level(2 * d + 2, n + 1, 0)
          \/ b = Level(2 * d + 2, x + 1, 0) /\ e = Level(2 * d, x + 1, 0)
          \/ b = Level(2 * d, n, 0) /\ e = Level(2 * d + 1, n + 1, 1)
          \/ b = Level(2 * d + 1, n + 1, w) /\ e = Level(2 * d, n + 1, 0)
      BY <2>4 DEF Leads, d, x, w
    <3> QED BY SMTT(60), <1>3, <2>1, <3>1
  <2> QED BY <2>3, <2>4
<1>5. CASE n \notin Nodes
  <2>1. tree.size + 1 \in Nat /\ 0 \in Nat /\ 1 \in Nat
    BY <1>2
  <2>2. \/ b = Level(0, 0, 0) /\ e = Level(0, 1, 0)
        \/ b = Level(0, tree.size + 1, 0) /\ e = b
    BY <1>2, <1>5 DEF Leads
  <2> QED BY <1>3, <2>1, <2>2
<1> QED BY <1>4, <1>5

LEMMA ChainConcat ==
    ASSUME NEW s, NEW t, NEW c, NEW d, NEW e, Chain(s, c, d), Chain(t, d, e)
    PROVE  Chain(s \o t, c, e)
<1> DEFINE l == Len(s)
           m == Len(t)
           st == s \o t
<1>1. /\ Listed(s) /\ Listed(t) /\ l \in Nat /\ m \in Nat
      /\ Listed(st) /\ Len(st) = l + m
      /\ \A i \in 1..(l + m) : st[i] = IF i <= l THEN s[i] ELSE t[i - l]
  BY ListedConcat, ListedIsFunction DEF Chain
<1>2. PICK f : f[1] = c /\ f[l + 1] = d /\ \A i \in 1..l : Leads(s[i], f[i], f[i + 1])
  BY DEF Chain
<1>3. PICK g : g[1] = d /\ g[m + 1] = e /\ \A i \in 1..m : Leads(t[i], g[i], g[i + 1])
  BY DEF Chain
<1> HIDE DEF st, l, m
<1> DEFINE h == [i \in 1..(l + m + 1) |-> IF i <= l THEN f[i] ELSE g[i - l]]
<1>4. /\ \A i \in 1..(l + 1) : h[i] = f[i]
      /\ \A i \in 1..(m + 1) : h[i + l] = g[i]
  <2>1. ASSUME NEW i \in 1..(l + 1) PROVE h[i] = f[i]
    <3>1. i \in 1..(l + m + 1)
      BY <1>1
    <3>2. h[i] = IF i <= l THEN f[i] ELSE g[i - l]
      BY <3>1
    <3> HIDE DEF h
    <3>3. CASE i <= l
      BY <3>2, <3>3
    <3>4. CASE ~(i <= l)
      <4>1. i = l + 1 /\ i - l = 1
        BY <1>1, <3>4
      <4> QED BY <1>2, <1>3, <3>2, <3>4, <4>1
    <3> QED BY <3>3, <3>4
  <2>2. ASSUME NEW i \in 1..(m + 1) PROVE h[i + l] = g[i]
    <3> DEFINE j == i + l
    <3>1. j \in 1..(l + m + 1) /\ ~(j <= l) /\ j - l = i
      BY <1>1
    <3> HIDE DEF j
    <3>2. h[j] = IF j <= l THEN f[j] ELSE g[j - l]
      BY <3>1
    <3> HIDE DEF h
    <3> QED BY <3>1, <3>2 DEF j
  <2> QED BY <2>1, <2>2
<1> HIDE DEF h
<1>5. h[1] = c /\ h[l + m + 1] = e
  <2>1. 1 \in 1..(l + 1) /\ m + 1 \in 1..(m + 1) /\ l + m + 1 = (m + 1) + l
    BY <1>1
  <2> QED BY <1>2, <1>3, <1>4, <2>1
<1>6. ASSUME NEW i \in 1..(l + m) PROVE Leads(st[i], h[i], h[i + 1])
  <2>1. CASE i <= l
    <3>1. i \in 1..l /\ i \in 1..(l + 1) /\ i + 1 \in 1..(l + 1)
      BY <1>1, <2>1
    <3>2. st[i] = s[i] /\ h[i] = f[i] /\ h[i + 1] = f[i + 1]
      BY <1>1, <1>4, <2>1, <3>1
    <3> QED BY <1>2, <3>1, <3>2
  <2>2. CASE i > l
    <3>1. PICK k \in 1..m : i = k + l
      <4>1. i - l \in 1..m /\ i = (i - l) + l
        BY <1>1, <2>2
      <4> QED BY <4>1
    <3>2. k \in 1..(m + 1) /\ k + 1 \in 1..(m + 1) /\ i + 1 = (k + 1) + l /\ i - l = k
      BY <1>1, <3>1
    <3>3. st[i] = t[k] /\ h[i] = g[k] /\ h[i + 1] = g[k + 1]
      BY <1>1, <1>4, <2>2, <3>1, <3>2
    <3> QED BY <1>3, <3>3
  <2> QED BY <1>1, <2>1, <2>2
<1>7. \E level : /\ level[1] = c /\ level[l + m + 1] = e
                 /\ \A i \in 1..(l + m) : Leads(st[i], level[i], level[i + 1])
  BY <1>5, <1>6
<1>8. Chain(st, c, e)
  BY <1>1, <1>7 DEF Chain
<1> QED BY <1>8 DEF st

LEMMA ChainTail ==
    ASSUME NEW s, NEW c, NEW d, Chain(s, c, d), s # <<>>
    PROVE  \E b : Leads(Head(s), c, b) /\ Chain(Tail(s), b, d)
<1> DEFINE l == Len(s)
           t == Tail(s)
<1>1. /\ Listed(t) /\ l \in Nat \ {0} /\ Len(t) = l - 1 /\ Head(s) = s[1]
      /\ \A i \in 1..Len(t) : t[i] = s[i + 1]
  BY ListedTail DEF Chain
<1>2. PICK f : f[1] = c /\ f[l + 1] = d /\ \A i \in 1..l : Leads(s[i], f[i], f[i + 1])
  BY DEF Chain
<1> HIDE DEF t, l
<1> DEFINE g == [i \in 1..l |-> f[i + 1]]
<1>3. /\ \A i \in 1..l : g[i] = f[i + 1]
      /\ 1 \in 1..l /\ l \in 1..l /\ Len(t) + 1 = l
  BY <1>1
<1> HIDE DEF g
<1>4. Leads(Head(s), c, g[1])
  <2>1. 1 + 1 = 2
    OBVIOUS
  <2> QED BY <1>1, <1>2, <1>3, <2>1
<1>5. ASSUME NEW i \in 1..Len(t) PROVE Leads(t[i], g[i], g[i + 1])
  <2>1. i \in 1..l /\ i + 1 \in 1..l
    BY <1>1
  <2> QED BY <1>1, <1>2, <1>3, <2>1
<1>6. \E level : /\ level[1] = g[1] /\ level[Len(t) + 1] = d
                 /\ \A i \in 1..Len(t) : Leads(t[i], level[i], level[i + 1])
  BY <1>2, <1>3, <1>5
<1>7. Chain(t, g[1], d)
  BY <1>1, <1>6 DEF Chain
<1> QED BY <1>4, <1>7 DEF t

\* A chain from its levels.
LEMMA ChainOf ==
    ASSUME NEW n \in Nat, NEW s, DOMAIN s = 1..n, s = [i \in 1..n |-> s[i]], NEW f,
           \A i \in 1..n : Leads(s[i], f[i], f[i + 1])
    PROVE  Chain(s, f[1], f[n + 1])
<1>1. Listed(s) /\ Len(s) = n
  BY FunctionIsListed
<1>2. \E level : /\ level[1] = f[1] /\ level[n + 1] = f[n + 1]
                 /\ \A i \in 1..n : Leads(s[i], level[i], level[i + 1])
  OBVIOUS
<1> QED BY <1>1, <1>2 DEF Chain

LEMMA ChainOne ==
    ASSUME NEW a, NEW c, NEW d, Leads(a, c, d)
    PROVE  Chain(<<a>>, c, d)
<1> DEFINE s == <<a>>
           f == [i \in 1..2 |-> IF i = 1 THEN c ELSE d]
<1>1. /\ DOMAIN s = 1..1 /\ s = [i \in 1..1 |-> s[i]]
      /\ \A i \in 1..1 : s[i] = a /\ i = 1
      /\ f[1] = c /\ f[1 + 1] = d
  OBVIOUS
<1> HIDE DEF s, f
<1>2. Chain(s, f[1], f[1 + 1])
  BY <1>1, ChainOf
<1> QED BY <1>1, <1>2 DEF s

LEMMA ChainOfNone ==
    ASSUME NEW c
    PROVE  Chain(<<>>, c, c)
<1> DEFINE s == <<>>
           f == [i \in 1..1 |-> c]
<1>1. /\ DOMAIN s = 1..0 /\ s = [i \in 1..0 |-> s[i]]
      /\ 1..0 = {} /\ f[1] = c /\ f[0 + 1] = c
  OBVIOUS
<1> HIDE DEF s, f
<1>2. Chain(s, f[1], f[0 + 1])
  BY <1>1, ChainOf
<1> QED BY <1>1, <1>2 DEF s

\* print_executable_node() prints one row and what is asked for of it.
LEMMA ExecutableChain ==
    ASSUME IsTree(tree), NEW n \in Executables, Len(attributes) \in Nat
    PROVE  Chain(ExecutableCalls(n), Level(2 * DepthOf(n), n, 0),
                 Level(2 * DepthOf(n), n + 1, 0))
<1> DEFINE d == 2 * DepthOf(n)
           head == Call("executable_head", n)
           foot == Call("executable_foot", n)
           call == [i \in 1..Len(attributes) |->
                      [call |-> "attribute", node |-> n, attribute |-> attributes[i]]]
           values == IF n \in executed THEN call ELSE <<>>
           f == [i \in 1..(Len(attributes) + 1) |-> Level(d + 1, n + 1, i)]
<1>1. /\ Leads(head, Level(d, n, 0), Level(d + 1, n + 1, 1))
      /\ Leads(foot, Level(d + 1, n + 1, Width(n)), Level(d, n + 1, 0))
  <2>1. head.call = "executable_head" /\ foot.call = "executable_foot"
        /\ head.node = n /\ foot.node = n
    BY DEF Call
  <2> HIDE DEF head, foot
  <2> QED BY <2>1 DEF Leads
<1>2. ASSUME n \in executed
      PROVE  Chain(call, Level(d + 1, n + 1, 1), Level(d + 1, n + 1, Len(attributes) + 1))
  <2>1. ASSUME NEW i \in 1..Len(attributes) PROVE Leads(call[i], f[i], f[i + 1])
    <3>1. /\ i \in 1..(Len(attributes) + 1) /\ i + 1 \in 1..(Len(attributes) + 1)
      OBVIOUS
    <3>2. f[i] = Level(d + 1, n + 1, i) /\ f[i + 1] = Level(d + 1, n + 1, i + 1)
      BY <3>1
    <3>3. call[i].call = "attribute" /\ call[i].node = n /\ call[i].attribute = attributes[i]
      OBVIOUS
    <3> HIDE DEF call, f
    <3> QED BY <1>2, <3>2, <3>3 DEF Leads
  <2>2. DOMAIN call = 1..Len(attributes) /\ call = [i \in 1..Len(attributes) |-> call[i]]
    OBVIOUS
  <2>3. /\ f[1] = Level(d + 1, n + 1, 1)
        /\ f[Len(attributes) + 1] = Level(d + 1, n + 1, Len(attributes) + 1)
    OBVIOUS
  <2> HIDE DEF call, f, d
  <2>4. Chain(call, f[1], f[Len(attributes) + 1])
    BY <2>1, <2>2, ChainOf
  <2> QED BY <2>3, <2>4
<1>3. Chain(values, Level(d + 1, n + 1, 1), Level(d + 1, n + 1, Width(n)))
  <2> HIDE DEF call, d
  <2> QED BY <1>2, ChainOfNone DEF Width
<1> HIDE DEF d, head, foot, values
<1>4. /\ Chain(<<head>>, Level(d, n, 0), Level(d + 1, n + 1, 1))
      /\ Chain(<<foot>>, Level(d + 1, n + 1, Width(n)), Level(d, n + 1, 0))
  BY <1>1, ChainOne
<1>5. Chain(<<head>> \o values \o <<foot>>, Level(d, n, 0), Level(d, n + 1, 0))
  BY <1>3, <1>4, ChainConcat
<1> QED BY <1>5 DEF ExecutableCalls, d, head, foot, values

\* print_results_rec() prints the operands, in order.
LEMMA OperandChain ==
    ASSUME IsTree(tree), NEW n \in Nodes \ Executables
    PROVE  Chain(OperandCalls(n), Level(2 * DepthOf(n), n, 0),
                 Level(2 * DepthOf(n), End(n) + 1, 0))
<1> DEFINE d == 2 * DepthOf(n)
           S == Operands(n)
           m == Ascending(S)
           K == Cardinality(S)
           enter == Call("enter_operand_node", n)
           exit == Call("exit_operand_node", n)
           call == [i \in 1..K |-> Call("node", m[i])]
           f == [i \in 1..(K + 1) |-> IF i <= K THEN Level(d + 2, m[i], 0)
                                      ELSE Level(d + 2, End(n) + 1, 0)]
<1>1. /\ Leads(enter, Level(d, n, 0), Level(d + 2, n + 1, 0))
      /\ Leads(exit, Level(d + 2, End(n) + 1, 0), Level(d, End(n) + 1, 0))
  <2>1. enter.call = "enter_operand_node" /\ exit.call = "exit_operand_node"
        /\ enter.node = n /\ exit.node = n
    BY DEF Call
  <2> HIDE DEF enter, exit
  <2> QED BY <2>1 DEF Leads
<1>2. K \in Nat /\ \A i \in 1..K : m[i] \in S
  BY OperandsListed
<1>3. /\ K = 0 => End(n) = n
      /\ K > 0 => m[1] = n + 1 /\ End(m[K]) = End(n)
      /\ \A i \in 1..(K - 1) : End(m[i]) + 1 = m[i + 1]
  BY OperandEnds
<1>4. ASSUME NEW i \in 1..K
      PROVE  m[i] \in Nodes /\ 2 * DepthOf(m[i]) = d + 2
  <2>1. m[i] \in Nodes /\ tree.father[m[i]] = n
    BY <1>2 DEF Operands
  <2>2. m[i] # 1
    BY <2>1 DEF IsTree, Nodes, NoNode
  <2>3. DepthOf(m[i]) = DepthOf(n) + 1 /\ DepthOf(n) \in Nat
    BY <2>1, <2>2, DepthUnfolds
  <2> QED BY <2>1, <2>3
<1> HIDE DEF d, S, m, K, enter, exit
<1>5. /\ \A i \in 1..K : f[i] = Level(d + 2, m[i], 0)
      /\ f[K + 1] = Level(d + 2, End(n) + 1, 0)
      /\ f[1] = Level(d + 2, n + 1, 0)
  <2>1. /\ \A i \in 1..K : f[i] = Level(d + 2, m[i], 0)
        /\ f[K + 1] = Level(d + 2, End(n) + 1, 0)
    BY <1>2
  <2> HIDE DEF f
  <2>2. CASE K = 0
    BY <1>3, <2>1, <2>2
  <2>3. CASE K > 0
    BY <1>2, <1>3, <2>1, <2>3
  <2> QED BY <1>2, <2>1, <2>2, <2>3
<1>6. ASSUME NEW i \in 1..K PROVE Leads(call[i], f[i], f[i + 1])
  <2>1. call[i].call = "node" /\ call[i].node = m[i]
    BY DEF Call
  <2>2. f[i + 1] = Level(d + 2, End(m[i]) + 1, 0)
    <3> HIDE DEF f
    <3>1. CASE i = K
      BY <1>2, <1>3, <1>5, <3>1
    <3>2. CASE i < K
      <4>1. i \in 1..(K - 1) /\ i + 1 \in 1..K
        BY <1>2, <3>2
      <4> QED BY <1>3, <1>5, <4>1
    <3> QED BY <1>2, <3>1, <3>2
  <2> HIDE DEF f, call
  <2>3. f[i] = Level(2 * DepthOf(m[i]), m[i], 0)
        /\ f[i + 1] = Level(2 * DepthOf(m[i]), End(m[i]) + 1, 0)
    BY <1>4, <1>5, <2>2
  <2> QED BY <1>4, <2>1, <2>3 DEF Leads
<1>7. DOMAIN call = 1..K /\ call = [i \in 1..K |-> call[i]]
  OBVIOUS
<1> HIDE DEF f, call
<1>8. Chain(call, f[1], f[K + 1])
  BY <1>2, <1>6, <1>7, ChainOf
<1>9. /\ Chain(<<enter>>, Level(d, n, 0), f[1])
      /\ Chain(<<exit>>, f[K + 1], Level(d, End(n) + 1, 0))
  BY <1>1, <1>5, ChainOne
<1>10. Chain(<<enter>> \o call \o <<exit>>, Level(d, n, 0), Level(d, End(n) + 1, 0))
  BY <1>8, <1>9, ChainConcat
<1> QED BY <1>10 DEF OperandCalls, call, d, S, m, K, enter, exit

\* A node's call stands for the calls print_node() makes in its place.
LEMMA NodeChain ==
    ASSUME IsTree(tree), NEW a, NEW b, NEW e, Leads(a, b, e), a.call = "node",
           Len(attributes) \in Nat
    PROVE  LET n == a.node
           IN Chain(IF tree.type[n] = "Executable" THEN ExecutableCalls(n)
                    ELSE OperandCalls(n), b, e)
<1> DEFINE n == a.node
           d == 2 * DepthOf(n)
<1>1. n \in Nodes /\ b = Level(d, n, 0) /\ e = Level(d, End(n) + 1, 0)
  BY DEF Leads
<1>2. CASE tree.type[n] = "Executable"
  <2>1. n \in Executables /\ End(n) = n
    BY <1>1, <1>2, EndsOfTree DEF Executables
  <2>2. Chain(ExecutableCalls(n), b, e)
    BY <1>1, <2>1, ExecutableChain
  <2> QED BY <1>2, <2>2
<1>3. CASE tree.type[n] # "Executable"
  <2>1. n \in Nodes \ Executables
    BY <1>1, <1>3 DEF Executables
  <2>2. Chain(OperandCalls(n), b, e)
    BY <1>1, <2>1, OperandChain
  <2> QED BY <1>3, <2>2
<1> QED BY <1>2, <1>3

\* The calls of print_results().
LEMMA WholeChain ==
    ASSUME IsTree(tree)
    PROVE  Chain(<<Call("head", NoNode), Call("node", 1), Call("foot", NoNode)>>,
                 Level(0, 0, 0), Level(0, tree.size + 1, 0))
<1> DEFINE head == Call("head", NoNode)
           top == Call("node", 1)
           foot == Call("foot", NoNode)
           end == Level(0, tree.size + 1, 0)
           s == <<head, top, foot>>
           f == [i \in 1..4 |-> CASE i = 1 -> Level(0, 0, 0) [] i = 2 -> Level(0, 1, 0)
                                  [] i \in 3..4 -> end]
<1>1. 1 \in Nodes /\ DepthOf(1) = 0 /\ End(1) = tree.size
  BY TreeFacts, DepthUnfolds, EndsOfTree
<1>2. /\ head.call = "head" /\ foot.call = "foot" /\ top.call = "node" /\ top.node = 1
  BY DEF Call
<1>3. /\ f[1] = Level(0, 0, 0) /\ f[2] = Level(0, 1, 0) /\ f[3] = end /\ f[4] = end
  OBVIOUS
<1>4. /\ DOMAIN s = 1..3 /\ s = [i \in 1..3 |-> s[i]]
      /\ s[1] = head /\ s[2] = top /\ s[3] = foot
  OBVIOUS
<1> HIDE DEF head, top, foot, s, f
<1>5. Leads(head, f[1], f[2]) /\ Leads(top, f[2], f[3]) /\ Leads(foot, f[3], f[4])
  BY <1>1, <1>2, <1>3 DEF Leads
<1>6. ASSUME NEW i \in 1..3 PROVE Leads(s[i], f[i], f[i + 1])
  <2>1. i = 1 \/ i = 2 \/ i = 3
    OBVIOUS
  <2> QED BY <1>4, <1>5, <2>1
<1>7. Chain(s, f[1], f[3 + 1])
  BY <1>4, <1>6, ChainOf
<1> QED BY <1>3, <1>7 DEF s, head, top, foot, end

\* The chain of the calls after a step.
LEMMA ChainKept ==
    ASSUME tree' = tree, executed' = executed, attributes' = attributes, NEW c, NEW d,
           Chain(agenda', c, d)
    PROVE  Chain(agenda, c, d)'
<1>1. Nodes' = Nodes /\ Executables' = Executables
  BY DEF Nodes, Executables
<1>2. \A n : End(n)' = End(n) /\ Width(n)' = Width(n) /\ DepthOf(n)' = DepthOf(n)
  BY <1>1, DepthKept DEF End, Width, Under
<1>3. ASSUME NEW a, NEW b, NEW e, Leads(a, b, e) PROVE Leads(a, b, e)'
  BY <1>1, <1>2, <1>3 DEF Leads, Level
<1> QED BY <1>3 DEF Chain, Listed

-----------------------------------------------------------------------------
(* What is written is complete up to where the printing stands.            *)

IsValueOf(e, n) == e.kind = "value" /\ e.node = n /\ e.what[1] \in Attributes

LEMMA RowsMore ==
    ASSUME NEW s, Listed(s), NEW e
    PROVE  /\ Listed(RowsOf(s))
           /\ e.kind = "executable" => RowsOf(Append(s, e)) = Append(RowsOf(s), e)
           /\ e.kind # "executable" => RowsOf(Append(s, e)) = RowsOf(s)
<1> DEFINE t == Append(s, e)
           S == {i \in 1..Len(s) : s[i].kind = "executable"}
           T == {i \in 1..Len(t) : t[i].kind = "executable"}
<1>1. /\ Len(s) \in Nat /\ Len(t) = Len(s) + 1
      /\ \A i \in 1..Len(s) : t[i] = s[i]
      /\ t[Len(s) + 1] = e
  BY ListedAppend, ListedIsFunction
<1> HIDE DEF t
<1>2. /\ e.kind = "executable" => T = S \cup {Len(s) + 1}
      /\ e.kind # "executable" => T = S
  BY <1>1
<1>3. S \in SUBSET (1..Len(s))
  OBVIOUS
<1>4. RowsOf(s) = AtPlaces(s, S) /\ RowsOf(t) = AtPlaces(t, T)
  BY DEF RowsOf
<1> HIDE DEF S, T
<1>5. /\ Listed(AtPlaces(s, S)) /\ AtPlaces(t, S) = AtPlaces(s, S)
      /\ AtPlaces(t, S \cup {Len(s) + 1}) = Append(AtPlaces(s, S), e)
  BY <1>3, AtPlacesMore DEF t
<1> QED BY <1>2, <1>4, <1>5 DEF t

LEMMA ValuesMore ==
    ASSUME NEW s, Listed(s), NEW e, NEW n
    PROVE  /\ Listed(ValuesOf(s, n))
           /\ IsValueOf(e, n) => ValuesOf(Append(s, e), n) = Append(ValuesOf(s, n), e)
           /\ ~IsValueOf(e, n) => ValuesOf(Append(s, e), n) = ValuesOf(s, n)
<1> DEFINE t == Append(s, e)
           S == {i \in 1..Len(s) : IsValueOf(s[i], n)}
           T == {i \in 1..Len(t) : IsValueOf(t[i], n)}
<1>1. /\ Len(s) \in Nat /\ Len(t) = Len(s) + 1
      /\ \A i \in 1..Len(s) : t[i] = s[i]
      /\ t[Len(s) + 1] = e
  BY ListedAppend, ListedIsFunction
<1> HIDE DEF t
<1>2. /\ IsValueOf(e, n) => T = S \cup {Len(s) + 1}
      /\ ~IsValueOf(e, n) => T = S
  BY <1>1
<1>3. S \in SUBSET (1..Len(s))
  OBVIOUS
<1>4. ValuesOf(s, n) = AtPlaces(s, S) /\ ValuesOf(t, n) = AtPlaces(t, T)
  BY DEF ValuesOf, IsValueOf
<1> HIDE DEF S, T
<1>5. /\ Listed(AtPlaces(s, S)) /\ AtPlaces(t, S) = AtPlaces(s, S)
      /\ AtPlaces(t, S \cup {Len(s) + 1}) = Append(AtPlaces(s, S), e)
  BY <1>3, AtPlacesMore DEF t
<1> QED BY <1>2, <1>4, <1>5 DEF t

\* How many of the attributes are printed for n.
Filled(n, c) ==
    IF n \notin executed \/ n >= c.next THEN 0
    ELSE IF n + 1 = c.next /\ c.values > 0 THEN c.values - 1
    ELSE Len(attributes)

RowsBefore(k) == {n \in Executables : n < k}

\* The pieces s have a row for each executable before the place c, numbered below x if
\* they are numbered, with the values printed for it so far, in order, and no others.
Complete(s, c, x) ==
    /\ Listed(s)
    /\ Len(RowsOf(s)) = Cardinality(RowsBefore(c.next))
    /\ \A i \in 1..Len(RowsOf(s)) : RowsOf(s)[i].node = Ascending(RowsBefore(c.next))[i]
    /\ format = "txt" => /\ Len(RowsOf(s)) + 1 = x
                         /\ \A i \in 1..Len(RowsOf(s)) : RowsOf(s)[i].what = <<i>>
    /\ \A n \in Executables :
         /\ Len(ValuesOf(s, n)) = Filled(n, c)
         /\ \A i \in 1..Filled(n, c) : ValuesOf(s, n)[i].what[1] = attributes[i]
    /\ \A i \in 1..Len(s) : s[i].node \in Nat /\ s[i].node < c.next
    /\ \A i, j \in 1..Len(s) : i < j /\ s[j].node # NoNode => s[i].node <= s[j].node

\* Written in order: a piece of the last node, or of none, keeps the order.
LEMMA OrderMore ==
    ASSUME NEW s, Listed(s), NEW e, NEW k \in Nat, e.node \in Nat, e.node < k,
           e.node # NoNode => e.node + 1 = k,
           \A i \in 1..Len(s) : s[i].node \in Nat /\ s[i].node < k,
           \A i, j \in 1..Len(s) : i < j /\ s[j].node # NoNode => s[i].node <= s[j].node
    PROVE  LET t == Append(s, e)
           IN /\ \A i \in 1..Len(t) : t[i].node \in Nat /\ t[i].node < k
              /\ \A i, j \in 1..Len(t) : i < j /\ t[j].node # NoNode => t[i].node <= t[j].node
<1> DEFINE t == Append(s, e)
           l == Len(s)
<1>1. /\ l \in Nat /\ Len(t) = l + 1 /\ \A i \in 1..l : t[i] = s[i]
      /\ t[l + 1] = e
  BY ListedAppend, ListedIsFunction
<1> HIDE DEF t, l
<1>2. \A i \in 1..(l + 1) : i \in 1..l \/ i = l + 1
  BY <1>1
<1>3. ASSUME NEW i \in 1..(l + 1) PROVE t[i].node \in Nat /\ t[i].node < k
  BY <1>1, <1>2 DEF l
<1>4. ASSUME NEW i \in 1..(l + 1), NEW j \in 1..(l + 1), i < j, t[j].node # NoNode
      PROVE  t[i].node <= t[j].node
  <2>1. CASE j \in 1..l
    <3>1. i \in 1..l
      BY <1>1, <1>4, <2>1
    <3>2. t[i] = s[i] /\ t[j] = s[j]
      BY <1>1, <2>1, <3>1
    <3> QED BY <1>4, <2>1, <3>1, <3>2 DEF l
  <2>2. CASE j = l + 1
    <3>1. t[j].node + 1 = k /\ t[j].node \in Nat
      BY <1>1, <1>4, <2>2
    <3> QED BY <1>3, <3>1
  <2> QED BY <1>2, <2>1, <2>2
<1> QED BY <1>1, <1>3, <1>4 DEF t

\* A piece that is neither a row nor a value of an executable.
IsPlain(e, c) ==
    /\ e.kind # "executable"
    /\ e.node \in Nat /\ e.node < c.next /\ (e.node # NoNode => e.node + 1 = c.next)
    /\ \A n \in Executables : ~IsValueOf(e, n)

LEMMA CompletePlain ==
    ASSUME NEW s, NEW c \in Levels, NEW x, NEW e, Complete(s, c, x), IsPlain(e, c)
    PROVE  Complete(Append(s, e), c, x)
<1> DEFINE t == Append(s, e)
<1>1. Listed(s) /\ Listed(t) /\ RowsOf(t) = RowsOf(s)
  BY RowsMore, ListedAppend DEF Complete, IsPlain
<1>2. \A n \in Executables : ValuesOf(t, n) = ValuesOf(s, n)
  BY <1>1, ValuesMore DEF IsPlain
<1>3. /\ \A i \in 1..Len(t) : t[i].node \in Nat /\ t[i].node < c.next
      /\ \A i, j \in 1..Len(t) : i < j /\ t[j].node # NoNode => t[i].node <= t[j].node
  <2>1. c.next \in Nat
    BY DEF Levels
  <2>2. /\ \A i \in 1..Len(s) : s[i].node \in Nat /\ s[i].node < c.next
        /\ \A i, j \in 1..Len(s) : i < j /\ s[j].node # NoNode => s[i].node <= s[j].node
    BY DEF Complete
  <2> QED BY <1>1, <2>1, <2>2, OrderMore DEF IsPlain
<1> HIDE DEF t
<1>4. Complete(t, c, x)
  BY <1>1, <1>2, <1>3 DEF Complete
<1> QED BY <1>4 DEF t

LEMMA RowsBeforeFacts ==
    ASSUME IsTree(tree), NEW k \in Nat
    PROVE  /\ RowsBefore(k) \in SUBSET Nat /\ IsFiniteSet(RowsBefore(k))
           /\ Cardinality(RowsBefore(k)) \in Nat
           /\ RowsBefore(k + 1) = IF k \in Executables THEN RowsBefore(k) \cup {k}
                                  ELSE RowsBefore(k)
<1>1. Executables \in SUBSET (1..tree.size) /\ tree.size \in Nat
  BY TreeFacts DEF IsTree, Nodes
<1>2. IsFiniteSet(1..tree.size)
  BY <1>1, FS_Interval
<1>3. RowsBefore(k) \in SUBSET (1..tree.size) /\ RowsBefore(k) \in SUBSET Nat
  <2>1. \A n \in RowsBefore(k) : n \in 1..tree.size /\ n \in Nat
    BY <1>1 DEF RowsBefore
  <2> QED BY <2>1
<1>4. IsFiniteSet(RowsBefore(k)) /\ Cardinality(RowsBefore(k)) \in Nat
  BY <1>2, <1>3, FS_Subset, FS_CardinalityType
<1>5. \A n \in Executables : n \in Nat /\ (n < k + 1 <=> n < k \/ n = k)
  BY <1>1
<1>6. RowsBefore(k + 1) = IF k \in Executables THEN RowsBefore(k) \cup {k} ELSE RowsBefore(k)
  BY <1>5 DEF RowsBefore
<1> QED BY <1>3, <1>4, <1>6

\* A new row.
LEMMA CompleteRow ==
    ASSUME IsTree(tree), NEW n \in Executables, NEW o \in Nat, NEW p \in Nat,
           NEW s, NEW x \in Nat, NEW y, NEW e,
           Complete(s, Level(o, n, 0), x), e.kind = "executable", e.node = n,
           format = "txt" => e.what = <<x>> /\ y = x + 1
    PROVE  Complete(Append(s, e), Level(p, n + 1, 1), y)
<1> DEFINE t == Append(s, e)
           c == Level(o, n, 0)
           d == Level(p, n + 1, 1)
           r == RowsOf(s)
           q == RowsOf(t)
           l == Len(r)
<1>1. /\ n \in Nat /\ \A m \in Executables : m \in Nat
      /\ c.next = n /\ c.values = 0 /\ d.next = n + 1 /\ d.values = 1
  BY TreeFacts DEF Level
<1> HIDE DEF c, d
<1>2. Complete(s, c, x)
  BY DEF c
<1>3. /\ Listed(s) /\ Listed(t) /\ Listed(r) /\ q = Append(r, e)
  BY <1>2, RowsMore, ListedAppend DEF Complete
<1>4. /\ l \in Nat /\ Len(q) = l + 1 /\ \A i \in 1..l : q[i] = r[i]
      /\ q[l + 1] = e
  BY <1>3, ListedAppend, ListedIsFunction
<1>5. /\ Cardinality(RowsBefore(n)) = l
      /\ \A i \in 1..l : r[i].node = Ascending(RowsBefore(n))[i]
  BY <1>1, <1>2 DEF Complete
<1>6. /\ Cardinality(RowsBefore(n + 1)) = l + 1
      /\ \A i \in 1..l : Ascending(RowsBefore(n + 1))[i] = Ascending(RowsBefore(n))[i]
      /\ Ascending(RowsBefore(n + 1))[l + 1] = n
  <2>1. /\ RowsBefore(n) \in SUBSET Nat /\ IsFiniteSet(RowsBefore(n))
        /\ RowsBefore(n + 1) = RowsBefore(n) \cup {n}
    BY <1>1, RowsBeforeFacts
  <2>2. \A m \in RowsBefore(n) : m < n
    BY DEF RowsBefore
  <2> DEFINE S == RowsBefore(n)
             U == RowsBefore(n + 1)
  <2>3. U = S \cup {n} /\ S \in SUBSET Nat /\ IsFiniteSet(S) /\ \A m \in S : m < n
    BY <2>1, <2>2
  <2>4. Cardinality(S) = l
    BY <1>5
  <2> HIDE DEF S, U, l
  <2>5. /\ Cardinality(S \cup {n}) = Cardinality(S) + 1
        /\ \A i \in 1..Cardinality(S) : Ascending(S \cup {n})[i] = Ascending(S)[i]
        /\ Ascending(S \cup {n})[Cardinality(S) + 1] = n
    BY <1>1, <2>3, AscendingWithGreater
  <2>6. /\ Cardinality(U) = l + 1
        /\ \A i \in 1..l : Ascending(U)[i] = Ascending(S)[i]
        /\ Ascending(U)[l + 1] = n
    BY <2>3, <2>4, <2>5
  <2> QED BY <2>6 DEF S, U
<1>7. \A i \in 1..(l + 1) : i \in 1..l \/ i = l + 1
  BY <1>4
<1> HIDE DEF q, r, l
<1>8. \A i \in 1..Len(q) : q[i].node = Ascending(RowsBefore(d.next))[i]
  BY <1>1, <1>4, <1>5, <1>6, <1>7
<1>9. ASSUME format = "txt"
      PROVE  Len(q) + 1 = y /\ \A i \in 1..Len(q) : q[i].what = <<i>>
  <2>1. l + 1 = x /\ \A i \in 1..l : r[i].what = <<i>>
    BY <1>2, <1>9 DEF Complete, r, l
  <2> QED BY <1>4, <1>7, <1>9, <2>1
<1>10. ASSUME NEW m \in Executables
       PROVE  ValuesOf(t, m) = ValuesOf(s, m) /\ Filled(m, d) = Filled(m, c)
  <2>1. ~IsValueOf(e, m)
    BY DEF IsValueOf
  <2>2. ValuesOf(t, m) = ValuesOf(s, m)
    BY <1>3, <2>1, ValuesMore
  <2>3. Filled(m, d) = Filled(m, c)
    <3>1. CASE m = n
      BY <1>1, <3>1 DEF Filled
    <3>2. CASE m > n
      <4>1. m >= n /\ m >= n + 1
        BY <1>1, <3>2
      <4> QED BY <1>1, <4>1 DEF Filled
    <3>3. CASE m < n
      <4>1. ~(m >= n) /\ ~(m >= n + 1) /\ m + 1 # n + 1 /\ ~(0 > 0)
        BY <1>1, <3>3
      <4> QED BY <1>1, <4>1 DEF Filled
    <3>4. m = n \/ m > n \/ m < n
      <4>1. m \in Nat /\ n \in Nat
        BY <1>1
      <4>2. \A i, j \in Nat : i = j \/ i > j \/ i < j
        OBVIOUS
      <4> QED BY <4>1, <4>2
    <3> QED BY <3>1, <3>2, <3>3, <3>4
  <2> QED BY <2>2, <2>3
<1>11. \A m \in Executables :
         /\ Len(ValuesOf(t, m)) = Filled(m, d)
         /\ \A i \in 1..Filled(m, d) : ValuesOf(t, m)[i].what[1] = attributes[i]
  BY <1>2, <1>10 DEF Complete
<1>12. /\ \A i \in 1..Len(t) : t[i].node \in Nat /\ t[i].node < n + 1
       /\ \A i, j \in 1..Len(t) : i < j /\ t[j].node # NoNode => t[i].node <= t[j].node
  <2>1. /\ \A i \in 1..Len(s) : s[i].node \in Nat /\ s[i].node < n + 1
        /\ \A i, j \in 1..Len(s) : i < j /\ s[j].node # NoNode => s[i].node <= s[j].node
    BY <1>1, <1>2 DEF Complete
  <2>2. n + 1 \in Nat /\ n < n + 1
    BY <1>1
  <2> QED BY <1>1, <1>3, <2>1, <2>2, OrderMore
<1> HIDE DEF t
<1>13. Complete(t, d, y)
  BY SMTT(60), <1>1, <1>3, <1>4, <1>6, <1>8, <1>9, <1>11, <1>12 DEF Complete, q
<1> QED BY <1>13 DEF t, d

\* A value more in the row.
LEMMA CompleteValue ==
    ASSUME IsTree(tree), NEW n \in Executables \cap executed, NEW o \in Nat,
           NEW k \in 1..Len(attributes), attributes \in Seq(Attributes),
           NEW s, NEW x, NEW e, Complete(s, Level(o, n + 1, k), x),
           e.kind = "value", e.node = n, e.what[1] = attributes[k]
    PROVE  Complete(Append(s, e), Level(o, n + 1, k + 1), x)
<1> DEFINE t == Append(s, e)
           c == Level(o, n + 1, k)
           d == Level(o, n + 1, k + 1)
<1>1. /\ n \in Nat /\ \A m \in Executables : m \in Nat
      /\ c.next = n + 1 /\ c.values = k /\ d.next = n + 1 /\ d.values = k + 1
      /\ k \in Nat /\ k > 0 /\ Len(attributes) \in Nat
  BY TreeFacts DEF Level
<1> HIDE DEF c, d
<1>2. Complete(s, c, x)
  BY DEF c
<1>3. Listed(s) /\ Listed(t)
  BY <1>2, ListedAppend DEF Complete
<1>4. RowsOf(t) = RowsOf(s)
  BY <1>3, RowsMore
<1>5. e.what[1] \in Attributes
  BY <1>1
<1>6. ASSUME NEW m \in Executables
      PROVE  /\ Len(ValuesOf(t, m)) = Filled(m, d)
             /\ \A i \in 1..Filled(m, d) : ValuesOf(t, m)[i].what[1] = attributes[i]
  <2>1. /\ Len(ValuesOf(s, m)) = Filled(m, c)
        /\ \A i \in 1..Filled(m, c) : ValuesOf(s, m)[i].what[1] = attributes[i]
    BY <1>2 DEF Complete
  <2>2. CASE m = n
    <3> DEFINE v == ValuesOf(s, n)
    <3>1. Filled(n, c) = k - 1 /\ Filled(n, d) = k
      BY <1>1 DEF Filled
    <3>2. IsValueOf(e, n)
      BY <1>5 DEF IsValueOf
    <3>3. Listed(v) /\ ValuesOf(t, n) = Append(v, e)
      BY <1>3, <3>2, ValuesMore
    <3> HIDE DEF v
    <3>4. /\ Len(Append(v, e)) = Len(v) + 1
          /\ \A i \in 1..Len(v) : Append(v, e)[i] = v[i]
          /\ Append(v, e)[Len(v) + 1] = e
      BY <3>3, ListedAppend
    <3>5. Len(v) = k - 1 /\ \A i \in 1..(k - 1) : v[i].what[1] = attributes[i]
      BY <2>1, <2>2, <3>1 DEF v
    <3>6. /\ Len(Append(v, e)) = k
          /\ \A i \in 1..k : Append(v, e)[i].what[1] = attributes[i]
      <4>1. \A i \in 1..k : i \in 1..(k - 1) \/ i = k
        BY <1>1
      <4>2. (k - 1) + 1 = k
        BY <1>1
      <4> QED BY <3>4, <3>5, <4>1, <4>2
    <3> QED BY <2>2, <3>1, <3>3, <3>6
  <2>3. CASE m # n
    <3>1. ~IsValueOf(e, m)
      BY <2>3 DEF IsValueOf
    <3>2. ValuesOf(t, m) = ValuesOf(s, m)
      BY <1>3, <3>1, ValuesMore
    <3>3. Filled(m, d) = Filled(m, c)
      BY <1>1, <2>3 DEF Filled
    <3> QED BY <2>1, <3>2, <3>3
  <2> QED BY <2>2, <2>3
<1>7. /\ \A i \in 1..Len(t) : t[i].node \in Nat /\ t[i].node < n + 1
      /\ \A i, j \in 1..Len(t) : i < j /\ t[j].node # NoNode => t[i].node <= t[j].node
  <2>1. /\ \A i \in 1..Len(s) : s[i].node \in Nat /\ s[i].node < n + 1
        /\ \A i, j \in 1..Len(s) : i < j /\ s[j].node # NoNode => s[i].node <= s[j].node
    BY <1>1, <1>2 DEF Complete
  <2>2. n + 1 \in Nat /\ n < n + 1
    BY <1>1
  <2> QED BY <1>1, <1>3, <2>1, <2>2, OrderMore
<1> HIDE DEF t
<1>8. Complete(t, d, x)
  BY ZenonT(60), <1>1, <1>2, <1>3, <1>4, <1>6, <1>7 DEF Complete
<1> QED BY <1>8 DEF t, d

\* The printing goes on with nothing written.
LEMMA CompleteOn ==
    ASSUME NEW s, NEW c \in Levels, NEW d \in Levels, NEW x, Complete(s, c, x),
           c.next <= d.next, RowsBefore(d.next) = RowsBefore(c.next),
           \A n \in Executables : Filled(n, d) = Filled(n, c)
    PROVE  Complete(s, d, x)
<1>1. c.next \in Nat /\ d.next \in Nat
  BY DEF Levels
<1>2. \A i \in 1..Len(s) : s[i].node \in Nat /\ s[i].node < d.next
  BY <1>1 DEF Complete
<1> QED BY <1>2 DEF Complete

-----------------------------------------------------------------------------
(* The lines of a table.                                                   *)

\* The place of the line end before place i, or 0.
LineStart(s, i) == Last({j \in 0..(i - 1) : j > 0 => s[j] = Newline})

\* The pieces of the line after place b: the first has the columns of the header.
Columns(s, b) ==
    IF b = 0 \/ s[b + 1].node \in executed THEN 2 * Len(attributes) + 1 ELSE 1

\* In each line values and commas alternate, and the lines that have an end are complete.
Lined(s) ==
    /\ Listed(s)
    /\ \A i \in 1..Len(s) :
         LET b == LineStart(s, i)
         IN /\ s[i] = Newline => i - b = Columns(s, b) + 1
            /\ s[i] # Newline => (s[i] = Comma <=> (i - b) % 2 = 0)

LEMMA TableMarks ==
    /\ Comma # Newline
    /\ \A n, w : Value(n, w) \notin {Comma, Newline}
    /\ \A n : Row(n) \notin {Comma, Newline} /\ Row(n).node = n
    /\ Newline.node = NoNode /\ Comma.node = NoNode
    /\ Newline.kind = "mark" /\ Comma.kind = "mark"
<1>1. /\ Comma.kind = "mark" /\ Newline.kind = "mark" /\ Comma.what[1] # Newline.what[1]
      /\ Newline.node = NoNode /\ Comma.node = NoNode
  BY DEF Comma, Newline, Mark
<1>2. \A n, w : Value(n, w).kind = "value"
  BY DEF Value
<1>3. \A n : Row(n).kind = "executable" /\ Row(n).node = n
  BY DEF Row
<1> QED BY <1>1, <1>2, <1>3

LEMMA LineStartFacts ==
    ASSUME NEW s, NEW i \in Nat \ {0}
    PROVE  LET b == LineStart(s, i)
           IN /\ b \in 0..(i - 1)
              /\ b > 0 => s[b] = Newline
              /\ \A j \in 1..(i - 1) : s[j] = Newline => j <= b
<1> DEFINE S == {j \in 0..(i - 1) : j > 0 => s[j] = Newline}
<1>1. i - 1 \in Nat /\ S \in SUBSET (0..(i - 1)) /\ 0 \in S
  OBVIOUS
<1>2. \A j \in S : j > 0 => s[j] = Newline
  OBVIOUS
<1>3. \A j \in 1..(i - 1) : s[j] = Newline => j \in S
  OBVIOUS
<1> HIDE DEF S
<1>4. Last(S) \in S /\ \A m \in S : m <= Last(S)
  BY <1>1, LastIsGreatest
<1> QED BY <1>1, <1>2, <1>3, <1>4 DEF S, LineStart

LEMMA LineStartIs ==
    ASSUME NEW s, NEW i \in Nat \ {0}, NEW b \in 0..(i - 1), b > 0 => s[b] = Newline,
           \A j \in 1..(i - 1) : s[j] = Newline => j <= b
    PROVE  LineStart(s, i) = b
<1> DEFINE c == LineStart(s, i)
<1>1. /\ c \in 0..(i - 1) /\ (c > 0 => s[c] = Newline)
      /\ \A j \in 1..(i - 1) : s[j] = Newline => j <= c
  BY LineStartFacts
<1> HIDE DEF c
<1>2. b <= c
  <2>1. b > 0 => b \in 1..(i - 1)
    OBVIOUS
  <2> QED BY <1>1, <2>1
<1>3. c <= b
  <2>1. c > 0 => c \in 1..(i - 1)
    BY <1>1
  <2> QED BY <1>1, <2>1
<1> QED BY <1>1, <1>2, <1>3 DEF c

LEMMA LineStartMore ==
    ASSUME NEW s, Listed(s), NEW e
    PROVE  LET t == Append(s, e)
               l == Len(s)
           IN /\ \A i \in 1..(l + 1) : LineStart(t, i) = LineStart(s, i)
              /\ e = Newline => LineStart(t, l + 2) = l + 1
              /\ e # Newline => LineStart(t, l + 2) = LineStart(s, l + 1)
<1> DEFINE t == Append(s, e)
           l == Len(s)
<1>1. /\ l \in Nat /\ \A i \in 1..l : t[i] = s[i]
      /\ t[l + 1] = e
  BY ListedAppend, ListedIsFunction
<1> HIDE DEF t, l
<1>2. ASSUME NEW i \in 1..(l + 1) PROVE LineStart(t, i) = LineStart(s, i)
  <2>1. \A j \in 0..(i - 1) : j > 0 => t[j] = s[j]
    BY <1>1
  <2> QED BY <2>1 DEF LineStart
<1>3. ASSUME e = Newline PROVE LineStart(t, l + 2) = l + 1
  <2>1. l + 2 \in Nat \ {0} /\ l + 1 \in 0..(l + 2 - 1) /\ \A j \in 1..(l + 2 - 1) : j <= l + 1
    BY <1>1
  <2> QED BY <1>1, <1>3, <2>1, LineStartIs
<1>4. ASSUME e # Newline PROVE LineStart(t, l + 2) = LineStart(s, l + 1)
  <2> DEFINE p == l + 1
             q == l + 2
             b == LineStart(s, p)
  <2>1. /\ p \in Nat \ {0} /\ q \in Nat \ {0} /\ 0..(p - 1) \subseteq 0..(q - 1)
        /\ 1..(p - 1) = 1..l /\ 1..(q - 1) = 1..l \cup {l + 1} /\ p - 1 = l
    BY <1>1
  <2> HIDE DEF p, q
  <2>2. /\ b \in 0..(p - 1) /\ (b > 0 => s[b] = Newline)
        /\ \A j \in 1..(p - 1) : s[j] = Newline => j <= b
    BY <2>1, LineStartFacts
  <2> HIDE DEF b
  <2>3. b \in 0..(q - 1) /\ (b > 0 => b \in 1..l)
    BY <1>1, <2>1, <2>2
  <2>4. b > 0 => t[b] = Newline
    BY <1>1, <2>2, <2>3
  <2>5. ASSUME NEW j \in 1..(q - 1), t[j] = Newline PROVE j <= b
    <3>1. j \in 1..l
      BY <1>1, <1>4, <2>1, <2>5
    <3> QED BY <1>1, <2>1, <2>2, <2>5, <3>1
  <2>6. LineStart(t, q) = b
    BY <2>1, <2>3, <2>4, <2>5, LineStartIs
  <2> QED BY <2>6 DEF b, p, q
<1> QED BY <1>2, <1>3, <1>4 DEF t, l

\* A piece more in the line after place b.
LEMMA LinedMore ==
    ASSUME NEW s, Lined(s), NEW e, NEW b, b = LineStart(s, Len(s) + 1),
           e = Newline => Len(s) > b /\ Len(s) = b + Columns(s, b),
           e # Newline => (e = Comma <=> (Len(s) + 1 - b) % 2 = 0)
    PROVE  LET t == Append(s, e)
               l == Len(s)
           IN /\ Lined(t) /\ Len(t) = l + 1 /\ l \in Nat /\ b \in 0..l
              /\ e = Newline => LineStart(t, Len(t) + 1) = Len(t)
              /\ e # Newline => LineStart(t, Len(t) + 1) = b
              /\ l > b => t[b + 1] = s[b + 1]
              /\ l = b => t[b + 1] = e
<1> DEFINE t == Append(s, e)
           l == Len(s)
<1>1. /\ Listed(s) /\ Listed(t) /\ l \in Nat /\ Len(t) = l + 1
      /\ \A i \in 1..l : t[i] = s[i]
      /\ t[l + 1] = e
  BY ListedAppend, ListedIsFunction DEF Lined
<1>2. /\ \A i \in 1..(l + 1) : LineStart(t, i) = LineStart(s, i)
      /\ e = Newline => LineStart(t, l + 2) = l + 1
      /\ e # Newline => LineStart(t, l + 2) = b
  BY <1>1, LineStartMore
<1>3. \A i \in 1..(l + 1) : LineStart(s, i) \in 0..(i - 1)
  <2>1. \A i \in 1..(l + 1) : i \in Nat \ {0}
    BY <1>1
  <2> QED BY <2>1, LineStartFacts
<1> HIDE DEF t, l
<1>4. b \in 0..l
  <2>1. l + 1 \in 1..(l + 1) /\ l + 1 - 1 = l
    BY <1>1
  <2> QED BY <1>3, <2>1 DEF l
<1>5. ASSUME NEW c \in 0..l, c < l PROVE Columns(t, c) = Columns(s, c)
  <2>1. c + 1 \in 1..l
    BY <1>1, <1>5
  <2> QED BY <1>1, <2>1 DEF Columns
<1>6. ASSUME NEW i \in 1..(l + 1)
      PROVE  LET a == LineStart(t, i)
             IN /\ t[i] = Newline => i - a = Columns(t, a) + 1
                /\ t[i] # Newline => (t[i] = Comma <=> (i - a) % 2 = 0)
  <2> DEFINE a == LineStart(s, i)
  <2>1. LineStart(t, i) = a /\ a \in 0..(i - 1) /\ (i \in 1..l \/ i = l + 1)
    BY <1>1, <1>2, <1>3
  <2>2. CASE i \in 1..l
    <3>1. /\ s[i] = Newline => i - a = Columns(s, a) + 1
          /\ s[i] # Newline => (s[i] = Comma <=> (i - a) % 2 = 0)
      BY <2>2 DEF Lined, l
    <3>2. a \in 0..l /\ a < l
      BY <1>1, <2>1, <2>2
    <3> HIDE DEF a
    <3> QED BY <1>1, <1>5, <2>1, <2>2, <3>1, <3>2
  <2>3. CASE i = l + 1
    <3>1. a = b /\ t[i] = e
      BY <1>1, <2>3 DEF l
    <3> HIDE DEF a
    <3>2. ASSUME e = Newline PROVE i - b = Columns(t, b) + 1
      <4>1. b < l /\ l = b + Columns(s, b)
        BY <3>2 DEF l
      <4>2. l = b + Columns(t, b)
        BY <1>4, <1>5, <4>1
      <4>3. Columns(t, b) = l - b
        <5>1. Columns(t, b) \in Nat
          BY LenProperties, <1>1, <1>4, <4>1, <4>2 DEF Columns
        <5> QED BY <1>1, <1>4, <4>2, <5>1
      <4> QED BY <1>1, <1>4, <2>3, <4>3
    <3> QED BY SMTT(60), <2>1, <2>3, <3>1, <3>2 DEF l
  <2> QED BY <2>1, <2>2, <2>3
<1>7. Lined(t)
  BY <1>1, <1>6 DEF Lined
<1>8. (l > b => t[b + 1] = s[b + 1]) /\ (l = b => t[b + 1] = e)
  <2>1. l > b => b + 1 \in 1..l
    BY <1>1, <1>4
  <2> QED BY <1>1, <2>1
<1>9. l + 1 + 1 = l + 2
  BY <1>1
<1> QED BY <1>1, <1>2, <1>4, <1>7, <1>8, <1>9 DEF t, l

\* The pieces s are a table whose last line stands at c.
Table(s, c) ==
    LET b == LineStart(s, Len(s) + 1)
    IN /\ Lined(s)
       /\ Len(s) = 0 <=> c.next = 0
       /\ Len(s) - b = IF c.values = 0 THEN 0 ELSE 2 * c.values - 1
       /\ c.values > 0 => b > 0 /\ s[b + 1].node = c.next - 1

LEMMA TableRow ==
    ASSUME NEW n \in Nat, n > 0, NEW o, NEW p, NEW s, Table(s, Level(o, n, 0))
    PROVE  Table(s \o <<Row(n)>>, Level(p, n + 1, 1))
<1> DEFINE l == Len(s)
           b == LineStart(s, l + 1)
           e == Row(n)
           t == Append(s, e)
<1>1. Lined(s) /\ Listed(s) /\ l \in Nat /\ l # 0 /\ l - b = 0
  BY ListedIsFunction DEF Table, Level, Lined
<1>2. b \in Nat
  <2>1. l + 1 \in Nat \ {0}
    BY <1>1
  <2> QED BY <2>1, LineStartFacts
<1>3. l = b /\ b > 0 /\ (l + 1 - b) % 2 = 1
  <2> HIDE DEF l, b
  <2>1. l = b /\ l + 1 - b = 1
    BY <1>1, <1>2
  <2> QED BY <1>1, <2>1
<1>4. e # Newline /\ e # Comma /\ e.node = n
  BY TableMarks
<1> HIDE DEF e
<1>5. /\ Lined(t) /\ Len(t) = l + 1 /\ LineStart(t, Len(t) + 1) = b /\ t[b + 1] = e
  BY <1>1, <1>3, <1>4, LinedMore
<1>6. s \o <<e>> = t
  BY <1>1, AppendedOne
<1> HIDE DEF t, l, b
<1>7. Table(t, Level(p, n + 1, 1))
  BY <1>1, <1>2, <1>3, <1>4, <1>5 DEF Table, Level
<1> QED BY <1>6, <1>7 DEF e

LEMMA TableValue ==
    ASSUME NEW n \in Nat, NEW k \in Nat, k > 0, NEW o, NEW s, Table(s, Level(o, n + 1, k)),
           NEW v, v \notin {Comma, Newline}
    PROVE  Table(s \o <<Comma, v>>, Level(o, n + 1, k + 1))
<1> DEFINE l == Len(s)
           b == LineStart(s, l + 1)
           t == Append(s, Comma)
           u == Append(t, v)
<1>1. /\ Lined(s) /\ Listed(s) /\ l \in Nat
      /\ l - b = 2 * k - 1 /\ b > 0 /\ s[b + 1].node = n
  BY ListedIsFunction DEF Table, Level, Lined
<1>2. b \in Nat
  <2>1. l + 1 \in Nat \ {0}
    BY <1>1
  <2> QED BY <2>1, LineStartFacts
<1>3. /\ l > b /\ (l + 1 - b) % 2 = 0 /\ (l + 1 + 1 - b) % 2 = 1
      /\ l + 1 + 1 - b = 2 * (k + 1) - 1 /\ l + 1 > b
  <2> HIDE DEF l, b
  <2>1. l = 2 * k - 1 + b
    BY <1>1, <1>2
  <2>2. l + 1 - b = 2 * k /\ l + 1 + 1 - b = 2 * k + 1
    BY <1>2, <2>1
  <2> QED BY <1>1, <1>2, <2>1, <2>2
<1>4. /\ Lined(t) /\ Len(t) = l + 1 /\ LineStart(t, Len(t) + 1) = b
      /\ t[b + 1] = s[b + 1]
  <2> DEFINE e == Comma
  <2>1. e # Newline /\ e = Comma /\ l > b /\ (l + 1 - b) % 2 = 0
    BY <1>3, TableMarks
  <2> HIDE DEF e
  <2>2. e = Comma <=> (l + 1 - b) % 2 = 0
    BY <2>1
  <2>3. /\ Lined(Append(s, e)) /\ Len(Append(s, e)) = l + 1
        /\ LineStart(Append(s, e), Len(Append(s, e)) + 1) = b
        /\ Append(s, e)[b + 1] = s[b + 1]
    BY SMTT(60), <1>1, <2>1, <2>2, LinedMore
  <2> QED BY <2>3 DEF e
<1>5. Listed(t)
  BY <1>4 DEF Lined
<1>6. s \o <<Comma, v>> = u
  BY <1>1, AppendedTwo
<1> HIDE DEF t, l, b
<1>7. /\ Lined(u) /\ Len(u) = l + 1 + 1 /\ LineStart(u, Len(u) + 1) = b
      /\ u[b + 1] = t[b + 1]
  <2>1. v # Newline /\ v # Comma /\ Lined(t) /\ b = LineStart(t, Len(t) + 1)
    BY <1>4
  <2>2. (Len(t) + 1 - b) % 2 = 1 /\ Len(t) > b
    BY <1>3, <1>4
  <2>3. v = Comma <=> (Len(t) + 1 - b) % 2 = 0
    BY <2>1, <2>2
  <2>4. /\ Lined(u) /\ Len(u) = Len(t) + 1 /\ LineStart(u, Len(u) + 1) = b
        /\ u[b + 1] = t[b + 1]
    BY <2>1, <2>2, <2>3, LinedMore
  <2> QED BY <1>4, <2>4
<1> HIDE DEF u
<1>8. Table(u, Level(o, n + 1, k + 1))
  <2> DEFINE c == Level(o, n + 1, k + 1)
  <2>1. c.next = n + 1 /\ c.values = k + 1
    BY DEF Level
  <2> HIDE DEF c
  <2>2. Len(u) # 0 /\ c.next # 0 /\ c.values # 0 /\ Len(u) - b = 2 * c.values - 1
    <3>1. l + 1 + 1 # 0 /\ n + 1 # 0 /\ k + 1 # 0
      BY <1>1
    <3>2. l + 1 + 1 - b = 2 * (k + 1) - 1
      BY <1>3
    <3>3. Len(u) # 0 /\ c.next # 0 /\ c.values # 0
      BY <1>7, <2>1, <3>1
    <3>4. Len(u) - b = 2 * c.values - 1
      <4> DEFINE x == Len(u)
      <4>1. x = l + 1 + 1 /\ l \in Nat /\ b \in Nat
        BY <1>1, <1>2, <1>7
      <4> HIDE DEF x
      <4>2. x - b = 2 * (k + 1) - 1
        BY <3>2, <4>1
      <4> QED BY <2>1, <4>2 DEF x
    <3> QED BY <3>3, <3>4
  <2>3. Table(u, c)
    BY <1>1, <1>4, <1>7, <2>1, <2>2 DEF Table
  <2> QED BY <2>3 DEF c
<1> QED BY <1>6, <1>8

LEMMA TableFoot ==
    ASSUME NEW n \in Nat, NEW o, NEW p, NEW s, Table(s, Level(o, n + 1, Width(n))),
           Len(attributes) \in Nat
    PROVE  Table(s \o <<Newline>>, Level(p, n + 1, 0))
<1> DEFINE l == Len(s)
           b == LineStart(s, l + 1)
           t == Append(s, Newline)
           k == Width(n)
<1>1. k \in Nat /\ k > 0
  BY DEF Width
<1>2. /\ Lined(s) /\ Listed(s) /\ l \in Nat
      /\ l - b = 2 * k - 1 /\ b > 0 /\ s[b + 1].node = n
  <2> DEFINE c == Level(o, n + 1, Width(n))
  <2>1. c.next = n + 1 /\ c.values = k
    BY DEF Level
  <2> HIDE DEF c, k
  <2>2. Lined(s) /\ Listed(s) /\ l \in Nat
    BY ListedIsFunction DEF Table, Lined
  <2>3. Table(s, c)
    BY DEF c
  <2>4. c.values > 0 /\ c.values # 0
    BY <1>1, <2>1
  <2> QED BY <2>1, <2>2, <2>3, <2>4 DEF Table
<1>3. b \in Nat
  <2>1. l + 1 \in Nat \ {0}
    BY <1>2
  <2> QED BY <2>1, LineStartFacts
<1>4. l > b /\ l = b + (2 * k - 1)
  <2> HIDE DEF l, b, k
  <2> QED BY <1>1, <1>2, <1>3
<1>5. Columns(s, b) = 2 * k - 1
  <2>1. s[b + 1].node = n
    BY <1>2
  <2>2. b # 0
    BY <1>2, <1>3
  <2> HIDE DEF b
  <2> QED BY <2>1, <2>2 DEF Columns, Width
<1>6. Lined(t) /\ Len(t) = l + 1 /\ LineStart(t, Len(t) + 1) = Len(t)
  BY <1>2, <1>4, <1>5, LinedMore
<1>7. s \o <<Newline>> = t
  BY <1>2, AppendedOne
<1> HIDE DEF t, l
<1>8. Table(t, Level(p, n + 1, 0))
  BY <1>2, <1>6 DEF Table, Level
<1> QED BY <1>7, <1>8

\* The header, piece by piece.
LEMMA HeadPieces ==
    ASSUME Len(attributes) \in Nat
    PROVE  LET w == 2 * Len(attributes) + 1
           IN /\ Listed(CsvHead) /\ Len(CsvHead) = w + 1
              /\ \A i \in 1..w : IF i % 2 = 0 THEN CsvHead[i] = Comma
                                 ELSE \E what : CsvHead[i] = Value(NoNode, what)
              /\ CsvHead[w + 1] = Newline
<1> DEFINE k == Len(attributes)
           w == 2 * k + 1
           a == <<Value(NoNode, <<"executable_name">>)>>
           b == [i \in 1..k |-> Value(NoNode, <<attributes[i]>>)]
           names == a \o b
           row == [i \in 1..(2 * Len(names) - 1) |->
                     IF i % 2 = 1 THEN names[(i + 1) \div 2] ELSE Comma]
           end == <<Newline>>
<1>1. /\ Listed(a) /\ Len(a) = 1 /\ a[1] = Value(NoNode, <<"executable_name">>)
      /\ Listed(end) /\ Len(end) = 1 /\ end[1] = Newline
  <2>1. a \in Seq({a[1]}) /\ end \in Seq({Newline})
    OBVIOUS
  <2> QED BY <2>1, SeqIsListed
<1>2. Listed(b) /\ Len(b) = k
  <2>1. DOMAIN b = 1..k /\ b = [i \in 1..k |-> b[i]]
    OBVIOUS
  <2> HIDE DEF b
  <2> QED BY <2>1, FunctionIsListed
<1>3. \A i \in 1..k : b[i] = Value(NoNode, <<attributes[i]>>)
  OBVIOUS
<1> HIDE DEF a, b, end
<1>4. /\ Len(names) = k + 1
      /\ \A i \in 1..(k + 1) : names[i] = IF i <= 1 THEN a[i] ELSE b[i - 1]
  <2>1. /\ Len(names) = Len(a) + Len(b)
        /\ \A i \in 1..(Len(a) + Len(b)) : names[i] = IF i <= Len(a) THEN a[i] ELSE b[i - Len(a)]
    BY <1>1, <1>2, ListedConcat
  <2>2. 1 + k = k + 1
    OBVIOUS
  <2> QED BY <1>1, <1>2, <2>1, <2>2
<1>5. ASSUME NEW i \in 1..(k + 1) PROVE \E what : names[i] = Value(NoNode, what)
  <2>1. CASE i = 1
    BY <1>1, <1>4, <2>1
  <2>2. CASE i # 1
    <3>1. i - 1 \in 1..k /\ ~(i <= 1)
      BY <2>2
    <3>2. names[i] = b[i - 1]
      BY <1>4, <3>1
    <3> QED BY <1>3, <3>1, <3>2
  <2> QED BY <2>1, <2>2
<1> HIDE DEF names
<1>6. /\ DOMAIN row = 1..w /\ row = [i \in 1..w |-> row[i]]
      /\ \A i \in 1..w : row[i] = IF i % 2 = 1 THEN names[(i + 1) \div 2] ELSE Comma
  <2>1. 2 * Len(names) - 1 = w
    BY <1>4
  <2> QED BY <2>1
<1>7. w \in Nat
  OBVIOUS
<1> HIDE DEF row
<1>8. Listed(row) /\ Len(row) = w
  BY <1>6, <1>7, FunctionIsListed
<1>9. CsvHead = row \o end
  BY DEF CsvHead, row, names, a, b, end
<1>10. /\ Listed(CsvHead) /\ Len(CsvHead) = w + 1
       /\ \A i \in 1..(w + 1) : CsvHead[i] = IF i <= w THEN row[i] ELSE end[i - w]
  <2> HIDE DEF w
  <2> QED BY ZenonT(60), <1>1, <1>8, <1>9, ListedConcat
<1>11. CsvHead[w + 1] = Newline
  <2> HIDE DEF w
  <2> DEFINE x == w + 1
  <2>1. x \in 1..x /\ ~(x <= w) /\ x - w = 1
    BY <1>7
  <2>2. \A i \in 1..x : CsvHead[i] = IF i <= w THEN row[i] ELSE end[i - w]
    BY <1>10
  <2> HIDE DEF x
  <2>3. CsvHead[x] = end[x - w]
    BY <2>1, <2>2
  <2> QED BY <1>1, <2>1, <2>3 DEF x
<1>12. ASSUME NEW i \in 1..w
       PROVE  IF i % 2 = 0 THEN CsvHead[i] = Comma
              ELSE \E what : CsvHead[i] = Value(NoNode, what)
  <2>1. CsvHead[i] = row[i]
    <3> HIDE DEF w
    <3>1. i \in 1..(w + 1) /\ i <= w
      BY <1>7
    <3> QED BY <1>10, <3>1
  <2>2. CASE i % 2 = 0
    <3>1. i % 2 # 1
      BY <2>2
    <3> QED BY <1>6, <2>1, <2>2, <3>1
  <2>3. CASE i % 2 # 0
    <3>1. i % 2 = 1 /\ (i + 1) \div 2 \in 1..(k + 1)
      BY <2>3
    <3>2. row[i] = names[(i + 1) \div 2]
      BY <1>6, <3>1
    <3> QED BY <1>5, <2>1, <2>3, <3>1, <3>2
  <2> QED BY <2>2, <2>3
<1> QED BY <1>10, <1>11, <1>12

LEMMA TableHead ==
    ASSUME Len(attributes) \in Nat
    PROVE  Table(CsvHead, Level(0, 1, 0))
<1> DEFINE w == 2 * Len(attributes) + 1
           s == CsvHead
<1>1. /\ Listed(s) /\ Len(s) = w + 1
      /\ \A i \in 1..w : IF i % 2 = 0 THEN s[i] = Comma
                         ELSE \E what : s[i] = Value(NoNode, what)
      /\ s[w + 1] = Newline
  BY HeadPieces
<1>2. w \in Nat
  OBVIOUS
<1> HIDE DEF s
<1>3. \A i \in 1..w : s[i] # Newline /\ (s[i] = Comma <=> i % 2 = 0)
  <2> HIDE DEF w
  <2> QED BY <1>1, TableMarks
<1>4. Columns(s, 0) = w
  BY DEF Columns
<1> HIDE DEF w
<1>5. ASSUME NEW i \in 1..(w + 1) PROVE LineStart(s, i) = 0
  <2>1. i \in Nat \ {0} /\ 0 \in 0..(i - 1) /\ ~(0 > 0)
    BY <1>2
  <2>2. \A j \in 1..(i - 1) : j \in 1..w
    BY <1>2
  <2> QED BY <1>3, <2>1, <2>2, LineStartIs
<1>6. ASSUME NEW i \in 1..(w + 1)
      PROVE  LET b == LineStart(s, i)
             IN /\ s[i] = Newline => i - b = Columns(s, b) + 1
                /\ s[i] # Newline => (s[i] = Comma <=> (i - b) % 2 = 0)
  <2>1. LineStart(s, i) = 0 /\ i - 0 = i /\ (i \in 1..w \/ i = w + 1)
    BY <1>2, <1>5
  <2> QED BY <1>1, <1>2, <1>3, <1>4, <2>1
<1>7. Lined(s)
  BY <1>1, <1>6 DEF Lined
<1>8. LineStart(s, Len(s) + 1) = Len(s)
  <2>1. /\ w + 2 \in Nat \ {0} /\ w + 1 \in 0..(w + 2 - 1)
        /\ \A j \in 1..(w + 2 - 1) : j <= w + 1
        /\ w + 1 + 1 = w + 2
    BY <1>2
  <2>2. LineStart(s, w + 2) = w + 1
    BY <1>1, <2>1, LineStartIs
  <2> QED BY <1>1, <2>1, <2>2
<1>9. Table(s, Level(0, 1, 0))
  BY <1>1, <1>2, <1>7, <1>8 DEF Table, Level
<1> QED BY <1>9 DEF s

-----------------------------------------------------------------------------
(* Each call writes what leads to the next level.                          *)

\* The report s stands at c, with the context of its printer.
Stands(s, c, subindex, previous) ==
    /\ subindex \in Nat
    /\ Complete(s, c, subindex)
    /\ c.next = 0 => s = <<>>
    /\ format = "csv" => Table(s, c) /\ (previous <=> c.values > 0)
    /\ format = "html" => Nested(s, c.open)

LEMMA PlainPieces ==
    ASSUME NEW c \in Levels, c.next > 0
    PROVE  /\ IsPlain(Comma, c) /\ IsPlain(Newline, c)
           /\ IsPlain(Div, c) /\ IsPlain(EndDiv, c)
           /\ \A n, b : n \in Nat /\ n + 1 = c.next =>
                IsPlain(Value(n, <<"arguments">>), c) /\ IsPlain(Value(n, <<"executed", b>>), c)
<1>1. c.next \in Nat
  BY DEF Levels
<1>2. \A what : Mark(what).kind = "mark" /\ Mark(what).node = 0
  BY DEF Mark, NoNode
<1>3. \A what : IsPlain(Mark(what), c)
  BY <1>1, <1>2 DEF IsPlain, IsValueOf, NoNode
<1>4. ASSUME NEW n \in Nat, n + 1 = c.next, NEW v, v.kind = "value", v.node = n,
             v.what[1] \in {"arguments", "executed"}
      PROVE  IsPlain(v, c)
  BY <1>1, <1>4 DEF IsPlain, IsValueOf, Attributes
<1>5. ASSUME NEW n \in Nat, n + 1 = c.next, NEW b
      PROVE  IsPlain(Value(n, <<"arguments">>), c) /\ IsPlain(Value(n, <<"executed", b>>), c)
  <2>1. \A what : Value(n, what).kind = "value" /\ Value(n, what).node = n
                  /\ Value(n, what).what = what
    BY DEF Value
  <2>2. <<"arguments">>[1] = "arguments" /\ <<"executed", b>>[1] = "executed"
    OBVIOUS
  <2> QED BY <1>4, <1>5, <2>1, <2>2
<1> QED BY <1>3, <1>5 DEF Comma, Newline, Div, EndDiv

\* Before the first row.
LEMMA CompleteHead ==
    ASSUME IsTree(tree), NEW s, Listed(s), NEW k \in 0..1,
           \A i \in 1..Len(s) : s[i].kind # "executable" /\ s[i].node = NoNode /\ k = 1
    PROVE  Complete(s, Level(0, k, 0), 1)
<1> DEFINE c == Level(0, k, 0)
<1>1. c.next = k /\ c.values = 0
  BY DEF Level
<1> HIDE DEF c
<1>2. NoNode \notin Executables /\ \A n \in Executables : n \in Nat /\ n >= k /\ n >= 1
  BY TreeFacts DEF Nodes
<1>3. Len(s) \in Nat /\ \A e : Len(AtPlaces(s, {})) = 0
  <2>1. {} \in SUBSET (1..Len(s)) /\ Cardinality({}) = 0
    BY FS_EmptySet
  <2>2. \A e : Listed(AtPlaces(s, {})) /\ Len(AtPlaces(s, {})) = Cardinality({})
                 /\ AtPlaces(Append(s, e), {}) = AtPlaces(s, {})
    BY <2>1, AtPlacesMore
  <2> QED BY <2>1, <2>2, ListedIsFunction
<1>4. Len(RowsOf(s)) = 0
  <2>1. {i \in 1..Len(s) : s[i].kind = "executable"} = {}
    OBVIOUS
  <2> QED BY <1>3, <2>1 DEF RowsOf
<1>5. ASSUME NEW n \in Executables PROVE Len(ValuesOf(s, n)) = 0
  <2>1. {i \in 1..Len(s) : s[i].kind = "value" /\ s[i].node = n /\ s[i].what[1] \in Attributes} = {}
    BY <1>2
  <2> QED BY <1>3, <2>1 DEF ValuesOf
<1>6. RowsBefore(k) = {} /\ \A n \in Executables : Filled(n, c) = 0
  BY <1>1, <1>2 DEF RowsBefore, Filled
<1>7. Cardinality(RowsBefore(k)) = 0 /\ 1..0 = {}
  BY <1>6, FS_EmptySet
<1>8. \A i \in 1..Len(s) : s[i].node \in Nat /\ s[i].node < k
  BY DEF NoNode
<1>9. Complete(s, c, 1)
  BY <1>1, <1>4, <1>5, <1>6, <1>7, <1>8 DEF Complete
<1> QED BY <1>9 DEF c

LEMMA StandsAtStart ==
    ASSUME IsTree(tree)
    PROVE  Stands(<<>>, Level(0, 0, 0), 1, FALSE)
<1> DEFINE s == <<>>
           c == Level(0, 0, 0)
<1>1. Len(s) = 0 /\ 1..0 = {} /\ \A S : s \in Seq(S)
  OBVIOUS
<1>2. c.open = 0 /\ c.next = 0 /\ c.values = 0
  BY DEF Level
<1>3. Listed(s)
  BY <1>1 DEF Listed
<1> HIDE DEF s
<1>4. Complete(s, c, 1)
  BY <1>1, <1>3, CompleteHead
<1>5. Nested(s, 0)
  <2>1. \A x : CountOf(s, 0, x) = 0
    BY <1>1, FS_EmptySet DEF CountOf
  <2> QED BY <1>1, <1>3, <2>1 DEF Nested, OpenAt
<1>6. Table(s, c)
  <2>1. LineStart(s, 1) = 0
    <3>1. 1 \in Nat \ {0} /\ 0 \in 0..(1 - 1) /\ 1..(1 - 1) = {}
      OBVIOUS
    <3> QED BY <3>1, LineStartIs
  <2>2. Lined(s)
    BY <1>1, <1>3 DEF Lined
  <2> QED BY <1>1, <1>2, <2>1, <2>2 DEF Table
<1> HIDE DEF c
<1>7. Stands(s, c, 1, FALSE)
  BY <1>2, <1>4, <1>5, <1>6 DEF Stands, s
<1> QED BY <1>7 DEF s, c

\* print_head()
LEMMA HeadStands ==
    ASSUME IsTree(tree), Len(attributes) \in Nat, NEW s, NEW x, NEW p,
           Stands(s, Level(0, 0, 0), x, p)
    PROVE  Stands(IF format = "csv" THEN s \o CsvHead ELSE s, Level(0, 1, 0), x, p)
<1> DEFINE b == Level(0, 0, 0)
           c == Level(0, 1, 0)
           w == 2 * Len(attributes) + 1
<1>1. /\ b.open = 0 /\ b.next = 0 /\ b.values = 0
      /\ c.open = 0 /\ c.next = 1 /\ c.values = 0
      /\ b \in Levels /\ c \in Levels
  BY DEF Level, Levels
<1>2. s = <<>> /\ Complete(s, b, x) /\ x \in Nat
  BY <1>1 DEF Stands
<1>3. CASE format = "csv"
  <2>1. /\ Listed(CsvHead) /\ Len(CsvHead) = w + 1
        /\ \A i \in 1..w : IF i % 2 = 0 THEN CsvHead[i] = Comma
                           ELSE \E what : CsvHead[i] = Value(NoNode, what)
        /\ CsvHead[w + 1] = Newline
    BY HeadPieces
  <2>2. \A i \in 1..(w + 1) : i \in 1..w \/ i = w + 1
    OBVIOUS
  <2> HIDE DEF w
  <2>3. \A what : Value(NoNode, what).kind = "value" /\ Value(NoNode, what).node = NoNode
    BY DEF Value
  <2>4. \A i \in 1..Len(CsvHead) : CsvHead[i].kind # "executable" /\ CsvHead[i].node = NoNode
    BY <2>1, <2>2, <2>3, TableMarks
  <2>5. Complete(CsvHead, c, 1)
    BY <2>1, <2>4, CompleteHead
  <2>6. Complete(CsvHead, c, x)
    BY <1>3, <2>5 DEF Complete
  <2>7. s \o CsvHead = CsvHead
    <3>1. CsvHead \in Seq({CsvHead[i] : i \in 1..Len(CsvHead)})
      BY <2>1 DEF Listed
    <3> QED BY <1>2, <3>1, ConcatEmptySeq
  <2>8. Table(CsvHead, c)
    BY TableHead
  <2>9. p <=> c.values > 0
    BY <1>1, <1>3 DEF Stands
  <2> HIDE DEF c
  <2>10. Stands(CsvHead, c, x, p)
    BY <1>1, <1>2, <1>3, <2>6, <2>8, <2>9 DEF Stands
  <2> QED BY <1>3, <2>7, <2>10 DEF c
<1>4. CASE format # "csv"
  <2>1. \A n \in Executables : n \in Nat /\ n >= 0 /\ n >= 1
    BY TreeFacts DEF Nodes
  <2>2. RowsBefore(1) = RowsBefore(0)
    BY <2>1 DEF RowsBefore
  <2>3. \A n \in Executables : Filled(n, c) = Filled(n, b)
    BY <1>1, <2>1 DEF Filled
  <2> HIDE DEF b, c
  <2>4. Complete(s, c, x)
    BY <1>1, <1>2, <2>2, <2>3, CompleteOn
  <2>5. Stands(s, b, x, p)
    BY DEF b
  <2>6. Stands(s, c, x, p)
    BY <1>1, <1>4, <2>4, <2>5 DEF Stands
  <2> QED BY <1>4, <2>6 DEF c
<1> QED BY <1>3, <1>4

\* enter_operand_node(), exit_operand_node(), print_foot(): pieces of no executable,
\* after which the same one comes next.
LEMMA CompleteMarks ==
    ASSUME NEW s, NEW c \in Levels, NEW x, c.next > 0, Complete(s, c, x)
    PROVE  /\ Complete(s \o <<Newline>>, c, x)
           /\ Complete(s \o <<Newline, Newline, Newline>>, c, x)
           /\ Complete(s \o <<Div, Div>>, c, x)
           /\ Complete(s \o <<EndDiv>>, c, x)
           /\ Complete(s \o <<EndDiv, EndDiv>>, c, x)
<1>1. Listed(s)
  BY DEF Complete
<1>2. \A e \in {Newline, Div, EndDiv} : IsPlain(e, c)
  BY PlainPieces
<1>3. ASSUME NEW e \in {Newline, Div, EndDiv}
      PROVE  /\ Complete(Append(s, e), c, x)
             /\ Complete(Append(Append(s, e), e), c, x)
             /\ Complete(Append(Append(Append(s, e), e), e), c, x)
  BY <1>2, CompletePlain
<1>4. ASSUME NEW e
      PROVE  /\ s \o <<e>> = Append(s, e)
             /\ s \o <<e, e>> = Append(Append(s, e), e)
             /\ s \o <<e, e, e>> = Append(Append(Append(s, e), e), e)
  BY <1>1, Appends
<1> QED BY <1>3, <1>4

LEMMA EnterStands ==
    ASSUME IsTree(tree), NEW n \in Nodes \ Executables, NEW s, NEW x, NEW p,
           NEW d \in Nat, Stands(s, Level(d, n, 0), x, p)
    PROVE  Stands(IF format = "html" THEN s \o <<Div, Div>> ELSE s,
                  Level(d + 2, n + 1, 0), x, p)
<1> DEFINE b == Level(d, n, 0)
           c == Level(d + 2, n + 1, 0)
           t == IF format = "html" THEN s \o <<Div, Div>> ELSE s
<1>1. n \in Nat /\ n > 0 /\ \A m \in Executables : m \in Nat /\ m # n
  BY TreeFacts DEF Nodes
<1>2. /\ b.open = d /\ b.next = n /\ b.values = 0
      /\ c.open = d + 2 /\ c.next = n + 1 /\ c.values = 0
      /\ b \in Levels /\ c \in Levels
  BY <1>1 DEF Level, Levels
<1>3. Stands(s, b, x, p)
  OBVIOUS
<1> HIDE DEF b, c, t
<1>4. Complete(t, b, x)
  <2>1. Complete(s, b, x)
    BY <1>3 DEF Stands
  <2>2. Complete(s \o <<Div, Div>>, b, x)
    BY <1>1, <1>2, <2>1, CompleteMarks
  <2> QED BY <2>1, <2>2 DEF t
<1>5. Complete(t, c, x)
  <2>1. n <= n + 1 /\ n + 1 # 0
    BY <1>1
  <2>2. RowsBefore(n + 1) = RowsBefore(n)
    BY <1>1, RowsBeforeFacts
  <2>3. ASSUME NEW m \in Executables PROVE Filled(m, c) = Filled(m, b)
    <3>1. m >= n <=> m >= n + 1
      BY <1>1
    <3>2. ~(0 > 0)
      OBVIOUS
    <3> QED BY <1>2, <3>1, <3>2 DEF Filled
  <2> QED BY <1>2, <1>4, <2>1, <2>2, <2>3, CompleteOn
<1>6. format = "csv" => Table(t, c) /\ (p <=> c.values > 0)
  <2> SUFFICES ASSUME format = "csv" PROVE Table(t, c) /\ (p <=> c.values > 0)
    OBVIOUS
  <2>1. t = s /\ Table(s, b) /\ (p <=> b.values > 0)
    BY <1>3 DEF Stands, t
  <2>2. n # 0 /\ n + 1 # 0
    BY <1>1
  <2> QED BY <1>2, <2>1, <2>2 DEF Table
<1>7. format = "html" => Nested(t, c.open)
  BY <1>2, <1>3, NestedPieces DEF Stands, t
<1>8. c.next # 0 /\ x \in Nat
  BY <1>1, <1>2, <1>3 DEF Stands
<1>9. Stands(t, c, x, p)
  BY <1>5, <1>6, <1>7, <1>8 DEF Stands
<1> QED BY <1>9 DEF t, c

LEMMA ExitStands ==
    ASSUME NEW n \in Nat, n > 0, NEW s, NEW x, NEW p, NEW d \in Nat,
           Stands(s, Level(d + 2, n, 0), x, p)
    PROVE  Stands(IF format = "html" THEN s \o <<EndDiv, EndDiv>> ELSE s,
                  Level(d, n, 0), x, p)
<1> DEFINE b == Level(d + 2, n, 0)
           c == Level(d, n, 0)
           t == IF format = "html" THEN s \o <<EndDiv, EndDiv>> ELSE s
<1>1. /\ b.open = d + 2 /\ b.next = n /\ b.values = 0
      /\ c.open = d /\ c.next = n /\ c.values = 0
      /\ b \in Levels /\ c \in Levels
  BY DEF Level, Levels
<1>2. Stands(s, b, x, p)
  OBVIOUS
<1> HIDE DEF b, c, t
<1>3. Complete(t, b, x)
  <2>1. Complete(s, b, x)
    BY <1>2 DEF Stands
  <2>2. Complete(s \o <<EndDiv, EndDiv>>, b, x)
    BY <1>1, <2>1, CompleteMarks
  <2> QED BY <2>1, <2>2 DEF t
<1>4. Complete(t, c, x)
  <2>1. \A m \in Executables : Filled(m, c) = Filled(m, b)
    BY <1>1 DEF Filled
  <2> QED BY <1>1, <1>3, <2>1, CompleteOn
<1>5. format = "csv" => Table(t, c) /\ (p <=> c.values > 0)
  <2> SUFFICES ASSUME format = "csv" PROVE Table(t, c) /\ (p <=> c.values > 0)
    OBVIOUS
  <2>1. t = s /\ Table(s, b) /\ (p <=> b.values > 0)
    BY <1>2 DEF Stands, t
  <2> QED BY <1>1, <2>1 DEF Table
<1>6. format = "html" => Nested(t, c.open)
  <2> DEFINE e == d + 2
  <2>1. e \in Nat /\ e > 1 /\ e - 2 = d /\ b.open = e
    BY <1>1
  <2> HIDE DEF e
  <2>2. ASSUME Nested(s, e) PROVE Nested(s \o <<EndDiv, EndDiv>>, e - 2)
    BY <2>1, <2>2, NestedPieces
  <2> QED BY <1>1, <1>2, <2>1, <2>2 DEF Stands, t
<1>7. c.next # 0 /\ x \in Nat
  BY <1>1, <1>2 DEF Stands
<1>8. Stands(t, c, x, p)
  BY <1>4, <1>5, <1>6, <1>7 DEF Stands
<1> QED BY <1>8 DEF t, c

LEMMA FootStands ==
    ASSUME NEW n \in Nat, n > 0, NEW s, NEW x, NEW p, Stands(s, Level(0, n, 0), x, p)
    PROVE  Stands(IF format = "txt" THEN s \o <<Newline, Newline, Newline>> ELSE s,
                  Level(0, n, 0), x, p)
<1> DEFINE c == Level(0, n, 0)
           t == s \o <<Newline, Newline, Newline>>
<1>1. c.next = n /\ c \in Levels
  BY DEF Level, Levels
<1> HIDE DEF c
<1>2. Complete(t, c, x)
  BY <1>1, CompleteMarks DEF Stands, c
<1> HIDE DEF t
<1>3. ASSUME format = "txt" PROVE Stands(t, c, x, p)
  BY <1>1, <1>2, <1>3 DEF Stands, c
<1> QED BY <1>3 DEF c, t

LEMMA CsvValueIs ==
    ASSUME NEW v
    PROVE  CsvValue(v) = IF previous_value THEN <<Comma, v>> ELSE <<v>>
<1>1. Listed(<<>>)
  <2>1. \A S : <<>> \in Seq(S)
    OBVIOUS
  <2> QED BY <2>1, SeqIsListed
<1>2. ASSUME NEW y PROVE <<>> \o <<y>> = <<y>> /\ <<>> \o <<y>> = Append(<<>>, y)
  <2>1. <<y>> \in Seq({y})
    OBVIOUS
  <2> QED BY <1>1, <2>1, ConcatEmptySeq, AppendedOne
<1>3. <<>> \o <<Comma, v>> = <<Comma, v>>
  <2>1. <<Comma, v>> \in Seq({Comma, v})
    OBVIOUS
  <2> QED BY <2>1, ConcatEmptySeq
<1>4. <<>> \o <<Comma, v>> = Append(Append(<<>>, Comma), v)
  BY <1>1, AppendedTwo
<1>5. Listed(<<Comma>>)
  BY <1>1, <1>2, ListedAppend
<1>6. <<Comma>> \o <<v>> = Append(<<Comma>>, v)
  BY <1>5, AppendedOne
<1>7. <<Comma>> = Append(<<>>, Comma)
  BY <1>2
<1> QED BY <1>2, <1>3, <1>4, <1>6, <1>7 DEF CsvValue

\* executable_head() and executed_to_string()
LEMMA RowStands ==
    ASSUME IsTree(tree), NEW n \in Executables, n = Head(agenda).node, ExecutableHead,
           NEW d \in Nat, d = 2 * DepthOf(n), attributes \in Seq(Attributes),
           Stands(report, Level(d, n, 0), command_subindex, previous_value)
    PROVE  Stands(report', Level(d + 1, n + 1, 1), command_subindex', previous_value')
<1> DEFINE b == Level(d, n, 0)
           c == Level(d + 1, n + 1, 1)
           e == Row(n)
           s == report
           x == command_subindex
<1>1. n \in Nat /\ n > 0 /\ n + 1 > 0 /\ n + 1 # 0
  BY TreeFacts DEF Nodes
<1>2. /\ b.open = d /\ b.next = n /\ b.values = 0
      /\ c.open = d + 1 /\ c.next = n + 1 /\ c.values = 1
      /\ b \in Levels /\ c \in Levels
  BY SMTT(60), <1>1 DEF Level, Levels
<1>3. Stands(s, b, x, previous_value)
  OBVIOUS
<1>4. e.kind = "executable" /\ e.node = n /\ e.what = <<x>>
  BY DEF Row
<1>5. Complete(s, b, x) /\ x \in Nat /\ Listed(s) /\ x + 1 \in Nat
  <2>1. Complete(s, b, x) /\ x \in Nat
    BY <1>3 DEF Stands
  <2>2. Listed(s)
    BY <2>1 DEF Complete
  <2>3. x + 1 \in Nat
    BY <2>1
  <2> QED BY <2>1, <2>2, <2>3
<1>6. \A y : (format = "txt" => y = x + 1) => Complete(Append(s, e), c, y)
  <2> HIDE DEF e, x, s
  <2> QED BY <1>4, <1>5, CompleteRow
<1>7. ASSUME NEW y, NEW t, Complete(t, c, y)
      PROVE  /\ Complete(Append(t, Div), c, y) /\ Complete(Append(t, EndDiv), c, y)
             /\ Complete(Append(t, Newline), c, y)
             /\ \A a : Complete(Append(t, Value(n, <<"arguments">>)), c, y)
                       /\ Complete(Append(t, Value(n, <<"executed", a>>)), c, y)
  <2> HIDE DEF c
  <2>1. /\ IsPlain(Div, c) /\ IsPlain(EndDiv, c) /\ IsPlain(Newline, c)
        /\ \A a : IsPlain(Value(n, <<"arguments">>), c) /\ IsPlain(Value(n, <<"executed", a>>), c)
    BY <1>1, <1>2, PlainPieces
  <2> QED BY <1>2, <1>7, <2>1, CompletePlain
<1> HIDE DEF b, c, e
<1>8. CASE format = "txt"
  <2>1. /\ report' = s \o <<e, Newline>> /\ command_subindex' = x + 1
    BY <1>8 DEF ExecutableHead, TxtExecutableHead, e
  <2>2. s \o <<e, Newline>> = Append(Append(s, e), Newline)
    BY <1>5, AppendedTwo
  <2>3. Complete(report', c, x + 1)
    BY <1>6, <1>7, <2>1, <2>2
  <2>4. Stands(report', c, command_subindex', previous_value')
    BY <1>1, <1>2, <1>5, <1>8, <2>1, <2>3 DEF Stands
  <2> QED BY <2>4 DEF c
<1>9. CASE format = "csv"
  <2>1. /\ report' = s \o CsvValue(e) /\ command_subindex' = x /\ previous_value' = TRUE
    BY <1>9 DEF ExecutableHead, CsvExecutableHead, e
  <2>2. ~previous_value /\ Table(s, b)
    <3>1. Table(s, b) /\ (previous_value <=> b.values > 0)
      BY <1>3, <1>9 DEF Stands
    <3> QED BY <1>2, <3>1
  <2>3. report' = s \o <<e>>
    BY <2>1, <2>2, CsvValueIs
  <2>4. Complete(report', c, x)
    BY <1>5, <1>6, <1>9, <2>3, AppendedOne
  <2>5. Table(report', c)
    BY <1>1, <2>2, <2>3, TableRow DEF b, c, e
  <2>6. Stands(report', c, command_subindex', previous_value')
    BY <1>1, <1>2, <1>5, <1>9, <2>1, <2>4, <2>5 DEF Stands
  <2> QED BY <2>6 DEF c
<1>10. CASE format = "html"
  <2> DEFINE v == Value(n, <<"arguments">>)
             w == Value(n, <<"executed", n \in executed>>)
             named == s \o <<Div, e, Div, v, EndDiv>>
  <2>1. report' = named \o <<Div, w, EndDiv>> /\ command_subindex' = x
    BY <1>10 DEF ExecutableHead, HtmlExecutableHead, e
  <2>2. Nested(s, d)
    BY <1>2, <1>3, <1>10 DEF Stands
  <2>3. Nested(report', d + 1)
    <3>1. Nested(named, d + 1)
      BY <2>2, NestedPieces DEF e
    <3>2. d + 1 \in Nat
      OBVIOUS
    <3> HIDE DEF named
    <3>3. Nested(named \o <<Div, w, EndDiv>>, d + 1)
      BY <3>1, <3>2, NestedPieces
    <3> QED BY <2>1, <3>3
  <2>4. Complete(Append(s, Div), b, x)
    BY <1>1, <1>2, <1>5, PlainPieces, CompletePlain
  <2>5. Complete(Append(Append(s, Div), e), c, x)
    <3> HIDE DEF x, s
    <3> QED BY <1>4, <1>5, <1>10, <2>4, CompleteRow DEF b, c
  <2> DEFINE t == Append(Append(Append(s, Div), e), Div)
  <2>6. Complete(t, c, x) /\ Listed(t)
    <3>1. Complete(t, c, x)
      BY <1>7, <2>5
    <3> QED BY <3>1 DEF Complete
  <2>7. t = s \o <<Div, e, Div>>
    BY SMTT(60), <1>5, Appends
  <2>8. named = t \o <<v, EndDiv>>
    <3> HIDE DEF s, v
    <3>1. Listed(s)
      BY <1>5
    <3>2. \A f, g, h, i, j : s \o <<f, g, h, i, j>> = (s \o <<f, g, h>>) \o <<i, j>>
      BY SMTT(60), <3>1, FiveAppended
    <3>3. s \o <<Div, e, Div, v, EndDiv>> = (s \o <<Div, e, Div>>) \o <<v, EndDiv>>
      BY SMTT(60), <3>2
    <3> QED BY <2>7, <3>3
  <2> HIDE DEF t, named
  <2>13. Complete(named, c, x) /\ Listed(named)
    <3>1. named = Append(Append(t, v), EndDiv)
      BY <2>6, <2>8, AppendedTwo
    <3>2. Complete(Append(t, v), c, x)
      BY <1>7, <2>6
    <3>3. Complete(Append(Append(t, v), EndDiv), c, x)
      <4> DEFINE u == Append(t, v)
      <4>1. Complete(u, c, x)
        BY <3>2
      <4> HIDE DEF u
      <4>2. Complete(Append(u, EndDiv), c, x)
        BY <1>7, <4>1
      <4> QED BY <4>2 DEF u
    <3>4. Complete(named, c, x)
      BY <3>1, <3>3
    <3> QED BY <3>4 DEF Complete
  <2>9. Complete(named \o <<Div, w, EndDiv>>, c, x)
    <3>1. named \o <<Div, w, EndDiv>> = Append(Append(Append(named, Div), w), EndDiv)
      BY SMTT(60), <2>13, Appends
    <3> QED BY <1>7, <2>13, <3>1
  <2>10. Stands(report', c, command_subindex', previous_value')
    BY <1>1, <1>2, <1>5, <1>10, <2>1, <2>3, <2>9 DEF Stands
  <2> QED BY <2>10 DEF c
<1> QED BY <1>8, <1>9, <1>10 DEF ExecutableHead

\* pid_to_string(), exit_code_to_string(), ...
LEMMA AttributeStands ==
    ASSUME IsTree(tree), NEW n \in Executables \cap executed, n = Head(agenda).node,
           PrintAttribute, NEW d \in Nat, attributes \in Seq(Attributes),
           NEW k \in 1..Len(attributes), Head(agenda).attribute = attributes[k],
           Stands(report, Level(d, n + 1, k), command_subindex, previous_value)
    PROVE  Stands(report', Level(d, n + 1, k + 1), command_subindex', previous_value')
<1> DEFINE b == Level(d, n + 1, k)
           c == Level(d, n + 1, k + 1)
           e == AttributeValue(n, attributes[k])
           s == report
           x == command_subindex
<1>1. n \in Nat /\ n + 1 > 0 /\ n + 1 # 0 /\ k \in Nat /\ k > 0 /\ k + 1 > 0 /\ k + 1 \in Nat
  BY TreeFacts DEF Nodes
<1>2. /\ b.open = d /\ b.next = n + 1 /\ b.values = k
      /\ c.open = d /\ c.next = n + 1 /\ c.values = k + 1
      /\ b \in Levels /\ c \in Levels
  <2>1. n + 1 \in Nat
    BY <1>1
  <2> QED BY <1>1, <2>1 DEF Level, Levels
<1>3. Stands(s, b, x, previous_value)
  OBVIOUS
<1>4. e.kind = "value" /\ e.node = n /\ e.what[1] = attributes[k] /\ \E what : e = Value(n, what)
  BY DEF AttributeValue, Value
<1>5. Complete(s, b, x) /\ x \in Nat /\ Listed(s)
  BY <1>3 DEF Stands, Complete
<1>6. \A t : Complete(t, b, x) => Complete(Append(t, e), c, x)
  <2> HIDE DEF e, x
  <2> QED BY <1>4, CompleteValue
<1>7. ASSUME NEW t, NEW g \in {b, c}, Complete(t, g, x)
      PROVE  /\ Complete(Append(t, Div), g, x) /\ Complete(Append(t, EndDiv), g, x)
             /\ Complete(Append(t, Newline), g, x) /\ Complete(Append(t, Comma), g, x)
  <2>1. g \in Levels /\ g.next > 0
    BY <1>1, <1>2
  <2> HIDE DEF b, c
  <2>2. IsPlain(Div, g) /\ IsPlain(EndDiv, g) /\ IsPlain(Newline, g) /\ IsPlain(Comma, g)
    BY <2>1, PlainPieces
  <2> QED BY <1>7, <2>1, <2>2, CompletePlain
<1>8. command_subindex' = x
  BY DEF PrintAttribute
<1> HIDE DEF b, c, e
<1>9. CASE format = "txt"
  <2>1. report' = s \o <<e, Newline>>
    BY <1>9 DEF PrintAttribute, TxtAttribute, e
  <2>2. s \o <<e, Newline>> = Append(Append(s, e), Newline)
    BY <1>5, AppendedTwo
  <2>3. Complete(report', c, x)
    BY <1>5, <1>6, <1>7, <2>1, <2>2
  <2>4. Stands(report', c, command_subindex', previous_value')
    BY <1>1, <1>2, <1>5, <1>8, <1>9, <2>3 DEF Stands
  <2> QED BY <2>4 DEF c
<1>10. CASE format = "csv"
  <2>1. /\ report' = s \o CsvValue(e) /\ previous_value' = TRUE
    BY <1>10 DEF PrintAttribute, CsvAttribute, e
  <2>2. previous_value /\ Table(s, b)
    <3>1. Table(s, b) /\ (previous_value <=> b.values > 0)
      BY <1>3, <1>10 DEF Stands
    <3> QED BY <1>1, <1>2, <3>1
  <2>3. report' = s \o <<Comma, e>>
    BY <2>1, <2>2, CsvValueIs
  <2>4. Complete(report', c, x)
    <3>1. s \o <<Comma, e>> = Append(Append(s, Comma), e)
      BY <1>5, AppendedTwo
    <3> QED BY <1>5, <1>6, <1>7, <2>3, <3>1
  <2>5. Table(report', c)
    <3>1. e \notin {Comma, Newline}
      BY <1>4, TableMarks
    <3> QED BY <1>1, <2>2, <2>3, <3>1, TableValue DEF b, c
  <2>6. Stands(report', c, command_subindex', previous_value')
    BY SMTT(60), <1>1, <1>2, <1>5, <1>8, <1>10, <2>1, <2>4, <2>5 DEF Stands
  <2> QED BY <2>6 DEF c
<1>11. CASE format = "html"
  <2>1. report' = s \o <<Div, e, EndDiv>> \/ report' = s \o <<e>>
    BY <1>11 DEF PrintAttribute, HtmlAttribute, e
  <2>2. Nested(s, d)
    BY <1>2, <1>3, <1>11 DEF Stands
  <2>3. Nested(report', d)
    BY <1>4, <2>1, <2>2, NestedPieces
  <2>4. Complete(report', c, x)
    <3>1. /\ s \o <<Div, e, EndDiv>> = Append(Append(Append(s, Div), e), EndDiv)
          /\ s \o <<e>> = Append(s, e)
      BY SMTT(60), <1>5, Appends, AppendedOne
    <3> QED BY <1>5, <1>6, <1>7, <2>1, <3>1
  <2>5. Stands(report', c, command_subindex', previous_value')
    BY <1>1, <1>2, <1>5, <1>8, <1>11, <2>3, <2>4 DEF Stands
  <2> QED BY <2>5 DEF c
<1> QED BY <1>9, <1>10, <1>11 DEF PrintAttribute

\* executable_foot()
LEMMA RowEnds ==
    ASSUME IsTree(tree), NEW n \in Executables, n = Head(agenda).node, ExecutableFoot,
           NEW d \in Nat, attributes \in Seq(Attributes), format \in Formats,
           Stands(report, Level(d + 1, n + 1, Width(n)), command_subindex, previous_value)
    PROVE  Stands(report', Level(d, n + 1, 0), command_subindex', previous_value')
<1> DEFINE k == Width(n)
           b == Level(d + 1, n + 1, k)
           c == Level(d, n + 1, 0)
           s == report
           x == command_subindex
           t == IF format = "html" THEN s \o <<EndDiv>> ELSE s \o <<Newline>>
<1>1. /\ n \in Nat /\ n + 1 > 0 /\ n + 1 # 0 /\ n + 1 \in Nat /\ d + 1 \in Nat
      /\ \A m \in Executables : m \in Nat
      /\ Len(attributes) \in Nat
  BY TreeFacts, LenProperties DEF Nodes
<1>2. k \in Nat /\ k > 0 /\ (n \in executed => k - 1 = Len(attributes))
  BY <1>1 DEF Width
<1>3. /\ b.open = d + 1 /\ b.next = n + 1 /\ b.values = k
      /\ c.open = d /\ c.next = n + 1 /\ c.values = 0
      /\ b \in Levels /\ c \in Levels
  <2> HIDE DEF k
  <2> QED BY <1>1, <1>2 DEF Level, Levels
<1>4. Stands(s, b, x, previous_value)
  OBVIOUS
<1>5. /\ report' = t /\ command_subindex' = x
      /\ format = "csv" => previous_value' = FALSE
  BY DEF ExecutableFoot
<1> HIDE DEF b, c, k
<1>6. Complete(s, b, x) /\ x \in Nat
  BY <1>4 DEF Stands
<1>7. Complete(t, b, x)
  BY <1>1, <1>3, <1>6, CompleteMarks
<1>8. Complete(t, c, x)
  <2>1. ASSUME NEW m \in Executables PROVE Filled(m, c) = Filled(m, b)
    <3>1. CASE m = n
      <4>1. ~(n >= n + 1) /\ ~(0 > 0)
        BY <1>1
      <4> QED BY <1>2, <1>3, <3>1, <4>1 DEF Filled
    <3>2. CASE m # n
      <4>1. m + 1 # n + 1
        BY <1>1, <3>2
      <4> QED BY <1>3, <4>1 DEF Filled
    <3> QED BY <3>1, <3>2
  <2>2. n + 1 <= n + 1
    BY <1>1
  <2> HIDE DEF t
  <2> QED BY <1>3, <1>7, <2>1, <2>2, CompleteOn
<1>9. format = "csv" => Table(t, c)
  <2>1. ASSUME format = "csv" PROVE Table(s \o <<Newline>>, Level(d, n + 1, 0))
    <3>1. Table(s, Level(d + 1, n + 1, Width(n)))
      BY <1>4, <2>1 DEF Stands, b, k
    <3> QED BY <1>1, <3>1, TableFoot
  <2> QED BY <2>1 DEF c
<1>10. format = "html" => Nested(t, c.open)
  <2> DEFINE e == d + 1
  <2>1. e \in Nat /\ e > 0 /\ e - 1 = d /\ b.open = e
    BY <1>3
  <2> HIDE DEF e
  <2>2. ASSUME Nested(s, e) PROVE Nested(s \o <<EndDiv>>, e - 1)
    BY <2>1, <2>2, NestedPieces
  <2> QED BY <1>3, <1>4, <2>1, <2>2 DEF Stands
<1>11. Stands(t, c, x, previous_value')
  <2> HIDE DEF t
  <2>1. format = "csv" => (previous_value' <=> c.values > 0)
    BY <1>3, <1>5
  <2> QED BY <1>1, <1>3, <1>6, <1>8, <1>9, <1>10, <2>1 DEF Stands
<1> QED BY <1>5, <1>11 DEF c

\* One call of print_results(): it is due where the report stands, and the report then
\* stands where it leads.
LEMMA CallStands ==
    ASSUME IsTree(tree), attributes \in Seq(Attributes), format \in Formats, Printing,
           NEW b, NEW z, Chain(agenda, b, z),
           Stands(report, b, command_subindex, previous_value)
    PROVE  \E c : /\ Chain(agenda', c, z)
                  /\ Stands(report', c, command_subindex', previous_value')
<1> DEFINE a == Head(agenda)
           n == a.node
           d == 2 * DepthOf(n)
<1>1. PICK e : Leads(a, b, e) /\ Chain(Tail(agenda), e, z)
  BY ChainTail DEF Printing
<1>2. Len(attributes) \in Nat
  BY LenProperties
<1>3. n \in Nodes => n \in Nat /\ n > 0 /\ d \in Nat /\ d + 1 \in Nat /\ End(n) + 1 \in Nat
                     /\ End(n) + 1 > 0
  <2>1. ASSUME n \in Nodes PROVE DepthOf(n) \in Nat /\ End(n) \in Nat /\ n \in Nat /\ n > 0
    BY <2>1, DepthUnfolds, EndFacts, TreeFacts DEF Nodes
  <2> QED BY <2>1
<1>4. Executables \subseteq Nodes
  BY DEF Executables
<1> HIDE DEF d
<1>5. CASE PrintNode
  <2> DEFINE calls == IF tree.type[n] = "Executable" THEN ExecutableCalls(n)
                      ELSE OperandCalls(n)
  <2>1. /\ a.call = "node" /\ agenda' = calls \o Tail(agenda) /\ report' = report
        /\ command_subindex' = command_subindex /\ previous_value' = previous_value
    BY <1>5 DEF PrintNode
  <2>2. Chain(calls, b, e)
    BY <1>1, <1>2, <2>1, NodeChain
  <2> HIDE DEF calls
  <2>3. Chain(agenda', b, z)
    BY <1>1, <2>1, <2>2, ChainConcat
  <2> QED BY <2>1, <2>3
<1>6. CASE PrintHead
  <2>1. /\ a.call = "head" /\ agenda' = Tail(agenda)
        /\ report' = IF format = "csv" THEN report \o CsvHead ELSE report
        /\ command_subindex' = command_subindex /\ previous_value' = previous_value
    BY <1>6 DEF PrintHead
  <2>2. b = Level(0, 0, 0) /\ e = Level(0, 1, 0)
    BY <1>1, <2>1 DEF Leads
  <2> QED BY <1>1, <1>2, <2>1, <2>2, HeadStands
<1>7. CASE PrintFoot
  <2>1. /\ a.call = "foot" /\ agenda' = Tail(agenda)
        /\ report' = IF format = "txt" THEN report \o <<Newline, Newline, Newline>>
                     ELSE report
        /\ command_subindex' = command_subindex /\ previous_value' = previous_value
    BY <1>7 DEF PrintFoot
  <2>2. b = Level(0, tree.size + 1, 0) /\ e = b
    BY <1>1, <2>1 DEF Leads
  <2>3. tree.size + 1 \in Nat /\ tree.size + 1 > 0
    BY DEF IsTree
  <2> QED BY <1>1, <2>1, <2>2, <2>3, FootStands
<1>8. CASE EnterOperandNode
  <2>1. /\ a.call = "enter_operand_node" /\ agenda' = Tail(agenda)
        /\ report' = IF format = "html" THEN report \o <<Div, Div>> ELSE report
        /\ command_subindex' = command_subindex /\ previous_value' = previous_value
    BY <1>8 DEF EnterOperandNode
  <2>2. n \in Nodes \ Executables /\ b = Level(d, n, 0) /\ e = Level(d + 2, n + 1, 0)
    BY <1>1, <2>1 DEF Leads, d
  <2> QED BY <1>1, <1>3, <2>1, <2>2, EnterStands
<1>9. CASE ExitOperandNode
  <2>1. /\ a.call = "exit_operand_node" /\ agenda' = Tail(agenda)
        /\ report' = IF format = "html" THEN report \o <<EndDiv, EndDiv>> ELSE report
        /\ command_subindex' = command_subindex /\ previous_value' = previous_value
    BY <1>9 DEF ExitOperandNode
  <2> DEFINE x == End(n) + 1
  <2>2. n \in Nodes /\ b = Level(d + 2, x, 0) /\ e = Level(d, x, 0)
    BY <1>1, <2>1 DEF Leads, d
  <2>3. x \in Nat /\ x > 0 /\ d \in Nat
    BY <1>3, <2>2
  <2> HIDE DEF x
  <2> QED BY <1>1, <2>1, <2>2, <2>3, ExitStands
<1>10. CASE ExecutableHead
  <2>1. a.call = "executable_head" /\ agenda' = Tail(agenda)
    BY <1>10 DEF ExecutableHead
  <2>2. n \in Executables /\ b = Level(d, n, 0) /\ e = Level(d + 1, n + 1, 1)
    BY <1>1, <2>1 DEF Leads, d
  <2>3. d \in Nat /\ d = 2 * DepthOf(n)
    BY <1>3, <1>4, <2>2 DEF d
  <2>4. Stands(report', e, command_subindex', previous_value')
    BY <1>10, <2>2, <2>3, RowStands
  <2> QED BY <1>1, <2>1, <2>4
<1>11. CASE PrintAttribute
  <2>1. a.call = "attribute" /\ agenda' = Tail(agenda)
    BY <1>11 DEF PrintAttribute
  <2> DEFINE o == d + 1
  <2>2. n \in Executables \cap executed
    BY <1>1, <2>1 DEF Leads
  <2>3. PICK k \in 1..Len(attributes) :
          a.attribute = attributes[k] /\ b = Level(o, n + 1, k) /\ e = Level(o, n + 1, k + 1)
    BY <1>1, <2>1 DEF Leads, d
  <2>4. o \in Nat
    BY <1>3, <1>4, <2>2
  <2> HIDE DEF o
  <2>5. Stands(report', e, command_subindex', previous_value')
    BY <1>11, <2>2, <2>3, <2>4, AttributeStands
  <2> QED BY <1>1, <2>1, <2>5
<1>12. CASE ExecutableFoot
  <2>1. a.call = "executable_foot" /\ agenda' = Tail(agenda)
    BY <1>12 DEF ExecutableFoot
  <2>2. /\ n \in Executables
        /\ b = Level(d + 1, n + 1, Width(n)) /\ e = Level(d, n + 1, 0)
    BY <1>1, <2>1 DEF Leads, d
  <2>3. d \in Nat
    BY <1>3, <1>4, <2>2
  <2>4. Stands(report', e, command_subindex', previous_value')
    BY <1>12, <2>2, <2>3, RowEnds
  <2> QED BY <1>1, <2>1, <2>4
<1> QED BY <1>5, <1>6, <1>7, <1>8, <1>9, <1>10, <1>11, <1>12 DEF Printing

\* The same after a step.
LEMMA StandsKept ==
    ASSUME tree' = tree, executed' = executed, attributes' = attributes, format' = format,
           NEW c, Stands(report', c, command_subindex', previous_value')
    PROVE  Stands(report, c, command_subindex, previous_value)'
<1>1. Nodes' = Nodes /\ Executables' = Executables
  BY DEF Nodes, Executables
<1>2. Comma' = Comma /\ Newline' = Newline
  BY DEF Comma, Newline, Mark
<1>3. \A k : RowsBefore(k)' = RowsBefore(k)
  BY <1>1 DEF RowsBefore
<1>4. \A n : Filled(n, c)' = Filled(n, c)
  BY DEF Filled
<1>5. RowsOf(report)' = RowsOf(report')
      /\ \A n : ValuesOf(report, n)' = ValuesOf(report', n)
  BY DEF RowsOf, ValuesOf, AtPlaces, Attributes
<1>6. Complete(report', c, command_subindex') => Complete(report, c, command_subindex)'
  BY <1>1, <1>3, <1>4, <1>5 DEF Complete, Listed
<1>7. Table(report', c) => Table(report, c)'
  <2>1. \A i : LineStart(report, i)' = LineStart(report', i)
    BY <1>2 DEF LineStart
  <2>2. \A b : Columns(report, b)' = Columns(report', b)
    BY DEF Columns
  <2> QED BY <1>2, <2>1, <2>2 DEF Table, Lined, Listed
<1>8. Nested(report', c.open) => Nested(report, c.open)'
  BY NestedKept
<1> QED BY <1>6, <1>7, <1>8 DEF Stands

-----------------------------------------------------------------------------
(* The whole report.                                                       *)

IsEnd(e) == e = Level(0, tree.size + 1, 0)

\* What is written and the calls still to be made fit, and they lead to the end of the tree.
Fits ==
    \E c, e : /\ IsEnd(e) /\ Chain(agenda, c, e)
              /\ Stands(report, c, command_subindex, previous_value)

\* What StartReport leaves.
Begun ==
    /\ IsTree(tree)
    /\ agenda = <<Call("head", NoNode), Call("node", 1), Call("foot", NoNode)>>
    /\ report = <<>> /\ command_subindex = 1 /\ previous_value = FALSE

LEMMA BegunFits == Begun => Fits
<1> SUFFICES ASSUME Begun PROVE Fits
  OBVIOUS
<1>1. Chain(agenda, Level(0, 0, 0), Level(0, tree.size + 1, 0))
  BY WholeChain DEF Begun
<1>2. Stands(report, Level(0, 0, 0), command_subindex, previous_value)
  BY StandsAtStart DEF Begun
<1> QED BY <1>1, <1>2 DEF Fits, IsEnd

LEMMA BegunFitsNext == Begun' => Fits'
BY BegunFits, PTL

\* While the results are printed, report and agenda fit; when the tool has ended, the
\* report stands at the end of the tree.
PrintingInv ==
    /\ stage = "printing" \/ Finished =>
         /\ IsTree(tree) /\ format \in Formats
         /\ attributes = ParsedAttributes(arguments.log_options)
    /\ stage = "printing" => Fits
    /\ Finished =>
         \E e : IsEnd(e) /\ Stands(report, e, command_subindex, previous_value)

LEMMA PrintingStep ==
    ASSUME Inv, PrintingInv, [Next]_vars
    PROVE  PrintingInv'
<1>1. ASSUME tree' = tree, NEW e, IsEnd(e) PROVE IsEnd(e)'
  BY <1>1 DEF IsEnd, Level
<1>2. CASE UNCHANGED vars
  <2>1. /\ stage' = stage /\ tree' = tree /\ format' = format /\ agenda' = agenda
        /\ report' = report /\ executed' = executed /\ attributes' = attributes
        /\ command_subindex' = command_subindex /\ previous_value' = previous_value
        /\ arguments' = arguments
    BY <1>2 DEF vars, parserVars, builtinVars, reportVars, mainVars
  <2>2. ASSUME NEW c, NEW e, Chain(agenda, c, e) PROVE Chain(agenda, c, e)'
    BY <2>1, <2>2, ChainKept
  <2>3. ASSUME NEW c, Stands(report, c, command_subindex, previous_value)
        PROVE  Stands(report, c, command_subindex, previous_value)'
    BY <2>1, <2>3, StandsKept
  <2>4. /\ Finished' = Finished /\ (IsTree(tree) => IsTree(tree)')
        /\ ParsedAttributes(arguments.log_options)' = ParsedAttributes(arguments.log_options)
    BY <2>1 DEF Finished
  <2> QED BY <1>1, <2>1, <2>2, <2>3, <2>4 DEF PrintingInv, Fits
<1>3. CASE Run
  <2>1. /\ stage = "executing" /\ tree' = tree /\ report' = report /\ format' = format
        /\ arguments' = arguments /\ stage' \in {"exited", "printing"}
    BY <1>3 DEF Run, Exits, builtinVars
  <2>2. IsTree(tree) /\ report = <<>>
    BY <2>1 DEF Inv, BuiltTreeIsTree, ProgressInv, Early
  <2>3. ~Finished'
    BY <2>1, <2>2 DEF Finished
  <2>4. ASSUME stage' = "printing"
        PROVE  /\ IsTree(tree)' /\ (format \in Formats)'
               /\ (attributes = ParsedAttributes(arguments.log_options))'
               /\ Fits'
    <3>1. format \in Formats /\ StartReport(arguments.log_options)
      BY <1>3, <2>4 DEF Run, Exits
    <3>2. /\ attributes' = ParsedAttributes(arguments.log_options)
          /\ command_subindex' = 1 /\ previous_value' = FALSE
          /\ agenda' = <<Call("head", NoNode), Call("node", 1), Call("foot", NoNode)>>
      BY <3>1 DEF StartReport
    <3>3. IsTree(tree)' /\ (format \in Formats)'
      BY <2>1, <2>2, <3>1 DEF Formats
    <3>4. (attributes = ParsedAttributes(arguments.log_options))'
      BY <2>1, <3>2
    <3>5. Begun'
      BY <2>1, <2>2, <3>2, <3>3 DEF Begun, Call, NoNode
    <3> QED BY <3>3, <3>4, <3>5, BegunFitsNext
  <2> QED BY <2>3, <2>4 DEF PrintingInv
<1>4. CASE PrintResults
  <2>1. /\ stage = "printing" /\ stage' = stage /\ tree' = tree /\ format' = format
        /\ executed' = executed /\ attributes' = attributes /\ arguments' = arguments
        /\ Printing
    BY <1>4 DEF PrintResults, Printing, parserVars, builtinVars, mainVars
  <2>2. /\ IsTree(tree) /\ format \in Formats
        /\ attributes = ParsedAttributes(arguments.log_options)
        /\ attributes \in Seq(Attributes)
    BY <2>1 DEF PrintingInv, Inv, TypeInv
  <2>3. PICK c, e : /\ IsEnd(e) /\ Chain(agenda, c, e)
                    /\ Stands(report, c, command_subindex, previous_value)
    BY <2>1 DEF PrintingInv, Fits
  <2>4. PICK d : /\ Chain(agenda', d, e)
                 /\ Stands(report', d, command_subindex', previous_value')
    BY <2>1, <2>2, <2>3, CallStands
  <2>5. Chain(agenda, d, e)' /\ Stands(report, d, command_subindex, previous_value)'
    BY <2>1, <2>4, ChainKept, StandsKept
  <2>6. IsTree(tree)' /\ (format \in Formats)'
        /\ (attributes = ParsedAttributes(arguments.log_options))'
    BY <2>1, <2>2 DEF Formats
  <2>7. IsEnd(e)' /\ ~Finished'
    BY <1>1, <2>1, <2>3 DEF Finished
  <2> QED BY <2>1, <2>5, <2>6, <2>7 DEF PrintingInv, Fits
<1>5. CASE Return
  <2>1. /\ stage = "printing" /\ stage' = "exited" /\ tree' = tree /\ format' = format
        /\ report' = report /\ agenda = <<>> /\ executed' = executed
        /\ attributes' = attributes /\ arguments' = arguments
        /\ command_subindex' = command_subindex /\ previous_value' = previous_value
    BY <1>5 DEF Return, Exits, builtinVars, reportVars
  <2>2. PICK c, e : /\ IsEnd(e) /\ Chain(agenda, c, e)
                    /\ Stands(report, c, command_subindex, previous_value)
    BY <2>1 DEF PrintingInv, Fits
  <2>3. c = e
    <3>1. Len(<<>>) = 0
      OBVIOUS
    <3> QED BY <2>1, <2>2, <3>1 DEF Chain
  <2>4. IsEnd(e)' /\ Stands(report, e, command_subindex, previous_value)'
    BY <1>1, <2>1, <2>2, <2>3, StandsKept
  <2>5. IsTree(tree)' /\ (format \in Formats)'
        /\ (attributes = ParsedAttributes(arguments.log_options))'
    BY <2>1 DEF Formats, PrintingInv
  <2> QED BY <2>1, <2>4, <2>5 DEF PrintingInv
<1>6. CASE ParseOption \/ TakeCommand \/ PrintHelp \/ StopDaemon \/ StartDaemon
  <2>1. /\ stage \in {"arguments", "starting"} /\ stage' # "printing" /\ report' = report
    BY <1>6 DEF ParseOption, TakeCommand, PrintHelp, StopDaemon, StartDaemon, Exits, reportVars
  <2>2. report = <<>>
    BY <2>1 DEF Inv, ProgressInv, Early
  <2> QED BY <2>1, <2>2 DEF PrintingInv, Finished
<1>7. CASE CreateTreeFromString
  <2>1. CreateNode => stage' # "printing" /\ stage' # "exited"
    <3>1. CreateNode => stage = "parsing" /\ (stage' = stage \/ stage' = "failed")
      <4>1. CreateNode => stage = "parsing"
        BY DEF CreateNode
      <4> QED BY <4>1, NodeCreated DEF Inv
    <3> QED BY <3>1
  <2>2. stage' # "printing" /\ stage' # "exited"
    BY <1>7, <2>1 DEF CreateTreeFromString, ParsingEnds, ApplyBuiltin, ApplyCd, WireRedirects
  <2> QED BY <2>2 DEF PrintingInv, Finished
<1> QED BY <1>2, <1>3, <1>4, <1>5, <1>6, <1>7 DEF Next

THEOREM DivsAreNested == Spec => []DivsNest
<1>1. Init => PrintingInv
  BY DEF Init, PrintingInv, Finished
<1>2. Inv /\ PrintingInv /\ [Next]_vars => PrintingInv'
  BY PrintingStep
<1>3. PrintingInv => DivsNest
  <2> SUFFICES ASSUME Finished, format = "html", PrintingInv PROVE DivsNest
    BY DEF DivsNest
  <2>1. Nested(report, 0)
    BY DEF PrintingInv, Stands, IsEnd, Level
  <2>2. \A i : OpenAt(report, i)
                 = Cardinality({j \in 1..i : report[j] = Div})
                     - Cardinality({j \in 1..i : report[j] = EndDiv})
    BY DEF OpenAt, CountOf
  <2> QED BY <2>1, <2>2 DEF DivsNest, Nested, DepthOf
<1> QED BY <1>1, <1>2, <1>3, InvAlways, PTL DEF Spec

LEMMA PrintingInvAlways == Spec => [](Inv /\ PrintingInv)
<1>1. Init => PrintingInv
  BY DEF Init, PrintingInv, Finished
<1>2. Inv /\ PrintingInv /\ [Next]_vars => PrintingInv'
  BY PrintingStep
<1> QED BY <1>1, <1>2, InvAlways, PTL DEF Spec

\* The attributes are those of the options that are keywords, in order.
LEMMA AskedAttributes ==
    ASSUME Inv, attributes = ParsedAttributes(arguments.log_options)
    PROVE  LET o == arguments.log_options
           IN attributes = AtPlaces(o, {i \in 1..Len(o) : o[i] \in Attributes})
<1> DEFINE o == arguments.log_options
           S == {i \in 1..Len(o) : o[i] \in Attributes}
<1>1. Len(o) \in Nat
  BY LenProperties DEF Inv, TypeInv, Texts
<1>2. IsFiniteSet(1..Len(o))
  BY <1>1, FS_Interval
<1>3. S \in SUBSET (1..Len(o)) /\ S \in SUBSET Nat
  OBVIOUS
<1>4. attributes = [k \in 1..Len(Ascending(S)) |-> o[Ascending(S)[k]]]
  BY DEF ParsedAttributes
<1> HIDE DEF S
<1>5. IsFiniteSet(S)
  BY <1>2, <1>3, FS_Subset
<1>6. Len(Ascending(S)) = Cardinality(S)
  <2>1. Cardinality(S) \in Nat /\ Ascending(S) \in [1..Cardinality(S) -> S]
    BY <1>3, <1>5, AscendingFacts
  <2>2. Ascending(S) \in Seq(S) /\ DOMAIN Ascending(S) = 1..Cardinality(S)
    BY <2>1
  <2> QED BY <2>1, <2>2, LenProperties
<1>7. attributes = AtPlaces(o, S)
  BY <1>4, <1>6 DEF AtPlaces
<1> QED BY <1>7 DEF S, o

LEMMA WholeReport ==
    ASSUME Inv, PrintingInv, Finished
    PROVE  ReportComplete
<1> DEFINE s == report
           rows == RowsOf(s)
           l == Len(attributes)
           o == arguments.log_options
           asked == AtPlaces(o, {i \in 1..Len(o) : o[i] \in Attributes})
<1>1. IsTree(tree) /\ attributes = asked /\ l \in Nat
  BY AskedAttributes, LenProperties DEF PrintingInv, Inv, TypeInv
<1>2. PICK e : e = Level(0, tree.size + 1, 0) /\ Complete(s, e, command_subindex)
  BY DEF PrintingInv, Stands, IsEnd
<1>3. \A n \in Executables : n \in Nat /\ n < tree.size + 1 /\ tree.size \in Nat
  BY <1>1, TreeFacts DEF Nodes, IsTree
<1>4. e.next = tree.size + 1 /\ e.values = 0 /\ RowsBefore(e.next) = Executables
  BY <1>2, <1>3 DEF Level, RowsBefore
<1>5. Listed(rows) /\ Listed(s) /\ \A n : Listed(ValuesOf(s, n))
  BY <1>2, RowsMore, ValuesMore DEF Complete
<1>6. [i \in 1..Len(rows) |-> rows[i].node] = Ascending(Executables)
  <2>1. /\ Len(rows) = Cardinality(Executables)
        /\ \A i \in 1..Len(rows) : rows[i].node = Ascending(Executables)[i]
    BY <1>2, <1>4 DEF Complete
  <2> DEFINE g == Ascending(Executables)
  <2>2. g = [i \in 1..Cardinality(Executables) |-> g[i]]
    BY SMTT(60) DEF Ascending
  <2> HIDE DEF g, rows
  <2> QED BY <2>1, <2>2 DEF g
<1>7. ASSUME NEW n \in Executables
      PROVE  [i \in 1..Len(ValuesOf(s, n)) |-> ValuesOf(s, n)[i].what[1]]
               = IF n \in executed THEN attributes ELSE <<>>
  <2> DEFINE v == ValuesOf(s, n)
             f == Filled(n, e)
  <2>1. Len(v) = f /\ \A i \in 1..f : v[i].what[1] = attributes[i]
    BY <1>2 DEF Complete
  <2>2. f = IF n \in executed THEN l ELSE 0
    <3>1. ~(n >= e.next) /\ ~(e.values > 0)
      BY <1>3, <1>4
    <3> QED BY <3>1 DEF Filled
  <2>3. attributes = [i \in 1..l |-> attributes[i]]
    <3>1. attributes \in Seq(Attributes)
      BY DEF Inv, TypeInv
    <3> QED BY <3>1, LenProperties
  <2> HIDE DEF v, f, l
  <2>4. CASE n \in executed
    BY <2>1, <2>2, <2>3, <2>4 DEF v
  <2>5. CASE n \notin executed
    <3>1. [i \in 1..Len(v) |-> v[i].what[1]] = <<>>
      <4>1. Len(v) = 0 /\ 1..0 = {}
        BY <2>1, <2>2, <2>5
      <4>2. [i \in 1..0 |-> v[i].what[1]] = <<>>
        OBVIOUS
      <4> QED BY <4>1, <4>2
    <3> QED BY <2>5, <3>1 DEF v
  <2> QED BY <2>4, <2>5
<1>8. /\ format = "txt" => \A i \in 1..Len(rows) : rows[i].what = <<i>>
      /\ \A i, j \in 1..Len(s) : i < j /\ s[j].node # NoNode => s[i].node <= s[j].node
  BY <1>2 DEF Complete
<1>9. \A n \in Executables :
        [i \in 1..Len(ValuesOf(s, n)) |-> ValuesOf(s, n)[i].what[1]]
          = IF n \in executed THEN asked ELSE <<>>
  <2> HIDE DEF asked
  <2> QED BY <1>1, <1>7
<1> QED BY <1>6, <1>8, <1>9 DEF ReportComplete

\* print_results() writes every executable of the command once, in order, numbered in
\* text, each with the attributes asked for if it was executed, unmixed with others:
\* whatever the tree, the options and the format.
THEOREM ReportIsComplete == Spec => []ReportComplete
<1>1. Inv /\ PrintingInv => ReportComplete
  <2>1. ~Finished => ReportComplete
    BY DEF ReportComplete
  <2> QED BY <2>1, WholeReport
<1> QED BY <1>1, PrintingInvAlways, PTL

LineEnds == {i \in 0..Len(report) : i > 0 => report[i] = Newline}

\* The pieces between two successive ends of lines.
LEMMA LinesOfTable ==
    ASSUME Lined(report), NEW k \in 1..(Cardinality(LineEnds) - 1),
           Len(attributes) \in Nat
    PROVE  LET a == Ascending(LineEnds)[k]
               line == SubSeq(report, a + 1, Ascending(LineEnds)[k + 1] - 1)
           IN /\ a \in Nat /\ (k = 1 <=> a = 0)
              /\ Len(line) = Columns(report, a)
              /\ line[1] = report[a + 1]
              /\ \A i \in 1..Len(line) : line[i] = Comma <=> i % 2 = 0
<1> DEFINE s == report
           l == Len(s)
           E == LineEnds
           K == Cardinality(E)
           g == Ascending(E)
           a == g[k]
           z == g[k + 1]
           w == Columns(s, a)
           line == SubSeq(s, a + 1, z - 1)
<1>1. Listed(s) /\ l \in Nat
  BY ListedIsFunction DEF Lined
<1>2. /\ E \in SUBSET (0..l) /\ E \in SUBSET Nat /\ 0 \in E
      /\ \A i \in 1..l : i \in E <=> s[i] = Newline
  BY <1>1 DEF LineEnds
<1>3. IsFiniteSet(E)
  <2>1. IsFiniteSet(0..l)
    BY <1>1, FS_Interval
  <2> QED BY <1>2, <2>1, FS_Subset
<1> HIDE DEF E
<1>4. /\ K \in Nat
      /\ \A i \in 1..K : g[i] \in E /\ g[i] \in Nat
      /\ \A m \in E : \E i \in 1..K : g[i] = m
  <2>1. /\ K \in Nat /\ g \in [1..K -> E]
        /\ \A m \in E : \E i \in 1..K : g[i] = m
    BY <1>2, <1>3, AscendingFacts
  <2> QED BY <1>2, <2>1
<1>5. \A i, j \in 1..K : i < j => g[i] < g[j]
  BY <1>2, <1>3, AscendingOrder
<1>6. k \in 1..(K - 1)
  BY DEF E
<1> HIDE DEF g, K
<1>7. k \in 1..K /\ k + 1 \in 1..K /\ 1 \in 1..K
  BY <1>4, <1>6
<1>8. a \in Nat /\ z \in Nat /\ a < z /\ a \in E /\ z \in E
  <2>1. k < k + 1
    BY <1>7
  <2> QED BY <1>4, <1>5, <1>7, <2>1
<1>9. k = 1 <=> a = 0
  <2>1. PICK j \in 1..K : g[j] = 0
    BY <1>2, <1>4
  <2>2. j = 1
    <3>1. 1 < j => g[1] < g[j]
      BY <1>5, <1>7
    <3>2. g[1] \in Nat
      BY <1>4, <1>7
    <3> QED BY <2>1, <3>1, <3>2
  <2>3. k > 1 => g[1] < a
    BY <1>5, <1>7
  <2> QED BY <1>7, <1>8, <2>1, <2>2, <2>3
<1>10. ASSUME NEW m \in E, a < m, m < z PROVE FALSE
  <2>1. PICK j \in 1..K : g[j] = m
    BY <1>4
  <2>2. m \in Nat /\ (j < k \/ j = k \/ j = k + 1 \/ k + 1 < j)
    BY <1>2, <1>7
  <2>3. /\ j < k => m < a
        /\ k + 1 < j => z < m
    BY <1>5, <1>7, <2>1
  <2> QED BY <1>8, <1>10, <2>1, <2>2, <2>3
<1> HIDE DEF a, z
<1>11. z \in 1..l /\ s[z] = Newline /\ a \in 0..l
  BY <1>1, <1>2, <1>8
<1>12. ASSUME NEW i \in 1..l, a < i, i <= z PROVE LineStart(s, i) = a
  <2>1. i \in Nat \ {0} /\ a \in 0..(i - 1)
    BY <1>8, <1>12
  <2>2. a > 0 => s[a] = Newline
    <3>1. a > 0 => a \in 1..l
      BY <1>11
    <3> QED BY <1>2, <1>8, <3>1
  <2>3. ASSUME NEW j \in 1..(i - 1), s[j] = Newline PROVE j <= a
    <3>1. j \in 1..l /\ j < z
      BY <1>1, <1>8, <1>12
    <3>2. j \in E
      BY <1>2, <2>3, <3>1
    <3> QED BY <1>8, <1>10, <3>1, <3>2
  <2> QED BY <2>1, <2>2, <2>3, LineStartIs
<1>13. w \in Nat /\ w > 0
  BY DEF Columns
<1> HIDE DEF w, s
<1>14. \A i \in 1..l :
         LET b == LineStart(s, i)
         IN /\ s[i] = Newline => i - b = Columns(s, b) + 1
            /\ s[i] # Newline => (s[i] = Comma <=> (i - b) % 2 = 0)
  BY DEF Lined, s
<1>15. z = a + w + 1
  <2>1. LineStart(s, z) = a
    BY <1>8, <1>11, <1>12
  <2>2. z - a = w + 1
    BY <1>11, <1>14, <2>1 DEF w
  <2> QED BY <1>8, <1>13, <2>2
<1>16. Len(line) = w /\ \A i \in 1..w : line[i] = s[a + i]
  <2> DEFINE p == a + 1
             q == z - 1
             S == {s[i] : i \in p..q}
  <2>1. /\ p \in Int /\ q \in Int /\ p <= q /\ q - p + 1 = w
        /\ \A i \in 1..w : p + i - 1 = a + i
    BY <1>8, <1>13, <1>15
  <2>2. \A i \in p..q : s[i] \in S
    OBVIOUS
  <2>3. line = SubSeq(s, p, q)
    OBVIOUS
  <2> HIDE DEF p, q, S, line
  <2>4. /\ Len(SubSeq(s, p, q)) = IF p <= q THEN q - p + 1 ELSE 0
        /\ \A i \in 1..(q - p + 1) : SubSeq(s, p, q)[i] = s[p + i - 1]
    BY <2>1, <2>2, SubSeqProperties
  <2> QED BY <2>1, <2>3, <2>4
<1> HIDE DEF line
<1>17. ASSUME NEW i \in 1..w PROVE line[i] = Comma <=> i % 2 = 0
  <2> DEFINE j == a + i
  <2>1. j \in 1..l /\ a < j /\ j < z /\ j - a = i
    BY <1>1, <1>8, <1>11, <1>13, <1>15
  <2> HIDE DEF j
  <2>2. LineStart(s, j) = a
    BY <1>8, <1>12, <2>1
  <2>3. s[j] # Newline
    BY <1>2, <1>10, <2>1
  <2>4. s[j] = Comma <=> (j - a) % 2 = 0
    BY <1>14, <2>1, <2>2, <2>3
  <2>5. line[i] = s[j]
    BY <1>16 DEF j
  <2> QED BY <2>1, <2>4, <2>5
<1>18. line[1] = s[a + 1]
  <2>1. 1 \in 1..w
    BY <1>13
  <2> QED BY <1>16, <2>1
<1> QED BY <1>8, <1>9, <1>16, <1>17, <1>18 DEF E, g, a, z, w, s, line

\* The lines of a table of a command are regular: values and commas alternate in each, and
\* it has the columns of the header if its command was executed, and one if it was not.
THEOREM RowsFitHeader == Spec => []RowsMatchHeader
<1>1. ASSUME Inv, PrintingInv PROVE RowsMatchHeader
  <2> SUFFICES ASSUME Finished, format = "csv" PROVE RowsMatchHeader
    BY DEF RowsMatchHeader
  <2> DEFINE g == Ascending(LineEnds)
             K == Cardinality(LineEnds)
             Line(k) == SubSeq(report, g[k] + 1, g[k + 1] - 1)
  <2>1. Lined(report) /\ Len(attributes) \in Nat
    BY <1>1, LenProperties DEF PrintingInv, Stands, Table, Inv, TypeInv
  <2>2. \A k \in 1..(K - 1) :
          /\ g[k] \in Nat /\ (k = 1 <=> g[k] = 0)
          /\ Len(Line(k)) = Columns(report, g[k])
          /\ Line(k)[1] = report[g[k] + 1]
          /\ \A i \in 1..Len(Line(k)) : Line(k)[i] = Comma <=> i % 2 = 0
    BY <2>1, LinesOfTable
  <2>3. Len(g) = K /\ K \in Nat
    <3>1. IsFiniteSet(0..Len(report)) /\ Len(report) \in Nat
      <4>1. Len(report) \in Nat
        BY <2>1, ListedIsFunction DEF Lined
      <4> QED BY <4>1, FS_Interval
    <3>2. LineEnds \in SUBSET (0..Len(report)) /\ LineEnds \in SUBSET Nat
      BY <3>1 DEF LineEnds
    <3>3. IsFiniteSet(LineEnds)
      BY <3>1, <3>2, FS_Subset
    <3>4. K \in Nat /\ g \in [1..K -> LineEnds]
      BY <3>2, <3>3, AscendingFacts
    <3>5. g \in Seq(LineEnds) /\ DOMAIN g = 1..K
      BY <3>4
    <3> QED BY <3>4, <3>5, LenProperties
  <2> HIDE DEF g, K, Line
  <2>4. ASSUME NEW k \in 1..(K - 1)
        PROVE  Len(Line(k)) = IF k = 1 \/ Line(k)[1].node \in executed
                                THEN Len(Line(1)) ELSE 1
    <3>1. 1 \in 1..(K - 1)
      BY <2>3
    <3>2. Len(Line(1)) = 2 * Len(attributes) + 1
      BY <2>2, <3>1 DEF Columns
    <3>3. k = 1 <=> g[k] = 0
      BY <2>2
    <3> QED BY <2>2, <3>2, <3>3 DEF Columns
  <2>5. \A k \in 1..(Len(g) - 1) :
          /\ \A i \in 1..Len(Line(k)) : (Line(k)[i] = Comma) <=> (i % 2 = 0)
          /\ Len(Line(k)) = IF k = 1 \/ Line(k)[1].node \in executed
                              THEN Len(Line(1)) ELSE 1
    BY <2>2, <2>3, <2>4
  <2> QED BY <2>5 DEF RowsMatchHeader, g, Line, LineEnds
<1> QED BY <1>1, PrintingInvAlways, PTL
=============================================================================
