----------------------------- MODULE TreeProofs -----------------------------
(***************************************************************************)
(* Lemmas about the trees of CommandTree, which the proofs about execution *)
(* and about descriptors share.                                            *)
(***************************************************************************)
EXTENDS CommandTree, FiniteSetTheorems, FunctionTheorems, WellFoundedInduction, TLAPS

\* First() picks the least element of a set of node numbers.
LEMMA FirstIsLeast ==
    ASSUME NEW S \in SUBSET Nat, S # {}
    PROVE  First(S) \in S /\ \A m \in S : First(S) <= m
<1> DEFINE R == OpToRel(<, Nat)
<1>1. \A x, y \in Nat : y < x => <<y, x>> \in R
  BY DEF OpToRel
<1> HIDE DEF R
<1>2. PICK x \in S : \A y \in S : <<y, x>> \notin R
  BY NatLessThanWellFounded, WFMin DEF R
<1>3. \A y \in S : x <= y
  <2> SUFFICES ASSUME NEW y \in S PROVE x <= y
    OBVIOUS
  <2>1. x \in Nat /\ y \in Nat
    OBVIOUS
  <2>2. ~(y < x)
    BY <1>1, <1>2, <2>1, Zenon
  <2> QED BY <2>1, <2>2
<1> QED BY <1>3 DEF First

\* What the proofs use of the shape of a tree.
LEMMA TreeFacts ==
    ASSUME IsTree(tree)
    PROVE  /\ Nodes \subseteq Nat
           /\ 1 \in Nodes
           /\ NoNode \notin Nodes
           /\ tree.father[1] = NoNode
           /\ \A n \in Nodes : tree.father[n] \in Nodes \cup {NoNode}
           /\ \A n \in Nodes : tree.father[n] # n
           /\ \A n \in Nodes : tree.type[n] \in NodeTypes
           /\ \A n \in Nodes : tree.father[n] \notin Executables
           /\ \A n : Operands(n) \subseteq Nodes
           /\ Executables \subseteq Nodes
<1>1. tree.size \in Nat \ {0}
  BY DEF IsTree
<1>2. /\ tree.type \in [1..tree.size -> NodeTypes]
      /\ tree.father \in [1..tree.size -> 0..tree.size]
      /\ tree.father[1] = NoNode
  BY DEF IsTree
<1>3. \A n \in 2..tree.size : tree.type[tree.father[n]] # "Executable"
  BY DEF IsTree
<1>4. \A n \in Nodes : tree.father[n] \notin Executables
  BY <1>1, <1>2, <1>3 DEF Nodes, Executables, NoNode
<1>5. \A n \in Nodes : tree.father[n] # n
  <2>1. \A n \in 2..tree.size : tree.father[n] \in 1..(n - 1)
    BY DEF IsTree
  <2> QED BY <1>1, <1>2, <2>1 DEF Nodes, NoNode
<1> QED BY <1>1, <1>2, <1>4, <1>5 DEF Nodes, NoNode, Operands, Executables

\* The operand to start next is a node.
LEMMA FirstNode ==
    ASSUME IsTree(tree), NEW S \in SUBSET Nodes, S # {}
    PROVE  First(S) \in S /\ First(S) \in Nodes
BY TreeFacts, FirstIsLeast

\* Two operands of a node are in order.
LEMMA OperandOrder ==
    ASSUME Nodes \subseteq Nat, NEW f, NEW a \in Operands(f), NEW b \in Operands(f)
    PROVE  /\ a = b \/ a \in EarlierOperands(f, b) \/ a \in LaterOperands(f, b)
           /\ a \in EarlierOperands(f, b) => b \in LaterOperands(f, a)
<1>1. a \in Nat /\ b \in Nat
  BY DEF Operands
<1> QED BY <1>1 DEF EarlierOperands, LaterOperands

\* A set of node numbers that holds, with each of its members but k, one that is
\* smaller, holds k if it is not empty.
LEMMA Descent ==
    ASSUME NEW S \in SUBSET Nat, NEW k, S # {},
           \A n \in S : n # k => \E m \in S : m < n
    PROVE  k \in S
<1>1. First(S) \in S /\ \A m \in S : First(S) <= m
  BY FirstIsLeast
<1>2. SUFFICES ASSUME First(S) # k PROVE FALSE
  BY <1>1
<1>3. PICK m \in S : m < First(S)
  BY <1>1, <1>2
<1>4. First(S) \in Nat /\ m \in Nat
  BY <1>1
<1>5. First(S) <= m
  BY <1>1
<1> QED BY <1>3, <1>4, <1>5

\* The father of a node under k, k itself left aside, is under k too.
LEMMA FatherUnder ==
    ASSUME IsTree(tree), NEW k \in Nodes, NEW n \in Nodes, Under(k, n), n # k
    PROVE  /\ tree.father[n] \in Nodes /\ tree.father[n] < n
           /\ Under(k, tree.father[n])
<1>1. tree.size \in Nat /\ k \in Nat /\ n \in Nat /\ n > k /\ n \in 2..tree.size
  BY DEF IsTree, Nodes, Under
<1>2. tree.father[n] \in 1..(n - 1)
  BY <1>1 DEF IsTree
<1>3. tree.father[n] >= k
  BY <1>1 DEF Under
<1>4. \A m \in (k + 1)..tree.father[n] : m \in (k + 1)..n
  BY <1>1, <1>2
<1> QED BY <1>1, <1>2, <1>3, <1>4 DEF Under, Nodes

\* An operand of a node under k is under k.
LEMMA OperandUnder ==
    ASSUME IsTree(tree), NEW k \in Nodes, NEW n \in Nodes, tree.father[n] \in Nodes,
           Under(k, tree.father[n])
    PROVE  Under(k, n)
<1> DEFINE f == tree.father[n]
<1>1. tree.size \in Nat /\ k \in Nat /\ n \in Nat /\ f \in Nat /\ tree.father[1] = NoNode
  BY DEF IsTree, Nodes
<1>2. n \in 2..tree.size
  BY <1>1 DEF Nodes, NoNode
<1>3. f < n /\ \A m \in (f + 1)..(n - 1) : tree.father[m] >= f
  BY <1>1, <1>2 DEF IsTree
<1>4. f >= k /\ \A m \in (k + 1)..f : tree.father[m] >= k
  BY DEF Under
<1>5. ASSUME NEW m \in (k + 1)..n PROVE tree.father[m] >= k
  <2>1. m \in Nat /\ m \in 1..tree.size /\ tree.father[m] \in Nat
    BY SMTT(60), <1>1, <1>2 DEF IsTree
  <2>2. CASE m <= f
    BY <1>1, <1>4, <2>1, <2>2
  <2>3. CASE m > f /\ m < n
    <3>1. tree.father[m] >= f
      BY <1>1, <1>3, <2>1, <2>3
    <3> QED BY <1>1, <1>4, <2>1, <3>1
  <2>4. CASE m = n
    BY <1>4, <2>4
  <2> QED BY <1>1, <2>1, <2>2, <2>3, <2>4
<1> QED BY <1>1, <1>3, <1>4, <1>5 DEF Under

\* Last() picks the greatest element of a set of node numbers.
LEMMA LastIsGreatest ==
    ASSUME NEW b \in Nat, NEW S \in SUBSET (0..b), S # {}
    PROVE  Last(S) \in S /\ \A m \in S : m <= Last(S)
<1> DEFINE T == {k \in Nat : \E n \in S : n + k = b}
<1>1. PICK n0 \in S : TRUE
  OBVIOUS
<1>2. n0 \in Nat /\ b - n0 \in Nat /\ n0 + (b - n0) = b
  OBVIOUS
<1>3. T \in SUBSET Nat /\ T # {}
  BY <1>2
<1> HIDE DEF T
<1>4. First(T) \in T /\ \A k \in T : First(T) <= k
  BY <1>3, FirstIsLeast
<1>5. PICK n \in S : n + First(T) = b /\ First(T) \in Nat
  BY <1>4 DEF T
<1>6. ASSUME NEW m \in S PROVE n >= m
  <2>1. m \in Nat /\ n \in Nat /\ b - m \in Nat /\ m + (b - m) = b
    OBVIOUS
  <2>2. b - m \in T
    BY <2>1 DEF T
  <2>3. First(T) <= b - m
    BY <1>4, <2>2
  <2> QED BY <1>5, <2>1, <2>3
<1>7. Last(S) \in S /\ \A m \in S : Last(S) >= m
  BY <1>6 DEF Last
<1>8. \A m \in S : m \in Nat
  OBVIOUS
<1> QED BY <1>7, <1>8

\* Ascending() lists every element of a finite set once.
LEMMA AscendingFacts ==
    ASSUME NEW S \in SUBSET Nat, IsFiniteSet(S)
    PROVE  /\ Cardinality(S) \in Nat
           /\ Ascending(S) \in [1..Cardinality(S) -> S]
           /\ \A m \in S : \E i \in 1..Cardinality(S) : Ascending(S)[i] = m
           /\ \A i, j \in 1..Cardinality(S) : Ascending(S)[i] = Ascending(S)[j] => i = j
           /\ \A i \in 1..Cardinality(S) :
                Cardinality({k \in S : k < Ascending(S)[i]}) = i - 1
<1> DEFINE c == Cardinality(S)
           Below(m) == {k \in S : k < m}
           rank == [m \in S |-> Cardinality(Below(m)) + 1]
<1>1. c \in Nat
  BY FS_CardinalityType
<1>2. \A m \in S : IsFiniteSet(Below(m)) /\ Cardinality(Below(m)) \in Nat
  <2> SUFFICES ASSUME NEW m \in S
               PROVE  IsFiniteSet(Below(m)) /\ Cardinality(Below(m)) \in Nat
    OBVIOUS
  <2>1. Below(m) \in SUBSET S
    OBVIOUS
  <2>2. IsFiniteSet(Below(m))
    BY <2>1, FS_Subset
  <2> QED BY <2>2, FS_CardinalityType
<1>3. ASSUME NEW m \in S, NEW T \in SUBSET S, Below(m) \subseteq T, m \in T
      PROVE  Cardinality(Below(m)) + 1 <= Cardinality(T)
  <2>1. m \notin Below(m)
    OBVIOUS
  <2>2. IsFiniteSet(T) /\ IsFiniteSet(Below(m))
    BY <1>2, FS_Subset
  <2> HIDE DEF Below
  <2>3. Cardinality(Below(m) \cup {m}) = Cardinality(Below(m)) + 1
    BY <2>1, <2>2, FS_AddElement
  <2>4. Below(m) \cup {m} \in SUBSET T
    BY <1>3
  <2>5. Cardinality(Below(m) \cup {m}) <= Cardinality(T)
    BY <2>2, <2>4, FS_Subset
  <2> QED BY <2>3, <2>5
<1>4. \A m \in S : Cardinality(Below(m)) + 1 \in 1..c
  <2> SUFFICES ASSUME NEW m \in S PROVE Cardinality(Below(m)) + 1 \in 1..c
    OBVIOUS
  <2>1. Below(m) \subseteq S /\ S \in SUBSET S
    OBVIOUS
  <2> HIDE DEF Below
  <2>2. Cardinality(Below(m)) + 1 <= c
    BY <1>3, <2>1
  <2> QED BY <1>1, <1>2, <2>2
<1>5. \A a, b \in S : Cardinality(Below(a)) = Cardinality(Below(b)) => a = b
  <2>1. ASSUME NEW a \in S, NEW b \in S, a < b
        PROVE  Cardinality(Below(a)) # Cardinality(Below(b))
    <3>1. Below(a) \subseteq Below(b) /\ a \in Below(b) /\ Below(b) \in SUBSET S
      <4>1. a \in Nat /\ b \in Nat /\ a < b /\ \A k \in S : k \in Nat
        BY <2>1
      <4>2. \A k \in S : k < a => k < b
        BY <4>1
      <4> QED BY <2>1, <4>2
    <3> HIDE DEF Below
    <3>2. Cardinality(Below(a)) + 1 <= Cardinality(Below(b))
      BY <1>3, <3>1
    <3> QED BY <1>2, <3>2
  <2> SUFFICES ASSUME NEW a \in S, NEW b \in S,
                      Cardinality(Below(a)) = Cardinality(Below(b))
               PROVE  a = b
    OBVIOUS
  <2>2. ~(a < b) /\ ~(b < a)
    BY <2>1
  <2>3. a \in Nat /\ b \in Nat
    OBVIOUS
  <2> QED BY <2>2, <2>3
<1> HIDE DEF Below
<1>6. rank \in Injection(S, 1..c)
  BY <1>2, <1>4, <1>5 DEF Injection, IsInjective
<1>7. IsFiniteSet(1..c) /\ Cardinality(1..c) = c
  <2>1. 1 \in Int /\ c \in Int
    BY <1>1
  <2> QED BY <1>1, <2>1, FS_Interval
<1> HIDE DEF rank
<1>8. rank \in Surjection(S, 1..c)
  BY <1>6, <1>7, FS_Injection
<1>9. \A i \in 1..c : \E m \in S : Cardinality(Below(m)) = i - 1
  <2> SUFFICES ASSUME NEW i \in 1..c PROVE \E m \in S : Cardinality(Below(m)) = i - 1
    OBVIOUS
  <2>1. PICK m \in S : rank[m] = i
    BY <1>8 DEF Surjection
  <2>2. Cardinality(Below(m)) + 1 = i
    BY <2>1 DEF rank
  <2> QED BY <1>2, <2>2
<1>10. Ascending(S) = [i \in 1..c |-> CHOOSE m \in S : Cardinality(Below(m)) = i - 1]
  BY DEF Ascending, Below
<1>11. \A i \in 1..c : /\ Ascending(S)[i] \in S
                       /\ Cardinality(Below(Ascending(S)[i])) = i - 1
  BY <1>9, <1>10
<1>12. Ascending(S) \in [1..c -> S]
  <2>1. \A i \in 1..c : (CHOOSE m \in S : Cardinality(Below(m)) = i - 1) \in S
    BY <1>9
  <2> QED BY <1>10, <2>1
<1>13. ASSUME NEW m \in S PROVE \E i \in 1..c : Ascending(S)[i] = m
  <2> DEFINE i == Cardinality(Below(m)) + 1
  <2>1. i \in 1..c /\ i - 1 = Cardinality(Below(m))
    BY <1>2, <1>4
  <2>2. Cardinality(Below(Ascending(S)[i])) = Cardinality(Below(m)) /\ Ascending(S)[i] \in S
    BY <1>11, <2>1
  <2> HIDE DEF i
  <2>3. Ascending(S)[i] = m
    BY <1>5, <2>2
  <2> QED BY <2>1, <2>3
<1>14. ASSUME NEW i \in 1..c, NEW j \in 1..c, Ascending(S)[i] = Ascending(S)[j]
       PROVE  i = j
  <2>1. i - 1 = j - 1
    BY <1>11, <1>14
  <2> QED BY <2>1
<1>15. \A i \in 1..c : Cardinality({k \in S : k < Ascending(S)[i]}) = i - 1
  BY <1>11 DEF Below
<1> QED BY <1>1, <1>12, <1>13, <1>14, <1>15

\* A set of numbers in which each but r has its father, and none has two sons.
IsPath(C, r, f) ==
    /\ \A n \in C : n # r => f[n] \in C /\ f[n] < n
    /\ \A a, b \in C : a # r /\ b # r /\ f[a] = f[b] => a = b

\* There is one without a son at most.
LEMMA PathEnd ==
    ASSUME NEW C \in SUBSET Nat, NEW f, NEW r, IsPath(C, r, f)
    PROVE  \A x, y \in C :
             (\A n \in C : n # r => f[n] # x /\ f[n] # y) => x = y
<1>path. /\ \A n \in C : n # r => f[n] \in C /\ f[n] < n
         /\ \A a, b \in C : a # r /\ b # r /\ f[a] = f[b] => a = b
  BY DEF IsPath
<1>least. \A n \in C : r \in C /\ r <= n
  <2>1. SUFFICES ASSUME NEW n \in C PROVE r \in C /\ r <= n
    OBVIOUS
  <2>2. r \in C
    BY <1>path, Descent
  <2>3. SUFFICES ASSUME n < r PROVE FALSE
    BY <2>2
  <2> DEFINE S == {m \in C : m < r}
  <2>4. \A m \in S : m # r => \E k \in S : k < m
    <3> SUFFICES ASSUME NEW m \in S, m # r PROVE \E k \in S : k < m
      OBVIOUS
    <3>1. f[m] \in C /\ f[m] < m /\ m < r
      BY <1>path
    <3>2. f[m] \in Nat /\ m \in Nat /\ r \in Nat
      BY <2>2, <3>1
    <3> QED BY <3>1, <3>2
  <2>5. S \in SUBSET Nat /\ S # {}
    BY <2>3
  <2> HIDE DEF S
  <2>6. r \in S
    BY <2>4, <2>5, Descent
  <2> QED BY <2>2, <2>6 DEF S
\* No number of C lies between another one and its father.
<1> DEFINE T == {p \in C : \E z, w \in C : z # r /\ f[z] = p /\ p < w /\ w < z}
<1>1. T = {}
  <2>1. SUFFICES ASSUME T # {} PROVE FALSE
    OBVIOUS
  <2>2. T \in SUBSET Nat
    OBVIOUS
  <2>3. First(T) \in T /\ \A p \in T : First(T) <= p
    BY <2>1, <2>2, FirstIsLeast
  <2>4. PICK p \in T : p = First(T)
    BY <2>3
  <2>5. PICK z \in C, w \in C : z # r /\ f[z] = p /\ p < w /\ w < z
    BY <2>4
  <2> DEFINE U == {v \in C : p < v}
  <2>6. U \in SUBSET Nat /\ U # {}
    BY <2>5
  <2>7. First(U) \in U /\ \A v \in U : First(U) <= v
    BY <2>6, FirstIsLeast
  <2>8. PICK v \in U : \A u \in U : v <= u
    BY <2>7
  <2>9. p \in C /\ p \in Nat /\ v \in C /\ v \in Nat /\ z \in Nat /\ w \in Nat /\ r \in Nat
    BY <2>4, <2>5, <1>least
  <2>10. v <= w /\ v < z /\ p < v
    BY <2>5, <2>8, <2>9
  <2>11. v # r
    BY <1>least, <2>9, <2>10
  <2>12. f[v] \in C /\ f[v] < v /\ f[v] \in Nat
    BY <1>path, <2>9, <2>11
  <2>13. f[v] <= p
    BY <2>8, <2>9, <2>12
  <2>14. f[v] # p
    BY <1>path, <2>5, <2>9, <2>10, <2>11
  <2>15. f[v] \in T
    BY <2>9, <2>10, <2>11, <2>12, <2>13, <2>14
  <2>16. p <= f[v]
    BY <2>3, <2>4, <2>15
  <2> QED BY <2>9, <2>12, <2>13, <2>14, <2>16
<1>2. ASSUME NEW x \in C, NEW y \in C, x < y, \A n \in C : n # r => f[n] # x
      PROVE  FALSE
  <2> DEFINE U == {v \in C : x < v}
  <2>1. U \in SUBSET Nat /\ U # {}
    BY <1>2
  <2>2. First(U) \in U /\ \A v \in U : First(U) <= v
    BY <2>1, FirstIsLeast
  <2>3. PICK v \in U : \A u \in U : v <= u
    BY <2>2
  <2>4. v \in C /\ v \in Nat /\ x \in Nat /\ x < v /\ r \in Nat /\ r <= x
    BY <1>least
  <2>10. v # r
    BY <2>4
  <2>11. f[v] \in C /\ f[v] < v
    BY <1>path, <2>4, <2>10
  <2>5. f[v] \in C /\ f[v] < v /\ f[v] \in Nat /\ v # r
    BY <2>10, <2>11
  <2>6. f[v] <= x
    BY <2>3, <2>4, <2>5
  <2>7. f[v] < x
    BY <1>2, <2>4, <2>5, <2>6
  <2>8. f[v] \in T
    BY <2>4, <2>5, <2>7
  <2> QED BY <1>1, <2>8
<1> SUFFICES ASSUME NEW x \in C, NEW y \in C, \A n \in C : n # r => f[n] # x /\ f[n] # y
             PROVE  x = y
  OBVIOUS
<1>3. ~(x < y) /\ ~(y < x)
  BY <1>2
<1>4. x \in Nat /\ y \in Nat
  OBVIOUS
<1> QED BY <1>3, <1>4

\* A father comes before its operands.
LEMMA FatherIsLess ==
    ASSUME IsTree(tree), NEW n \in Nodes, tree.father[n] \in Nodes
    PROVE  tree.father[n] < n
<1>1. tree.size \in Nat /\ tree.father[1] = NoNode
  BY DEF IsTree
<1>2. n \in 2..tree.size
  BY <1>1 DEF Nodes, NoNode
<1>3. tree.father[n] \in 1..(n - 1)
  BY <1>2 DEF IsTree
<1> QED BY <1>1, <1>2, <1>3

\* The operands before a node have smaller numbers.
LEMMA EarlierBelow ==
    ASSUME Nodes \subseteq Nat, NEW k \in Nodes, NEW f
    PROVE  k \in Nat /\ EarlierOperands(f, k) \in SUBSET (0..k)
<1>1. k \in Nat
  OBVIOUS
<1>2. \A j \in EarlierOperands(f, k) : j \in Nat /\ j < k
  BY DEF EarlierOperands, Operands
<1> QED BY <1>1, <1>2

-----------------------------------------------------------------------------
(* What is under what.                                                     *)

\* Everything is under the root, and each node under itself.
LEMMA UnderRoot ==
    ASSUME IsTree(tree), NEW n \in Nodes
    PROVE  Under(n, n) /\ Under(1, n)
<1>1. tree.size \in Nat /\ n \in Nat /\ n >= 1 /\ n <= tree.size
  BY DEF IsTree, Nodes
<1>2. \A m \in 2..n : m \in 2..tree.size
  BY <1>1
<1>3. \A m \in 2..n : tree.father[m] \in Nat /\ tree.father[m] >= 1
  <2> SUFFICES ASSUME NEW m \in 2..n PROVE tree.father[m] \in Nat /\ tree.father[m] >= 1
    OBVIOUS
  <2>1. m \in 2..tree.size /\ m \in Nat
    BY <1>2
  <2>2. tree.father[m] \in 1..(m - 1)
    BY <2>1 DEF IsTree
  <2> QED BY <2>1, <2>2
<1> QED BY <1>1, <1>3 DEF Under

\* What is under a node that is under k is under k.
LEMMA UnderTransitive ==
    ASSUME IsTree(tree), NEW k \in Nodes, NEW n \in Nodes, NEW c \in Nodes,
           Under(k, n), Under(n, c)
    PROVE  Under(k, c)
<1>1. /\ tree.size \in Nat /\ k \in Nat /\ n \in Nat /\ c \in Nat
      /\ n >= k /\ c >= n /\ c <= tree.size
      /\ \A m \in (k + 1)..n : tree.father[m] >= k
      /\ \A m \in (n + 1)..c : tree.father[m] >= n
  BY DEF IsTree, Nodes, Under
<1>2. ASSUME NEW m \in (k + 1)..c PROVE tree.father[m] >= k
  <2>1. m \in Nat /\ m \in 1..tree.size
    BY <1>1
  <2>2. tree.father[m] \in Nat
    BY <2>1 DEF IsTree
  <2>3. CASE m <= n
    BY <1>1, <2>1, <2>3
  <2>4. CASE m > n
    <3>1. tree.father[m] >= n
      BY <1>1, <2>1, <2>4
    <3> QED BY <1>1, <2>2, <3>1
  <2> QED BY <1>1, <2>1, <2>3, <2>4
<1> QED BY <1>1, <1>2 DEF Under

\* Two nodes that are under one another are the same.
LEMMA UnderBoth ==
    ASSUME Nodes \subseteq Nat, NEW k \in Nodes, NEW n \in Nodes, Under(k, n), Under(n, k)
    PROVE  k = n
<1>1. k \in Nat /\ n \in Nat /\ k <= n /\ n <= k
  BY DEF Under
<1> QED BY <1>1

\* Nothing but itself is under an executable.
LEMMA UnderLeaf ==
    ASSUME IsTree(tree), NEW n \in Executables, NEW c \in Nodes, Under(n, c)
    PROVE  c = n
<1>1. /\ tree.size \in Nat /\ n \in Nat /\ c \in Nat /\ c >= n /\ n >= 1 /\ c <= tree.size
      /\ n \in Nodes
  BY DEF IsTree, Nodes, Under, Executables
<1>2. SUFFICES ASSUME c # n PROVE FALSE
  OBVIOUS
<1>3. n + 1 \in (n + 1)..c /\ n + 1 \in 2..tree.size /\ n + 1 \in Nodes
  BY <1>1, <1>2 DEF Nodes
<1>4. tree.father[n + 1] >= n /\ tree.father[n + 1] \in 1..((n + 1) - 1)
  BY <1>3 DEF IsTree, Under
<1>5. tree.father[n + 1] = n
  BY <1>1, <1>4
<1>6. tree.father[n + 1] \notin Executables
  BY <1>3, TreeFacts
<1> QED BY <1>5, <1>6

\* What is under an operand comes before the later operands.
LEMMA UnderOperand ==
    ASSUME IsTree(tree), NEW t \in Nodes, NEW k \in Operands(t), NEW j \in Operands(t),
           k < j, NEW c \in Nodes, Under(k, c)
    PROVE  c < j
<1>1. /\ k \in Nat /\ j \in Nat /\ c \in Nat /\ t \in Nat /\ k \in Nodes
      /\ tree.father[k] = t /\ tree.father[j] = t
  BY TreeFacts DEF Operands
<1>2. SUFFICES ASSUME j <= c PROVE FALSE
  BY <1>1
<1>3. j \in (k + 1)..c
  BY <1>1, <1>2
<1>4. t >= k
  BY <1>1, <1>3 DEF Under
<1>5. t < k
  BY <1>1, FatherIsLess
<1> QED BY <1>1, <1>4, <1>5

\* What is under a node and is not the node is under one of its operands.
LEMMA SomeOperand ==
    ASSUME IsTree(tree), NEW t \in Nodes, NEW c \in Nodes, Under(t, c), c # t
    PROVE  \E k \in Operands(t) : Under(k, c)
<1>1. SUFFICES ASSUME \A k \in Operands(t) : ~Under(k, c) PROVE FALSE
  OBVIOUS
<1> DEFINE S == {j \in Nodes : Under(t, j) /\ Under(j, c) /\ j # t}
<1>2. ASSUME NEW j \in S PROVE \E i \in S : i < j
  <2> DEFINE f == tree.father[j]
  <2>1. f \in Nodes /\ f < j /\ Under(t, f)
    BY FatherUnder
  <2>2. Under(f, f)
    BY <2>1, UnderRoot
  <2>3. Under(f, j)
    BY <2>1, <2>2, OperandUnder
  <2>4. Under(f, c)
    BY <2>1, <2>3, UnderTransitive
  <2>5. f # t
    BY <1>1 DEF Operands
  <2> QED BY <2>1, <2>4, <2>5
<1>3. S \in SUBSET Nat /\ c \in S /\ t \notin S
  BY UnderRoot, TreeFacts
<1> HIDE DEF S
<1> QED BY <1>2, <1>3, Descent
=============================================================================
