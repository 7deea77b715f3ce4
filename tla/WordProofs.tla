----------------------------- MODULE WordProofs -----------------------------
(***************************************************************************)
(* What create_tree_from_string() makes of the words of a command: proofs  *)
(* about Parser and Tool, for every command without redirects.             *)
(***************************************************************************)
EXTENDS ToolProofs

-----------------------------------------------------------------------------
(* The words of a string.                                                  *)

\* Induction downwards: a set that holds, with each of its members, the one before
\* it, and not 0, is empty.
LEMMA StepDown ==
    ASSUME NEW b \in Nat, NEW S \in SUBSET (0..b), \A k \in S : k > 0 /\ k - 1 \in S
    PROVE  S = {}
<1> DEFINE rank == [k \in 0..b |-> k]
<1>1. \A k \in S : k \in 0..b /\ k - 1 \in 0..b /\ k - 1 < k
  OBVIOUS
<1>2. \A k \in S : \E m \in S : rank[m] < rank[k]
  BY <1>1
<1>3. rank \in [0..b -> 0..b]
  OBVIOUS
<1> HIDE DEF rank
<1>4. IsBottomless(0..b, b, rank, S)
  BY <1>2, <1>3 DEF IsBottomless
<1> QED BY <1>4, RankDescent

LEMMA TextFacts ==
    ASSUME NEW s \in Texts
    PROVE  /\ Len(s) \in Nat /\ Listed(s) /\ <<>> \in Texts /\ Len(<<>>) = 0
           /\ \A i \in 1..Len(s) : s[i] \in Glyphs
           /\ s \o <<>> = s /\ <<>> \o s = s
<1>1. s \in Seq(Glyphs)
  BY DEF Texts
<1> HIDE DEF Glyphs
<1>2. Len(s) \in Nat /\ Listed(s) /\ <<>> \in Seq(Glyphs) /\ Len(<<>>) = 0
  BY <1>1, LenProperties, SeqIsListed, EmptySeq
<1>3. \A i \in 1..Len(s) : s[i] \in Glyphs
  BY <1>1, ElementOfSeq
<1>4. s \o <<>> = s /\ <<>> \o s = s
  BY <1>1, ConcatEmptySeq
<1> QED BY <1>2, <1>3, <1>4 DEF Texts

LEMMA TextConcat ==
    ASSUME NEW s \in Texts, NEW t \in Texts
    PROVE  s \o t \in Texts /\ \A u \in Texts : (s \o t) \o u = s \o (t \o u)
<1>1. s \in Seq(Glyphs) /\ t \in Seq(Glyphs)
  BY DEF Texts
<1> HIDE DEF Glyphs
<1>2. s \o t \in Seq(Glyphs)
  BY <1>1, ConcatProperties
<1>3. \A u \in Seq(Glyphs) : (s \o t) \o u = s \o (t \o u)
  BY <1>1, ConcatAssociative
<1> QED BY <1>2, <1>3 DEF Texts

LEMMA TextAppend ==
    ASSUME NEW s \in Texts, NEW t \in Texts, NEW e \in Glyphs
    PROVE  Append(t, e) \in Texts /\ s \o Append(t, e) = Append(s \o t, e)
<1>1. s \in Seq(Glyphs) /\ t \in Seq(Glyphs) /\ s \o t \in Seq(Glyphs)
  BY TextConcat DEF Texts
<1> HIDE DEF Glyphs
<1>2. Append(t, e) \in Seq(Glyphs) /\ Append(t, e) = t \o <<e>>
  BY <1>1, AppendProperties, AppendIsConcat
<1>3. Append(s \o t, e) = (s \o t) \o <<e>>
  BY <1>1, AppendIsConcat
<1>4. <<e>> \in Seq(Glyphs)
  OBVIOUS
<1>5. (s \o t) \o <<e>> = s \o (t \o <<e>>)
  BY <1>1, <1>4, ConcatAssociative
<1> QED BY <1>2, <1>3, <1>5 DEF Texts

\* The first k of a string, and one more.
LEMMA PartMore ==
    ASSUME NEW s \in Texts, NEW k \in 1..Len(s)
    PROVE  /\ SubSeq(s, 1, k - 1) \in Texts /\ s[k] \in Glyphs
           /\ SubSeq(s, 1, k) = Append(SubSeq(s, 1, k - 1), s[k])
<1>1. Len(s) \in Nat /\ s[k] \in Glyphs /\ s \in Seq(Glyphs)
  BY TextFacts DEF Texts
<1>2. 1 \in 1..Len(s) /\ k \in 1..Len(s) /\ k - 1 \in Int /\ 1 \in Int /\ k - 1 <= Len(s)
  BY <1>1
<1> HIDE DEF Glyphs
<1>3. SubSeq(s, 1, k) = SubSeq(s, 1, k - 1) \o <<s[k]>>
  BY <1>1, <1>2, SubSeqRecursiveSecond
<1>4. SubSeq(s, 1, k - 1) \in Texts
  BY <1>2, PartOfText
<1>5. SubSeq(s, 1, k - 1) \in Seq(Glyphs)
  BY <1>4 DEF Texts
<1>6. Append(SubSeq(s, 1, k - 1), s[k]) = SubSeq(s, 1, k - 1) \o <<s[k]>>
  BY <1>1, <1>5, AppendIsConcat
<1> QED BY <1>1, <1>3, <1>4, <1>6

LEMMA WholeText ==
    ASSUME NEW s \in Texts
    PROVE  SubSeq(s, 1, Len(s)) = s /\ SubSeq(s, 1, 0) = <<>>
<1>1. s \in Seq(Glyphs)
  BY DEF Texts
<1> QED BY <1>1, SubSeqFull, SubSeqEmpty

LEMMA WordsAreText ==
    ASSUME NEW s \in Texts
    PROVE  WordsOf(s) \in Texts
<1> DEFINE S == {i \in 1..Len(s) : s[i] \in Words}
           c == Cardinality(S)
<1>1. Len(s) \in Nat /\ \A i \in 1..Len(s) : s[i] \in Glyphs
  BY TextFacts
<1>2. S \in SUBSET (1..Len(s)) /\ S \in SUBSET Nat
  BY <1>1
<1>3. IsFiniteSet(S)
  <2>1. IsFiniteSet(1..Len(s))
    BY <1>1, FS_Interval
  <2> QED BY <1>2, <2>1, FS_Subset
<1> HIDE DEF S
<1>4. c \in Nat /\ Ascending(S) \in [1..c -> S]
  BY <1>2, <1>3, AscendingFacts
<1>5. \A k \in 1..c : s[Ascending(S)[k]] \in Glyphs
  BY <1>1, <1>2, <1>4
<1>6. WordsOf(s) = [k \in 1..c |-> s[Ascending(S)[k]]]
  BY DEF WordsOf, AtPlaces, S
<1> HIDE DEF c, Glyphs
<1>7. WordsOf(s) \in [1..c -> Glyphs]
  BY <1>5, <1>6
<1> QED BY <1>4, <1>7 DEF Texts

\* A string without words has none.
LEMMA NoWords ==
    ASSUME NEW s, \A i \in 1..Len(s) : s[i] \notin Words
    PROVE  WordsOf(s) = <<>>
<1>1. {i \in 1..Len(s) : s[i] \in Words} = {}
  OBVIOUS
<1>2. Cardinality({}) = 0
  BY FS_EmptySet
<1>3. WordsOf(s) = [k \in 1..0 |-> s[Ascending({})[k]]]
  BY <1>1, <1>2 DEF WordsOf, AtPlaces
<1> QED BY <1>3

LEMMA WordsMore ==
    ASSUME NEW s \in Texts, NEW e
    PROVE  WordsOf(Append(s, e)) = IF e \in Words THEN Append(WordsOf(s), e) ELSE WordsOf(s)
<1> DEFINE S == {i \in 1..Len(s) : s[i] \in Words}
           t == Append(s, e)
           T == {i \in 1..Len(t) : t[i] \in Words}
<1>1. Len(s) \in Nat /\ Listed(s)
  BY TextFacts
<1>2. Len(t) = Len(s) + 1 /\ (\A i \in 1..Len(s) : t[i] = s[i]) /\ t[Len(s) + 1] = e
  BY <1>1, ListedAppend
<1> HIDE DEF t
<1>3. T = IF e \in Words THEN S \cup {Len(s) + 1} ELSE S
  BY <1>1, <1>2
<1>4. S \in SUBSET (1..Len(s))
  OBVIOUS
<1> HIDE DEF S, T
<1>5. /\ AtPlaces(Append(s, e), S) = AtPlaces(s, S)
      /\ AtPlaces(Append(s, e), S \cup {Len(s) + 1}) = Append(AtPlaces(s, S), e)
  BY <1>1, <1>4, AtPlacesMore
<1>6. WordsOf(s) = AtPlaces(s, S) /\ WordsOf(t) = AtPlaces(t, T)
  BY DEF WordsOf, S, T
<1> QED BY <1>3, <1>5, <1>6 DEF t

\* The words of two strings are those of the one, then those of the other.
LEMMA WordsConcat ==
    ASSUME NEW s \in Texts, NEW t \in Texts
    PROVE  WordsOf(s \o t) = WordsOf(s) \o WordsOf(t)
<1> DEFINE Part(k) == SubSeq(t, 1, k)
           Bad == {k \in 0..Len(t) : WordsOf(s \o Part(k)) # WordsOf(s) \o WordsOf(Part(k))}
<1>1. Len(t) \in Nat /\ Part(0) = <<>> /\ Part(Len(t)) = t /\ s \o <<>> = s
  BY TextFacts, WholeText
<1>2. WordsOf(<<>>) = <<>> /\ WordsOf(s) \in Texts /\ WordsOf(s) \o <<>> = WordsOf(s)
  <2>1. Len(<<>>) = 0
    BY TextFacts
  <2>2. WordsOf(<<>>) = <<>>
    BY <2>1, NoWords
  <2> QED BY <2>2, WordsAreText, TextFacts
<1>3. ASSUME NEW k \in 1..Len(t), WordsOf(s \o Part(k - 1)) = WordsOf(s) \o WordsOf(Part(k - 1))
      PROVE  WordsOf(s \o Part(k)) = WordsOf(s) \o WordsOf(Part(k))
  <2> DEFINE u == Part(k - 1)
             e == t[k]
  <2>1. u \in Texts /\ e \in Glyphs /\ Part(k) = Append(u, e)
    BY PartMore
  <2> HIDE DEF u, e, Part
  <2>2. s \o Part(k) = Append(s \o u, e) /\ s \o u \in Texts
    <3>1. s \o u \in Texts /\ s \o Append(u, e) = Append(s \o u, e)
      BY ZenonT(60), <2>1, TextConcat, TextAppend
    <3> QED BY <2>1, <3>1, Zenon
  <2>3. /\ WordsOf(Append(s \o u, e)) = IF e \in Words THEN Append(WordsOf(s \o u), e) ELSE WordsOf(s \o u)
        /\ WordsOf(Append(u, e)) = IF e \in Words THEN Append(WordsOf(u), e) ELSE WordsOf(u)
    BY <2>1, <2>2, WordsMore
  <2>4. WordsOf(u) \in Texts
    BY <2>1, WordsAreText
  <2>5. WordsOf(s) \o Append(WordsOf(u), e) = Append(WordsOf(s) \o WordsOf(u), e)
    BY <1>2, <2>1, <2>4, TextAppend
  <2>6. WordsOf(s \o u) = WordsOf(s) \o WordsOf(u)
    BY <1>3 DEF u
  <2> QED BY <2>1, <2>2, <2>3, <2>5, <2>6
<1>4. WordsOf(s \o Part(0)) = WordsOf(s) \o WordsOf(Part(0))
  BY <1>1, <1>2
<1> HIDE DEF Part
<1>5. ASSUME NEW k \in Bad PROVE k > 0 /\ k - 1 \in Bad
  <2>1. k \in 0..Len(t) /\ k # 0
    BY <1>4
  <2>2. k \in 1..Len(t) /\ k - 1 \in 0..Len(t) /\ k > 0
    BY <1>1, <2>1
  <2> QED BY <1>3, <2>2
<1>6. Bad = {}
  <2>1. Bad \in SUBSET (0..Len(t))
    OBVIOUS
  <2> HIDE DEF Bad
  <2> QED BY <1>1, <1>5, <2>1, StepDown
<1>7. Len(t) \in 0..Len(t)
  BY <1>1
<1>8. WordsOf(s \o Part(Len(t))) = WordsOf(s) \o WordsOf(Part(Len(t)))
  BY <1>6, <1>7
<1> QED BY <1>1, <1>8

LEMMA NoWordsPart ==
    ASSUME NEW s \in Texts, NEW i \in Int, NEW n \in Int, 1 <= i, n <= Len(s),
           \A k \in i..n : s[k] \notin Words
    PROVE  WordsOf(SubSeq(s, i, n)) = <<>>
<1> DEFINE t == SubSeq(s, i, n)
<1>1. Len(s) \in Nat /\ \A k \in 1..Len(s) : s[k] \in Glyphs
  BY TextFacts
<1>2. \A k \in i..n : s[k] \in Glyphs
  BY <1>1
<1>3. /\ Len(t) = IF i <= n THEN n - i + 1 ELSE 0
      /\ \A k \in 1..(n - i + 1) : t[k] = s[i + k - 1]
  <2> HIDE DEF Glyphs
  <2> QED BY <1>2, SubSeqProperties
<1> HIDE DEF t
<1>4. \A k \in 1..Len(t) : t[k] \notin Words
  <2> SUFFICES ASSUME NEW k \in 1..Len(t) PROVE t[k] \notin Words
    OBVIOUS
  <2>1. k \in 1..(n - i + 1) /\ i + k - 1 \in i..n
    BY <1>3
  <2> QED BY <1>3, <2>1
<1> QED BY <1>4, NoWords DEF t

\* A string has the words of its parts.
LEMMA WordsSplit ==
    ASSUME NEW s \in Texts, NEW i \in 1..(Len(s) + 1), NEW k \in (i - 1)..Len(s),
           NEW n \in k..Len(s)
    PROVE  /\ SubSeq(s, i, k) \in Texts /\ SubSeq(s, k + 1, n) \in Texts
           /\ WordsOf(SubSeq(s, i, n)) = WordsOf(SubSeq(s, i, k)) \o WordsOf(SubSeq(s, k + 1, n))
<1>1. Len(s) \in Nat /\ s \in Seq(Glyphs)
  BY TextFacts DEF Texts
<1>2. SubSeq(s, i, n) = SubSeq(s, i, k) \o SubSeq(s, k + 1, n)
  <2> HIDE DEF Glyphs
  <2> QED BY <1>1, ConcatAdjacentSubSeq
<1>3. /\ i \in Int /\ k \in Int /\ k + 1 \in Int /\ n \in Int
      /\ 1 <= i /\ 1 <= k + 1 /\ k <= Len(s) /\ n <= Len(s)
  BY <1>1
<1>4. SubSeq(s, i, k) \in Texts /\ SubSeq(s, k + 1, n) \in Texts
  BY <1>3, PartOfText
<1> QED BY <1>2, <1>4, WordsConcat

\* What has no words can be left out on both sides.
LEMMA WordsBetween ==
    ASSUME NEW s \in Texts, NEW i \in 1..(Len(s) + 1), NEW a \in i..(Len(s) + 1),
           NEW b \in (a - 1)..Len(s), NEW n \in b..Len(s),
           \A k \in i..(a - 1) : s[k] \notin Words,
           \A k \in (b + 1)..n : s[k] \notin Words
    PROVE  SubSeq(s, a, b) \in Texts /\ WordsOf(SubSeq(s, i, n)) = WordsOf(SubSeq(s, a, b))
<1>1. Len(s) \in Nat
  BY TextFacts
<1>2. /\ a - 1 \in (i - 1)..Len(s) /\ n \in (a - 1)..Len(s) /\ a \in 1..(Len(s) + 1)
      /\ (a - 1) + 1 = a
  BY <1>1
<1>3. WordsOf(SubSeq(s, i, n)) = WordsOf(SubSeq(s, i, a - 1)) \o WordsOf(SubSeq(s, a, n))
  <2>1. WordsOf(SubSeq(s, i, n))
          = WordsOf(SubSeq(s, i, a - 1)) \o WordsOf(SubSeq(s, (a - 1) + 1, n))
    BY <1>2, WordsSplit
  <2> QED BY <1>2, <2>1
<1>4. /\ SubSeq(s, a, b) \in Texts
      /\ WordsOf(SubSeq(s, a, n)) = WordsOf(SubSeq(s, a, b)) \o WordsOf(SubSeq(s, b + 1, n))
  BY <1>2, WordsSplit
<1>5. WordsOf(SubSeq(s, i, a - 1)) = <<>>
  <2>1. i \in Int /\ a - 1 \in Int /\ 1 <= i /\ a - 1 <= Len(s)
    BY <1>1, <1>2
  <2> QED BY <2>1, NoWordsPart
<1>6. WordsOf(SubSeq(s, b + 1, n)) = <<>>
  <2>1. b + 1 \in Int /\ n \in Int /\ 1 <= b + 1 /\ n <= Len(s)
    BY <1>1, <1>2
  <2> QED BY <2>1, NoWordsPart
<1>7. WordsOf(SubSeq(s, a, b)) \in Texts
  BY <1>4, WordsAreText
<1>8. WordsOf(SubSeq(s, a, b)) \o <<>> = WordsOf(SubSeq(s, a, b)) /\ <<>> \o WordsOf(SubSeq(s, a, b)) = WordsOf(SubSeq(s, a, b))
  BY <1>7, TextFacts
<1> QED BY <1>3, <1>4, <1>5, <1>6, <1>8

-----------------------------------------------------------------------------
(* Strings one after the other.                                            *)

Cat(strings) == Joined(strings, <<>>)

LEMMA CatSolved ==
    ASSUME NEW strings \in Seq(Texts)
    PROVE  \E joined \in [1..Len(strings) -> Texts] :
             /\ strings # <<>> => joined[1] = strings[1]
             /\ \A i \in 2..Len(strings) : joined[i] = joined[i - 1] \o strings[i]
             /\ Cat(strings) = IF strings = <<>> THEN <<>> ELSE joined[Len(strings)]
<1>1. <<>> \in Texts
  BY DEF Texts
<1>2. Len(strings) \in Nat
  BY LenProperties
<1>3. PICK joined \in [1..Len(strings) -> Texts] :
        /\ \A i \in 1..Len(strings) : joined[i] = JoinedAt(joined, strings, <<>>, i)
        /\ Joined(strings, <<>>) = (IF strings = <<>> THEN <<>> ELSE joined[Len(strings)])
  BY <1>1, JoinedSolved
<1>4. strings # <<>> => joined[1] = strings[1]
  <2>1. strings # <<>> => 1 \in 1..Len(strings)
    BY <1>2, EmptySeq
  <2> QED BY <1>3, <2>1 DEF JoinedAt
<1>5. ASSUME NEW i \in 2..Len(strings) PROVE joined[i] = joined[i - 1] \o strings[i]
  <2>1. i \in 1..Len(strings) /\ i - 1 \in 1..Len(strings) /\ i # 1
    BY <1>2
  <2>2. joined[i] = joined[i - 1] \o <<>> \o strings[i]
    BY <1>3, <2>1, Zenon DEF JoinedAt
  <2>3. joined[i - 1] \in Texts
    BY <2>1
  <2>4. joined[i - 1] \o <<>> = joined[i - 1]
    BY <2>3, TextFacts
  <2> QED BY <2>2, <2>4
<1> QED BY <1>3, <1>4, <1>5 DEF Cat

LEMMA CatIsText ==
    ASSUME NEW strings \in Seq(Texts)
    PROVE  Cat(strings) \in Texts
<1>1. <<>> \in Texts
  BY DEF Texts
<1> QED BY <1>1, JoinedIsText DEF Cat

\* One string more.
LEMMA CatAppend ==
    ASSUME NEW strings \in Seq(Texts), NEW t \in Texts
    PROVE  /\ Append(strings, t) \in Seq(Texts)
           /\ Cat(Append(strings, t)) = Cat(strings) \o t
<1> DEFINE more == Append(strings, t)
           n == Len(strings)
<1>1. /\ more \in Seq(Texts) /\ Len(more) = n + 1 /\ more # <<>> /\ n \in Nat
      /\ \A i \in 1..n : more[i] = strings[i]
      /\ more[n + 1] = t
  BY AppendProperties, LenProperties
<1> HIDE DEF more
<1>2. PICK a \in [1..n -> Texts] :
        /\ strings # <<>> => a[1] = strings[1]
        /\ \A i \in 2..n : a[i] = a[i - 1] \o strings[i]
        /\ Cat(strings) = (IF strings = <<>> THEN <<>> ELSE a[n])
  BY CatSolved
<1>3. PICK b \in [1..(n + 1) -> Texts] :
        /\ b[1] = more[1]
        /\ \A i \in 2..(n + 1) : b[i] = b[i - 1] \o more[i]
        /\ Cat(more) = b[n + 1]
  <2>1. \E b \in [1..Len(more) -> Texts] :
          /\ more # <<>> => b[1] = more[1]
          /\ \A i \in 2..Len(more) : b[i] = b[i - 1] \o more[i]
          /\ Cat(more) = IF more = <<>> THEN <<>> ELSE b[Len(more)]
    BY <1>1, CatSolved
  <2> QED BY <1>1, <2>1
<1>4. strings # <<>> => n > 0
  BY EmptySeq
<1>4a. strings = <<>> => n = 0
  BY EmptySeq
<1> HIDE DEF n
<1> DEFINE Bad == {i \in 0..n : i > 0 /\ a[i] # b[i]}
<1>5. ASSUME NEW i \in Bad PROVE i > 0 /\ i - 1 \in Bad
  <2>1. i \in 1..n /\ i > 0 /\ a[i] # b[i] /\ more[i] = strings[i] /\ n > 0
    BY <1>1
  <2>2. i # 1
    BY <1>2, <1>3, <1>4a, <2>1
  <2>3. i \in 2..n /\ i \in 2..(n + 1) /\ i - 1 \in 0..n /\ i - 1 > 0
    BY <1>1, <2>1, <2>2
  <2>4. a[i] = a[i - 1] \o strings[i] /\ b[i] = b[i - 1] \o strings[i]
    BY <1>2, <1>3, <2>1, <2>3
  <2> QED BY <2>1, <2>3, <2>4
<1>6. Bad = {}
  <2>1. Bad \in SUBSET (0..n)
    OBVIOUS
  <2> HIDE DEF Bad
  <2> QED BY <1>1, <1>5, <2>1, StepDown
<1>7. CASE strings = <<>>
  <2>1. Cat(more) = t
    BY <1>1, <1>3, <1>4a, <1>7
  <2>2. <<>> \o t = t
    BY TextFacts
  <2> QED BY <1>1, <1>2, <1>7, <2>1, <2>2 DEF more
<1>8. CASE strings # <<>>
  <2>1. n > 0 /\ n \in 0..n /\ n + 1 \in 2..(n + 1) /\ (n + 1) - 1 = n
    BY <1>1, <1>4, <1>8
  <2>2. a[n] = b[n]
    BY <1>6, <2>1
  <2>3. b[n + 1] = b[n] \o t
    BY <1>1, <1>3, <2>1
  <2> QED BY <1>1, <1>2, <1>3, <1>8, <2>2, <2>3 DEF more
<1> QED BY <1>7, <1>8

LEMMA CatNone == Cat(<<>>) = <<>>
BY DEF Cat, Joined

LEMMA CatOne ==
    ASSUME NEW t \in Texts
    PROVE  <<t>> \in Seq(Texts) /\ Cat(<<t>>) = t
<1>1. <<>> \in Seq(Texts) /\ <<t>> = Append(<<>>, t) /\ <<t>> \in Seq(Texts)
  OBVIOUS
<1>2. Cat(<<t>>) = Cat(<<>>) \o t
  BY <1>1, CatAppend
<1> QED BY <1>1, <1>2, CatNone, TextFacts

LEMMA TextsAppend ==
    ASSUME NEW a \in Seq(Texts), NEW b \in Seq(Texts), NEW t \in Texts
    PROVE  a \o b \in Seq(Texts) /\ a \o Append(b, t) = Append(a \o b, t)
<1>1. a \o b \in Seq(Texts) /\ <<t>> \in Seq(Texts)
  BY ConcatProperties
<1>2. (a \o b) \o <<t>> = a \o (b \o <<t>>)
  BY <1>1, ConcatAssociative
<1>3. Append(b, t) = b \o <<t>> /\ Append(a \o b, t) = (a \o b) \o <<t>>
  BY <1>1, AppendIsConcat
<1> QED BY <1>1, <1>2, <1>3

LEMMA CatConcat ==
    ASSUME NEW a \in Seq(Texts), NEW b \in Seq(Texts)
    PROVE  a \o b \in Seq(Texts) /\ Cat(a \o b) = Cat(a) \o Cat(b)
<1> DEFINE Part(k) == SubSeq(b, 1, k)
           Bad == {k \in 0..Len(b) : Cat(a \o Part(k)) # Cat(a) \o Cat(Part(k))}
<1>1. /\ Len(b) \in Nat /\ Part(0) = <<>> /\ Part(Len(b)) = b /\ a \o <<>> = a
      /\ a \o b \in Seq(Texts) /\ Cat(a) \in Texts
  BY LenProperties, SubSeqFull, SubSeqEmpty, ConcatEmptySeq, ConcatProperties, CatIsText
<1>2. ASSUME NEW k \in 1..Len(b), Cat(a \o Part(k - 1)) = Cat(a) \o Cat(Part(k - 1))
      PROVE  Cat(a \o Part(k)) = Cat(a) \o Cat(Part(k))
  <2> DEFINE f == Part(k - 1)
             e == b[k]
  <2>1. f \in Seq(Texts) /\ e \in Texts /\ Part(k) = Append(f, e)
    <3>1. \A i \in 1..(k - 1) : b[i] \in Texts
      <4>1. \A i \in 1..(k - 1) : i \in 1..Len(b)
        BY <1>1
      <4> QED BY <4>1, ElementOfSeq
    <3>2. f \in Seq(Texts) /\ e \in Texts
      BY <3>1, SubSeqProperties, ElementOfSeq
    <3>3. Part(k) = f \o <<e>>
      <4>1. 1 \in 1..Len(b) /\ k \in 1..Len(b)
        BY <1>1
      <4> QED BY <4>1, SubSeqRecursiveSecond
    <3> HIDE DEF f, e, Part
    <3> QED BY <3>2, <3>3, AppendIsConcat
  <2> HIDE DEF f, e, Part
  <2>2. a \o f \in Seq(Texts) /\ a \o Part(k) = Append(a \o f, e)
    BY <2>1, TextsAppend
  <2>3. Cat(Append(a \o f, e)) = Cat(a \o f) \o e /\ Cat(Append(f, e)) = Cat(f) \o e
    BY <2>1, <2>2, CatAppend
  <2>4. Cat(f) \in Texts
    BY <2>1, CatIsText
  <2>5. (Cat(a) \o Cat(f)) \o e = Cat(a) \o (Cat(f) \o e)
    BY <1>1, <2>1, <2>4, TextConcat
  <2>6. Cat(a \o f) = Cat(a) \o Cat(f)
    BY <1>2 DEF f
  <2> QED BY <2>1, <2>2, <2>3, <2>5, <2>6
<1>3. Cat(a \o Part(0)) = Cat(a) \o Cat(Part(0))
  BY <1>1, CatNone, TextFacts
<1> HIDE DEF Part
<1>4. ASSUME NEW k \in Bad PROVE k > 0 /\ k - 1 \in Bad
  <2>1. k \in 0..Len(b) /\ k # 0
    BY <1>3
  <2>2. k \in 1..Len(b) /\ k - 1 \in 0..Len(b) /\ k > 0
    BY <1>1, <2>1
  <2> QED BY <1>2, <2>2
<1>5. Bad = {}
  <2>1. Bad \in SUBSET (0..Len(b))
    OBVIOUS
  <2> HIDE DEF Bad
  <2> QED BY <1>1, <1>4, <2>1, StepDown
<1>6. Len(b) \in 0..Len(b)
  BY <1>1
<1>7. Cat(a \o Part(Len(b))) = Cat(a) \o Cat(Part(Len(b)))
  BY <1>5, <1>6
<1> QED BY <1>1, <1>7

\* The words of the strings of a, then those of b.
LEMMA CatWords ==
    ASSUME NEW a \in Seq(Texts), NEW b \in Seq(Texts)
    PROVE  WordsOf(Cat(a \o b)) = WordsOf(Cat(a)) \o WordsOf(Cat(b))
<1>1. Cat(a) \in Texts /\ Cat(b) \in Texts
  BY CatIsText
<1> QED BY <1>1, CatConcat, WordsConcat

-----------------------------------------------------------------------------
(* Commands in which no words can get lost.                                *)

\* The commands WordsKept is about.
Plain(s) ==
    /\ \A i \in 1..Len(s) : s[i] \notin Redirects
    /\ NothingSqueezed(s)

LEMMA PlainPart ==
    ASSUME NEW s \in Texts, Plain(s), NEW i \in Int, NEW n \in Int, 1 <= i, n <= Len(s)
    PROVE  Plain(SubSeq(s, i, n))
<1> DEFINE t == SubSeq(s, i, n)
<1>1. Len(s) \in Nat /\ \A k \in 1..Len(s) : s[k] \in Glyphs
  BY TextFacts
<1>2. \A k \in i..n : s[k] \in Glyphs
  BY <1>1
<1>3. /\ Len(t) = IF i <= n THEN n - i + 1 ELSE 0
      /\ \A k \in 1..(n - i + 1) : t[k] = s[i + k - 1]
  <2> HIDE DEF Glyphs
  <2> QED BY <1>2, SubSeqProperties
<1> HIDE DEF t
<1>4. ASSUME NEW k \in 1..Len(t)
      PROVE  i + k - 1 \in 1..Len(s) /\ t[k] = s[i + k - 1]
  <2>1. k \in 1..(n - i + 1) /\ i + k - 1 \in i..n
    BY <1>3
  <2> QED BY <1>1, <1>3, <2>1
<1>5. \A k \in 1..Len(t) : t[k] \notin Redirects
  BY <1>4 DEF Plain
<1>6. ASSUME NEW k \in 1..(Len(t) - 2), t[k] = "|", t[k + 2] = "|", t[k + 1] \in OneCharacter
      PROVE  FALSE
  <2>1. k \in 1..Len(t) /\ k + 1 \in 1..Len(t) /\ k + 2 \in 1..Len(t) /\ k \in Nat
    BY <1>1, <1>3
  <2> DEFINE m == i + k - 1
  <2>2. i + (k + 1) - 1 = m + 1 /\ i + (k + 2) - 1 = m + 2 /\ m \in Int
    BY <2>1
  <2> HIDE DEF m
  <2>3. s[m] = "|" /\ s[m + 2] = "|" /\ s[m + 1] \in OneCharacter /\ m \in 1..Len(s)
        /\ m + 2 \in 1..Len(s)
    <3>1. m \in 1..Len(s) /\ t[k] = s[m]
      BY <1>4, <2>1 DEF m
    <3>2. i + (k + 1) - 1 \in 1..Len(s) /\ t[k + 1] = s[i + (k + 1) - 1]
      BY <1>4, <2>1
    <3>3. i + (k + 2) - 1 \in 1..Len(s) /\ t[k + 2] = s[i + (k + 2) - 1]
      BY <1>4, <2>1
    <3> QED BY <1>6, <2>2, <3>1, <3>2, <3>3
  <2>4. m \in 1..(Len(s) - 2)
    BY <1>1, <2>3
  <2> QED BY <2>3, <2>4 DEF Plain, NothingSqueezed
<1> QED BY <1>5, <1>6 DEF Plain, NothingSqueezed, t

LEMMA CommandPartOfPlain ==
    ASSUME NEW s \in Texts, Plain(s)
    PROVE  CommandPart(s) = s
<1> DEFINE At(chain, i) ==
             /\ i <= Len(s)
             /\ s[i] \in Redirects
             /\ LET j == NonBlank(s, i + 1) IN
                  \/ j > Len(s)
                  \/ s[j] \in NameWords /\ (j = Len(s) \/ chain[j + 1])
                  \/ chain[j]
           D == 1..(Len(s) + 1)
           none == [i \in D |-> FALSE]
           c == CHOOSE c : c = [i \in D |-> At(c, i)]
<1>1. Len(s) \in Nat
  BY TextFacts
<1>2. RedirectChain(s) = c
  BY DEF RedirectChain
<1>3. \A i \in D : \A chain : At(chain, i) = FALSE
  <2> SUFFICES ASSUME NEW i \in D, NEW chain PROVE At(chain, i) = FALSE
    OBVIOUS
  <2>1. i <= Len(s) => s[i] \notin Redirects
    BY <1>1 DEF Plain
  <2> QED BY <2>1
<1> HIDE DEF At
<1>4. none = [i \in D |-> At(none, i)]
  BY <1>3
<1>5. c = [i \in D |-> At(c, i)]
  <2> HIDE DEF none
  <2> QED BY <1>4, Zenon
<1> HIDE DEF c
<1>6. \A i \in 1..Len(s) : c[i] = FALSE
  <2>1. \A i \in D : c[i] = At(c, i)
    <3> HIDE DEF D
    <3> QED BY <1>5
  <2>2. \A i \in 1..Len(s) : i \in D
    BY <1>1
  <2> QED BY <1>3, <2>1, <2>2
<1>7. RedirectStarts(s) = {}
  BY <1>2, <1>6 DEF RedirectStarts
<1> QED BY <1>7 DEF CommandPart

\* Where nothing is squeezed between two pipes, every match is counted.
LEMMA CountedOfPlain ==
    ASSUME NEW s \in Texts, Plain(s), NEW type
    PROVE  Counted(s, type) = Cardinality(Matches(s, type))
<1> DEFINE M == Matches(s, type)
<1>1. Len(s) \in Nat /\ M \in SUBSET (1..Len(s))
  BY TextFacts, CountedFacts
<1>2. PICK counts :
        /\ \A i \in 0..Len(s) : counts[i] = CountsAt(counts, s, type, i)
        /\ Counted(s, type) = Cardinality({i \in 1..Len(s) : counts[i]})
  BY CountsSolved
<1>3. ASSUME NEW i \in M, type = "Pipe", i > 2, i - 2 \in M
      PROVE  s[i - 1] \notin OneCharacter
  <2>1. s[i] = "|" /\ s[i - 2] = "|"
    BY <1>3 DEF Matches, Separator
  <2>2. i - 2 \in 1..(Len(s) - 2) /\ (i - 2) + 1 = i - 1 /\ (i - 2) + 2 = i
    BY <1>1, <1>3
  <2> QED BY <2>1, <2>2 DEF Plain, NothingSqueezed
<1> HIDE DEF M
<1>4. ASSUME NEW i \in 1..Len(s) PROVE counts[i] <=> i \in M
  <2>1. i \in 0..Len(s) /\ (i > 2 => i - 2 \in 0..Len(s))
    BY <1>1
  <2>2. counts[i] = CountsAt(counts, s, type, i)
    BY <1>2, <2>1
  <2>3. i > 2 /\ counts[i - 2] => i - 2 \in M
    <3>1. i > 2 => counts[i - 2] = CountsAt(counts, s, type, i - 2)
      BY <1>2, <2>1
    <3> QED BY <3>1 DEF CountsAt, M
  <2>4. i \in M => ~(type = "Pipe" /\ i > 2 /\ counts[i - 2] /\ s[i - 1] \in OneCharacter)
    BY <1>3, <2>3
  <2> QED BY <2>2, <2>4 DEF CountsAt, M
<1>5. {i \in 1..Len(s) : counts[i]} = M
  BY <1>1, <1>4
<1> QED BY <1>2, <1>5 DEF M

LEMMA NonBlankFacts ==
    ASSUME NEW s \in Texts, NEW i \in 1..(Len(s) + 1)
    PROVE  LET q == NonBlank(s, i)
           IN /\ q \in i..(Len(s) + 1)
              /\ q <= Len(s) => s[q] # Blank
              /\ \A k \in i..(q - 1) : s[k] = Blank
<1> DEFINE S == {j \in i..(Len(s) + 1) : j <= Len(s) => s[j] # Blank}
           q == First(S)
<1>1. Len(s) \in Nat
  BY TextFacts
<1>2. S \in SUBSET Nat /\ Len(s) + 1 \in S
  BY <1>1
<1>3. q \in S /\ \A m \in S : q <= m
  <2> HIDE DEF S
  <2> QED BY <1>2, FirstIsLeast
<1>4. NonBlank(s, i) = q
  BY DEF NonBlank
<1> HIDE DEF q
<1>5. q \in i..(Len(s) + 1) /\ (q <= Len(s) => s[q] # Blank)
  BY <1>3
<1>6. ASSUME NEW k \in i..(q - 1) PROVE s[k] = Blank
  <2>1. k \in i..(Len(s) + 1) /\ k < q /\ k <= Len(s) /\ ~(q <= k)
    BY <1>1, <1>5
  <2>2. k \notin S
    BY <1>3, <2>1
  <2> QED BY <2>1, <2>2
<1> QED BY <1>4, <1>5, <1>6

LEMMA NextBlankFacts ==
    ASSUME NEW s \in Texts, NEW i \in 1..(Len(s) + 1)
    PROVE  NextBlank(s, i) \in i..(Len(s) + 1)
<1> DEFINE S == {j \in i..(Len(s) + 1) : j <= Len(s) => s[j] = Blank}
<1>1. Len(s) \in Nat
  BY TextFacts
<1>2. S \in SUBSET Nat /\ Len(s) + 1 \in S
  BY <1>1
<1>3. First(S) \in S
  <2> HIDE DEF S
  <2> QED BY <1>2, FirstIsLeast
<1> QED BY <1>3 DEF NextBlank

\* Blanks and symbols are no words.
LEMMA SymbolsAreNoWords ==
    /\ Blank \notin Words /\ Quote \notin Words /\ "(" \notin Words /\ ")" \notin Words
    /\ \A type \in NodeTypes \ {"Executable"} : Separator[type] \notin Words
<1>1. Symbols \cap Words = {}
  BY WordsAssumption
<1>2. /\ Blank \in Symbols /\ Quote \in Symbols /\ "(" \in Symbols /\ ")" \in Symbols
      /\ "&&" \in Symbols /\ "||" \in Symbols /\ "|" \in Symbols /\ ";" \in Symbols
  BY DEF Symbols
<1>3. ASSUME NEW type \in NodeTypes \ {"Executable"} PROVE Separator[type] \in Symbols
  <2>1. type \in {"And", "Or", "Pipe", "Semicolon"}
    BY DEF NodeTypes, SequenceTypes
  <2>2. /\ Separator["And"] = "&&" /\ Separator["Or"] = "||"
        /\ Separator["Pipe"] = "|" /\ Separator["Semicolon"] = ";"
    BY DEF Separator
  <2> QED BY <1>2, <2>1, <2>2
<1> QED BY <1>1, <1>2, <1>3

\* remove_brackets_if_alone() removes no word.
LEMMA BracketsAreNoWords ==
    ASSUME NEW s \in Texts
    PROVE  WordsOf(BracketsRemoved(s)) = WordsOf(s)
<1> DEFINE Q == {j \in 0..Len(s) : j > 0 => s[j] # Blank}
           p == NonBlank(s, 1)
           q == Last(Q)
<1>1. Len(s) \in Nat
  BY TextFacts
<1>2. /\ p \in 1..(Len(s) + 1)
      /\ \A k \in 1..(p - 1) : s[k] = Blank
  <2>1. 1 \in 1..(Len(s) + 1)
    BY <1>1
  <2> QED BY <2>1, NonBlankFacts
<1>3. q \in Q /\ \A m \in Q : m <= q
  <2>1. Q \in SUBSET (0..Len(s)) /\ 0 \in Q
    BY <1>1
  <2> HIDE DEF Q
  <2> QED BY <1>1, <2>1, LastIsGreatest
<1>4. \/ BracketsRemoved(s) = s
      \/ /\ BracketsRemoved(s) = SubSeq(s, p + 1, q - 1)
         /\ p < q /\ s[p] = "(" /\ s[q] = ")"
  BY DEF BracketsRemoved
<1> HIDE DEF p, q
<1>5. ASSUME p < q, s[p] = "(", s[q] = ")"
      PROVE  WordsOf(SubSeq(s, p + 1, q - 1)) = WordsOf(s)
  <2>1. q \in 0..Len(s) /\ \A k \in (q + 1)..Len(s) : s[k] = Blank
    <3>1. q \in 0..Len(s)
      BY <1>3
    <3>2. ASSUME NEW k \in (q + 1)..Len(s) PROVE s[k] = Blank
      <4>1. k \in 0..Len(s) /\ k > 0 /\ ~(k <= q)
        BY <1>1, <3>1
      <4> QED BY <1>3, <4>1
    <3> QED BY <3>1, <3>2
  <2>2. \A k \in 1..((p + 1) - 1) : s[k] \notin Words
    <3> SUFFICES ASSUME NEW k \in 1..((p + 1) - 1) PROVE s[k] \notin Words
      OBVIOUS
    <3>1. k = p \/ k \in 1..(p - 1)
      BY <1>1, <1>2
    <3> QED BY <1>2, <1>5, <3>1, SymbolsAreNoWords
  <2>3. \A k \in ((q - 1) + 1)..Len(s) : s[k] \notin Words
    <3> SUFFICES ASSUME NEW k \in ((q - 1) + 1)..Len(s) PROVE s[k] \notin Words
      OBVIOUS
    <3>1. k = q \/ k \in (q + 1)..Len(s)
      BY <1>1, <2>1
    <3> QED BY <1>5, <2>1, <3>1, SymbolsAreNoWords
  <2>4. /\ 1 \in 1..(Len(s) + 1) /\ p + 1 \in 1..(Len(s) + 1)
        /\ q - 1 \in ((p + 1) - 1)..Len(s) /\ Len(s) \in (q - 1)..Len(s)
    BY <1>1, <1>2, <1>5, <2>1
  <2> DEFINE a == p + 1
             b == q - 1
             n == Len(s)
  <2>5. WordsOf(SubSeq(s, 1, Len(s))) = WordsOf(SubSeq(s, a, b))
    <3>1. /\ 1 \in 1..(Len(s) + 1) /\ a \in 1..(Len(s) + 1)
          /\ b \in (a - 1)..Len(s) /\ n \in b..Len(s)
          /\ \A k \in 1..(a - 1) : s[k] \notin Words
          /\ \A k \in (b + 1)..n : s[k] \notin Words
      BY <2>2, <2>3, <2>4
    <3> HIDE DEF a, b, n
    <3>2. WordsOf(SubSeq(s, 1, n)) = WordsOf(SubSeq(s, a, b))
      BY <3>1, WordsBetween
    <3> QED BY <3>2 DEF n
  <2>6. SubSeq(s, 1, Len(s)) = s
    BY WholeText
  <2> QED BY <2>5, <2>6
<1> QED BY <1>4, <1>5

-----------------------------------------------------------------------------
(* The pieces of a command.                                                *)

\* A string without words in its midst.
LEMMA WordsAcross ==
    ASSUME NEW s \in Texts, NEW m \in 1..Len(s), s[m] \notin Words, NEW e \in m..Len(s)
    PROVE  WordsOf(SubSeq(s, 1, e))
             = WordsOf(SubSeq(s, 1, m - 1)) \o WordsOf(SubSeq(s, m + 1, e))
<1>1. Len(s) \in Nat
  BY TextFacts
<1>2. 1 \in 1..(Len(s) + 1) /\ m \in (1 - 1)..Len(s)
  BY <1>1
<1>3. WordsOf(SubSeq(s, 1, e)) = WordsOf(SubSeq(s, 1, m)) \o WordsOf(SubSeq(s, m + 1, e))
  BY <1>2, WordsSplit
<1> DEFINE b == m - 1
<1>4. b \in (1 - 1)..Len(s) /\ m \in b..Len(s) /\ 1 \in 1..(Len(s) + 1)
  BY <1>1
<1>5. \A k \in 1..(1 - 1) : s[k] \notin Words
  OBVIOUS
<1>6. \A k \in (b + 1)..m : s[k] \notin Words
  <2>1. \A k \in (b + 1)..m : k = m
    OBVIOUS
  <2> QED BY <2>1
<1> HIDE DEF b
<1>7. WordsOf(SubSeq(s, 1, m)) = WordsOf(SubSeq(s, 1, b))
  BY <1>4, <1>5, <1>6, WordsBetween
<1> QED BY <1>3, <1>7 DEF b

LEMMA CutsFacts ==
    ASSUME NEW l \in Nat, NEW M \in SUBSET (1..l), IsFiniteSet(M)
    PROVE  LET c == Cardinality(M)
               cuts == <<0>> \o Ascending(M) \o <<l + 1>>
           IN /\ c \in Nat
              /\ cuts[1] = 0 /\ cuts[c + 2] = l + 1
              /\ \A k \in 2..(c + 1) : cuts[k] \in M
              /\ \A k \in 1..(c + 1) : /\ cuts[k] \in 0..l /\ cuts[k + 1] \in 1..(l + 1)
                                       /\ cuts[k] < cuts[k + 1]
<1> DEFINE c == Cardinality(M)
           first == <<0>> \o Ascending(M)
           last == <<l + 1>>
           cuts == first \o last
           D == 0..(l + 1)
<1>1. M \in SUBSET Nat
  OBVIOUS
<1>2. c \in Nat /\ Ascending(M) \in [1..c -> M]
  BY <1>1, AscendingFacts
<1>3. \A i, j \in 1..c : i < j => Ascending(M)[i] < Ascending(M)[j]
  BY <1>1, AscendingOrder
<1> HIDE DEF c
<1>4. Ascending(M) \in Seq(D) /\ Len(Ascending(M)) = c
  <2>1. Ascending(M) \in [1..c -> D]
    <3>1. \A m \in M : m \in D
      OBVIOUS
    <3> HIDE DEF D
    <3> QED BY <1>2, <3>1
  <2> HIDE DEF D
  <2> QED BY <1>2, <2>1
<1>5. <<0>> \in Seq(D) /\ last \in Seq(D) /\ Len(<<0>>) = 1 /\ Len(last) = 1 /\ last[1] = l + 1
  OBVIOUS
<1> HIDE DEF D, last
<1>6. /\ first \in Seq(D) /\ Len(first) = 1 + c
      /\ \A i \in 1..(1 + c) : first[i] = IF i <= 1 THEN 0 ELSE Ascending(M)[i - 1]
  <2>1. /\ first \in Seq(D) /\ Len(first) = 1 + c
        /\ \A i \in 1..(1 + c) : first[i] = IF i <= 1 THEN <<0>>[i] ELSE Ascending(M)[i - 1]
    BY <1>4, <1>5, ConcatProperties
  <2>2. \A i \in 1..(1 + c) : i <= 1 => <<0>>[i] = 0
    OBVIOUS
  <2> HIDE DEF first
  <2> QED BY <2>1, <2>2
<1> HIDE DEF first
<1>7. /\ Len(cuts) = (1 + c) + 1
      /\ \A i \in 1..((1 + c) + 1) : cuts[i] = IF i <= 1 + c THEN first[i] ELSE last[i - (1 + c)]
  <2>1. /\ Len(first \o last) = Len(first) + Len(last)
        /\ \A i \in 1..(Len(first) + Len(last)) :
             (first \o last)[i] = IF i <= Len(first) THEN first[i] ELSE last[i - Len(first)]
    BY <1>5, <1>6, ConcatProperties
  <2> QED BY <1>5, <1>6, <2>1
<1> HIDE DEF cuts
<1>8. cuts[1] = 0 /\ cuts[c + 2] = l + 1
  <2>1. 1 \in 1..(1 + c) /\ 1 \in 1..((1 + c) + 1) /\ 1 <= 1 + c
    BY <1>2
  <2>2. c + 2 \in 1..((1 + c) + 1) /\ ~(c + 2 <= 1 + c) /\ (c + 2) - (1 + c) = 1
    BY <1>2
  <2> QED BY <1>5, <1>6, <1>7, <2>1, <2>2
<1>9. ASSUME NEW k \in 2..(c + 1) PROVE cuts[k] = Ascending(M)[k - 1] /\ k - 1 \in 1..c
  <2>1. k \in 1..(1 + c) /\ k \in 1..((1 + c) + 1) /\ k <= 1 + c /\ ~(k <= 1) /\ k - 1 \in 1..c
    BY <1>2
  <2> QED BY <1>6, <1>7, <2>1
<1>10. \A k \in 2..(c + 1) : cuts[k] \in M
  BY <1>2, <1>9
<1>0. \A m \in M : m \in Nat /\ m \in 0..l /\ m \in 1..(l + 1) /\ 0 < m /\ m < l + 1
  OBVIOUS
<1>11. ASSUME NEW k \in 1..(c + 1)
       PROVE  cuts[k] \in 0..l /\ cuts[k + 1] \in 1..(l + 1) /\ cuts[k] < cuts[k + 1]
  <2>1. cuts[k] \in 0..l
    <3>1. k = 1 \/ k \in 2..(c + 1)
      BY <1>2
    <3>2. k = 1 => cuts[k] = 0 /\ 0 \in 0..l
      BY <1>8
    <3>3. k \in 2..(c + 1) => cuts[k] \in M
      BY <1>10
    <3> QED BY <1>0, <3>1, <3>2, <3>3
  <2>2. CASE k = c + 1
    <3>1. cuts[k + 1] = l + 1 /\ l + 1 \in 1..(l + 1)
      BY <1>2, <1>8, <2>2
    <3> QED BY <2>1, <3>1
  <2>3. CASE k # c + 1
    <3>1. k + 1 \in 2..(c + 1)
      BY <1>2, <2>3
    <3>2. cuts[k + 1] \in M
      BY <1>10, <3>1
    <3>3. CASE k = 1
      BY <1>0, <1>8, <2>1, <3>2, <3>3
    <3>4. CASE k # 1
      <4>1. k \in 2..(c + 1) /\ (k + 1) - 1 = k
        BY <1>2, <3>4
      <4>2. cuts[k] = Ascending(M)[k - 1] /\ k - 1 \in 1..c
        BY <1>9, <4>1
      <4>3. cuts[k + 1] = Ascending(M)[k] /\ k \in 1..c
        BY <1>9, <3>1, <4>1
      <4>4. k - 1 < k
        BY <1>2
      <4>5. Ascending(M)[k - 1] < Ascending(M)[k]
        BY <1>3, <4>2, <4>3, <4>4
      <4> QED BY <1>0, <2>1, <3>2, <4>2, <4>3, <4>5
    <3> QED BY <3>3, <3>4
  <2> QED BY <2>2, <2>3
<1> QED BY <1>2, <1>8, <1>10, <1>11 DEF c, cuts, first, last

\* split_obfuscated_string() drops nothing but separators.
LEMMA PiecesKeepWords ==
    ASSUME NEW s \in Texts, Plain(s), NEW type \in NodeTypes \ {"Executable"}
    PROVE  /\ WordsOf(Cat(Pieces(s, type))) = WordsOf(s)
           /\ \A k \in 1..Len(Pieces(s, type)) : Plain(Pieces(s, type)[k])
<1> DEFINE M == Matches(s, type)
           l == Len(s)
           c == Cardinality(M)
           cuts == <<0>> \o Ascending(M) \o <<l + 1>>
           pieces == Pieces(s, type)
<1>1. l \in Nat /\ M \in SUBSET (1..l) /\ IsFiniteSet(M) /\ Counted(s, type) = c
  BY TextFacts, CountedFacts, CountedOfPlain
<1>2. \A i \in M : s[i] \notin Words
  BY SymbolsAreNoWords DEF Matches
<1>3. /\ c \in Nat
      /\ cuts[1] = 0 /\ cuts[c + 2] = l + 1
      /\ \A k \in 2..(c + 1) : cuts[k] \in M
      /\ \A k \in 1..(c + 1) : /\ cuts[k] \in 0..l /\ cuts[k + 1] \in 1..(l + 1)
                               /\ cuts[k] < cuts[k + 1]
  <2> HIDE DEF M, l
  <2> QED BY <1>1, CutsFacts
<1>4. /\ pieces \in Seq(Texts) /\ Len(pieces) = c + 1
      /\ \A k \in 1..(c + 1) : pieces[k] = SubSeq(s, cuts[k] + 1, cuts[k + 1] - 1)
  <2>1. pieces \in Seq(Texts) /\ Len(pieces) = c + 1
    BY <1>1, PiecesAreTexts
  <2>2. pieces = [k \in 1..(c + 1) |-> SubSeq(s, cuts[k] + 1, cuts[k + 1] - 1)]
    BY <1>1 DEF Pieces
  <2> HIDE DEF pieces, cuts, c
  <2> QED BY <2>1, <2>2
<1> HIDE DEF M, l, c, cuts, pieces
<1>5. ASSUME NEW k \in 1..(c + 1) PROVE Plain(pieces[k])
  <2> DEFINE a == cuts[k] + 1
             b == cuts[k + 1] - 1
  <2>1. a \in Int /\ b \in Int /\ 1 <= a /\ b <= Len(s)
    BY SMTT(60), <1>1, <1>3 DEF l
  <2> HIDE DEF a, b
  <2>2. Plain(SubSeq(s, a, b))
    BY <2>1, PlainPart
  <2> QED BY <1>4, <2>2 DEF a, b
<1>6. PICK joined \in [1..(c + 1) -> Texts] :
        /\ joined[1] = pieces[1]
        /\ \A i \in 2..(c + 1) : joined[i] = joined[i - 1] \o pieces[i]
        /\ Cat(pieces) = joined[c + 1]
  <2>1. \E joined \in [1..Len(pieces) -> Texts] :
          /\ pieces # <<>> => joined[1] = pieces[1]
          /\ \A i \in 2..Len(pieces) : joined[i] = joined[i - 1] \o pieces[i]
          /\ Cat(pieces) = IF pieces = <<>> THEN <<>> ELSE joined[Len(pieces)]
    BY <1>4, CatSolved
  <2>2. pieces # <<>>
    <3>1. Len(<<>>) = 0
      BY TextFacts
    <3> QED BY <1>3, <1>4, <3>1
  <2> QED BY <1>4, <2>1, <2>2
<1> DEFINE Upto(k) == WordsOf(SubSeq(s, 1, cuts[k + 1] - 1))
           Bad == {k \in 0..(c + 1) : k > 0 /\ WordsOf(joined[k]) # Upto(k)}
<1>7. WordsOf(joined[1]) = Upto(1)
  <2>1. 1 \in 1..(c + 1) /\ 0 + 1 = 1
    BY <1>3
  <2>2. joined[1] = SubSeq(s, cuts[1] + 1, cuts[1 + 1] - 1) /\ cuts[1] + 1 = 1
    BY <1>3, <1>4, <1>6, <2>1
  <2> QED BY <2>2
<1>8. ASSUME NEW k \in 2..(c + 1), WordsOf(joined[k - 1]) = Upto(k - 1)
      PROVE  WordsOf(joined[k]) = Upto(k)
  <2> DEFINE m == cuts[k]
             e == cuts[k + 1] - 1
  <2>1. /\ k \in 1..(c + 1) /\ k - 1 \in 1..(c + 1) /\ (k - 1) + 1 = k
    BY <1>3
  <2>2. m \in 1..Len(s) /\ s[m] \notin Words /\ e \in m..Len(s)
    <3> DEFINE d == cuts[k + 1]
    <3>1. m \in M /\ m < d /\ d \in 1..(l + 1) /\ e = d - 1
      BY <1>3, <2>1
    <3>2. m \in 1..l /\ s[m] \notin Words
      BY <1>1, <1>2, <3>1
    <3> HIDE DEF m, d, e
    <3>3. e \in m..l
      BY <1>1, <3>1, <3>2
    <3> QED BY <3>2, <3>3 DEF l
  <2>3. /\ joined[k] = joined[k - 1] \o SubSeq(s, m + 1, e)
        /\ joined[k - 1] \in Texts
    BY <1>4, <1>6, <2>1
  <2>4. WordsOf(joined[k - 1]) = WordsOf(SubSeq(s, 1, m - 1))
    BY <1>8, <2>1
  <2>5. Upto(k) = WordsOf(SubSeq(s, 1, e))
    OBVIOUS
  <2> HIDE DEF m, e, Upto
  <2>6. SubSeq(s, m + 1, e) \in Texts
    <3>1. m + 1 \in Int /\ e \in Int /\ 1 <= m + 1 /\ e <= Len(s)
      BY <1>1, <2>2 DEF l
    <3> QED BY <3>1, PartOfText
  <2>7. WordsOf(joined[k]) = WordsOf(joined[k - 1]) \o WordsOf(SubSeq(s, m + 1, e))
    BY <2>3, <2>6, WordsConcat
  <2>8. WordsOf(SubSeq(s, 1, e)) = WordsOf(SubSeq(s, 1, m - 1)) \o WordsOf(SubSeq(s, m + 1, e))
    BY <2>2, WordsAcross
  <2> QED BY <2>4, <2>5, <2>7, <2>8
<1> HIDE DEF Upto
<1>9. ASSUME NEW k \in Bad PROVE k > 0 /\ k - 1 \in Bad
  <2>1. k \in 0..(c + 1) /\ k > 0 /\ k # 1
    BY <1>7
  <2>2. k \in 2..(c + 1) /\ k - 1 \in 0..(c + 1) /\ k - 1 > 0
    BY <1>3, <2>1
  <2> QED BY <1>8, <2>2
<1>10. Bad = {}
  <2>1. Bad \in SUBSET (0..(c + 1)) /\ c + 1 \in Nat
    BY <1>3
  <2> HIDE DEF Bad
  <2> QED BY <1>9, <2>1, StepDown
<1>11. WordsOf(joined[c + 1]) = Upto(c + 1)
  <2>1. c + 1 \in 0..(c + 1) /\ c + 1 > 0
    BY <1>3
  <2> QED BY <1>10, <2>1
<1>12. Upto(c + 1) = WordsOf(s)
  <2>1. cuts[(c + 1) + 1] - 1 = l
    <3>1. (c + 1) + 1 = c + 2 /\ (l + 1) - 1 = l
      BY <1>1, <1>3
    <3> QED BY <1>3, <3>1
  <2> QED BY <2>1, WholeText DEF Upto, l
<1>13. WordsOf(Cat(pieces)) = WordsOf(s)
  BY <1>6, <1>11, <1>12
<1> QED BY <1>4, <1>5, <1>13 DEF pieces

-----------------------------------------------------------------------------
(* The arguments of an executable.                                         *)

FoundArguments ==
    [text : Texts, quoted : BOOLEAN, open : Int, close : Int, next : Nat]

LEMMA ClosingFacts ==
    ASSUME NEW s \in Texts, NEW q \in 1..(Len(s) + 1), IsQuoted(s, q)
    PROVE  /\ First(Closing(s, q)) \in (q + 2)..Len(s)
           /\ s[q] = Quote /\ s[First(Closing(s, q))] = Quote
<1>1. Len(s) \in Nat
  BY TextFacts
<1>2. Closing(s, q) \in SUBSET Nat /\ Closing(s, q) # {} /\ s[q] = Quote
  BY <1>1 DEF Closing, IsQuoted
<1>3. First(Closing(s, q)) \in Closing(s, q)
  BY <1>2, FirstIsLeast
<1> QED BY <1>2, <1>3 DEF Closing

\* What was found from p on leaves out no word.
IsFoundAt(s, p, arg, a, b) ==
    /\ a \in p..(Len(s) + 1) /\ b \in (a - 1)..Len(s)
    /\ arg.text = SubSeq(s, a, b)
    /\ arg.next \in (b + 1)..(Len(s) + 1) /\ p < arg.next
    /\ \A k \in p..(a - 1) : s[k] \notin Words
    /\ \A k \in (b + 1)..(arg.next - 1) : s[k] \notin Words

LEMMA ArgumentAtFacts ==
    ASSUME NEW s \in Texts, NEW p \in 1..Len(s), s[p] # Quote \/ IsQuoted(s, p)
    PROVE  /\ ArgumentAt(s, p) \in FoundArguments
           /\ \E a, b \in Nat : IsFoundAt(s, p, ArgumentAt(s, p), a, b)
<1> DEFINE q == NonBlank(s, p)
           close == First(Closing(s, q))
           after == NonBlank(s, close + 1)
           quoted == [text |-> SubSeq(s, q + 1, close - 1), quoted |-> TRUE,
                      open |-> q, close |-> close, next |-> after]
           start == IF q <= Len(s) /\ s[q] # Quote THEN q ELSE q - 1
           end == NextBlank(s, start + 1)
           further == NonBlank(s, end)
           plain == [text |-> SubSeq(s, start, end - 1), quoted |-> FALSE,
                     open |-> start, close |-> end, next |-> further]
<1>1. Len(s) \in Nat /\ p \in 1..(Len(s) + 1)
  BY TextFacts
<1>2. /\ q \in p..(Len(s) + 1)
      /\ q <= Len(s) => s[q] # Blank
      /\ \A k \in p..(q - 1) : s[k] = Blank
  BY <1>1, NonBlankFacts
<1>3. \/ IsQuoted(s, q) /\ ArgumentAt(s, p) = quoted
      \/ /\ ~(IsQuoted(s, q) /\ start < p) /\ ArgumentAt(s, p) = plain
  BY DEF ArgumentAt
<1> HIDE DEF q
<1>4. Blank \notin Words /\ Quote \notin Words
  BY SymbolsAreNoWords
<1>5. ASSUME IsQuoted(s, q)
      PROVE  /\ quoted \in FoundArguments
             /\ \E a, b \in Nat : IsFoundAt(s, p, quoted, a, b)
  <2>1. close \in (q + 2)..Len(s) /\ s[q] = Quote /\ s[close] = Quote /\ q \in 1..(Len(s) + 1)
    <3>1. q \in 1..(Len(s) + 1)
      BY <1>1, <1>2
    <3> QED BY <1>5, <3>1, ClosingFacts
  <2> HIDE DEF close
  <2>2. /\ after \in (close + 1)..(Len(s) + 1)
        /\ \A k \in (close + 1)..(after - 1) : s[k] = Blank
    <3>1. close + 1 \in 1..(Len(s) + 1)
      BY <1>1, <2>1
    <3> QED BY <3>1, NonBlankFacts
  <2> HIDE DEF after
  <2>3. q \in Nat /\ close \in Nat /\ after \in Nat /\ q + 1 \in Nat /\ close - 1 \in Nat
        /\ q + 1 \in Int /\ close - 1 \in Int /\ 1 <= q + 1 /\ close - 1 <= Len(s)
    BY <1>1, <2>1, <2>2
  <2>4. SubSeq(s, q + 1, close - 1) \in Texts
    BY <2>3, PartOfText
  <2>5. quoted \in FoundArguments
    BY <2>3, <2>4 DEF FoundArguments
  <2>6. ASSUME NEW k \in p..((q + 1) - 1) PROVE s[k] \notin Words
    <3>1. k = q \/ k \in p..(q - 1)
      BY <1>1, <1>2, <2>3
    <3> QED BY <1>2, <1>4, <2>1, <3>1
  <2>7. ASSUME NEW k \in ((close - 1) + 1)..(after - 1) PROVE s[k] \notin Words
    <3>1. k = close \/ k \in (close + 1)..(after - 1)
      BY <2>3
    <3> QED BY <1>4, <2>1, <2>2, <3>1
  <2>8. IsFoundAt(s, p, quoted, q + 1, close - 1)
    <3>1. quoted.text = SubSeq(s, q + 1, close - 1) /\ quoted.next = after
      OBVIOUS
    <3>2. /\ q + 1 \in p..(Len(s) + 1) /\ close - 1 \in ((q + 1) - 1)..Len(s)
          /\ after \in ((close - 1) + 1)..(Len(s) + 1) /\ p < after
      BY <1>1, <1>2, <2>1, <2>2, <2>3
    <3> HIDE DEF quoted
    <3> QED BY <2>6, <2>7, <3>1, <3>2 DEF IsFoundAt
  <2> QED BY <2>3, <2>5, <2>8
<1>6. ASSUME ~(IsQuoted(s, q) /\ start < p)
      PROVE  /\ plain \in FoundArguments
             /\ \E a, b \in Nat : IsFoundAt(s, p, plain, a, b)
  <2>1. /\ start \in p..Len(s) /\ start <= q
    <3>1. CASE q <= Len(s) /\ s[q] # Quote
      BY <1>1, <1>2, <3>1
    <3>2. CASE q = Len(s) + 1
      BY <1>1, <1>2, <3>2
    <3>3. CASE q <= Len(s) /\ s[q] = Quote
      <4>1. start = q - 1
        BY <3>3
      <4>2. q # p
        <5>1. q = p => IsQuoted(s, q) /\ start < p
          BY <1>1, <3>3, <4>1
        <5> QED BY <1>6, <5>1
      <4> QED BY <1>1, <1>2, <3>3, <4>1, <4>2
    <3> QED BY <1>1, <1>2, <3>1, <3>2, <3>3
  <2> HIDE DEF start
  <2>2. end \in (start + 1)..(Len(s) + 1)
    <3>1. start + 1 \in 1..(Len(s) + 1)
      BY <1>1, <2>1
    <3> QED BY <3>1, NextBlankFacts
  <2> HIDE DEF end
  <2>3. further \in end..(Len(s) + 1) /\ \A k \in end..(further - 1) : s[k] = Blank
    <3>1. end \in 1..(Len(s) + 1)
      BY <1>1, <2>1, <2>2
    <3> QED BY <3>1, NonBlankFacts
  <2> HIDE DEF further
  <2>4. /\ start \in Nat /\ end \in Nat /\ further \in Nat /\ end - 1 \in Nat
        /\ start \in Int /\ end \in Int /\ end - 1 \in Int /\ 1 <= start /\ end - 1 <= Len(s)
        /\ (end - 1) + 1 = end
    BY <1>1, <2>1, <2>2, <2>3
  <2>5. SubSeq(s, start, end - 1) \in Texts
    BY <2>4, PartOfText
  <2>6. plain \in FoundArguments
    BY <2>4, <2>5 DEF FoundArguments
  <2>7. ASSUME NEW k \in p..(start - 1) PROVE s[k] \notin Words
    <3>1. k \in p..(q - 1)
      BY <1>1, <1>2, <2>1, <2>4
    <3> QED BY <1>2, <1>4, <3>1
  <2>8. IsFoundAt(s, p, plain, start, end - 1)
    <3>1. plain.text = SubSeq(s, start, end - 1) /\ plain.next = further
      OBVIOUS
    <3>2. /\ start \in p..(Len(s) + 1) /\ end - 1 \in (start - 1)..Len(s)
          /\ further \in end..(Len(s) + 1) /\ p < further
      BY <1>1, <2>1, <2>2, <2>3, <2>4
    <3>3. \A k \in end..(further - 1) : s[k] \notin Words
      BY <1>4, <2>3
    <3> HIDE DEF plain
    <3> QED BY <2>4, <2>7, <3>1, <3>2, <3>3 DEF IsFoundAt
  <2> QED BY <2>4, <2>6, <2>8
<1> HIDE DEF quoted, plain, start
<1> QED BY <1>3, <1>5, <1>6

ArgsAt(args, s, i) ==
    IF ArgumentStarts(s, i) = {} THEN <<>>
    ELSE LET arg == ArgumentAt(s, First(ArgumentStarts(s, i)))
         IN <<arg>> \o args[arg.next]

LEMMA ArgumentsUnfolds ==
    ASSUME NEW s, NEW g, g = [i \in 1..(Len(s) + 1) |-> ArgsAt(g, s, i)]
    PROVE  \E args : /\ args = [i \in 1..(Len(s) + 1) |-> ArgsAt(args, s, i)]
                     /\ Arguments(s) = args[1]
BY Zenon DEF Arguments, ArgsAt

\* The argument found from i on, and what is left.
LEMMA ArgumentFound ==
    ASSUME NEW s \in Texts, NEW i \in 1..(Len(s) + 1), ArgumentStarts(s, i) # {}
    PROVE  LET arg == ArgumentAt(s, First(ArgumentStarts(s, i)))
           IN /\ arg \in FoundArguments
              /\ arg.next \in (i + 1)..(Len(s) + 1)
              /\ WordsOf(SubSeq(s, i, Len(s)))
                   = WordsOf(arg.text) \o WordsOf(SubSeq(s, arg.next, Len(s)))
<1> DEFINE S == ArgumentStarts(s, i)
           p == First(S)
           arg == ArgumentAt(s, p)
           next == arg.next
           l == Len(s)
<1>1. l \in Nat
  BY TextFacts
<1>2. S # {} /\ S \in SUBSET Nat /\ \A m \in S : m \in i..l /\ (s[m] # Quote \/ IsQuoted(s, m))
  BY <1>1 DEF ArgumentStarts
<1>3. p \in S /\ \A m \in S : p <= m
  <2> HIDE DEF S
  <2> QED BY <1>2, FirstIsLeast
<1>4. p \in i..l /\ (s[p] # Quote \/ IsQuoted(s, p))
  <2> HIDE DEF S, p
  <2> QED BY <1>2, <1>3
<1>5. ASSUME NEW k \in i..(p - 1) PROVE s[k] \notin Words
  <2>1. k \in i..l /\ k < p /\ ~(p <= k)
    <3> HIDE DEF p, l
    <3> QED BY <1>1, <1>4
  <2>2. k \notin S
    BY <1>3, <2>1
  <2>3. s[k] = Quote
    BY <2>1, <2>2 DEF ArgumentStarts
  <2> QED BY <2>3, SymbolsAreNoWords
<1> HIDE DEF S, p, l
<1>6. arg \in FoundArguments /\ \E a, b \in Nat : IsFoundAt(s, p, arg, a, b)
  <2>1. p \in 1..Len(s)
    BY <1>1, <1>4 DEF l
  <2> QED BY <1>4, <2>1, ArgumentAtFacts
<1>7. PICK a \in Nat, b \in Nat : IsFoundAt(s, p, arg, a, b)
  BY <1>6
<1> HIDE DEF arg
<1>8. /\ a \in p..(l + 1) /\ b \in (a - 1)..l /\ arg.text = SubSeq(s, a, b)
      /\ next \in (b + 1)..(l + 1) /\ p < next
      /\ \A k \in p..(a - 1) : s[k] \notin Words
      /\ \A k \in (b + 1)..(next - 1) : s[k] \notin Words
  BY <1>7 DEF IsFoundAt, l
<1> HIDE DEF next
<1>9. next \in (i + 1)..(l + 1)
  BY <1>1, <1>4, <1>8
<1> DEFINE n == next - 1
<1>10. WordsOf(SubSeq(s, i, n)) = WordsOf(SubSeq(s, a, b))
  <2>1. /\ a \in i..(Len(s) + 1) /\ b \in (a - 1)..Len(s) /\ n \in b..Len(s)
    BY <1>1, <1>4, <1>8, <1>9 DEF l
  <2>2. ASSUME NEW k \in i..(a - 1) PROVE s[k] \notin Words
    <3>1. k \in i..(p - 1) \/ k \in p..(a - 1)
      BY <1>1, <1>4, <1>8
    <3> QED BY <1>5, <1>8, <3>1
  <2>3. \A k \in (b + 1)..n : s[k] \notin Words
    BY <1>8
  <2> HIDE DEF n
  <2> QED BY <2>1, <2>2, <2>3, WordsBetween
<1>11. WordsOf(SubSeq(s, i, l)) = WordsOf(SubSeq(s, i, n)) \o WordsOf(SubSeq(s, n + 1, l))
  <2>1. n \in (i - 1)..Len(s) /\ l \in n..Len(s)
    BY <1>1, <1>9 DEF l
  <2> HIDE DEF n
  <2> QED BY <2>1, WordsSplit
<1>12. n + 1 = next
  BY <1>1, <1>9
<1> HIDE DEF n
<1> QED BY <1>6, <1>8, <1>9, <1>10, <1>11, <1>12 DEF arg, next, p, S, l

TextsOf(args) == [k \in 1..Len(args) |-> args[k].text]

LEMMA TextsOfFacts ==
    ASSUME NEW args \in Seq(FoundArguments)
    PROVE  /\ TextsOf(args) \in Seq(Texts) /\ Len(TextsOf(args)) = Len(args)
           /\ \A k \in 1..Len(args) : TextsOf(args)[k] = args[k].text
<1>1. Len(args) \in Nat /\ \A k \in 1..Len(args) : args[k] \in FoundArguments
  BY LenProperties, ElementOfSeq
<1>2. \A k \in 1..Len(args) : args[k].text \in Texts
  BY <1>1 DEF FoundArguments
<1>3. TextsOf(args) \in [1..Len(args) -> Texts]
  BY <1>2 DEF TextsOf
<1>4. TextsOf(args) \in Seq(Texts) /\ Len(TextsOf(args)) = Len(args)
  BY <1>1, <1>3
<1> QED BY <1>4 DEF TextsOf

LEMMA TextsOfMore ==
    ASSUME NEW arg \in FoundArguments, NEW rest \in Seq(FoundArguments)
    PROVE  /\ <<arg>> \o rest \in Seq(FoundArguments)
           /\ TextsOf(<<arg>> \o rest) = <<arg.text>> \o TextsOf(rest)
<1> DEFINE all == <<arg>> \o rest
           texts == <<arg.text>> \o TextsOf(rest)
           n == Len(rest)
<1>1. <<arg>> \in Seq(FoundArguments) /\ Len(<<arg>>) = 1 /\ <<arg>>[1] = arg
  OBVIOUS
<1>2. arg.text \in Texts
  BY DEF FoundArguments
<1>3. <<arg.text>> \in Seq(Texts) /\ Len(<<arg.text>>) = 1 /\ <<arg.text>>[1] = arg.text
  BY <1>2
<1>4. n \in Nat
  BY LenProperties
<1>5. TextsOf(rest) \in Seq(Texts) /\ Len(TextsOf(rest)) = n
      /\ \A k \in 1..n : TextsOf(rest)[k] = rest[k].text
  BY TextsOfFacts
<1>6. /\ all \in Seq(FoundArguments) /\ Len(all) = 1 + n
      /\ \A k \in 1..(1 + n) : all[k] = IF k <= 1 THEN <<arg>>[k] ELSE rest[k - 1]
  BY <1>1, ConcatProperties
<1>7. /\ texts \in Seq(Texts) /\ Len(texts) = 1 + n
      /\ \A k \in 1..(1 + n) : texts[k] = IF k <= 1 THEN <<arg.text>>[k] ELSE TextsOf(rest)[k - 1]
  BY <1>3, <1>5, ConcatProperties
<1> HIDE DEF all, texts
<1>8. TextsOf(all) \in Seq(Texts) /\ Len(TextsOf(all)) = 1 + n
      /\ \A k \in 1..(1 + n) : TextsOf(all)[k] = all[k].text
  BY <1>6, TextsOfFacts
<1> HIDE DEF n
<1>9. ASSUME NEW k \in 1..(1 + n) PROVE TextsOf(all)[k] = texts[k]
  <2>1. CASE k = 1
    BY <1>1, <1>3, <1>6, <1>7, <1>8, <2>1
  <2>2. CASE k # 1
    <3>1. ~(k <= 1) /\ k - 1 \in 1..n
      BY <1>4, <2>2
    <3> QED BY <1>5, <1>6, <1>7, <1>8, <3>1
  <2> QED BY <2>1, <2>2
<1>10. TextsOf(all) = texts
  BY <1>7, <1>8, <1>9, SeqEqual
<1> QED BY <1>6, <1>10 DEF all, texts

\* The arguments of a string have its words.
LEMMA ArgumentsKeepWords ==
    ASSUME NEW s \in Texts
    PROVE  /\ Arguments(s) \in Seq(FoundArguments)
           /\ WordsOf(Cat(TextsOf(Arguments(s)))) = WordsOf(s)
<1> DEFINE l == Len(s)
           D == 1..(Len(s) + 1)
           V == Seq(FoundArguments)
           step == [i \in D |-> [g \in [D -> V] |-> ArgsAt(g, s, i)]]
           rank == [i \in D |-> Len(s) + 1 - i]
           Rest(i) == SubSeq(s, i, Len(s))
           Good(args, i) == /\ args[i] \in V
                            /\ WordsOf(Cat(TextsOf(args[i]))) = WordsOf(Rest(i))
<1>1. Len(s) \in Nat
  BY TextFacts
<1>2. <<>> \in V
  BY EmptySeq
<1>3. ASSUME NEW i \in D, ArgumentStarts(s, i) # {}
      PROVE  LET arg == ArgumentAt(s, First(ArgumentStarts(s, i)))
             IN /\ arg \in FoundArguments
                /\ arg.next \in D /\ rank[arg.next] < rank[i]
                /\ WordsOf(Rest(i)) = WordsOf(arg.text) \o WordsOf(Rest(arg.next))
  <2> DEFINE arg == ArgumentAt(s, First(ArgumentStarts(s, i)))
             next == arg.next
  <2>1. /\ arg \in FoundArguments /\ next \in (i + 1)..(Len(s) + 1)
        /\ WordsOf(Rest(i)) = WordsOf(arg.text) \o WordsOf(Rest(next))
    BY <1>3, ArgumentFound
  <2> HIDE DEF next
  <2>2. next \in D /\ rank[next] < rank[i]
    <3>1. next \in D /\ i < next
      BY <1>1, <2>1
    <3> QED BY <1>1, <3>1
  <2> HIDE DEF D, rank, Rest, arg
  <2> QED BY <2>1, <2>2 DEF next, arg
<1>4. ASSUME NEW i \in D, NEW g,
             \A m \in D : rank[m] < rank[i] => g[m] \in V
      PROVE  ArgsAt(g, s, i) \in V
  <2>1. CASE ArgumentStarts(s, i) = {}
    BY <1>2, <2>1 DEF ArgsAt
  <2>2. CASE ArgumentStarts(s, i) # {}
    <3> DEFINE arg == ArgumentAt(s, First(ArgumentStarts(s, i)))
               next == arg.next
    <3>1. arg \in FoundArguments /\ next \in D /\ rank[next] < rank[i]
      BY <1>3, <2>2
    <3>2. ArgsAt(g, s, i) = <<arg>> \o g[next]
      BY <2>2 DEF ArgsAt
    <3> HIDE DEF arg, next, D, rank
    <3>3. g[next] \in V
      BY <1>4, <3>1
    <3> QED BY <3>1, <3>2, <3>3, TextsOfMore
  <2> QED BY <2>1, <2>2
<1>5. ASSUME NEW i \in D, NEW g, NEW h, \A m \in D : rank[m] < rank[i] => g[m] = h[m]
      PROVE  ArgsAt(g, s, i) = ArgsAt(h, s, i)
  <2> DEFINE arg == ArgumentAt(s, First(ArgumentStarts(s, i)))
             next == arg.next
  <2>1. ArgumentStarts(s, i) # {} => next \in D /\ rank[next] < rank[i]
    BY <1>3
  <2>2. ArgumentStarts(s, i) # {} => g[next] = h[next]
    <3> HIDE DEF D, rank, next
    <3> QED BY <1>5, <2>1
  <2> QED BY <2>2 DEF ArgsAt
<1>6. rank \in [D -> 0..l] /\ l \in Nat
  BY <1>1
<1>7. IsRecursion(D, V, l, rank, step)
  <2>1. step \in [D -> [[D -> V] -> V]]
    <3>1. \A i \in D : \A g \in [D -> V] : ArgsAt(g, s, i) \in V
      <4> HIDE DEF V, D, rank
      <4> QED BY <1>4
    <3> HIDE DEF V, D
    <3> QED BY <3>1
  <2>2. \A i \in D : \A g, h \in [D -> V] :
          (\A m \in D : rank[m] < rank[i] => g[m] = h[m]) => step[i][g] = step[i][h]
    <3> HIDE DEF V, D, rank
    <3> QED BY <1>5
  <2> HIDE DEF V, D, rank, step, l
  <2> QED BY <1>6, <2>1, <2>2 DEF IsRecursion
<1>8. PICK g \in [D -> V] : \A i \in D : g[i] = step[i][g]
  <2> HIDE DEF D, V, rank, step, l
  <2> QED BY <1>2, <1>6, <1>7, RecursionHasSolution
<1>9. g = [i \in D |-> ArgsAt(g, s, i)]
  <2> HIDE DEF D, V
  <2> QED BY <1>8
<1>10. PICK args : /\ args = [i \in D |-> ArgsAt(args, s, i)]
                   /\ Arguments(s) = args[1]
  <2>1. g = [i \in 1..(Len(s) + 1) |-> ArgsAt(g, s, i)]
    BY <1>9
  <2> HIDE DEF D
  <2>2. \E args : /\ args = [i \in 1..(Len(s) + 1) |-> ArgsAt(args, s, i)]
                  /\ Arguments(s) = args[1]
    BY <2>1, ArgumentsUnfolds
  <2> QED BY <2>2, Zenon DEF D
<1>11. \A i \in D : args[i] = ArgsAt(args, s, i)
  <2> HIDE DEF D
  <2> QED BY <1>10
<1> HIDE DEF step
<1> DEFINE Bad == {i \in D : ~Good(args, i)}
<1>12. ASSUME NEW i \in D, \A m \in D : rank[m] < rank[i] => Good(args, m)
       PROVE  Good(args, i)
  <2>1. CASE ArgumentStarts(s, i) = {}
    <3>1. args[i] = <<>>
      BY <1>11, <2>1 DEF ArgsAt
    <3>2. TextsOf(<<>>) = <<>>
      <4>1. Len(<<>>) = 0
        BY TextFacts
      <4> QED BY <4>1 DEF TextsOf
    <3>3. WordsOf(<<>>) = <<>>
      <4>1. Len(<<>>) = 0
        BY TextFacts
      <4> QED BY <4>1, NoWords
    <3>4. \A k \in i..Len(s) : s[k] \notin Words
      BY <2>1, SymbolsAreNoWords DEF ArgumentStarts
    <3>5. WordsOf(Rest(i)) = <<>>
      BY <1>1, <3>4, NoWordsPart
    <3> QED BY <1>2, <3>1, <3>2, <3>3, <3>5, CatNone
  <2>2. CASE ArgumentStarts(s, i) # {}
    <3> DEFINE arg == ArgumentAt(s, First(ArgumentStarts(s, i)))
               next == arg.next
    <3>1. /\ arg \in FoundArguments /\ next \in D /\ rank[next] < rank[i]
          /\ WordsOf(Rest(i)) = WordsOf(arg.text) \o WordsOf(Rest(next))
      BY <1>3, <2>2
    <3>2. args[i] = <<arg>> \o args[next]
      BY <1>11, <2>2 DEF ArgsAt
    <3> HIDE DEF arg, next, D, rank, Rest
    <3>3. args[next] \in V /\ WordsOf(Cat(TextsOf(args[next]))) = WordsOf(Rest(next))
      BY <1>12, <3>1
    <3>4. args[i] \in V /\ TextsOf(args[i]) = <<arg.text>> \o TextsOf(args[next])
      BY <3>1, <3>2, <3>3, TextsOfMore
    <3>5. arg.text \in Texts /\ TextsOf(args[next]) \in Seq(Texts)
      BY <3>1, <3>3, TextsOfFacts DEF FoundArguments
    <3>6. <<arg.text>> \in Seq(Texts) /\ Cat(<<arg.text>>) = arg.text
      BY <3>5, CatOne
    <3> DEFINE a == <<arg.text>>
               b == TextsOf(args[next])
    <3>7. WordsOf(Cat(a \o b)) = WordsOf(Cat(a)) \o WordsOf(Cat(b))
      <4>1. a \in Seq(Texts) /\ b \in Seq(Texts)
        BY <3>5, <3>6
      <4> HIDE DEF a, b
      <4> QED BY <4>1, CatWords
    <3> QED BY <3>1, <3>3, <3>4, <3>6, <3>7
  <2> QED BY <2>1, <2>2
<1> HIDE DEF Good, D, rank
<1>13. IsBottomless(D, l, rank, Bad)
  <2>1. \A i \in Bad : \E m \in Bad : rank[m] < rank[i]
    BY <1>12
  <2> HIDE DEF l
  <2> QED BY <1>6, <2>1 DEF IsBottomless
<1>14. Bad = {}
  <2> HIDE DEF Bad, l
  <2> QED BY <1>13, RankDescent
<1>15. 1 \in D
  BY <1>1 DEF D
<1>16. Good(args, 1)
  BY <1>14, <1>15
<1>17. Rest(1) = s
  BY WholeText
<1> QED BY <1>10, <1>16, <1>17 DEF Good

\* The last string made longer.
LEMMA CatExtended ==
    ASSUME NEW before \in Seq(Texts), before # <<>>, NEW t \in Texts
    PROVE  LET longer == [before EXCEPT ![Len(before)] = @ \o t]
           IN /\ longer \in Seq(Texts) /\ longer # <<>>
              /\ Cat(longer) = Cat(before) \o t
<1> DEFINE longer == [before EXCEPT ![Len(before)] = @ \o t]
           n == Len(before)
<1>1. PICK f \in Seq(Texts), e \in Texts : before = Append(f, e)
  BY SequenceEmptyOrAppend
<1>2. /\ Len(f) \in Nat /\ n = Len(f) + 1
      /\ \A i \in 1..Len(f) : before[i] = f[i]
      /\ before[n] = e
  BY <1>1, AppendProperties, LenProperties
<1>3. e \o t \in Texts
  BY <1>1, TextConcat
<1> DEFINE new == Append(f, e \o t)
<1>4. /\ new \in Seq(Texts) /\ Len(new) = Len(f) + 1 /\ new # <<>>
      /\ \A i \in 1..Len(f) : new[i] = f[i]
      /\ new[Len(f) + 1] = e \o t
  BY <1>1, <1>3, AppendProperties
<1>5. Cat(before) = Cat(f) \o e /\ Cat(new) = Cat(f) \o (e \o t)
  BY <1>1, <1>3, CatAppend
<1>6. (Cat(f) \o e) \o t = Cat(f) \o (e \o t)
  <2>1. Cat(f) \in Texts
    BY <1>1, CatIsText
  <2> QED BY <1>1, <2>1, TextConcat
<1> HIDE DEF new
<1>7. longer = new
  <2> DEFINE x == e \o t
  <2>1. n \in 1..Len(before) /\ longer = [before EXCEPT ![n] = x] /\ x \in Texts
    BY <1>2, <1>3
  <2> HIDE DEF x, longer
  <2>2. /\ longer \in Seq(Texts) /\ Len(longer) = n
        /\ \A j \in 1..n : longer[j] = IF j = n THEN x ELSE before[j]
    BY <2>1, ExceptSeq
  <2>3. ASSUME NEW j \in 1..n PROVE longer[j] = new[j]
    <3>1. CASE j = n
      BY <1>2, <1>4, <2>2, <3>1 DEF x
    <3>2. CASE j # n
      <4>1. j \in 1..Len(f)
        BY <1>2, <3>2
      <4> QED BY <1>2, <1>4, <2>2, <3>2, <4>1
    <3> QED BY <3>1, <3>2
  <2> QED BY <1>2, <1>4, <2>2, <2>3, SeqEqual
<1> QED BY <1>4, <1>5, <1>6, <1>7

ArgvAt(g, args, i) ==
    IF i = 0 THEN <<>>
    ELSE LET before == g[i - 1]
             last == Len(before)
         IN IF IsJoined(args, i)
              THEN [before EXCEPT ![last] = @ \o args[i].text]
              ELSE Append(before, args[i].text)

LEMMA ArgvUnfolds ==
    ASSUME NEW args, NEW g, g = [i \in 0..Len(args) |-> ArgvAt(g, args, i)]
    PROVE  \E a : /\ a = [i \in 0..Len(args) |-> ArgvAt(a, args, i)]
                  /\ Argv(args) = a[Len(args)]
<1> DEFINE a == CHOOSE a : a = [i \in 0..Len(args) |-> ArgvAt(a, args, i)]
<1>1. a = [i \in 0..Len(args) |-> ArgvAt(a, args, i)]
  BY Zenon
<1>2. Argv(args) = a[Len(args)]
  BY DEF Argv, ArgvAt
<1> HIDE DEF a
<1> QED BY <1>1, <1>2

\* The arguments of an executable are what was found, joined or not.
LEMMA ArgvKeepsTexts ==
    ASSUME NEW args \in Seq(FoundArguments)
    PROVE  Argv(args) \in Seq(Texts) /\ Cat(Argv(args)) = Cat(TextsOf(args))
<1> DEFINE l == Len(args)
           D == 0..Len(args)
           V == Seq(Texts)
           step == [i \in D |-> [g \in [D -> V] |-> ArgvAt(g, args, i)]]
           rank == [i \in D |-> i]
           texts == TextsOf(args)
<1>1. l \in Nat /\ \A i \in 1..l : args[i] \in FoundArguments
  BY LenProperties, ElementOfSeq
<1>2. <<>> \in V
  BY EmptySeq
<1>3. /\ texts \in Seq(Texts) /\ Len(texts) = l
      /\ \A i \in 1..l : texts[i] = args[i].text /\ args[i].text \in Texts
  BY <1>1, TextsOfFacts DEF FoundArguments
<1>4. ASSUME NEW before \in V, NEW t \in Texts
      PROVE  [before EXCEPT ![Len(before)] = @ \o t] \in V /\ Append(before, t) \in V
  <2>1. CASE before = <<>>
    <3> DEFINE longer == [before EXCEPT ![Len(before)] = @ \o t]
    <3>1. DOMAIN longer = 1..0
      BY <2>1
    <3>2. longer = [i \in 1..0 |-> longer[i]]
      BY <3>1
    <3> HIDE DEF longer
    <3>3. longer \in [1..0 -> Texts]
      BY <3>2
    <3>4. longer \in V
      BY <3>3, SeqDef
    <3> QED BY <3>4, AppendProperties DEF longer
  <2>2. CASE before # <<>>
    BY <2>2, CatExtended, AppendProperties
  <2> QED BY <2>1, <2>2
<1>5. ASSUME NEW i \in D, NEW g, i > 0 => g[i - 1] \in V
      PROVE  ArgvAt(g, args, i) \in V
  <2>1. CASE i = 0
    BY <1>2, <2>1 DEF ArgvAt
  <2>2. CASE i > 0
    <3> DEFINE before == g[i - 1]
               t == args[i].text
    <3>1. before \in V /\ t \in Texts /\ i # 0
      BY <1>1, <1>3, <1>5, <2>2
    <3>2. \/ ArgvAt(g, args, i) = [before EXCEPT ![Len(before)] = @ \o t]
          \/ ArgvAt(g, args, i) = Append(before, t)
      BY <3>1 DEF ArgvAt
    <3> HIDE DEF before, t, V
    <3> QED BY <1>4, <3>1, <3>2
  <2> QED BY <1>1, <2>1, <2>2
<1>6. rank \in [D -> 0..l] /\ IsRecursion(D, V, l, rank, step)
  <2>1. rank \in [D -> 0..l]
    OBVIOUS
  <2>2. step \in [D -> [[D -> V] -> V]]
    <3>1. ASSUME NEW i \in D, NEW g \in [D -> V] PROVE ArgvAt(g, args, i) \in V
      <4>1. i > 0 => i - 1 \in D
        BY <1>1
      <4> HIDE DEF V, D
      <4> QED BY <1>5, <4>1
    <3> HIDE DEF V, D
    <3> QED BY <3>1
  <2>3. ASSUME NEW i \in D, NEW g \in [D -> V], NEW h \in [D -> V],
               \A m \in D : rank[m] < rank[i] => g[m] = h[m]
        PROVE  step[i][g] = step[i][h]
    <3>1. i > 0 => g[i - 1] = h[i - 1]
      <4>1. i > 0 => i - 1 \in D /\ rank[i - 1] < rank[i]
        BY <1>1
      <4> HIDE DEF V, D, rank, step
      <4> QED BY <2>3, <4>1
    <3>2. i = 0 \/ i > 0
      BY <1>1
    <3>3. ArgvAt(g, args, i) = ArgvAt(h, args, i)
      <4>1. CASE i = 0
        BY <4>1 DEF ArgvAt
      <4>2. CASE i > 0
        BY <3>1, <4>2 DEF ArgvAt
      <4> QED BY <3>2, <4>1, <4>2
    <3> HIDE DEF V, D, rank
    <3> QED BY <3>3
  <2> HIDE DEF V, D, rank, step, l
  <2> QED BY <2>1, <2>2, <2>3 DEF IsRecursion
<1>7. PICK g \in [D -> V] : \A i \in D : g[i] = step[i][g]
  <2> HIDE DEF D, V, rank, step, l
  <2> QED BY <1>1, <1>2, <1>6, RecursionHasSolution
<1>8. g = [i \in D |-> ArgvAt(g, args, i)]
  <2> HIDE DEF D, V
  <2> QED BY <1>7
<1>9. PICK a : a = [i \in D |-> ArgvAt(a, args, i)] /\ Argv(args) = a[l]
  <2>1. g = [i \in 0..Len(args) |-> ArgvAt(g, args, i)]
    BY <1>8
  <2> HIDE DEF D
  <2>2. \E a : /\ a = [i \in 0..Len(args) |-> ArgvAt(a, args, i)]
               /\ Argv(args) = a[Len(args)]
    BY <2>1, ArgvUnfolds
  <2> QED BY <2>2, Zenon DEF D
<1>10. \A i \in D : a[i] = ArgvAt(a, args, i)
  <2> HIDE DEF D
  <2> QED BY <1>9
<1> HIDE DEF step, rank, texts, l
<1>11. PICK joined \in [1..l -> Texts] :
        /\ texts # <<>> => joined[1] = texts[1]
        /\ \A i \in 2..l : joined[i] = joined[i - 1] \o texts[i]
        /\ Cat(texts) = (IF texts = <<>> THEN <<>> ELSE joined[l])
  BY <1>3, CatSolved
<1> DEFINE Good(i) == /\ a[i] \in V
                      /\ i = 0 => a[i] = <<>>
                      /\ i > 0 => a[i] # <<>> /\ Cat(a[i]) = joined[i]
           Bad == {i \in D : ~Good(i)}
<1>12. Good(0)
  <2>1. 0 \in D
    BY <1>1 DEF l
  <2>2. a[0] = <<>>
    BY <1>10, <2>1 DEF ArgvAt
  <2> QED BY <1>2, <2>2
<1>13. ASSUME NEW i \in 1..l, Good(i - 1) PROVE Good(i)
  <2> DEFINE before == a[i - 1]
             t == args[i].text
  <2>1. /\ before \in V /\ t \in Texts /\ t = texts[i] /\ texts # <<>>
        /\ i # 0 /\ i > 0 /\ i \in D
    <3>1. texts # <<>>
      <4>1. Len(<<>>) = 0
        BY TextFacts
      <4> QED BY <1>1, <1>3, <4>1
    <3> QED BY <1>1, <1>3, <1>13, <3>1 DEF l
  <2>2. a[i] = IF IsJoined(args, i) THEN [before EXCEPT ![Len(before)] = @ \o t]
               ELSE Append(before, t)
    BY <1>10, <2>1 DEF ArgvAt
  <2>3. IsJoined(args, i) => i > 1
    BY DEF IsJoined
  <2>4. i > 1 => before # <<>> /\ Cat(before) = joined[i - 1]
    BY <1>1, <1>13
  <2>5. i = 1 => before = <<>>
    BY <1>13
  <2> HIDE DEF before, t
  <2>6. a[i] \in V /\ a[i] # <<>> /\ Cat(a[i]) = Cat(before) \o t
    <3>1. CASE IsJoined(args, i)
      BY <2>1, <2>2, <2>3, <2>4, <3>1, CatExtended
    <3>2. CASE ~IsJoined(args, i)
      <4>1. Append(before, t) \in V /\ Append(before, t) # <<>>
        BY <2>1, AppendProperties
      <4> HIDE DEF V
      <4> QED BY <2>1, <2>2, <3>2, <4>1, CatAppend DEF V
    <3> QED BY <3>1, <3>2
  <2>7. Cat(before) \o t = joined[i]
    <3>1. CASE i = 1
      BY <1>11, <2>1, <2>5, <3>1, CatNone, TextFacts
    <3>2. CASE i # 1
      <4>1. i \in 2..l /\ i > 1
        BY <1>1, <3>2
      <4> QED BY <1>11, <2>1, <2>4, <4>1
    <3> QED BY <3>1, <3>2
  <2> QED BY <2>1, <2>6, <2>7
<1> HIDE DEF Good
<1>14. ASSUME NEW i \in Bad PROVE i > 0 /\ i - 1 \in Bad
  <2>1. i \in D /\ i # 0
    BY <1>12
  <2>2. i \in 1..l /\ i - 1 \in D /\ i > 0
    BY <1>1, <2>1 DEF l
  <2> QED BY <1>13, <2>2
<1>15. Bad = {}
  <2>1. Bad \in SUBSET (0..l)
    BY DEF l
  <2> HIDE DEF Bad
  <2> QED BY <1>1, <1>14, <2>1, StepDown
<1>16. Good(l)
  <2>1. l \in D
    BY <1>1 DEF l
  <2> QED BY <1>15, <2>1
<1>17. Argv(args) \in Seq(Texts) /\ Cat(Argv(args)) = Cat(texts)
  <2>1. CASE l = 0
    <3>1. texts = <<>>
      BY <1>3, <2>1, EmptySeq
    <3> QED BY <1>9, <1>11, <1>16, <2>1, <3>1, CatNone DEF Good
  <2>2. CASE l > 0
    <3>1. texts # <<>>
      <4>1. Len(<<>>) = 0
        BY TextFacts
      <4> QED BY <1>3, <2>2, <4>1
    <3> QED BY <1>9, <1>11, <1>16, <2>2, <3>1 DEF Good
  <2> QED BY <1>1, <2>1, <2>2
<1> QED BY <1>17 DEF texts

-----------------------------------------------------------------------------
(* The words of the command, at every step of the parser.                  *)

LEMMA BracketsRemovedIsPlain ==
    ASSUME NEW s \in Texts, Plain(s)
    PROVE  Plain(BracketsRemoved(s))
<1> DEFINE P == {j \in 1..(Len(s) + 1) : j <= Len(s) => s[j] # Blank}
           Q == {j \in 0..Len(s) : j > 0 => s[j] # Blank}
<1>1. Len(s) \in Nat
  BY TextFacts
<1>2. P \in SUBSET Nat /\ Len(s) + 1 \in P /\ \A j \in P : j >= 1
  BY <1>1
<1>3. Q \in SUBSET (0..Len(s)) /\ 0 \in Q
  BY <1>1
<1>4. BracketsRemoved(s) = s \/ BracketsRemoved(s) = SubSeq(s, First(P) + 1, Last(Q) - 1)
  BY DEF BracketsRemoved, NonBlank
<1> HIDE DEF P, Q
<1>5. First(P) \in Nat /\ First(P) >= 1
  BY <1>2, FirstIsLeast
<1>6. Last(Q) \in 0..Len(s)
  BY <1>1, <1>3, LastIsGreatest
<1>7. Plain(SubSeq(s, First(P) + 1, Last(Q) - 1))
  <2>1. /\ First(P) + 1 \in Int /\ Last(Q) - 1 \in Int
        /\ 1 <= First(P) + 1 /\ Last(Q) - 1 <= Len(s)
    BY <1>1, <1>5, <1>6
  <2> QED BY <2>1, PlainPart
<1> QED BY <1>4, <1>7

\* What each node has in its argv, and what is still to be parsed.
ArgvTexts(ns) == [n \in 1..Len(ns) |-> Cat(ns[n].argv)]
Strings(w) == [k \in 1..Len(w) |-> w[k].string]

LEMMA ArgvTextsMore ==
    ASSUME NEW ns, Listed(ns), ArgvTexts(ns) \in Seq(Texts),
           NEW node, node.argv \in Seq(Texts)
    PROVE  /\ ArgvTexts(Append(ns, node)) \in Seq(Texts)
           /\ ArgvTexts(Append(ns, node)) = Append(ArgvTexts(ns), Cat(node.argv))
<1> DEFINE l == Len(ns)
           more == Append(ns, node)
           a == ArgvTexts(ns)
           b == Append(a, Cat(node.argv))
<1>1. /\ l \in Nat /\ Len(more) = l + 1 /\ (\A n \in 1..l : more[n] = ns[n])
      /\ more[l + 1] = node
  BY ListedAppend, ListedIsFunction
<1>2. DOMAIN a = 1..l /\ \A n \in 1..l : a[n] = Cat(ns[n].argv)
  BY DEF ArgvTexts
<1>3. Len(a) = l
  <2>1. Len(a) \in Nat /\ DOMAIN a = 1..Len(a)
    BY LenProperties
  <2> HIDE DEF a
  <2> QED BY <1>1, <1>2, <2>1
<1>4. Cat(node.argv) \in Texts
  BY CatIsText
<1>5. /\ b \in Seq(Texts) /\ Len(b) = l + 1
      /\ \A n \in 1..l : b[n] = a[n]
      /\ b[l + 1] = Cat(node.argv)
  <2> DEFINE e == Cat(node.argv)
  <2>1. e \in Texts /\ b = Append(a, e)
    BY <1>4
  <2> HIDE DEF a, b, e
  <2>2. /\ Append(a, e) \in Seq(Texts) /\ Len(Append(a, e)) = Len(a) + 1
        /\ \A n \in 1..Len(a) : Append(a, e)[n] = a[n]
        /\ Append(a, e)[Len(a) + 1] = e
    BY <1>2, <2>1, AppendProperties DEF a
  <2> HIDE DEF l
  <2> QED BY <1>3, <2>1, <2>2 DEF e
<1>6. b = [n \in 1..(l + 1) |-> b[n]]
  <2> HIDE DEF b, l
  <2> QED BY <1>5, LenProperties
<1>7. ASSUME NEW n \in 1..(l + 1) PROVE b[n] = Cat(more[n].argv)
  <2>1. n \in 1..l \/ n = l + 1
    BY <1>1
  <2> HIDE DEF a, b, more, l
  <2> QED BY <1>1, <1>2, <1>5, <2>1
<1>8. ArgvTexts(more) = [n \in 1..(l + 1) |-> Cat(more[n].argv)]
  BY <1>1 DEF ArgvTexts
<1> HIDE DEF a, b, more, l
<1>9. ArgvTexts(more) = b
  BY <1>6, <1>7, <1>8
<1> QED BY <1>5, <1>9 DEF a, b, more

LEMMA StringsFacts ==
    ASSUME NEW w \in Seq(WorkItems)
    PROVE  /\ Strings(w) \in Seq(Texts) /\ Len(Strings(w)) = Len(w) /\ Len(w) \in Nat
           /\ \A k \in 1..Len(w) : Strings(w)[k] = w[k].string
<1>1. Len(w) \in Nat /\ \A k \in 1..Len(w) : w[k] \in WorkItems
  BY LenProperties, ElementOfSeq
<1>2. \A k \in 1..Len(w) : w[k].string \in Texts
  BY <1>1 DEF WorkItems
<1>3. Strings(w) \in [1..Len(w) -> Texts]
  BY <1>2 DEF Strings
<1>4. Strings(w) \in Seq(Texts) /\ Len(Strings(w)) = Len(w)
  BY <1>1, <1>3
<1> QED BY <1>1, <1>4 DEF Strings

LEMMA StringsConcat ==
    ASSUME NEW v \in Seq(WorkItems), NEW w \in Seq(WorkItems)
    PROVE  v \o w \in Seq(WorkItems) /\ Strings(v \o w) = Strings(v) \o Strings(w)
<1> DEFINE a == Strings(v)
           b == Strings(w)
           c == Strings(v \o w)
<1>1. /\ v \o w \in Seq(WorkItems) /\ Len(v \o w) = Len(v) + Len(w)
      /\ \A k \in 1..(Len(v) + Len(w)) :
           (v \o w)[k] = IF k <= Len(v) THEN v[k] ELSE w[k - Len(v)]
  BY ConcatProperties
<1>2. /\ a \in Seq(Texts) /\ Len(a) = Len(v) /\ Len(v) \in Nat
      /\ \A k \in 1..Len(v) : a[k] = v[k].string
  BY StringsFacts
<1>3. /\ b \in Seq(Texts) /\ Len(b) = Len(w) /\ Len(w) \in Nat
      /\ \A k \in 1..Len(w) : b[k] = w[k].string
  BY StringsFacts
<1>4. /\ c \in Seq(Texts) /\ Len(c) = Len(v) + Len(w)
      /\ \A k \in 1..(Len(v) + Len(w)) : c[k] = (v \o w)[k].string
  BY <1>1, StringsFacts
<1> HIDE DEF a, b, c
<1>5. /\ a \o b \in Seq(Texts) /\ Len(a \o b) = Len(v) + Len(w)
      /\ \A k \in 1..(Len(v) + Len(w)) :
           (a \o b)[k] = IF k <= Len(v) THEN a[k] ELSE b[k - Len(v)]
  <2>1. /\ a \o b \in Seq(Texts) /\ Len(a \o b) = Len(a) + Len(b)
        /\ \A k \in 1..(Len(a) + Len(b)) :
             (a \o b)[k] = IF k <= Len(a) THEN a[k] ELSE b[k - Len(a)]
    <3>1. a \in Seq(Texts) /\ b \in Seq(Texts)
      BY <1>2, <1>3
    <3> QED BY <3>1, ConcatProperties
  <2> QED BY <1>2, <1>3, <2>1
<1>6. ASSUME NEW k \in 1..Len(c) PROVE c[k] = (a \o b)[k]
  <2>1. k \in 1..(Len(v) + Len(w)) /\ (k <= Len(v) => k \in 1..Len(v))
        /\ (~(k <= Len(v)) => k - Len(v) \in 1..Len(w))
    BY <1>2, <1>3, <1>4
  <2> QED BY <1>1, <1>2, <1>3, <1>4, <1>5, <2>1
<1>7. c = a \o b
  BY <1>4, <1>5, <1>6, SeqEqual
<1> QED BY <1>1, <1>7 DEF a, b, c

LEMMA StringsHead ==
    ASSUME NEW w \in Seq(WorkItems), w # <<>>
    PROVE  /\ Head(w).string \in Texts /\ Tail(w) \in Seq(WorkItems)
           /\ Strings(w) = <<Head(w).string>> \o Strings(Tail(w))
<1>1. Head(w) \in WorkItems /\ Tail(w) \in Seq(WorkItems)
  BY HeadTailProperties
<1>2. Head(w).string \in Texts
  BY <1>1 DEF WorkItems
<1> DEFINE h == Head(w)
           t == Tail(w)
<1>3. w = <<h>> \o t
  <2> HIDE DEF WorkItems
  <2>1. Len(w) \in Nat \ {0}
    BY EmptySeq
  <2>2. /\ 1 \in 1..Len(w) /\ Len(w) \in 1..Len(w) /\ h = w[1]
    BY <2>1
  <2>3. SubSeq(w, 1, Len(w)) = <<w[1]>> \o SubSeq(w, 1 + 1, Len(w))
    BY <2>2, SubSeqRecursiveFirst
  <2>4. SubSeq(w, 1, Len(w)) = w /\ t = SubSeq(w, 2, Len(w))
    BY SubSeqFull, TailIsSubSeq
  <2> QED BY <2>2, <2>3, <2>4
<1> HIDE DEF h, t
<1>4. <<h>> \in Seq(WorkItems) /\ Len(<<h>>) = 1 /\ <<h>>[1] = h
  <2> HIDE DEF WorkItems
  <2> QED BY <1>1 DEF h
<1>5. Strings(<<h>>) = <<h.string>>
  BY <1>4 DEF Strings
<1>6. t \in Seq(WorkItems)
  BY <1>1 DEF t
<1>7. Strings(<<h>> \o t) = Strings(<<h>>) \o Strings(t)
  <2> HIDE DEF WorkItems
  <2> QED BY <1>4, <1>6, StringsConcat
<1> QED BY <1>1, <1>2, <1>3, <1>5, <1>7 DEF h, t

\* The words of the command are those of the arguments found, and after them
\* those of the strings still to be parsed.
KeptFor(ns, w, command) ==
    /\ ArgvTexts(ns) \in Seq(Texts)
    /\ \A k \in 1..Len(w) : Plain(w[k].string)
    /\ WordsOf(Cat(ArgvTexts(ns))) \o WordsOf(Cat(Strings(w))) = WordsOf(command)

LEMMA FourTexts ==
    ASSUME NEW x \in Texts, NEW y \in Texts, NEW z \in Texts, NEW r \in Texts
    PROVE  x \o ((y \o z) \o r) = (x \o y) \o (z \o r)
<1>1. /\ x \in Seq(Glyphs) /\ y \in Seq(Glyphs) /\ z \in Seq(Glyphs)
      /\ r \in Seq(Glyphs)
  BY DEF Texts
<1> HIDE DEF Glyphs
<1>2. z \o r \in Seq(Glyphs)
  BY <1>1, ConcatProperties
<1>3. (y \o z) \o r = y \o (z \o r)
  BY SMTT(60), <1>1, ConcatAssociative
<1>4. (x \o y) \o (z \o r) = x \o (y \o (z \o r))
  BY SMTT(60), <1>1, <1>2, ConcatAssociative
<1> QED BY <1>3, <1>4

\* A string gives way to a node and to the strings of its operands.
LEMMA KeptMore ==
    ASSUME NEW ns, Listed(ns), NEW w \in Seq(WorkItems), w # <<>>, NEW command,
           KeptFor(ns, w, command), NEW node, node.argv \in Seq(Texts),
           NEW more \in Seq(WorkItems), \A k \in 1..Len(more) : Plain(more[k].string),
           WordsOf(Cat(node.argv)) \o WordsOf(Cat(Strings(more)))
             = WordsOf(Head(w).string)
    PROVE  KeptFor(Append(ns, node), more \o Tail(w), command)
<1> DEFINE a == ArgvTexts(ns)
           all == Append(ns, node)
           s == Head(w).string
           t == Tail(w)
           x == WordsOf(Cat(a))
           y == WordsOf(Cat(node.argv))
           z == WordsOf(Cat(Strings(more)))
           r == WordsOf(Cat(Strings(t)))
<1>1. s \in Texts /\ t \in Seq(WorkItems) /\ Strings(w) = <<s>> \o Strings(t)
  BY StringsHead
<1>2. a \in Seq(Texts) /\ Cat(a) \in Texts /\ Cat(node.argv) \in Texts
  BY CatIsText DEF KeptFor
<1>3. Strings(t) \in Seq(Texts) /\ Strings(more) \in Seq(Texts) /\ Strings(w) \in Seq(Texts)
  BY <1>1, StringsFacts
<1>4. x \in Texts /\ y \in Texts /\ z \in Texts /\ r \in Texts
  BY <1>2, <1>3, CatIsText, WordsAreText
<1>5. WordsOf(Cat(Strings(w))) = (y \o z) \o r
  <2>1. <<s>> \in Seq(Texts) /\ Cat(<<s>>) = s
    <3> HIDE DEF s
    <3> QED BY <1>1, CatOne
  <2>2. WordsOf(Cat(<<s>> \o Strings(t))) = WordsOf(Cat(<<s>>)) \o WordsOf(Cat(Strings(t)))
    <3> HIDE DEF s, t
    <3> QED BY <1>3, <2>1, CatWords
  <2> QED BY <1>1, <2>1, <2>2
<1>6. /\ ArgvTexts(all) \in Seq(Texts)
      /\ WordsOf(Cat(ArgvTexts(all))) = x \o y
  <2>1. /\ ArgvTexts(all) \in Seq(Texts)
        /\ ArgvTexts(all) = Append(a, Cat(node.argv))
    BY <1>2, ArgvTextsMore
  <2>2. Cat(Append(a, Cat(node.argv))) = Cat(a) \o Cat(node.argv)
    <3> HIDE DEF a
    <3> QED BY <1>2, CatAppend
  <2>3. WordsOf(Cat(a) \o Cat(node.argv)) = x \o y
    BY <1>2, WordsConcat
  <2> HIDE DEF all
  <2> QED BY <2>1, <2>2, <2>3
<1>7. WordsOf(Cat(Strings(more \o t))) = z \o r
  <2>1. Strings(more \o t) = Strings(more) \o Strings(t)
    BY <1>1, StringsConcat
  <2> QED BY <1>3, <2>1, CatWords
<1>8. ASSUME NEW k \in 1..Len(more \o t) PROVE Plain((more \o t)[k].string)
  <2>1. /\ Len(more) \in Nat /\ Len(w) \in Nat /\ Len(t) = Len(w) - 1 /\ Len(t) \in Nat
        /\ \A i \in 1..Len(t) : t[i] = w[i + 1]
    BY <1>1, LenProperties, HeadTailProperties
  <2>2. /\ Len(more \o t) = Len(more) + Len(t)
        /\ \A i \in 1..(Len(more) + Len(t)) :
             (more \o t)[i] = IF i <= Len(more) THEN more[i] ELSE t[i - Len(more)]
    <3> HIDE DEF t
    <3> QED BY <1>1, ConcatProperties
  <2> HIDE DEF t
  <2>3. CASE k <= Len(more)
    <3>1. k \in 1..Len(more) /\ k \in 1..(Len(more) + Len(t))
      BY <2>1, <2>2, <2>3
    <3> QED BY <2>2, <2>3, <3>1
  <2>4. CASE ~(k <= Len(more))
    <3> DEFINE i == k - Len(more)
    <3>1. /\ i \in 1..Len(t) /\ i + 1 \in 1..Len(w) /\ k \in 1..(Len(more) + Len(t))
      BY <2>1, <2>2, <2>4
    <3>2. (more \o t)[k] = t[i]
      BY <2>2, <2>4, <3>1
    <3> HIDE DEF i
    <3>3. t[i] = w[i + 1]
      BY <2>1, <3>1
    <3> QED BY <3>1, <3>2, <3>3 DEF KeptFor
  <2> QED BY <2>3, <2>4
<1>9. \A p, q, u, v \in Texts : p \o ((q \o u) \o v) = (p \o q) \o (u \o v)
  BY FourTexts
<1>10. x \o WordsOf(Cat(Strings(w))) = WordsOf(command)
  BY DEF KeptFor
<1>11. x \o ((y \o z) \o r) = (x \o y) \o (z \o r)
  <2> HIDE DEF x, y, z, r, all, t, a
  <2> USE <1>4
  <2>1. \A q, u, v \in Texts : x \o ((q \o u) \o v) = (x \o q) \o (u \o v)
    BY <1>9, Zenon
  <2>2. \A u, v \in Texts : x \o ((y \o u) \o v) = (x \o y) \o (u \o v)
    BY <2>1, Zenon
  <2>3. \A v \in Texts : x \o ((y \o z) \o v) = (x \o y) \o (z \o v)
    BY <2>2, Zenon
  <2> QED BY <2>3, Zenon
<1>12. WordsOf(Cat(ArgvTexts(all))) \o WordsOf(Cat(Strings(more \o t))) = WordsOf(command)
  <2> HIDE DEF x, y, z, r, all, t
  <2> QED BY <1>5, <1>6, <1>7, <1>10, <1>11
<1> QED BY <1>6, <1>8, <1>12 DEF KeptFor

-----------------------------------------------------------------------------
(* The words of the command, from step to step.                            *)

KeptInv ==
    stage \in {"parsing", "builtins"} /\ Plain(arguments.command) =>
      KeptFor(nodes, work, arguments.command)

LEMMA KeptAtStart ==
    ASSUME NEW command \in Texts, Plain(command), NEW father \in Nat
    PROVE  KeptFor(<<>>, <<[string |-> command, father |-> father]>>, command)
<1> DEFINE item == [string |-> command, father |-> father]
           w == <<item>>
<1>1. ArgvTexts(<<>>) = <<>>
  BY DEF ArgvTexts
<1>2. Len(w) = 1 /\ w[1] = item /\ item.string = command
  OBVIOUS
<1>3. Strings(w) = <<command>>
  BY <1>2 DEF Strings
<1> HIDE DEF w
<1>4. \A k \in 1..Len(w) : Plain(w[k].string)
  BY <1>2
<1>5. Cat(Strings(w)) = command /\ Cat(ArgvTexts(<<>>)) = <<>>
  BY <1>1, <1>3, CatOne, CatNone
<1>6. WordsOf(<<>>) = <<>>
  <2>1. Len(<<>>) = 0
    BY TextFacts
  <2> QED BY <2>1, NoWords
<1>7. WordsOf(Cat(ArgvTexts(<<>>))) \o WordsOf(Cat(Strings(w))) = WordsOf(command)
  <2>1. WordsOf(command) \in Texts
    BY WordsAreText
  <2>2. <<>> \o WordsOf(command) = WordsOf(command)
    BY <2>1, TextFacts
  <2> QED BY <1>5, <1>6, <2>2
<1>8. ArgvTexts(<<>>) \in Seq(Texts)
  BY <1>1, EmptySeq
<1> QED BY <1>4, <1>7, <1>8 DEF KeptFor, w

LEMMA OperatorKept ==
    ASSUME NEW ns, Listed(ns), NEW w \in Seq(WorkItems), w # <<>>, NEW command,
           KeptFor(ns, w, command), NEW type, NEW father,
           NEW pieces \in Seq(Texts), NEW n \in Nat,
           \A k \in 1..Len(pieces) : Plain(pieces[k]),
           WordsOf(Cat(pieces)) = WordsOf(Head(w).string)
    PROVE  KeptFor(Append(ns, NewNode(type, father, Head(w).string)),
                   [k \in 1..Len(pieces) |-> [string |-> pieces[k], father |-> n]] \o Tail(w),
                   command)
<1> DEFINE node == NewNode(type, father, Head(w).string)
           more == [k \in 1..Len(pieces) |-> [string |-> pieces[k], father |-> n]]
<1>1. Len(pieces) \in Nat /\ \A k \in 1..Len(pieces) : pieces[k] \in Texts
  BY LenProperties, ElementOfSeq
<1>2. more \in [1..Len(pieces) -> WorkItems]
  BY <1>1 DEF WorkItems
<1>3. more \in Seq(WorkItems) /\ Len(more) = Len(pieces)
  <2> HIDE DEF more
  <2> QED BY <1>1, <1>2
<1>4. \A k \in 1..Len(pieces) : more[k].string = pieces[k]
  OBVIOUS
<1>5. node.argv = <<>>
  BY DEF NewNode
<1> HIDE DEF node, more
<1>6. Strings(more) = pieces
  <2>1. /\ Strings(more) \in Seq(Texts) /\ Len(Strings(more)) = Len(pieces)
        /\ \A k \in 1..Len(pieces) : Strings(more)[k] = pieces[k]
    BY <1>3, <1>4, StringsFacts
  <2> QED BY <2>1, SeqEqual
<1>7. \A k \in 1..Len(more) : Plain(more[k].string)
  BY <1>3, <1>4
<1>8. node.argv \in Seq(Texts)
  BY <1>5, EmptySeq
<1>9. WordsOf(Cat(node.argv)) \o WordsOf(Cat(Strings(more))) = WordsOf(Head(w).string)
  <2>1. Len(<<>>) = 0
    BY EmptySeq
  <2>2. WordsOf(Cat(node.argv)) = <<>>
    BY <1>5, <2>1, CatNone, NoWords
  <2>3. WordsOf(Cat(pieces)) \in Texts
    BY CatIsText, WordsAreText
  <2>4. <<>> \o WordsOf(Cat(pieces)) = WordsOf(Cat(pieces))
    BY <2>3, TextFacts
  <2> QED BY <1>6, <2>2, <2>4
<1>10. KeptFor(Append(ns, node), more \o Tail(w), command)
  BY <1>3, <1>7, <1>8, <1>9, KeptMore
<1> QED BY <1>10 DEF node, more

LEMMA ExecutableKept ==
    ASSUME NEW ns, Listed(ns), NEW w \in Seq(WorkItems), w # <<>>, NEW command,
           KeptFor(ns, w, command), NEW node, node.argv \in Seq(Texts),
           WordsOf(Cat(node.argv)) = WordsOf(Head(w).string)
    PROVE  KeptFor(Append(ns, node), Tail(w), command)
<1>1. <<>> \in Seq(WorkItems) /\ Len(<<>>) = 0 /\ Strings(<<>>) = <<>>
  BY EmptySeq DEF Strings
<1>2. \A k \in 1..Len(<<>>) : Plain(<<>>[k].string)
  BY <1>1
<1>3. WordsOf(Cat(node.argv)) \o WordsOf(Cat(Strings(<<>>))) = WordsOf(Head(w).string)
  <2>1. WordsOf(Cat(Strings(<<>>))) = <<>>
    BY <1>1, CatNone, NoWords
  <2>2. WordsOf(Cat(node.argv)) \in Texts
    BY CatIsText, WordsAreText
  <2>3. WordsOf(Cat(node.argv)) \o <<>> = WordsOf(Cat(node.argv))
    BY <2>2, TextFacts
  <2> QED BY <2>1, <2>3
<1>4. KeptFor(Append(ns, node), <<>> \o Tail(w), command)
  BY <1>1, <1>2, <1>3, KeptMore
<1>5. <<>> \o Tail(w) = Tail(w)
  <2>1. Tail(w) \in Seq(WorkItems)
    BY StringsHead
  <2> QED BY <2>1, ConcatEmptySeq
<1> QED BY <1>4, <1>5

\* create_node_from_string() loses no word of a string without redirects.
LEMMA NodeKept ==
    ASSUME Inv, CreateNode, Plain(arguments.command),
           KeptFor(nodes, work, arguments.command)
    PROVE  KeptFor(nodes', work', arguments.command) \/ stage' = "failed"
<1> DEFINE s == Head(work).string
           father == Head(work).father
           bare == BracketsRemoved(CommandPart(s))
           operators == Splitting(bare)
           type == Priority[First(operators)]
           args == Arguments(bare)
           command == arguments.command
<1>1. /\ work # <<>>
      /\ \/ /\ operators # {}
            /\ CreateOperands(type, father, s, Pieces(bare, type))
         \/ CreateExecutable(father, s, args)
         \/ CannotParse(args)
  BY DEF CreateNode
<1>2. /\ s \in Texts /\ work \in Seq(WorkItems) /\ Head(work) = work[1] /\ Len(work) >= 1
      /\ Len(work) \in Nat /\ Len(nodes) \in Nat /\ Listed(nodes)
  BY <1>1, WorkFacts DEF WorkItems, Inv, TypeInv
<1>3. Plain(s)
  <2>1. 1 \in 1..Len(work)
    BY <1>2
  <2> QED BY <1>2, <2>1 DEF KeptFor
<1> HIDE DEF s, father, command
<1>4. bare \in Texts /\ Plain(bare) /\ WordsOf(bare) = WordsOf(s)
  BY <1>2, <1>3, CommandPartOfPlain, BracketsRemovedIsText, BracketsRemovedIsPlain,
     BracketsAreNoWords
<1> HIDE DEF bare
<1>5. CASE operators # {} /\ CreateOperands(type, father, s, Pieces(bare, type))
  <2>1. operators \in SUBSET (1..4) /\ operators # {}
    BY <1>5 DEF Splitting, Priority
  <2> HIDE DEF operators
  <2>2. First(operators) \in 1..4
    <3>1. operators \in SUBSET Nat
      BY <2>1
    <3>2. First(operators) \in operators
      BY <2>1, <3>1, FirstIsLeast
    <3> QED BY <2>1, <3>2
  <2>3. type \in NodeTypes \ {"Executable"}
    BY <2>2 DEF Priority, NodeTypes, SequenceTypes
  <2> HIDE DEF type
  <2> DEFINE pieces == Pieces(bare, type)
  <2>4. /\ pieces \in Seq(Texts) /\ WordsOf(Cat(pieces)) = WordsOf(s)
        /\ \A k \in 1..Len(pieces) : Plain(pieces[k])
    BY <1>4, <2>3, PiecesAreTexts, PiecesKeepWords
  <2>5. /\ nodes' = Append(nodes, NewNode(type, father, s))
        /\ work' = [k \in 1..Len(pieces) |->
                     [string |-> pieces[k], father |-> Len(nodes) + 1]] \o Tail(work)
    BY <1>5 DEF CreateOperands
  <2>6. Len(nodes) + 1 \in Nat
    BY <1>2
  <2> HIDE DEF pieces
  <2>7. KeptFor(nodes', work', command)
    BY <1>1, <1>2, <2>4, <2>5, <2>6, OperatorKept DEF s, command
  <2> QED BY <2>7 DEF command
<1>6. CASE CreateExecutable(father, s, args)
  <2> DEFINE node == [NewNode("Executable", father, s) EXCEPT
                        !.argv = Argv(args), !.terminated = IsTerminated(args)]
  <2>1. nodes' = Append(nodes, node) /\ work' = Tail(work)
    BY <1>6 DEF CreateExecutable
  <2>2. node.argv = Argv(args)
    BY DEF NewNode
  <2> HIDE DEF node
  <2>3. args \in Seq(FoundArguments) /\ WordsOf(Cat(TextsOf(args))) = WordsOf(s)
    BY <1>4, ArgumentsKeepWords
  <2> HIDE DEF args
  <2>4. node.argv \in Seq(Texts) /\ WordsOf(Cat(node.argv)) = WordsOf(s)
    BY <2>2, <2>3, ArgvKeepsTexts
  <2>5. KeptFor(nodes', work', command)
    BY <1>1, <1>2, <2>1, <2>4, ExecutableKept DEF s, command
  <2> QED BY <2>5 DEF command
<1>7. CASE CannotParse(args)
  BY <1>7 DEF CannotParse
<1> QED BY <1>1, <1>5, <1>6, <1>7

LEMMA KeptStep ==
    ASSUME Inv, KeptInv, [Next]_vars
    PROVE  KeptInv'
<1>1. CASE /\ stage' \in {"parsing", "builtins"} => stage \in {"parsing", "builtins"}
           /\ nodes' = nodes /\ work' = work /\ arguments' = arguments
  BY <1>1 DEF KeptInv
<1>2. CASE stage' \notin {"parsing", "builtins"}
  BY <1>2 DEF KeptInv
<1>3. CASE UNCHANGED vars
  BY <1>1, <1>3 DEF vars, parserVars, mainVars
<1>4. CASE StartDaemon
  <2>1. nodes' = <<>> /\ arguments' = arguments /\ arguments.command \in Texts
    BY <1>4 DEF StartDaemon, Inv, ProgressInv, TypeInv
  <2>2. CASE work' = <<[string |-> arguments.command, father |-> NoNode]>>
    <3>1. NoNode \in Nat
      BY DEF NoNode
    <3>2. Plain(arguments.command) => KeptFor(nodes', work', arguments.command)
      BY <2>1, <2>2, <3>1, KeptAtStart
    <3> QED BY <2>1, <3>2 DEF KeptInv
  <2>3. CASE stage' = "exited"
    BY <1>2, <2>3
  <2> QED BY <1>4, <2>2, <2>3 DEF StartDaemon, Exits
<1>5. CASE CreateTreeFromString
  <2>1. CASE CreateNode
    <3>1. arguments' = arguments /\ stage = "parsing"
      BY <1>5, <2>1 DEF CreateTreeFromString, CreateNode
    <3>2. Plain(arguments.command) =>
            KeptFor(nodes', work', arguments.command) \/ stage' = "failed"
      BY <2>1, <3>1, NodeKept DEF KeptInv
    <3> QED BY <1>2, <3>1, <3>2 DEF KeptInv
  <2>2. CASE ~CreateNode
    <3>1. ParsingEnds \/ ApplyCd \/ WireRedirects
      BY <1>5, <2>2 DEF CreateTreeFromString, ApplyBuiltin
    <3>2. /\ nodes' = nodes /\ work' = work /\ arguments' = arguments
          /\ stage \in {"parsing", "builtins"}
      BY <1>5, <3>1 DEF CreateTreeFromString, ParsingEnds, ApplyCd, WireRedirects
    <3> QED BY <1>1, <3>2
  <2> QED BY <2>1, <2>2
<1>6. CASE ParseOption \/ TakeCommand \/ PrintHelp \/ StopDaemon
  <2>1. stage' \in {"arguments", "starting", "exited"}
    BY <1>6 DEF ParseOption, TakeCommand, PrintHelp, StopDaemon, Exits
  <2> QED BY <1>2, <2>1
<1>7. CASE Run \/ PrintResults \/ Return
  <2>1. stage' \in {"exited", "printing"}
    BY <1>7 DEF Run, PrintResults, Printing, Return, Exits, parserVars
  <2> QED BY <1>2, <2>1
<1> QED BY <1>3, <1>4, <1>5, <1>6, <1>7 DEF Next

LEMMA KeptIsKept ==
    Inv /\ KeptInv => WordsKept
<1> SUFFICES ASSUME Inv, KeptInv, Parsed,
                    \A i \in 1..Len(arguments.command) :
                      arguments.command[i] \notin Redirects,
                    NothingSqueezed(arguments.command)
             PROVE  WordsOf(Joined([n \in Created |-> Joined(nodes[n].argv, <<>>)], <<>>))
                      = WordsOf(arguments.command)
  BY DEF WordsKept
<1>1. stage = "builtins" /\ work = <<>>
  BY DEF Parsed, Inv, ProgressInv
<1>2. KeptFor(nodes, <<>>, arguments.command)
  BY <1>1 DEF KeptInv, Plain
<1>3. /\ WordsOf(Cat(ArgvTexts(nodes))) \o WordsOf(Cat(Strings(<<>>)))
           = WordsOf(arguments.command)
      /\ ArgvTexts(nodes) \in Seq(Texts)
  BY <1>2 DEF KeptFor
<1>4. WordsOf(Cat(Strings(<<>>))) = <<>>
  <2>1. Len(<<>>) = 0
    BY EmptySeq
  <2>2. Strings(<<>>) = <<>>
    BY <2>1 DEF Strings
  <2> QED BY <2>1, <2>2, CatNone, NoWords
<1>5. WordsOf(Cat(ArgvTexts(nodes))) \in Texts
  BY <1>3, CatIsText, WordsAreText
<1>6. WordsOf(Cat(ArgvTexts(nodes))) = WordsOf(arguments.command)
  BY <1>3, <1>4, <1>5, TextFacts
<1>7. Cat(ArgvTexts(nodes))
        = Joined([n \in Created |-> Joined(nodes[n].argv, <<>>)], <<>>)
  BY DEF Cat, ArgvTexts, Created
<1> QED BY <1>6, <1>7

\* A command without redirects reaches its executables word for word, in order:
\* neither split_obfuscated_string(), nor remove_brackets_if_alone(), nor
\* create_executable_from_string() loses one, or copies one, or moves it.
THEOREM WordsAreKept == Spec => []WordsKept
<1>1. Init => KeptInv
  BY DEF Init, KeptInv
<1>2. Inv /\ KeptInv /\ [Next]_vars => KeptInv'
  BY KeptStep
<1> QED BY <1>1, <1>2, KeptIsKept, InvAlways, PTL DEF Spec

=============================================================================
