----------------------- MODULE ChatPageConversations -----------------------
(***************************************************************************)
(* Proofs about the conversations of ChatPage: shown answers are kept,     *)
(* what an edit cut off is forgotten, and bookmarks lead to their answers. *)
(***************************************************************************)
EXTENDS ChatPageProofs

-----------------------------------------------------------------------------
(* Counting positions.                                                      *)

Less == OpToRel(<, Nat)

LEMMA LeastNumber ==
    ASSUME NEW T \in SUBSET Nat, T # {}
    PROVE  \E x \in T : \A y \in T : x <= y
<1>1. IsWellFoundedOn(Less, Nat)
  BY NatLessThanWellFounded DEF Less
<1>2. PICK x \in T : \A y \in T : ~ (<<y, x>> \in Less)
  BY <1>1, WFMin
<1>3. \A y \in T : ~ (y < x)
  BY <1>2 DEF Less, OpToRel
<1>4. QED BY <1>3

LEMMA FinitePositions ==
    ASSUME NEW n \in Nat, NEW S \in SUBSET (1..n)
    PROVE  IsFiniteSet(S)
<1>1. 1 \in Int /\ n \in Int
  OBVIOUS
<1>2. QED BY <1>1, FS_Interval, FS_Subset

\* How many positions come before i, and before its successor.
LEMMA IndexFacts ==
    ASSUME NEW n \in Nat, NEW S \in SUBSET (1..n), NEW i \in Nat
    PROVE  /\ Cardinality(S) \in Nat /\ Index(S, i) \in Nat /\ Index(S, i) <= Cardinality(S)
           /\ i \in S => Index(S, i + 1) = Index(S, i) + 1
           /\ i \notin S => Index(S, i + 1) = Index(S, i)
           /\ n < i => Index(S, i) = Cardinality(S)
           /\ i <= 1 => Index(S, i) = 0
<1> DEFINE before(k) == {j \in S : j < k}
<1>0. S \subseteq Nat /\ \A j \in S : 1 <= j /\ j <= n
  OBVIOUS
<1>1. IsFiniteSet(S) /\ IsFiniteSet(before(i)) /\ IsFiniteSet(before(i + 1))
  <2>2. IsFiniteSet(S)
    BY FinitePositions
  <2>3. QED BY <2>2, FS_Subset
<1>2. /\ Cardinality(S) \in Nat /\ Cardinality(before(i)) \in Nat
      /\ Cardinality(before(i)) <= Cardinality(S)
  <2>1. before(i) \in SUBSET S
    OBVIOUS
  <2>2. QED BY <1>1, <2>1, FS_CardinalityType, FS_Subset
<1>3. ASSUME i \in S PROVE Cardinality(before(i + 1)) = Cardinality(before(i)) + 1
  <2>0. ~ (i < i) /\ \A j \in S : j < i + 1 <=> j < i \/ j = i
    BY <1>0
  <2>1. before(i + 1) = before(i) \cup {i} /\ i \notin before(i)
    BY ONLY <1>3, <2>0, Zenon
  <2>2. QED BY <1>1, <2>1, FS_AddElement
<1>4. ASSUME i \notin S PROVE before(i + 1) = before(i)
  <2>1. \A j \in S : j < i + 1 <=> j < i
    BY <1>0, <1>4
  <2>2. QED BY ONLY <2>1, Zenon
<1>5. ASSUME n < i PROVE before(i) = S
  <2>1. \A j \in S : j < i
    BY <1>0, <1>5
  <2>2. QED BY ONLY <2>1, Zenon
<1>6. ASSUME i <= 1 PROVE before(i) = {}
  <2>1. \A j \in S : ~ (j < i)
    BY <1>0, <1>6
  <2>2. QED BY ONLY <2>1, Zenon
<1>7. QED BY <1>2, <1>3, <1>4, <1>5, <1>6, FS_EmptySet DEF Index

LEMMA IndexGrows ==
    ASSUME NEW n \in Nat, NEW S \in SUBSET (1..n), NEW i \in Nat, NEW j \in Nat, i <= j
    PROVE  /\ Index(S, i) \in Nat /\ Index(S, j) \in Nat /\ Index(S, i) <= Index(S, j)
           /\ i \in S /\ i < j => Index(S, i) < Index(S, j)
<1>1. ASSUME NEW a \in Nat, NEW b \in Nat, a <= b PROVE Index(S, a) <= Index(S, b)
  <2> DEFINE A == {x \in S : x < a}
             B == {x \in S : x < b}
  <2>1. IsFiniteSet(B) /\ A \in SUBSET B
    <3>1. IsFiniteSet(S)
      BY FinitePositions
    <3>2. S \subseteq Nat
      OBVIOUS
    <3>3. \A x \in S : x < a => x < b
      BY <1>1, <3>2
    <3>4. A \in SUBSET B /\ B \in SUBSET S
      BY ONLY <3>3, Zenon
    <3>5. QED BY <3>1, <3>4, FS_Subset
  <2>2. Cardinality(A) <= Cardinality(B)
    BY <2>1, FS_Subset
  <2>3. QED BY <2>2 DEF Index
<1>2. Index(S, i) \in Nat /\ Index(S, j) \in Nat
  BY IndexFacts
<1>3. ASSUME i \in S, i < j PROVE Index(S, i) < Index(S, j)
  <2>1. i + 1 \in Nat /\ i + 1 <= j
    BY <1>3
  <2>2. Index(S, i + 1) = Index(S, i) + 1
    BY <1>3, IndexFacts
  <2>3. Index(S, i + 1) <= Index(S, j)
    BY <1>1, <2>1
  <2>4. QED BY <1>2, <2>2, <2>3
<1>4. QED BY <1>1, <1>2, <1>3

LEMMA IndexOnce ==
    ASSUME NEW n \in Nat, NEW S \in SUBSET (1..n), NEW i \in S, NEW j \in S,
           Index(S, i) = Index(S, j)
    PROVE  i = j
<1>1. i \in Nat /\ j \in Nat /\ (i < j \/ j < i \/ i = j)
  OBVIOUS
<1>2. QED BY <1>1, IndexGrows

\* Every number below the count is the index of a position.
LEMMA IndexFound ==
    ASSUME NEW n \in Nat, NEW S \in SUBSET (1..n), NEW k \in Nat, k < Cardinality(S)
    PROVE  \E i \in S : Index(S, i) = k
<1> DEFINE Past == {x \in Nat : k < Index(S, x + 1)}
<1>1. Past \in SUBSET Nat /\ n \in Past
  BY IndexFacts
<1>2. PICK x \in Past : \A y \in Past : x <= y
  BY <1>1, LeastNumber
<1>3. x \in Nat /\ k < Index(S, x + 1) /\ Index(S, x) \in Nat /\ Index(S, x + 1) \in Nat
  BY <1>2, IndexFacts
<1>4. Index(S, x) <= k
  <2>1. CASE x = 0
    BY <2>1, IndexFacts
  <2>2. CASE x # 0
    <3>1. x - 1 \in Nat /\ x - 1 \notin Past /\ (x - 1) + 1 = x
      BY <1>2, <1>3, <2>2
    <3>2. QED BY <1>3, <3>1
  <2>3. QED BY <2>1, <2>2
<1>5. x \in S
  BY <1>3, <1>4, IndexFacts
<1>6. Index(S, x) = k
  BY <1>3, <1>4, <1>5, IndexFacts
<1>7. QED BY <1>5, <1>6

LEMMA IndexAgrees ==
    ASSUME NEW S, NEW T, NEW i, \A j : j < i => (j \in S <=> j \in T)
    PROVE  Index(S, i) = Index(T, i)
<1>1. {j \in S : j < i} = {j \in T : j < i}
  OBVIOUS
<1>2. QED BY <1>1 DEF Index

-----------------------------------------------------------------------------
(* Prefixes of a conversation.                                              *)

Total(s) == Cardinality(Questions(s))

LEMMA Positions ==
    ASSUME NEW s, IsList(s)
    PROVE  /\ Len(s) \in Nat /\ DOMAIN s = 1..Len(s)
           /\ Questions(s) \in SUBSET (1..Len(s)) /\ Answers(s) \in SUBSET (1..Len(s))
           /\ Total(s) \in Nat /\ Cardinality(Answers(s)) \in Nat
           /\ Questions(s) \in SUBSET Nat /\ Answers(s) \in SUBSET Nat
<1>1. /\ Len(s) \in Nat /\ DOMAIN s = 1..Len(s)
      /\ Questions(s) \in SUBSET (1..Len(s)) /\ Answers(s) \in SUBSET (1..Len(s))
  BY ListFacts DEF Questions, Answers
<1>2. QED BY <1>1, IndexFacts DEF Total

Prefix(p, s) ==
    /\ IsList(p) /\ IsList(s)
    /\ Len(p) <= Len(s)
    /\ \A i \in DOMAIN p : p[i] = s[i]

LEMMA PrefixFacts ==
    ASSUME NEW p, NEW s, Prefix(p, s)
    PROVE  /\ DOMAIN p \subseteq DOMAIN s
           /\ \A i \in DOMAIN p : (i \in Questions(p) <=> i \in Questions(s))
           /\ \A i \in DOMAIN p : (i \in Answers(p) <=> i \in Answers(s))
           /\ \A i \in 1..(Len(p) + 1) :
                 /\ Index(Questions(p), i) = Index(Questions(s), i)
                 /\ Index(Answers(p), i) = Index(Answers(s), i)
           /\ Total(p) = Index(Questions(s), Len(p) + 1)
           /\ Total(p) <= Total(s)
<1>1. /\ IsList(p) /\ IsList(s) /\ Len(p) <= Len(s)
      /\ \A i \in DOMAIN p : p[i] = s[i]
  BY DEF Prefix
<1>2. /\ DOMAIN p \subseteq DOMAIN s /\ Len(p) \in Nat /\ DOMAIN p = 1..Len(p)
      /\ Questions(p) \in SUBSET (1..Len(p)) /\ Questions(s) \in SUBSET (1..Len(s))
      /\ Questions(p) \subseteq Nat /\ Questions(s) \subseteq Nat
      /\ Answers(p) \subseteq Nat /\ Answers(s) \subseteq Nat
      /\ Questions(p) \subseteq DOMAIN p /\ Answers(p) \subseteq DOMAIN p
      /\ Answers(s) \subseteq DOMAIN s /\ Questions(s) \subseteq DOMAIN s
      /\ Len(s) \in Nat /\ DOMAIN s = 1..Len(s)
  BY <1>1, Positions DEF Questions, Answers
<1>3. /\ \A i \in DOMAIN p : (i \in Questions(p) <=> i \in Questions(s))
      /\ \A i \in DOMAIN p : (i \in Answers(p) <=> i \in Answers(s))
  BY <1>1, <1>2 DEF Questions, Answers
<1>4. ASSUME NEW i \in 1..(Len(p) + 1)
      PROVE  /\ Index(Questions(p), i) = Index(Questions(s), i)
             /\ Index(Answers(p), i) = Index(Answers(s), i)
  <2>1. \A j \in DOMAIN s : j < i => j \in DOMAIN p
    BY <1>2
  <2>2. \A j : j < i => (j \in Questions(p) <=> j \in Questions(s))
    BY <1>2, <1>3, <2>1
  <2>3. \A j : j < i => (j \in Answers(p) <=> j \in Answers(s))
    BY <1>2, <1>3, <2>1
  <2>4. QED BY <2>2, <2>3, IndexAgrees
<1>5. Total(p) = Index(Questions(s), Len(p) + 1) /\ Total(p) <= Total(s)
  <2>1. Len(p) + 1 \in 1..(Len(p) + 1) /\ Len(p) + 1 \in Nat /\ Len(p) < Len(p) + 1
    BY <1>2
  <2>2. Index(Questions(p), Len(p) + 1) = Total(p)
    BY <1>2, <2>1, IndexFacts DEF Total
  <2>3. Index(Questions(s), Len(p) + 1) <= Total(s)
    BY <1>2, <2>1, IndexFacts DEF Total
  <2>4. QED BY <1>4, <2>1, <2>2, <2>3
<1>6. QED BY <1>2, <1>3, <1>4, <1>5

LEMMA PrefixSelf == \A s : IsList(s) => Prefix(s, s)
BY ListFacts DEF Prefix

LEMMA PrefixConcat ==
    ASSUME NEW s, NEW t, IsList(s), IsList(t)
    PROVE  Prefix(s, s \o t)
<1>1. /\ IsList(s \o t)
      /\ Len(s \o t) = Len(s) + Len(t)
      /\ \A i \in DOMAIN s : i \in DOMAIN (s \o t) /\ (s \o t)[i] = s[i]
  BY ConcatList
<1>2. Len(s) \in Nat /\ Len(t) \in Nat
  BY ListFacts
<1>3. QED BY <1>1, <1>2 DEF Prefix

\* The conversation before the question with k questions before it.
LEMMA BeforeFacts ==
    ASSUME NEW s, IsList(s), NEW k \in Nat
    PROVE  /\ Prefix(Before(s, k), s) /\ Total(Before(s, k)) <= k
           /\ Total(s) <= k => Before(s, k) = s
           /\ k <= Total(s) => Total(Before(s, k)) = k
           /\ \A i \in DOMAIN s : Index(Questions(s), i + 1) <= k => i \in DOMAIN Before(s, k)
<1> DEFINE Q == Questions(s)
           cuts == {i \in Q : Index(Q, i) = k}
<1>1. /\ Len(s) \in Nat /\ DOMAIN s = 1..Len(s) /\ Q \in SUBSET (1..Len(s))
      /\ Total(s) \in Nat
  BY Positions
<1>2. CASE cuts = {}
  <2>1. Before(s, k) = s
    BY <1>2 DEF Before
  <2>2. ~ (k < Total(s))
    BY <1>1, <1>2, IndexFound DEF Total
  <2>3. QED BY <1>1, <2>1, <2>2, PrefixSelf
<1>3. ASSUME NEW c \in cuts
      PROVE  /\ Prefix(Before(s, k), s) /\ Total(Before(s, k)) <= k
             /\ Total(s) <= k => Before(s, k) = s
             /\ k <= Total(s) => Total(Before(s, k)) = k
             /\ \A i \in DOMAIN s : Index(Q, i + 1) <= k => i \in DOMAIN Before(s, k)
  <2>1. c \in Q /\ Index(Q, c) = k /\ c \in 1..Len(s)
    BY <1>1
  <2>2. \A d \in cuts : d = c
    BY <1>1, <2>1, IndexOnce
  <2>3. Min(cuts) = c
    <3>1. Min(cuts) \in cuts
      <4>1. \E x \in cuts : \A y \in cuts : x <= y
        BY <2>1, <2>2
      <4>2. QED BY <4>1 DEF Min
    <3>2. QED BY <2>2, <3>1
  <2>4. Before(s, k) = SubSeq(s, 1, c - 1)
    BY <2>3 DEF Before
  <2>5. PICK p : p = Before(s, k)
    OBVIOUS
  <2>6. IsList(p) /\ Len(p) = c - 1 /\ \A i \in 1..(c - 1) : p[i] = s[i]
    <3>1. 1 \in Int /\ c - 1 \in Int /\ \A i \in 1..(c - 1) : s[i] \in Range(s)
      BY <1>1, <2>1 DEF Range
    <3>2. /\ p \in Seq(Range(s))
          /\ Len(p) = IF 1 <= c - 1 THEN (c - 1) - 1 + 1 ELSE 0
          /\ \A i \in 1..((c - 1) - 1 + 1) : p[i] = s[1 + i - 1]
      <4>1. SubSeq(s, 1, c - 1) = p
        BY <2>4, <2>5
      <4>2. QED BY <3>1, <4>1, SubSeqProperties
    <3>3. IsList(p)
      BY <3>2, SeqOfRange DEF IsList
    <3>4. QED BY <2>1, <3>2, <3>3
  <2>7. Prefix(p, s)
    BY <1>1, <2>1, <2>6, ListFacts DEF Prefix
  <2>8. Total(p) = k
    <3>1. Total(p) = Index(Q, Len(p) + 1)
      BY <2>7, PrefixFacts
    <3>2. Len(p) + 1 = c
      BY <1>1, <2>1, <2>6
    <3>3. QED BY <2>1, <3>1, <3>2
  <2>9. k < Total(s) /\ Index(Q, c + 1) = k + 1
    BY <1>1, <2>1, IndexFacts DEF Total
  <2>10. ASSUME NEW i \in DOMAIN s, Index(Q, i + 1) <= k PROVE i \in DOMAIN p
    <3>1. i < c
      <4>1. SUFFICES ASSUME c <= i PROVE FALSE
        BY <1>1, <2>1
      <4>2. c + 1 \in Nat /\ i + 1 \in Nat /\ c + 1 <= i + 1
        BY <1>1, <2>1, <4>1
      <4>3. Index(Q, c + 1) <= Index(Q, i + 1) /\ Index(Q, i + 1) \in Nat
        BY <1>1, <4>2, IndexGrows
      <4>4. QED BY <2>9, <2>10, <4>3
    <3>2. QED BY <1>1, <2>1, <2>6, <3>1, ListFacts
  <2>11. QED BY <1>1, <2>5, <2>7, <2>8, <2>9, <2>10
<1>4. QED BY <1>2, <1>3

-----------------------------------------------------------------------------
(* A conversation without some of its error bubbles.                        *)

\* f places the messages of a, in their order, among those of b, which has no
\* other questions and answers.
Embeds(f, a, b) ==
    /\ IsList(a) /\ IsList(b)
    /\ f \in [DOMAIN a -> DOMAIN b]
    /\ \A i, j \in DOMAIN a : i < j => f[i] < f[j]
    /\ \A i \in DOMAIN a : a[i] = b[f[i]]
    /\ \A j \in Questions(b) \cup Answers(b) : \E i \in DOMAIN a : j = f[i]

Matches(f, n, m, S, T) ==
    /\ n \in Nat /\ m \in Nat /\ f \in [1..n -> 1..m]
    /\ \A i, j \in 1..n : i < j => f[i] < f[j]
    /\ S \in SUBSET (1..n) /\ T \in SUBSET (1..m)
    /\ \A i \in 1..n : i \in S <=> f[i] \in T
    /\ \A j \in T : \E i \in 1..n : j = f[i]

LEMMA CountMatched ==
    ASSUME NEW f, NEW n, NEW m, NEW S, NEW T, Matches(f, n, m, S, T)
    PROVE  /\ Cardinality(S) = Cardinality(T)
           /\ \A i \in 1..n : Index(S, i) = Index(T, f[i]) /\ Index(S, i + 1) = Index(T, f[i] + 1)
<1>0. /\ n \in Nat /\ m \in Nat /\ f \in [1..n -> 1..m]
      /\ \A i, j \in 1..n : i < j => f[i] < f[j]
      /\ S \in SUBSET (1..n) /\ T \in SUBSET (1..m)
      /\ \A i \in 1..n : i \in S <=> f[i] \in T
      /\ \A j \in T : \E i \in 1..n : j = f[i]
  BY DEF Matches
<1>1. \A i, j \in 1..n : (i < j <=> f[i] < f[j]) /\ (i # j => f[i] # f[j])
  <2> SUFFICES ASSUME NEW i \in 1..n, NEW j \in 1..n
               PROVE  (i < j <=> f[i] < f[j]) /\ (i # j => f[i] # f[j])
    OBVIOUS
  <2>1. f[i] \in 1..m /\ f[j] \in 1..m /\ (i < j => f[i] < f[j]) /\ (j < i => f[j] < f[i])
    BY <1>0
  <2>2. QED BY <2>1
<1>2. IsFiniteSet(S)
  BY <1>0, FinitePositions
<1>3. ASSUME NEW A \in SUBSET S, NEW B \in SUBSET T, \A i \in S : i \in A <=> f[i] \in B
      PROVE  Cardinality(A) = Cardinality(B)
  <2> DEFINE g == [i \in A |-> f[i]]
  <2>1. g \in [A -> B]
    BY <1>0, <1>3
  <2>2. \A i, j \in A : g[i] = g[j] => i = j
    BY <1>0, <1>1, <1>3
  <2>3. \A j \in B : \E i \in A : g[i] = j
    BY <1>0, <1>3
  <2>4. g \in Bijection(A, B)
    BY <2>1, <2>2, <2>3 DEF Bijection, Injection, Surjection, IsInjective
  <2>5. IsFiniteSet(A) /\ ExistsBijection(A, B)
    BY <1>2, <2>4, FS_Subset DEF ExistsBijection
  <2>6. QED BY <2>5, FS_Bijection
<1>4. Cardinality(S) = Cardinality(T)
  <2>1. S \in SUBSET S /\ T \in SUBSET T /\ \A i \in S : i \in S <=> f[i] \in T
    BY <1>0
  <2>2. QED BY <1>3, <2>1
<1>5. ASSUME NEW i \in 1..n PROVE Index(S, i) = Index(T, f[i])
  <2>1. /\ {j \in S : j < i} \in SUBSET S /\ {j \in T : j < f[i]} \in SUBSET T
        /\ \A j \in S : j \in {h \in S : h < i} <=> f[j] \in {h \in T : h < f[i]}
    BY <1>0, <1>1
  <2>2. QED BY <1>3, <2>1 DEF Index
<1>6. ASSUME NEW i \in 1..n PROVE Index(S, i + 1) = Index(T, f[i] + 1)
  <2>1. PICK h : h = f[i]
    OBVIOUS
  <2>2. i \in Nat /\ h \in Nat /\ (i \in S <=> h \in T) /\ Index(S, i) = Index(T, h)
    BY <1>0, <1>5, <2>1
  <2>3. Index(S, i + 1) = IF i \in S THEN Index(S, i) + 1 ELSE Index(S, i)
    BY <1>0, <2>2, IndexFacts
  <2>4. Index(T, h + 1) = IF h \in T THEN Index(T, h) + 1 ELSE Index(T, h)
    BY <1>0, <2>2, IndexFacts
  <2>5. QED BY <2>1, <2>2, <2>3, <2>4
<1>7. QED BY <1>4, <1>5, <1>6

Asked(s, i) == Index(Questions(s), i + 1)

LEMMA EmbedsFacts ==
    ASSUME NEW f, NEW a, NEW b, Embeds(f, a, b)
    PROVE  /\ Total(a) = Total(b) /\ Cardinality(Answers(a)) = Cardinality(Answers(b))
           /\ \A i \in DOMAIN a :
                 /\ f[i] \in DOMAIN b /\ a[i] = b[f[i]]
                 /\ i \in Questions(a) <=> f[i] \in Questions(b)
                 /\ i \in Answers(a) <=> f[i] \in Answers(b)
                 /\ Asked(a, i) = Asked(b, f[i])
                 /\ Index(Answers(a), i) = Index(Answers(b), f[i])
           /\ \A i, j \in DOMAIN a : i < j <=> f[i] < f[j]
           /\ \A j \in Questions(b) \cup Answers(b) : \E i \in DOMAIN a : j = f[i]
<1>1. /\ IsList(a) /\ IsList(b)
      /\ f \in [DOMAIN a -> DOMAIN b]
      /\ \A i, j \in DOMAIN a : i < j => f[i] < f[j]
      /\ \A i \in DOMAIN a : a[i] = b[f[i]]
      /\ \A j \in Questions(b) \cup Answers(b) : \E i \in DOMAIN a : j = f[i]
  BY DEF Embeds
<1>2. PICK n, m : n = Len(a) /\ m = Len(b)
  OBVIOUS
<1>3. /\ n \in Nat /\ DOMAIN a = 1..n /\ m \in Nat /\ DOMAIN b = 1..m
      /\ Questions(a) \in SUBSET (1..n) /\ Answers(a) \in SUBSET (1..n)
      /\ Questions(b) \in SUBSET (1..m) /\ Answers(b) \in SUBSET (1..m)
  BY <1>1, <1>2, Positions
<1>4. \A i \in DOMAIN a : /\ f[i] \in DOMAIN b
                          /\ i \in Questions(a) <=> f[i] \in Questions(b)
                          /\ i \in Answers(a) <=> f[i] \in Answers(b)
  BY <1>1 DEF Questions, Answers
<1>4a. /\ f \in [1..n -> 1..m]
       /\ \A i, j \in 1..n : i < j => f[i] < f[j]
       /\ \A i \in 1..n : i \in Questions(a) <=> f[i] \in Questions(b)
       /\ \A i \in 1..n : i \in Answers(a) <=> f[i] \in Answers(b)
       /\ \A j \in Questions(b) : \E i \in 1..n : j = f[i]
       /\ \A j \in Answers(b) : \E i \in 1..n : j = f[i]
  BY <1>1, <1>3, <1>4
<1>4b. /\ Matches(f, n, m, Questions(a), Questions(b))
       /\ Matches(f, n, m, Answers(a), Answers(b))
  BY <1>3, <1>4a DEF Matches
<1>5. /\ Total(a) = Total(b)
      /\ \A i \in 1..n : Index(Questions(a), i + 1) = Index(Questions(b), f[i] + 1)
  <2>1. PICK S, T : S = Questions(a) /\ T = Questions(b)
    OBVIOUS
  <2>2. /\ Cardinality(S) = Cardinality(T)
        /\ \A i \in 1..n : Index(S, i) = Index(T, f[i]) /\ Index(S, i + 1) = Index(T, f[i] + 1)
    BY ONLY <1>4b, <2>1, CountMatched
  <2>3. QED BY <2>1, <2>2 DEF Total
<1>6. /\ Cardinality(Answers(a)) = Cardinality(Answers(b))
      /\ \A i \in 1..n : Index(Answers(a), i) = Index(Answers(b), f[i])
  <2>1. PICK S, T : S = Answers(a) /\ T = Answers(b)
    OBVIOUS
  <2>2. /\ Cardinality(S) = Cardinality(T)
        /\ \A i \in 1..n : Index(S, i) = Index(T, f[i]) /\ Index(S, i + 1) = Index(T, f[i] + 1)
    BY ONLY <1>4b, <2>1, CountMatched
  <2>3. QED BY <2>1, <2>2
<1>7. \A i, j \in DOMAIN a : i < j <=> f[i] < f[j]
  <2> SUFFICES ASSUME NEW i \in 1..n, NEW j \in 1..n PROVE i < j <=> f[i] < f[j]
    BY <1>3
  <2>1. f[i] \in 1..m /\ f[j] \in 1..m /\ (i < j => f[i] < f[j]) /\ (j < i => f[j] < f[i])
    BY <1>1, <1>3
  <2>2. QED BY <2>1
<1>8. QED BY <1>1, <1>3, <1>4, <1>5, <1>6, <1>7 DEF Asked

LEMMA FilteredEmbeds ==
    ASSUME NEW s, IsList(s), NEW S \in SUBSET DOMAIN s,
           Questions(s) \subseteq S, Answers(s) \subseteq S
    PROVE  \E f : Embeds(f, Filtered(s, S), s)
<1> DEFINE N == Cardinality(S)
           f == [n \in 1..N |-> CHOOSE i \in S : Index(S, i) = n - 1]
           F == Filtered(s, S)
<1>1. Len(s) \in Nat /\ DOMAIN s = 1..Len(s) /\ S \in SUBSET (1..Len(s)) /\ N \in Nat
  BY ListFacts, IndexFacts
<1>2. \A n \in 1..N : f[n] \in S /\ Index(S, f[n]) = n - 1
  <2> SUFFICES ASSUME NEW n \in 1..N PROVE f[n] \in S /\ Index(S, f[n]) = n - 1
    OBVIOUS
  <2>1. n - 1 \in Nat /\ n - 1 < N
    BY <1>1
  <2>2. \E i \in S : Index(S, i) = n - 1
    BY <1>1, <2>1, IndexFound
  <2>3. QED BY <2>2
<1>3. F = [n \in 1..N |-> s[f[n]]]
  BY DEF Filtered
<1> HIDE DEF f, F, N
<1>4. IsList(F) /\ DOMAIN F = 1..N
  <2>1. DOMAIN F = 1..N /\ F \in [1..N -> Range(F)]
    BY <1>3 DEF Range
  <2>2. F \in Seq(Range(F))
    BY <1>1, <2>1
  <2>3. QED BY <2>1, <2>2 DEF IsList
<1>5. f \in [1..N -> DOMAIN s]
  BY <1>2 DEF f
<1>6. ASSUME NEW n \in 1..N, NEW m \in 1..N, n < m PROVE f[n] < f[m]
  <2>1. SUFFICES ASSUME f[m] <= f[n] PROVE FALSE
    BY <1>1, <1>5, <1>6
  <2>2. f[m] \in Nat /\ f[n] \in Nat /\ f[m] <= f[n]
    BY <1>1, <1>5, <2>1
  <2>3. Index(S, f[m]) <= Index(S, f[n])
    BY <1>1, <2>2, IndexGrows
  <2>4. QED BY <1>1, <1>2, <1>6, <2>3
<1>7. ASSUME NEW i \in S PROVE \E n \in 1..N : i = f[n]
  <2>1. i \in Nat /\ i + 1 \in Nat
    BY <1>1
  <2>2. /\ Index(S, i) \in Nat /\ Index(S, i + 1) = Index(S, i) + 1
        /\ Index(S, i + 1) <= N
    BY <1>1, <2>1, IndexFacts DEF N
  <2>3. PICK n : n = Index(S, i) + 1
    OBVIOUS
  <2>4. n \in 1..N /\ n - 1 = Index(S, i)
    BY <1>1, <2>2, <2>3
  <2>5. f[n] \in S /\ Index(S, f[n]) = Index(S, i)
    BY <1>2, <2>4
  <2>6. f[n] = i
    BY <1>1, <2>5, IndexOnce
  <2>7. QED BY <2>4, <2>6
<1>8. Embeds(f, F, s)
  BY <1>3, <1>4, <1>5, <1>6, <1>7 DEF Embeds
<1>9. QED BY <1>8 DEF F

-----------------------------------------------------------------------------
(* What a shown conversation and a thread's history have to do with each     *)
(* other.                                                                   *)

\* Every answer shown in full is in the history, after no more questions.
Shows(list, log) ==
    /\ Total(log) <= Total(list)
    /\ \A i \in Answers(list) : list[i].whole =>
          \E j \in Answers(log) : log[j].by = list[i].by /\ Asked(log, j) <= Asked(list, i)

\* The last question shown is in the history, unless that has fewer questions.
LastAsked(list, log) ==
    \A i \in Questions(list) : (\A j \in Questions(list) : j <= i) =>
        HoldsQuestion(log, list[i].turn) \/ Total(log) < Total(list)

\* Every question of the history is shown, after no more questions.
Remembers(list, log) ==
    \A j \in Questions(log) : \E i \in Questions(list) :
        list[i].turn = log[j].turn /\ Asked(list, i) <= Asked(log, j)

\* Answers after the same number of answers are of the same attempt.
SameBy(list, log) ==
    \A i \in Answers(list), j \in Answers(log) :
        Index(Answers(list), i) = Index(Answers(log), j) => list[i].by = log[j].by

SameAnswers(list, log) ==
    Cardinality(Answers(list)) = Cardinality(Answers(log)) /\ SameBy(list, log)

LEMMA AskedFacts ==
    ASSUME NEW s, IsList(s), NEW i \in DOMAIN s
    PROVE  /\ Asked(s, i) \in Nat /\ Asked(s, i) <= Total(s) /\ Total(s) \in Nat
           /\ \A j \in DOMAIN s : i <= j => Asked(s, i) <= Asked(s, j)
           /\ i \in Questions(s) => \A j \in DOMAIN s : Asked(s, i) <= Asked(s, j) => i <= j
<1>1. /\ Len(s) \in Nat /\ DOMAIN s = 1..Len(s) /\ Questions(s) \in SUBSET (1..Len(s))
  BY Positions
<1>2. i \in Nat /\ i + 1 \in Nat
  BY <1>1
<1>3. Asked(s, i) \in Nat /\ Asked(s, i) <= Total(s) /\ Total(s) \in Nat
  BY <1>1, <1>2, IndexFacts DEF Asked, Total
<1>4. ASSUME NEW j \in DOMAIN s, i <= j PROVE Asked(s, i) <= Asked(s, j)
  <2>1. j + 1 \in Nat /\ i + 1 <= j + 1
    BY <1>1, <1>4
  <2>2. QED BY <1>1, <1>2, <2>1, IndexGrows DEF Asked
<1>5. ASSUME i \in Questions(s), NEW j \in DOMAIN s, Asked(s, i) <= Asked(s, j) PROVE i <= j
  <2>1. SUFFICES ASSUME j < i PROVE FALSE
    BY <1>1
  <2>2. j + 1 \in Nat /\ j + 1 <= i
    BY <1>1, <2>1
  <2>3. Index(Questions(s), j + 1) <= Index(Questions(s), i)
    BY <1>1, <1>2, <2>2, IndexGrows
  <2>4. Index(Questions(s), i + 1) = Index(Questions(s), i) + 1 /\ Index(Questions(s), i) \in Nat
    BY <1>1, <1>2, <1>5, IndexFacts
  <2>5. Index(Questions(s), j + 1) \in Nat
    BY <1>1, <2>2, IndexFacts
  <2>6. QED BY <1>5, <2>3, <2>4, <2>5 DEF Asked
<1>6. QED BY <1>3, <1>4, <1>5

\* Positions of a prefix ask as they did; those after it ask at least as much.
LEMMA PrefixAsked ==
    ASSUME NEW p, NEW s, Prefix(p, s)
    PROVE  /\ \A i \in DOMAIN p : i \in DOMAIN s /\ Asked(p, i) = Asked(s, i)
           /\ \A i \in DOMAIN s \ DOMAIN p : Total(p) <= Asked(s, i)
<1>1. /\ IsList(p) /\ IsList(s) /\ DOMAIN p \subseteq DOMAIN s
      /\ \A i \in 1..(Len(p) + 1) : Index(Questions(p), i) = Index(Questions(s), i)
      /\ Total(p) = Index(Questions(s), Len(p) + 1)
  BY PrefixFacts DEF Prefix
<1>2. /\ Len(p) \in Nat /\ DOMAIN p = 1..Len(p) /\ Len(s) \in Nat /\ DOMAIN s = 1..Len(s)
      /\ Questions(s) \in SUBSET (1..Len(s))
  BY <1>1, Positions
<1>3. ASSUME NEW i \in DOMAIN p PROVE Asked(p, i) = Asked(s, i)
  <2>1. i + 1 \in 1..(Len(p) + 1)
    BY <1>2
  <2>2. QED BY <1>1, <2>1 DEF Asked
<1>4. ASSUME NEW i \in DOMAIN s \ DOMAIN p PROVE Total(p) <= Asked(s, i)
  <2>1. i + 1 \in Nat /\ Len(p) + 1 \in Nat /\ Len(p) + 1 <= i + 1
    BY <1>2
  <2>2. QED BY <1>1, <1>2, <2>1, IndexGrows DEF Asked
<1>5. QED BY <1>1, <1>3, <1>4

\* The page shows more.
LEMMA ShowsMore ==
    ASSUME NEW list, NEW list2, NEW log, IsList(log), Prefix(list, list2), Shows(list, log),
           \A i \in Answers(list2) \ DOMAIN list : list2[i].whole =>
               \E j \in Answers(log) : log[j].by = list2[i].by
    PROVE  Shows(list2, log)
<1>1. IsList(list2) /\ IsList(list) /\ Total(list) <= Total(list2) /\ Total(log) <= Total(list)
      /\ \A i \in DOMAIN list : list[i] = list2[i]
  BY PrefixFacts DEF Prefix, Shows
<1>2. Total(list) \in Nat /\ Total(list2) \in Nat /\ Total(log) \in Nat
  BY <1>1, Positions
<1>3. ASSUME NEW i \in Answers(list2), list2[i].whole
      PROVE  \E j \in Answers(log) : log[j].by = list2[i].by /\ Asked(log, j) <= Asked(list2, i)
  <2>1. CASE i \in DOMAIN list
    <3>1. i \in Answers(list) /\ list[i] = list2[i] /\ Asked(list, i) = Asked(list2, i)
      BY <1>1, <1>3, <2>1, PrefixFacts, PrefixAsked
    <3>2. QED BY <1>3, <3>1 DEF Shows
  <2>2. CASE i \notin DOMAIN list
    <3>1. PICK j \in Answers(log) : log[j].by = list2[i].by
      BY <1>3, <2>2
    <3>2. j \in DOMAIN log /\ i \in DOMAIN list2
      BY DEF Answers
    <3>3. Asked(log, j) <= Total(log) /\ Asked(log, j) \in Nat
      BY <3>2, AskedFacts
    <3>4. Total(list) <= Asked(list2, i) /\ Asked(list2, i) \in Nat
      BY <1>1, <2>2, <3>2, PrefixAsked, AskedFacts
    <3>5. Asked(log, j) <= Asked(list2, i)
      BY <1>1, <1>2, <3>3, <3>4
    <3>6. QED BY <3>1, <3>5
  <2>3. QED BY <2>1, <2>2
<1>4. QED BY <1>1, <1>2, <1>3 DEF Shows

\* The history grows.
LEMMA ShowsLonger ==
    ASSUME NEW list, NEW log, NEW log2, Prefix(log, log2), Shows(list, log),
           Total(log2) <= Total(list)
    PROVE  Shows(list, log2)
<1>1. \A j \in Answers(log) : j \in Answers(log2) /\ log2[j] = log[j] /\ Asked(log2, j) = Asked(log, j)
  BY PrefixFacts, PrefixAsked DEF Answers, Prefix
<1>2. QED BY <1>1 DEF Shows

\* Both sides are cut before the same question.
LEMMA ShowsCut ==
    ASSUME NEW list, NEW log, IsList(list), IsList(log), NEW k \in Nat, Shows(list, log)
    PROVE  Shows(Before(list, k), Before(log, k))
<1>1. PICK p, q : p = Before(list, k) /\ q = Before(log, k)
  OBVIOUS
<1>2. /\ Prefix(p, list) /\ Total(p) <= k
      /\ Total(list) <= k => p = list
      /\ k <= Total(list) => Total(p) = k
  BY <1>1, BeforeFacts
<1>3. /\ Prefix(q, log) /\ Total(q) <= k /\ Total(q) <= Total(log)
      /\ \A j \in DOMAIN log : Asked(log, j) <= k => j \in DOMAIN q
  BY <1>1, BeforeFacts, PrefixFacts DEF Asked
<1>4. /\ Total(list) \in Nat /\ Total(log) \in Nat /\ Total(p) \in Nat /\ Total(q) \in Nat
      /\ IsList(p) /\ IsList(q)
  BY <1>2, <1>3, Positions DEF Prefix
<1>5. Total(q) <= Total(p)
  BY <1>2, <1>3, <1>4 DEF Shows
<1>6. ASSUME NEW i \in Answers(p), p[i].whole
      PROVE  \E j \in Answers(q) : q[j].by = p[i].by /\ Asked(q, j) <= Asked(p, i)
  <2>1. i \in DOMAIN p
    BY DEF Answers
  <2>2. i \in Answers(list) /\ list[i] = p[i] /\ Asked(p, i) = Asked(list, i)
    BY <1>2, <2>1, PrefixFacts, PrefixAsked DEF Prefix
  <2>3. Asked(p, i) \in Nat /\ Asked(p, i) <= Total(p)
    BY <1>4, <2>1, AskedFacts
  <2>4. PICK j \in Answers(log) : log[j].by = p[i].by /\ Asked(log, j) <= Asked(p, i)
    BY <1>6, <2>2 DEF Shows
  <2>5. j \in DOMAIN log /\ Asked(log, j) \in Nat
    BY AskedFacts DEF Answers
  <2>6. j \in DOMAIN q
    BY <1>2, <1>3, <1>4, <2>3, <2>4, <2>5
  <2>7. j \in Answers(q) /\ q[j] = log[j] /\ Asked(q, j) = Asked(log, j)
    BY <1>3, <2>6, PrefixFacts, PrefixAsked DEF Prefix
  <2>8. QED BY <2>4, <2>7
<1>7. QED BY <1>1, <1>5, <1>6 DEF Shows

\* Error bubbles do not matter.
LEMMA ShowsEmbedded ==
    ASSUME NEW f, NEW list, NEW list2, NEW log, Embeds(f, list2, list), Shows(list, log)
    PROVE  Shows(list2, log)
<1>1. /\ Total(list2) = Total(list)
      /\ \A i \in Answers(list2) : /\ f[i] \in Answers(list) /\ list2[i] = list[f[i]]
                                   /\ Asked(list2, i) = Asked(list, f[i])
  <2>1. /\ Total(list2) = Total(list)
        /\ \A i \in DOMAIN list2 :
              /\ f[i] \in DOMAIN list /\ list2[i] = list[f[i]]
              /\ i \in Questions(list2) <=> f[i] \in Questions(list)
              /\ i \in Answers(list2) <=> f[i] \in Answers(list)
              /\ Asked(list2, i) = Asked(list, f[i])
    BY EmbedsFacts
  <2>2. Answers(list2) \subseteq DOMAIN list2
    BY DEF Answers
  <2>3. QED BY <2>1, <2>2
<1>2. QED BY <1>1 DEF Shows

LEMMA ShowsItself == \A s : IsList(s) => Shows(s, s)
<1> SUFFICES ASSUME NEW s, IsList(s) PROVE Shows(s, s)
  OBVIOUS
<1>1. Total(s) \in Nat /\ \A i \in Answers(s) : i \in DOMAIN s /\ Asked(s, i) \in Nat
  BY Positions, AskedFacts DEF Answers
<1>2. QED BY <1>1 DEF Shows

-----------------------------------------------------------------------------
(* The last question.                                                       *)

LEMMA LastAskedMore ==
    ASSUME NEW list, NEW list2, NEW log, Prefix(list, list2), LastAsked(list, log),
           Questions(list2) \subseteq DOMAIN list
    PROVE  LastAsked(list2, log) /\ Total(list2) = Total(list)
<1>1. /\ Questions(list2) = Questions(list)
      /\ \A i \in Questions(list) : list2[i] = list[i]
  BY PrefixFacts DEF Questions, Prefix
<1>2. QED BY <1>1 DEF LastAsked, Total

LEMMA LastAskedLonger ==
    ASSUME NEW list, NEW log, NEW log2, Prefix(log, log2), LastAsked(list, log),
           Total(log2) = Total(log)
    PROVE  LastAsked(list, log2)
<1>1. \A t : HoldsQuestion(log, t) => HoldsQuestion(log2, t)
  BY PrefixFacts DEF HoldsQuestion, Prefix
<1>2. QED BY <1>1 DEF LastAsked

LEMMA LastAskedHeld ==
    ASSUME NEW list, IsList(list), NEW log, NEW t, IsLastQuestion(list, t), HoldsQuestion(log, t)
    PROVE  LastAsked(list, log)
<1>1. PICK i \in Questions(list) : list[i].turn = t /\ \A j \in Questions(list) : j <= i
  BY DEF IsLastQuestion
<1>2. ASSUME NEW h \in Questions(list), \A j \in Questions(list) : j <= h PROVE list[h].turn = t
  <2>1. h <= i /\ i <= h /\ h \in Nat /\ i \in Nat
    BY <1>1, <1>2, Positions
  <2>2. h = i
    BY <2>1
  <2>3. QED BY <1>1, <2>2
<1>3. QED BY <1>2 DEF LastAsked

LEMMA LastAskedEmbedded ==
    ASSUME NEW f, NEW list, NEW list2, NEW log, Embeds(f, list2, list), LastAsked(list, log)
    PROVE  LastAsked(list2, log)
<1>1. /\ Total(list2) = Total(list) /\ IsList(list) /\ IsList(list2)
      /\ \A i \in DOMAIN list2 : /\ f[i] \in DOMAIN list /\ list2[i] = list[f[i]]
                                 /\ i \in Questions(list2) <=> f[i] \in Questions(list)
      /\ \A i, j \in DOMAIN list2 : i < j <=> f[i] < f[j]
      /\ \A j \in Questions(list) : \E i \in DOMAIN list2 : j = f[i]
  BY EmbedsFacts DEF Embeds
<1>2. /\ Questions(list2) \subseteq DOMAIN list2 /\ Questions(list2) \subseteq Nat
      /\ Questions(list) \subseteq Nat
  BY <1>1, Positions DEF Questions
<1>3. ASSUME NEW i \in Questions(list2), \A j \in Questions(list2) : j <= i
      PROVE  f[i] \in Questions(list) /\ \A j \in Questions(list) : j <= f[i]
  <2>1. ASSUME NEW j \in Questions(list) PROVE j <= f[i]
    <3>1. PICK h \in DOMAIN list2 : j = f[h]
      BY <1>1
    <3>2. h \in Questions(list2) /\ h <= i
      BY <1>1, <1>3, <3>1
    <3>3. h = i \/ h < i
      BY <1>2, <3>2
    <3>4. f[i] \in Nat /\ f[h] \in Nat
      BY <1>1, <1>2, <3>2
    <3>5. QED BY <1>1, <1>2, <3>1, <3>2, <3>3, <3>4
  <2>2. QED BY <1>1, <1>2, <2>1
<1>4. \A i \in Questions(list2) : list2[i] = list[f[i]]
  BY <1>1, <1>2
<1>5. QED BY <1>1, <1>3, <1>4 DEF LastAsked

LEMMA IsLastMore ==
    ASSUME NEW list, NEW list2, NEW t, Prefix(list, list2), IsLastQuestion(list, t),
           Questions(list2) \subseteq DOMAIN list
    PROVE  IsLastQuestion(list2, t)
<1>1. /\ Questions(list2) = Questions(list)
      /\ \A i \in Questions(list) : list2[i] = list[i]
  BY PrefixFacts DEF Questions, Prefix
<1>2. QED BY <1>1 DEF IsLastQuestion

LEMMA IsLastEmbedded ==
    ASSUME NEW f, NEW list, NEW list2, NEW t, Embeds(f, list2, list), IsLastQuestion(list, t)
    PROVE  IsLastQuestion(list2, t)
<1>1. /\ IsList(list) /\ IsList(list2)
      /\ \A i \in DOMAIN list2 : /\ f[i] \in DOMAIN list /\ list2[i] = list[f[i]]
                                 /\ i \in Questions(list2) <=> f[i] \in Questions(list)
      /\ \A i, j \in DOMAIN list2 : i < j <=> f[i] < f[j]
      /\ \A j \in Questions(list) : \E i \in DOMAIN list2 : j = f[i]
  BY EmbedsFacts DEF Embeds
<1>2. /\ Questions(list2) \subseteq DOMAIN list2 /\ Questions(list2) \subseteq Nat
      /\ Questions(list) \subseteq Nat
  BY <1>1, Positions DEF Questions
<1>3. PICK q \in Questions(list) : list[q].turn = t /\ \A j \in Questions(list) : j <= q
  BY DEF IsLastQuestion
<1>4. PICK i \in DOMAIN list2 : q = f[i]
  BY <1>1
<1>5. i \in Questions(list2) /\ list2[i].turn = t
  BY <1>1, <1>3, <1>4
<1>6. ASSUME NEW j \in Questions(list2) PROVE j <= i
  <2>1. f[j] \in Questions(list) /\ f[j] <= f[i] /\ f[j] \in Nat /\ f[i] \in Nat
    BY <1>1, <1>2, <1>3, <1>4
  <2>2. ~ (f[i] < f[j]) /\ j \in DOMAIN list2 /\ j \in Nat /\ i \in Nat
    BY <1>2, <1>5, <2>1
  <2>3. ~ (i < j)
    BY <1>1, <2>2
  <2>4. QED BY <2>2, <2>3
<1>7. QED BY <1>5, <1>6 DEF IsLastQuestion

-----------------------------------------------------------------------------
(* Questions remembered.                                                    *)

LEMMA RemembersMore ==
    ASSUME NEW list, NEW list2, NEW log, Prefix(list, list2), Remembers(list, log)
    PROVE  Remembers(list2, log)
<1>1. \A i \in Questions(list) : i \in Questions(list2) /\ list2[i] = list[i] /\ Asked(list2, i) = Asked(list, i)
  BY PrefixFacts, PrefixAsked DEF Questions, Prefix
<1>2. QED BY <1>1 DEF Remembers

LEMMA RemembersLonger ==
    ASSUME NEW list, NEW log, NEW log2, IsList(list), Prefix(log, log2), Remembers(list, log),
           \A j \in Questions(log2) \ DOMAIN log : \E i \in Questions(list) :
               list[i].turn = log2[j].turn /\ Asked(list, i) <= Asked(log2, j)
    PROVE  Remembers(list, log2)
<1>1. \A j \in Questions(log2) : j \in DOMAIN log =>
          j \in Questions(log) /\ log2[j] = log[j] /\ Asked(log2, j) = Asked(log, j)
  BY PrefixFacts, PrefixAsked DEF Prefix
<1>2. QED BY <1>1 DEF Remembers

LEMMA RemembersCut ==
    ASSUME NEW list, NEW log, IsList(list), IsList(log), NEW k \in Nat, Remembers(list, log)
    PROVE  Remembers(Before(list, k), Before(log, k))
<1>1. PICK p, q : p = Before(list, k) /\ q = Before(log, k)
  OBVIOUS
<1>2. /\ Prefix(p, list) /\ \A i \in DOMAIN list : Asked(list, i) <= k => i \in DOMAIN p
  BY <1>1, BeforeFacts DEF Asked
<1>3. Prefix(q, log) /\ Total(q) <= k
  BY <1>1, BeforeFacts
<1>4. Total(q) \in Nat /\ IsList(q)
  BY <1>3, Positions DEF Prefix
<1>5. ASSUME NEW j \in Questions(q)
      PROVE  \E i \in Questions(p) : p[i].turn = q[j].turn /\ Asked(p, i) <= Asked(q, j)
  <2>1. j \in DOMAIN q
    BY DEF Questions
  <2>2. j \in Questions(log) /\ log[j] = q[j] /\ Asked(q, j) = Asked(log, j)
    BY <1>3, <2>1, PrefixFacts, PrefixAsked DEF Prefix
  <2>3. Asked(q, j) \in Nat /\ Asked(q, j) <= Total(q)
    BY <1>4, <2>1, AskedFacts
  <2>4. PICK i \in Questions(list) : list[i].turn = q[j].turn /\ Asked(list, i) <= Asked(q, j)
    BY <2>2 DEF Remembers
  <2>5. i \in DOMAIN list /\ Asked(list, i) \in Nat
    BY AskedFacts DEF Questions
  <2>6. i \in DOMAIN p
    BY <1>2, <1>3, <1>4, <2>3, <2>4, <2>5
  <2>7. i \in Questions(p) /\ p[i] = list[i] /\ Asked(p, i) = Asked(list, i)
    BY <1>2, <2>6, PrefixFacts, PrefixAsked DEF Prefix
  <2>8. QED BY <2>4, <2>7
<1>6. QED BY <1>1, <1>5 DEF Remembers

LEMMA RemembersEmbedded ==
    ASSUME NEW f, NEW list, NEW list2, NEW log, Embeds(f, list2, list), Remembers(list, log)
    PROVE  Remembers(list2, log)
<1>1. /\ \A i \in DOMAIN list2 : /\ f[i] \in DOMAIN list /\ list2[i] = list[f[i]]
                                 /\ i \in Questions(list2) <=> f[i] \in Questions(list)
                                 /\ Asked(list2, i) = Asked(list, f[i])
      /\ \A j \in Questions(list) : \E i \in DOMAIN list2 : j = f[i]
  BY EmbedsFacts
<1>2. \A j \in Questions(list) : \E i \in Questions(list2) :
          list2[i] = list[j] /\ Asked(list2, i) = Asked(list, j)
  BY <1>1
<1>3. QED BY <1>2 DEF Remembers

LEMMA RemembersItself == \A s : IsList(s) => Remembers(s, s)
<1> SUFFICES ASSUME NEW s, IsList(s) PROVE Remembers(s, s)
  OBVIOUS
<1>1. \A i \in Questions(s) : i \in DOMAIN s /\ Asked(s, i) \in Nat
  BY AskedFacts DEF Questions
<1>2. QED BY <1>1 DEF Remembers

-----------------------------------------------------------------------------
(* Answers counted.                                                         *)

LEMMA AnswerIndex ==
    ASSUME NEW s, IsList(s), NEW i \in Answers(s)
    PROVE  Index(Answers(s), i) \in Nat /\ Index(Answers(s), i) < Cardinality(Answers(s))
<1>1. /\ Len(s) \in Nat /\ Answers(s) \in SUBSET (1..Len(s))
  BY Positions
<1>2. i \in Nat /\ i + 1 \in Nat
  BY <1>1
<1>3. /\ Index(Answers(s), i) \in Nat /\ Index(Answers(s), i + 1) = Index(Answers(s), i) + 1
      /\ Index(Answers(s), i + 1) <= Cardinality(Answers(s)) /\ Cardinality(Answers(s)) \in Nat
  BY <1>1, <1>2, IndexFacts
<1>4. QED BY <1>3

LEMMA AnswerFound ==
    ASSUME NEW s, IsList(s), NEW k \in Nat, k < Cardinality(Answers(s))
    PROVE  \E i \in Answers(s) : Index(Answers(s), i) = k
<1>1. PICK n, S : n = Len(s) /\ S = Answers(s)
  OBVIOUS
<1>2. n \in Nat /\ S \in SUBSET (1..n) /\ k < Cardinality(S)
  BY <1>1, Positions
<1>3. \E i \in S : Index(S, i) = k
  BY <1>2, IndexFound
<1>4. QED BY <1>1, <1>3

LEMMA SameAnswersThen ==
    ASSUME NEW a, NEW b, NEW c, IsList(a), IsList(b), IsList(c),
           SameAnswers(a, b), SameAnswers(b, c)
    PROVE  SameAnswers(a, c)
<1>1. SameBy(a, b) /\ SameBy(b, c) /\ Cardinality(Answers(a)) = Cardinality(Answers(b))
      /\ Cardinality(Answers(b)) = Cardinality(Answers(c))
  BY DEF SameAnswers
<1>2. ASSUME NEW i \in Answers(a), NEW j \in Answers(c),
             Index(Answers(a), i) = Index(Answers(c), j)
      PROVE  a[i].by = c[j].by
  <2>1. PICK k : k = Index(Answers(a), i)
    OBVIOUS
  <2>2. k \in Nat /\ k < Cardinality(Answers(b))
    BY <1>1, <2>1, AnswerIndex
  <2>3. PICK h \in Answers(b) : Index(Answers(b), h) = k
    BY <2>2, AnswerFound
  <2>4. a[i].by = b[h].by
    BY <1>1, <2>1, <2>3 DEF SameBy
  <2>5. b[h].by = c[j].by
    BY <1>1, <1>2, <2>1, <2>3 DEF SameBy
  <2>6. QED BY <2>4, <2>5
<1>3. QED BY <1>1, <1>2 DEF SameAnswers, SameBy

LEMMA SameAnswersBack ==
    ASSUME NEW a, NEW b, SameAnswers(a, b)
    PROVE  SameAnswers(b, a)
  BY DEF SameAnswers, SameBy

LEMMA SameAnswersSelf ==
    ASSUME NEW s, IsList(s)
    PROVE  SameAnswers(s, s)
<1>1. /\ Len(s) \in Nat /\ Answers(s) \in SUBSET (1..Len(s))
  BY Positions
<1>2. \A i, j \in Answers(s) : Index(Answers(s), i) = Index(Answers(s), j) => i = j
  BY <1>1, IndexOnce
<1>3. QED BY <1>2 DEF SameAnswers, SameBy

\* Appending what is no answer.
LEMMA SameAnswersMore ==
    ASSUME NEW list, NEW list2, Prefix(list, list2), Answers(list2) \subseteq DOMAIN list
    PROVE  SameAnswers(list2, list)
<1>1. IsList(list) /\ IsList(list2)
  BY DEF Prefix
<1>2. /\ Answers(list2) = Answers(list)
      /\ \A i \in Answers(list) : list2[i] = list[i]
  BY PrefixFacts DEF Answers, Prefix
<1>3. SameAnswers(list, list)
  BY <1>1, SameAnswersSelf
<1>4. QED BY <1>2, <1>3 DEF SameAnswers, SameBy

\* Appending one answer.
LEMMA OneAnswerMore ==
    ASSUME NEW s, NEW s2, Prefix(s, s2), NEW x \in DOMAIN s2 \ DOMAIN s,
           Answers(s2) = Answers(s) \cup {x}
    PROVE  /\ Cardinality(Answers(s2)) = Cardinality(Answers(s)) + 1
           /\ Index(Answers(s2), x) = Cardinality(Answers(s))
           /\ \A i \in Answers(s) : s2[i] = s[i] /\ Index(Answers(s2), i) = Index(Answers(s), i)
<1>1. /\ IsList(s) /\ IsList(s2) /\ Len(s) <= Len(s2)
      /\ \A i \in DOMAIN s : s[i] = s2[i]
      /\ \A i \in 1..(Len(s) + 1) : Index(Answers(s), i) = Index(Answers(s2), i)
  BY PrefixFacts DEF Prefix
<1>2. /\ Len(s) \in Nat /\ DOMAIN s = 1..Len(s) /\ Len(s2) \in Nat /\ DOMAIN s2 = 1..Len(s2)
      /\ Answers(s) \in SUBSET (1..Len(s)) /\ Cardinality(Answers(s)) \in Nat
  BY <1>1, Positions
<1>3. x \in Nat /\ Len(s) < x /\ x \notin Answers(s)
  BY <1>2
<1>4. Cardinality(Answers(s2)) = Cardinality(Answers(s)) + 1
  <2>1. IsFiniteSet(Answers(s))
    BY <1>2, FinitePositions
  <2>2. QED BY <1>3, <2>1, FS_AddElement
<1>5. Index(Answers(s2), x) = Cardinality(Answers(s))
  <2>1. Index(Answers(s), x) = Cardinality(Answers(s))
    BY <1>2, <1>3, IndexFacts
  <2>2. \A j : j < x => (j \in Answers(s2) <=> j \in Answers(s))
    <3>1. ~ (x < x)
      BY <1>3
    <3>2. QED BY <3>1
  <2>3. Index(Answers(s2), x) = Index(Answers(s), x)
    BY <2>2, IndexAgrees
  <2>4. QED BY <2>1, <2>3
<1>6. ASSUME NEW i \in Answers(s)
      PROVE  s2[i] = s[i] /\ Index(Answers(s2), i) = Index(Answers(s), i)
  <2>1. i \in DOMAIN s /\ i \in 1..(Len(s) + 1)
    BY <1>2
  <2>2. QED BY <1>1, <2>1
<1>7. QED BY <1>4, <1>5, <1>6

LEMMA SameAnswersGrow ==
    ASSUME NEW a, NEW a2, NEW b, NEW b2, Prefix(a, a2), Prefix(b, b2), SameAnswers(a, b),
           NEW x \in DOMAIN a2 \ DOMAIN a, Answers(a2) = Answers(a) \cup {x},
           NEW y \in DOMAIN b2 \ DOMAIN b, Answers(b2) = Answers(b) \cup {y},
           a2[x].by = b2[y].by
    PROVE  SameAnswers(a2, b2)
<1>0. IsList(a) /\ IsList(b)
  BY DEF Prefix
<1>1. PICK n : n = Cardinality(Answers(a)) /\ n = Cardinality(Answers(b)) /\ n \in Nat
  BY <1>0, Positions DEF SameAnswers
<1>2. /\ Cardinality(Answers(a2)) = n + 1 /\ Index(Answers(a2), x) = n
      /\ \A i \in Answers(a) : a2[i] = a[i] /\ Index(Answers(a2), i) = Index(Answers(a), i)
  BY <1>1, OneAnswerMore
<1>3. /\ Cardinality(Answers(b2)) = n + 1 /\ Index(Answers(b2), y) = n
      /\ \A i \in Answers(b) : b2[i] = b[i] /\ Index(Answers(b2), i) = Index(Answers(b), i)
  BY <1>1, OneAnswerMore
<1>4. /\ \A i \in Answers(a) : Index(Answers(a), i) < n /\ Index(Answers(a), i) \in Nat
      /\ \A i \in Answers(b) : Index(Answers(b), i) < n /\ Index(Answers(b), i) \in Nat
  BY <1>0, <1>1, AnswerIndex
<1>5. ASSUME NEW i \in Answers(a2), NEW j \in Answers(b2),
             Index(Answers(a2), i) = Index(Answers(b2), j)
      PROVE  a2[i].by = b2[j].by
  <2>1. CASE i = x /\ j = y
    BY <2>1
  <2>2. CASE i \in Answers(a) /\ j \in Answers(b)
    BY <1>2, <1>3, <1>5, <2>2 DEF SameAnswers, SameBy
  <2>3. CASE i = x /\ j \in Answers(b)
    BY <1>1, <1>2, <1>3, <1>4, <1>5, <2>3
  <2>4. CASE i \in Answers(a) /\ j = y
    BY <1>1, <1>2, <1>3, <1>4, <1>5, <2>4
  <2>5. QED BY <2>1, <2>2, <2>3, <2>4
<1>6. QED BY <1>2, <1>3, <1>5 DEF SameAnswers, SameBy

LEMMA SameByCut ==
    ASSUME NEW list, NEW log, IsList(list), IsList(log), NEW k \in Nat, SameBy(list, log)
    PROVE  SameBy(Before(list, k), Before(log, k))
<1>1. PICK p, q : p = Before(list, k) /\ q = Before(log, k)
  OBVIOUS
<1>2. Prefix(p, list) /\ Prefix(q, log)
  BY <1>1, BeforeFacts
<1>3. ASSUME NEW a, NEW b, Prefix(a, b), NEW i \in Answers(a)
      PROVE  i \in Answers(b) /\ a[i] = b[i] /\ Index(Answers(a), i) = Index(Answers(b), i)
  <2>1. i \in DOMAIN a
    BY DEF Answers
  <2>2. i \in 1..(Len(a) + 1)
    BY <1>3, <2>1, ListFacts DEF Prefix
  <2>3. QED BY <1>3, <2>1, <2>2, PrefixFacts DEF Prefix
<1>4. \A i \in Answers(p) : i \in Answers(list) /\ p[i] = list[i]
          /\ Index(Answers(p), i) = Index(Answers(list), i)
  BY <1>2, <1>3
<1>5. \A i \in Answers(q) : i \in Answers(log) /\ q[i] = log[i]
          /\ Index(Answers(q), i) = Index(Answers(log), i)
  BY <1>2, <1>3
<1>6. SameBy(p, q)
  BY <1>4, <1>5 DEF SameBy
<1>7. QED BY <1>1, <1>6

LEMMA SameAnswersEmbedded ==
    ASSUME NEW f, NEW list, NEW list2, Embeds(f, list2, list)
    PROVE  SameAnswers(list2, list)
<1>1. /\ Cardinality(Answers(list2)) = Cardinality(Answers(list))
      /\ IsList(list) /\ IsList(list2)
      /\ \A i \in DOMAIN list2 : /\ f[i] \in DOMAIN list /\ list2[i] = list[f[i]]
                                 /\ i \in Answers(list2) <=> f[i] \in Answers(list)
                                 /\ Index(Answers(list2), i) = Index(Answers(list), f[i])
  BY EmbedsFacts DEF Embeds
<1>2. SameBy(list, list)
  BY <1>1, SameAnswersSelf DEF SameAnswers
<1>3. Answers(list2) \subseteq DOMAIN list2
  BY DEF Answers
<1>4. QED BY <1>1, <1>2, <1>3 DEF SameAnswers, SameBy

-----------------------------------------------------------------------------
(* The conversations themselves.                                            *)

\* A thread's history: questions as they were asked, and answers to them.
IsLog(log, sends) ==
    /\ IsList(log)
    /\ \A i \in DOMAIN log : /\ log[i].role \in {"user", "agent"}
                             /\ log[i].role = "user" => log[i] = Question(log[i].turn)
                             /\ log[i].turn \in 1..sends
    /\ \A i \in Answers(log) : \E q \in Questions(log) : q < i /\ log[q].turn = log[i].turn

\* A shown conversation: every error bubble belongs to a question above it.
IsTalk(list) ==
    /\ IsList(list)
    /\ \A i \in DOMAIN list : list[i].role \in {"user", "agent", "error"}
    /\ \A i \in DOMAIN list : list[i].role = "error" =>
          \E q \in Questions(list) : q < i /\ list[q].turn = list[i].turn

\* The shown questions are among the first n that were asked.
AskedTurns(list, n) == \A i \in Questions(list) : list[i].turn \in 1..n

-----------------------------------------------------------------------------
(* The inductive invariant of the conversations.                            *)

Log(r)     == history[rooms[r].thread]
Words(r)   == rooms[r].messages
Cutting(r) == edit.phase = "done" /\ edit.room = r
Asking(r)  == turn # NoTurn /\ turn.room = r

\* What the page will show of a room once it has done its part of an edit, and
\* once it has been told the answer that is stored.
Seen(r) == IF Cutting(r) THEN Before(Words(r), edit.k) ELSE Words(r)
Told(r) == IF Asking(r) /\ turn.phase = "answered"
           THEN Append(Words(r), Answer(turn.turn, turn.by, TRUE)) ELSE Words(r)

Clean(kinds) == harmed \cap kinds = {}

RoomKept(r) == Clean({"repeated", "late", "halfcut", "unrestored", "mixed", "overlap"}) =>
    /\ Shows(Seen(r), Log(r))
    /\ ~ Cutting(r) => LastAsked(Words(r), Log(r))
    /\ Asking(r) => IsLastQuestion(Words(r), turn.turn)

RoomForgotten(r) == Clean({"unstored", "halfcut", "unrestored", "mixed", "overlap"}) =>
    /\ Remembers(Seen(r), Log(r))
    /\ \/ Total(Seen(r)) <= Total(Log(r))
       \/ /\ Asking(r) /\ ~ HoldsQuestion(Log(r), turn.turn)
          /\ Total(Seen(r)) <= Total(Log(r)) + 1

RoomCounted(r) == Clean({"answers", "stale mark", "overlap"}) =>
    /\ Cutting(r) => SameBy(Seen(r), Log(r)) /\ edit.left = Cardinality(Answers(Log(r)))
    /\ ~ Cutting(r) => SameAnswers(Told(r), Log(r))

RoomTalk(r) == Words(r) # Unread => RoomKept(r) /\ RoomForgotten(r) /\ RoomCounted(r)

LogForms ==
    /\ DOMAIN history = Thread /\ history = [t \in Thread |-> history[t]]
    /\ \A t \in Thread : IsLog(history[t], used.sends) /\ (t > used.threads => history[t] = <<>>)

TalkForms ==
    /\ \A r \in DOMAIN rooms : /\ Words(r) = Unread \/ IsTalk(Words(r))
                               /\ AskedTurns(Words(r), used.sends)
                               /\ rooms[r].restoring => Words(r) = Unread
    /\ loaded.rooms /\ Words(active) = Unread => rooms[active].restoring

IsTurn(t) ==
    /\ t = [phase |-> t.phase, room |-> t.room, thread |-> t.thread, turn |-> t.turn,
            by |-> t.by, tries |-> t.tries, heard |-> t.heard]
    /\ t.phase \in {"asking", "answering", "answered"} /\ t.heard \in BOOLEAN

TurnForms == turn # NoTurn =>
    /\ IsTurn(turn) /\ edit = NoEdit
    /\ turn.room \in DOMAIN rooms /\ turn.thread = rooms[turn.room].thread
    /\ turn.turn \in 1..used.sends
    /\ Words(turn.room) # Unread
    /\ \E q \in Questions(Words(turn.room)) : Words(turn.room)[q].turn = turn.turn
    /\ turn.phase # "asking" => HoldsQuestion(Log(turn.room), turn.turn)
    /\ turn.phase = "answered" => \E j \in Answers(Log(turn.room)) : Log(turn.room)[j].by = turn.by

EditForms == edit # NoEdit =>
    /\ loaded.marks
    /\ edit.room \in DOMAIN rooms /\ edit.thread = rooms[edit.room].thread
    /\ Words(edit.room) = edit.messages /\ edit.messages # Unread
    /\ edit.k \in Nat /\ edit.k < Total(edit.messages)

TalkInv == "overlap" \notin harmed =>
    /\ LogForms /\ TalkForms /\ TurnForms /\ EditForms
    /\ \A r \in DOMAIN rooms : RoomTalk(r)

-----------------------------------------------------------------------------
(* How conversations change.                                                *)

\* s2 is s and x after it.
OneMore(s, s2, x) ==
    /\ Prefix(s, s2)
    /\ DOMAIN s2 = DOMAIN s \cup {Len(s) + 1} /\ Len(s) + 1 \notin DOMAIN s
    /\ s2[Len(s) + 1] = x

LEMMA OneMoreConcat ==
    ASSUME NEW s, IsList(s), NEW x
    PROVE  OneMore(s, s \o <<x>>, x)
<1>1. IsList(<<x>>) /\ Len(<<x>>) = 1 /\ <<x>>[1] = x
  BY OneList
<1>2. PICK t : t = <<x>>
  OBVIOUS
<1>3. IsList(t) /\ Len(t) = 1 /\ t[1] = x /\ DOMAIN t = 1..1
  BY <1>1, <1>2, ListFacts
<1>4. PICK u : u = s \o t
  OBVIOUS
<1>5. /\ IsList(u) /\ Len(u) = Len(s) + Len(t)
      /\ \A j \in DOMAIN t : u[Len(s) + j] = t[j]
  <2>1. /\ IsList(s \o t)
        /\ Len(s \o t) = Len(s) + Len(t)
        /\ \A i \in DOMAIN s : i \in DOMAIN (s \o t) /\ (s \o t)[i] = s[i]
        /\ \A j \in DOMAIN t : /\ Len(s) + j \in DOMAIN (s \o t)
                               /\ (s \o t)[Len(s) + j] = t[j]
        /\ \A i \in DOMAIN (s \o t) :
              \/ i \in DOMAIN s
              \/ \E j \in DOMAIN t : i = Len(s) + j
    BY ONLY IsList(s), <1>3, ConcatList, Zenon
  <2>2. QED BY <1>4, <2>1
<1>6. Prefix(s, u)
  BY <1>3, <1>4, PrefixConcat
<1>7. Len(s) \in Nat /\ DOMAIN s = 1..Len(s) /\ DOMAIN u = 1..(Len(s) + 1)
  BY <1>3, <1>5, ListFacts
<1>8. u[Len(s) + 1] = x
  BY <1>3, <1>5
<1>9. OneMore(s, u, x)
  BY <1>6, <1>7, <1>8 DEF OneMore
<1>10. QED BY <1>2, <1>4, <1>9

LEMMA OneMoreAppend ==
    ASSUME NEW s, IsList(s), NEW x
    PROVE  OneMore(s, Append(s, x), x)
<1>1. Append(s, x) = s \o <<x>>
  <2>1. s \in Seq(Range(s) \cup {x}) /\ x \in Range(s) \cup {x}
    <3>1. s \in Seq(Range(s))
      BY DEF IsList
    <3>2. \A i \in 1..Len(s) : s[i] \in Range(s)
      BY <3>1
    <3>3. QED BY <3>1, <3>2
  <2>2. QED BY <2>1, AppendIsConcat
<1>2. QED BY <1>1, OneMoreConcat

LEMMA OneMoreFacts ==
    ASSUME NEW s, NEW s2, NEW x, OneMore(s, s2, x)
    PROVE  /\ IsList(s) /\ IsList(s2) /\ Prefix(s, s2)
           /\ Len(s) + 1 \in DOMAIN s2 \ DOMAIN s /\ s2[Len(s) + 1] = x
           /\ \A i \in DOMAIN s : s2[i] = s[i]
           /\ Questions(s2) = Questions(s) \cup (IF x.role = "user" THEN {Len(s) + 1} ELSE {})
           /\ Answers(s2) = Answers(s) \cup (IF x.role = "agent" THEN {Len(s) + 1} ELSE {})
           /\ Total(s2) = Total(s) + (IF x.role = "user" THEN 1 ELSE 0)
           /\ Asked(s2, Len(s) + 1) = Total(s2)
           /\ \A i \in DOMAIN s : i < Len(s) + 1
<1>1. /\ IsList(s) /\ IsList(s2) /\ Prefix(s, s2)
      /\ DOMAIN s2 = DOMAIN s \cup {Len(s) + 1} /\ Len(s) + 1 \notin DOMAIN s
      /\ s2[Len(s) + 1] = x /\ \A i \in DOMAIN s : s2[i] = s[i]
  BY DEF OneMore, Prefix
<1>2. /\ Questions(s2) = Questions(s) \cup (IF x.role = "user" THEN {Len(s) + 1} ELSE {})
      /\ Answers(s2) = Answers(s) \cup (IF x.role = "agent" THEN {Len(s) + 1} ELSE {})
  BY <1>1 DEF Questions, Answers
<1>3. /\ Len(s) \in Nat /\ DOMAIN s = 1..Len(s) /\ Questions(s) \in SUBSET (1..Len(s))
      /\ Len(s2) \in Nat /\ DOMAIN s2 = 1..Len(s2) /\ Questions(s2) \in SUBSET (1..Len(s2))
      /\ Total(s) \in Nat /\ Total(s2) \in Nat
  BY <1>1, Positions
<1>4. Total(s2) = Total(s) + (IF x.role = "user" THEN 1 ELSE 0)
  <2>1. PICK S, c : S = Questions(s) /\ c = Len(s) + 1
    OBVIOUS
  <2>2. IsFiniteSet(S) /\ c \notin S
    <3>1. PICK n : n = Len(s)
      OBVIOUS
    <3>2. n \in Nat /\ S \in SUBSET (1..n) /\ c = n + 1
      BY <1>3, <2>1, <3>1
    <3>3. IsFiniteSet(S)
      BY <3>2, FinitePositions
    <3>4. c \notin 1..n
      BY <3>2
    <3>5. QED BY <3>2, <3>3, <3>4
  <2>3. Cardinality(S \cup {c}) = Cardinality(S) + 1 /\ S \cup {} = S
    BY <2>2, FS_AddElement
  <2>4. CASE x.role = "user"
    BY <1>2, <2>1, <2>3, <2>4 DEF Total
  <2>5. CASE x.role # "user"
    BY <1>2, <1>3, <2>1, <2>3, <2>5 DEF Total
  <2>6. QED BY <2>4, <2>5
<1>5. Asked(s2, Len(s) + 1) = Total(s2)
  <2>1. PICK n : n = Len(s) + 1 + 1
    OBVIOUS
  <2>2. Len(s2) < n /\ n \in Nat
    <3>1. Len(s2) \in DOMAIN s2 \/ Len(s2) = 0
      BY <1>3
    <3>2. QED BY <1>1, <1>3, <2>1, <3>1
  <2>3. Index(Questions(s2), n) = Total(s2)
    BY <1>3, <2>2, IndexFacts DEF Total
  <2>4. QED BY <2>1, <2>3 DEF Asked
<1>6. QED BY <1>1, <1>2, <1>3, <1>4, <1>5

LEMMA NoWords ==
    /\ IsList(<<>>) /\ Questions(<<>>) = {} /\ Answers(<<>>) = {} /\ DOMAIN <<>> = {}
    /\ Total(<<>>) = 0 /\ Cardinality(Answers(<<>>)) = 0
    /\ IsTalk(<<>>) /\ \A n : IsLog(<<>>, n) /\ AskedTurns(<<>>, n)
<1>1. IsList(<<>>) /\ DOMAIN <<>> = {}
  BY EmptyList, ListFacts
<1>2. Questions(<<>>) = {} /\ Answers(<<>>) = {}
  BY <1>1 DEF Questions, Answers
<1>3. QED BY <1>1, <1>2, FS_EmptySet DEF Total, IsTalk, IsLog, AskedTurns

LEMMA UnreadIsNoTalk == ~ IsTalk(Unread) /\ Answers(Unread) = {} /\ Questions(Unread) = {}
<1>1. PICK x : x = [role |-> "unread", turn |-> 0]
  OBVIOUS
<1>2. /\ IsList(<<x>>) /\ Len(<<x>>) = 1 /\ <<x>>[1] = x /\ x.role = "unread"
  BY <1>1, OneList
<1>3. Unread = <<x>>
  BY <1>1 DEF Unread
<1>4. DOMAIN Unread = 1..1 /\ Unread[1] = x
  BY <1>2, <1>3, ListFacts
<1>5. QED BY <1>2, <1>4 DEF IsTalk, Answers, Questions

LEMMA TurnsLater ==
    ASSUME NEW list, NEW n \in Nat, NEW n2 \in Nat, n <= n2, AskedTurns(list, n)
    PROVE  AskedTurns(list, n2)
<1>1. 1..n \subseteq 1..n2
  OBVIOUS
<1>2. QED BY <1>1 DEF AskedTurns

LEMMA TurnsCut ==
    ASSUME NEW list, NEW p, NEW n, Prefix(p, list), AskedTurns(list, n)
    PROVE  AskedTurns(p, n)
<1>1. \A i \in DOMAIN p : p[i] = list[i] /\ (i \in Questions(p) <=> i \in Questions(list))
  BY PrefixFacts DEF Prefix
<1>2. Questions(p) \subseteq DOMAIN p
  BY DEF Questions
<1>3. QED BY <1>1, <1>2 DEF AskedTurns

LEMMA UnreadTurns == \A n : AskedTurns(Unread, n)
BY UnreadIsNoTalk DEF AskedTurns

LEMMA LogIsTalk ==
    ASSUME NEW log, NEW n, IsLog(log, n)
    PROVE  IsTalk(log) /\ log # Unread /\ AskedTurns(log, n)
<1>1. IsTalk(log) /\ AskedTurns(log, n)
  BY DEF IsLog, IsTalk, AskedTurns, Questions
<1>2. QED BY <1>1, UnreadIsNoTalk

LEMMA LogLater ==
    ASSUME NEW log, NEW n \in Nat, NEW n2 \in Nat, n <= n2, IsLog(log, n)
    PROVE  IsLog(log, n2)
<1>1. 1..n \subseteq 1..n2
  OBVIOUS
<1>2. QED BY <1>1 DEF IsLog

LEMMA LogCut ==
    ASSUME NEW log, NEW p, NEW n, Prefix(p, log), IsLog(log, n)
    PROVE  IsLog(p, n)
<1>1. /\ IsList(p) /\ IsList(log) /\ DOMAIN p \subseteq DOMAIN log
      /\ \A i \in DOMAIN p : /\ p[i] = log[i]
                             /\ i \in Questions(p) <=> i \in Questions(log)
                             /\ i \in Answers(p) <=> i \in Answers(log)
  BY PrefixFacts DEF Prefix
<1>2. /\ Len(p) \in Nat /\ DOMAIN p = 1..Len(p) /\ Len(log) \in Nat /\ DOMAIN log = 1..Len(log)
  BY <1>1, ListFacts
<1>3. ASSUME NEW i \in Answers(p) PROVE \E q \in Questions(p) : q < i /\ p[q].turn = p[i].turn
  <2>1. i \in DOMAIN p
    BY DEF Answers
  <2>2. PICK q \in Questions(log) : q < i /\ log[q].turn = log[i].turn
    BY <1>1, <2>1 DEF IsLog
  <2>3. q \in DOMAIN log
    BY DEF Questions
  <2>4. q \in DOMAIN p
    BY <1>2, <2>1, <2>2, <2>3
  <2>5. QED BY <1>1, <2>1, <2>2, <2>4
<1>4. \A i \in DOMAIN p : /\ p[i].role \in {"user", "agent"}
                          /\ p[i].role = "user" => p[i] = Question(p[i].turn)
                          /\ p[i].turn \in 1..n
  BY <1>1 DEF IsLog
<1>5. QED BY <1>1, <1>3, <1>4 DEF IsLog

LEMMA TalkCut ==
    ASSUME NEW list, NEW p, Prefix(p, list), IsTalk(list)
    PROVE  IsTalk(p)
<1>1. /\ IsList(p) /\ IsList(list) /\ DOMAIN p \subseteq DOMAIN list
      /\ \A i \in DOMAIN p : /\ p[i] = list[i]
                             /\ i \in Questions(p) <=> i \in Questions(list)
  BY PrefixFacts DEF Prefix
<1>2. /\ Len(p) \in Nat /\ DOMAIN p = 1..Len(p) /\ Len(list) \in Nat /\ DOMAIN list = 1..Len(list)
  BY <1>1, ListFacts
<1>3. ASSUME NEW i \in DOMAIN p, p[i].role = "error"
      PROVE  \E q \in Questions(p) : q < i /\ p[q].turn = p[i].turn
  <2>1. i \in DOMAIN list /\ list[i].role = "error"
    BY <1>1, <1>3
  <2>2. PICK q \in Questions(list) : q < i /\ list[q].turn = list[i].turn
    BY <2>1 DEF IsTalk
  <2>3. q \in DOMAIN list
    BY DEF Questions
  <2>4. q \in DOMAIN p
    BY <1>2, <1>3, <2>2, <2>3
  <2>5. QED BY <1>1, <1>3, <2>2, <2>4
<1>4. QED BY <1>1, <1>3 DEF IsTalk

LEMMA TalkEmbedded ==
    ASSUME NEW f, NEW list, NEW list2, Embeds(f, list2, list), IsTalk(list)
    PROVE  IsTalk(list2)
<1>1. /\ IsList(list) /\ IsList(list2)
      /\ \A i \in DOMAIN list2 : /\ f[i] \in DOMAIN list /\ list2[i] = list[f[i]]
                                 /\ i \in Questions(list2) <=> f[i] \in Questions(list)
      /\ \A i, j \in DOMAIN list2 : i < j <=> f[i] < f[j]
      /\ \A j \in Questions(list) : \E i \in DOMAIN list2 : j = f[i]
  BY EmbedsFacts DEF Embeds
<1>2. ASSUME NEW i \in DOMAIN list2, list2[i].role = "error"
      PROVE  \E q \in Questions(list2) : q < i /\ list2[q].turn = list2[i].turn
  <2>1. PICK h \in Questions(list) : h < f[i] /\ list[h].turn = list[f[i]].turn
    BY <1>1, <1>2 DEF IsTalk
  <2>2. PICK q \in DOMAIN list2 : h = f[q]
    BY <1>1
  <2>3. q \in Questions(list2) /\ q < i /\ list2[q] = list[h] /\ list2[i] = list[f[i]]
    BY <1>1, <1>2, <2>1, <2>2
  <2>4. QED BY <2>1, <2>3
<1>3. QED BY <1>1, <1>2 DEF IsTalk

\* Questions, answers, and bubbles of questions that are shown, are appended.
LEMMA TalkMore ==
    ASSUME NEW list, NEW list2, Prefix(list, list2), IsTalk(list),
           \A i \in DOMAIN list2 \ DOMAIN list :
               /\ list2[i].role \in {"user", "agent", "error"}
               /\ list2[i].role = "error" => \E q \in Questions(list) : list[q].turn = list2[i].turn
    PROVE  IsTalk(list2)
<1>1. /\ IsList(list) /\ IsList(list2) /\ DOMAIN list \subseteq DOMAIN list2
      /\ \A i \in DOMAIN list : /\ list[i] = list2[i]
                                /\ i \in Questions(list) <=> i \in Questions(list2)
  BY PrefixFacts DEF Prefix
<1>2. /\ Len(list) \in Nat /\ DOMAIN list = 1..Len(list)
      /\ Len(list2) \in Nat /\ DOMAIN list2 = 1..Len(list2)
      /\ Questions(list) \subseteq DOMAIN list
  BY <1>1, ListFacts DEF Questions
<1>3. ASSUME NEW i \in DOMAIN list2, list2[i].role = "error"
      PROVE  \E q \in Questions(list2) : q < i /\ list2[q].turn = list2[i].turn
  <2>1. CASE i \in DOMAIN list
    <3>1. PICK q \in Questions(list) : q < i /\ list[q].turn = list[i].turn
      BY <1>1, <1>3, <2>1 DEF IsTalk
    <3>2. QED BY <1>1, <1>2, <2>1, <3>1
  <2>2. CASE i \notin DOMAIN list
    <3>1. PICK q \in Questions(list) : list[q].turn = list2[i].turn
      BY <1>3, <2>2
    <3>2. q < i
      BY <1>2, <2>2
    <3>3. QED BY <1>1, <1>2, <3>1, <3>2
  <2>3. QED BY <2>1, <2>2
<1>4. \A i \in DOMAIN list2 : list2[i].role \in {"user", "agent", "error"}
  BY <1>1 DEF IsTalk
<1>5. QED BY <1>1, <1>3, <1>4 DEF IsTalk

-----------------------------------------------------------------------------
(* What a step leaves of the conversations.                                 *)

SameRoom(r) ==
    /\ r \in DOMAIN rooms /\ r \in DOMAIN rooms'
    /\ rooms'[r].messages = rooms[r].messages /\ rooms'[r].thread = rooms[r].thread

Untouched(r) ==
    /\ SameRoom(r) /\ history'[rooms[r].thread] = history[rooms[r].thread]
    /\ edit' = edit \/ (~ Cutting(r) /\ ~ Cutting(r)')
    /\ \/ turn' = turn
       \/ ~ Asking(r) /\ ~ Asking(r)'
       \/ /\ Asking(r) /\ Asking(r)'
          /\ turn'.turn = turn.turn /\ turn'.by = turn.by /\ turn'.phase = turn.phase

LEMMA UntouchedTalk ==
    ASSUME NEW r, harmed \subseteq harmed', RoomTalk(r), Untouched(r)
    PROVE  RoomTalk(r)'
<1> DEFINE Seen2 == Seen(r)'
           Told2 == Told(r)'
<1>1. /\ Words(r)' = Words(r) /\ Log(r)' = Log(r) /\ (Cutting(r)' <=> Cutting(r))
      /\ (Asking(r)' <=> Asking(r)) /\ (Asking(r) => turn'.turn = turn.turn)
      /\ (Cutting(r) => edit'.left = edit.left)
  BY DEF Untouched, SameRoom, Words, Log, Cutting, Asking
<1>2. Seen2 = Seen(r)
  BY DEF Untouched, SameRoom, Words, Cutting, Seen
<1>3. Told2 = Told(r)
  BY DEF Untouched, SameRoom, Words, Asking, Told
<1>4. \A kinds : Clean(kinds)' => Clean(kinds)
  BY DEF Clean
<1> HIDE DEF Seen2, Told2
<1>5. RoomKept(r) => RoomKept(r)'
  BY <1>1, <1>2, <1>4 DEF RoomKept, Seen2
<1>6. RoomForgotten(r) => RoomForgotten(r)'
  BY <1>1, <1>2, <1>4 DEF RoomForgotten, Seen2
<1>7. RoomCounted(r) => RoomCounted(r)'
  BY <1>1, <1>2, <1>3, <1>4 DEF RoomCounted, Seen2, Told2
<1>8. QED BY <1>1, <1>5, <1>6, <1>7 DEF RoomTalk

LEMMA EmptyTalk ==
    ASSUME NEW r, Words(r)' = <<>>, Log(r)' = <<>>, ~ Cutting(r)', ~ Asking(r)'
    PROVE  RoomTalk(r)'
<1>1. Seen(r)' = <<>> /\ Told(r)' = <<>>
  BY DEF Seen, Told
<1>2. /\ Shows(<<>>, <<>>) /\ LastAsked(<<>>, <<>>) /\ Remembers(<<>>, <<>>)
      /\ SameAnswers(<<>>, <<>>) /\ Total(<<>>) <= Total(<<>>)
  BY NoWords DEF Shows, LastAsked, Remembers, SameAnswers, SameBy
<1>3. QED BY <1>1, <1>2 DEF RoomTalk, RoomKept, RoomForgotten, RoomCounted

\* A room whose messages were just read.
LEMMA ReadTalk ==
    ASSUME NEW r, NEW log, NEW n, IsLog(log, n), Words(r)' = log, Log(r)' = log,
           ~ Cutting(r)', ~ Asking(r)'
    PROVE  RoomTalk(r)'
<1>1. Seen(r)' = log /\ Told(r)' = log
  BY DEF Seen, Told
<1>2. IsList(log) /\ Total(log) \in Nat
  BY Positions DEF IsLog
<1>3. LastAsked(log, log)
  <2>1. ASSUME NEW i \in Questions(log) PROVE HoldsQuestion(log, log[i].turn)
    <3>1. i \in DOMAIN log /\ log[i].role = "user"
      BY DEF Questions
    <3>2. log[i] = Question(log[i].turn)
      BY <3>1 DEF IsLog
    <3>3. QED BY <3>1, <3>2 DEF HoldsQuestion
  <2>2. QED BY <2>1 DEF LastAsked
<1>4. /\ Shows(log, log) /\ Remembers(log, log) /\ SameAnswers(log, log) /\ Total(log) <= Total(log)
  BY <1>2, ShowsItself, RemembersItself, SameAnswersSelf
<1>5. QED BY <1>1, <1>3, <1>4 DEF RoomTalk, RoomKept, RoomForgotten, RoomCounted

-----------------------------------------------------------------------------
(* Messages in the room list.                                               *)

LEMMA OpenedWords ==
    ASSUME NEW list, NEW r \in DOMAIN list, RoomForms(list)
    PROVE  /\ DOMAIN Opened(list, r) = DOMAIN list
           /\ \A x \in DOMAIN list : /\ Opened(list, r)[x].messages = list[x].messages
                                     /\ Opened(list, r)[x].thread = list[x].thread
           /\ \A x \in DOMAIN list \ {r} : Opened(list, r)[x] = list[x]
           /\ Opened(list, r)[r].restoring = (list[r].restoring \/ list[r].messages = Unread)
<1>1. list[r] = [thread |-> list[r].thread, title |-> list[r].title,
                 messages |-> list[r].messages, restoring |-> list[r].restoring]
  BY DEF RoomForms, IsRoom
<1>2. Opened(list, r) = [list EXCEPT ![r] = [list[r] EXCEPT !.restoring =
                            list[r].restoring \/ list[r].messages = Unread]]
  BY DEF Opened
<1>3. QED BY <1>1, <1>2, RoomExcept DEF RoomForms

LEMMA WithWords ==
    ASSUME NEW list, NEW r \in DOMAIN list, RoomForms(list), NEW words
    PROVE  /\ DOMAIN WithMessages(list, r, words) = DOMAIN list
           /\ \A x \in DOMAIN list \ {r} : WithMessages(list, r, words)[x] = list[x]
           /\ WithMessages(list, r, words)[r].messages = words
           /\ WithMessages(list, r, words)[r].thread = list[r].thread
           /\ WithMessages(list, r, words)[r].restoring = list[r].restoring
<1>1. IsRoom(list[r])
  BY DEF RoomForms
<1>2. WithMessages(list, r, words) = [list EXCEPT ![r] = [list[r] EXCEPT !.messages = words]]
  BY DEF WithMessages
<1>3. [list[r] EXCEPT !.messages = words] =
          [thread |-> list[r].thread, title |-> list[r].title,
           messages |-> words, restoring |-> list[r].restoring]
  BY <1>1, RoomExcept
<1>4. QED BY <1>2, <1>3

LEMMA TitledWords ==
    ASSUME NEW list, NEW r \in DOMAIN list, NEW title, RoomForms(list)
    PROVE  LET list2 == [list EXCEPT ![r].title = title]
           IN  /\ DOMAIN list2 = DOMAIN list
               /\ \A x \in DOMAIN list : /\ list2[x].messages = list[x].messages
                                         /\ list2[x].thread = list[x].thread
                                         /\ list2[x].restoring = list[x].restoring
<1>1. IsRoom(list[r])
  BY DEF RoomForms
<1>2. PICK a, b, c, d : list[r] = [thread |-> a, title |-> b, messages |-> c, restoring |-> d]
  BY <1>1 DEF IsRoom
<1>3. [list[r] EXCEPT !.title = title] = [thread |-> a, title |-> title, messages |-> c, restoring |-> d]
  BY <1>2
<1>4. QED BY <1>2, <1>3

-----------------------------------------------------------------------------
(* Steps that leave every conversation as it is.                            *)

\* A room with a thread of its own, or one whose messages are not read yet, or
\* one that took another thread than its messages are of.
NewRoom(r)   == rooms'[r].messages = <<>> /\ rooms'[r].thread = Fresh
MixedRoom(r) == {"mixed", "stale mark"} \subseteq harmed'

Calm ==
    /\ UNCHANGED <<history, turn, edit>> /\ harmed \subseteq harmed'
    /\ used'.sends = used.sends /\ used'.threads \in Nat /\ used.threads <= used'.threads
    /\ loaded.marks => loaded'.marks
    /\ \A r \in DOMAIN rooms' :
          \/ SameRoom(r)
          \/ NewRoom(r) /\ used'.threads = Fresh /\ Fresh \in Thread
          \/ turn = NoTurn /\ edit = NoEdit /\ rooms'[r].messages = Unread
          \/ /\ turn = NoTurn /\ edit = NoEdit /\ MixedRoom(r)
             /\ rooms'[r].messages = Unread \/ IsTalk(rooms'[r].messages)
             /\ AskedTurns(rooms'[r].messages, used.sends)
    /\ turn # NoTurn => SameRoom(turn.room)
    /\ edit # NoEdit => SameRoom(edit.room)
    /\ \A r \in DOMAIN rooms' : rooms'[r].restoring => rooms'[r].messages = Unread
    /\ loaded'.rooms /\ rooms'[active'].messages = Unread => rooms'[active'].restoring

LEMMA ThreadsApart ==
    ASSUME Owned, NEW r \in DOMAIN rooms, NEW s \in DOMAIN rooms, rooms[r].thread = rooms[s].thread
    PROVE  r = s
<1>1. <<rooms[r].thread, r>> \in Claims /\ <<rooms[s].thread, s>> \in Claims
  BY RoomClaims
<1>2. QED BY <1>1 DEF Owned

LEMMA CalmTalk ==
    ASSUME BoundsAssumption, Inv, TalkInv, "overlap" \notin harmed' => Calm
    PROVE  TalkInv'
<1> SUFFICES ASSUME "overlap" \notin harmed', Calm
             PROVE  /\ LogForms' /\ TalkForms' /\ TurnForms' /\ EditForms'
                    /\ \A r \in DOMAIN rooms' : RoomTalk(r)'
  BY DEF TalkInv
<1>1. /\ LogForms /\ TalkForms /\ TurnForms /\ EditForms
      /\ \A r \in DOMAIN rooms : RoomTalk(r)
  BY DEF TalkInv, Calm
<1>2. /\ used.threads \in Nat /\ Fresh = used.threads + 1 /\ Owned
      /\ \A r \in DOMAIN rooms : rooms[r].thread \in 1..used.threads /\ rooms[r].thread # Fresh
  <2>1. used.threads \in Nat /\ Fresh = used.threads + 1 /\ Owned
    BY DEF Inv, Shape, UsedInv, UsedNames, Fresh
  <2>2. QED BY <2>1, OwnedNames
<1>3. /\ UNCHANGED <<history, turn, edit>> /\ harmed \subseteq harmed'
      /\ used'.sends = used.sends /\ used'.threads \in Nat /\ used.threads <= used'.threads
      /\ loaded.marks => loaded'.marks
      /\ turn # NoTurn => SameRoom(turn.room)
      /\ edit # NoEdit => SameRoom(edit.room)
  BY DEF Calm
<1>4. LogForms'
  <2>1. \A t \in Thread : t > used'.threads => t > used.threads
    BY <1>2, <1>3 DEF Thread
  <2>2. QED BY <1>1, <1>3, <2>1 DEF LogForms
<1>5. TalkForms'
  <2>1. \A r \in DOMAIN rooms' : rooms'[r].messages = Unread \/ IsTalk(rooms'[r].messages)
    BY <1>1, NoWords DEF Calm, SameRoom, NewRoom, TalkForms, Words
  <2>2. \A r \in DOMAIN rooms' : AskedTurns(rooms'[r].messages, used'.sends)
    BY <1>1, NoWords, UnreadTurns DEF Calm, SameRoom, NewRoom, TalkForms, Words
  <2>3. QED BY <2>1, <2>2 DEF Calm, TalkForms, Words
<1>6. TurnForms'
  BY <1>1, <1>3 DEF TurnForms, SameRoom, Words, Log
<1>7. EditForms'
  BY <1>1, <1>3 DEF EditForms, SameRoom, Words
<1>8. ASSUME NEW r \in DOMAIN rooms' PROVE RoomTalk(r)'
  <2>1. CASE SameRoom(r)
    <3>1. RoomTalk(r) /\ Untouched(r)
      BY <1>1, <1>3, <2>1 DEF Untouched, SameRoom
    <3>2. QED BY <1>3, <3>1, UntouchedTalk
  <2>2. CASE NewRoom(r) /\ used'.threads = Fresh /\ Fresh \in Thread
    <3>1. history[Fresh] = <<>>
      BY <1>1, <1>2, <2>2 DEF LogForms
    <3>2. Words(r)' = <<>> /\ Log(r)' = <<>>
      BY <1>3, <2>2, <3>1 DEF NewRoom, Words, Log
    <3>3. /\ turn # NoTurn => turn.room # r
          /\ edit # NoEdit => edit.room # r
      BY <1>2, <1>3, <2>2 DEF NewRoom, SameRoom
    <3>4. ~ Cutting(r)' /\ ~ Asking(r)'
      BY <1>3, <3>3 DEF Cutting, Asking, NoEdit
    <3>5. QED BY <3>2, <3>4, EmptyTalk
  <2>3. CASE rooms'[r].messages = Unread
    BY <2>3 DEF RoomTalk, Words
  <2>4. CASE MixedRoom(r)
    BY <2>4 DEF MixedRoom, RoomTalk, RoomKept, RoomForgotten, RoomCounted, Clean
  <2>5. QED BY <2>1, <2>2, <2>3, <2>4 DEF Calm
<1>9. QED BY <1>4, <1>5, <1>6, <1>7, <1>8

LEMMA SendsKept ==
    ASSUME Inv, NEW field \in {"threads", "marks", "changes", "reloads", "faults"}, Used(field)
    PROVE  /\ used'.sends = used.sends /\ used'.threads \in Nat /\ used.threads <= used'.threads
           /\ field = "threads" => used'.threads = Fresh
           /\ field # "threads" => used'.threads = used.threads
  BY DEF Inv, Shape, UsedInv, UsedNames, Used, Fresh

LEMMA NothingSpent ==
    ASSUME Inv, used' = used
    PROVE  /\ used'.sends = used.sends /\ used'.threads \in Nat /\ used.threads <= used'.threads
  BY DEF Inv, Shape, UsedInv, UsedNames

LEMMA FreshThread ==
    ASSUME Inv, Fresh <= MaxThreads, BoundsAssumption
    PROVE  Fresh \in Thread /\ Fresh \notin DOMAIN rooms
  BY OwnedNames, FreshName DEF Inv, Thread, BoundsAssumption, Shape, UsedInv, UsedNames, Fresh

LEMMA HarmGrows == \A kinds : Harm(kinds) => harmed \subseteq harmed' /\ kinds \subseteq harmed'
  BY DEF Harm

LEMMA EmptyRoomWords ==
    ASSUME NEW thread
    PROVE  /\ EmptyRoom(thread).messages = <<>> /\ EmptyRoom(thread).restoring = FALSE
           /\ EmptyRoom(thread).thread = thread /\ EmptyRoom(thread).messages # Unread
<1>1. <<>> # Unread
  BY NoWords, UnreadIsNoTalk
<1>2. QED BY <1>1 DEF EmptyRoom

LEMMA CreateRoomCalm ==
    ASSUME BoundsAssumption, Inv, TalkInv, "overlap" \notin harmed', CreateRoom, loaded.rooms
    PROVE  Calm
<1>1. /\ UNCHANGED <<history, turn, edit, loaded, harmed>>
      /\ Fresh <= MaxThreads /\ Used("threads") /\ active' = Fresh
  BY DEF CreateRoom, server, ghosts
<1>2. /\ DOMAIN rooms' = DOMAIN rooms \cup {Fresh} /\ rooms'[Fresh] = EmptyRoom(Fresh)
      /\ \A r \in DOMAIN rooms \ {Fresh} : rooms'[r] = rooms[r]
  BY DEF CreateRoom, WithRoom
<1>3. Fresh \in Thread /\ Fresh \notin DOMAIN rooms /\ used'.threads = Fresh
  BY <1>1, FreshThread, SendsKept
<1>4. TalkForms /\ TurnForms /\ EditForms
  BY <1>1 DEF TalkInv
<1>5. \A r \in DOMAIN rooms : SameRoom(r)
  BY <1>2, <1>3 DEF SameRoom
<1>6. NewRoom(Fresh)
  BY <1>2, EmptyRoomWords DEF NewRoom
<1>7. \A r \in DOMAIN rooms' : rooms'[r].restoring => rooms'[r].messages = Unread
  <2>1. ~ rooms'[Fresh].restoring
    <3>1. rooms'[Fresh].restoring = FALSE
      BY <1>2, EmptyRoomWords
    <3>2. QED BY <3>1
  <2>2. \A r \in DOMAIN rooms : rooms'[r].restoring => rooms'[r].messages = Unread
    BY <1>2, <1>3, <1>4 DEF TalkForms, Words
  <2>3. QED BY <1>2, <2>1, <2>2
<1>8. rooms'[active'].messages # Unread
  BY <1>1, <1>2, EmptyRoomWords
<1>9. (turn # NoTurn => SameRoom(turn.room)) /\ (edit # NoEdit => SameRoom(edit.room))
  BY <1>4, <1>5 DEF TurnForms, EditForms
<1>10. QED BY <1>1, <1>2, <1>3, <1>5, <1>6, <1>7, <1>8, <1>9, SendsKept DEF Calm

\* Rooms opened, renamed or left alone.
LEMMA CalmRows ==
    ASSUME Inv, TalkInv, "overlap" \notin harmed,
           UNCHANGED <<history, turn, edit>>, loaded'.rooms => loaded.rooms,
           loaded.marks => loaded'.marks, harmed \subseteq harmed',
           used'.sends = used.sends, used'.threads \in Nat, used.threads <= used'.threads,
           DOMAIN rooms' = DOMAIN rooms,
           \A r \in DOMAIN rooms : /\ rooms'[r].messages = rooms[r].messages
                                   /\ rooms'[r].thread = rooms[r].thread
                                   /\ rooms'[r].restoring => \/ rooms[r].restoring
                                                             \/ rooms[r].messages = Unread
                                   /\ rooms[r].restoring => rooms'[r].restoring,
           active' = active \/ (rooms'[active'].messages = Unread => rooms'[active'].restoring)
    PROVE  Calm
<1>1. TalkForms /\ TurnForms /\ EditForms
  BY DEF TalkInv
<1>2. \A r \in DOMAIN rooms : SameRoom(r)
  BY DEF SameRoom
<1>3. \A r \in DOMAIN rooms' : rooms'[r].restoring => rooms'[r].messages = Unread
  BY <1>1 DEF TalkForms, Words
<1>4. loaded'.rooms /\ rooms'[active'].messages = Unread => rooms'[active'].restoring
  <2>1. loaded.rooms => active \in DOMAIN rooms
    BY DEF Inv, Shape, PageInv
  <2>2. QED BY <1>1, <2>1 DEF TalkForms, Words
<1>5. QED BY <1>1, <1>2, <1>3, <1>4 DEF Calm, TurnForms, EditForms

LEMMA SwitchRoomCalm ==
    ASSUME BoundsAssumption, Inv, TalkInv, "overlap" \notin harmed', NEW r \in DOMAIN rooms, SwitchRoom(r)
    PROVE  Calm
<1>1. /\ UNCHANGED <<history, turn, edit, loaded, used>> /\ harmed \subseteq harmed'
      /\ active' = r /\ rooms' = Opened(rooms, r)
  BY HarmGrows DEF SwitchRoom, server
<1>2. RoomForms(rooms)
  BY DEF Inv, Shape, PageInv
<1>3. /\ DOMAIN rooms' = DOMAIN rooms
      /\ \A x \in DOMAIN rooms : /\ rooms'[x].messages = rooms[x].messages
                                 /\ rooms'[x].thread = rooms[x].thread
      /\ \A x \in DOMAIN rooms \ {r} : rooms'[x] = rooms[x]
      /\ rooms'[r].restoring = (rooms[r].restoring \/ rooms[r].messages = Unread)
  BY <1>1, <1>2, OpenedWords
<1>4. QED BY <1>1, <1>3, NothingSpent, CalmRows

LEMMA SendRowCalm ==
    ASSUME BoundsAssumption, Inv, TalkInv, "overlap" \notin harmed',
           NEW r \in DOMAIN rooms, NEW title, SendRow(r, title)
    PROVE  Calm
<1>1. /\ UNCHANGED <<history, turn, edit, loaded, harmed, active>>
      /\ Used("changes") /\ rooms' = [rooms EXCEPT ![r].title = title]
  BY DEF SendRow, server, ghosts
<1>2. RoomForms(rooms)
  BY DEF Inv, Shape, PageInv
<1>3. /\ DOMAIN rooms' = DOMAIN rooms
      /\ \A x \in DOMAIN rooms : /\ rooms'[x].messages = rooms[x].messages
                                 /\ rooms'[x].thread = rooms[x].thread
                                 /\ rooms'[x].restoring = rooms[x].restoring
  BY <1>1, <1>2, TitledWords
<1>4. QED BY <1>1, <1>3, SendsKept, CalmRows

LEMMA SameRoomsCalm ==
    ASSUME Inv, TalkInv, "overlap" \notin harmed', UNCHANGED <<history, turn, edit, rooms, active>>,
           loaded'.rooms => loaded.rooms, loaded.marks => loaded'.marks, harmed \subseteq harmed',
           used'.sends = used.sends, used'.threads \in Nat, used.threads <= used'.threads
    PROVE  Calm
  BY CalmRows

LEMMA CreateUnlistedCalm ==
    ASSUME BoundsAssumption, Inv, TalkInv, "overlap" \notin harmed', CreateRoom, ~ loaded.rooms
    PROVE  Calm
<1>1. UNCHANGED <<history, turn, edit, rooms, active, loaded, harmed>> /\ Used("threads")
  BY DEF CreateRoom, server, ghosts
<1>2. QED BY <1>1, SendsKept, SameRoomsCalm

LEMMA ResetSessionCalm ==
    ASSUME BoundsAssumption, Inv, TalkInv, "overlap" \notin harmed', ResetSession
    PROVE  Calm
<1>1. /\ UNCHANGED <<history, turn, edit, loaded, active>> /\ loaded.rooms
      /\ Fresh <= MaxThreads /\ Used("threads") /\ Harm(Overlap \cup Early)
      /\ rooms' = [rooms EXCEPT ![active] = EmptyRoom(Fresh)]
  BY DEF ResetSession, server
<1>2. turn = NoTurn /\ edit = NoEdit /\ harmed \subseteq harmed'
  BY <1>1, HarmGrows DEF Overlap
<1>3. active \in DOMAIN rooms
  BY <1>1 DEF Inv, Shape, PageInv
<1>4. /\ DOMAIN rooms' = DOMAIN rooms /\ rooms'[active] = EmptyRoom(Fresh)
      /\ \A r \in DOMAIN rooms \ {active} : rooms'[r] = rooms[r]
  BY <1>1, <1>3
<1>5. Fresh \in Thread /\ Fresh \notin DOMAIN rooms /\ used'.threads = Fresh
  BY <1>1, FreshThread, SendsKept
<1>6. TalkForms
  BY <1>2 DEF TalkInv
<1>7. \A r \in DOMAIN rooms \ {active} : SameRoom(r)
  BY <1>4 DEF SameRoom
<1>8. NewRoom(active)
  BY <1>4, EmptyRoomWords DEF NewRoom
<1>9. \A r \in DOMAIN rooms' : rooms'[r].restoring => rooms'[r].messages = Unread
  <2>1. ~ rooms'[active].restoring
    <3>1. rooms'[active].restoring = FALSE
      BY <1>4, EmptyRoomWords
    <3>2. QED BY <3>1
  <2>2. \A r \in DOMAIN rooms \ {active} : rooms'[r].restoring => rooms'[r].messages = Unread
    BY <1>4, <1>6 DEF TalkForms, Words
  <2>3. QED BY <1>4, <2>1, <2>2
<1>10. rooms'[active'].messages # Unread
  <2>1. EmptyRoom(Fresh).messages # Unread /\ rooms'[active'] = EmptyRoom(Fresh)
    BY <1>1, <1>4, EmptyRoomWords
  <2>2. QED BY <2>1
<1>11. QED BY <1>1, <1>2, <1>4, <1>5, <1>7, <1>8, <1>9, <1>10, SendsKept DEF Calm

LEMMA DeleteRoomCalm ==
    ASSUME BoundsAssumption, Inv, TalkInv, "overlap" \notin harmed', NEW r \in DOMAIN rooms, DeleteRoom(r)
    PROVE  Calm
<1> DEFINE left == [x \in DOMAIN rooms \ {r} |-> rooms[x]]
           last == DOMAIN left = {}
<1>1. /\ UNCHANGED <<history, turn, edit, loaded>> /\ loaded.rooms /\ turn = NoTurn
      /\ \E kinds : Harm(Overlap \cup kinds)
  <2>1. /\ UNCHANGED <<history, turn, edit, loaded>> /\ loaded.rooms /\ turn = NoTurn
        /\ \/ Harm(Overlap \cup Early)
           \/ \E kinds : Harm(Overlap \cup Early \cup kinds)
    BY DEF DeleteRoom, server, Idle
  <2>2. \A kinds : Overlap \cup Early \cup kinds = Overlap \cup (Early \cup kinds)
    OBVIOUS
  <2>3. QED BY <2>1, <2>2
<1>2. edit = NoEdit /\ harmed \subseteq harmed'
  BY <1>1, HarmGrows DEF Overlap
<1>3. /\ last => /\ Fresh <= MaxThreads /\ Used("threads") /\ active' = Fresh
                 /\ rooms' = [x \in {Fresh} |-> EmptyRoom(x)]
      /\ ~ last => /\ active' \in DOMAIN left \cup {active}
                   /\ active = r => active' \in DOMAIN left
                   /\ rooms' = Opened(left, active') /\ used' = used
  BY DEF DeleteRoom
<1>4. RoomForms(left) /\ DOMAIN left = DOMAIN rooms \ {r} /\ \A x \in DOMAIN left : left[x] = rooms[x]
  BY DEF Inv, Shape, PageInv, RoomForms
<1>5. active \in DOMAIN rooms /\ TalkForms
  BY <1>1, <1>2 DEF Inv, Shape, PageInv, TalkInv
<1> HIDE DEF left, last
<1>6. CASE last
  <2>1. DOMAIN rooms' = {Fresh} /\ rooms'[Fresh] = EmptyRoom(Fresh)
    BY <1>3, <1>6
  <2>2. Fresh \in Thread /\ used'.threads = Fresh
    BY <1>3, <1>6, FreshThread, SendsKept
  <2>3. NewRoom(Fresh)
    BY <2>1, EmptyRoomWords DEF NewRoom
  <2>4. ~ rooms'[Fresh].restoring /\ rooms'[active'].messages # Unread
    <3>1. rooms'[Fresh].restoring = FALSE
      BY <2>1, EmptyRoomWords
    <3>2. QED BY <1>3, <1>6, <2>1, <3>1, EmptyRoomWords
  <2>5. QED BY <1>1, <1>2, <1>3, <1>6, <2>1, <2>2, <2>3, <2>4, SendsKept DEF Calm
<1>7. CASE ~ last
  <2>1. active' \in DOMAIN left
    BY <1>3, <1>4, <1>5, <1>7
  <2>2. /\ DOMAIN rooms' = DOMAIN left
        /\ \A x \in DOMAIN left : /\ rooms'[x].messages = left[x].messages
                                  /\ rooms'[x].thread = left[x].thread
        /\ \A x \in DOMAIN left \ {active'} : rooms'[x] = left[x]
        /\ rooms'[active'].restoring = (left[active'].restoring \/ left[active'].messages = Unread)
    BY <1>3, <1>4, <1>7, <2>1, OpenedWords
  <2>3. \A x \in DOMAIN rooms' : SameRoom(x)
    BY <1>4, <2>2 DEF SameRoom
  <2>4. \A x \in DOMAIN rooms' : rooms'[x].restoring => rooms'[x].messages = Unread
    BY <1>4, <1>5, <2>1, <2>2 DEF TalkForms, Words
  <2>5. rooms'[active'].messages = Unread => rooms'[active'].restoring
    BY <2>1, <2>2
  <2>6. QED BY <1>1, <1>2, <1>3, <1>7, <2>3, <2>4, <2>5, NothingSpent DEF Calm
<1>8. QED BY <1>6, <1>7

LEMMA BookmarkStepsCalm ==
    ASSUME BoundsAssumption, Inv, TalkInv, "overlap" \notin harmed',
           \/ \E r, k : ToggleMark(r, k)
           \/ \E i : Deliver(i) \/ Lose(i)
           \/ UNCHANGED vars \/ LoadMarks \/ LoadMarksFails
    PROVE  Calm
<1>1. CASE \E r, k : ToggleMark(r, k)
  <2>0. PICK r, k : ToggleMark(r, k)
    BY <1>1
  <2>1. UNCHANGED <<history, turn, edit, rooms, active, loaded>> /\ harmed \subseteq harmed'
        /\ (used' = used \/ Used("marks"))
    <3>1. UNCHANGED <<history, turn, edit, rooms, active, loaded>> /\ Harm(Early)
      BY <2>0 DEF ToggleMark, server
    <3>2. used' = used \/ Used("marks")
      BY <2>0 DEF ToggleMark
    <3>3. QED BY <3>1, <3>2, HarmGrows
  <2>2. QED BY <2>1, SendsKept, NothingSpent, SameRoomsCalm
<1>2. CASE \E i : Deliver(i) \/ Lose(i)
  <2>0. PICK i : Deliver(i) \/ Lose(i)
    BY <1>2
  <2>1. UNCHANGED <<history, turn, edit, rooms, active, loaded>> /\ harmed \subseteq harmed'
        /\ (used' = used \/ Used("faults"))
    <3>1. CASE Deliver(i)
      <4>1. UNCHANGED <<history, page, turn, edit, used>> /\ \E kinds : Harm(kinds)
        BY <3>1 DEF Deliver
      <4>2. QED BY <4>1, HarmGrows DEF page
    <3>2. CASE Lose(i)
      <4>1. UNCHANGED <<server, page, turn, edit>> /\ Fault /\ \E kinds : Harm(kinds)
        BY <3>2 DEF Lose
      <4>2. QED BY <4>1, HarmGrows DEF page, server, Fault
    <3>3. QED BY <2>0, <3>1, <3>2
  <2>2. QED BY <2>1, SendsKept, NothingSpent, SameRoomsCalm
<1>3. CASE UNCHANGED vars
  <2>1. UNCHANGED <<history, turn, edit, rooms, active, loaded, harmed, used>>
    BY <1>3 DEF vars, server, page, ghosts
  <2>2. QED BY <2>1, NothingSpent, SameRoomsCalm
<1>4. CASE LoadMarks \/ LoadMarksFails
  <2>1. UNCHANGED <<history, turn, edit, rooms, active>> /\ harmed \subseteq harmed'
        /\ (used' = used \/ Used("faults"))
    BY <1>4, HarmGrows DEF LoadMarks, LoadMarksFails, Fault, server
  <2>2. loaded' = [loaded EXCEPT !.marks = TRUE]
    BY <1>4 DEF LoadMarks, LoadMarksFails
  <2>3. (loaded'.rooms => loaded.rooms) /\ (loaded.marks => loaded'.marks)
    <3>1. loaded \in [rooms : BOOLEAN, marks : BOOLEAN]
      BY DEF Inv, Shape, PageInv
    <3>2. loaded'.rooms = loaded.rooms /\ loaded'.marks = TRUE
      BY <2>2, <3>1
    <3>3. QED BY <3>2
  <2>4. QED BY <2>1, <2>3, SendsKept, NothingSpent, SameRoomsCalm
<1>5. QED BY <1>1, <1>2, <1>3, <1>4

\* The room list is shown as the server has it, or as this browser had it.
LEMMA ShowCalm ==
    ASSUME BoundsAssumption, Inv, TalkInv, "overlap" \notin harmed, ~ loaded.rooms,
           NEW list, NEW writes, NEW spent, Show(list, writes, spent), RoomForms(list),
           spent.sends = used.sends, spent.threads = used.threads, spent \in UsedNames,
           UNCHANGED <<history, turn, edit>>, harmed \subseteq harmed', loaded.marks => loaded'.marks,
           \A r \in DOMAIN list :
              /\ list[r].restoring => list[r].messages = Unread
              /\ \/ list[r].messages = Unread
                 \/ /\ r \in DOMAIN rooms /\ list[r].messages = rooms[r].messages
                    /\ \/ list[r].thread = rooms[r].thread
                       \/ {"mixed", "stale mark"} \subseteq harmed'
    PROVE  Calm
<1>1. turn = NoTurn /\ edit = NoEdit /\ TalkForms /\ used.threads \in Nat
  BY DEF Inv, Shape, PageInv, TalkInv, UsedInv, UsedNames
<1>2. CASE DOMAIN list = {}
  <2>1. /\ Fresh <= MaxThreads /\ rooms' = [r \in {Fresh} |-> EmptyRoom(r)]
        /\ active' = Fresh /\ used' = [spent EXCEPT !.threads = Fresh]
    BY <1>2 DEF Show
  <2>2. DOMAIN rooms' = {Fresh} /\ rooms'[Fresh] = EmptyRoom(Fresh)
    BY <2>1
  <2>3. Fresh \in Thread /\ Fresh = used.threads + 1
    BY <2>1, FreshThread DEF Fresh
  <2>4. used'.threads = Fresh /\ used'.sends = used.sends
    BY <2>1 DEF UsedNames
  <2>5. NewRoom(Fresh)
    BY <2>2, EmptyRoomWords DEF NewRoom
  <2>6. ~ rooms'[Fresh].restoring /\ rooms'[active'].messages # Unread
    <3>1. rooms'[Fresh].restoring = FALSE /\ EmptyRoom(Fresh).messages # Unread
      BY <2>2, EmptyRoomWords
    <3>2. QED BY <2>1, <2>2, <3>1
  <2>7. \A r \in DOMAIN rooms' : NewRoom(r) /\ ~ rooms'[r].restoring
    BY <2>2, <2>5, <2>6
  <2>8. used'.threads \in Nat /\ used.threads <= used'.threads
    <3>1. used.threads \in Nat /\ used'.threads = used.threads + 1
      BY <1>1, <2>3, <2>4
    <3>2. QED BY ONLY <3>1
  <2>9. (turn # NoTurn => SameRoom(turn.room)) /\ (edit # NoEdit => SameRoom(edit.room))
    BY <1>1
  <2>10. QED BY <2>3, <2>4, <2>6, <2>7, <2>8, <2>9 DEF Calm
<1>3. CASE DOMAIN list # {}
  <2>1. active' \in DOMAIN list /\ rooms' = Opened(list, active') /\ used' = spent
    BY <1>3 DEF Show
  <2>2. /\ DOMAIN rooms' = DOMAIN list
        /\ \A x \in DOMAIN list : /\ rooms'[x].messages = list[x].messages
                                  /\ rooms'[x].thread = list[x].thread
        /\ \A x \in DOMAIN list \ {active'} : rooms'[x] = list[x]
        /\ rooms'[active'].restoring = (list[active'].restoring \/ list[active'].messages = Unread)
    <3>1. PICK a \in DOMAIN list : a = active'
      BY <2>1
    <3>2. /\ DOMAIN Opened(list, a) = DOMAIN list
          /\ \A x \in DOMAIN list : /\ Opened(list, a)[x].messages = list[x].messages
                                    /\ Opened(list, a)[x].thread = list[x].thread
          /\ \A x \in DOMAIN list \ {a} : Opened(list, a)[x] = list[x]
          /\ Opened(list, a)[a].restoring = (list[a].restoring \/ list[a].messages = Unread)
      BY OpenedWords
    <3>3. rooms' = Opened(list, a)
      BY <2>1, <3>1
    <3>4. QED BY <3>1, <3>2, <3>3
  <2>3. ASSUME NEW r \in DOMAIN rooms'
        PROVE  \/ SameRoom(r)
               \/ rooms'[r].messages = Unread
               \/ /\ MixedRoom(r) /\ IsTalk(rooms'[r].messages)
                  /\ AskedTurns(rooms'[r].messages, used.sends)
    <3>1. CASE list[r].messages = Unread
      BY <2>2, <3>1
    <3>2. CASE /\ r \in DOMAIN rooms /\ list[r].messages = rooms[r].messages
               /\ list[r].thread = rooms[r].thread
      BY <2>2, <3>2 DEF SameRoom
    <3>3. CASE /\ r \in DOMAIN rooms /\ list[r].messages = rooms[r].messages
               /\ {"mixed", "stale mark"} \subseteq harmed'
      BY <1>1, <2>2, <3>3 DEF MixedRoom, TalkForms, Words
    <3>4. QED BY <2>2, <3>1, <3>2, <3>3
  <2>4. \A r \in DOMAIN rooms' : rooms'[r].restoring => rooms'[r].messages = Unread
    BY <2>1, <2>2
  <2>5. rooms'[active'].messages = Unread => rooms'[active'].restoring
    BY <2>1, <2>2
  <2>6. (turn # NoTurn => SameRoom(turn.room)) /\ (edit # NoEdit => SameRoom(edit.room))
    BY <1>1
  <2>7. /\ used'.sends = used.sends /\ used'.threads = used.threads /\ used'.threads \in Nat
        /\ used.threads <= used'.threads
    <3>1. used'.sends = used.sends /\ used'.threads = used.threads /\ used.threads \in Nat
      BY <1>1, <2>1
    <3>2. QED BY ONLY <3>1
  <2>8. QED BY <1>1, <2>3, <2>4, <2>5, <2>6, <2>7 DEF Calm
<1>4. QED BY <1>2, <1>3

LEMMA LoadRoomsCalm ==
    ASSUME BoundsAssumption, Inv, TalkInv, "overlap" \notin harmed', LoadRooms
    PROVE  Calm
<1> DEFINE list == IF DOMAIN stored = {} THEN rooms ELSE Adopted
<1>1. /\ ~ loaded.rooms /\ loaded' = [loaded EXCEPT !.rooms = TRUE]
      /\ UNCHANGED <<history, turn, edit>> /\ harmed \subseteq harmed'
      /\ \E writes : Show(list, writes, used)
      /\ (\E r \in DOMAIN stored \cap DOMAIN rooms : stored[r].thread # rooms[r].thread)
            => "mixed" \in harmed'
      /\ "rooms" \in astray \/ InFlight("rooms") => "stale mark" \in harmed'
  BY HarmGrows DEF LoadRooms, server, Harm
<1>2. loaded.marks => loaded'.marks
  BY <1>1 DEF Inv, Shape, PageInv
<1>3. TalkForms /\ used \in UsedNames /\ RoomForms(rooms)
  BY <1>1 DEF TalkInv, Inv, Shape, UsedInv, PageInv
<1>4. ASSUME NEW r \in DOMAIN stored, r \in DOMAIN rooms, stored[r].thread # rooms[r].thread
      PROVE  {"mixed", "stale mark"} \subseteq harmed'
  <2>1. "mixed" \in harmed'
    BY <1>1, <1>4
  <2>2. CASE "rooms" \in astray \/ InFlight("rooms")
    BY <1>1, <2>1, <2>2
  <2>3. CASE ~ ("rooms" \in astray \/ InFlight("rooms"))
    <3>1. PICK known : RoomsInStep(sent, stored, known) /\ Extends(known)
      BY <1>1, <2>3 DEF Inv, RoomsInv
    <3>2. \A i \in DOMAIN sent : ~ RoomWrite(sent[i])
      BY <2>3 DEF InFlight, TableOf
    <3>3. r \in Thread
      BY <1>4, OwnedNames DEF Inv, Shape, UsedInv, UsedNames, Thread, BoundsAssumption
    <3>4. AgreeOn(r, stored, known)
      BY <3>1, <3>2, <3>3 DEF RoomsInStep, About
    <3>5. QED BY <1>4, <3>1, <3>3, <3>4 DEF AgreeOn, Extends, SameRow
  <2>4. QED BY <2>2, <2>3
<1>5. /\ RoomForms(list)
      /\ \A r \in DOMAIN list :
            /\ list[r].restoring => list[r].messages = Unread
            /\ \/ list[r].messages = Unread
               \/ /\ r \in DOMAIN rooms /\ list[r].messages = rooms[r].messages
                  /\ \/ list[r].thread = rooms[r].thread
                     \/ {"mixed", "stale mark"} \subseteq harmed'
  <2>1. CASE DOMAIN stored = {}
    BY <1>3, <2>1 DEF TalkForms, Words
  <2>2. CASE DOMAIN stored # {}
    <3>1. ASSUME NEW r \in DOMAIN stored
          PROVE  /\ Adopted[r].restoring => Adopted[r].messages = Unread
                 /\ \/ Adopted[r].messages = Unread
                    \/ /\ r \in DOMAIN rooms /\ Adopted[r].messages = rooms[r].messages
                       /\ \/ Adopted[r].thread = rooms[r].thread
                          \/ {"mixed", "stale mark"} \subseteq harmed'
      <4>1. ~ Adopted[r].restoring
        BY AdoptedWords
      <4>2. CASE r \in DOMAIN rooms
        <5>1. Adopted[r].messages = rooms[r].messages /\ Adopted[r].thread = stored[r].thread
          BY <4>2, AdoptedWords
        <5>2. QED BY <1>4, <4>1, <4>2, <5>1
      <4>3. CASE r \notin DOMAIN rooms
        <5>1. Adopted[r].messages = Unread
          BY <4>3, AdoptedWords
        <5>2. QED BY <5>1
      <4>4. QED BY <4>2, <4>3
    <3>2. list = Adopted
      BY <2>2
    <3>3. QED BY <3>1, <3>2, AdoptedWords
  <2>3. QED BY <2>1, <2>2
<1> HIDE DEF list
<1>6. PICK writes : Show(list, writes, used)
  BY <1>1
<1>7. QED BY <1>1, <1>2, <1>3, <1>5, <1>6, ShowCalm

LEMMA LoadRoomsFailsCalm ==
    ASSUME BoundsAssumption, Inv, TalkInv, "overlap" \notin harmed', LoadRoomsFails
    PROVE  Calm
<1>1. PICK spent : spent = [used EXCEPT !.faults = @ + 1] /\ Show(rooms, <<>>, spent)
  BY DEF LoadRoomsFails
<1>2. /\ ~ loaded.rooms /\ loaded' = [loaded EXCEPT !.rooms = TRUE]
      /\ UNCHANGED <<history, turn, edit, harmed>>
  BY DEF LoadRoomsFails, server
<1>3. loaded.marks => loaded'.marks
  BY <1>2 DEF Inv, Shape, PageInv
<1>4. TalkForms /\ used \in UsedNames /\ RoomForms(rooms)
  BY <1>2 DEF TalkInv, Inv, Shape, UsedInv, PageInv
<1>5. spent \in UsedNames /\ spent.sends = used.sends /\ spent.threads = used.threads
  <2>1. spent = [threads |-> used.threads, turns |-> used.turns, sends |-> used.sends,
              attempts |-> used.attempts, marks |-> used.marks, changes |-> used.changes,
              reloads |-> used.reloads, faults |-> used.faults + 1]
    BY <1>1, <1>4 DEF UsedNames
  <2>2. QED BY <1>4, <2>1 DEF UsedNames
<1>6. \A r \in DOMAIN rooms : rooms[r].restoring => rooms[r].messages = Unread
  BY <1>4 DEF TalkForms, Words
<1>7. PICK writes : Show(rooms, writes, spent)
  BY <1>1
<1>8. QED BY <1>2, <1>3, <1>4, <1>5, <1>6, <1>7, ShowCalm

-----------------------------------------------------------------------------
(* Steps in one room.                                                       *)

Touches(r) ==
    /\ r \in DOMAIN rooms /\ DOMAIN rooms' = DOMAIN rooms
    /\ UNCHANGED <<active, loaded>> /\ harmed \subseteq harmed'
    /\ used'.sends \in Nat /\ used.sends <= used'.sends /\ used'.threads = used.threads
    /\ \A x \in DOMAIN rooms : rooms'[x].thread = rooms[x].thread
    /\ \A x \in DOMAIN rooms \ {r} : /\ rooms'[x].messages = rooms[x].messages
                                     /\ rooms'[x].restoring = rooms[x].restoring
    /\ DOMAIN history' = Thread /\ history' = [t \in Thread |-> history'[t]]
    /\ \A t \in Thread \ {rooms[r].thread} : history'[t] = history[t]
    /\ \/ edit' = edit
       \/ (edit = NoEdit \/ edit.room = r) /\ (edit' = NoEdit \/ edit'.room = r)
    /\ \/ turn' = turn
       \/ (turn = NoTurn \/ turn.room = r) /\ (turn' = NoTurn \/ turn'.room = r)

WellForm(r) ==
    /\ IsLog(history'[rooms[r].thread], used'.sends)
    /\ rooms'[r].messages = Unread \/ IsTalk(rooms'[r].messages)
    /\ AskedTurns(rooms'[r].messages, used'.sends)
    /\ rooms'[r].restoring => rooms'[r].messages = Unread
    /\ r = active /\ rooms'[r].messages = Unread => rooms'[r].restoring

LEMMA RoomThreads ==
    ASSUME BoundsAssumption, Inv
    PROVE  \A x \in DOMAIN rooms : rooms[x].thread \in Thread /\ rooms[x].thread <= used.threads
  BY OwnedNames DEF Inv, Shape, UsedInv, UsedNames, Thread, BoundsAssumption

LEMMA TouchedTalk ==
    ASSUME BoundsAssumption, Inv, TalkInv, "overlap" \notin harmed', NEW r, Touches(r), WellForm(r),
           TurnForms', EditForms', RoomTalk(r)'
    PROVE  TalkInv'
<1>1. /\ LogForms /\ TalkForms /\ TurnForms /\ EditForms
      /\ \A x \in DOMAIN rooms : RoomTalk(x)
  BY DEF TalkInv, Touches
<1>2. Owned /\ used.sends \in Nat /\ used.threads \in Nat /\ (loaded.rooms => active \in DOMAIN rooms)
  BY DEF Inv, Shape, UsedInv, UsedNames, PageInv
<1>3. \A x \in DOMAIN rooms : rooms[x].thread \in Thread /\ rooms[x].thread <= used.threads
  BY RoomThreads
<1>4. LogForms'
  <2>1. ASSUME NEW t \in Thread
        PROVE  IsLog(history'[t], used'.sends) /\ (t > used'.threads => history'[t] = <<>>)
    <3>1. CASE t = rooms[r].thread
      <4>1. ~ (t > used'.threads)
        BY <1>2, <1>3, <3>1 DEF Touches, Thread
      <4>2. QED BY <3>1, <4>1 DEF WellForm
    <3>2. CASE t # rooms[r].thread
      <4>1. history'[t] = history[t] /\ IsLog(history[t], used.sends)
        BY <1>1, <3>2 DEF Touches, LogForms
      <4>2. IsLog(history[t], used'.sends)
        BY <1>2, <4>1, LogLater DEF Touches
      <4>3. QED BY <1>1, <4>1, <4>2 DEF Touches, LogForms
    <3>3. QED BY <3>1, <3>2
  <2>2. QED BY <2>1 DEF LogForms, Touches
<1>5. TalkForms'
  <2>1. \A x \in DOMAIN rooms' : /\ rooms'[x].messages = Unread \/ IsTalk(rooms'[x].messages)
                                 /\ rooms'[x].restoring => rooms'[x].messages = Unread
    BY <1>1 DEF Touches, WellForm, TalkForms, Words
  <2>2. loaded'.rooms /\ rooms'[active'].messages = Unread => rooms'[active'].restoring
    BY <1>1, <1>2 DEF Touches, WellForm, TalkForms, Words
  <2>3. ASSUME NEW x \in DOMAIN rooms' PROVE AskedTurns(rooms'[x].messages, used'.sends)
    <3>1. CASE x = r
      BY <3>1 DEF WellForm
    <3>2. CASE x # r
      <4>1. AskedTurns(rooms[x].messages, used.sends) /\ rooms'[x].messages = rooms[x].messages
        BY <1>1, <3>2 DEF Touches, TalkForms, Words
      <4>2. used'.sends \in Nat /\ used.sends <= used'.sends
        BY DEF Touches
      <4>3. AskedTurns(rooms[x].messages, used'.sends)
        BY <1>2, <4>1, <4>2, TurnsLater
      <4>4. QED BY <4>1, <4>3
    <3>3. QED BY <3>1, <3>2
  <2>4. QED BY <2>1, <2>2, <2>3 DEF TalkForms, Words
<1>6. ASSUME NEW x \in DOMAIN rooms' PROVE RoomTalk(x)'
  <2>1. CASE x # r
    <3>1. SameRoom(x)
      BY <2>1 DEF Touches, SameRoom
    <3>2. rooms[x].thread # rooms[r].thread
      BY <1>2, <2>1, ThreadsApart DEF Touches
    <3>3. history'[rooms[x].thread] = history[rooms[x].thread]
      BY <1>3, <3>2 DEF Touches
    <3>4. edit' = edit \/ (~ Cutting(x) /\ ~ Cutting(x)')
      BY <2>1 DEF Touches, Cutting, NoEdit
    <3>5. turn' = turn \/ (~ Asking(x) /\ ~ Asking(x)')
      BY <2>1 DEF Touches, Asking
    <3>6. Untouched(x)
      BY <3>1, <3>3, <3>4, <3>5 DEF Untouched
    <3>7. RoomTalk(x) /\ harmed \subseteq harmed'
      BY <1>1 DEF Touches
    <3>8. QED BY <3>6, <3>7, UntouchedTalk
  <2>2. QED BY <2>1
<1>7. QED BY <1>4, <1>5, <1>6 DEF TalkInv

LEMMA SendsGrow ==
    ASSUME BoundsAssumption, Inv, Spent
    PROVE  used'.sends \in Nat /\ used.sends <= used'.sends /\ used'.threads = used.threads
<1>1. used \in UsedNames
  BY DEF Inv, Shape, UsedInv
<1>2. CASE used' = used
  BY <1>1, <1>2 DEF UsedNames
<1>3. CASE Used("faults") \/ Used("changes") \/ Used("reloads")
  BY <1>1, <1>3 DEF UsedNames, Used
<1>4. CASE used' = [used EXCEPT !.faults = @ + 1, !.attempts = @ + 1]
  <2>1. used' = [threads |-> used.threads, turns |-> used.turns, sends |-> used.sends,
              attempts |-> used.attempts + 1, marks |-> used.marks, changes |-> used.changes,
              reloads |-> used.reloads, faults |-> used.faults + 1]
    BY <1>1, <1>4 DEF UsedNames
  <2>2. QED BY <1>1, <2>1 DEF UsedNames
<1>5. CASE used' = [used EXCEPT !.turns = @ + 1, !.attempts = @ + 1]
  <2>1. used' = [threads |-> used.threads, turns |-> used.turns + 1, sends |-> used.sends,
              attempts |-> used.attempts + 1, marks |-> used.marks, changes |-> used.changes,
              reloads |-> used.reloads, faults |-> used.faults]
    BY <1>1, <1>5 DEF UsedNames
  <2>2. QED BY <1>1, <2>1 DEF UsedNames
<1>6. CASE used' = [used EXCEPT !.turns = @ + 1, !.attempts = @ + 1, !.sends = @ + 1]
  <2>1. used' = [threads |-> used.threads, turns |-> used.turns + 1, sends |-> used.sends + 1,
              attempts |-> used.attempts + 1, marks |-> used.marks, changes |-> used.changes,
              reloads |-> used.reloads, faults |-> used.faults]
    BY <1>1, <1>6 DEF UsedNames
  <2>2. QED BY <1>1, <2>1 DEF UsedNames
<1>7. QED BY <1>2, <1>3, <1>4, <1>5, <1>6 DEF Spent

LEMMA TurnExcept ==
    ASSUME NEW t, IsTurn(t), NEW p, NEW h
    PROVE  /\ [t EXCEPT !.heard = h] = [phase |-> t.phase, room |-> t.room, thread |-> t.thread,
                  turn |-> t.turn, by |-> t.by, tries |-> t.tries, heard |-> h]
           /\ [t EXCEPT !.phase = p] = [phase |-> p, room |-> t.room, thread |-> t.thread,
                  turn |-> t.turn, by |-> t.by, tries |-> t.tries, heard |-> t.heard]
<1>1. PICK a, b, c, d, e, f, g : t = [phase |-> a, room |-> b, thread |-> c, turn |-> d,
                                      by |-> e, tries |-> f, heard |-> g]
  BY DEF IsTurn
<1>2. QED BY <1>1

LEMMA TurnIsOne == \A t : IsTurn(t) => t # NoTurn /\ t.phase # "none"
<1> SUFFICES ASSUME NEW t, IsTurn(t) PROVE t # NoTurn /\ t.phase # "none"
  OBVIOUS
<1>1. t.phase # "none"
  BY DEF IsTurn
<1>2. NoTurn.phase = "none"
  BY DEF NoTurn
<1>3. QED BY <1>1, <1>2

\* What a turn under way has to do with its room.
LEMMA TurnFacts ==
    ASSUME BoundsAssumption, Inv, TalkInv, "overlap" \notin harmed, turn # NoTurn
    PROVE  /\ IsTurn(turn) /\ edit = NoEdit /\ loaded.rooms
           /\ turn.room \in DOMAIN rooms /\ turn.thread = rooms[turn.room].thread
           /\ turn.thread \in Thread /\ IsLog(history[turn.thread], used.sends)
           /\ turn.turn \in 1..used.sends
           /\ IsTalk(Words(turn.room)) /\ ~ rooms[turn.room].restoring
           /\ AskedTurns(Words(turn.room), used.sends)
           /\ Held(rooms, turn.room) = Words(turn.room)
           /\ Words(turn.room) # Unread
           /\ \E q \in Questions(Words(turn.room)) : Words(turn.room)[q].turn = turn.turn
           /\ turn.phase # "asking" => HoldsQuestion(Log(turn.room), turn.turn)
           /\ turn.phase = "answered" => \E j \in Answers(Log(turn.room)) : Log(turn.room)[j].by = turn.by
           /\ RoomTalk(turn.room) /\ Log(turn.room) = history[turn.thread]
<1>1. TurnForms /\ LogForms /\ TalkForms /\ \A x \in DOMAIN rooms : RoomTalk(x)
  BY DEF TalkInv
<1>2. loaded.rooms
  BY DEF Inv, Shape, PageInv
<1>3. /\ IsTurn(turn) /\ edit = NoEdit
      /\ turn.room \in DOMAIN rooms /\ turn.thread = rooms[turn.room].thread
      /\ turn.turn \in 1..used.sends /\ Words(turn.room) # Unread
      /\ \E q \in Questions(Words(turn.room)) : Words(turn.room)[q].turn = turn.turn
      /\ turn.phase # "asking" => HoldsQuestion(Log(turn.room), turn.turn)
      /\ turn.phase = "answered" => \E j \in Answers(Log(turn.room)) : Log(turn.room)[j].by = turn.by
  BY <1>1 DEF TurnForms
<1>4. /\ IsTalk(Words(turn.room)) /\ ~ rooms[turn.room].restoring
      /\ AskedTurns(Words(turn.room), used.sends)
  BY <1>1, <1>3 DEF TalkForms
<1>5. turn.thread \in Thread
  BY <1>3, RoomThreads
<1>6. IsLog(history[turn.thread], used.sends) /\ Log(turn.room) = history[turn.thread]
  BY <1>1, <1>3, <1>5 DEF LogForms, Log
<1>7. Held(rooms, turn.room) = Words(turn.room)
  BY <1>3 DEF Held, Words
<1>8. RoomTalk(turn.room)
  BY <1>1, <1>3
<1>9. QED BY <1>2, <1>3, <1>4, <1>5, <1>6, <1>7, <1>8

LEMMA HistoryForms ==
    ASSUME TalkInv, "overlap" \notin harmed
    PROVE  DOMAIN history = Thread /\ history = [t \in Thread |-> history[t]]
  BY DEF TalkInv, LogForms

LEMMA HearTokenTalk ==
    ASSUME BoundsAssumption, Inv, TalkInv, "overlap" \notin harmed', HearToken
    PROVE  TalkInv'
<1>1. /\ UNCHANGED <<history, rooms, active, loaded, edit, used, harmed>>
      /\ turn.phase \in {"answering", "answered"} /\ turn' = [turn EXCEPT !.heard = TRUE]
  BY DEF HearToken, server, page, ghosts
<1>2. turn # NoTurn /\ "overlap" \notin harmed
  BY <1>1 DEF NoTurn
<1>0. PICK r : r = turn.room
  OBVIOUS
<1>3. /\ IsTurn(turn) /\ edit = NoEdit /\ r \in DOMAIN rooms /\ IsLog(Log(r), used.sends)
      /\ IsTalk(Words(r)) /\ ~ rooms[r].restoring /\ Words(r) # Unread /\ RoomTalk(r)
      /\ AskedTurns(Words(r), used.sends)
  BY <1>0, <1>2, TurnFacts
<1>4. turn' = [phase |-> turn.phase, room |-> r, thread |-> turn.thread,
               turn |-> turn.turn, by |-> turn.by, tries |-> turn.tries, heard |-> TRUE]
  BY <1>0, <1>1, <1>3, TurnExcept
<1>5. IsTurn(turn') /\ turn'.room = r /\ turn'.turn = turn.turn /\ turn'.by = turn.by
      /\ turn'.phase = turn.phase /\ turn'.thread = turn.thread
  BY <1>0, <1>3, <1>4 DEF IsTurn
<1>6. TurnForms'
  <2>1. TurnForms
    BY <1>2 DEF TalkInv
  <2>2. Words(r)' = Words(r) /\ Log(r)' = Log(r)
    BY <1>1 DEF Words, Log
  <2>3. QED BY <1>0, <1>1, <1>2, <1>5, <2>1, <2>2 DEF TurnForms, Words, Log
<1>7. EditForms'
  BY <1>1, <1>3 DEF EditForms
<1>8. RoomTalk(r)'
  <2>1. Untouched(r)
    BY <1>0, <1>1, <1>2, <1>3, <1>5, TurnIsOne DEF Untouched, SameRoom, Asking
  <2>2. QED BY <1>1, <1>3, <2>1, UntouchedTalk
<1>9. Touches(r)
  BY <1>0, <1>1, <1>2, <1>3, <1>5, HistoryForms, SendsGrow DEF Touches, Spent
<1>10. WellForm(r)
  BY <1>1, <1>3 DEF WellForm, Words, Log
<1>11. QED BY <1>6, <1>7, <1>8, <1>9, <1>10, TouchedTalk

-----------------------------------------------------------------------------
(* Questions asked.                                                         *)

LEMMA QuestionFacts ==
    \A t : Question(t).role = "user" /\ Question(t).turn = t
  BY DEF Question

\* s is w and, after it, a question that was never asked.
Asks(w, s, log, n, t) ==
    n \in Nat /\ OneMore(w, s, Question(t)) /\ IsTalk(w) /\ IsLog(log, n) /\ t = n + 1

LEMMA NewQuestion ==
    ASSUME NEW w, NEW s, NEW log, NEW n, NEW t, Asks(w, s, log, n, t)
    PROVE  /\ IsTalk(s) /\ ~ HoldsQuestion(log, t) /\ IsLastQuestion(s, t)
           /\ AskedTurns(w, n) => AskedTurns(s, n + 1)
           /\ \E q \in Questions(s) : s[q].turn = t
           /\ Total(s) = Total(w) + 1 /\ Total(w) \in Nat /\ Total(log) \in Nat
           /\ Shows(w, log) => Shows(s, log) /\ LastAsked(s, log)
           /\ Remembers(w, log) => Remembers(s, log)
           /\ SameAnswers(w, log) => SameAnswers(s, log)
<1>0. n \in Nat /\ OneMore(w, s, Question(t)) /\ IsTalk(w) /\ IsLog(log, n) /\ t = n + 1
  BY DEF Asks
<1> DEFINE x == Len(w) + 1
<1>1. /\ IsList(w) /\ IsList(s) /\ Prefix(w, s)
      /\ x \in DOMAIN s \ DOMAIN w /\ s[x] = Question(t)
      /\ Questions(s) = Questions(w) \cup {x} /\ Answers(s) = Answers(w)
      /\ Total(s) = Total(w) + 1
      /\ \A i \in DOMAIN w : i < x
      /\ DOMAIN s = DOMAIN w \cup {x}
  <2>1. /\ IsList(w) /\ IsList(s) /\ Prefix(w, s)
        /\ Len(w) + 1 \in DOMAIN s \ DOMAIN w /\ s[Len(w) + 1] = Question(t)
        /\ Questions(s) = Questions(w) \cup (IF Question(t).role = "user" THEN {Len(w) + 1} ELSE {})
        /\ Answers(s) = Answers(w) \cup (IF Question(t).role = "agent" THEN {Len(w) + 1} ELSE {})
        /\ Total(s) = Total(w) + (IF Question(t).role = "user" THEN 1 ELSE 0)
        /\ \A i \in DOMAIN w : i < Len(w) + 1
    BY <1>0, OneMoreFacts
  <2>2. Question(t).role = "user"
    BY QuestionFacts
  <2>3. DOMAIN s = DOMAIN w \cup {Len(w) + 1}
    BY <1>0 DEF OneMore
  <2>4. QED BY <2>1, <2>2, <2>3
<1> HIDE DEF x
<1>2. Questions(w) \subseteq DOMAIN w /\ Answers(w) \subseteq DOMAIN w
  BY DEF Questions, Answers
<1>3. /\ Total(w) \in Nat /\ Total(log) \in Nat /\ IsList(log) /\ Questions(s) \subseteq Nat
      /\ x \in Nat
  BY <1>0, <1>1, Positions DEF IsLog
<1>4. IsTalk(s)
  <2>1. \A i \in DOMAIN s \ DOMAIN w : s[i].role = "user"
    BY <1>1, QuestionFacts
  <2>2. QED BY <1>0, <1>1, <2>1, TalkMore
<1>5. ~ HoldsQuestion(log, t)
  <2> SUFFICES ASSUME NEW i \in DOMAIN log, log[i] = Question(t) PROVE FALSE
    BY DEF HoldsQuestion
  <2>1. t \in 1..n
    BY <1>0, QuestionFacts DEF IsLog
  <2>2. QED BY <1>0, <2>1
<1>6. x \in Questions(s) /\ s[x].turn = t /\ \A j \in Questions(s) : j <= x
  BY <1>1, <1>2, <1>3, QuestionFacts
<1>7. IsLastQuestion(s, t)
  BY <1>6 DEF IsLastQuestion
<1>8. Shows(w, log) => Shows(s, log) /\ LastAsked(s, log)
  <2> HAVE Shows(w, log)
  <2>1. Shows(s, log)
    BY <1>1, <1>2, <1>3, ShowsMore
  <2>2. Total(log) < Total(s)
    BY <1>1, <1>3 DEF Shows
  <2>3. QED BY <2>1, <2>2 DEF LastAsked
<1>9. Remembers(w, log) => Remembers(s, log)
  BY <1>1, RemembersMore
<1>10. SameAnswers(w, log) => SameAnswers(s, log)
  <2> HAVE SameAnswers(w, log)
  <2>1. SameAnswers(s, w)
    BY <1>1, <1>2, SameAnswersMore
  <2>2. QED BY <1>1, <1>3, <2>1, SameAnswersThen
<1>11. AskedTurns(w, n) => AskedTurns(s, n + 1)
  <2>1. 1..n \subseteq 1..(n + 1) /\ t \in 1..(n + 1)
    BY <1>0
  <2>2. \A i \in Questions(s) : \/ i \in Questions(w) /\ s[i] = w[i]
                                \/ s[i].turn = t
    <3>1. \A i \in DOMAIN w : w[i] = s[i]
      BY <1>1 DEF Prefix
    <3>2. QED BY <1>1, <1>2, <1>6, <3>1
  <2>3. QED BY <2>1, <2>2 DEF AskedTurns
<1>12. QED BY <1>1, <1>3, <1>4, <1>5, <1>6, <1>7, <1>8, <1>9, <1>10, <1>11

LEMMA SendMessageWords ==
    ASSUME BoundsAssumption, Inv, NEW r, NEW thread, NEW list, NEW writes, SendMessage(r, thread, list, writes),
           RoomForms(list), r \in DOMAIN list
    PROVE  /\ DOMAIN rooms' = DOMAIN list
           /\ \A x \in DOMAIN list : /\ rooms'[x].thread = list[x].thread
                                     /\ rooms'[x].restoring = list[x].restoring
           /\ \A x \in DOMAIN list \ {r} : rooms'[x].messages = list[x].messages
           /\ rooms'[r].messages = Held(list, r) \o <<Question(used.sends + 1)>>
           /\ turn' = [phase |-> "asking", room |-> r, thread |-> thread, turn |-> used.sends + 1,
                       by |-> used.attempts + 1, tries |-> 0, heard |-> FALSE]
           /\ used'.sends = used.sends + 1 /\ used'.threads = used.threads
<1>1. PICK titled, asked, words :
          /\ words = Held(list, r) \o <<Question(used.sends + 1)>>
          /\ asked = WithMessages(list, r, words)
          /\ rooms' = IF titled THEN [asked EXCEPT ![r].title = "named"] ELSE asked
          /\ StartTurn(r, thread, used.sends + 1)
          /\ used' = [used EXCEPT !.turns = @ + 1, !.attempts = @ + 1, !.sends = @ + 1]
  BY DEF SendMessage, Appended
<1>2. /\ DOMAIN asked = DOMAIN list
      /\ \A x \in DOMAIN list \ {r} : asked[x] = list[x]
      /\ asked[r].messages = words /\ asked[r].thread = list[r].thread
      /\ asked[r].restoring = list[r].restoring
  <2>1. /\ DOMAIN WithMessages(list, r, words) = DOMAIN list
        /\ \A x \in DOMAIN list \ {r} : WithMessages(list, r, words)[x] = list[x]
        /\ WithMessages(list, r, words)[r].messages = words
        /\ WithMessages(list, r, words)[r].thread = list[r].thread
        /\ WithMessages(list, r, words)[r].restoring = list[r].restoring
    BY ONLY RoomForms(list), r \in DOMAIN list, WithWords
  <2>2. QED BY <1>1, <2>1
<1>3. RoomForms(asked)
  BY <1>1, MessagesRows, SameRowsForms
<1>4. /\ DOMAIN rooms' = DOMAIN asked
      /\ \A x \in DOMAIN asked : /\ rooms'[x].messages = asked[x].messages
                                 /\ rooms'[x].thread = asked[x].thread
                                 /\ rooms'[x].restoring = asked[x].restoring
  <2>1. CASE titled
    <3>1. rooms' = [asked EXCEPT ![r].title = "named"] /\ r \in DOMAIN asked
      BY <1>1, <1>2, <2>1
    <3>2. QED BY <1>3, <3>1, TitledWords
  <2>2. CASE ~ titled
    BY <1>1, <2>2
  <2>3. QED BY <2>1, <2>2
<1>5. used'.sends = used.sends + 1 /\ used'.threads = used.threads
  <2>1. used \in UsedNames
    BY DEF Inv, Shape, UsedInv
  <2>2. used' = [threads |-> used.threads, turns |-> used.turns + 1, sends |-> used.sends + 1,
              attempts |-> used.attempts + 1, marks |-> used.marks, changes |-> used.changes,
              reloads |-> used.reloads, faults |-> used.faults]
    BY <1>1, <2>1 DEF UsedNames
  <2>3. QED BY <2>2
<1>6. QED BY <1>1, <1>2, <1>4, <1>5 DEF StartTurn

LEMMA AskTalk ==
    ASSUME BoundsAssumption, Inv, TalkInv, "overlap" \notin harmed', harmed \subseteq harmed',
           NEW r \in DOMAIN rooms, NEW w, IsTalk(w), AskedTurns(w, used.sends), NEW list, NEW writes,
           SendMessage(r, rooms[r].thread, list, writes), RoomForms(list),
           DOMAIN list = DOMAIN rooms, \A x \in DOMAIN rooms : list[x].thread = rooms[x].thread,
           \A x \in DOMAIN rooms \ {r} : list[x] = rooms[x],
           list[r].messages = w, ~ list[r].restoring,
           UNCHANGED <<history, active, loaded>>,
           edit = NoEdit \/ edit.room = r, edit' = NoEdit, turn = NoTurn,
           Clean({"repeated", "late", "halfcut", "unrestored", "mixed", "overlap"})' => Shows(w, Log(r)),
           Clean({"unstored", "halfcut", "unrestored", "mixed", "overlap"})' =>
               Remembers(w, Log(r)) /\ Total(w) <= Total(Log(r)),
           Clean({"answers", "stale mark", "overlap"})' => SameAnswers(w, Log(r))
    PROVE  TalkInv'
<1>1. /\ DOMAIN rooms' = DOMAIN list
      /\ \A x \in DOMAIN list : /\ rooms'[x].thread = list[x].thread
                                /\ rooms'[x].restoring = list[x].restoring
      /\ \A x \in DOMAIN list \ {r} : rooms'[x].messages = list[x].messages
      /\ rooms'[r].messages = Held(list, r) \o <<Question(used.sends + 1)>>
      /\ turn' = [phase |-> "asking", room |-> r, thread |-> rooms[r].thread, turn |-> used.sends + 1,
                  by |-> used.attempts + 1, tries |-> 0, heard |-> FALSE]
      /\ used'.sends = used.sends + 1 /\ used'.threads = used.threads
  BY SendMessageWords
<1>2. PICK n, t, s, log : /\ n = used.sends /\ t = n + 1 /\ s = rooms'[r].messages /\ log = Log(r)
  OBVIOUS
<1>3. Held(list, r) = w
  BY UnreadIsNoTalk DEF Held
<1>4. OneMore(w, s, Question(t))
  <2>1. s = w \o <<Question(t)>> /\ IsList(w)
    BY <1>1, <1>2, <1>3 DEF IsTalk
  <2>2. QED BY <2>1, OneMoreConcat
<1>5. n \in Nat /\ IsLog(log, n)
  <2>1. used.sends \in Nat /\ LogForms
    BY DEF Inv, Shape, UsedInv, UsedNames, TalkInv
  <2>2. IsLog(Log(r), used.sends)
    BY <2>1, RoomThreads DEF LogForms, Log
  <2>3. QED BY <1>2, <2>1, <2>2, Zenon
<1>6. /\ IsTalk(s) /\ ~ HoldsQuestion(log, t) /\ IsLastQuestion(s, t)
      /\ AskedTurns(w, n) => AskedTurns(s, n + 1)
      /\ \E q \in Questions(s) : s[q].turn = t
      /\ Total(s) = Total(w) + 1 /\ Total(w) \in Nat /\ Total(log) \in Nat
      /\ Shows(w, log) => Shows(s, log) /\ LastAsked(s, log)
      /\ Remembers(w, log) => Remembers(s, log)
      /\ SameAnswers(w, log) => SameAnswers(s, log)
  <2>1. n \in Nat /\ IsLog(log, n) /\ t = n + 1
    BY <1>2, <1>5
  <2>2. Asks(w, s, log, n, t)
    BY <1>4, <2>1 DEF Asks
  <2>3. QED BY ONLY <2>2, NewQuestion, Zenon
<1>7. s # Unread
  BY <1>6, UnreadIsNoTalk
<1>8. /\ Words(r)' = s /\ Log(r)' = log /\ ~ Cutting(r)' /\ Asking(r)'
      /\ turn'.turn = t /\ turn'.phase = "asking" /\ turn'.room = r /\ turn'.thread = rooms'[r].thread
      /\ turn' # NoTurn
  <2>1. turn'.phase = "asking" /\ turn'.room = r /\ turn'.turn = t /\ turn'.thread = rooms[r].thread
    BY <1>1, <1>2
  <2>2. turn' # NoTurn
    <3>1. NoTurn.phase = "none"
      BY DEF NoTurn
    <3>2. QED BY <2>1, <3>1
  <2>3. QED BY <1>1, <1>2, <2>1, <2>2 DEF Words, Log, Cutting, Asking, NoEdit
<1>9. Seen(r)' = s /\ Told(r)' = s
  BY <1>8 DEF Seen, Told
<1>10. RoomTalk(r)'
  <2>1. RoomKept(r)'
    BY <1>2, <1>6, <1>8, <1>9 DEF RoomKept, Clean
  <2>2. RoomForgotten(r)'
    <3>1. Total(w) <= Total(log) => Total(s) <= Total(log) + 1
      <4>1. Total(s) = Total(w) + 1 /\ Total(w) \in Nat /\ Total(log) \in Nat
        BY <1>6
      <4>2. QED BY ONLY <4>1
    <3>2. QED BY <1>2, <1>6, <1>8, <1>9, <3>1 DEF RoomForgotten, Clean
  <2>3. RoomCounted(r)'
    BY <1>2, <1>6, <1>8, <1>9 DEF RoomCounted, Clean
  <2>4. QED BY <2>1, <2>2, <2>3 DEF RoomTalk
<1>11. TurnForms'
  <2>1. IsTurn(turn)'
    <3>1. IsTurn(turn')
      BY <1>1 DEF IsTurn
    <3>2. QED BY <3>1 DEF IsTurn
  <2>2. turn'.turn \in 1..used'.sends
    <3>1. turn'.turn = n + 1 /\ used'.sends = n + 1 /\ n \in Nat
      BY <1>1, <1>2, <1>5, <1>8
    <3>2. QED BY ONLY <3>1
  <2>3. QED BY <1>1, <1>6, <1>7, <1>8, <2>1, <2>2 DEF TurnForms
<1>12. EditForms'
  BY DEF EditForms
<1>13. Touches(r)
  <2>1. "overlap" \notin harmed
    OBVIOUS
  <2>2. used'.sends \in Nat /\ used.sends <= used'.sends
    <3>1. used.sends = n /\ used'.sends = n + 1 /\ n \in Nat
      BY <1>1, <1>2, <1>5
    <3>2. QED BY ONLY <3>1
  <2>3. QED BY <1>1, <1>8, <2>1, <2>2, HistoryForms DEF Touches
<1>14. WellForm(r)
  <2>1. IsLog(log, used'.sends)
    <3>1. IsLog(log, n) /\ used'.sends = n + 1 /\ n \in Nat /\ n + 1 \in Nat /\ n <= n + 1
      <4>1. IsLog(log, n) /\ used'.sends = n + 1 /\ n \in Nat
        BY <1>1, <1>2, <1>5
      <4>2. n + 1 \in Nat /\ n <= n + 1
        <5>1. n \in Nat
          BY <1>5
        <5>2. QED BY ONLY <5>1
      <4>3. QED BY ONLY <4>1, <4>2, Zenon
    <3>2. QED BY ONLY <3>1, LogLater
  <2>2. AskedTurns(s, used'.sends)
    <3>1. AskedTurns(w, n)
      BY <1>2
    <3>2. AskedTurns(s, n + 1)
      BY ONLY <1>6, <3>1
    <3>3. used'.sends = n + 1
      BY <1>1, <1>2
    <3>4. QED BY ONLY <3>2, <3>3, Zenon
  <2>3. QED BY <1>1, <1>2, <1>6, <1>7, <2>1, <2>2 DEF WellForm, Log
<1>15. QED BY <1>10, <1>11, <1>12, <1>13, <1>14, TouchedTalk

\* A room the page reads or is asked about is not waiting for its messages.
LEMMA IdleRoom ==
    ASSUME BoundsAssumption, Inv, TalkInv, "overlap" \notin harmed, loaded.rooms, "overlap" \notin Overlap
    PROVE  /\ edit = NoEdit /\ active \in DOMAIN rooms /\ ~ rooms[active].restoring
           /\ IsTalk(Words(active)) /\ Words(active) # Unread /\ Held(rooms, active) = Words(active)
           /\ RoomTalk(active) /\ LogForms /\ AskedTurns(Words(active), used.sends)
<1>1. active \in DOMAIN rooms /\ TalkForms /\ LogForms /\ \A r \in DOMAIN rooms : RoomTalk(r)
  BY DEF Inv, Shape, PageInv, TalkInv
<1>2. edit = NoEdit /\ ~ rooms[active].restoring
  BY <1>1 DEF Overlap
<1>3. Words(active) # Unread
  BY <1>1, <1>2 DEF TalkForms, Words
<1>4. IsTalk(Words(active)) /\ AskedTurns(Words(active), used.sends)
  BY <1>1, <1>3 DEF TalkForms
<1>5. QED BY <1>1, <1>2, <1>3, <1>4 DEF Held, Words

LEMMA SendTalk ==
    ASSUME BoundsAssumption, Inv, TalkInv, "overlap" \notin harmed', Send
    PROVE  TalkInv'
<1>1. /\ loaded.rooms /\ turn = NoTurn /\ UNCHANGED <<history, active, loaded, edit>>
      /\ SendMessage(active, rooms[active].thread, rooms, <<>>) /\ Harm(Overlap)
  BY DEF Send, Idle, server
<1>2. harmed \subseteq harmed' /\ "overlap" \notin Overlap /\ "overlap" \notin harmed
  BY <1>1 DEF Harm
<1>3. /\ edit = NoEdit /\ active \in DOMAIN rooms /\ ~ rooms[active].restoring
      /\ IsTalk(Words(active)) /\ Words(active) # Unread /\ RoomTalk(active)
      /\ AskedTurns(Words(active), used.sends)
  BY <1>1, <1>2, IdleRoom
<1>4. PICK r, w, writes : r = active /\ w = Words(active) /\ writes = <<>>
  OBVIOUS
<1>5. RoomForms(rooms)
  BY DEF Inv, Shape, PageInv
<1>6. ~ Cutting(r) /\ ~ Asking(r)
  BY <1>1, <1>3 DEF Cutting, Asking, NoEdit
<1>7. Seen(r) = w /\ Told(r) = w
  BY <1>4, <1>6 DEF Seen, Told
<1>8. RoomKept(r) /\ RoomForgotten(r) /\ RoomCounted(r)
  BY <1>3, <1>4 DEF RoomTalk
<1>9. Clean({"repeated", "late", "halfcut", "unrestored", "mixed", "overlap"})' => Shows(w, Log(r))
  BY <1>2, <1>7, <1>8 DEF Clean, RoomKept
<1>10. Clean({"unstored", "halfcut", "unrestored", "mixed", "overlap"})' =>
           Remembers(w, Log(r)) /\ Total(w) <= Total(Log(r))
  BY <1>2, <1>6, <1>7, <1>8 DEF Clean, RoomForgotten
<1>11. Clean({"answers", "stale mark", "overlap"})' => SameAnswers(w, Log(r))
  BY <1>2, <1>6, <1>7, <1>8 DEF Clean, RoomCounted
<1>12. /\ SendMessage(r, rooms[r].thread, rooms, writes) /\ r \in DOMAIN rooms /\ IsTalk(w)
       /\ rooms[r].messages = w /\ ~ rooms[r].restoring /\ edit' = NoEdit
       /\ AskedTurns(w, used.sends)
  BY <1>1, <1>3, <1>4 DEF Words
<1>13. QED BY <1>1, <1>2, <1>3, <1>5, <1>9, <1>10, <1>11, <1>12, AskTalk

LEMMA EditFacts ==
    ASSUME BoundsAssumption, Inv, TalkInv, "overlap" \notin harmed, edit # NoEdit
    PROVE  /\ loaded.marks /\ loaded.rooms /\ turn = NoTurn
           /\ edit.room \in DOMAIN rooms /\ edit.thread = rooms[edit.room].thread
           /\ edit.thread \in Thread /\ IsLog(history[edit.thread], used.sends)
           /\ Words(edit.room) = edit.messages /\ edit.messages # Unread /\ IsTalk(edit.messages)
           /\ ~ rooms[edit.room].restoring
           /\ edit.k \in Nat /\ edit.k < Total(edit.messages)
           /\ AskedTurns(edit.messages, used.sends)
           /\ RoomTalk(edit.room) /\ Log(edit.room) = history[edit.thread]
<1>1. TurnForms /\ EditForms /\ LogForms /\ TalkForms /\ \A x \in DOMAIN rooms : RoomTalk(x)
  BY DEF TalkInv
<1>2. /\ loaded.marks /\ edit.room \in DOMAIN rooms /\ edit.thread = rooms[edit.room].thread
      /\ Words(edit.room) = edit.messages /\ edit.messages # Unread
      /\ edit.k \in Nat /\ edit.k < Total(edit.messages)
  BY <1>1 DEF EditForms
<1>3. turn = NoTurn /\ loaded.rooms
  BY <1>1 DEF TurnForms, Inv, Shape, PageInv
<1>4. /\ IsTalk(edit.messages) /\ ~ rooms[edit.room].restoring
      /\ AskedTurns(edit.messages, used.sends)
  BY <1>1, <1>2 DEF TalkForms
<1>5. edit.thread \in Thread
  BY <1>2, RoomThreads
<1>6. IsLog(history[edit.thread], used.sends) /\ Log(edit.room) = history[edit.thread]
  BY <1>1, <1>2, <1>5 DEF LogForms, Log
<1>7. QED BY <1>1, <1>2, <1>3, <1>4, <1>5, <1>6

LEMMA FinishEditTalk ==
    ASSUME BoundsAssumption, Inv, TalkInv, "overlap" \notin harmed', FinishEdit
    PROVE  TalkInv'
<1> DEFINE kept == KeptMessages(edit.messages, edit.k)
           left == Cardinality(Answers(kept))
<1>1. /\ edit.phase = "done" /\ turn = NoTurn /\ edit' = NoEdit
      /\ \E writes : SendMessage(edit.room, edit.thread, WithMessages(rooms, edit.room, kept), writes)
      /\ UNCHANGED <<history, active, loaded>>
      /\ Harm(IF left = edit.left THEN {} ELSE {"answers"})
  BY DEF FinishEdit, server
<1>2. edit # NoEdit
  BY <1>1 DEF NoEdit
<1>3. harmed \subseteq harmed' /\ (left # edit.left => "answers" \in harmed') /\ "overlap" \notin harmed
  BY <1>1 DEF Harm
<1> HIDE DEF kept
<1>4. PICK r, w, list, k : /\ r = edit.room /\ w = kept /\ list = WithMessages(rooms, r, w)
                           /\ k = edit.k
  OBVIOUS
<1>5. /\ r \in DOMAIN rooms /\ edit.thread = rooms[r].thread
      /\ IsLog(Log(r), used.sends) /\ Words(r) = edit.messages /\ IsTalk(Words(r)) /\ Words(r) # Unread
      /\ ~ rooms[r].restoring /\ k \in Nat /\ RoomTalk(r) /\ AskedTurns(Words(r), used.sends)
  BY <1>2, <1>3, <1>4, EditFacts
<1>6. RoomForms(rooms) /\ RoomForms(list)
  BY <1>4, MessagesRows, SameRowsForms DEF Inv, Shape, PageInv
<1>7. w = Before(Words(r), k)
  BY <1>4, <1>5 DEF kept, KeptMessages
<1>8. IsTalk(w) /\ IsList(w) /\ IsList(Log(r)) /\ AskedTurns(w, used.sends)
  <2>1. IsList(Words(r)) /\ IsList(Log(r))
    BY <1>5 DEF IsTalk, IsLog
  <2>2. Prefix(w, Words(r))
    BY <1>5, <1>7, <2>1, BeforeFacts
  <2>3. QED BY <1>5, <2>1, <2>2, TalkCut, TurnsCut DEF Prefix
<1>9. /\ DOMAIN list = DOMAIN rooms /\ list[r].messages = w /\ list[r].restoring = rooms[r].restoring
      /\ list[r].thread = rooms[r].thread /\ \A x \in DOMAIN rooms \ {r} : list[x] = rooms[x]
  BY <1>4, <1>5, <1>6, WithWords
<1>10. Cutting(r) /\ ~ Asking(r) /\ Seen(r) = w
  BY <1>1, <1>4, <1>7 DEF Cutting, Asking, Seen
<1>11. RoomKept(r) /\ RoomForgotten(r) /\ RoomCounted(r)
  BY <1>5 DEF RoomTalk
<1>12. Clean({"repeated", "late", "halfcut", "unrestored", "mixed", "overlap"})' => Shows(w, Log(r))
  BY <1>3, <1>10, <1>11 DEF Clean, RoomKept
<1>13. Clean({"unstored", "halfcut", "unrestored", "mixed", "overlap"})' =>
           Remembers(w, Log(r)) /\ Total(w) <= Total(Log(r))
  BY <1>3, <1>10, <1>11 DEF Clean, RoomForgotten
<1>14. Clean({"answers", "stale mark", "overlap"})' => SameAnswers(w, Log(r))
  <2> HAVE Clean({"answers", "stale mark", "overlap"})'
  <2>1. Clean({"answers", "stale mark", "overlap"}) /\ left = edit.left
    BY <1>3 DEF Clean
  <2>2. SameBy(w, Log(r)) /\ edit.left = Cardinality(Answers(Log(r)))
    BY <1>10, <1>11, <2>1 DEF RoomCounted
  <2>3. left = Cardinality(Answers(w))
    BY <1>4
  <2>4. QED BY <2>1, <2>2, <2>3 DEF SameAnswers
<1>15. PICK writes : SendMessage(r, rooms[r].thread, list, writes)
  BY <1>1, <1>4, <1>5
<1>16. /\ \A x \in DOMAIN rooms : list[x].thread = rooms[x].thread
       /\ ~ list[r].restoring /\ (edit = NoEdit \/ edit.room = r)
  BY <1>4, <1>5, <1>9
<1>17. QED BY <1>1, <1>3, <1>5, <1>6, <1>8, <1>9, <1>12, <1>13, <1>14, <1>15, <1>16, AskTalk

-----------------------------------------------------------------------------
(* Questions asked again.                                                   *)

LEMMA TurnsEmbedded ==
    ASSUME NEW f, NEW list, NEW list2, NEW n, Embeds(f, list2, list), AskedTurns(list, n)
    PROVE  /\ AskedTurns(list2, n)
           /\ \A t : (\E q \in Questions(list) : list[q].turn = t) =>
                  \E q \in Questions(list2) : list2[q].turn = t
<1>1. /\ \A i \in DOMAIN list2 : /\ f[i] \in DOMAIN list /\ list2[i] = list[f[i]]
                                 /\ i \in Questions(list2) <=> f[i] \in Questions(list)
      /\ \A j \in Questions(list) : \E i \in DOMAIN list2 : j = f[i]
  BY EmbedsFacts
<1>2. Questions(list2) \subseteq DOMAIN list2
  BY DEF Questions
<1>3. QED BY <1>1, <1>2 DEF AskedTurns

LEMMA BubbleGone ==
    ASSUME NEW words, NEW text, IsTalk(words)
    PROVE  \E f : Embeds(f, WithoutBubble(words, text), words)
<1> DEFINE S == {i \in DOMAIN words : words[i].role = "error" => words[i].text # text}
<1>1. IsList(words) /\ S \in SUBSET DOMAIN words
  BY DEF IsTalk
<1>2. Questions(words) \subseteq S /\ Answers(words) \subseteq S
  BY DEF Questions, Answers
<1>3. WithoutBubble(words, text) = Filtered(words, S)
  BY DEF WithoutBubble
<1> HIDE DEF S
<1>4. QED BY <1>1, <1>2, <1>3, FilteredEmbeds

LEMMA RetryErrorTalk ==
    ASSUME BoundsAssumption, Inv, TalkInv, "overlap" \notin harmed',
           NEW i \in DOMAIN Shown, Shown[i].role = "error", RetryError(Shown[i])
    PROVE  TalkInv'
<1>1. PICK r, b, words, w, log, n : /\ r = active /\ b = Shown[i] /\ words = Words(active)
                                    /\ w = WithoutBubble(Held(rooms, active), b.text)
                                    /\ log = Log(active) /\ n = used.sends
  OBVIOUS
<1>2. /\ loaded.rooms /\ turn = NoTurn /\ UNCHANGED <<history, active, loaded, edit>>
      /\ rooms' = WithMessages(rooms, r, w) /\ StartTurn(r, rooms[r].thread, b.turn)
      /\ used' = [used EXCEPT !.turns = @ + 1, !.attempts = @ + 1]
      /\ Harm(Overlap \cup IF IsLastQuestion(Held(rooms, r), b.turn) THEN {} ELSE {"late"})
  BY <1>1 DEF RetryError, Idle, server
<1>3. /\ harmed \subseteq harmed' /\ "overlap" \notin Overlap /\ "overlap" \notin harmed
      /\ ("late" \notin harmed' => IsLastQuestion(Held(rooms, r), b.turn))
  BY <1>2 DEF Harm
<1>4. /\ edit = NoEdit /\ r \in DOMAIN rooms /\ ~ rooms[r].restoring
      /\ IsTalk(words) /\ words # Unread /\ RoomTalk(r) /\ Held(rooms, r) = words
      /\ AskedTurns(words, n) /\ LogForms /\ words = Words(r) /\ log = Log(r)
  BY <1>1, <1>2, <1>3, IdleRoom
<1>5. PICK f : Embeds(f, w, words)
  BY <1>1, <1>4, BubbleGone
<1>6. IsTalk(w) /\ AskedTurns(w, n) /\ w # Unread
  BY <1>4, <1>5, TalkEmbedded, TurnsEmbedded, UnreadIsNoTalk
<1>7. /\ \E q \in Questions(words) : words[q].turn = b.turn
      /\ \E q \in Questions(w) : w[q].turn = b.turn
      /\ b.turn \in 1..n
  <2>1. i \in DOMAIN words /\ words[i].role = "error" /\ b = words[i]
    BY <1>1, <1>4 DEF Shown, Words
  <2>2. \E q \in Questions(words) : words[q].turn = b.turn
    BY <1>4, <2>1 DEF IsTalk
  <2>3. \A t : (\E q \in Questions(words) : words[q].turn = t) => \E q \in Questions(w) : w[q].turn = t
    BY ONLY <1>4, <1>5, TurnsEmbedded
  <2>4. \E q \in Questions(w) : w[q].turn = b.turn
    BY ONLY <2>2, <2>3
  <2>5. b.turn \in 1..n
    BY ONLY <1>4, <2>2 DEF AskedTurns
  <2>6. QED BY <2>2, <2>4, <2>5
<1>8. /\ turn' = [phase |-> "asking", room |-> r, thread |-> rooms[r].thread, turn |-> b.turn,
                  by |-> used.attempts + 1, tries |-> 0, heard |-> FALSE]
  BY <1>2 DEF StartTurn
<1>9. turn'.phase = "asking" /\ turn'.room = r /\ turn'.turn = b.turn /\ turn'.thread = rooms[r].thread
      /\ turn' # NoTurn
  <2>1. turn'.phase = "asking" /\ turn'.room = r /\ turn'.turn = b.turn /\ turn'.thread = rooms[r].thread
    BY <1>8
  <2>2. NoTurn.phase = "none"
    BY DEF NoTurn
  <2>3. QED BY <2>1, <2>2
<1>10. /\ DOMAIN rooms' = DOMAIN rooms /\ rooms'[r].messages = w /\ rooms'[r].thread = rooms[r].thread
       /\ rooms'[r].restoring = rooms[r].restoring
       /\ \A x \in DOMAIN rooms \ {r} : rooms'[x] = rooms[x]
  <2>1. RoomForms(rooms)
    BY DEF Inv, Shape, PageInv
  <2>2. QED BY <1>2, <1>4, <2>1, WithWords
<1>11. /\ Words(r)' = w /\ Log(r)' = log /\ ~ Cutting(r)' /\ Asking(r)' /\ ~ Cutting(r) /\ ~ Asking(r)
  BY <1>2, <1>4, <1>9, <1>10 DEF Words, Log, Cutting, Asking, NoEdit
<1>12. Seen(r)' = w /\ Told(r)' = w /\ Seen(r) = words /\ Told(r) = words
  BY <1>4, <1>9, <1>11 DEF Seen, Told
<1>13. RoomKept(r) /\ RoomForgotten(r) /\ RoomCounted(r)
  BY <1>4 DEF RoomTalk
<1>14. RoomTalk(r)'
  <2>1. RoomKept(r)'
    <3> SUFFICES ASSUME Clean({"repeated", "late", "halfcut", "unrestored", "mixed", "overlap"})'
                 PROVE  Shows(w, log) /\ LastAsked(w, log) /\ IsLastQuestion(w, b.turn)
      BY <1>9, <1>11, <1>12 DEF RoomKept
    <3>1. "late" \notin harmed' /\ Clean({"repeated", "late", "halfcut", "unrestored", "mixed", "overlap"})
      BY <1>3 DEF Clean
    <3>2. Shows(words, log) /\ LastAsked(words, log) /\ IsLastQuestion(words, b.turn)
      BY <1>3, <1>4, <1>11, <1>12, <1>13, <3>1 DEF RoomKept
    <3>3. QED BY <1>5, <3>2, ShowsEmbedded, LastAskedEmbedded, IsLastEmbedded
  <2>2. RoomForgotten(r)'
    <3> SUFFICES ASSUME Clean({"unstored", "halfcut", "unrestored", "mixed", "overlap"})'
                 PROVE  Remembers(w, log) /\ Total(w) <= Total(log)
      BY <1>11, <1>12 DEF RoomForgotten
    <3>1. Clean({"unstored", "halfcut", "unrestored", "mixed", "overlap"})
      BY <1>3 DEF Clean
    <3>2. Remembers(words, log) /\ Total(words) <= Total(log)
      BY <1>4, <1>11, <1>12, <1>13, <3>1 DEF RoomForgotten
    <3>3. Total(w) = Total(words)
      BY <1>5, EmbedsFacts
    <3>4. QED BY <1>5, <3>2, <3>3, RemembersEmbedded
  <2>3. RoomCounted(r)'
    <3> SUFFICES ASSUME Clean({"answers", "stale mark", "overlap"})'
                 PROVE  SameAnswers(w, log)
      BY <1>11, <1>12 DEF RoomCounted
    <3>1. Clean({"answers", "stale mark", "overlap"})
      BY <1>3 DEF Clean
    <3>2. SameAnswers(words, log)
      BY <1>4, <1>11, <1>12, <1>13, <3>1 DEF RoomCounted
    <3>3. SameAnswers(w, words)
      BY <1>5, SameAnswersEmbedded
    <3>4. IsList(w) /\ IsList(words)
      BY <1>4, <1>6 DEF IsTalk
    <3>5. IsList(log)
      BY <1>4, RoomThreads DEF LogForms, Log, IsLog
    <3>6. QED BY <3>2, <3>3, <3>4, <3>5, SameAnswersThen
  <2>4. QED BY <2>1, <2>2, <2>3 DEF RoomTalk
<1>15. Spent
  BY <1>2 DEF Spent, StartTurn
<1>16. used'.sends = used.sends
  <2>1. used \in UsedNames
    BY DEF Inv, Shape, UsedInv
  <2>2. used' = [threads |-> used.threads, turns |-> used.turns + 1, sends |-> used.sends,
              attempts |-> used.attempts + 1, marks |-> used.marks, changes |-> used.changes,
              reloads |-> used.reloads, faults |-> used.faults]
    BY <1>2, <2>1 DEF UsedNames
  <2>3. QED BY <2>2
<1>17. TurnForms'
  <2>1. IsTurn(turn)'
    <3>1. IsTurn(turn')
      BY <1>8 DEF IsTurn
    <3>2. QED BY <3>1 DEF IsTurn
  <2>2. turn'.turn \in 1..used'.sends
    BY <1>1, <1>7, <1>9, <1>16
  <2>3. QED BY <1>2, <1>4, <1>6, <1>7, <1>9, <1>10, <1>11, <2>1, <2>2 DEF TurnForms
<1>18. EditForms'
  BY <1>2, <1>4 DEF EditForms
<1>19. Touches(r)
  BY <1>2, <1>3, <1>4, <1>9, <1>10, <1>15, HistoryForms, SendsGrow DEF Touches
<1>20. WellForm(r)
  <2>1. IsLog(log, used'.sends)
    BY <1>4, <1>16, RoomThreads DEF LogForms, Log
  <2>2. AskedTurns(w, used'.sends)
    BY <1>1, <1>6, <1>16
  <2>3. QED BY <1>2, <1>4, <1>6, <1>10, <2>1, <2>2 DEF WellForm, Log
<1>21. QED BY <1>14, <1>17, <1>18, <1>19, <1>20, TouchedTalk

-----------------------------------------------------------------------------
(* What the server stores of a turn.                                        *)

LEMMA LogMore ==
    ASSUME NEW log, NEW log2, NEW x, NEW n, OneMore(log, log2, x), IsLog(log, n),
           x.role \in {"user", "agent"}, x.role = "user" => x = Question(x.turn),
           x.turn \in 1..n,
           x.role = "agent" => \E q \in Questions(log) : log[q].turn = x.turn
    PROVE  IsLog(log2, n)
<1>1. /\ IsList(log2) /\ log2[Len(log) + 1] = x
      /\ \A i \in DOMAIN log : log2[i] = log[i] /\ i < Len(log) + 1
      /\ Questions(log) \subseteq Questions(log2)
      /\ Answers(log2) = Answers(log) \cup (IF x.role = "agent" THEN {Len(log) + 1} ELSE {})
      /\ DOMAIN log2 = DOMAIN log \cup {Len(log) + 1}
  BY OneMoreFacts DEF OneMore
<1>2. /\ IsList(log)
      /\ \A i \in DOMAIN log : /\ log[i].role \in {"user", "agent"}
                               /\ log[i].role = "user" => log[i] = Question(log[i].turn)
                               /\ log[i].turn \in 1..n
      /\ \A i \in Answers(log) : \E q \in Questions(log) : q < i /\ log[q].turn = log[i].turn
  BY DEF IsLog
<1>3. Questions(log) \subseteq DOMAIN log /\ Answers(log) \subseteq DOMAIN log
  BY DEF Questions, Answers
<1>4. ASSUME NEW i \in Answers(log2)
      PROVE  \E q \in Questions(log2) : q < i /\ log2[q].turn = log2[i].turn
  <2>1. CASE i \in Answers(log)
    <3>1. PICK q \in Questions(log) : q < i /\ log[q].turn = log[i].turn
      BY <1>2, <2>1
    <3>2. log2[q] = log[q] /\ log2[i] = log[i] /\ q \in Questions(log2)
      BY <1>1, <1>3, <2>1
    <3>3. QED BY <3>1, <3>2
  <2>2. CASE i \notin Answers(log)
    <3>1. i = Len(log) + 1 /\ x.role = "agent"
      BY <1>1, <2>2
    <3>2. PICK q \in Questions(log) : log[q].turn = x.turn
      BY <3>1
    <3>3. log2[q] = log[q] /\ q < Len(log) + 1 /\ q \in Questions(log2)
      BY <1>1, <1>3
    <3>4. QED BY <1>1, <3>1, <3>2, <3>3
  <2>3. QED BY <2>1, <2>2
<1>5. \A i \in DOMAIN log2 : /\ log2[i].role \in {"user", "agent"}
                             /\ log2[i].role = "user" => log2[i] = Question(log2[i].turn)
                             /\ log2[i].turn \in 1..n
  BY <1>1, <1>2
<1>6. QED BY <1>1, <1>4, <1>5 DEF IsLog

\* The last question shown, t, is stored after log.
Stores(list, log, log2, t) ==
    /\ IsList(list) /\ IsList(log) /\ OneMore(log, log2, Question(t))
    /\ \E q \in Questions(list) : list[q].turn = t

LEMMA QuestionStored ==
    ASSUME NEW list, NEW log, NEW log2, NEW t, Stores(list, log, log2, t)
    PROVE  /\ HoldsQuestion(log2, t) /\ Total(log2) = Total(log) + 1 /\ Total(log) \in Nat
           /\ /\ Shows(list, log) /\ LastAsked(list, log) /\ IsLastQuestion(list, t)
              /\ ~ HoldsQuestion(log, t)
              => Shows(list, log2) /\ LastAsked(list, log2)
           /\ Remembers(list, log) /\ Total(list) <= Total(log) + 1 => Remembers(list, log2)
           /\ SameAnswers(list, log) => SameAnswers(list, log2)
<1> DEFINE x == Len(log) + 1
<1>1. /\ IsList(log2) /\ Prefix(log, log2) /\ x \in DOMAIN log2 /\ log2[x] = Question(t)
      /\ Questions(log2) = Questions(log) \cup {x} /\ Answers(log2) = Answers(log)
      /\ Total(log2) = Total(log) + 1 /\ Asked(log2, x) = Total(log2)
  <2>1. OneMore(log, log2, Question(t)) /\ Question(t).role = "user"
    BY QuestionFacts DEF Stores
  <2>2. PICK y : y = Question(t)
    OBVIOUS
  <2>3. OneMore(log, log2, y)
    BY <2>1, <2>2
  <2>4. /\ IsList(log2) /\ Prefix(log, log2)
        /\ Len(log) + 1 \in DOMAIN log2 \ DOMAIN log /\ log2[Len(log) + 1] = y
        /\ Questions(log2) = Questions(log) \cup (IF y.role = "user" THEN {Len(log) + 1} ELSE {})
        /\ Answers(log2) = Answers(log) \cup (IF y.role = "agent" THEN {Len(log) + 1} ELSE {})
        /\ Total(log2) = Total(log) + (IF y.role = "user" THEN 1 ELSE 0)
        /\ Asked(log2, Len(log) + 1) = Total(log2)
    BY ONLY <2>3, OneMoreFacts
  <2>5. QED BY <2>1, <2>2, <2>4
<1> HIDE DEF x
<1>2. /\ IsList(list) /\ IsList(log) /\ Total(list) \in Nat /\ Total(log) \in Nat
  BY Positions DEF Stores
<1>3. PICK q \in Questions(list) : list[q].turn = t
  BY DEF Stores
<1>4. Questions(log) \subseteq DOMAIN log /\ Answers(log) \subseteq DOMAIN log
  BY DEF Questions, Answers
<1>5. HoldsQuestion(log2, t)
  BY <1>1 DEF HoldsQuestion
<1>6. /\ Shows(list, log) /\ LastAsked(list, log) /\ IsLastQuestion(list, t)
      /\ ~ HoldsQuestion(log, t)
      => Shows(list, log2) /\ LastAsked(list, log2)
  <2> SUFFICES ASSUME Shows(list, log), LastAsked(list, log), IsLastQuestion(list, t),
                      ~ HoldsQuestion(log, t)
               PROVE  Shows(list, log2) /\ LastAsked(list, log2)
    OBVIOUS
  <2>1. Total(log) < Total(list)
    BY DEF IsLastQuestion, LastAsked
  <2>2. Total(log2) <= Total(list)
    BY ONLY <2>1, <1>1, <1>2
  <2>3. QED BY <1>1, <1>2, <1>5, <2>2, ShowsLonger, LastAskedHeld
<1>7. ASSUME Remembers(list, log), Total(list) <= Total(log) + 1 PROVE Remembers(list, log2)
  <2>1. Asked(list, q) \in Nat /\ Asked(list, q) <= Total(list)
    <3>1. q \in DOMAIN list
      BY DEF Questions
    <3>2. QED BY <1>2, <3>1, AskedFacts
  <2>2. Asked(list, q) <= Asked(log2, x)
    BY ONLY <1>1, <1>2, <1>7, <2>1
  <2>3. log2[x].turn = t
    BY <1>1, QuestionFacts
  <2>4. \A j \in Questions(log2) \ DOMAIN log : \E i \in Questions(list) :
            list[i].turn = log2[j].turn /\ Asked(list, i) <= Asked(log2, j)
    <3>1. \A j \in Questions(log2) \ DOMAIN log : j = x
      BY <1>1, <1>4
    <3>2. QED BY <1>3, <2>2, <2>3, <3>1
  <2>5. QED BY <1>1, <1>2, <1>7, <2>4, RemembersLonger
<1>8. ASSUME SameAnswers(list, log) PROVE SameAnswers(list, log2)
  <2>1. SameAnswers(log2, log)
    BY <1>1, <1>4, SameAnswersMore
  <2>2. SameAnswers(log, log2)
    BY <2>1, SameAnswersBack
  <2>3. QED BY <1>1, <1>2, <1>8, <2>2, SameAnswersThen
<1>9. QED BY <1>1, <1>2, <1>5, <1>6, <1>7, <1>8

LEMMA StoreQuestionTalk ==
    ASSUME BoundsAssumption, Inv, TalkInv, "overlap" \notin harmed', StoreQuestion
    PROVE  TalkInv'
<1>1. PICK r, t, list, log, log2, n :
          /\ r = turn.room /\ t = turn.turn /\ list = Words(turn.room)
          /\ log = history[turn.thread] /\ log2 = Append(history[turn.thread], Question(turn.turn))
          /\ n = used.sends
  OBVIOUS
<1>2. /\ turn.phase = "asking" /\ UNCHANGED <<rooms, active, loaded, edit, used>>
      /\ history' = [history EXCEPT ![turn.thread] = log2]
      /\ turn' = [turn EXCEPT !.phase = "answering"]
      /\ Harm(IF HoldsQuestion(log, t) THEN {"repeated"} ELSE {})
  BY <1>1 DEF StoreQuestion, page
<1>3. /\ turn # NoTurn /\ harmed \subseteq harmed' /\ "overlap" \notin harmed
      /\ ("repeated" \notin harmed' => ~ HoldsQuestion(log, t))
  BY <1>2 DEF NoTurn, Harm
<1>4. /\ IsTurn(turn) /\ edit = NoEdit /\ r \in DOMAIN rooms /\ turn.thread = rooms[r].thread
      /\ turn.thread \in Thread /\ IsLog(log, n) /\ t \in 1..n
      /\ IsTalk(list) /\ ~ rooms[r].restoring /\ AskedTurns(list, n) /\ list # Unread
      /\ \E q \in Questions(list) : list[q].turn = t
      /\ RoomTalk(r) /\ Words(r) = list /\ Log(r) = log
  BY <1>1, <1>3, TurnFacts
<1>5. turn' = [phase |-> "answering", room |-> r, thread |-> turn.thread,
               turn |-> t, by |-> turn.by, tries |-> turn.tries, heard |-> turn.heard]
  BY <1>1, <1>2, <1>4, TurnExcept
<1>6. /\ IsTurn(turn') /\ turn'.room = r /\ turn'.turn = t /\ turn'.phase = "answering"
      /\ turn'.thread = turn.thread /\ turn' # NoTurn
  <2>1. /\ turn'.room = r /\ turn'.turn = t /\ turn'.phase = "answering"
        /\ turn'.thread = turn.thread /\ turn'.heard = turn.heard
    BY <1>5
  <2>2. NoTurn.phase = "none" /\ turn.heard \in BOOLEAN
    BY <1>4 DEF NoTurn, IsTurn
  <2>3. QED BY <1>5, <2>1, <2>2 DEF IsTurn
<1>7. /\ DOMAIN history' = Thread /\ history' = [x \in Thread |-> history'[x]]
      /\ history'[turn.thread] = log2
      /\ \A x \in Thread \ {turn.thread} : history'[x] = history[x]
  BY <1>2, <1>3, <1>4, HistoryForms
<1>8. Words(r)' = list /\ Log(r)' = log2
  BY <1>2, <1>4, <1>7 DEF Words, Log
<1>9. /\ ~ Cutting(r) /\ ~ Cutting(r)' /\ Asking(r) /\ Asking(r)'
  BY <1>1, <1>2, <1>3, <1>4, <1>6 DEF Cutting, Asking, NoEdit
<1>10. Seen(r)' = list /\ Told(r)' = list /\ Seen(r) = list /\ Told(r) = list
  BY <1>2, <1>4, <1>6, <1>8, <1>9 DEF Seen, Told
<1>11. IsList(list) /\ IsList(log)
  BY <1>4 DEF IsTalk, IsLog
<1>12. OneMore(log, log2, Question(t))
  BY <1>1, <1>11, OneMoreAppend
<1>13. Stores(list, log, log2, t)
  BY <1>4, <1>11, <1>12 DEF Stores
<1>14. RoomKept(r) /\ RoomForgotten(r) /\ RoomCounted(r)
  BY <1>4 DEF RoomTalk
<1>15. /\ HoldsQuestion(log2, t) /\ Total(log2) = Total(log) + 1 /\ Total(log) \in Nat
       /\ /\ Shows(list, log) /\ LastAsked(list, log) /\ IsLastQuestion(list, t)
          /\ ~ HoldsQuestion(log, t)
          => Shows(list, log2) /\ LastAsked(list, log2)
       /\ Remembers(list, log) /\ Total(list) <= Total(log) + 1 => Remembers(list, log2)
       /\ SameAnswers(list, log) => SameAnswers(list, log2)
  BY ONLY <1>13, QuestionStored
<1>16. RoomTalk(r)'
  <2>1. RoomKept(r)'
    <3> SUFFICES ASSUME Clean({"repeated", "late", "halfcut", "unrestored", "mixed", "overlap"})'
                 PROVE  Shows(list, log2) /\ LastAsked(list, log2) /\ IsLastQuestion(list, t)
      BY <1>6, <1>8, <1>10 DEF RoomKept
    <3>1. "repeated" \notin harmed' /\ Clean({"repeated", "late", "halfcut", "unrestored", "mixed", "overlap"})
      BY <1>3 DEF Clean
    <3>2. Shows(list, log) /\ LastAsked(list, log) /\ IsLastQuestion(list, t)
      BY <1>1, <1>4, <1>9, <1>10, <1>14, <3>1 DEF RoomKept
    <3>3. QED BY <1>3, <1>15, <3>1, <3>2
  <2>2. RoomForgotten(r)'
    <3> SUFFICES ASSUME Clean({"unstored", "halfcut", "unrestored", "mixed", "overlap"})'
                 PROVE  Remembers(list, log2) /\ Total(list) <= Total(log2)
      BY <1>8, <1>10 DEF RoomForgotten
    <3>1. Clean({"unstored", "halfcut", "unrestored", "mixed", "overlap"})
      BY <1>3 DEF Clean
    <3>2. /\ Remembers(list, log)
          /\ (Total(list) <= Total(log) \/ Total(list) <= Total(log) + 1)
      BY <1>4, <1>10, <1>14, <3>1 DEF RoomForgotten
    <3>3. Total(list) \in Nat
      BY <1>11, Positions
    <3>4. Total(list) <= Total(log) + 1
      BY ONLY <1>15, <3>2, <3>3
    <3>5. QED BY <1>15, <3>2, <3>4
  <2>3. RoomCounted(r)'
    <3> SUFFICES ASSUME Clean({"answers", "stale mark", "overlap"})'
                 PROVE  SameAnswers(list, log2)
      BY <1>8, <1>9, <1>10 DEF RoomCounted
    <3>1. Clean({"answers", "stale mark", "overlap"})
      BY <1>3 DEF Clean
    <3>2. SameAnswers(list, log)
      BY <1>4, <1>9, <1>10, <1>14, <3>1 DEF RoomCounted
    <3>3. QED BY <1>15, <3>2
  <2>4. QED BY <2>1, <2>2, <2>3 DEF RoomTalk
<1>17. IsLog(log2, n)
  <2>1. Question(t).role = "user" /\ Question(t).turn = t
    BY QuestionFacts
  <2>2. QED BY <1>4, <1>12, <2>1, LogMore
<1>18. TurnForms'
  BY <1>1, <1>2, <1>4, <1>6, <1>8, <1>15 DEF TurnForms
<1>19. EditForms'
  BY <1>2, <1>4 DEF EditForms
<1>20. Touches(r)
  BY <1>1, <1>2, <1>3, <1>4, <1>6, <1>7, SendsGrow DEF Touches, Spent
<1>21. WellForm(r)
  BY <1>1, <1>2, <1>4, <1>7, <1>17 DEF WellForm, Words
<1>22. QED BY <1>16, <1>18, <1>19, <1>20, <1>21, TouchedTalk

LEMMA AnswerFacts ==
    \A t, by, whole : /\ Answer(t, by, whole).role = "agent" /\ Answer(t, by, whole).turn = t
                      /\ Answer(t, by, whole).by = by /\ Answer(t, by, whole).whole = whole
  BY DEF Answer

\* The same answer a is stored after log and told after list.
Answered(list, list2, log, log2, a) ==
    OneMore(list, list2, a) /\ OneMore(log, log2, a) /\ a.role = "agent"

LEMMA AnswerStored ==
    ASSUME NEW list, NEW list2, NEW log, NEW log2, NEW a, Answered(list, list2, log, log2, a)
    PROVE  /\ \A t : HoldsQuestion(log, t) => HoldsQuestion(log2, t)
           /\ \E j \in Answers(log2) : log2[j].by = a.by
           /\ Total(log2) = Total(log) /\ Total(log) \in Nat
           /\ Shows(list, log) => Shows(list, log2)
           /\ LastAsked(list, log) => LastAsked(list, log2)
           /\ Remembers(list, log) => Remembers(list, log2)
           /\ SameAnswers(list, log) => SameAnswers(list2, log2)
<1> DEFINE x == Len(log) + 1
           y == Len(list) + 1
<1>1. /\ IsList(log) /\ IsList(log2) /\ Prefix(log, log2) /\ x \in DOMAIN log2 \ DOMAIN log
      /\ log2[x] = a /\ Questions(log2) = Questions(log) /\ Answers(log2) = Answers(log) \cup {x}
      /\ Total(log2) = Total(log)
  <2>1. OneMore(log, log2, a) /\ a.role = "agent"
    BY DEF Answered
  <2>2. /\ IsList(log) /\ IsList(log2) /\ Prefix(log, log2)
        /\ Len(log) + 1 \in DOMAIN log2 \ DOMAIN log /\ log2[Len(log) + 1] = a
        /\ Questions(log2) = Questions(log) \cup (IF a.role = "user" THEN {Len(log) + 1} ELSE {})
        /\ Answers(log2) = Answers(log) \cup (IF a.role = "agent" THEN {Len(log) + 1} ELSE {})
        /\ Total(log2) = Total(log) + (IF a.role = "user" THEN 1 ELSE 0)
    BY ONLY <2>1, OneMoreFacts
  <2>3. Total(log) \in Nat
    BY <2>2, Positions
  <2>4. QED BY <2>1, <2>2, <2>3
<1>2. /\ IsList(list) /\ Prefix(list, list2) /\ y \in DOMAIN list2 \ DOMAIN list
      /\ list2[y] = a /\ Answers(list2) = Answers(list) \cup {y}
  <2>1. OneMore(list, list2, a) /\ a.role = "agent"
    BY DEF Answered
  <2>2. /\ IsList(list) /\ Prefix(list, list2)
        /\ Len(list) + 1 \in DOMAIN list2 \ DOMAIN list /\ list2[Len(list) + 1] = a
        /\ Answers(list2) = Answers(list) \cup (IF a.role = "agent" THEN {Len(list) + 1} ELSE {})
    BY ONLY <2>1, OneMoreFacts
  <2>3. QED BY <2>1, <2>2
<1> HIDE DEF x, y
<1>3. Total(list) \in Nat /\ Total(log) \in Nat
  BY <1>1, <1>2, Positions
<1>4. \A i \in DOMAIN log : i \in DOMAIN log2 /\ log2[i] = log[i]
  BY <1>1, PrefixFacts DEF Prefix
<1>5. Questions(log) \subseteq DOMAIN log
  BY DEF Questions
<1>6. \A t : HoldsQuestion(log, t) => HoldsQuestion(log2, t)
  BY <1>4 DEF HoldsQuestion
<1>7. \E j \in Answers(log2) : log2[j].by = a.by
  BY <1>1
<1>8. ASSUME Shows(list, log) PROVE Shows(list, log2)
  <2>1. Total(log2) <= Total(list)
    BY <1>1, <1>8 DEF Shows
  <2>2. QED BY <1>1, <1>8, <2>1, ShowsLonger
<1>9. LastAsked(list, log) => LastAsked(list, log2)
  BY <1>1, LastAskedLonger
<1>10. Remembers(list, log) => Remembers(list, log2)
  BY <1>1, <1>2, <1>5, RemembersLonger
<1>11. SameAnswers(list, log) => SameAnswers(list2, log2)
  BY <1>1, <1>2, SameAnswersGrow
<1>12. QED BY <1>1, <1>3, <1>6, <1>7, <1>8, <1>9, <1>10, <1>11

LEMMA StoreAnswerTalk ==
    ASSUME BoundsAssumption, Inv, TalkInv, "overlap" \notin harmed', StoreAnswer
    PROVE  TalkInv'
<1>1. PICK r, t, by, list, list2, log, log2, n, a :
          /\ r = turn.room /\ t = turn.turn /\ by = turn.by /\ list = Words(turn.room)
          /\ a = Answer(turn.turn, turn.by, TRUE)
          /\ list2 = Append(Words(turn.room), Answer(turn.turn, turn.by, TRUE))
          /\ log = history[turn.thread]
          /\ log2 = Append(history[turn.thread], Answer(turn.turn, turn.by, TRUE))
          /\ n = used.sends
  OBVIOUS
<1>2. /\ turn.phase = "answering" /\ UNCHANGED <<rooms, active, loaded, edit, used, harmed>>
      /\ history' = [history EXCEPT ![turn.thread] = log2]
      /\ turn' = [turn EXCEPT !.phase = "answered"]
  BY <1>1 DEF StoreAnswer, page, ghosts
<1>3. /\ turn # NoTurn /\ "overlap" \notin harmed
  BY <1>2 DEF NoTurn
<1>4. /\ IsTurn(turn) /\ edit = NoEdit /\ r \in DOMAIN rooms /\ turn.thread = rooms[r].thread
      /\ turn.thread \in Thread /\ IsLog(log, n) /\ t \in 1..n
      /\ IsTalk(list) /\ ~ rooms[r].restoring /\ AskedTurns(list, n) /\ list # Unread
      /\ \E q \in Questions(list) : list[q].turn = t
      /\ RoomTalk(r) /\ Words(r) = list /\ Log(r) = log /\ HoldsQuestion(log, t)
  BY <1>1, <1>2, <1>3, TurnFacts
<1>5. turn' = [phase |-> "answered", room |-> r, thread |-> turn.thread,
               turn |-> t, by |-> by, tries |-> turn.tries, heard |-> turn.heard]
  BY <1>1, <1>2, <1>4, TurnExcept
<1>6. /\ IsTurn(turn') /\ turn'.room = r /\ turn'.turn = t /\ turn'.phase = "answered"
      /\ turn'.thread = turn.thread /\ turn' # NoTurn /\ turn'.by = by
  <2>1. /\ turn'.room = r /\ turn'.turn = t /\ turn'.phase = "answered" /\ turn'.by = by
        /\ turn'.thread = turn.thread /\ turn'.heard = turn.heard
    BY <1>5
  <2>2. NoTurn.phase = "none" /\ turn.heard \in BOOLEAN
    BY <1>4 DEF NoTurn, IsTurn
  <2>3. QED BY <1>5, <2>1, <2>2 DEF IsTurn
<1>7. /\ DOMAIN history' = Thread /\ history' = [x \in Thread |-> history'[x]]
      /\ history'[turn.thread] = log2
      /\ \A x \in Thread \ {turn.thread} : history'[x] = history[x]
  BY <1>2, <1>3, <1>4, HistoryForms
<1>8. Words(r)' = list /\ Log(r)' = log2
  BY <1>2, <1>4, <1>7 DEF Words, Log
<1>9. /\ ~ Cutting(r) /\ ~ Cutting(r)' /\ Asking(r) /\ Asking(r)'
  BY <1>1, <1>2, <1>3, <1>4, <1>6 DEF Cutting, Asking, NoEdit
<1>10. Seen(r)' = list /\ Told(r)' = list2 /\ Seen(r) = list /\ Told(r) = list
  BY <1>1, <1>2, <1>4, <1>6, <1>8, <1>9 DEF Seen, Told
<1>11. IsList(list) /\ IsList(log)
  BY <1>4 DEF IsTalk, IsLog
<1>12. OneMore(log, log2, a) /\ OneMore(list, list2, a)
  BY <1>1, <1>11, OneMoreAppend
<1>13. /\ a.role = "agent" /\ a.turn = t /\ a.by = by /\ Answered(list, list2, log, log2, a)
  <2>1. a = Answer(t, by, TRUE)
    BY <1>1
  <2>2. a.role = "agent" /\ a.turn = t /\ a.by = by
    BY ONLY <2>1, AnswerFacts
  <2>3. QED BY <1>12, <2>2 DEF Answered
<1>14. RoomKept(r) /\ RoomForgotten(r) /\ RoomCounted(r)
  BY <1>4 DEF RoomTalk
<1>15. /\ HoldsQuestion(log2, t) /\ \E j \in Answers(log2) : log2[j].by = by
       /\ Total(log2) = Total(log) /\ Total(log) \in Nat
       /\ Shows(list, log) => Shows(list, log2)
       /\ LastAsked(list, log) => LastAsked(list, log2)
       /\ Remembers(list, log) => Remembers(list, log2)
       /\ SameAnswers(list, log) => SameAnswers(list2, log2)
  <2>1. /\ \A x : HoldsQuestion(log, x) => HoldsQuestion(log2, x)
        /\ \E j \in Answers(log2) : log2[j].by = a.by
        /\ Total(log2) = Total(log) /\ Total(log) \in Nat
        /\ Shows(list, log) => Shows(list, log2)
        /\ LastAsked(list, log) => LastAsked(list, log2)
        /\ Remembers(list, log) => Remembers(list, log2)
        /\ SameAnswers(list, log) => SameAnswers(list2, log2)
    BY ONLY <1>13, AnswerStored
  <2>2. QED BY <1>4, <1>13, <2>1
<1>16. RoomTalk(r)'
  <2>1. RoomKept(r)'
    <3> SUFFICES ASSUME Clean({"repeated", "late", "halfcut", "unrestored", "mixed", "overlap"})'
                 PROVE  Shows(list, log2) /\ LastAsked(list, log2) /\ IsLastQuestion(list, t)
      BY <1>6, <1>8, <1>10 DEF RoomKept
    <3>1. Clean({"repeated", "late", "halfcut", "unrestored", "mixed", "overlap"})
      BY <1>2 DEF Clean
    <3>2. Shows(list, log) /\ LastAsked(list, log) /\ IsLastQuestion(list, t)
      BY <1>1, <1>4, <1>9, <1>10, <1>14, <3>1 DEF RoomKept
    <3>3. QED BY <1>15, <3>2
  <2>2. RoomForgotten(r)'
    <3> SUFFICES ASSUME Clean({"unstored", "halfcut", "unrestored", "mixed", "overlap"})'
                 PROVE  Remembers(list, log2) /\ Total(list) <= Total(log2)
      BY <1>8, <1>10 DEF RoomForgotten
    <3>1. Clean({"unstored", "halfcut", "unrestored", "mixed", "overlap"})
      BY <1>2 DEF Clean
    <3>2. Remembers(list, log) /\ Total(list) <= Total(log)
      BY <1>1, <1>4, <1>10, <1>14, <3>1 DEF RoomForgotten
    <3>3. QED BY <1>15, <3>2
  <2>3. RoomCounted(r)'
    <3> SUFFICES ASSUME Clean({"answers", "stale mark", "overlap"})'
                 PROVE  SameAnswers(list2, log2)
      BY <1>8, <1>9, <1>10 DEF RoomCounted
    <3>1. Clean({"answers", "stale mark", "overlap"})
      BY <1>2 DEF Clean
    <3>2. SameAnswers(list, log)
      BY <1>4, <1>9, <1>10, <1>14, <3>1 DEF RoomCounted
    <3>3. QED BY <1>15, <3>2
  <2>4. QED BY <2>1, <2>2, <2>3 DEF RoomTalk
<1>17. IsLog(log2, n)
  <2>1. \E q \in Questions(log) : log[q].turn = a.turn
    BY <1>4, <1>13, QuestionFacts DEF HoldsQuestion, Questions
  <2>2. a.role \in {"user", "agent"} /\ a.role # "user" /\ a.turn \in 1..n
    BY <1>4, <1>13
  <2>3. QED BY <1>4, <1>12, <2>1, <2>2, LogMore
<1>18. TurnForms'
  BY <1>1, <1>2, <1>4, <1>6, <1>8, <1>15 DEF TurnForms
<1>19. EditForms'
  BY <1>2, <1>4 DEF EditForms
<1>20. Touches(r)
  BY <1>1, <1>2, <1>3, <1>4, <1>6, <1>7, SendsGrow DEF Touches, Spent
<1>21. WellForm(r)
  BY <1>1, <1>2, <1>4, <1>7, <1>17 DEF WellForm, Words
<1>22. QED BY <1>16, <1>18, <1>19, <1>20, <1>21, TouchedTalk

-----------------------------------------------------------------------------
(* What the page shows of a turn when it ends.                              *)

\* An answer to question t by attempt "by", in full only if "whole", or a
\* bubble, or both.
SaysOf(x, t, by, whole) ==
    /\ x.role \in {"agent", "error"} /\ x.turn = t
    /\ x.role = "agent" => x.by = by /\ (x.whole => whole)

Says(shown, t, by, whole) ==
    /\ IsList(shown) /\ \A j \in DOMAIN shown : SaysOf(shown[j], t, by, whole)
    /\ Answers(shown) = {} \/ \E x \in DOMAIN shown : Answers(shown) = {x}

\* list2 is list and, after it, what is said, with an answer if "some".
Spoken(list, list2, t, by, whole, some) ==
    /\ Prefix(list, list2) /\ Questions(list2) = Questions(list)
    /\ \A i \in DOMAIN list2 \ DOMAIN list : SaysOf(list2[i], t, by, whole)
    /\ ~ some => Answers(list2) = Answers(list)
    /\ some => \E x \in DOMAIN list2 \ DOMAIN list : Answers(list2) = Answers(list) \cup {x}

LEMMA SayOne ==
    ASSUME NEW x, NEW t, NEW by, NEW whole, SaysOf(x, t, by, whole)
    PROVE  /\ Says(<<x>>, t, by, whole)
           /\ Answers(<<x>>) = IF x.role = "agent" THEN {1} ELSE {}
<1>1. PICK s : s = <<x>>
  OBVIOUS
<1>2. IsList(s) /\ s[1] = x /\ DOMAIN s = {1}
  <2>1. IsList(s) /\ Len(s) = 1 /\ s[1] = x
    BY <1>1, OneList
  <2>2. DOMAIN s = 1..1
    BY <2>1, ListFacts
  <2>3. QED BY <2>1, <2>2
<1>3. Answers(s) = IF x.role = "agent" THEN {1} ELSE {}
  BY <1>2 DEF Answers
<1>4. Says(s, t, by, whole)
  BY <1>2, <1>3 DEF Says
<1>5. QED BY <1>1, <1>3, <1>4

LEMMA SayTwo ==
    ASSUME NEW x, NEW y, NEW t, NEW by, NEW whole, SaysOf(x, t, by, whole), SaysOf(y, t, by, whole),
           x.role = "agent", y.role = "error"
    PROVE  Says(<<x>> \o <<y>>, t, by, whole)
<1>1. PICK s, u : s = <<x>> /\ u = <<y>>
  OBVIOUS
<1>2. /\ IsList(s) /\ s[1] = x /\ DOMAIN s = {1} /\ Len(s) = 1
      /\ IsList(u) /\ u[1] = y /\ DOMAIN u = {1} /\ Len(u) = 1
  <2>1. /\ IsList(s) /\ Len(s) = 1 /\ s[1] = x
        /\ IsList(u) /\ Len(u) = 1 /\ u[1] = y
    BY <1>1, OneList
  <2>2. DOMAIN s = 1..1 /\ DOMAIN u = 1..1
    BY <2>1, ListFacts
  <2>3. QED BY <2>1, <2>2
<1>3. PICK v : v = s \o u
  OBVIOUS
<1>4. /\ IsList(v)
      /\ \A i \in DOMAIN s : i \in DOMAIN v /\ v[i] = s[i]
      /\ \A j \in DOMAIN u : /\ Len(s) + j \in DOMAIN v
                             /\ v[Len(s) + j] = u[j]
      /\ \A i \in DOMAIN v : \/ i \in DOMAIN s
                             \/ \E j \in DOMAIN u : i = Len(s) + j
  <2>1. /\ IsList(s \o u)
        /\ Len(s \o u) = Len(s) + Len(u)
        /\ \A i \in DOMAIN s : i \in DOMAIN (s \o u) /\ (s \o u)[i] = s[i]
        /\ \A j \in DOMAIN u : /\ Len(s) + j \in DOMAIN (s \o u)
                               /\ (s \o u)[Len(s) + j] = u[j]
        /\ \A i \in DOMAIN (s \o u) : \/ i \in DOMAIN s
                                      \/ \E j \in DOMAIN u : i = Len(s) + j
    BY ONLY <1>2, ConcatList
  <2>2. QED BY ONLY <1>3, <2>1
<1>5. v[1] = x /\ v[2] = y /\ DOMAIN v = {1, 2}
  BY <1>2, <1>4
<1>6. Answers(v) = {1}
  BY <1>5 DEF Answers
<1>7. Says(v, t, by, whole)
  BY <1>4, <1>5, <1>6 DEF Says
<1>8. QED BY <1>1, <1>3, <1>7

LEMMA SpokenFacts ==
    ASSUME NEW list, NEW shown, NEW t, NEW by, NEW whole, IsList(list), Says(shown, t, by, whole)
    PROVE  Spoken(list, list \o shown, t, by, whole, Answers(shown) # {})
<1>1. PICK list2 : list2 = list \o shown
  OBVIOUS
<1>2. /\ IsList(list2) /\ Len(list2) = Len(list) + Len(shown)
      /\ \A i \in DOMAIN list : i \in DOMAIN list2 /\ list2[i] = list[i]
      /\ \A j \in DOMAIN shown : /\ Len(list) + j \in DOMAIN list2
                                 /\ list2[Len(list) + j] = shown[j]
      /\ \A i \in DOMAIN list2 : \/ i \in DOMAIN list
                                 \/ \E j \in DOMAIN shown : i = Len(list) + j
  <2>1. IsList(shown)
    BY DEF Says
  <2>2. /\ IsList(list \o shown)
        /\ Len(list \o shown) = Len(list) + Len(shown)
        /\ \A i \in DOMAIN list : i \in DOMAIN (list \o shown) /\ (list \o shown)[i] = list[i]
        /\ \A j \in DOMAIN shown : /\ Len(list) + j \in DOMAIN (list \o shown)
                                   /\ (list \o shown)[Len(list) + j] = shown[j]
        /\ \A i \in DOMAIN (list \o shown) : \/ i \in DOMAIN list
                                             \/ \E j \in DOMAIN shown : i = Len(list) + j
    BY ONLY <2>1, IsList(list), ConcatList
  <2>3. QED BY ONLY <1>1, <2>2
<1>3. /\ Len(list) \in Nat /\ DOMAIN list = 1..Len(list)
      /\ Len(shown) \in Nat /\ DOMAIN shown = 1..Len(shown)
  BY ListFacts DEF Says
<1>4. Prefix(list, list2)
  BY <1>2, <1>3 DEF Prefix
<1>5. \A j \in DOMAIN shown : Len(list) + j \notin DOMAIN list
  BY <1>3
<1>6. \A i \in DOMAIN list2 \ DOMAIN list : SaysOf(list2[i], t, by, whole)
  BY <1>2 DEF Says
<1>7. Questions(list2) = Questions(list)
  BY <1>2, <1>6 DEF Questions, SaysOf
<1>8. ASSUME Answers(shown) = {} PROVE Answers(list2) = Answers(list)
  BY <1>2, <1>8 DEF Answers
<1>9. ASSUME Answers(shown) # {}
      PROVE  \E x \in DOMAIN list2 \ DOMAIN list : Answers(list2) = Answers(list) \cup {x}
  <2>1. PICK y \in DOMAIN shown : Answers(shown) = {y}
    BY <1>9 DEF Says
  <2>2. PICK x : x = Len(list) + y
    OBVIOUS
  <2>3. /\ x \in DOMAIN list2 \ DOMAIN list /\ list2[x].role = "agent"
    BY <1>2, <1>5, <2>1, <2>2 DEF Answers
  <2>4. \A i \in DOMAIN list2 : i \notin DOMAIN list /\ list2[i].role = "agent" => i = x
    BY <1>2, <2>1, <2>2 DEF Answers
  <2>5. Answers(list2) = Answers(list) \cup {x}
    BY <1>2, <2>3, <2>4 DEF Answers
  <2>6. QED BY <2>3, <2>5
<1>10. Spoken(list, list2, t, by, whole, Answers(shown) # {})
  BY <1>4, <1>6, <1>7, <1>8, <1>9 DEF Spoken
<1>11. QED BY <1>1, <1>10

\* What is said, next to a history that holds the question and its answer.
Speaks(list, list2, log, t, by, whole, some) ==
    /\ Spoken(list, list2, t, by, whole, some) /\ IsTalk(list) /\ IsList(log)
    /\ \E q \in Questions(list) : list[q].turn = t
    /\ whole => \E j \in Answers(log) : log[j].by = by

LEMMA SpokenTalk ==
    ASSUME NEW list, NEW list2, NEW log, NEW t, NEW by, NEW whole, NEW some,
           Speaks(list, list2, log, t, by, whole, some)
    PROVE  /\ IsTalk(list2) /\ list2 # Unread /\ Total(list2) = Total(list)
           /\ \A n : AskedTurns(list, n) => AskedTurns(list2, n)
           /\ Shows(list, log) => Shows(list2, log)
           /\ LastAsked(list, log) => LastAsked(list2, log)
           /\ Remembers(list, log) => Remembers(list2, log)
           /\ ~ some /\ SameAnswers(list, log) => SameAnswers(list2, log)
           /\ \A w : /\ some
                     /\ SameAnswers(Append(list, Answer(t, by, w)), log)
                     => SameAnswers(list2, log)
<1>1. /\ Prefix(list, list2) /\ Questions(list2) = Questions(list) /\ IsList(list) /\ IsList(list2)
      /\ \A i \in DOMAIN list2 \ DOMAIN list : SaysOf(list2[i], t, by, whole)
      /\ ~ some => Answers(list2) = Answers(list)
      /\ some => \E x \in DOMAIN list2 \ DOMAIN list : Answers(list2) = Answers(list) \cup {x}
      /\ Questions(list) \subseteq DOMAIN list /\ Answers(list) \subseteq DOMAIN list
      /\ Answers(list2) \subseteq DOMAIN list2
      /\ \A i \in DOMAIN list : list2[i] = list[i]
      /\ IsTalk(list) /\ IsList(log) /\ \E q \in Questions(list) : list[q].turn = t
      /\ whole => \E j \in Answers(log) : log[j].by = by
  BY DEF Speaks, Spoken, Prefix, Questions, Answers
<1>2. IsTalk(list2)
  <2>1. \A i \in DOMAIN list2 \ DOMAIN list :
            /\ list2[i].role \in {"user", "agent", "error"}
            /\ list2[i].role = "error" => \E q \in Questions(list) : list[q].turn = list2[i].turn
    BY <1>1 DEF SaysOf
  <2>2. QED BY <1>1, <2>1, TalkMore
<1>3. Total(list2) = Total(list)
  BY <1>1 DEF Total
<1>4. \A n : AskedTurns(list, n) => AskedTurns(list2, n)
  BY <1>1 DEF AskedTurns
<1>5. ASSUME Shows(list, log) PROVE Shows(list2, log)
  <2>1. \A i \in Answers(list2) \ DOMAIN list : list2[i].whole =>
            \E j \in Answers(log) : log[j].by = list2[i].by
    BY <1>1 DEF SaysOf, Answers
  <2>2. QED BY <1>1, <1>5, <2>1, ShowsMore
<1>6. LastAsked(list, log) => LastAsked(list2, log)
  BY <1>1, LastAskedMore
<1>7. Remembers(list, log) => Remembers(list2, log)
  BY <1>1, RemembersMore
<1>8. ASSUME ~ some, SameAnswers(list, log) PROVE SameAnswers(list2, log)
  <2>1. SameAnswers(list2, list)
    BY <1>1, <1>8, SameAnswersMore
  <2>2. QED BY <1>1, <1>8, <2>1, SameAnswersThen
<1>9. ASSUME some, NEW w, SameAnswers(Append(list, Answer(t, by, w)), log) PROVE SameAnswers(list2, log)
  <2>1. PICK a, told : a = Answer(t, by, w) /\ told = Append(list, Answer(t, by, w))
    OBVIOUS
  <2>2. a.role = "agent" /\ a.by = by
    BY <2>1, AnswerFacts
  <2>3. OneMore(list, told, a)
    BY <1>1, <2>1, OneMoreAppend
  <2>4. PICK y \in DOMAIN told \ DOMAIN list :
            Prefix(list, told) /\ told[y] = a /\ Answers(told) = Answers(list) \cup {y} /\ IsList(told)
    BY <2>2, <2>3, OneMoreFacts
  <2>5. PICK x \in DOMAIN list2 \ DOMAIN list : Answers(list2) = Answers(list) \cup {x}
    BY <1>1, <1>9
  <2>6. list2[x].by = by
    <3>1. x \in Answers(list2) /\ list2[x].role = "agent"
      BY <2>5 DEF Answers
    <3>2. QED BY <1>1, <2>5, <3>1 DEF SaysOf
  <2>7. SameAnswers(list, list)
    BY <1>1, SameAnswersSelf
  <2>8. SameAnswers(list2, told)
    BY <1>1, <2>2, <2>4, <2>5, <2>6, <2>7, SameAnswersGrow
  <2>9. QED BY <1>1, <1>9, <2>1, <2>4, <2>8, SameAnswersThen
<1>10. QED BY <1>2, <1>3, <1>4, <1>5, <1>6, <1>7, <1>8, <1>9, UnreadIsNoTalk

LEMMA EndTurnTalk ==
    ASSUME BoundsAssumption, Inv, TalkInv, "overlap" \notin harmed', turn # NoTurn, Spent,
           UNCHANGED <<history, active, loaded, edit>>,
           NEW shown, NEW whole, EndTurn(shown), Says(shown, turn.turn, turn.by, whole),
           whole => turn.phase = "answered"
    PROVE  TalkInv'
<1>1. PICK r, t, by, list, list2, log, n, some :
          /\ r = turn.room /\ t = turn.turn /\ by = turn.by /\ list = Words(turn.room)
          /\ list2 = Held(rooms, turn.room) \o shown
          /\ log = history[turn.thread] /\ n = used.sends /\ some = (Answers(shown) # {})
  OBVIOUS
<1>2. /\ turn' = NoTurn /\ rooms' = WithMessages(rooms, r, list2)
      /\ Harm((IF HoldsQuestion(log, t) THEN {} ELSE {"unstored"})
              \cup (IF some = (turn.phase = "answered") THEN {} ELSE {"answers"}))
  BY <1>1 DEF EndTurn, Appended
<1>3. /\ harmed \subseteq harmed' /\ "overlap" \notin harmed
      /\ ("unstored" \notin harmed' => HoldsQuestion(log, t))
      /\ ("answers" \notin harmed' => some = (turn.phase = "answered"))
  BY <1>2 DEF Harm
<1>4. /\ IsTurn(turn) /\ edit = NoEdit /\ r \in DOMAIN rooms /\ turn.thread = rooms[r].thread
      /\ turn.thread \in Thread /\ IsLog(log, n) /\ t \in 1..n
      /\ IsTalk(list) /\ ~ rooms[r].restoring /\ AskedTurns(list, n) /\ list # Unread
      /\ \E q \in Questions(list) : list[q].turn = t
      /\ RoomTalk(r) /\ Words(r) = list /\ Log(r) = log /\ Held(rooms, r) = list
      /\ turn.phase = "answered" => \E j \in Answers(log) : log[j].by = by
  BY <1>1, <1>3, TurnFacts
<1>5. NoTurn.phase = "none" /\ NoEdit.phase = "none"
  BY DEF NoTurn, NoEdit
<1>6. /\ DOMAIN rooms' = DOMAIN rooms /\ rooms'[r].messages = list2 /\ rooms'[r].thread = rooms[r].thread
      /\ rooms'[r].restoring = rooms[r].restoring
      /\ \A x \in DOMAIN rooms \ {r} : rooms'[x] = rooms[x]
  <2>1. RoomForms(rooms)
    BY DEF Inv, Shape, PageInv
  <2>2. QED BY <1>2, <1>4, <2>1, WithWords
<1>7. Words(r)' = list2 /\ Log(r)' = log
  BY <1>4, <1>6 DEF Words, Log
<1>8. /\ ~ Cutting(r) /\ ~ Cutting(r)' /\ Asking(r) /\ ~ Asking(r)'
  BY <1>1, <1>2, <1>4, <1>5 DEF Cutting, Asking
<1>9. /\ Seen(r)' = list2 /\ Told(r)' = list2 /\ Seen(r) = list
      /\ turn.phase = "answered" => Told(r) = Append(list, Answer(t, by, TRUE))
      /\ turn.phase # "answered" => Told(r) = list
  BY <1>1, <1>4, <1>7, <1>8 DEF Seen, Told
<1>10. IsList(list) /\ IsList(log)
  BY <1>4 DEF IsTalk, IsLog
<1>11. Spoken(list, list2, t, by, whole, some)
  <2>1. list2 = list \o shown
    BY <1>1, <1>4
  <2>2. Says(shown, t, by, whole)
    BY <1>1
  <2>3. QED BY <1>1, <1>10, <2>1, <2>2, SpokenFacts
<1>12. /\ IsTalk(list2) /\ list2 # Unread /\ Total(list2) = Total(list)
       /\ \A m : AskedTurns(list, m) => AskedTurns(list2, m)
       /\ Shows(list, log) => Shows(list2, log)
       /\ LastAsked(list, log) => LastAsked(list2, log)
       /\ Remembers(list, log) => Remembers(list2, log)
       /\ ~ some /\ SameAnswers(list, log) => SameAnswers(list2, log)
       /\ \A w : /\ some
                 /\ SameAnswers(Append(list, Answer(t, by, w)), log)
                 => SameAnswers(list2, log)
  <2>1. whole => \E j \in Answers(log) : log[j].by = by
    BY <1>4
  <2>2. \E q \in Questions(list) : list[q].turn = t
    BY <1>4
  <2>3. IsTalk(list)
    BY <1>4
  <2>4. Speaks(list, list2, log, t, by, whole, some)
    BY <1>10, <1>11, <2>1, <2>2, <2>3 DEF Speaks
  <2>5. QED BY ONLY <2>4, SpokenTalk
<1>13. RoomKept(r) /\ RoomForgotten(r) /\ RoomCounted(r)
  BY <1>4 DEF RoomTalk
<1>14. RoomTalk(r)'
  <2>1. RoomKept(r)'
    <3> SUFFICES ASSUME Clean({"repeated", "late", "halfcut", "unrestored", "mixed", "overlap"})'
                 PROVE  Shows(list2, log) /\ LastAsked(list2, log)
      BY <1>7, <1>8, <1>9 DEF RoomKept
    <3>1. Clean({"repeated", "late", "halfcut", "unrestored", "mixed", "overlap"})
      BY <1>3 DEF Clean
    <3>2. Shows(list, log) /\ LastAsked(list, log)
      BY <1>4, <1>8, <1>9, <1>13, <3>1 DEF RoomKept
    <3>3. QED BY <1>12, <3>2
  <2>2. RoomForgotten(r)'
    <3> SUFFICES ASSUME Clean({"unstored", "halfcut", "unrestored", "mixed", "overlap"})'
                 PROVE  Remembers(list2, log) /\ Total(list2) <= Total(log)
      BY <1>7, <1>9 DEF RoomForgotten
    <3>1. /\ Clean({"unstored", "halfcut", "unrestored", "mixed", "overlap"})
          /\ HoldsQuestion(log, t)
      BY <1>3 DEF Clean
    <3>2. Remembers(list, log) /\ Total(list) <= Total(log)
      BY <1>1, <1>4, <1>9, <1>13, <3>1 DEF RoomForgotten
    <3>3. QED BY <1>12, <3>2
  <2>3. RoomCounted(r)'
    <3> SUFFICES ASSUME Clean({"answers", "stale mark", "overlap"})'
                 PROVE  SameAnswers(list2, log)
      BY <1>7, <1>8, <1>9 DEF RoomCounted
    <3>1. Clean({"answers", "stale mark", "overlap"}) /\ some = (turn.phase = "answered")
      BY <1>3 DEF Clean
    <3>2. SameAnswers(Told(r), log)
      BY <1>4, <1>8, <1>13, <3>1 DEF RoomCounted
    <3>3. CASE turn.phase = "answered"
      <4>1. some /\ SameAnswers(Append(list, Answer(t, by, TRUE)), log)
        BY <1>9, <3>1, <3>2, <3>3
      <4>2. QED BY ONLY <1>12, <4>1
    <3>4. CASE turn.phase # "answered"
      BY <1>1, <1>9, <1>12, <3>1, <3>2, <3>4
    <3>5. QED BY <3>3, <3>4
  <2>4. QED BY <2>1, <2>2, <2>3 DEF RoomTalk
<1>15. TurnForms'
  BY <1>2 DEF TurnForms
<1>16. EditForms'
  BY <1>4 DEF EditForms
<1>17. used'.sends \in Nat /\ used.sends <= used'.sends /\ used'.threads = used.threads
  BY SendsGrow
<1>18. Touches(r)
  BY <1>1, <1>2, <1>3, <1>4, <1>6, <1>17, HistoryForms DEF Touches
<1>19. WellForm(r)
  <2>1. n \in Nat /\ n <= used'.sends /\ used'.sends \in Nat
    BY <1>1, <1>17 DEF Inv, Shape, UsedInv, UsedNames
  <2>2. IsLog(log, used'.sends) /\ AskedTurns(list2, used'.sends)
    BY <1>4, <1>12, <2>1, LogLater, TurnsLater
  <2>3. QED BY <1>1, <1>4, <1>6, <1>12, <2>2 DEF WellForm
<1>20. QED BY <1>14, <1>15, <1>16, <1>18, <1>19, TouchedTalk

LEMMA AnswerSays ==
    \A t, by, w, whole : (w => whole) => SaysOf(Answer(t, by, w), t, by, whole)
  BY DEF Answer, SaysOf

LEMMA BubbleSays ==
    \A t, by, whole, text, button : SaysOf(Bubble(t, text, button), t, by, whole)
  BY DEF Bubble, SaysOf

LEMMA CompleteTurnTalk ==
    ASSUME BoundsAssumption, Inv, TalkInv, "overlap" \notin harmed', CompleteTurn
    PROVE  TalkInv'
<1>1. /\ turn.phase = "answered" /\ EndTurn(<<Answer(turn.turn, turn.by, TRUE)>>)
      /\ UNCHANGED <<history, active, loaded, edit>> /\ Spent
  BY DEF CompleteTurn, server, Spent
<1>2. turn # NoTurn
  BY <1>1 DEF NoTurn
<1>3. SaysOf(Answer(turn.turn, turn.by, TRUE), turn.turn, turn.by, TRUE)
  BY AnswerSays
<1>4. Says(<<Answer(turn.turn, turn.by, TRUE)>>, turn.turn, turn.by, TRUE)
  BY <1>3, SayOne
<1>5. QED BY <1>1, <1>2, <1>4, EndTurnTalk

\* What was heard of an answer, and a bubble under it.
LEMMA HeardSays ==
    ASSUME NEW text, NEW button
    PROVE  Says(Heard \o <<Bubble(turn.turn, text, button)>>, turn.turn, turn.by, FALSE)
<1>1. PICK a, b, t, by : /\ a = Answer(turn.turn, turn.by, FALSE) /\ b = Bubble(turn.turn, text, button)
                         /\ t = turn.turn /\ by = turn.by
  OBVIOUS
<1>2. a = Answer(t, by, FALSE) /\ b = Bubble(t, text, button)
  BY <1>1
<1>3. SaysOf(a, t, by, FALSE) /\ SaysOf(b, t, by, FALSE) /\ a.role = "agent" /\ b.role = "error"
  <2>1. a.role = "agent" /\ b.role = "error"
    BY ONLY <1>2 DEF Answer, Bubble
  <2>2. SaysOf(a, t, by, FALSE)
    BY ONLY <1>2, AnswerSays
  <2>3. SaysOf(b, t, by, FALSE)
    BY ONLY <1>2, BubbleSays
  <2>4. QED BY <2>1, <2>2, <2>3
<1>4. Says(<<a>> \o <<b>>, t, by, FALSE)
  BY <1>3, SayTwo
<1>5. Says(<<>> \o <<b>>, t, by, FALSE)
  <2>1. <<>> \o <<b>> = <<b>>
    OBVIOUS
  <2>2. Says(<<b>>, t, by, FALSE)
    BY <1>3, SayOne
  <2>3. QED BY <2>1, <2>2
<1>6. CASE turn.heard
  <2>1. Heard = <<a>>
    BY <1>1, <1>6 DEF Heard
  <2>2. QED BY <1>1, <1>4, <2>1
<1>7. CASE ~ turn.heard
  <2>1. Heard = <<>>
    BY <1>7 DEF Heard
  <2>2. QED BY <1>1, <1>5, <2>1
<1>8. QED BY <1>6, <1>7

LEMMA ModelFailsTalk ==
    ASSUME BoundsAssumption, Inv, TalkInv, "overlap" \notin harmed', ModelFails
    PROVE  TalkInv'
<1>1. /\ turn.phase = "answering"
      /\ EndTurn(Heard \o <<Bubble(turn.turn, "server", ~ turn.heard)>>)
      /\ UNCHANGED <<history, active, loaded, edit>> /\ Spent
  BY DEF ModelFails, server, Fault, Spent
<1>2. turn # NoTurn
  BY <1>1 DEF NoTurn
<1>3. QED BY <1>1, <1>2, HeardSays, EndTurnTalk

LEMMA StopTurnTalk ==
    ASSUME BoundsAssumption, Inv, TalkInv, "overlap" \notin harmed', StopTurn
    PROVE  TalkInv'
<1> DEFINE shown == IF turn.heard THEN Heard ELSE <<Bubble(turn.turn, "stopped", FALSE)>>
<1>1. /\ turn # NoTurn /\ EndTurn(shown)
      /\ UNCHANGED <<history, active, loaded, edit>> /\ Spent
  BY DEF StopTurn, server, Spent
<1>2. /\ SaysOf(Answer(turn.turn, turn.by, FALSE), turn.turn, turn.by, FALSE)
      /\ SaysOf(Bubble(turn.turn, "stopped", FALSE), turn.turn, turn.by, FALSE)
  <2>1. SaysOf(Answer(turn.turn, turn.by, FALSE), turn.turn, turn.by, FALSE)
    BY AnswerSays
  <2>2. SaysOf(Bubble(turn.turn, "stopped", FALSE), turn.turn, turn.by, FALSE)
    BY BubbleSays
  <2>3. QED BY <2>1, <2>2
<1>3. Says(shown, turn.turn, turn.by, FALSE)
  <2>1. CASE turn.heard
    <3>1. shown = <<Answer(turn.turn, turn.by, FALSE)>>
      BY <2>1 DEF Heard
    <3>2. QED BY <1>2, <3>1, SayOne
  <2>2. CASE ~ turn.heard
    <3>1. shown = <<Bubble(turn.turn, "stopped", FALSE)>>
      BY <2>2
    <3>2. QED BY <1>2, <3>1, SayOne
  <2>3. QED BY <2>1, <2>2
<1> HIDE DEF shown
<1>4. QED BY <1>1, <1>3, EndTurnTalk

-----------------------------------------------------------------------------
(* Turns that fail, and are asked again or end.                             *)

LEMMA TurnEndsFailing ==
    ASSUME BoundsAssumption, Inv, TalkInv, "overlap" \notin harmed', turn # NoTurn,
           NEW retryable, TurnFails(retryable), ~ MayRetry(retryable)
    PROVE  TalkInv'
<1> DEFINE text == IF turn.heard THEN "cut off" ELSE "failed"
<1>1. /\ EndTurn(Heard \o <<Bubble(turn.turn, text, TRUE)>>) /\ Used("faults")
      /\ UNCHANGED <<history, active, loaded, edit>>
  BY DEF TurnFails, server
<1> HIDE DEF text
<1>2. Spent
  BY <1>1 DEF Spent
<1>3. Says(Heard \o <<Bubble(turn.turn, text, TRUE)>>, turn.turn, turn.by, FALSE)
  BY HeardSays
<1>4. QED BY <1>1, <1>2, <1>3, EndTurnTalk

LEMMA TurnRetried ==
    ASSUME BoundsAssumption, Inv, TalkInv, "overlap" \notin harmed', turn # NoTurn,
           NEW retryable, TurnFails(retryable), MayRetry(retryable)
    PROVE  TalkInv'
<1>1. /\ turn' = [turn EXCEPT !.phase = "asking", !.tries = @ + 1,
                              !.by = used.attempts + 1, !.heard = FALSE]
      /\ used' = [used EXCEPT !.faults = @ + 1, !.attempts = @ + 1]
      /\ Harm(IF turn.phase = "answered" THEN {"answers"} ELSE {})
      /\ UNCHANGED <<rooms, history, active, loaded, edit>>
  BY DEF TurnFails, server
<1>2. /\ harmed \subseteq harmed' /\ "overlap" \notin harmed
      /\ (turn.phase = "answered" => "answers" \in harmed')
  BY <1>1 DEF Harm
<1>3. PICK r, t, list, log, n : /\ r = turn.room /\ t = turn.turn /\ list = Words(turn.room)
                                /\ log = history[turn.thread] /\ n = used.sends
  OBVIOUS
<1>4. /\ IsTurn(turn) /\ edit = NoEdit /\ r \in DOMAIN rooms /\ turn.thread = rooms[r].thread
      /\ turn.thread \in Thread /\ IsLog(log, n) /\ t \in 1..n
      /\ IsTalk(list) /\ ~ rooms[r].restoring /\ AskedTurns(list, n) /\ list # Unread
      /\ \E q \in Questions(list) : list[q].turn = t
      /\ RoomTalk(r) /\ Words(r) = list /\ Log(r) = log
  BY <1>2, <1>3, TurnFacts
<1>5. turn' = [phase |-> "asking", room |-> r, thread |-> turn.thread, turn |-> t,
               by |-> used.attempts + 1, tries |-> turn.tries + 1, heard |-> FALSE]
  <2>1. PICK a, b, c, d, e, f, g : turn = [phase |-> a, room |-> b, thread |-> c, turn |-> d,
                                           by |-> e, tries |-> f, heard |-> g]
    BY <1>4 DEF IsTurn
  <2>2. QED BY <1>1, <1>3, <2>1
<1>6. /\ IsTurn(turn') /\ turn'.room = r /\ turn'.turn = t /\ turn'.phase = "asking"
      /\ turn'.thread = turn.thread /\ turn' # NoTurn
  <2>1. /\ turn'.room = r /\ turn'.turn = t /\ turn'.phase = "asking"
        /\ turn'.thread = turn.thread /\ turn'.heard = FALSE
    BY <1>5
  <2>2. NoTurn.phase = "none"
    BY DEF NoTurn
  <2>3. QED BY <1>5, <2>1, <2>2 DEF IsTurn
<1>7. Words(r)' = list /\ Log(r)' = log
  BY <1>1, <1>4 DEF Words, Log
<1>8. /\ ~ Cutting(r) /\ ~ Cutting(r)' /\ Asking(r) /\ Asking(r)'
  BY <1>1, <1>3, <1>4, <1>6 DEF Cutting, Asking, NoEdit
<1>9. /\ Seen(r)' = list /\ Told(r)' = list /\ Seen(r) = list
      /\ turn.phase # "answered" => Told(r) = list
  BY <1>4, <1>6, <1>7, <1>8 DEF Seen, Told
<1>10. RoomKept(r) /\ RoomForgotten(r) /\ RoomCounted(r)
  BY <1>4 DEF RoomTalk
<1>11. RoomTalk(r)'
  <2>1. RoomKept(r)'
    <3> SUFFICES ASSUME Clean({"repeated", "late", "halfcut", "unrestored", "mixed", "overlap"})'
                 PROVE  Shows(list, log) /\ LastAsked(list, log) /\ IsLastQuestion(list, t)
      BY <1>6, <1>7, <1>9 DEF RoomKept
    <3>1. Clean({"repeated", "late", "halfcut", "unrestored", "mixed", "overlap"})
      BY <1>2 DEF Clean
    <3>2. QED BY <1>3, <1>4, <1>8, <1>9, <1>10, <3>1 DEF RoomKept
  <2>2. RoomForgotten(r)'
    <3> SUFFICES ASSUME Clean({"unstored", "halfcut", "unrestored", "mixed", "overlap"})'
                 PROVE  /\ Remembers(list, log)
                        /\ \/ Total(list) <= Total(log)
                           \/ ~ HoldsQuestion(log, t) /\ Total(list) <= Total(log) + 1
      BY <1>6, <1>7, <1>8, <1>9 DEF RoomForgotten
    <3>1. Clean({"unstored", "halfcut", "unrestored", "mixed", "overlap"})
      BY <1>2 DEF Clean
    <3>2. QED BY <1>3, <1>4, <1>9, <1>10, <3>1 DEF RoomForgotten
  <2>3. RoomCounted(r)'
    <3> SUFFICES ASSUME Clean({"answers", "stale mark", "overlap"})'
                 PROVE  SameAnswers(list, log)
      BY <1>7, <1>8, <1>9 DEF RoomCounted
    <3>1. Clean({"answers", "stale mark", "overlap"}) /\ turn.phase # "answered"
      BY <1>2 DEF Clean
    <3>2. QED BY <1>4, <1>8, <1>9, <1>10, <3>1 DEF RoomCounted
  <2>4. QED BY <2>1, <2>2, <2>3 DEF RoomTalk
<1>12. used'.sends = used.sends /\ Spent
  <2>1. used \in UsedNames
    BY DEF Inv, Shape, UsedInv
  <2>2. used' = [threads |-> used.threads, turns |-> used.turns, sends |-> used.sends,
              attempts |-> used.attempts + 1, marks |-> used.marks, changes |-> used.changes,
              reloads |-> used.reloads, faults |-> used.faults + 1]
    BY <1>1, <2>1 DEF UsedNames
  <2>3. QED BY <1>1, <2>2 DEF Spent
<1>13. TurnForms'
  BY <1>1, <1>3, <1>4, <1>6, <1>7, <1>12 DEF TurnForms
<1>14. EditForms'
  BY <1>1, <1>4 DEF EditForms
<1>15. Touches(r)
  BY <1>1, <1>2, <1>3, <1>4, <1>6, <1>12, HistoryForms, SendsGrow DEF Touches
<1>16. WellForm(r)
  BY <1>1, <1>3, <1>4, <1>12 DEF WellForm, Words
<1>17. QED BY <1>11, <1>13, <1>14, <1>15, <1>16, TouchedTalk

LEMMA TurnFailsTalk ==
    ASSUME BoundsAssumption, Inv, TalkInv, "overlap" \notin harmed',
           BreakConnection \/ \E retryable \in BOOLEAN : RefuseRequest(retryable)
    PROVE  TalkInv'
<1>1. PICK retryable : TurnFails(retryable) /\ turn.phase \in {"asking", "answering", "answered"}
  BY DEF BreakConnection, RefuseRequest
<1>2. turn # NoTurn
  BY <1>1 DEF NoTurn
<1>3. QED BY <1>1, <1>2, TurnEndsFailing, TurnRetried

-----------------------------------------------------------------------------
(* Edits.                                                                   *)

LEMMA SubmitEditTalk ==
    ASSUME BoundsAssumption, Inv, TalkInv, "overlap" \notin harmed',
           NEW k \in Nat, SubmitEdit(k)
    PROVE  TalkInv'
<1>1. /\ loaded.rooms /\ turn = NoTurn /\ edit = NoEdit /\ rooms[active].messages # Unread
      /\ k < Cardinality(Questions(rooms[active].messages))
      /\ UNCHANGED <<history, rooms, active, loaded, turn, used>>
      /\ Harm(Overlap \cup Early)
  BY DEF SubmitEdit, Idle, server, page
<1>2. PICK r : r = active
  OBVIOUS
<1>3. edit' = [phase |-> "asked", room |-> r, thread |-> rooms[r].thread,
               k |-> k, messages |-> rooms[r].messages, left |-> 0]
  BY <1>2 DEF SubmitEdit
<1>4. /\ harmed \subseteq harmed' /\ "overlap" \notin harmed /\ "overlap" \notin Early
  BY <1>1 DEF Harm
<1>5. loaded.marks
  BY <1>4 DEF Early
<1>6. /\ r \in DOMAIN rooms /\ LogForms /\ TalkForms /\ \A x \in DOMAIN rooms : RoomTalk(x)
  BY <1>1, <1>2, <1>4 DEF TalkInv, Inv, Shape, PageInv
<1>7. ~ Cutting(r) /\ ~ Cutting(r)'
  BY <1>1, <1>3 DEF Cutting, NoEdit
<1>8. Untouched(r)
  BY <1>1, <1>6, <1>7 DEF Untouched, SameRoom
<1>9. RoomTalk(r)'
  BY <1>4, <1>6, <1>8, UntouchedTalk
<1>10. TurnForms'
  BY <1>1 DEF TurnForms
<1>11. edit'.room = r /\ edit'.k = k /\ edit'.messages = rooms[r].messages /\ edit'.thread = rooms[r].thread
  BY <1>3
<1>12. EditForms'
  BY <1>1, <1>2, <1>5, <1>6, <1>11 DEF EditForms, Words, Total
<1>13. Touches(r)
  BY <1>1, <1>4, <1>6, <1>11, HistoryForms, SendsGrow DEF Touches, Spent
<1>14. WellForm(r)
  BY <1>1, <1>2, <1>6, RoomThreads DEF WellForm, Words, LogForms, TalkForms
<1>15. QED BY <1>9, <1>10, <1>12, <1>13, <1>14, TouchedTalk

LEMMA TruncateThreadTalk ==
    ASSUME BoundsAssumption, Inv, TalkInv, "overlap" \notin harmed', TruncateThread
    PROVE  TalkInv'
<1>1. PICK r, k, list, log, log2, n :
          /\ r = edit.room /\ k = edit.k /\ list = Words(edit.room) /\ log = Log(edit.room)
          /\ log2 = Before(log, k) /\ n = used.sends
  OBVIOUS
<1>2. /\ edit.phase = "asked"
      /\ edit' = [edit EXCEPT !.phase = "done",
                      !.left = Cardinality(Answers(KeptHistory(history[edit.thread], edit.k)))]
      /\ history' = [history EXCEPT ![edit.thread] = KeptHistory(history[edit.thread], edit.k)]
      /\ UNCHANGED <<rooms, active, loaded, turn, used, harmed>>
  BY DEF TruncateThread, page, ghosts
<1>3. edit # NoEdit /\ "overlap" \notin harmed
  BY <1>2 DEF NoEdit
<1>4. /\ r \in DOMAIN rooms /\ edit.thread = rooms[r].thread /\ Log(r) = log
      /\ IsLog(log, n) /\ history[edit.thread] = log
      /\ Words(r) = list /\ edit.messages = list /\ IsTalk(list) /\ list # Unread
      /\ ~ rooms[r].restoring /\ k \in Nat /\ RoomTalk(r) /\ AskedTurns(list, n)
      /\ loaded.marks /\ k < Total(list)
  <2>1. EditForms
    BY <1>3 DEF TalkInv
  <2>2. QED BY <1>1, <1>3, <2>1, EditFacts DEF Log, EditForms
<1>5. turn = NoTurn /\ edit.thread \in Thread
  <2>1. TurnForms
    BY <1>3 DEF TalkInv
  <2>2. QED BY <1>3, <1>4, <2>1, RoomThreads DEF TurnForms
<1>6. edit' = [phase |-> "done", room |-> r, thread |-> edit.thread,
               k |-> k, messages |-> list, left |-> Cardinality(Answers(log2))]
      /\ history' = [history EXCEPT ![edit.thread] = log2]
  <2>1. KeptHistory(history[edit.thread], edit.k) = log2
    BY <1>1, <1>4 DEF KeptHistory
  <2>2. IsEdit(edit)
    BY <1>3 DEF Inv, Shape, PageInv
  <2>3. edit = [phase |-> edit.phase, room |-> edit.room, thread |-> edit.thread,
                k |-> edit.k, messages |-> edit.messages, left |-> edit.left]
    BY <1>3, <2>2 DEF IsEdit
  <2>4. QED BY <1>1, <1>2, <1>4, <2>1, <2>3
<1>7. /\ edit'.phase = "done" /\ edit'.room = r /\ edit'.thread = edit.thread /\ edit'.k = k
      /\ edit'.messages = list /\ edit'.left = Cardinality(Answers(log2)) /\ edit' # NoEdit
  <2>1. /\ edit'.phase = "done" /\ edit'.room = r /\ edit'.thread = edit.thread /\ edit'.k = k
        /\ edit'.messages = list /\ edit'.left = Cardinality(Answers(log2))
    BY <1>6
  <2>2. NoEdit.phase = "none"
    BY DEF NoEdit
  <2>3. QED BY <2>1, <2>2
<1>8. /\ DOMAIN history' = Thread /\ history' = [x \in Thread |-> history'[x]]
      /\ history'[edit.thread] = log2
      /\ \A x \in Thread \ {edit.thread} : history'[x] = history[x]
  BY <1>3, <1>5, <1>6, HistoryForms
<1>9. Words(r)' = list /\ Log(r)' = log2
  BY <1>2, <1>4, <1>8 DEF Words, Log
<1>10. /\ ~ Cutting(r) /\ Cutting(r)' /\ ~ Asking(r) /\ ~ Asking(r)'
  BY <1>2, <1>5, <1>7 DEF Cutting, Asking
<1>11. Seen(r)' = Before(list, k) /\ Seen(r) = list /\ Told(r) = list
  BY <1>4, <1>7, <1>9, <1>10 DEF Seen, Told
<1>12. IsList(list) /\ IsList(log)
  BY <1>4 DEF IsTalk, IsLog
<1>13. RoomKept(r) /\ RoomForgotten(r) /\ RoomCounted(r)
  BY <1>4 DEF RoomTalk
<1>14. RoomTalk(r)'
  <2>1. RoomKept(r)'
    <3> SUFFICES ASSUME Clean({"repeated", "late", "halfcut", "unrestored", "mixed", "overlap"})'
                 PROVE  Shows(Before(list, k), log2)
      BY <1>9, <1>10, <1>11 DEF RoomKept
    <3>1. Clean({"repeated", "late", "halfcut", "unrestored", "mixed", "overlap"})
      BY <1>2 DEF Clean
    <3>2. Shows(list, log)
      BY <1>4, <1>11, <1>13, <3>1 DEF RoomKept
    <3>3. QED BY <1>1, <1>4, <1>12, <3>2, ShowsCut
  <2>2. RoomForgotten(r)'
    <3> SUFFICES ASSUME Clean({"unstored", "halfcut", "unrestored", "mixed", "overlap"})'
                 PROVE  Remembers(Before(list, k), log2) /\ Total(Before(list, k)) <= Total(log2)
      BY <1>9, <1>11 DEF RoomForgotten
    <3>1. Clean({"unstored", "halfcut", "unrestored", "mixed", "overlap"})
      BY <1>2 DEF Clean
    <3>2. Remembers(list, log) /\ Total(list) <= Total(log)
      BY <1>4, <1>10, <1>11, <1>13, <3>1 DEF RoomForgotten
    <3>3. k <= Total(list) /\ k <= Total(log)
      <4>1. Total(list) \in Nat /\ Total(log) \in Nat
        BY <1>12, Positions
      <4>2. QED BY ONLY <1>4, <3>2, <4>1
    <3>4. Total(Before(list, k)) = k /\ Total(log2) = k
      BY <1>1, <1>4, <1>12, <3>3, BeforeFacts
    <3>5. Remembers(Before(list, k), log2)
      BY <1>1, <1>4, <1>12, <3>2, RemembersCut
    <3>6. QED BY <1>4, <3>4, <3>5
  <2>3. RoomCounted(r)'
    <3> SUFFICES ASSUME Clean({"answers", "stale mark", "overlap"})'
                 PROVE  SameBy(Before(list, k), log2)
      BY <1>7, <1>9, <1>10, <1>11 DEF RoomCounted
    <3>1. Clean({"answers", "stale mark", "overlap"})
      BY <1>2 DEF Clean
    <3>2. SameBy(list, log)
      BY <1>4, <1>10, <1>11, <1>13, <3>1 DEF RoomCounted, SameAnswers
    <3>3. QED BY <1>1, <1>4, <1>12, <3>2, SameByCut
  <2>4. QED BY <2>1, <2>2, <2>3 DEF RoomTalk
<1>15. IsLog(log2, n)
  <2>1. Prefix(log2, log)
    BY <1>1, <1>4, <1>12, BeforeFacts
  <2>2. QED BY <1>4, <2>1, LogCut
<1>16. TurnForms'
  BY <1>2, <1>5 DEF TurnForms
<1>17. EditForms'
  BY <1>2, <1>4, <1>7, <1>9 DEF EditForms
<1>18. Touches(r)
  BY <1>1, <1>2, <1>4, <1>7, <1>8, SendsGrow DEF Touches, Spent
<1>19. WellForm(r)
  BY <1>1, <1>2, <1>4, <1>8, <1>15 DEF WellForm, Words
<1>20. QED BY <1>14, <1>16, <1>17, <1>18, <1>19, TouchedTalk

LEMMA EditFailsTalk ==
    ASSUME BoundsAssumption, Inv, TalkInv, "overlap" \notin harmed', EditFails
    PROVE  TalkInv'
<1>1. /\ edit # NoEdit /\ Fault /\ edit' = NoEdit
      /\ Harm(IF edit.phase = "done" THEN {"halfcut", "stale mark"} ELSE {})
      /\ UNCHANGED <<history, rooms, active, loaded, turn>>
  BY DEF EditFails, server, page
<1>2. /\ harmed \subseteq harmed' /\ "overlap" \notin harmed
      /\ (edit.phase = "done" => {"halfcut", "stale mark"} \subseteq harmed')
  BY <1>1 DEF Harm
<1>3. PICK r : r = edit.room
  OBVIOUS
<1>4. /\ turn = NoTurn /\ r \in DOMAIN rooms /\ edit.thread = rooms[r].thread
      /\ IsLog(Log(r), used.sends) /\ Words(r) # Unread /\ IsTalk(Words(r))
      /\ ~ rooms[r].restoring /\ AskedTurns(Words(r), used.sends) /\ RoomTalk(r)
  BY <1>1, <1>2, <1>3, EditFacts
<1>5. ~ Cutting(r)'
  BY <1>1 DEF Cutting, NoEdit
<1>6. RoomTalk(r)'
  <2>1. CASE edit.phase = "done"
    BY <1>2, <2>1 DEF RoomTalk, RoomKept, RoomForgotten, RoomCounted, Clean
  <2>2. CASE edit.phase # "done"
    <3>1. Untouched(r)
      BY <1>1, <1>4, <1>5, <2>2 DEF Untouched, SameRoom, Cutting
    <3>2. QED BY <1>2, <1>4, <3>1, UntouchedTalk
  <2>3. QED BY <2>1, <2>2
<1>7. Spent
  BY <1>1 DEF Spent, Fault
<1>8. used'.sends = used.sends
  BY <1>1 DEF Fault, Used, Inv, Shape, UsedInv, UsedNames
<1>9. TurnForms'
  BY <1>1, <1>4 DEF TurnForms
<1>10. EditForms'
  BY <1>1 DEF EditForms
<1>11. Touches(r)
  BY <1>1, <1>2, <1>3, <1>4, <1>7, HistoryForms, SendsGrow DEF Touches
<1>12. WellForm(r)
  BY <1>1, <1>4, <1>8 DEF WellForm, Words, Log
<1>13. QED BY <1>6, <1>9, <1>10, <1>11, <1>12, TouchedTalk

-----------------------------------------------------------------------------
(* Messages read from the server.                                           *)

\* list2 is list with the messages of r read.
ReadIn(list, list2, r, words) ==
    /\ DOMAIN list2 = DOMAIN list
    /\ \A x \in DOMAIN list \ {r} : list2[x] = list[x]
    /\ list2[r].messages = words /\ list2[r].thread = list[r].thread
    /\ list2[r].restoring = FALSE

LEMMA ReadWords ==
    ASSUME NEW list, NEW r \in DOMAIN list, NEW words, RoomForms(list)
    PROVE  ReadIn(list, [list EXCEPT ![r].restoring = FALSE, ![r].messages = words], r, words)
<1> DEFINE one == [list EXCEPT ![r].restoring = FALSE]
           two == [one EXCEPT ![r].messages = words]
<1>1. /\ DOMAIN one = DOMAIN list /\ RoomForms(one)
      /\ \A x \in DOMAIN list \ {r} : one[x] = list[x]
      /\ one[r].thread = list[r].thread /\ one[r].restoring = FALSE
  <2>1. DOMAIN one = DOMAIN list /\ \A x \in DOMAIN list \ {r} : one[x] = list[x]
    OBVIOUS
  <2>2. one[r] = [list[r] EXCEPT !.restoring = FALSE]
    OBVIOUS
  <2>3. list[r] = [thread |-> list[r].thread, title |-> list[r].title,
                   messages |-> list[r].messages, restoring |-> list[r].restoring]
    BY DEF RoomForms, IsRoom
  <2>4. one[r] = [thread |-> list[r].thread, title |-> list[r].title,
                  messages |-> list[r].messages, restoring |-> FALSE]
    BY <2>2, <2>3
  <2>5. IsRoom(one[r])
    BY <2>4 DEF IsRoom
  <2>6. one = [x \in DOMAIN one |-> one[x]]
    OBVIOUS
  <2>7. RoomForms(one)
    BY <2>1, <2>5, <2>6 DEF RoomForms
  <2>8. QED BY <2>1, <2>4, <2>7
<1> HIDE DEF one
<1>2. two = WithMessages(one, r, words)
  BY <1>1 DEF WithMessages
<1>3. /\ DOMAIN two = DOMAIN one /\ \A x \in DOMAIN one \ {r} : two[x] = one[x]
      /\ two[r].messages = words /\ two[r].thread = one[r].thread
      /\ two[r].restoring = one[r].restoring
  <2>1. r \in DOMAIN one
    BY <1>1
  <2>2. /\ DOMAIN WithMessages(one, r, words) = DOMAIN one
        /\ \A x \in DOMAIN one \ {r} : WithMessages(one, r, words)[x] = one[x]
        /\ WithMessages(one, r, words)[r].messages = words
        /\ WithMessages(one, r, words)[r].thread = one[r].thread
        /\ WithMessages(one, r, words)[r].restoring = one[r].restoring
    BY <1>1, <2>1, WithWords
  <2>3. QED BY ONLY <1>2, <2>2
<1>4. two = [list EXCEPT ![r].restoring = FALSE, ![r].messages = words]
  BY DEF one
<1> HIDE DEF two
<1>5. ReadIn(list, two, r, words)
  BY <1>1, <1>3 DEF ReadIn
<1>6. QED BY <1>4, <1>5

\* A room under restore has nothing to do with the turn or the edit under way.
LEMMA RestoringApart ==
    ASSUME BoundsAssumption, Inv, TalkInv, "overlap" \notin harmed, NEW r \in DOMAIN rooms,
           rooms[r].restoring
    PROVE  /\ ~ Asking(r) /\ (edit # NoEdit => edit.room # r) /\ ~ Cutting(r)
           /\ IsLog(Log(r), used.sends) /\ Words(r) = Unread
<1>1. ~ Asking(r)
  BY TurnFacts DEF Asking
<1>2. edit # NoEdit => edit.room # r
  BY EditFacts
<1>3. ~ Cutting(r)
  BY <1>2 DEF Cutting, NoEdit
<1>4. LogForms /\ TalkForms
  BY DEF TalkInv
<1>5. QED BY <1>1, <1>2, <1>3, <1>4, RoomThreads DEF LogForms, TalkForms, Log

\* The turn and the edit of other rooms are left as they are.
LEMMA OthersKept ==
    ASSUME BoundsAssumption, Inv, TalkInv, "overlap" \notin harmed, NEW r \in DOMAIN rooms,
           ~ Asking(r), (edit # NoEdit => edit.room # r),
           UNCHANGED <<turn, edit, history, loaded>>, used'.sends = used.sends,
           DOMAIN rooms' = DOMAIN rooms,
           \A x \in DOMAIN rooms \ {r} : rooms'[x] = rooms[x]
    PROVE  TurnForms' /\ EditForms'
<1>1. TurnForms /\ EditForms
  BY DEF TalkInv
<1>2. TurnForms'
  <2> SUFFICES ASSUME turn # NoTurn PROVE TurnForms'
    BY DEF TurnForms
  <2>1. PICK x : x = turn.room
    OBVIOUS
  <2>2. x \in DOMAIN rooms \ {r}
    BY <1>1, <2>1 DEF TurnForms, Asking
  <2>3. rooms'[x] = rooms[x] /\ Words(x)' = Words(x) /\ Log(x)' = Log(x)
    BY <2>2 DEF Words, Log
  <2>4. turn'.room = x
    BY <2>1
  <2>5. QED BY <1>1, <2>1, <2>2, <2>3, <2>4 DEF TurnForms, Words, Log
<1>3. EditForms'
  BY <1>1 DEF EditForms, Words
<1>4. QED BY <1>2, <1>3

LEMMA RestoreMessagesTalk ==
    ASSUME BoundsAssumption, Inv, TalkInv, "overlap" \notin harmed', NEW r \in DOMAIN rooms,
           RestoreMessages(r)
    PROVE  TalkInv'
<1>1. PICK log, n : log = Log(r) /\ n = used.sends
  OBVIOUS
<1>2. /\ rooms[r].restoring
      /\ rooms' = [rooms EXCEPT ![r].restoring = FALSE, ![r].messages = log]
      /\ UNCHANGED <<history, active, loaded, turn, edit, used, harmed>>
  BY <1>1 DEF RestoreMessages, server, ghosts, Log
<1>3. /\ ~ Asking(r) /\ (edit # NoEdit => edit.room # r) /\ ~ Cutting(r) /\ IsLog(log, n)
  BY <1>1, <1>2, RestoringApart
<1>4. /\ DOMAIN rooms' = DOMAIN rooms /\ rooms'[r].messages = log /\ rooms'[r].thread = rooms[r].thread
      /\ rooms'[r].restoring = FALSE
      /\ \A x \in DOMAIN rooms \ {r} : rooms'[x] = rooms[x]
  <2>1. RoomForms(rooms)
    BY DEF Inv, Shape, PageInv
  <2>2. ReadIn(rooms, [rooms EXCEPT ![r].restoring = FALSE, ![r].messages = log], r, log)
    BY <2>1, ReadWords
  <2>3. ReadIn(rooms, rooms', r, log)
    BY ONLY <1>2, <2>2
  <2>4. QED BY ONLY <2>3 DEF ReadIn
<1>5. Words(r)' = log /\ Log(r)' = log /\ ~ Cutting(r)' /\ ~ Asking(r)'
  BY <1>1, <1>2, <1>3, <1>4 DEF Words, Log, Cutting, Asking
<1>6. RoomTalk(r)'
  BY <1>3, <1>5, ReadTalk
<1>7. TurnForms' /\ EditForms'
  BY <1>2, <1>3, <1>4, OthersKept
<1>8. Touches(r)
  BY <1>2, <1>4, HistoryForms, SendsGrow DEF Touches, Spent
<1>9. IsTalk(log) /\ log # Unread /\ AskedTurns(log, n)
  BY <1>3, LogIsTalk
<1>10. WellForm(r)
  BY <1>1, <1>2, <1>3, <1>4, <1>9 DEF WellForm, Log
<1>11. QED BY <1>6, <1>7, <1>8, <1>10, TouchedTalk

LEMMA RestoreFailsTalk ==
    ASSUME BoundsAssumption, Inv, TalkInv, "overlap" \notin harmed', NEW r \in DOMAIN rooms,
           RestoreFails(r)
    PROVE  TalkInv'
<1>1. PICK log, n : log = Log(r) /\ n = used.sends
  OBVIOUS
<1>2. /\ rooms[r].restoring /\ Fault
      /\ rooms' = [rooms EXCEPT ![r].restoring = FALSE, ![r].messages = <<>>]
      /\ Harm({"unrestored"} \cup IF Answers(log) = {} THEN {} ELSE {"answers"})
      /\ UNCHANGED <<history, active, loaded, turn, edit>>
  BY <1>1 DEF RestoreFails, server, Log
<1>3. /\ harmed \subseteq harmed' /\ "overlap" \notin harmed /\ "unrestored" \in harmed'
      /\ ("answers" \notin harmed' => Answers(log) = {})
  BY <1>2 DEF Harm
<1>4. /\ ~ Asking(r) /\ (edit # NoEdit => edit.room # r) /\ ~ Cutting(r) /\ IsLog(log, n)
  BY <1>1, <1>2, <1>3, RestoringApart
<1>5. /\ DOMAIN rooms' = DOMAIN rooms /\ rooms'[r].messages = <<>> /\ rooms'[r].thread = rooms[r].thread
      /\ rooms'[r].restoring = FALSE
      /\ \A x \in DOMAIN rooms \ {r} : rooms'[x] = rooms[x]
  <2>1. RoomForms(rooms)
    BY DEF Inv, Shape, PageInv
  <2>2. ReadIn(rooms, [rooms EXCEPT ![r].restoring = FALSE, ![r].messages = <<>>], r, <<>>)
    BY <2>1, ReadWords
  <2>3. ReadIn(rooms, rooms', r, <<>>)
    BY ONLY <1>2, <2>2
  <2>4. QED BY ONLY <2>3 DEF ReadIn
<1>6. Words(r)' = <<>> /\ Log(r)' = log /\ ~ Cutting(r)' /\ ~ Asking(r)'
  BY <1>1, <1>2, <1>4, <1>5 DEF Words, Log, Cutting, Asking
<1>7. Told(r)' = <<>>
  BY <1>6 DEF Told
<1>8. RoomTalk(r)'
  <2>1. RoomKept(r)' /\ RoomForgotten(r)'
    BY <1>3 DEF RoomKept, RoomForgotten, Clean
  <2>2. RoomCounted(r)'
    <3> SUFFICES ASSUME Clean({"answers", "stale mark", "overlap"})'
                 PROVE  SameAnswers(<<>>, log)
      BY <1>6, <1>7 DEF RoomCounted
    <3>1. Answers(log) = {}
      BY <1>3 DEF Clean
    <3>2. QED BY <3>1, NoWords DEF SameAnswers, SameBy
  <2>3. QED BY <2>1, <2>2 DEF RoomTalk
<1>9. Spent /\ used'.sends = used.sends
  BY <1>2 DEF Spent, Fault, Used, Inv, Shape, UsedInv, UsedNames
<1>10. TurnForms' /\ EditForms'
  BY <1>2, <1>3, <1>4, <1>5, <1>9, OthersKept
<1>11. Touches(r)
  BY <1>2, <1>3, <1>5, <1>9, HistoryForms, SendsGrow DEF Touches
<1>12. WellForm(r)
  <2>1. IsTalk(<<>>) /\ AskedTurns(<<>>, n)
    BY NoWords
  <2>2. QED BY <1>1, <1>2, <1>4, <1>5, <1>9, <2>1, UnreadIsNoTalk DEF WellForm, Log
<1>13. QED BY <1>8, <1>10, <1>11, <1>12, TouchedTalk

-----------------------------------------------------------------------------
(* Page loads.                                                              *)

LEMMA ReloadTalk ==
    ASSUME BoundsAssumption, Inv, TalkInv, "overlap" \notin harmed', NEW copies \in BOOLEAN,
           Reload(copies)
    PROVE  TalkInv'
<1> DEFINE cut == (IF turn.phase = "answered" THEN {"answers"} ELSE {})
                  \cup (IF turn # NoTurn /\ ~ HoldsQuestion(history[turn.thread], turn.turn)
                        THEN {"unstored"} ELSE {})
                  \cup (IF edit.phase = "done" THEN {"halfcut", "stale mark"} ELSE {})
<1>1. /\ loaded' = [rooms |-> FALSE, marks |-> FALSE] /\ turn' = NoTurn /\ edit' = NoEdit
      /\ Used("reloads") /\ UNCHANGED history
      /\ rooms' = IF copies THEN [r \in DOMAIN rooms |-> [rooms[r] EXCEPT !.restoring = FALSE]]
                  ELSE <<>>
      /\ harmed' = (harmed \cup cut) \ IF copies THEN {} ELSE Cured
  BY DEF Reload, server
<1>2. "overlap" \notin Cured
  BY DEF Cured
<1>3. "overlap" \notin harmed
  BY <1>1, <1>2
<1>4. used'.sends = used.sends /\ used'.threads = used.threads
  BY <1>1 DEF Used, Inv, Shape, UsedInv, UsedNames
<1>5. LogForms /\ TalkForms /\ \A r \in DOMAIN rooms : RoomTalk(r)
  BY <1>3 DEF TalkInv
<1>6. LogForms'
  BY <1>1, <1>4, <1>5 DEF LogForms
<1>7. TurnForms' /\ EditForms'
  BY <1>1 DEF TurnForms, EditForms
<1>8. CASE ~ copies
  <2>1. DOMAIN rooms' = {} /\ ~ loaded'.rooms
    BY <1>1, <1>8, NoWords
  <2>2. QED BY <1>6, <1>7, <2>1 DEF TalkInv, TalkForms
<1>9. CASE copies
  <2>1. /\ DOMAIN rooms' = DOMAIN rooms
        /\ \A r \in DOMAIN rooms : /\ rooms'[r].messages = rooms[r].messages
                                   /\ rooms'[r].thread = rooms[r].thread
                                   /\ rooms'[r].restoring = FALSE
    <3>1. RoomForms(rooms)
      BY DEF Inv, Shape, PageInv
    <3>2. ASSUME NEW r \in DOMAIN rooms
          PROVE  [rooms[r] EXCEPT !.restoring = FALSE] =
                     [thread |-> rooms[r].thread, title |-> rooms[r].title,
                      messages |-> rooms[r].messages, restoring |-> FALSE]
      BY <3>1, RoomExcept DEF RoomForms
    <3>3. \A r \in DOMAIN rooms : rooms'[r] = [thread |-> rooms[r].thread, title |-> rooms[r].title,
                      messages |-> rooms[r].messages, restoring |-> FALSE]
      BY <1>1, <1>9, <3>2
    <3>4. QED BY <1>1, <1>9, <3>3
  <2>2. harmed' = harmed \cup cut
    BY <1>1, <1>9
  <2>3. /\ harmed \subseteq harmed'
        /\ turn.phase = "answered" => "answers" \in harmed'
        /\ turn # NoTurn /\ ~ HoldsQuestion(history[turn.thread], turn.turn) => "unstored" \in harmed'
        /\ edit.phase = "done" => {"halfcut", "stale mark"} \subseteq harmed'
    BY <2>2
  <2> HIDE DEF cut
  <2>4. TalkForms'
    BY <1>1, <1>4, <1>5, <2>1 DEF TalkForms, Words
  <2>5. ASSUME NEW r \in DOMAIN rooms' PROVE RoomTalk(r)'
    <3>1. CASE Cutting(r)
      BY <2>3, <3>1 DEF Cutting, RoomTalk, RoomKept, RoomForgotten, RoomCounted, Clean
    <3>2. CASE ~ Cutting(r)
      <4>1. Words(r)' = Words(r) /\ Log(r)' = Log(r) /\ ~ Cutting(r)' /\ ~ Asking(r)'
        BY <1>1, <2>1 DEF Words, Log, Cutting, Asking, NoEdit
      <4>2. Seen(r)' = Words(r) /\ Told(r)' = Words(r) /\ Seen(r) = Words(r)
        BY <3>2, <4>1 DEF Seen, Told
      <4>3. Asking(r) => Log(r) = history[turn.thread]
        BY <1>3, TurnFacts DEF Asking
      <4>4. SUFFICES ASSUME Words(r) # Unread PROVE RoomKept(r)' /\ RoomForgotten(r)' /\ RoomCounted(r)'
        BY <4>1 DEF RoomTalk
      <4>5. RoomKept(r) /\ RoomForgotten(r) /\ RoomCounted(r)
        BY <1>5, <2>1, <4>4 DEF RoomTalk
      <4>6. \A kinds : Clean(kinds)' => Clean(kinds)
        BY <2>3 DEF Clean
      <4>7. RoomKept(r)'
        BY <3>2, <4>1, <4>2, <4>5, <4>6 DEF RoomKept
      <4>8. RoomForgotten(r)'
        <5> SUFFICES ASSUME Clean({"unstored", "halfcut", "unrestored", "mixed", "overlap"})'
                     PROVE  Remembers(Words(r), Log(r)) /\ Total(Words(r)) <= Total(Log(r))
          BY <4>1, <4>2 DEF RoomForgotten
        <5>1. ~ (Asking(r) /\ ~ HoldsQuestion(Log(r), turn.turn))
          BY <2>3, <4>3 DEF Clean, Asking
        <5>2. QED BY <4>2, <4>5, <4>6, <5>1 DEF RoomForgotten
      <4>9. RoomCounted(r)'
        <5> SUFFICES ASSUME Clean({"answers", "stale mark", "overlap"})'
                     PROVE  SameAnswers(Words(r), Log(r))
          BY <4>1, <4>2 DEF RoomCounted
        <5>1. Told(r) = Words(r)
          BY <2>3 DEF Clean, Told
        <5>2. QED BY <3>2, <4>5, <4>6, <5>1 DEF RoomCounted
      <4>10. QED BY <4>7, <4>8, <4>9
    <3>3. QED BY <3>1, <3>2
  <2>6. QED BY <1>6, <1>7, <2>4, <2>5 DEF TalkInv
<1>10. QED BY <1>8, <1>9

-----------------------------------------------------------------------------
(* The conversations stay in step.                                          *)

LEMMA InitTalk == BoundsAssumption /\ Init => TalkInv
<1> SUFFICES ASSUME BoundsAssumption, Init PROVE TalkInv
  OBVIOUS
<1>1. /\ history = [t \in Thread |-> <<>>] /\ DOMAIN rooms = {1} /\ rooms[1] = EmptyRoom(1)
      /\ active = 1 /\ turn = NoTurn /\ edit = NoEdit /\ used.sends = 0 /\ used.threads = 1
  BY DEF Init
<1>2. /\ rooms[1].messages = <<>> /\ rooms[1].restoring = FALSE /\ rooms[1].thread = 1
      /\ rooms[1].messages # Unread
  BY <1>1, EmptyRoomWords
<1>3. 1 \in Thread
  BY DEF BoundsAssumption, Thread
<1>4. LogForms
  BY <1>1, NoWords DEF LogForms
<1>5. TalkForms
  BY <1>1, <1>2, NoWords DEF TalkForms, Words
<1>6. TurnForms /\ EditForms
  BY <1>1 DEF TurnForms, EditForms
<1>7. RoomTalk(1)
  <2>1. Words(1) = <<>> /\ Log(1) = <<>> /\ ~ Cutting(1) /\ ~ Asking(1)
    BY <1>1, <1>2, <1>3 DEF Words, Log, Cutting, Asking, NoEdit
  <2>2. Seen(1) = <<>> /\ Told(1) = <<>>
    BY <2>1 DEF Seen, Told
  <2>3. /\ Shows(<<>>, <<>>) /\ LastAsked(<<>>, <<>>) /\ Remembers(<<>>, <<>>)
        /\ SameAnswers(<<>>, <<>>) /\ Total(<<>>) <= Total(<<>>)
    BY NoWords DEF Shows, LastAsked, Remembers, SameAnswers, SameBy
  <2>4. QED BY <2>1, <2>2, <2>3 DEF RoomTalk, RoomKept, RoomForgotten, RoomCounted
<1>8. QED BY <1>1, <1>4, <1>5, <1>6, <1>7 DEF TalkInv

LEMMA NextTalk == BoundsAssumption /\ Inv /\ TalkInv /\ [Next]_vars => TalkInv'
<1> SUFFICES ASSUME BoundsAssumption, Inv, TalkInv, [Next]_vars, "overlap" \notin harmed'
             PROVE  TalkInv'
  BY DEF TalkInv
<1>1. CASE CreateRoom \/ ResetSession
  BY <1>1, CreateRoomCalm, CreateUnlistedCalm, ResetSessionCalm, CalmTalk
<1>2. CASE Send
  BY <1>2, SendTalk
<1>3. CASE \E r \in DOMAIN rooms :
              \/ SwitchRoom(r) \/ DeleteRoom(r)
              \/ RestoreMessages(r) \/ RestoreFails(r)
              \/ RenameRoom(r) \/ SetRoomModel(r)
  <2>1. PICK r \in DOMAIN rooms :
              \/ SwitchRoom(r) \/ DeleteRoom(r)
              \/ RestoreMessages(r) \/ RestoreFails(r)
              \/ RenameRoom(r) \/ SetRoomModel(r)
    BY <1>3
  <2>2. CASE SwitchRoom(r)
    BY <2>2, SwitchRoomCalm, CalmTalk
  <2>3. CASE DeleteRoom(r)
    BY <2>3, DeleteRoomCalm, CalmTalk
  <2>4. CASE RestoreMessages(r)
    BY <2>4, RestoreMessagesTalk
  <2>5. CASE RestoreFails(r)
    BY <2>5, RestoreFailsTalk
  <2>6. CASE RenameRoom(r) \/ SetRoomModel(r)
    <3>1. \E title : SendRow(r, title)
      BY <2>6 DEF RenameRoom, SetRoomModel
    <3>2. QED BY <3>1, SendRowCalm, CalmTalk
  <2>7. QED BY <2>1, <2>2, <2>3, <2>4, <2>5, <2>6
<1>4. CASE \E i \in DOMAIN Shown : Shown[i].role = "error" /\ RetryError(Shown[i])
  BY <1>4, RetryErrorTalk
<1>5. CASE \E k \in 0..(MaxTurns - 1) : SubmitEdit(k)
  <2>1. PICK k \in 0..(MaxTurns - 1) : SubmitEdit(k)
    BY <1>5
  <2>2. k \in Nat
    BY <2>1 DEF BoundsAssumption
  <2>3. QED BY <2>1, <2>2, SubmitEditTalk
<1>6. CASE \/ \E k \in 0..(Cardinality(Answers(Shown)) - 1) : ToggleMark(active, k)
           \/ \E m \in ShownMarks : ToggleMark(m.room, m.index)
           \/ \E i \in DOMAIN sent : Deliver(i) \/ Lose(i)
           \/ LoadMarks \/ LoadMarksFails
           \/ UNCHANGED vars
  <2>1. Calm
    BY <1>6, BookmarkStepsCalm
  <2>2. QED BY <2>1, CalmTalk
<1>7. CASE StoreQuestion \/ HearToken \/ StoreAnswer
  BY <1>7, StoreQuestionTalk, HearTokenTalk, StoreAnswerTalk
<1>8. CASE CompleteTurn \/ ModelFails \/ StopTurn
  BY <1>8, CompleteTurnTalk, ModelFailsTalk, StopTurnTalk
<1>9. CASE BreakConnection \/ \E retryable \in BOOLEAN : RefuseRequest(retryable)
  BY <1>9, TurnFailsTalk
<1>10. CASE TruncateThread \/ FinishEdit \/ EditFails
  BY <1>10, TruncateThreadTalk, FinishEditTalk, EditFailsTalk
<1>11. CASE \E copies \in BOOLEAN : Reload(copies)
  BY <1>11, ReloadTalk
<1>12. CASE LoadRooms \/ LoadRoomsFails
  BY <1>12, LoadRoomsCalm, LoadRoomsFailsCalm, CalmTalk
<1>13. QED BY <1>1, <1>2, <1>3, <1>4, <1>5, <1>6, <1>7, <1>8, <1>9, <1>10, <1>11, <1>12 DEF Next

\* Page and history stay in step in every behaviour: each shown answer comes
\* after no fewer questions than the stored one, each stored question after no
\* fewer than the shown one, and answers count the same on both sides, each as
\* long as the misfortunes that break it have not happened (useChatStream.js,
\* App.jsx, thread_service.py).
THEOREM ConversationsInStep == Spec => [](Inv /\ TalkInv)
<1>1. Init => TalkInv
  BY InitTalk, BoundsAssumption
<1>2. Inv /\ TalkInv /\ [Next]_vars => TalkInv'
  BY NextTalk, BoundsAssumption
<1>3. QED BY <1>1, <1>2, PageAndServerInStep, PTL DEF Spec

LEMMA TalkKeepsAnswers == TalkInv => ShownAnswersAreKept
<1> SUFFICES ASSUME TalkInv, Settled,
                    harmed \cap {"repeated", "late", "halfcut", "unrestored", "mixed", "overlap"} = {},
                    NEW r \in DOMAIN rooms, Readable(r)
             PROVE  LET shown == rooms[r].messages
                        log   == history[rooms[r].thread]
                    IN  \A i \in Answers(shown) : shown[i].whole =>
                            \E j \in Answers(log) : log[j].by = shown[i].by
  BY DEF ShownAnswersAreKept
<1>1. RoomTalk(r) /\ Words(r) # Unread /\ ~ Cutting(r)
  BY DEF TalkInv, Readable, Words, Settled, Cutting
<1>2. Shows(Words(r), Log(r))
  BY <1>1 DEF RoomTalk, RoomKept, Clean, Seen
<1>3. QED BY <1>2 DEF Shows, Words, Log

\* An answer the page shows in full is in the model's memory, whatever failed
\* before, unless a question was stored twice or asked again after later ones,
\* or the page missed a cut.
THEOREM AnswersAreKept == Spec => []ShownAnswersAreKept
<1>1. TalkInv => ShownAnswersAreKept
  BY TalkKeepsAnswers
<1>2. QED BY <1>1, ConversationsInStep, PTL

LEMMA TalkForgetsCuts == BoundsAssumption /\ Inv /\ TalkInv => CutMessagesAreForgotten
<1> SUFFICES ASSUME BoundsAssumption, Inv, TalkInv, Settled,
                    harmed \cap {"unstored", "halfcut", "unrestored", "mixed", "overlap"} = {},
                    NEW r \in DOMAIN rooms, Readable(r), NEW j \in DOMAIN Log(r)
             PROVE  \E i \in Questions(Words(r)) : Words(r)[i].turn = Log(r)[j].turn
  BY DEF CutMessagesAreForgotten, Words, Log
<1>1. RoomTalk(r) /\ Words(r) # Unread /\ ~ Cutting(r) /\ LogForms
  BY DEF TalkInv, Readable, Words, Settled, Cutting
<1>2. Remembers(Words(r), Log(r))
  BY <1>1 DEF RoomTalk, RoomForgotten, Clean, Seen
<1>3. IsLog(Log(r), used.sends)
  BY <1>1, RoomThreads DEF LogForms, Log
<1>4. \E q \in Questions(Log(r)) : Log(r)[q].turn = Log(r)[j].turn
  BY <1>3 DEF IsLog, Questions, Answers
<1>5. QED BY <1>2, <1>4 DEF Remembers

\* What an edit took off the page is gone from the model's memory: everything
\* stored in a room's thread belongs to a question the page shows, unless a
\* question was never stored or the page missed a cut.
THEOREM CutsAreForgotten == Spec => []CutMessagesAreForgotten
<1>1. Inv /\ TalkInv => CutMessagesAreForgotten
  BY TalkForgetsCuts, BoundsAssumption
<1>2. QED BY <1>1, ConversationsInStep, PTL

-----------------------------------------------------------------------------
(* Bookmarks and the answers they lead to.                                  *)

\* What a list of writes registers and drops.
Upserts(q) == {q[i].mark : i \in {j \in DOMAIN q : q[j].kind = "mark"}}
Drops(q)   == {q[i].mark : i \in {j \in DOMAIN q : q[j].kind = "dropMark"}}

\* The bookmarks that there will be, if nothing else happens.
Lasting(q, rows, kept) == (kept \cup rows \cup Upserts(q)) \ Drops(q)

\* A bookmark is registered before it is dropped.
DropsLast(q) ==
    \A i, j \in DOMAIN q :
        q[i].kind = "mark" /\ q[j].kind = "dropMark" /\ q[i].mark = q[j].mark => i < j

Leads(m, s) == \E i \in Answers(s) : Index(Answers(s), i) = m.index /\ s[i].by = m.by

\* The answer after a number of answers is one.
LEMMA AnswerOnce ==
    ASSUME NEW s, IsList(s), NEW i \in Answers(s), NEW j \in Answers(s),
           Index(Answers(s), i) = Index(Answers(s), j)
    PROVE  i = j
<1>1. Len(s) \in Nat /\ Answers(s) \in SUBSET (1..Len(s))
  BY Positions
<1>2. QED BY <1>1, IndexOnce

LEMMA LeadsMore ==
    ASSUME NEW m, NEW a, NEW b, Prefix(a, b), Leads(m, a)
    PROVE  Leads(m, b)
<1>1. PICK i \in Answers(a) : Index(Answers(a), i) = m.index /\ a[i].by = m.by
  BY DEF Leads
<1>2. IsList(a) /\ i \in DOMAIN a
  BY DEF Prefix, Answers
<1>3. i \in 1..(Len(a) + 1)
  BY <1>2, ListFacts
<1>4. i \in Answers(b) /\ b[i] = a[i] /\ Index(Answers(b), i) = Index(Answers(a), i)
  BY <1>1, <1>2, <1>3, PrefixFacts DEF Prefix
<1>5. QED BY <1>1, <1>4 DEF Leads

LEMMA LeadsCut ==
    ASSUME NEW m, NEW a, NEW b, Prefix(a, b), Leads(m, b), m.index < Cardinality(Answers(a))
    PROVE  Leads(m, a)
<1>1. PICK j \in Answers(b) : Index(Answers(b), j) = m.index /\ b[j].by = m.by
  BY DEF Leads
<1>2. IsList(a) /\ IsList(b)
  BY DEF Prefix
<1>3. m.index \in Nat
  BY <1>1, <1>2, AnswerIndex
<1>4. PICK i \in Answers(a) : Index(Answers(a), i) = m.index
  BY <1>2, <1>3, AnswerFound
<1>5. i \in DOMAIN a
  BY DEF Answers
<1>6. i \in 1..(Len(a) + 1)
  BY <1>2, <1>5, ListFacts
<1>7. i \in Answers(b) /\ b[i] = a[i] /\ Index(Answers(b), i) = m.index
  BY <1>4, <1>5, <1>6, PrefixFacts DEF Prefix
<1>8. i = j
  BY <1>1, <1>2, <1>7, AnswerOnce
<1>9. QED BY <1>1, <1>4, <1>7, <1>8 DEF Leads

LEMMA LeadsSame ==
    ASSUME NEW m, NEW a, NEW b, IsList(a), IsList(b), SameAnswers(a, b), Leads(m, a)
    PROVE  Leads(m, b)
<1>1. PICK i \in Answers(a) : Index(Answers(a), i) = m.index /\ a[i].by = m.by
  BY DEF Leads
<1>2. m.index \in Nat /\ m.index < Cardinality(Answers(a))
  BY <1>1, AnswerIndex
<1>3. Cardinality(Answers(a)) = Cardinality(Answers(b))
  BY DEF SameAnswers
<1>4. PICK j \in Answers(b) : Index(Answers(b), j) = m.index
  BY <1>2, <1>3, AnswerFound
<1>5. a[i].by = b[j].by
  BY <1>1, <1>4 DEF SameAnswers, SameBy
<1>6. QED BY <1>1, <1>4, <1>5 DEF Leads

-----------------------------------------------------------------------------
(* What lasts when writes are posted, and when one leaves the network.      *)

\* The page drops bookmarks and tells the server of each.
Dropping(p, kept, kept2) ==
    /\ IsList(p) /\ kept2 \subseteq kept
    /\ \A m \in kept \ kept2 : \E j \in DOMAIN p : p[j] = DropMark(m)
    /\ \A j \in DOMAIN p :
          /\ p[j].kind # "mark"
          /\ p[j].kind = "dropMark" => p[j].mark \in kept \ kept2

LEMMA LastingDropped ==
    ASSUME NEW q, NEW p, NEW rows, NEW kept, NEW kept2, IsList(q), Dropping(p, kept, kept2),
           DropsLast(q), kept \cap Drops(q) = {}
    PROVE  /\ Upserts(q \o p) = Upserts(q)
           /\ DropsLast(q \o p) /\ kept2 \cap Drops(q \o p) = {}
           /\ Lasting(q \o p, rows, kept2) \subseteq Lasting(q, rows, kept)
           /\ Lasting(q, rows, kept) \subseteq kept => Lasting(q \o p, rows, kept2) \subseteq kept2
<1>1. IsList(p)
  BY DEF Dropping
<1> DEFINE s == q \o p
<1>2. /\ \A i \in DOMAIN q : i \in DOMAIN s /\ s[i] = q[i]
      /\ \A j \in DOMAIN p : Len(q) + j \in DOMAIN s /\ s[Len(q) + j] = p[j]
      /\ \A i \in DOMAIN s : i \in DOMAIN q \/ \E j \in DOMAIN p : i = Len(q) + j
  <2>1. IsList(q) /\ IsList(p)
    BY <1>1
  <2>2. /\ IsList(q \o p)
        /\ Len(q \o p) = Len(q) + Len(p)
        /\ \A i \in DOMAIN q : i \in DOMAIN (q \o p) /\ (q \o p)[i] = q[i]
        /\ \A j \in DOMAIN p : /\ Len(q) + j \in DOMAIN (q \o p)
                               /\ (q \o p)[Len(q) + j] = p[j]
        /\ \A i \in DOMAIN (q \o p) :
              \/ i \in DOMAIN q
              \/ \E j \in DOMAIN p : i = Len(q) + j
    BY ONLY <2>1, ConcatList, Zenon
  <2>3. QED BY ONLY <2>2, Zenon
<1>3. Len(q) \in Nat /\ DOMAIN q = 1..Len(q) /\ Len(p) \in Nat /\ DOMAIN p = 1..Len(p)
  BY <1>1, ListFacts
<1> HIDE DEF s
<1>4. \A i \in DOMAIN s : s[i].kind = "mark" => i \in DOMAIN q
  BY <1>2 DEF Dropping
<1>5. Upserts(s) = Upserts(q)
  BY <1>2, <1>4 DEF Upserts
<1>6. Drops(s) = Drops(q) \cup (kept \ kept2)
  <2>1. \A m \in kept \ kept2 : m \in Drops(s)
    <3> TAKE m \in kept \ kept2
    <3>1. PICK j \in DOMAIN p : p[j] = DropMark(m)
      BY DEF Dropping
    <3>2. p[j].kind = "dropMark" /\ p[j].mark = m
      BY <3>1, WriteForms
    <3>3. QED BY <1>2, <3>2 DEF Drops
  <2>2. Drops(q) \subseteq Drops(s)
    BY <1>2 DEF Drops
  <2>3. \A d \in Drops(s) : d \in Drops(q) \/ d \in kept \ kept2
    BY <1>2 DEF Drops, Dropping
  <2>4. QED BY <2>1, <2>2, <2>3
<1>7. DropsLast(s)
  <2> SUFFICES ASSUME NEW i \in DOMAIN s, NEW j \in DOMAIN s,
                      s[i].kind = "mark", s[j].kind = "dropMark", s[i].mark = s[j].mark
               PROVE  i < j
    BY DEF DropsLast
  <2>1. i \in DOMAIN q /\ s[i] = q[i]
    BY <1>2, <1>4
  <2>2. CASE j \in DOMAIN q
    BY <1>2, <2>1, <2>2 DEF DropsLast
  <2>3. CASE \E h \in DOMAIN p : j = Len(q) + h
    BY <1>3, <2>1, <2>3
  <2>4. QED BY <1>2, <2>2, <2>3
<1>8. kept2 \cap Drops(s) = {}
  BY <1>6 DEF Dropping
<1>9. Lasting(s, rows, kept2) \subseteq Lasting(q, rows, kept)
  BY <1>5, <1>6 DEF Lasting, Dropping
<1>10. Lasting(q, rows, kept) \subseteq kept => Lasting(s, rows, kept2) \subseteq kept2
  BY <1>5, <1>6 DEF Lasting, Dropping
<1>11. QED BY <1>5, <1>7, <1>8, <1>9, <1>10 DEF s

LEMMA LastingAdded ==
    ASSUME NEW q, NEW a, NEW rows, NEW kept, IsList(q), DropsLast(q), kept \cap Drops(q) = {},
           a \notin Drops(q)
    PROVE  LET s == q \o <<UpsertMark(a)>>
           IN  /\ Upserts(s) = Upserts(q) \cup {a}
               /\ DropsLast(s) /\ (kept \cup {a}) \cap Drops(s) = {}
               /\ Lasting(s, rows, kept \cup {a}) \subseteq Lasting(q, rows, kept) \cup {a}
<1> DEFINE p == <<UpsertMark(a)>>
           s == q \o p
<1>1. IsList(p) /\ Len(p) = 1 /\ p[1] = UpsertMark(a) /\ DOMAIN p = 1..1
  BY OneList, ListFacts
<1> HIDE DEF p
<1>2. /\ \A i \in DOMAIN q : i \in DOMAIN s /\ s[i] = q[i]
      /\ \A j \in DOMAIN p : Len(q) + j \in DOMAIN s /\ s[Len(q) + j] = p[j]
      /\ \A i \in DOMAIN s : i \in DOMAIN q \/ \E j \in DOMAIN p : i = Len(q) + j
  <2>1. IsList(q) /\ IsList(p)
    BY <1>1
  <2>2. /\ IsList(q \o p)
        /\ Len(q \o p) = Len(q) + Len(p)
        /\ \A i \in DOMAIN q : i \in DOMAIN (q \o p) /\ (q \o p)[i] = q[i]
        /\ \A j \in DOMAIN p : /\ Len(q) + j \in DOMAIN (q \o p)
                               /\ (q \o p)[Len(q) + j] = p[j]
        /\ \A i \in DOMAIN (q \o p) :
              \/ i \in DOMAIN q
              \/ \E j \in DOMAIN p : i = Len(q) + j
    BY ONLY <2>1, ConcatList, Zenon
  <2>3. QED BY ONLY <2>2, Zenon
<1>3. Len(q) \in Nat /\ DOMAIN q = 1..Len(q)
  BY ListFacts
<1> HIDE DEF s
<1>4. UpsertMark(a).kind = "mark" /\ UpsertMark(a).mark = a
  BY WriteForms
<1>5. 1 \in DOMAIN p /\ \A j \in DOMAIN p : j = 1 /\ p[j] = UpsertMark(a)
  BY <1>1
<1>6. Len(q) + 1 \in DOMAIN s /\ s[Len(q) + 1] = UpsertMark(a)
  BY <1>2, <1>5
<1>7. \A i \in DOMAIN s : \/ i \in DOMAIN q /\ s[i] = q[i]
                          \/ i = Len(q) + 1 /\ s[i].kind = "mark" /\ s[i].mark = a
  BY <1>2, <1>4, <1>5, <1>6
<1>8. Upserts(s) = Upserts(q) \cup {a}
  <2>1. a \in Upserts(s) /\ Upserts(q) \subseteq Upserts(s)
    BY <1>2, <1>4, <1>6 DEF Upserts
  <2>2. \A d \in Upserts(s) : d \in Upserts(q) \/ d = a
    BY <1>7 DEF Upserts
  <2>3. QED BY <2>1, <2>2
<1>9. Drops(s) = Drops(q)
  <2>1. Drops(q) \subseteq Drops(s)
    BY <1>2 DEF Drops
  <2>2. \A d \in Drops(s) : d \in Drops(q)
    BY <1>7 DEF Drops
  <2>3. QED BY <2>1, <2>2
<1>10. DropsLast(s)
  <2> SUFFICES ASSUME NEW i \in DOMAIN s, NEW j \in DOMAIN s,
                      s[i].kind = "mark", s[j].kind = "dropMark", s[i].mark = s[j].mark
               PROVE  i < j
    BY DEF DropsLast
  <2>1. j \in DOMAIN q /\ s[j] = q[j] /\ s[j].mark \in Drops(q)
    BY <1>7 DEF Drops
  <2>2. i \in DOMAIN q /\ s[i] = q[i]
    BY <1>7, <2>1
  <2>3. QED BY <2>1, <2>2 DEF DropsLast
<1>11. (kept \cup {a}) \cap Drops(s) = {}
  BY <1>9
<1>12. Lasting(s, rows, kept \cup {a}) \subseteq Lasting(q, rows, kept) \cup {a}
  BY <1>8, <1>9 DEF Lasting
<1>13. QED BY <1>8, <1>10, <1>11, <1>12 DEF s, p

LEMMA LastingRemoved ==
    ASSUME NEW q, NEW k \in DOMAIN q, IsList(q), DropsLast(q)
    PROVE  LET s == RemoveAt(q, k)
           IN  /\ Upserts(s) \subseteq Upserts(q) /\ Drops(s) \subseteq Drops(q) /\ DropsLast(s)
               /\ \A d \in Drops(q) \ Drops(s) : q[k].kind = "dropMark" /\ q[k].mark = d
               /\ q[k].kind = "dropMark" /\ (\A j \in 1..(k - 1) : ~ Needs(q[k], q[j]))
                  => q[k].mark \notin Upserts(q)
<1> DEFINE s == RemoveAt(q, k)
<1>1. /\ IsList(s)
      /\ \A i \in DOMAIN s : Origin(k, i) \in DOMAIN q \ {k} /\ s[i] = q[Origin(k, i)]
      /\ \A j \in DOMAIN q \ {k} : \E i \in DOMAIN s : Origin(k, i) = j
  BY RemoveAtList
<1> HIDE DEF s
<1>2. DOMAIN q = 1..Len(q) /\ Len(q) \in Nat /\ DOMAIN s = 1..Len(s) /\ Len(s) \in Nat
  BY <1>1, ListFacts
<1>3. Upserts(s) \subseteq Upserts(q)
  BY <1>1 DEF Upserts
<1>4. Drops(s) \subseteq Drops(q)
  BY <1>1 DEF Drops
<1>5. DropsLast(s)
  <2> SUFFICES ASSUME NEW i \in DOMAIN s, NEW j \in DOMAIN s,
                      s[i].kind = "mark", s[j].kind = "dropMark", s[i].mark = s[j].mark
               PROVE  i < j
    BY DEF DropsLast
  <2>1. Origin(k, i) < Origin(k, j)
    BY <1>1 DEF DropsLast
  <2>2. QED BY <1>2, <2>1 DEF Origin
<1>6. \A d \in Drops(q) \ Drops(s) : q[k].kind = "dropMark" /\ q[k].mark = d
  <2> TAKE d \in Drops(q) \ Drops(s)
  <2>1. PICK j \in DOMAIN q : q[j].kind = "dropMark" /\ q[j].mark = d
    BY DEF Drops
  <2>2. CASE j = k
    BY <2>1, <2>2
  <2>3. CASE j # k
    BY <1>1, <2>1, <2>3 DEF Drops
  <2>4. QED BY <2>2, <2>3
<1>7. ASSUME q[k].kind = "dropMark", \A j \in 1..(k - 1) : ~ Needs(q[k], q[j])
      PROVE  q[k].mark \notin Upserts(q)
  <2> SUFFICES ASSUME NEW i \in DOMAIN q, q[i].kind = "mark", q[i].mark = q[k].mark
               PROVE  FALSE
    BY DEF Upserts
  <2>1. i < k
    BY <1>7 DEF DropsLast
  <2>2. i \in 1..(k - 1)
    BY <1>2, <2>1
  <2>3. Needs(q[k], q[i])
    BY <1>7 DEF Needs, RoomWrite
  <2>4. QED BY <1>7, <2>2, <2>3
<1>8. QED BY <1>3, <1>4, <1>5, <1>6, <1>7 DEF s

-----------------------------------------------------------------------------
(* The inductive invariant of the bookmarks.                                *)

\* What no bookmark survives.
Strays == {"answers", "stale mark", "overlap"}

Lasts == Lasting(sent, marked, marks)

\* What is shown of a room, or will be.
Source(r) == IF Words(r) = Unread THEN Log(r) ELSE Words(r)

MarkRooms == \A m \in marks \cup marked \cup Upserts(sent) : m.room \in 1..used.threads

\* What will be deleted is no bookmark of the page, and a page that has read its
\* bookmarks has all that last.
MarksLast ==
    /\ marks \cap Drops(sent) = {} /\ DropsLast(sent)
    /\ loaded.marks => Lasts \subseteq marks

Leading(r) == \A m \in Lasts : m.room = r => Leads(m, Source(r))

\* The room of a bookmark comes from the server as this browser has it, or with
\* the thread whose history holds the answer.
Recovered(m, list) ==
    m.room \in DOMAIN list =>
        \/ m.room \in DOMAIN rooms /\ list[m.room].thread = rooms[m.room].thread
        \/ Leads(m, history[list[m.room].thread])

\* A page that waits for its rooms will be given those in which bookmarks lead to
\* their answers.
Recoverable == ~ loaded.rooms /\ "rooms" \notin astray =>
    \E list : RoomsInStep(sent, stored, list) /\ \A m \in Lasts : Recovered(m, list)

MarkTalk ==
    /\ MarkRooms
    /\ Clean(Strays) => /\ MarksLast /\ Recoverable
                        /\ \A r \in DOMAIN rooms : Leading(r)

LEMMA CleanBefore ==
    ASSUME harmed \subseteq harmed', Clean(Strays)'
    PROVE  Clean(Strays)
BY DEF Clean, Strays

LEMMA CleanNames ==
    /\ Clean(Strays) => "answers" \notin harmed /\ "stale mark" \notin harmed /\ "overlap" \notin harmed
BY DEF Clean, Strays

LEMMA CleanNamesNext ==
    Clean(Strays)' => "answers" \notin harmed' /\ "stale mark" \notin harmed' /\ "overlap" \notin harmed'
BY DEF Clean, Strays

-----------------------------------------------------------------------------
(* Steps that leave the bookmarks.                                          *)

\* Whatever the room led to, it leads to.
Follow(r) == /\ r \in DOMAIN rooms
             /\ \A m : Leads(m, Source(r)) => Leads(m, Source(r)')

LEMMA QuietMarks ==
    ASSUME BoundsAssumption, Inv, MarkTalk, Quiet, harmed \subseteq harmed',
           ~ loaded.rooms => history' = history,
           Clean(Strays)' => \A r \in DOMAIN rooms : Follow(r)
    PROVE  MarkTalk'
<1>1. UNCHANGED <<stored, marked, sent, marks, loaded>> /\ used'.threads = used.threads
      /\ astray \subseteq astray' /\ DOMAIN rooms' = DOMAIN rooms
  BY DEF Quiet, SameRows
<1>2. Lasts' = Lasts
  BY <1>1 DEF Lasts
<1>3. MarkRooms'
  BY <1>1 DEF MarkTalk, MarkRooms
<1>4. ASSUME Clean(Strays)'
      PROVE  MarksLast' /\ Recoverable' /\ \A r \in DOMAIN rooms' : Leading(r)'
  <2>1. MarksLast /\ Recoverable /\ \A r \in DOMAIN rooms : Leading(r)
    BY <1>4, CleanBefore DEF MarkTalk
  <2>2. MarksLast'
    BY <1>1, <1>2, <2>1 DEF MarksLast
  <2>3. Recoverable'
    <3>1. \A r \in DOMAIN rooms : rooms'[r].thread = rooms[r].thread
      BY DEF Quiet, SameRows, SameRow
    <3>2. QED BY <1>1, <1>2, <2>1, <3>1 DEF Recoverable, Recovered
  <2>4. ASSUME NEW r \in DOMAIN rooms' PROVE Leading(r)'
    <3>1. Follow(r) /\ Leading(r)
      BY <1>1, <1>4, <2>1
    <3>2. QED BY <1>2, <3>1 DEF Leading, Follow
  <2>5. QED BY <2>2, <2>3, <2>4
<1>5. QED BY <1>3, <1>4 DEF MarkTalk

\* What a step of the page that posts writes leaves to show.
LEMMA PostedMarks ==
    ASSUME BoundsAssumption, Inv, MarkTalk, Posting, harmed \subseteq harmed'
    PROVE  /\ MarkRooms'
           /\ Clean(Strays)' => /\ MarksLast' /\ Lasts' \subseteq Lasts
                                /\ loaded.marks => Lasts \subseteq marks /\ Lasts' \subseteq marks'
<1>1. PICK p, x : Posts(p, x)
  BY DEF Posting
<1>2. IsList(p) /\ IsList(sent) /\ sent' = sent \o p /\ marked' = marked /\ loaded' = loaded
  BY <1>1 DEF Posts, Post, Inv, Shape, SentInv
<1>3. Dropping(p, marks, marks')
  BY <1>1, <1>2 DEF Posts, MarksStep, Dropping
<1>4. used.threads \in Nat /\ used'.threads \in Nat /\ used.threads <= used'.threads
  BY <1>1 DEF Posts, NamesStep, UsedInv, UsedNames, Inv, Shape, Fresh
<1>5. Upserts(sent') \subseteq Upserts(sent)
  <2>1. \A i \in DOMAIN sent' : \/ i \in DOMAIN sent /\ sent'[i] = sent[i]
                                \/ \E j \in DOMAIN p : sent'[i] = p[j]
    BY <1>1, <1>2, Posted DEF Posts
  <2>2. QED BY <1>3, <2>1 DEF Upserts, Dropping
<1>6. MarkRooms'
  BY <1>2, <1>3, <1>4, <1>5 DEF MarkTalk, MarkRooms, Dropping
<1>7. ASSUME Clean(Strays)'
      PROVE  /\ MarksLast' /\ Lasts' \subseteq Lasts
             /\ loaded.marks => Lasts \subseteq marks /\ Lasts' \subseteq marks'
  <2>1. DropsLast(sent) /\ marks \cap Drops(sent) = {} /\ (loaded.marks => Lasts \subseteq marks)
    BY <1>7, CleanBefore DEF MarkTalk, MarksLast
  <2>2. PICK q : q = sent
    OBVIOUS
  <2>3. PICK kept, kept2, rows : kept = marks /\ kept2 = marks' /\ rows = marked
    OBVIOUS
  <2>4. IsList(q) /\ Dropping(p, kept, kept2) /\ DropsLast(q) /\ kept \cap Drops(q) = {}
    BY <1>2, <1>3, <2>1, <2>2, <2>3
  <2>5. /\ DropsLast(q \o p) /\ kept2 \cap Drops(q \o p) = {}
        /\ Lasting(q \o p, rows, kept2) \subseteq Lasting(q, rows, kept)
        /\ Lasting(q, rows, kept) \subseteq kept => Lasting(q \o p, rows, kept2) \subseteq kept2
    BY ONLY <2>4, LastingDropped
  <2>6. Lasts = Lasting(q, rows, kept) /\ Lasts' = Lasting(q \o p, rows, kept2)
    BY <1>2, <2>2, <2>3 DEF Lasts
  <2>7. QED BY <1>2, <2>1, <2>2, <2>3, <2>5, <2>6 DEF MarksLast
<1>8. QED BY <1>6, <1>7

\* It remains to say where the bookmarks of each room lead.
LEMMA PostingMarks ==
    ASSUME BoundsAssumption, Inv, MarkTalk, Posting, harmed \subseteq harmed',
           loaded.rooms \/ (Clean(Strays)' => Recoverable'),
           Clean(Strays)' => \A r \in DOMAIN rooms' :
              \/ Follow(r)
              \/ r \notin 1..used.threads
              \/ loaded.marks /\ \A m \in marks' : m.room = r =>
                    r \in DOMAIN rooms /\ (Leads(m, Source(r)) => Leads(m, Source(r)'))
    PROVE  MarkTalk'
<1>1. MarkRooms'
  BY PostedMarks
<1>2. ASSUME Clean(Strays)'
      PROVE  MarksLast' /\ Recoverable' /\ \A r \in DOMAIN rooms' : Leading(r)'
  <2>1. /\ MarksLast' /\ Lasts' \subseteq Lasts
        /\ loaded.marks => Lasts \subseteq marks /\ Lasts' \subseteq marks'
    BY <1>2, PostedMarks
  <2>2. \A r \in DOMAIN rooms : Leading(r)
    BY <1>2, CleanBefore DEF MarkTalk
  <2>3. \A m \in Lasts : m.room \in 1..used.threads
    BY DEF MarkTalk, MarkRooms, Lasts, Lasting
  <2>4. Recoverable'
    <3>1. loaded' = loaded
      BY DEF Posting, Posts
    <3>2. QED BY <1>2, <3>1 DEF Recoverable
  <2>5. ASSUME NEW r \in DOMAIN rooms', NEW m \in Lasts', m.room = r PROVE Leads(m, Source(r)')
    <3>1. m \in Lasts /\ r \in 1..used.threads
      BY <2>1, <2>3, <2>5
    <3>2. CASE Follow(r)
      BY <2>2, <2>5, <3>1, <3>2 DEF Follow, Leading
    <3>3. CASE loaded.marks /\ \A n \in marks' : n.room = r =>
                    r \in DOMAIN rooms /\ (Leads(n, Source(r)) => Leads(n, Source(r)'))
      BY <2>1, <2>2, <2>5, <3>1, <3>3 DEF Leading
    <3>4. QED BY <1>2, <3>1, <3>2, <3>3
  <2>6. \A r \in DOMAIN rooms' : Leading(r)'
    BY <2>5 DEF Leading
  <2>7. QED BY <2>1, <2>4, <2>6
<1>3. QED BY <1>1, <1>2 DEF MarkTalk

-----------------------------------------------------------------------------
(* Rooms that lead where they led.                                          *)

LEMMA SameRoomFollows ==
    ASSUME NEW r, SameRoom(r), history'[rooms[r].thread] = history[rooms[r].thread]
    PROVE  Follow(r)
<1>1. Words(r)' = Words(r) /\ Log(r)' = Log(r) /\ r \in DOMAIN rooms
  BY DEF SameRoom, Words, Log
<1>2. Source(r)' = Source(r)
  BY <1>1 DEF Source
<1>3. QED BY <1>1, <1>2 DEF Follow

LEMMA AllFollow ==
    ASSUME history' = history, \A r \in DOMAIN rooms : SameRoom(r)
    PROVE  \A r \in DOMAIN rooms : Follow(r)
BY SameRoomFollows

\* More is shown.
LEMMA GrownFollows ==
    ASSUME NEW r \in DOMAIN rooms, Words(r) # Unread, Words(r)' # Unread, Prefix(Words(r), Words(r)')
    PROVE  Follow(r)
<1>1. PICK w, w2 : w = Words(r) /\ w2 = Words(r)'
  OBVIOUS
<1>2. Source(r) = w /\ Source(r)' = w2
  BY <1>1 DEF Source
<1>3. \A m : Leads(m, w) => Leads(m, w2)
  BY <1>1, LeadsMore
<1>4. QED BY <1>2, <1>3 DEF Follow

\* Only the words of room r, and the history of its thread, change.
OneRoom(r) ==
    /\ r \in DOMAIN rooms /\ \A x \in DOMAIN rooms \ {r} : SameRoom(x)
    /\ \A t \in Thread \ {rooms[r].thread} : history'[t] = history[t]

LEMMA OneRoomFollows ==
    ASSUME BoundsAssumption, Inv, NEW r, OneRoom(r), Follow(r)
    PROVE  \A x \in DOMAIN rooms : Follow(x)
<1> SUFFICES ASSUME NEW x \in DOMAIN rooms, x # r PROVE Follow(x)
  OBVIOUS
<1>1. r \in DOMAIN rooms /\ SameRoom(x)
  BY DEF OneRoom
<1>2. rooms[x].thread \in Thread \ {rooms[r].thread}
  BY <1>1, RoomThreads, ThreadsApart DEF Inv
<1>3. history'[rooms[x].thread] = history[rooms[x].thread]
  BY <1>2 DEF OneRoom
<1>4. QED BY <1>1, <1>3, SameRoomFollows

-----------------------------------------------------------------------------
(* The quiet steps.                                                         *)

LEMMA SwitchRoomMarks ==
    ASSUME BoundsAssumption, Inv, MarkTalk, NEW r \in DOMAIN rooms, SwitchRoom(r)
    PROVE  MarkTalk'
<1>1. UNCHANGED history /\ harmed \subseteq harmed' /\ rooms' = Opened(rooms, r)
  BY HarmGrows DEF SwitchRoom, server
<1>2. RoomForms(rooms)
  BY DEF Inv, Shape, PageInv
<1>3. \A x \in DOMAIN rooms : SameRoom(x)
  BY <1>1, <1>2, OpenedWords DEF SameRoom
<1>4. QED BY <1>1, <1>3, AllFollow, SwitchRoomQuiet, QuietMarks

LEMMA SubmitEditMarks ==
    ASSUME BoundsAssumption, Inv, MarkTalk, NEW k, SubmitEdit(k)
    PROVE  MarkTalk'
<1>1. UNCHANGED <<history, rooms>> /\ harmed \subseteq harmed'
  BY HarmGrows DEF SubmitEdit, server, page
<1>2. \A x \in DOMAIN rooms : SameRoom(x)
  BY <1>1 DEF SameRoom
<1>3. QED BY <1>1, <1>2, AllFollow, SubmitEditQuiet, QuietMarks

LEMMA EditFailsMarks ==
    ASSUME BoundsAssumption, Inv, MarkTalk, EditFails
    PROVE  MarkTalk'
<1>1. UNCHANGED <<history, rooms>> /\ harmed \subseteq harmed'
  BY HarmGrows DEF EditFails, server, page
<1>2. \A x \in DOMAIN rooms : SameRoom(x)
  BY <1>1 DEF SameRoom
<1>3. QED BY <1>1, <1>2, AllFollow, EditFailsQuiet, QuietMarks

LEMMA StutterMarks ==
    ASSUME BoundsAssumption, Inv, MarkTalk, UNCHANGED vars
    PROVE  MarkTalk'
<1>1. UNCHANGED <<history, rooms, harmed>>
  BY DEF vars, server, page, ghosts
<1>2. \A x \in DOMAIN rooms : SameRoom(x)
  BY <1>1 DEF SameRoom
<1>3. QED BY <1>1, <1>2, AllFollow, StutterQuiet, QuietMarks

\* What the server stores of a turn is not yet shown.
LEMMA TurnStoresMarks ==
    ASSUME BoundsAssumption, Inv, TalkInv, MarkTalk, StoreQuestion \/ HearToken \/ StoreAnswer
    PROVE  MarkTalk'
<1>1. UNCHANGED rooms /\ harmed \subseteq harmed' /\ turn.phase # "none"
  BY HarmGrows DEF StoreQuestion, HearToken, StoreAnswer, page, ghosts
<1>2. turn # NoTurn
  BY <1>1 DEF NoTurn
<1>3. history' = history \/ \E x : history' = [history EXCEPT ![turn.thread] = x]
  BY DEF StoreQuestion, HearToken, StoreAnswer, server
<1>4. loaded.rooms
  BY <1>2 DEF Inv, Shape, PageInv
<1>5. ASSUME Clean(Strays)' PROVE \A x \in DOMAIN rooms : Follow(x)
  <2>1. "overlap" \notin harmed
    BY <1>1, <1>5, CleanBefore, CleanNames
  <2>2. PICK r : r = turn.room
    OBVIOUS
  <2>3. r \in DOMAIN rooms /\ turn.thread = rooms[r].thread /\ Words(r) # Unread
    BY <1>2, <2>1, <2>2, TurnFacts
  <2>4. \A t \in Thread \ {rooms[r].thread} : history'[t] = history[t]
    BY <1>3, <2>1, <2>3, HistoryForms
  <2>5. OneRoom(r)
    BY <1>1, <2>3, <2>4 DEF OneRoom, SameRoom
  <2>6. Words(r)' = Words(r)
    BY <1>1 DEF Words
  <2>7. Source(r)' = Source(r)
    BY <2>3, <2>6 DEF Source
  <2>8. Follow(r)
    BY <2>3, <2>7 DEF Follow
  <2>9. QED BY <2>5, <2>8, OneRoomFollows
<1>6. QED BY <1>1, <1>4, <1>5, TurnStoresQuiet, QuietMarks

LEMMA HeardList ==
    /\ IsList(Heard) /\ \A x : IsList(<<x>>) /\ IsList(Heard \o <<x>>)
<1>1. IsList(Heard)
  BY OneList, EmptyList DEF Heard
<1>2. ASSUME NEW x PROVE IsList(<<x>>) /\ IsList(Heard \o <<x>>)
  <2>1. IsList(<<x>>)
    BY OneList
  <2>2. QED BY <1>1, <2>1, HoldsConcat
<1>3. QED BY <1>1, <1>2

\* A turn that ends adds to what its room shows.
LEMMA EndTurnFollows ==
    ASSUME BoundsAssumption, Inv, TalkInv, "overlap" \notin harmed, turn # NoTurn,
           UNCHANGED history, NEW shown, IsList(shown), EndTurn(shown)
    PROVE  \A r \in DOMAIN rooms : Follow(r)
<1>1. PICK r, w, w2 : r = turn.room /\ w = Words(turn.room) /\ w2 = Held(rooms, turn.room) \o shown
  OBVIOUS
<1>2. rooms' = WithMessages(rooms, r, w2)
  BY <1>1 DEF EndTurn, Appended
<1>3. /\ r \in DOMAIN rooms /\ IsTalk(w) /\ w # Unread /\ w2 = w \o shown /\ w = Words(r)
      /\ Questions(w) # {}
  BY <1>1, TurnFacts
<1>4. /\ rooms'[r].messages = w2 /\ DOMAIN rooms' = DOMAIN rooms
      /\ \A x \in DOMAIN rooms \ {r} : rooms'[x] = rooms[x]
  <2>1. RoomForms(rooms)
    BY DEF Inv, Shape, PageInv
  <2>2. r \in DOMAIN rooms
    BY <1>3
  <2>3. QED BY ONLY <1>2, <2>1, <2>2, WithWords
<1>5. Prefix(w, w2)
  BY <1>3, PrefixConcat DEF IsTalk
<1>6. w2 # Unread
  <2>1. PICK q \in Questions(w) : q \in DOMAIN w
    BY <1>3 DEF Questions
  <2>2. q \in Questions(w2)
    BY <1>5, <2>1, PrefixFacts
  <2>3. QED BY <2>2, UnreadIsNoTalk
<1>7. Words(r)' = w2
  BY <1>4 DEF Words
<1>8. Follow(r)
  BY <1>3, <1>5, <1>6, <1>7, GrownFollows
<1>9. OneRoom(r)
  BY <1>3, <1>4 DEF OneRoom, SameRoom
<1>10. QED BY <1>8, <1>9, OneRoomFollows

LEMMA TurnEndsMarks ==
    ASSUME BoundsAssumption, Inv, TalkInv, MarkTalk, CompleteTurn \/ ModelFails \/ StopTurn
    PROVE  MarkTalk'
<1>1. \E shown : EndTurn(shown) /\ IsList(shown)
  BY HeardList DEF CompleteTurn, ModelFails, StopTurn
<1>2. PICK shown : EndTurn(shown) /\ IsList(shown)
  BY <1>1
<1>3. UNCHANGED history /\ harmed \subseteq harmed' /\ turn # NoTurn
  <2>1. harmed \subseteq harmed'
    BY <1>2, HarmGrows DEF EndTurn
  <2>2. NoTurn.phase = "none"
    BY DEF NoTurn
  <2>3. QED BY <2>1, <2>2 DEF CompleteTurn, ModelFails, StopTurn, server
<1>4. ASSUME Clean(Strays)' PROVE \A x \in DOMAIN rooms : Follow(x)
  <2>1. "overlap" \notin harmed
    BY <1>3, <1>4, CleanBefore, CleanNames
  <2>2. QED BY <1>2, <1>3, <2>1, EndTurnFollows
<1>5. QED BY <1>3, <1>4, TurnEndsQuiet, QuietMarks

LEMMA TurnFailsMarks ==
    ASSUME BoundsAssumption, Inv, TalkInv, MarkTalk, NEW retryable, TurnFails(retryable), turn # NoTurn
    PROVE  MarkTalk'
<1>1. UNCHANGED history /\ harmed \subseteq harmed'
  <2>1. harmed \subseteq harmed'
    <3>1. CASE MayRetry(retryable)
      BY <3>1, HarmGrows DEF TurnFails
    <3>2. CASE ~ MayRetry(retryable)
      BY <3>2, HarmGrows DEF TurnFails, EndTurn
    <3>3. QED BY <3>1, <3>2
  <2>2. QED BY <2>1 DEF TurnFails, server
<1>2. ASSUME Clean(Strays)' PROVE \A x \in DOMAIN rooms : Follow(x)
  <2>1. "overlap" \notin harmed
    BY <1>1, <1>2, CleanBefore, CleanNames
  <2>2. CASE MayRetry(retryable)
    <3>1. UNCHANGED rooms
      BY <2>2 DEF TurnFails
    <3>2. \A x \in DOMAIN rooms : SameRoom(x)
      BY <3>1 DEF SameRoom
    <3>3. QED BY <1>1, <3>2, AllFollow
  <2>3. CASE ~ MayRetry(retryable)
    <3>1. \E shown : EndTurn(shown) /\ IsList(shown)
      BY <2>3, HeardList DEF TurnFails
    <3>2. QED BY <1>1, <2>1, <3>1, EndTurnFollows
  <2>4. QED BY <2>2, <2>3
<1>3. QED BY <1>1, <1>2, TurnFailsQuiet, QuietMarks

\* A bubble that goes is no answer.
LEMMA RetryErrorMarks ==
    ASSUME BoundsAssumption, Inv, TalkInv, MarkTalk, NEW bubble, RetryError(bubble)
    PROVE  MarkTalk'
<1>1. PICK r, words, w : /\ r = active /\ words = Words(active)
                         /\ w = WithoutBubble(Held(rooms, active), bubble.text)
  OBVIOUS
<1>2. /\ loaded.rooms /\ turn = NoTurn /\ UNCHANGED history
      /\ rooms' = WithMessages(rooms, r, w)
      /\ \E kinds : Harm(Overlap \cup kinds)
  BY <1>1 DEF RetryError, Idle, server
<1>3. harmed \subseteq harmed' /\ ("overlap" \notin harmed' => "overlap" \notin Overlap)
  BY <1>2 DEF Harm
<1>4. ASSUME Clean(Strays)' PROVE \A x \in DOMAIN rooms : Follow(x)
  <2>1. "overlap" \notin harmed /\ "overlap" \notin Overlap
    BY <1>3, <1>4, CleanBefore, CleanNames, CleanNamesNext
  <2>2. /\ r \in DOMAIN rooms /\ IsTalk(words) /\ words # Unread /\ Held(rooms, r) = words
        /\ words = Words(r)
    BY <1>1, <1>2, <2>1, IdleRoom
  <2>3. PICK f : Embeds(f, w, words)
    BY <1>1, <2>2, BubbleGone
  <2>4. IsTalk(w) /\ w # Unread /\ IsList(w) /\ IsList(words)
    BY <2>2, <2>3, TalkEmbedded, UnreadIsNoTalk DEF IsTalk
  <2>5. SameAnswers(words, w)
    BY <2>3, SameAnswersEmbedded, SameAnswersBack
  <2>6. \A m : Leads(m, words) => Leads(m, w)
    BY <2>4, <2>5, LeadsSame
  <2>7. /\ rooms'[r].messages = w /\ DOMAIN rooms' = DOMAIN rooms
        /\ \A x \in DOMAIN rooms \ {r} : rooms'[x] = rooms[x]
    <3>1. RoomForms(rooms)
      BY DEF Inv, Shape, PageInv
    <3>2. QED BY <1>2, <2>2, <3>1, WithWords
  <2>8. Source(r) = words /\ Source(r)' = w
    BY <2>2, <2>4, <2>7 DEF Source, Words
  <2>9. Follow(r)
    BY <2>2, <2>6, <2>8 DEF Follow
  <2>10. OneRoom(r)
    BY <1>2, <2>2, <2>7 DEF OneRoom, SameRoom
  <2>11. QED BY <2>9, <2>10, OneRoomFollows
<1>5. QED BY <1>2, <1>3, <1>4, RetryErrorQuiet, QuietMarks

\* Words read from the server are those the bookmarks led to.
LEMMA RestoreMarks ==
    ASSUME BoundsAssumption, Inv, TalkInv, MarkTalk, NEW r \in DOMAIN rooms,
           RestoreMessages(r) \/ RestoreFails(r)
    PROVE  MarkTalk'
<1>1. PICK log, w : log = Log(r) /\ w = IF RestoreMessages(r) THEN log ELSE <<>>
  OBVIOUS
<1>2. /\ rooms[r].restoring /\ UNCHANGED history /\ harmed \subseteq harmed'
      /\ rooms' = [rooms EXCEPT ![r].restoring = FALSE, ![r].messages = w]
      /\ w = log \/ (Answers(log) # {} => "answers" \in harmed')
  <2>1. CASE RestoreMessages(r)
    <3>1. /\ rooms[r].restoring /\ UNCHANGED <<history, harmed>>
          /\ rooms' = [rooms EXCEPT ![r].restoring = FALSE, ![r].messages = log]
      BY <1>1, <2>1 DEF RestoreMessages, server, ghosts, Log
    <3>2. QED BY <1>1, <2>1, <3>1
  <2>2. CASE ~ RestoreMessages(r)
    <3>1. /\ rooms[r].restoring /\ UNCHANGED history
          /\ rooms' = [rooms EXCEPT ![r].restoring = FALSE, ![r].messages = <<>>]
          /\ Harm({"unrestored"} \cup IF Answers(log) = {} THEN {} ELSE {"answers"})
      BY <1>1, <2>2 DEF RestoreFails, server, Log
    <3>2. harmed \subseteq harmed' /\ (Answers(log) # {} => "answers" \in harmed')
      BY <3>1 DEF Harm
    <3>3. QED BY <1>1, <2>2, <3>1, <3>2
  <2>3. QED BY <2>1, <2>2
<1>3. ASSUME Clean(Strays)' PROVE \A x \in DOMAIN rooms : Follow(x)
  <2>1. "overlap" \notin harmed /\ (w = log \/ Answers(log) = {})
    BY <1>2, <1>3, CleanBefore, CleanNames, CleanNamesNext
  <2>2. IsLog(log, used.sends) /\ Words(r) = Unread
    BY <1>1, <1>2, <2>1, RestoringApart
  <2>3. w # Unread
    BY <1>1, <2>2, LogIsTalk, NoWords, UnreadIsNoTalk
  <2>4. \A m : Leads(m, log) => Leads(m, w)
    BY <2>1 DEF Leads
  <2>5. /\ DOMAIN rooms' = DOMAIN rooms /\ rooms'[r].messages = w
        /\ \A x \in DOMAIN rooms \ {r} : rooms'[x] = rooms[x]
    <3>1. RoomForms(rooms)
      BY DEF Inv, Shape, PageInv
    <3>2. ReadIn(rooms, [rooms EXCEPT ![r].restoring = FALSE, ![r].messages = w], r, w)
      BY <3>1, ReadWords
    <3>3. ReadIn(rooms, rooms', r, w)
      BY ONLY <1>2, <3>2
    <3>4. QED BY ONLY <3>3 DEF ReadIn
  <2>6. Source(r) = log /\ Source(r)' = w
    BY <1>1, <2>2, <2>3, <2>5 DEF Source, Words
  <2>7. Follow(r)
    BY <2>4, <2>6 DEF Follow
  <2>8. OneRoom(r)
    BY <1>2, <2>5 DEF OneRoom, SameRoom
  <2>9. QED BY <2>7, <2>8, OneRoomFollows
<1>4. QED BY <1>2, <1>3, RestoreQuiet, QuietMarks

-----------------------------------------------------------------------------
(* Steps of the page that post writes.                                      *)

LEMMA TurnPhase == \A t : t.phase = "asking" => t # NoTurn
BY DEF NoTurn

LEMMA CreateRoomMarks ==
    ASSUME BoundsAssumption, Inv, MarkTalk, CreateRoom, loaded.rooms
    PROVE  MarkTalk'
<1>1. UNCHANGED <<history, harmed>> /\ loaded.rooms
  BY DEF CreateRoom, server, ghosts
<1>2. /\ DOMAIN rooms' = DOMAIN rooms \cup {Fresh}
      /\ \A r \in DOMAIN rooms \ {Fresh} : rooms'[r] = rooms[r]
  BY DEF CreateRoom, WithRoom
<1>3. Fresh \notin 1..used.threads
  BY FreshName
<1>4. \A r \in DOMAIN rooms' \ {Fresh} : Follow(r)
  BY <1>1, <1>2, SameRoomFollows DEF SameRoom
<1>5. QED BY <1>1, <1>3, <1>4, CreateRoomPosts, PostingMarks

\* A room made while the page waits for its rooms is one more that will come.
LEMMA CreateUnlistedMarks ==
    ASSUME BoundsAssumption, Inv, MarkTalk, CreateRoom, ~ loaded.rooms
    PROVE  MarkTalk'
<1>1. /\ UNCHANGED <<history, stored, marked, rooms, marks, loaded, harmed, astray>>
      /\ Fresh <= MaxThreads /\ Used("threads") /\ Post(<<UpsertRoom(Fresh, EmptyRoom(Fresh))>>)
  BY DEF CreateRoom, server, ghosts
<1>2. PICK p, w : w = UpsertRoom(Fresh, EmptyRoom(Fresh)) /\ p = <<w>>
  OBVIOUS
<1>3. IsList(p) /\ \A j \in DOMAIN p : p[j] = w
  BY <1>2, OneList, ListFacts
<1>4. Holds(p, w) /\ w.kind = "room" /\ w.room = Fresh /\ RoomWrite(w)
  BY <1>2, HoldsOne, WriteForms
<1>5. IsList(sent) /\ used.threads \in Nat /\ used'.threads = Fresh /\ Fresh = used.threads + 1
  BY <1>1 DEF Inv, Shape, SentInv, UsedInv, UsedNames, Used, Fresh
<1>6. /\ \A i \in DOMAIN sent : i \in DOMAIN sent' /\ sent'[i] = sent[i]
      /\ \A i \in DOMAIN sent' : (i \in DOMAIN sent /\ sent'[i] = sent[i]) \/ sent'[i] = w
  BY <1>1, <1>2, <1>3, <1>5, Posted
<1>7. Upserts(sent') = Upserts(sent) /\ Drops(sent') = Drops(sent)
  BY <1>4, <1>6 DEF Upserts, Drops
<1>8. Lasts' = Lasts
  BY <1>1, <1>7 DEF Lasts, Lasting
<1>9. MarkRooms'
  BY <1>1, <1>5, <1>7 DEF MarkTalk, MarkRooms
<1>10. ASSUME Clean(Strays)'
       PROVE  MarksLast' /\ Recoverable' /\ \A r \in DOMAIN rooms' : Leading(r)'
  <2>1. MarksLast /\ Recoverable /\ \A r \in DOMAIN rooms : Leading(r)
    BY <1>1, <1>10, CleanBefore DEF MarkTalk
  <2>2. DropsLast(sent')
    BY <1>4, <1>6, <2>1 DEF MarksLast, DropsLast
  <2>3. MarksLast'
    BY <1>1, <1>7, <1>8, <2>1, <2>2 DEF MarksLast
  <2>4. \A r \in DOMAIN rooms' : Leading(r)'
    <3>1. \A r : Source(r)' = Source(r)
      BY <1>1 DEF Source, Words, Log
    <3>2. QED BY <1>1, <1>8, <2>1, <3>1 DEF Leading
  <2>5. Recoverable'
    <3> SUFFICES ASSUME "rooms" \notin astray
                 PROVE  \E list : RoomsInStep(sent', stored, list) /\ \A m \in Lasts : Recovered(m, list)'
      BY <1>1, <1>8 DEF Recoverable
    <3>1. PICK list : RoomsInStep(sent, stored, list) /\ \A m \in Lasts : Recovered(m, list)
      BY <2>1 DEF Recoverable
    <3>2. PICK list2 : list2 = WithRoom(list, Fresh, EmptyRoom(Fresh))
      OBVIOUS
    <3>3. /\ DOMAIN list2 = DOMAIN list \cup {Fresh} /\ list2[Fresh] = EmptyRoom(Fresh)
          /\ \A r \in DOMAIN list \ {Fresh} : list2[r] = list[r]
      BY <3>2 DEF WithRoom
    <3>4. \A i \in DOMAIN sent : RoomWrite(sent[i]) => sent[i].room \in Thread
      BY DEF Inv, Shape, SentInv, UsedInv, UsedNames, Thread, BoundsAssumption
    <3>5. Agrees(w, list2)
      BY <1>2, <1>4, <3>3, EmptyRoomForm, WriteForms DEF Agrees, SameRow
    <3>6. ASSUME NEW r \in Thread, r # Fresh PROVE AgreeOn(r, list, list2)
      BY <3>3, <3>6 DEF AgreeOn, SameRow
    <3>7. \E j \in DOMAIN p : About(p[j], Fresh)
      BY <1>3, <1>4 DEF Holds, About
    <3>8. RoomsInStep(sent \o p, stored, list2)
      BY <1>3, <1>5, <3>1, <3>4, <3>5, <3>6, <3>7, RoomsPosted
    <3>9. \A m \in Lasts : m.room \in 1..used.threads
      BY DEF MarkTalk, MarkRooms, Lasts, Lasting
    <3>10. \A m \in Lasts : m.room # Fresh
      BY <3>9, FreshName
    <3>11. \A m \in Lasts : Recovered(m, list2)'
      BY <1>1, <3>1, <3>3, <3>10 DEF Recovered
    <3>12. QED BY <1>1, <1>2, <3>8, <3>11 DEF Post
  <2>6. QED BY <2>3, <2>4, <2>5
<1>11. QED BY <1>9, <1>10 DEF MarkTalk

LEMMA SendRowMarks ==
    ASSUME BoundsAssumption, Inv, MarkTalk, NEW r \in DOMAIN rooms, NEW title, SendRow(r, title)
    PROVE  MarkTalk'
<1>1. /\ UNCHANGED <<history, harmed>> /\ loaded.rooms /\ rooms' = [rooms EXCEPT ![r].title = title]
  BY DEF SendRow, server, ghosts
<1>2. RoomForms(rooms)
  BY DEF Inv, Shape, PageInv
<1>3. /\ DOMAIN rooms' = DOMAIN rooms
      /\ \A x \in DOMAIN rooms : /\ rooms'[x].messages = rooms[x].messages
                                 /\ rooms'[x].thread = rooms[x].thread
  BY <1>1, <1>2, TitledWords
<1>4. \A x \in DOMAIN rooms' : Follow(x)
  BY <1>1, <1>3, AllFollow DEF SameRoom
<1>5. QED BY <1>1, <1>4, SendRowPosts, PostingMarks

\* The bookmarks of the room that is emptied are dropped.
LEMMA ResetSessionMarks ==
    ASSUME BoundsAssumption, Inv, MarkTalk, ResetSession
    PROVE  MarkTalk'
<1>1. /\ UNCHANGED history /\ loaded.rooms /\ marks' = marks \ MarksOf(active)
      /\ Harm(Overlap \cup Early) /\ rooms' = [rooms EXCEPT ![active] = EmptyRoom(Fresh)]
  BY DEF ResetSession, server
<1>2. harmed \subseteq harmed' /\ (~ loaded.marks => "overlap" \in harmed')
  BY <1>1 DEF Harm, Early
<1>3. active \in DOMAIN rooms
  BY <1>1 DEF Inv, Shape, PageInv
<1>4. DOMAIN rooms' = DOMAIN rooms /\ \A r \in DOMAIN rooms \ {active} : rooms'[r] = rooms[r]
  BY <1>1, <1>3
<1>5. \A r \in DOMAIN rooms \ {active} : Follow(r)
  BY <1>1, <1>4, SameRoomFollows DEF SameRoom
<1>6. loaded.marks => \A m \in marks' : m.room # active
  BY <1>1, ShownFinite
<1>7. ASSUME Clean(Strays)', NEW r \in DOMAIN rooms'
      PROVE  \/ Follow(r)
             \/ r \notin 1..used.threads
             \/ loaded.marks /\ \A m \in marks' : m.room = r =>
                    r \in DOMAIN rooms /\ (Leads(m, Source(r)) => Leads(m, Source(r)'))
  BY <1>2, <1>4, <1>5, <1>6, <1>7, CleanNamesNext
<1>8. QED BY <1>1, <1>2, <1>7, ResetSessionPosts, PostingMarks

LEMMA DeleteRoomMarks ==
    ASSUME BoundsAssumption, Inv, MarkTalk, NEW r \in DOMAIN rooms, DeleteRoom(r)
    PROVE  MarkTalk'
<1> DEFINE left == [x \in DOMAIN rooms \ {r} |-> rooms[x]]
<1>1. UNCHANGED history /\ loaded.rooms /\ harmed \subseteq harmed'
  <2>1. \E kinds : Harm(kinds)
    BY DEF DeleteRoom
  <2>2. QED BY <2>1, HarmGrows DEF DeleteRoom, server, Idle
<1>2. \/ rooms' = [x \in {Fresh} |-> EmptyRoom(x)]
      \/ rooms' = Opened(left, active') /\ active' \in (DOMAIN left \cup {active}) \ {r}
  BY DEF DeleteRoom
<1>3. RoomForms(left) /\ DOMAIN left = DOMAIN rooms \ {r} /\ \A x \in DOMAIN left : left[x] = rooms[x]
  BY DEF Inv, Shape, PageInv, RoomForms
<1> HIDE DEF left
<1>4. Fresh \notin 1..used.threads /\ active \in DOMAIN rooms
  BY <1>1, FreshName DEF Inv, Shape, PageInv
<1>5. ASSUME NEW x \in DOMAIN rooms', x # Fresh PROVE Follow(x)
  <2>1. rooms' = Opened(left, active') /\ active' \in DOMAIN left
    BY <1>2, <1>3, <1>4, <1>5
  <2>2. PICK a : a = active'
    OBVIOUS
  <2>3. DOMAIN rooms' = DOMAIN left
        /\ \A y \in DOMAIN left : /\ rooms'[y].messages = left[y].messages
                                  /\ rooms'[y].thread = left[y].thread
    BY <1>3, <2>1, <2>2, OpenedWords
  <2>4. QED BY <1>1, <1>3, <1>5, <2>3, SameRoomFollows DEF SameRoom
<1>6. QED BY <1>1, <1>4, <1>5, DeleteRoomPosts, PostingMarks

LEMMA SendMarks ==
    ASSUME BoundsAssumption, Inv, TalkInv, TalkInv', MarkTalk, Send
    PROVE  MarkTalk'
<1>1. /\ UNCHANGED <<history, marks>> /\ loaded.rooms /\ turn = NoTurn /\ Harm(Overlap)
  BY DEF Send, server, Idle
<1>2. harmed \subseteq harmed' /\ ("overlap" \notin harmed' => "overlap" \notin Overlap)
  BY <1>1 DEF Harm
<1>3. PICK t : SendMessage(active, t, rooms, <<>>)
  BY DEF Send
<1>4. ASSUME Clean(Strays)' PROVE \A x \in DOMAIN rooms' : Follow(x)
  <2>1. "overlap" \notin harmed /\ "overlap" \notin harmed' /\ "overlap" \notin Overlap
    BY <1>2, <1>4, CleanBefore, CleanNames, CleanNamesNext
  <2>2. PICK r, w : r = active /\ w = Words(active)
    OBVIOUS
  <2>3. /\ r \in DOMAIN rooms /\ IsTalk(w) /\ w # Unread /\ Held(rooms, r) = w /\ w = Words(r)
    BY <1>1, <2>1, <2>2, IdleRoom
  <2>4. RoomForms(rooms) /\ SendMessage(r, t, rooms, <<>>)
    BY <1>3, <2>2 DEF Inv, Shape, PageInv
  <2>5. /\ DOMAIN rooms' = DOMAIN rooms
        /\ \A x \in DOMAIN rooms : /\ rooms'[x].thread = rooms[x].thread
                                   /\ rooms'[x].restoring = rooms[x].restoring
        /\ \A x \in DOMAIN rooms \ {r} : rooms'[x].messages = rooms[x].messages
        /\ rooms'[r].messages = Held(rooms, r) \o <<Question(used.sends + 1)>>
        /\ turn' = [phase |-> "asking", room |-> r, thread |-> t, turn |-> used.sends + 1,
                    by |-> used.attempts + 1, tries |-> 0, heard |-> FALSE]
    BY <2>3, <2>4, SendMessageWords
  <2>6. PICK x : x = Question(used.sends + 1)
    OBVIOUS
  <2>7. Words(r)' = w \o <<x>> /\ Words(r) = w
    BY <2>3, <2>5, <2>6 DEF Words
  <2>8. Prefix(w, w \o <<x>>)
    BY <2>3, OneMoreConcat DEF IsTalk, OneMore
  <2>9. Words(r)' # Unread
    <3>1. turn'.phase = "asking" /\ turn'.room = r
      BY <2>5
    <3>2. turn' # NoTurn
      BY <3>1, TurnPhase
    <3>3. TurnForms'
      BY <2>1 DEF TalkInv
    <3>4. Words(turn.room)' # Unread
      BY <3>2, <3>3 DEF TurnForms
    <3>5. QED BY <3>1, <3>4 DEF Words
  <2>10. Follow(r)
    BY <2>3, <2>7, <2>8, <2>9, GrownFollows
  <2>11. OneRoom(r)
    BY <1>1, <2>3, <2>5 DEF OneRoom, SameRoom
  <2>12. QED BY <2>5, <2>10, <2>11, OneRoomFollows
<1>5. QED BY <1>1, <1>2, <1>4, SendPosts, PostingMarks

\* The bookmarks that the page keeps lead to answers that it keeps.
LEMMA KeptLeads ==
    ASSUME NEW m, NEW words, NEW k \in Nat, IsList(words), NEW x,
           Leads(m, words), ~ m.index >= Cardinality(Answers(Before(words, k)))
    PROVE  Leads(m, Before(words, k) \o <<x>>)
<1> DEFINE w == Before(words, k)
<1>1. Prefix(w, words)
  BY BeforeFacts
<1> HIDE DEF w
<1>2. IsList(w)
  BY <1>1 DEF Prefix
<1>3. PICK j \in Answers(words) : Index(Answers(words), j) = m.index
  BY DEF Leads
<1>4. m.index \in Nat /\ Cardinality(Answers(w)) \in Nat
  BY <1>2, <1>3, AnswerIndex, Positions
<1>5. m.index < Cardinality(Answers(w))
  BY <1>4 DEF w
<1>6. Leads(m, w)
  BY <1>1, <1>5, LeadsCut
<1>7. Prefix(w, w \o <<x>>)
  BY <1>2, OneMoreConcat DEF OneMore
<1>8. Leads(m, w \o <<x>>)
  BY <1>6, <1>7, LeadsMore
<1>9. QED BY <1>8 DEF w

LEMMA FinishEditMarks ==
    ASSUME BoundsAssumption, Inv, TalkInv, TalkInv', MarkTalk, FinishEdit
    PROVE  MarkTalk'
<1> DEFINE kept == KeptMessages(edit.messages, edit.k)
           left == Cardinality(Answers(kept))
<1>1. /\ edit.phase = "done" /\ UNCHANGED history
      /\ \E writes : SendMessage(edit.room, edit.thread, WithMessages(rooms, edit.room, kept), writes)
      /\ marks' = marks \ MarksFrom(edit.room, left)
      /\ harmed \subseteq harmed'
  BY HarmGrows DEF FinishEdit, server
<1>2. edit # NoEdit
  BY <1>1 DEF NoEdit
<1>3. loaded.rooms
  BY <1>2 DEF Inv, Shape, PageInv
<1> HIDE DEF kept
<1>4. PICK r, w, words, list, k : /\ r = edit.room /\ w = kept /\ list = WithMessages(rooms, r, w)
                                  /\ k = edit.k /\ words = Words(edit.room)
  OBVIOUS
<1>5. ASSUME Clean(Strays)', NEW x \in DOMAIN rooms'
      PROVE  \/ Follow(x)
             \/ x \notin 1..used.threads
             \/ loaded.marks /\ \A m \in marks' : m.room = x =>
                    x \in DOMAIN rooms /\ (Leads(m, Source(x)) => Leads(m, Source(x)'))
  <2>1. "overlap" \notin harmed /\ "overlap" \notin harmed'
    BY <1>1, <1>5, CleanBefore, CleanNames, CleanNamesNext
  <2>2. /\ loaded.marks /\ r \in DOMAIN rooms /\ edit.thread = rooms[r].thread
        /\ words = Words(r) /\ words = edit.messages /\ IsTalk(words) /\ words # Unread /\ k \in Nat
    BY <1>2, <1>4, <2>1, EditFacts
  <2>3. w = Before(words, k) /\ IsList(words)
    BY <1>4, <2>2 DEF kept, KeptMessages, IsTalk
  <2>4. RoomForms(rooms) /\ RoomForms(list)
    BY <1>4, MessagesRows, SameRowsForms DEF Inv, Shape, PageInv
  <2>5. /\ DOMAIN list = DOMAIN rooms /\ list[r].messages = w /\ w # Unread
        /\ \A y \in DOMAIN rooms \ {r} : list[y] = rooms[y]
    <3>1. /\ DOMAIN list = DOMAIN rooms /\ list[r].messages = w
          /\ \A y \in DOMAIN rooms \ {r} : list[y] = rooms[y]
      BY <1>4, <2>2, <2>4, WithWords
    <3>2. IsTalk(w)
      BY <2>2, <2>3, BeforeFacts, TalkCut
    <3>3. QED BY <3>1, <3>2, UnreadIsNoTalk
  <2>6. PICK writes : SendMessage(r, edit.thread, list, writes)
    BY <1>1, <1>4
  <2>7. PICK n, t, by : n = Question(used.sends + 1) /\ t = used.sends + 1 /\ by = used.attempts + 1
    OBVIOUS
  <2>8. /\ DOMAIN rooms' = DOMAIN list
        /\ \A y \in DOMAIN list : rooms'[y].thread = list[y].thread
        /\ \A y \in DOMAIN list \ {r} : rooms'[y].messages = list[y].messages
        /\ rooms'[r].messages = Held(list, r) \o <<n>>
        /\ turn' = [phase |-> "asking", room |-> r, thread |-> edit.thread, turn |-> t,
                    by |-> by, tries |-> 0, heard |-> FALSE]
    <3>1. r \in DOMAIN list
      BY <2>2, <2>5
    <3>2. QED BY <2>4, <2>6, <2>7, <3>1, SendMessageWords
  <2>9. Words(r)' = w \o <<n>>
    BY <2>5, <2>8 DEF Words, Held
  <2>10. Words(r)' # Unread
    <3>1. turn'.phase = "asking" /\ turn'.room = r
      BY <2>8
    <3>2. turn' # NoTurn
      BY <3>1, TurnPhase
    <3>3. TurnForms'
      BY <2>1 DEF TalkInv
    <3>4. Words(turn.room)' # Unread
      BY <3>2, <3>3 DEF TurnForms
    <3>5. QED BY <3>1, <3>4 DEF Words
  <2>11. Source(r) = words /\ Source(r)' = w \o <<n>>
    BY <2>2, <2>9, <2>10 DEF Source
  <2>12. CASE x = r
    <3> SUFFICES ASSUME NEW m \in marks', m.room = r, Leads(m, words)
                 PROVE  Leads(m, w \o <<n>>)
      BY <2>2, <2>11, <2>12
    <3>1. m \notin MarksFrom(r, Cardinality(Answers(w))) /\ m \in marks
      BY <1>1, <1>4
    <3>2. ~ m.index >= Cardinality(Answers(w))
      BY <2>2, <3>1 DEF MarksFrom, MarksOf, ShownMarks
    <3>3. QED BY <2>2, <2>3, <3>2, KeptLeads
  <2>13. CASE x # r
    <3>1. SameRoom(x)
      BY <1>5, <2>5, <2>8, <2>13 DEF SameRoom
    <3>2. QED BY <1>1, <3>1, SameRoomFollows
  <2>14. QED BY <2>12, <2>13
<1>6. QED BY <1>1, <1>3, <1>5, FinishEditPosts, PostingMarks

-----------------------------------------------------------------------------
(* Bookmarks set and taken off.                                             *)

\* Writes of bookmarks say nothing of rooms.
LEMMA RoomsKept ==
    ASSUME BoundsAssumption, Inv, NEW p, IsList(p), \A j \in DOMAIN p : ~ RoomWrite(p[j]),
           NEW list, RoomsInStep(sent, stored, list)
    PROVE  RoomsInStep(sent \o p, stored, list)
<1>1. \A i \in DOMAIN sent : RoomWrite(sent[i]) => sent[i].room \in Thread
  BY DEF Inv, Shape, SentInv, UsedInv, UsedNames, Thread, BoundsAssumption
<1>2. \A r \in Thread : AgreeOn(r, list, list)
  BY DEF AgreeOn, SameRow
<1>3. IsList(sent)
  BY DEF Inv, Shape, SentInv
<1>4. QED BY <1>1, <1>2, <1>3, RoomsPosted

LEMMA MarkDroppedMarks ==
    ASSUME BoundsAssumption, Inv, MarkTalk, NEW D, D \subseteq marks, marks' = marks \ D,
           Post(Requests(DropMark, D)),
           UNCHANGED <<stored, marked, loaded, rooms, active, turn, edit, astray, used, history>>,
           harmed' \subseteq Misfortune, harmed \subseteq harmed'
    PROVE  MarkTalk'
<1>1. Posting
  BY MarksRemoved
<1>2. \A x \in DOMAIN rooms : Follow(x)
  BY AllFollow DEF SameRoom
<1>3. ASSUME Clean(Strays)' PROVE Recoverable'
  <2>1. Recoverable /\ Lasts' \subseteq Lasts
    BY <1>1, <1>3, CleanBefore, PostedMarks DEF MarkTalk
  <2>2. PICK p : p = Requests(DropMark, D)
    OBVIOUS
  <2>3. IsFiniteSet(D)
    BY FS_Subset DEF Inv, Shape, FiniteInv
  <2>4. IsList(p) /\ \A x : Holds(p, x) <=> \E m \in D : x = DropMark(m)
    BY <2>2, <2>3, HoldsDrops
  <2>5. IsList(sent) /\ sent' = sent \o p
    BY <2>2 DEF Post, Inv, Shape, SentInv
  <2>6. \A j \in DOMAIN p : ~ RoomWrite(p[j])
    BY <2>4, WriteForms DEF Holds
  <2>7. ASSUME NEW list, RoomsInStep(sent, stored, list)
        PROVE  RoomsInStep(sent', stored, list)
    BY <2>4, <2>5, <2>6, <2>7, RoomsKept
  <2>8. QED BY <2>1, <2>7 DEF Recoverable, Recovered
<1>4. QED BY <1>1, <1>2, <1>3, PostingMarks

LEMMA MarkSetMarks ==
    ASSUME BoundsAssumption, Inv, MarkTalk, NEW added, added.room = active, added.id = used.marks + 1,
           Used("marks"), Post(<<UpsertMark(added)>>), loaded.rooms,
           UNCHANGED <<stored, marked, loaded, rooms, astray, history>>,
           harmed \subseteq harmed',
           marks' = IF loaded.marks THEN marks \cup {added} ELSE marks,
           Clean(Strays)' => loaded.marks /\ Leads(added, Source(active))
    PROVE  MarkTalk'
<1>1. IsList(sent) /\ sent' = sent \o <<UpsertMark(added)>>
  BY DEF Post, Inv, Shape, SentInv
<1>2. active \in DOMAIN rooms /\ active \in 1..used.threads
  <2>1. active \in DOMAIN rooms
    BY DEF Inv, Shape, PageInv
  <2>2. QED BY <2>1, OwnedNames DEF Inv
<1>3. used'.threads = used.threads
  BY DEF Inv, Shape, UsedInv, UsedNames, Used
<1>4. Upserts(sent') \subseteq Upserts(sent) \cup {added}
  <2>1. \A i \in DOMAIN sent' : \/ i \in DOMAIN sent /\ sent'[i] = sent[i]
                                \/ \E j \in DOMAIN <<UpsertMark(added)>> : sent'[i] = <<UpsertMark(added)>>[j]
    BY <1>1, OneList, Posted
  <2>2. \A j \in DOMAIN <<UpsertMark(added)>> : <<UpsertMark(added)>>[j] = UpsertMark(added)
    BY OneList, ListFacts
  <2>3. \A i \in DOMAIN sent' : \/ i \in DOMAIN sent /\ sent'[i] = sent[i]
                                \/ sent'[i] = UpsertMark(added)
    BY <2>1, <2>2
  <2>4. QED BY <2>3, WriteForms DEF Upserts
<1>5. MarkRooms'
  BY <1>2, <1>3, <1>4 DEF MarkTalk, MarkRooms
<1>6. ASSUME Clean(Strays)'
      PROVE  MarksLast' /\ Recoverable' /\ \A r \in DOMAIN rooms' : Leading(r)'
  <2>1. /\ loaded.marks /\ marks' = marks \cup {added} /\ Leads(added, Source(active))
        /\ MarksLast /\ \A r \in DOMAIN rooms : Leading(r)
    BY <1>6, CleanBefore DEF MarkTalk
  <2>2. added \notin Drops(sent)
    <3>1. \A m \in MarksIn(sent) : m.id \in 1..used.marks
      BY DEF Inv, MarkNames, Circulating
    <3>2. Drops(sent) \subseteq MarksIn(sent)
      BY DEF Drops, MarksIn, MarkWrite
    <3>3. used.marks \in Nat
      BY DEF Inv, Shape, UsedInv, UsedNames
    <3>4. QED BY <3>1, <3>2, <3>3
  <2>3. PICK q, kept, rows : q = sent /\ kept = marks /\ rows = marked
    OBVIOUS
  <2>4. IsList(q) /\ DropsLast(q) /\ kept \cap Drops(q) = {} /\ added \notin Drops(q)
    BY <1>1, <2>1, <2>2, <2>3 DEF MarksLast
  <2>5. PICK s : s = q \o <<UpsertMark(added)>>
    OBVIOUS
  <2>6. /\ DropsLast(s) /\ (kept \cup {added}) \cap Drops(s) = {}
        /\ Lasting(s, rows, kept \cup {added}) \subseteq Lasting(q, rows, kept) \cup {added}
    BY ONLY <2>4, <2>5, LastingAdded
  <2>7. Lasts = Lasting(q, rows, kept) /\ Lasts' = Lasting(s, rows, kept \cup {added}) /\ sent' = s
    BY <1>1, <2>1, <2>3, <2>5 DEF Lasts
  <2>8. MarksLast'
    BY <2>1, <2>3, <2>6, <2>7 DEF MarksLast
  <2>9. Recoverable'
    BY DEF Recoverable
  <2>10. ASSUME NEW r \in DOMAIN rooms' PROVE Leading(r)'
    <3>1. Source(r)' = Source(r)
      BY DEF Source, Words, Log
    <3>2. \A m \in Lasts' : m \in Lasts \/ m = added
      BY <2>6, <2>7
    <3>3. \A m \in Lasts : m.room = r => Leads(m, Source(r))
      BY <2>1 DEF Leading
    <3>4. \A m \in Lasts' : m.room = r => Leads(m, Source(r)')
      BY <2>1, <3>1, <3>2, <3>3
    <3>5. QED BY <3>4 DEF Leading
  <2>11. QED BY <2>8, <2>9, <2>10
<1>7. QED BY <1>5, <1>6 DEF MarkTalk

\* A bookmark is set on an answer that is shown, or taken off.
LEMMA ToggleMarkMarks ==
    ASSUME BoundsAssumption, Inv, MarkTalk, NEW r, NEW index,
           \/ index \in 0..(Cardinality(Answers(Shown)) - 1) /\ r = active
           \/ \E m \in MarksOf(r) : m.index = index,
           "overlap" \notin harmed => TalkForms, ToggleMark(r, index)
    PROVE  MarkTalk'
<1> DEFINE here == {m \in MarksOf(r) : m.index = index}
           shown == rooms[r].messages
           place == CHOOSE i \in Answers(shown) : Index(Answers(shown), i) = index
           added == [id |-> used.marks + 1, room |-> r, index |-> index, by |-> shown[place].by]
<1>1. /\ UNCHANGED <<stored, marked, loaded, rooms, active, turn, edit, astray, history>>
      /\ here # {} => /\ marks' = marks \ here /\ Post(Requests(DropMark, here)) /\ used' = used
      /\ here = {} => /\ loaded.rooms /\ r = active /\ used.marks < MaxMarks /\ Used("marks")
                      /\ marks' = IF loaded.marks THEN marks \cup {added} ELSE marks
                      /\ Post(<<UpsertMark(added)>>)
  BY DEF ToggleMark, server
<1>2. harmed' \subseteq Misfortune /\ harmed \subseteq harmed' /\ (~ loaded.marks => "overlap" \in harmed')
  BY HarmForms, OverlapForms DEF ToggleMark, Harm, Early
<1>3. here \subseteq marks
  BY ShownFinite
<1>4. CASE here # {}
  <2> HIDE DEF here
  <2>1. QED BY <1>1, <1>2, <1>3, <1>4, MarkDroppedMarks
<1>5. CASE here = {}
  <2>0. r = active /\ index \in 0..(Cardinality(Answers(Shown)) - 1)
    BY <1>1, <1>5
  <2>1. added.id = used.marks + 1 /\ added.room = active /\ added.index = index /\ added.by = shown[place].by
    BY <2>0
  <2> HIDE DEF added, here
  <2>2. ASSUME Clean(Strays)' PROVE loaded.marks /\ Leads(added, Source(active))
    <3>1. loaded.marks /\ TalkForms
      BY <1>2, <2>2, CleanNames, CleanBefore, CleanNamesNext
    <3>2. active \in DOMAIN rooms
      BY <1>1, <1>5 DEF Inv, Shape, PageInv
    <3>3. Shown = shown /\ Words(active) = shown
      BY <2>0, <3>2 DEF Shown, Words
    <3>4. shown # Unread
      <4>1. CASE shown = Unread
        <5>1. Answers(Shown) = {}
          BY <3>3, <4>1, UnreadIsNoTalk
        <5>2. Cardinality(Answers(Shown)) = 0
          BY <5>1, FS_EmptySet
        <5>3. QED BY <2>0, <5>2
      <4>2. QED BY <4>1
    <3>5. IsList(shown) /\ Source(active) = shown
      BY <3>1, <3>2, <3>3, <3>4 DEF TalkForms, IsTalk, Source
    <3> HIDE DEF shown, place
    <3>6. index \in Nat /\ index < Cardinality(Answers(shown))
      <4>1. Cardinality(Answers(shown)) \in Nat
        BY <3>5, Positions
      <4>2. QED BY <2>0, <3>3, <4>1
    <3>7. \E i \in Answers(shown) : Index(Answers(shown), i) = index
      BY <3>5, <3>6, AnswerFound
    <3>8. place \in Answers(shown) /\ Index(Answers(shown), place) = index
      BY <3>7 DEF place
    <3>9. QED BY <2>1, <3>1, <3>5, <3>8 DEF Leads
  <2>3. QED BY <1>1, <1>2, <1>5, <2>1, <2>2, MarkSetMarks
<1>6. QED BY <1>4, <1>5

-----------------------------------------------------------------------------
(* The server's steps.                                                      *)

\* The bookmarks of the answers cut off are deleted; no other is led astray,
\* since the room of the edit shows its messages.
LEMMA TruncateThreadMarks ==
    ASSUME BoundsAssumption, Inv, TalkInv, MarkTalk, TruncateThread
    PROVE  MarkTalk'
<1>1. /\ UNCHANGED <<stored, sent, rooms, marks, loaded, used, harmed, astray>>
      /\ marked' \subseteq marked /\ edit.phase = "asked"
      /\ \E x : history' = [history EXCEPT ![edit.thread] = x]
  BY DEF TruncateThread, page, ghosts
<1>2. edit # NoEdit
  BY <1>1 DEF NoEdit
<1>3. loaded.rooms
  BY <1>2 DEF Inv, Shape, PageInv
<1>4. MarkRooms'
  BY <1>1 DEF MarkTalk, MarkRooms
<1>5. ASSUME Clean(Strays)'
      PROVE  MarksLast' /\ Recoverable' /\ \A r \in DOMAIN rooms' : Leading(r)'
  <2>1. "overlap" \notin harmed /\ MarksLast /\ \A r \in DOMAIN rooms : Leading(r)
    BY <1>1, <1>5, CleanBefore, CleanNames DEF MarkTalk
  <2>2. Lasts' \subseteq Lasts
    BY <1>1 DEF Lasts, Lasting
  <2>3. MarksLast'
    BY <1>1, <2>1, <2>2 DEF MarksLast
  <2>4. Recoverable'
    BY <1>1, <1>3 DEF Recoverable
  <2>5. PICK r : r = edit.room
    OBVIOUS
  <2>6. /\ r \in DOMAIN rooms /\ edit.thread = rooms[r].thread
        /\ Words(r) = edit.messages /\ edit.messages # Unread
    BY <1>2, <2>1, <2>5, EditFacts
  <2>7. \A t \in Thread \ {rooms[r].thread} : history'[t] = history[t]
    BY <1>1, <2>1, <2>6, HistoryForms
  <2>8. OneRoom(r)
    BY <1>1, <2>6, <2>7 DEF OneRoom, SameRoom
  <2>9. Words(r)' = Words(r)
    BY <1>1 DEF Words
  <2>10. Source(r)' = Source(r)
    BY <2>6, <2>9 DEF Source
  <2>11. \A x \in DOMAIN rooms : Follow(x)
    <3>1. Follow(r)
      BY <2>6, <2>10 DEF Follow
    <3>2. QED BY <2>8, <3>1, OneRoomFollows
  <2>12. \A x \in DOMAIN rooms' : Leading(x)'
    BY <1>1, <2>1, <2>2, <2>11 DEF Leading, Follow
  <2>13. QED BY <2>3, <2>4, <2>12
<1>6. QED BY <1>4, <1>5 DEF MarkTalk

\* A write leaves the network.
LEMMA SentRemovedMarks ==
    ASSUME BoundsAssumption, Inv, MarkTalk, NEW i \in DOMAIN sent, sent' = RemoveAt(sent, i),
           UNCHANGED <<history, rooms, marks, loaded>>, used'.threads = used.threads,
           harmed \subseteq harmed',
           marked' \subseteq marked \cup {m \in {sent[i].mark} : sent[i].kind = "mark"},
           Clean(Strays)' /\ sent[i].kind = "dropMark" =>
               /\ \A j \in 1..(i - 1) : ~ Needs(sent[i], sent[j])
               /\ sent[i].mark \notin marked',
           "rooms" \notin astray' => "rooms" \notin astray,
           \A list : "rooms" \notin astray' /\ RoomsInStep(sent, stored, list) =>
                         RoomsInStep(sent', stored', list)
    PROVE  MarkTalk'
<1>1. PICK q, s : q = sent /\ s = RemoveAt(q, i)
  OBVIOUS
<1>2. IsList(q) /\ i \in DOMAIN q /\ sent' = s
  BY <1>1 DEF Inv, Shape, SentInv
<1>3. Upserts(s) \subseteq Upserts(q) /\ Drops(s) \subseteq Drops(q)
  <2>1. \A h \in DOMAIN s : \E g \in DOMAIN q : s[h] = q[g]
    BY ONLY <1>1, <1>2, RemoveAtList
  <2>2. QED BY <2>1 DEF Upserts, Drops
<1>4. {m \in {sent[i].mark} : sent[i].kind = "mark"} \subseteq Upserts(q)
  BY <1>1 DEF Upserts
<1>5. MarkRooms'
  BY <1>1, <1>2, <1>3, <1>4 DEF MarkTalk, MarkRooms
<1>6. ASSUME Clean(Strays)'
      PROVE  MarksLast' /\ Recoverable' /\ \A r \in DOMAIN rooms' : Leading(r)'
  <2>1. MarksLast /\ Recoverable /\ \A r \in DOMAIN rooms : Leading(r)
    BY <1>6, CleanBefore DEF MarkTalk
  <2>2. DropsLast(q) /\ marks \cap Drops(q) = {}
    BY <1>1, <2>1 DEF MarksLast
  <2>3. /\ DropsLast(s)
        /\ \A d \in Drops(q) \ Drops(s) : q[i].kind = "dropMark" /\ q[i].mark = d
        /\ q[i].kind = "dropMark" /\ (\A j \in 1..(i - 1) : ~ Needs(q[i], q[j]))
           => q[i].mark \notin Upserts(q)
    BY ONLY <1>1, <1>2, <2>2, LastingRemoved
  <2>4. \A d \in Drops(q) \ Drops(s) : d \notin Upserts(q) \cup marked' \cup marks
    BY <1>1, <1>6, <2>2, <2>3
  <2>5. Lasts' \subseteq Lasts
    <3>1. Lasts' = (marks \cup marked' \cup Upserts(s)) \ Drops(s)
      BY <1>2 DEF Lasts, Lasting
    <3>2. Lasts = (marks \cup marked \cup Upserts(q)) \ Drops(q)
      BY <1>1 DEF Lasts, Lasting
    <3>3. marked' \subseteq marked \cup Upserts(q)
      BY <1>4
    <3>4. QED BY <1>3, <2>4, <3>1, <3>2, <3>3
  <2>6. MarksLast'
    BY <1>2, <1>3, <2>1, <2>2, <2>3, <2>5 DEF MarksLast
  <2>7. Recoverable'
    BY <2>1, <2>5 DEF Recoverable, Recovered
  <2>8. ASSUME NEW r \in DOMAIN rooms' PROVE Leading(r)'
    <3>1. Source(r)' = Source(r)
      BY DEF Source, Words, Log
    <3>2. QED BY <2>1, <2>5, <3>1 DEF Leading
  <2>9. QED BY <2>6, <2>7, <2>8
<1>7. QED BY <1>5, <1>6 DEF MarkTalk

LEMMA DeliverMarks ==
    ASSUME BoundsAssumption, Inv, MarkTalk, NEW i \in DOMAIN sent, Deliver(i)
    PROVE  MarkTalk'
<1>1. /\ sent' = RemoveAt(sent, i) /\ Apply(sent[i])
      /\ UNCHANGED <<history, rooms, marks, loaded, used>> /\ harmed \subseteq harmed'
      /\ "rooms" \notin astray' => "rooms" \notin astray
  BY HarmGrows DEF Deliver, page
<1>2. Clean(Strays)' /\ sent[i].kind = "dropMark" => \A j \in 1..(i - 1) : ~ Needs(sent[i], sent[j])
  BY CleanNamesNext DEF Deliver, Harm, RoomWrite
<1>3. sent[i].kind \in Kinds
  BY DEF Inv, Shape, SentInv
<1>4. /\ marked' \subseteq marked \cup {m \in {sent[i].mark} : sent[i].kind = "mark"}
      /\ sent[i].kind = "dropMark" => sent[i].mark \notin marked'
  BY <1>1, <1>3 DEF Apply, Kinds, PutRoom, RemoveRoom, PutMark, Marked, RemoveMark
<1>5. QED BY <1>1, <1>2, <1>4, DeliverRooms, SentRemovedMarks

LEMMA LoseMarks ==
    ASSUME BoundsAssumption, Inv, MarkTalk, NEW i \in DOMAIN sent, Lose(i)
    PROVE  MarkTalk'
<1>1. /\ sent' = RemoveAt(sent, i) /\ astray' = astray \cup {TableOf(sent[i])} /\ Used("faults")
      /\ UNCHANGED <<history, stored, marked, rooms, marks, loaded>> /\ harmed \subseteq harmed'
  BY HarmGrows DEF Lose, page, server, Fault
<1>2. Clean(Strays)' => sent[i].kind # "dropMark"
  BY CleanNamesNext DEF Lose, Harm
<1>3. used'.threads = used.threads
  BY <1>1 DEF Inv, Shape, UsedInv, UsedNames, Used
<1>4. ASSUME NEW list, "rooms" \notin astray', RoomsInStep(sent, stored, list)
      PROVE  RoomsInStep(sent', stored', list)
  <2>1. ~ RoomWrite(sent[i]) /\ IsList(sent)
    BY <1>1, <1>4 DEF TableOf, Inv, Shape, SentInv
  <2>2. \A r \in Thread : AgreeOn(r, stored, stored) /\ ~ About(sent[i], r)
    BY <2>1 DEF AgreeOn, SameRow, About
  <2>3. RoomsInStep(RemoveAt(sent, i), stored, list)
    BY <1>4, <2>1, <2>2, RoomsDelivered
  <2>4. QED BY <1>1, <2>3
<1>5. QED BY <1>1, <1>2, <1>3, <1>4, SentRemovedMarks

-----------------------------------------------------------------------------
(* Loading the page again.                                                  *)

\* What the history and the page have in common once no edit or turn is lost.
LEMMA HistoryLeads ==
    ASSUME TalkInv, Clean(Strays), NEW r \in DOMAIN rooms, Leading(r),
           BoundsAssumption, Inv, edit.phase # "done", turn.phase # "answered"
    PROVE  \A m \in Lasts : m.room = r => Leads(m, Log(r))
<1>1. CASE Words(r) = Unread
  BY <1>1 DEF Leading, Source
<1>2. CASE Words(r) # Unread
  <2>1. LogForms /\ TalkForms /\ RoomTalk(r)
    BY CleanNames DEF TalkInv
  <2>2. IsList(Words(r)) /\ IsList(Log(r))
    <3>1. rooms[r].thread \in Thread
      BY RoomThreads
    <3>2. QED BY <1>2, <2>1, <3>1 DEF LogForms, TalkForms, IsTalk, IsLog, Log
  <2>3. SameAnswers(Words(r), Log(r))
    <3>1. RoomCounted(r) /\ ~ Cutting(r)
      BY <1>2, <2>1 DEF RoomTalk, Cutting
    <3>2. SameAnswers(Told(r), Log(r))
      BY <3>1 DEF RoomCounted, Strays, Clean
    <3>3. QED BY <3>2 DEF Told
  <2>4. \A m : Leads(m, Words(r)) => Leads(m, Log(r))
    BY <2>2, <2>3, LeadsSame
  <2>5. QED BY <1>2, <2>4 DEF Leading, Source
<1>3. QED BY <1>1, <1>2

LEMMA ReloadMarks ==
    ASSUME BoundsAssumption, Inv, TalkInv, MarkTalk, NEW copies \in BOOLEAN, Reload(copies)
    PROVE  MarkTalk'
<1> DEFINE cut == (IF turn.phase = "answered" THEN {"answers"} ELSE {})
                  \cup (IF turn # NoTurn /\ ~ HoldsQuestion(history[turn.thread], turn.turn)
                        THEN {"unstored"} ELSE {})
                  \cup (IF edit.phase = "done" THEN {"halfcut", "stale mark"} ELSE {})
<1>1. /\ loaded' = [rooms |-> FALSE, marks |-> FALSE] /\ Used("reloads")
      /\ UNCHANGED <<history, stored, marked, sent>>
      /\ rooms' = IF copies THEN [r \in DOMAIN rooms |-> [rooms[r] EXCEPT !.restoring = FALSE]]
                  ELSE <<>>
      /\ marks' = IF copies THEN marks ELSE {}
      /\ harmed' = (harmed \cup cut) \ IF copies THEN {} ELSE Cured
      /\ astray \subseteq astray'
  BY DEF Reload, server
<1>2. used'.threads = used.threads
  BY <1>1 DEF Used, Inv, Shape, UsedInv, UsedNames
<1>3. marks' \subseteq marks /\ Lasts' \subseteq Lasts /\ ~ loaded'.marks
  BY <1>1 DEF Lasts, Lasting
<1>4. MarkRooms'
  BY <1>1, <1>2, <1>3 DEF MarkTalk, MarkRooms
<1>5. Clean(Strays)' => Clean(Strays) /\ edit.phase # "done" /\ turn.phase # "answered"
  BY <1>1 DEF Clean, Strays, Cured
<1> HIDE DEF cut
<1>6. ASSUME Clean(Strays)'
      PROVE  MarksLast' /\ Recoverable' /\ \A r \in DOMAIN rooms' : Leading(r)'
  <2>1. Clean(Strays) /\ MarksLast /\ Recoverable /\ \A r \in DOMAIN rooms : Leading(r)
    BY <1>5, <1>6 DEF MarkTalk
  <2>2. MarksLast'
    BY <1>1, <1>3, <2>1 DEF MarksLast
  <2>3. CASE copies
    <3>1. /\ DOMAIN rooms' = DOMAIN rooms
          /\ \A r \in DOMAIN rooms : /\ rooms'[r].messages = rooms[r].messages
                                     /\ rooms'[r].thread = rooms[r].thread
      <4>1. RoomForms(rooms)
        BY DEF Inv, Shape, PageInv
      <4>2. ASSUME NEW r \in DOMAIN rooms
            PROVE  [rooms[r] EXCEPT !.restoring = FALSE] =
                       [thread |-> rooms[r].thread, title |-> rooms[r].title,
                        messages |-> rooms[r].messages, restoring |-> FALSE]
        BY <4>1, RoomExcept DEF RoomForms
      <4>3. \A r \in DOMAIN rooms : rooms'[r] = [thread |-> rooms[r].thread, title |-> rooms[r].title,
                        messages |-> rooms[r].messages, restoring |-> FALSE]
        BY <1>1, <2>3, <4>2
      <4>4. QED BY <1>1, <2>3, <4>3
    <3>2. \A r \in DOMAIN rooms : Follow(r)
      BY <1>1, <3>1, AllFollow DEF SameRoom
    <3>3. \A r \in DOMAIN rooms' : Leading(r)'
      BY <1>3, <2>1, <3>1, <3>2 DEF Leading, Follow
    <3>4. Recoverable'
      <4> SUFFICES ASSUME "rooms" \notin astray
                   PROVE  \E list : RoomsInStep(sent, stored, list) /\ \A m \in Lasts' : Recovered(m, list)'
        BY <1>1 DEF Recoverable
      <4>1. CASE loaded.rooms
        <5>1. PICK list : list = rooms
          OBVIOUS
        <5>2. RoomsInStep(sent, stored, list)
          BY <4>1, <5>1 DEF Inv, RoomsInv
        <5>3. \A m \in Lasts' : Recovered(m, list)'
          BY <3>1, <5>1 DEF Recovered
        <5>4. QED BY <5>2, <5>3
      <4>2. CASE ~ loaded.rooms
        BY <1>1, <1>3, <2>1, <3>1, <4>2 DEF Recoverable, Recovered
      <4>3. QED BY <4>1, <4>2
    <3>5. QED BY <2>2, <3>3, <3>4
  <2>4. CASE ~ copies
    <3>1. DOMAIN rooms' = {}
      BY <1>1, <2>4, NoWords
    <3>2. \A m \in Lasts : m.room \in DOMAIN rooms => Leads(m, history[rooms[m.room].thread])
      BY <1>5, <1>6, <2>1, HistoryLeads DEF Log
    <3>3. Recoverable'
      <4> SUFFICES ASSUME "rooms" \notin astray
                   PROVE  \E list : /\ RoomsInStep(sent, stored, list)
                                    /\ \A m \in Lasts : m.room \in DOMAIN list =>
                                           Leads(m, history[list[m.room].thread])
        BY <1>1, <1>3 DEF Recoverable, Recovered
      <4>1. CASE loaded.rooms
        BY <3>2, <4>1 DEF Inv, RoomsInv
      <4>2. CASE ~ loaded.rooms
        <5>1. PICK list : RoomsInStep(sent, stored, list) /\ \A m \in Lasts : Recovered(m, list)
          BY <2>1, <4>2 DEF Recoverable
        <5>2. \A m \in Lasts : m.room \in DOMAIN list => Leads(m, history[list[m.room].thread])
          BY <3>2, <5>1 DEF Recovered
        <5>3. QED BY <5>1, <5>2
      <4>3. QED BY <4>1, <4>2
    <3>4. QED BY <2>2, <3>1, <3>3
  <2>5. QED BY <2>3, <2>4
<1>7. QED BY <1>4, <1>6 DEF MarkTalk

LEMMA LoadMarksFailsMarks ==
    ASSUME BoundsAssumption, Inv, MarkTalk, LoadMarksFails
    PROVE  MarkTalk'
<1>1. /\ UNCHANGED <<history, stored, marked, sent, rooms, marks>> /\ Used("faults")
      /\ harmed \subseteq harmed' /\ astray \subseteq astray'
      /\ "stale mark" \notin harmed' =>
            marked \subseteq marks /\ \A i \in DOMAIN sent : sent[i].kind = "mark" => sent[i].mark \in marks
  <2>1. \E kinds : Harm(kinds)
    BY DEF LoadMarksFails
  <2>2. "stale mark" \notin harmed' =>
            marked \subseteq marks /\ \A i \in DOMAIN sent : sent[i].kind = "mark" => sent[i].mark \in marks
    BY DEF LoadMarksFails, Harm
  <2>3. QED BY <2>1, <2>2, HarmGrows DEF LoadMarksFails, server, Fault
<1>2. used'.threads = used.threads
  BY <1>1 DEF Used, Inv, Shape, UsedInv, UsedNames
<1>3. Lasts' = Lasts
  BY <1>1 DEF Lasts
<1>4. MarkRooms'
  BY <1>1, <1>2 DEF MarkTalk, MarkRooms
<1>5. ASSUME Clean(Strays)'
      PROVE  MarksLast' /\ Recoverable' /\ \A r \in DOMAIN rooms' : Leading(r)'
  <2>1. MarksLast /\ Recoverable /\ \A r \in DOMAIN rooms : Leading(r)
    BY <1>1, <1>5, CleanBefore DEF MarkTalk
  <2>2. marked \subseteq marks /\ Upserts(sent) \subseteq marks
    BY <1>1, <1>5, CleanNamesNext DEF Upserts
  <2>3. Lasts \subseteq marks
    BY <2>2 DEF Lasts, Lasting
  <2>4. MarksLast'
    BY <1>1, <1>3, <2>1, <2>3 DEF MarksLast
  <2>5. Recoverable'
    <3>1. loaded'.rooms = loaded.rooms
      BY DEF LoadMarksFails, Inv, Shape, PageInv
    <3>2. QED BY <1>1, <1>3, <2>1, <3>1 DEF Recoverable, Recovered
  <2>6. ASSUME NEW r \in DOMAIN rooms' PROVE Leading(r)'
    <3>1. Source(r)' = Source(r)
      BY <1>1 DEF Source, Words, Log
    <3>2. QED BY <1>1, <1>3, <2>1, <2>6, <3>1 DEF Leading
  <2>7. QED BY <2>4, <2>5, <2>6
<1>6. QED BY <1>4, <1>5 DEF MarkTalk

\* The bookmarks that only this browser has are registered again.
LEMMA LoadMarksMarks ==
    ASSUME BoundsAssumption, Inv, MarkTalk, LoadMarks
    PROVE  MarkTalk'
<1> DEFINE missing == {m \in marks : \A n \in marked : ~SamePlace(m, n)}
           p == Requests(UpsertMark, missing)
<1>1. /\ marks' = marked \cup missing /\ Post(p)
      /\ UNCHANGED <<history, stored, marked, rooms, used>> /\ harmed \subseteq harmed'
      /\ "stale mark" \notin harmed' => \A i \in DOMAIN sent : sent[i].kind = "room"
      /\ "rooms" \in astray => "rooms" \in astray'
  BY DEF LoadMarks, server, Harm
<1>2. /\ missing \subseteq marks /\ IsFiniteSet(marks) /\ IsList(sent)
  BY DEF Inv, Shape, FiniteInv, SentInv
<1>3. IsFiniteSet(missing)
  BY <1>2, FS_Subset
<1> HIDE DEF missing
<1>4. /\ IsList(p)
      /\ \A j \in DOMAIN p : \E m \in missing : p[j] = UpsertMark(m)
      /\ \A m \in missing : \E j \in DOMAIN p : p[j] = UpsertMark(m)
  BY ONLY <1>3, UpsertMarkList, Zenon
<1> HIDE DEF p
<1>5. \A j \in DOMAIN p : p[j].kind = "mark" /\ p[j].mark \in missing
  BY <1>4, WriteForms
<1>6. \A i \in DOMAIN sent' : \/ i \in DOMAIN sent /\ sent'[i] = sent[i]
                              \/ \E j \in DOMAIN p : sent'[i] = p[j]
  BY <1>1, <1>2, <1>4, Posted
<1>7. Upserts(sent') \subseteq Upserts(sent) \cup missing /\ Drops(sent') \subseteq Drops(sent)
  BY <1>5, <1>6 DEF Upserts, Drops
<1>8. MarkRooms'
  BY <1>1, <1>2, <1>7 DEF MarkTalk, MarkRooms
<1>9. ASSUME Clean(Strays)'
      PROVE  MarksLast' /\ Recoverable' /\ \A r \in DOMAIN rooms' : Leading(r)'
  <2>1. MarksLast /\ Recoverable /\ \A r \in DOMAIN rooms : Leading(r)
    BY <1>1, <1>9, CleanBefore DEF MarkTalk
  <2>2. \A i \in DOMAIN sent : sent[i].kind = "room"
    BY <1>1, <1>9, CleanNamesNext
  <2>3. Upserts(sent) = {} /\ Drops(sent) = {}
    BY <2>2 DEF Upserts, Drops
  <2>4. Upserts(sent') \subseteq marks' /\ Drops(sent') = {}
    BY <1>1, <1>7, <2>3
  <2>5. Lasts' \subseteq marks' /\ Lasts' \subseteq Lasts
    BY <1>1, <1>2, <1>7, <2>3, <2>4 DEF Lasts, Lasting
  <2>6. DropsLast(sent')
    BY <2>4 DEF DropsLast, Drops
  <2>7. MarksLast'
    BY <2>4, <2>5, <2>6 DEF MarksLast
  <2>8. Recoverable'
    <3>1. ASSUME NEW list, RoomsInStep(sent, stored, list)
          PROVE  RoomsInStep(sent', stored, list)
      <4>1. \A j \in DOMAIN p : ~ RoomWrite(p[j])
        BY <1>5 DEF RoomWrite
      <4>2. RoomsInStep(sent \o p, stored, list)
        BY <1>4, <3>1, <4>1, RoomsKept
      <4>3. QED BY <1>1, <4>2 DEF Post
    <3>2. loaded'.rooms = loaded.rooms
      BY DEF LoadMarks, Inv, Shape, PageInv
    <3>3. QED BY <1>1, <2>1, <2>5, <3>1, <3>2 DEF Recoverable, Recovered
  <2>9. ASSUME NEW r \in DOMAIN rooms' PROVE Leading(r)'
    <3>1. Source(r)' = Source(r)
      BY <1>1 DEF Source, Words, Log
    <3>2. QED BY <1>1, <2>1, <2>5, <2>9, <3>1 DEF Leading
  <2>10. QED BY <2>7, <2>8, <2>9
<1>10. QED BY <1>8, <1>9 DEF MarkTalk

-----------------------------------------------------------------------------
(* The room list arrives.                                                   *)

\* A list whose rooms are the page's, or are to be read and lead as they should.
LEMMA ShowMarks ==
    ASSUME BoundsAssumption, Inv, MarkTalk, ~ loaded.rooms, loaded' = [loaded EXCEPT !.rooms = TRUE],
           UNCHANGED <<history, marked, marks, edit>>, harmed \subseteq harmed',
           NEW list, NEW writes, NEW spent, Show(list, writes, spent), RoomForms(list), IsList(writes),
           \A y : Holds(writes, y) => \E r \in DOMAIN list : y = UpsertRoom(r, list[r]),
           \A r \in DOMAIN list : <<list[r].thread, r>> \in Claims,
           spent = used \/ spent = [used EXCEPT !.faults = @ + 1],
           Clean(Strays)' => \A r \in DOMAIN list :
              \/ /\ r \in DOMAIN rooms /\ list[r].messages = Words(r)
                 /\ list[r].thread = rooms[r].thread
              \/ /\ list[r].messages = Unread
                 /\ \A m \in Lasts : m.room = r => Leads(m, history[list[r].thread])
    PROVE  MarkTalk'
<1>1. /\ active' \in DOMAIN rooms' /\ \E x : NamesStep(x)
      /\ \E p : /\ IsList(p) /\ Post(p)
                /\ \A y : Holds(p, y) => \E r \in DOMAIN rooms' : y = UpsertRoom(r, rooms'[r])
  BY ShowPosts
<1>2. PICK p : /\ IsList(p) /\ Post(p)
               /\ \A y : Holds(p, y) => \E r \in DOMAIN rooms' : y = UpsertRoom(r, rooms'[r])
  BY <1>1
<1>3. \A j \in DOMAIN p : p[j].kind = "room"
  BY <1>2, WriteForms DEF Holds
<1>4. /\ \A i \in DOMAIN sent : i \in DOMAIN sent' /\ sent'[i] = sent[i]
      /\ \A i \in DOMAIN sent' : \/ i \in DOMAIN sent /\ sent'[i] = sent[i]
                                 \/ \E j \in DOMAIN p : sent'[i] = p[j]
  BY <1>2, Posted DEF Inv, Shape, SentInv
<1>5. Upserts(sent') = Upserts(sent) /\ Drops(sent') = Drops(sent)
  BY <1>3, <1>4 DEF Upserts, Drops
<1>6. Lasts' = Lasts
  BY <1>5 DEF Lasts, Lasting
<1>7. used.threads \in Nat /\ used'.threads \in Nat /\ used.threads <= used'.threads
  BY <1>1 DEF NamesStep, UsedInv, UsedNames, Inv, Shape, Fresh
<1>8. MarkRooms'
  BY <1>5, <1>7 DEF MarkTalk, MarkRooms
<1>9. ASSUME Clean(Strays)'
      PROVE  MarksLast' /\ Recoverable' /\ \A r \in DOMAIN rooms' : Leading(r)'
  <2>1. MarksLast /\ \A r \in DOMAIN rooms : Leading(r)
    BY <1>9, CleanBefore DEF MarkTalk
  <2>2. DropsLast(sent')
    BY <1>3, <1>4, <2>1 DEF MarksLast, DropsLast
  <2>3. loaded'.marks = loaded.marks
    BY DEF Inv, Shape, PageInv
  <2>4. MarksLast'
    BY <1>5, <1>6, <2>1, <2>2, <2>3 DEF MarksLast
  <2>5. Recoverable'
    <3>1. loaded'.rooms
      BY DEF Inv, Shape, PageInv
    <3>2. QED BY <3>1 DEF Recoverable
  <2>6. ASSUME NEW r \in DOMAIN rooms', NEW m \in Lasts, m.room = r
        PROVE  Leads(m, Source(r)')
    <3>1. CASE DOMAIN list = {}
      <4>1. DOMAIN rooms' = {Fresh}
        BY <3>1 DEF Show
      <4>2. m.room \in 1..used.threads
        BY DEF MarkTalk, MarkRooms, Lasts, Lasting
      <4>3. QED BY <2>6, <4>1, <4>2, FreshName
    <3>2. CASE DOMAIN list # {}
      <4>1. active' \in DOMAIN list /\ rooms' = Opened(list, active')
        BY <3>2 DEF Show
      <4>2. /\ r \in DOMAIN list /\ rooms'[r].messages = list[r].messages
            /\ rooms'[r].thread = list[r].thread
        BY <4>1, OpenedWords
      <4>3. CASE /\ r \in DOMAIN rooms /\ list[r].messages = Words(r)
                 /\ list[r].thread = rooms[r].thread
        <5>1. Source(r)' = Source(r)
          BY <4>2, <4>3 DEF Source, Words, Log
        <5>2. QED BY <2>1, <2>6, <4>3, <5>1 DEF Leading
      <4>4. CASE /\ list[r].messages = Unread
                 /\ \A n \in Lasts : n.room = r => Leads(n, history[list[r].thread])
        <5>1. Source(r)' = history[list[r].thread]
          BY <4>2, <4>4 DEF Source, Words, Log
        <5>2. QED BY <2>6, <4>4, <5>1
      <4>5. QED BY <1>9, <4>2, <4>3, <4>4
    <3>3. QED BY <3>1, <3>2
  <2>7. \A r \in DOMAIN rooms' : Leading(r)'
    BY <1>6, <2>6 DEF Leading
  <2>8. QED BY <2>4, <2>5, <2>7
<1>10. QED BY <1>8, <1>9 DEF MarkTalk

LEMMA LoadRoomsMarks ==
    ASSUME BoundsAssumption, Inv, MarkTalk, LoadRooms
    PROVE  MarkTalk'
<1>1. /\ ~ loaded.rooms /\ loaded' = [loaded EXCEPT !.rooms = TRUE]
      /\ UNCHANGED <<history, marked, marks, edit>> /\ harmed \subseteq harmed'
      /\ "rooms" \in astray \/ InFlight("rooms") => "stale mark" \in harmed'
  BY HarmGrows DEF LoadRooms, server, Harm
<1>2. PICK list, writes :
              /\ Show(list, writes, used)
              /\ DOMAIN stored = {} => list = rooms
              /\ DOMAIN stored # {} => list = Adopted
              /\ RoomForms(list) /\ IsList(writes)
              /\ \A y : Holds(writes, y) => \E r \in DOMAIN list : y = UpsertRoom(r, list[r])
              /\ \A r \in DOMAIN list : <<list[r].thread, r>> \in Claims
  BY LoadRoomsShows
<1>3. ASSUME Clean(Strays)', NEW r \in DOMAIN list
      PROVE  \/ /\ r \in DOMAIN rooms /\ list[r].messages = Words(r)
                /\ list[r].thread = rooms[r].thread
             \/ /\ list[r].messages = Unread
                /\ \A m \in Lasts : m.room = r => Leads(m, history[list[r].thread])
  <2>1. "rooms" \notin astray /\ ~ InFlight("rooms") /\ Recoverable
    BY <1>1, <1>3, CleanBefore, CleanNamesNext DEF MarkTalk
  <2>2. \A i \in DOMAIN sent : ~ RoomWrite(sent[i])
    BY <2>1 DEF InFlight, TableOf
  <2>3. \A known : RoomsInStep(sent, stored, known) =>
            \A x \in Thread : AgreeOn(x, stored, known)
    BY <2>2 DEF RoomsInStep, About
  <2>4. CASE DOMAIN stored = {}
    BY <1>2, <1>3, <2>4 DEF Words
  <2>5. CASE DOMAIN stored # {}
    <3>1. /\ r \in DOMAIN stored /\ list[r].thread = stored[r].thread
          /\ list[r].messages = IF r \in DOMAIN rooms THEN rooms[r].messages ELSE Unread
      BY <1>2, <1>3, <2>5, AdoptedWords
    <3>2. r \in Thread
      BY <3>1, OwnedNames DEF Inv, Shape, UsedInv, UsedNames, Thread, BoundsAssumption
    <3>3. CASE r \in DOMAIN rooms
      <4>1. PICK known : RoomsInStep(sent, stored, known) /\ Extends(known)
        BY <1>1, <2>1 DEF Inv, RoomsInv
      <4>2. AgreeOn(r, stored, known)
        BY <2>3, <3>2, <4>1
      <4>3. stored[r].thread = rooms[r].thread
        BY <3>1, <3>2, <3>3, <4>1, <4>2 DEF AgreeOn, Extends, SameRow
      <4>4. QED BY <3>1, <3>3, <4>3 DEF Words
    <3>4. CASE r \notin DOMAIN rooms
      <4>1. PICK known : RoomsInStep(sent, stored, known) /\ \A m \in Lasts : Recovered(m, known)
        BY <1>1, <2>1 DEF Recoverable
      <4>2. r \in DOMAIN known /\ known[r].thread = list[r].thread
        BY <2>3, <3>1, <3>2, <4>1 DEF AgreeOn, SameRow
      <4>3. QED BY <3>1, <3>4, <4>1, <4>2 DEF Recovered
    <3>5. QED BY <3>3, <3>4
  <2>6. QED BY <2>4, <2>5
<1>4. PICK spent : spent = used
  OBVIOUS
<1>5. QED BY <1>1, <1>2, <1>3, <1>4, ShowMarks

LEMMA LoadRoomsFailsMarks ==
    ASSUME BoundsAssumption, Inv, MarkTalk, LoadRoomsFails
    PROVE  MarkTalk'
<1>1. /\ ~ loaded.rooms /\ loaded' = [loaded EXCEPT !.rooms = TRUE]
      /\ UNCHANGED <<history, marked, marks, edit, harmed>>
  BY DEF LoadRoomsFails, server
<1>2. PICK spent, writes : /\ spent = [used EXCEPT !.faults = @ + 1] /\ writes = <<>>
                           /\ Show(rooms, writes, spent)
  BY DEF LoadRoomsFails
<1>3. IsList(writes) /\ (\A y : ~ Holds(writes, y)) /\ RoomForms(rooms)
  BY <1>2, EmptyList, HoldsNone DEF Inv, Shape, PageInv
<1>4. PICK list : list = rooms
  OBVIOUS
<1>5. \A r \in DOMAIN list : /\ <<list[r].thread, r>> \in Claims
                             /\ r \in DOMAIN rooms /\ list[r].messages = Words(r)
                             /\ list[r].thread = rooms[r].thread
  BY <1>4, RoomClaims DEF Words
<1>6. QED BY <1>1, <1>2, <1>3, <1>4, <1>5, ShowMarks

-----------------------------------------------------------------------------
(* The bookmarks keep leading to their answers.                             *)

LEMMA InitMarks == BoundsAssumption /\ Init => MarkTalk
<1> SUFFICES ASSUME BoundsAssumption, Init PROVE MarkTalk
  OBVIOUS
<1>1. sent = <<>> /\ marks = {} /\ marked = {} /\ DOMAIN rooms = {1}
  BY DEF Init
<1>2. DOMAIN sent = {}
  BY <1>1, NoWords
<1>3. Upserts(sent) = {} /\ Drops(sent) = {}
  BY <1>2 DEF Upserts, Drops
<1>4. Lasts = {}
  BY <1>1, <1>3 DEF Lasts, Lasting
<1>5. MarkRooms /\ MarksLast
  BY <1>1, <1>2, <1>3, <1>4 DEF MarkRooms, MarksLast, DropsLast
<1>6. Recoverable /\ \A r \in DOMAIN rooms : Leading(r)
  <2>1. loaded.rooms
    BY DEF Init
  <2>2. QED BY <1>4, <2>1 DEF Recoverable, Leading
<1>7. QED BY <1>5, <1>6 DEF MarkTalk

LEMMA NextMarks == BoundsAssumption /\ Inv /\ TalkInv /\ TalkInv' /\ MarkTalk /\ [Next]_vars => MarkTalk'
<1> SUFFICES ASSUME BoundsAssumption, Inv, TalkInv, TalkInv', MarkTalk, [Next]_vars
             PROVE  MarkTalk'
  OBVIOUS
<1>1. CASE CreateRoom \/ ResetSession \/ Send
  BY <1>1, CreateRoomMarks, CreateUnlistedMarks, ResetSessionMarks, SendMarks
<1>2. CASE \E r \in DOMAIN rooms :
              \/ SwitchRoom(r) \/ DeleteRoom(r)
              \/ RestoreMessages(r) \/ RestoreFails(r)
              \/ RenameRoom(r) \/ SetRoomModel(r)
  <2>1. PICK r \in DOMAIN rooms :
              \/ SwitchRoom(r) \/ DeleteRoom(r)
              \/ RestoreMessages(r) \/ RestoreFails(r)
              \/ RenameRoom(r) \/ SetRoomModel(r)
    BY <1>2
  <2>2. CASE SwitchRoom(r) \/ DeleteRoom(r)
    BY <2>2, SwitchRoomMarks, DeleteRoomMarks
  <2>3. CASE RestoreMessages(r) \/ RestoreFails(r)
    BY <2>3, RestoreMarks
  <2>4. CASE RenameRoom(r) \/ SetRoomModel(r)
    <3>1. \E title : SendRow(r, title)
      BY <2>4 DEF RenameRoom, SetRoomModel
    <3>2. QED BY <3>1, SendRowMarks
  <2>5. QED BY <2>1, <2>2, <2>3, <2>4
<1>3. CASE \E i \in DOMAIN Shown : Shown[i].role = "error" /\ RetryError(Shown[i])
  <2>1. PICK bubble : RetryError(bubble)
    BY <1>3
  <2>2. QED BY <2>1, RetryErrorMarks
<1>4. CASE \E k \in 0..(MaxTurns - 1) : SubmitEdit(k)
  BY <1>4, SubmitEditMarks
<1>5. CASE \/ \E k \in 0..(Cardinality(Answers(Shown)) - 1) : ToggleMark(active, k)
           \/ \E m \in ShownMarks : ToggleMark(m.room, m.index)
  <2>1. "overlap" \notin harmed => TalkForms
    BY DEF TalkInv
  <2>2. \A m \in ShownMarks : \E n \in MarksOf(m.room) : n.index = m.index
    BY DEF MarksOf
  <2>3. QED BY <1>5, <2>1, <2>2, ToggleMarkMarks
<1>6. CASE StoreQuestion \/ HearToken \/ StoreAnswer
  BY <1>6, TurnStoresMarks
<1>7. CASE CompleteTurn \/ ModelFails \/ StopTurn
  BY <1>7, TurnEndsMarks
<1>8. CASE BreakConnection \/ \E retryable \in BOOLEAN : RefuseRequest(retryable)
  <2>1. PICK retryable : TurnFails(retryable) /\ turn.phase \in {"asking", "answering", "answered"}
    BY <1>8 DEF BreakConnection, RefuseRequest
  <2>2. turn # NoTurn
    BY <2>1 DEF NoTurn
  <2>3. QED BY <2>1, <2>2, TurnFailsMarks
<1>9. CASE TruncateThread \/ FinishEdit \/ EditFails
  BY <1>9, TruncateThreadMarks, FinishEditMarks, EditFailsMarks
<1>10. CASE \E i \in DOMAIN sent : Deliver(i) \/ Lose(i)
  BY <1>10, DeliverMarks, LoseMarks
<1>11. CASE \E copies \in BOOLEAN : Reload(copies)
  BY <1>11, ReloadMarks
<1>12. CASE LoadRooms \/ LoadRoomsFails
  BY <1>12, LoadRoomsMarks, LoadRoomsFailsMarks
<1>13. CASE LoadMarks \/ LoadMarksFails
  BY <1>13, LoadMarksMarks, LoadMarksFailsMarks
<1>14. CASE UNCHANGED vars
  BY <1>14, StutterMarks
<1>15. QED BY <1>1, <1>2, <1>3, <1>4, <1>5, <1>6, <1>7, <1>8, <1>9, <1>10, <1>11, <1>12,
              <1>13, <1>14 DEF Next

LEMMA MarkTalkLeads == MarkTalk => BookmarksLeadToTheirAnswers
<1> SUFFICES ASSUME MarkTalk, Settled, harmed \cap {"answers", "stale mark", "overlap"} = {},
                    NEW m \in marks, m.room \in DOMAIN rooms, Readable(m.room)
             PROVE  Leads(m, rooms[m.room].messages)
  BY DEF BookmarksLeadToTheirAnswers, Leads
<1>1. MarksLast /\ Leading(m.room)
  BY DEF MarkTalk, Clean, Strays
<1>2. m \in Lasts
  BY <1>1 DEF MarksLast, Lasts, Lasting
<1>3. Source(m.room) = rooms[m.room].messages
  BY DEF Source, Words, Readable
<1>4. QED BY <1>1, <1>2, <1>3 DEF Leading

\* A bookmark leads to the answer that was bookmarked: rows and writes of
\* bookmarks may be delivered in any order, the room edited, reset, reloaded or
\* read again, and the answer it counts is still the one it was put on, unless
\* page and server count different answers or a deletion was lost (App.jsx,
\* useBookmarks.js, bookmark_service.py, thread_service.py).
THEOREM BookmarksLead == Spec => []BookmarksLeadToTheirAnswers
<1>1. Init => MarkTalk
  BY InitMarks, BoundsAssumption
<1>2. Inv /\ TalkInv /\ TalkInv' /\ MarkTalk /\ [Next]_vars => MarkTalk'
  BY NextMarks, BoundsAssumption
<1>3. MarkTalk => BookmarksLeadToTheirAnswers
  BY MarkTalkLeads
<1>4. QED BY <1>1, <1>2, <1>3, ConversationsInStep, PTL DEF Spec
=============================================================================
