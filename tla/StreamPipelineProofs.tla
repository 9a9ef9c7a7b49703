------------------------ MODULE StreamPipelineProofs ------------------------
(***************************************************************************)
(* Proofs about StreamPipeline: types, that a remark is given to a task    *)
(* only while no other could own it, what the rows of tasks and messages   *)
(* tell, that the answers are one, that the orchestrator would store the   *)
(* same, and that what a client receives over all its connections is the   *)
(* one stream, its items whole.                                            *)
(***************************************************************************)
EXTENDS StreamPipeline, FiniteSetTheorems, SequenceTheorems, WellFoundedInduction, TLAPS

-----------------------------------------------------------------------------
(* Numbers of chunks.                                                       *)

Less == OpToRel(<, Nat)

\* A set of natural numbers that is not empty has a least element.
LEMMA LeastNumber ==
    ASSUME NEW T \in SUBSET Nat, T # {}
    PROVE  \E x \in T : \A y \in T : x <= y
<1>1. IsWellFoundedOn(Less, Nat)
  BY NatLessThanWellFounded DEF Less
<1>2. PICK x \in T : \A y \in T : ~ (<<y, x>> \in Less)
  BY <1>1, WFMin
<1>3. \A y \in T : ~ (y < x)
  BY <1>2 DEF Less, OpToRel
<1>4. QED BY <1>3

LEMMA MinIsLeast ==
    ASSUME NEW T \in SUBSET Nat, T # {}
    PROVE  Min(T) \in T /\ \A y \in T : Min(T) <= y
BY LeastNumber DEF Min

\* A bounded set of numbers has a greatest element.
LEMMA MaxIsGreatest ==
    ASSUME NEW n \in Nat, NEW T \in SUBSET (1..n), T # {}
    PROVE  Max(T) \in T /\ \A y \in T : y <= Max(T)
<1> DEFINE Bounds == {m \in Nat : \A y \in T : y <= m}
<1>1. n \in Bounds
  OBVIOUS
<1>2. PICK m \in Bounds : \A b \in Bounds : m <= b
  BY <1>1, LeastNumber
<1>3. m \in T
  <2>1. SUFFICES ASSUME m \notin T PROVE FALSE
    OBVIOUS
  <2>2. \A y \in T : y \in Nat /\ y <= m /\ y # m /\ y >= 1
    BY <2>1
  <2>3. m - 1 \in Bounds
    <3>1. PICK y \in T : TRUE
      OBVIOUS
    <3>2. m - 1 \in Nat
      BY <3>1, <2>2
    <3>3. QED BY <3>2, <2>2
  <2>4. QED BY <2>3, <1>2
<1>4. \E x \in T : \A y \in T : x >= y
  BY <1>2, <1>3
<1>5. QED BY <1>4 DEF Max

LEMMA MaxOfFirst ==
    ASSUME NEW k \in Nat, k > 0
    PROVE  Max(1..k) = k /\ (1..k) \ {k} = 1..(k - 1)
<1>1. k \in 1..k
  OBVIOUS
<1>2. Max(1..k) \in 1..k /\ \A y \in 1..k : y <= Max(1..k)
  BY <1>1, MaxIsGreatest
<1>3. QED BY <1>1, <1>2

-----------------------------------------------------------------------------
(* Folds, step by step.  The provers cannot be given an operator as an      *)
(* argument, so that the folds of the model are told apart by a rule.       *)

TaskRule         == [kind |-> "task"]
MessageRule      == [kind |-> "message"]
AnswerRule       == [kind |-> "answer"]
TextRule(ns, id) == [kind |-> "text", ns |-> ns, id |-> id]

\* The folds of the adapter, and the one over the pieces of an item
OpenCallRule(c, key)      == [kind |-> "open call", c |-> c, key |-> key]
FormatCallRule(c, key)    == [kind |-> "format call", c |-> c, key |-> key]
CloseOwnRule(key, isCall) == [kind |-> "close own", key |-> key, isCall |-> isCall]
CloseRule                 == [kind |-> "close"]
FormatRule                == [kind |-> "format"]
StreamRule                == [kind |-> "stream"]
PieceRule                 == [kind |-> "piece"]

\* The orchestrator's
MergeRule == [kind |-> "merge"]

Apply(rule, x, c) ==
    CASE rule.kind = "task"    -> ProjectTask(x, c)
      [] rule.kind = "message" -> UpsertMessage(x, c)
      [] rule.kind = "answer"  -> UpsertAnswer(x, c)
      [] rule.kind = "text"    -> AddText(rule.ns, rule.id, x, c)
      [] rule.kind = "open call"   -> OpenCall(x, rule.c, rule.key, c)
      [] rule.kind = "format call" -> FormatCall(x, rule.c, rule.key, c)
      [] rule.kind = "close own"   -> CloseOwn(x, rule.key, c, rule.isCall)
      [] rule.kind = "close"       -> CloseMessage(x, c.key)
      [] rule.kind = "format"      -> Format(x, c)
      [] rule.kind = "stream"      -> FormatChunk(x, c)
      [] rule.kind = "piece"       -> x \o c.text
      [] rule.kind = "merge"       -> MergeChunk(x, c)

\* r holds what the fold has made of the first k elements of l, for every k.
Chain(rule, base, l, n, r) == r[0] = base /\ \A k \in 1..n : r[k] = Apply(rule, r[k - 1], l[k])

Step(rule, base, l, h, s) == IF s = {} THEN base ELSE Apply(rule, h[s \ {Max(s)}], l[Max(s)])

\* A fold of the subsets of a set that takes off the element p[s] of each.
StepBy(rule, base, p, l, h, s) == IF s = {} THEN base ELSE Apply(rule, h[s \ {p[s]}], l[p[s]])

UpTo(S, m) == {s \in SUBSET S : Cardinality(s) <= m}

Defines(rule, base, p, l, S, m, h) == h = [s \in UpTo(S, m) |-> StepBy(rule, base, p, l, h, s)]

LEMMA StepsExist ==
    ASSUME NEW rule, NEW base, NEW l, NEW S, IsFiniteSet(S), NEW m \in Nat,
           NEW p, \A s \in SUBSET S : s # {} => p[s] \in s
    PROVE  \E h : Defines(rule, base, p, l, S, m, h)
<1> DEFINE Bad == {i \in Nat : ~ \E h : Defines(rule, base, p, l, S, i, h)}
<1>0. \A s \in SUBSET S : IsFiniteSet(s) /\ Cardinality(s) \in Nat
  BY FS_Subset, FS_CardinalityType
<1>1. 0 \notin Bad
  <2>1. \A s \in UpTo(S, 0) : s = {}
    BY <1>0, FS_EmptySet DEF UpTo
  <2>2. Defines(rule, base, p, l, S, 0, [s \in UpTo(S, 0) |-> base])
    BY <2>1 DEF Defines, StepBy
  <2>3. QED BY <2>2
<1>2. ASSUME NEW i \in Nat, i \notin Bad
      PROVE  i + 1 \notin Bad
  <2>1. PICK h : Defines(rule, base, p, l, S, i, h)
    BY <1>2
  <2> DEFINE g == [s \in UpTo(S, i + 1) |-> StepBy(rule, base, p, l, h, s)]
  <2>2. \A s \in UpTo(S, i) : s \in UpTo(S, i + 1) /\ g[s] = h[s]
    <3>1. \A s \in UpTo(S, i) : s \in UpTo(S, i + 1)
      BY <1>0 DEF UpTo
    <3>2. \A s \in UpTo(S, i) : h[s] = StepBy(rule, base, p, l, h, s)
      BY <2>1 DEF Defines
    <3>3. QED BY <3>1, <3>2
  <2>3. \A s \in UpTo(S, i + 1) : StepBy(rule, base, p, l, g, s) = StepBy(rule, base, p, l, h, s)
    <3> SUFFICES ASSUME NEW s \in UpTo(S, i + 1)
                 PROVE  StepBy(rule, base, p, l, g, s) = StepBy(rule, base, p, l, h, s)
      OBVIOUS
    <3> HIDE DEF g
    <3>1. CASE s = {}
      BY <3>1 DEF StepBy
    <3>2. CASE s # {}
      <4>1. s \in SUBSET S /\ Cardinality(s) <= i + 1
        BY DEF UpTo
      <4>2. p[s] \in s
        BY <4>1, <3>2
      <4>3. Cardinality(s \ {p[s]}) = Cardinality(s) - 1
        BY <4>1, <4>2, <1>0, FS_RemoveElement
      <4>4. s \ {p[s]} \in SUBSET S
        BY <4>1
      <4>5. Cardinality(s \ {p[s]}) <= i
        BY <4>1, <4>3, <1>0
      <4>6. s \ {p[s]} \in UpTo(S, i)
        BY <4>4, <4>5 DEF UpTo
      <4>7. g[s \ {p[s]}] = h[s \ {p[s]}]
        BY <4>6, <2>2
      <4>8. QED BY <4>7 DEF StepBy
    <3>3. QED BY <3>1, <3>2
  <2> HIDE DEF g
  <2>4. g = [s \in UpTo(S, i + 1) |-> StepBy(rule, base, p, l, g, s)]
    <3>1. g = [s \in UpTo(S, i + 1) |-> StepBy(rule, base, p, l, h, s)]
      BY DEF g
    <3>2. QED BY <3>1, <2>3
  <2>5. QED BY <2>4 DEF Defines
<1>3. Bad = {}
  <2>1. SUFFICES ASSUME Bad # {} PROVE FALSE
    OBVIOUS
  <2>2. PICK i \in Bad : \A j \in Bad : i <= j
    BY <2>1, LeastNumber
  <2>3. i \in Nat /\ i # 0
    BY <2>2, <1>1
  <2>4. i - 1 \in Nat /\ i - 1 \notin Bad
    BY <2>2, <2>3
  <2>5. (i - 1) + 1 \notin Bad
    BY <2>4, <1>2
  <2>6. QED BY <2>5, <2>3, <2>2
<1>4. QED BY <1>3

IsSetFold(rule, base, p, l, S, h) == h = [s \in SUBSET S |-> StepBy(rule, base, p, l, h, s)]

LEMMA SetFoldExists ==
    ASSUME NEW rule, NEW base, NEW l, NEW S, IsFiniteSet(S),
           NEW p, \A s \in SUBSET S : s # {} => p[s] \in s
    PROVE  \E h : IsSetFold(rule, base, p, l, S, h)
<1> DEFINE n == Cardinality(S)
<1>0. n \in Nat
  BY FS_CardinalityType
<1>1. PICK h : Defines(rule, base, p, l, S, n, h)
  BY <1>0, StepsExist
<1>2. UpTo(S, n) = SUBSET S
  BY FS_Subset DEF UpTo
<1>3. IsSetFold(rule, base, p, l, S, h)
  BY <1>1, <1>2 DEF Defines, IsSetFold
<1>4. QED BY <1>3

IsFold(rule, base, l, n, f) == f = [s \in SUBSET (1..n) |-> Step(rule, base, l, f, s)]

LEMMA FoldExists ==
    ASSUME NEW rule, NEW base, NEW l, NEW n \in Nat
    PROVE  \E f : IsFold(rule, base, l, n, f)
<1> DEFINE p == [s \in SUBSET (1..n) |-> Max(s)]
<1>1. IsFiniteSet(1..n)
  BY FS_Interval
<1>2. \A s \in SUBSET (1..n) : s # {} => p[s] \in s
  BY MaxIsGreatest
<1>3. \A h : \A s \in SUBSET (1..n) : StepBy(rule, base, p, l, h, s) = Step(rule, base, l, h, s)
  BY DEF StepBy, Step
<1> HIDE DEF p
<1>4. PICK h : IsSetFold(rule, base, p, l, 1..n, h)
  BY <1>1, <1>2, SetFoldExists
<1>5. h = [s \in SUBSET (1..n) |-> Step(rule, base, l, h, s)]
  BY <1>3, <1>4 DEF IsSetFold
<1>6. QED BY <1>5 DEF IsFold

LEMMA FoldChain ==
    ASSUME NEW rule, NEW base, NEW l, NEW n \in Nat, NEW f, IsFold(rule, base, l, n, f)
    PROVE  \E r : Chain(rule, base, l, n, r) /\ f[1..n] = r[n]
<1> DEFINE r == [k \in 0..n |-> f[1..k]]
<1>0. f = [s \in SUBSET (1..n) |-> Step(rule, base, l, f, s)]
  BY DEF IsFold
<1>1. r[0] = base
  <2>1. 1..0 = {}
    OBVIOUS
  <2>2. r[0] = f[{}] /\ {} \in SUBSET (1..n)
    BY <2>1
  <2>3. f[{}] = Step(rule, base, l, f, {})
    BY <1>0, <2>2
  <2>4. QED BY <2>2, <2>3 DEF Step
<1>2. ASSUME NEW k \in 1..n
      PROVE  r[k] = Apply(rule, r[k - 1], l[k])
  <2>1. Max(1..k) = k /\ (1..k) \ {k} = 1..(k - 1)
    BY MaxOfFirst
  <2>2. 1..k # {} /\ 1..k \in SUBSET (1..n)
    <3>1. k \in 1..k /\ \A i \in 1..k : i \in 1..n
      OBVIOUS
    <3>2. 1..k # {}
      BY <3>1
    <3>3. 1..k \subseteq 1..n
      BY <3>1, Zenon
    <3>4. QED BY <3>2, <3>3
  <2>3. f[1..k] = Step(rule, base, l, f, 1..k)
    BY <1>0, <2>2
  <2>4. Step(rule, base, l, f, 1..k) = Apply(rule, f[1..(k - 1)], l[k])
    BY <2>1, <2>2 DEF Step
  <2>5. r[k] = f[1..k] /\ r[k - 1] = f[1..(k - 1)]
    OBVIOUS
  <2>6. QED BY <2>3, <2>4, <2>5
<1>3. r[n] = f[1..n]
  OBVIOUS
<1> HIDE DEF r
<1>4. QED BY <1>1, <1>2, <1>3 DEF Chain

\* A chain is determined by what it is made of.
LEMMA ChainsAgree ==
    ASSUME NEW rule, NEW base, NEW n \in Nat, NEW l, NEW m, \A k \in 1..n : l[k] = m[k],
           NEW r, Chain(rule, base, l, n, r), NEW q, Chain(rule, base, m, n, q)
    PROVE  r[n] = q[n]
<1> DEFINE Bad == {k \in 0..n : r[k] # q[k]}
<1>1. SUFFICES ASSUME Bad # {} PROVE FALSE
  OBVIOUS
<1>2. PICK k \in Bad : \A j \in Bad : k <= j
  <2>1. Bad \in SUBSET Nat
    OBVIOUS
  <2>2. QED BY <1>1, <2>1, LeastNumber
<1>3. k # 0
  BY <1>2 DEF Chain
<1>4. k \in 1..n /\ k - 1 \in 0..n /\ k - 1 \notin Bad
  BY <1>2, <1>3
<1>5. r[k - 1] = q[k - 1] /\ l[k] = m[k]
  BY <1>4
<1>6. r[k] = q[k]
  BY <1>4, <1>5 DEF Chain
<1>7. QED BY <1>2, <1>6

LEMMA TaskFold ==
    ASSUME NEW l, NEW n \in Nat, DOMAIN l = 1..n
    PROVE  \E r : Chain(TaskRule, <<>>, l, n, r) /\ FoldLeft(ProjectTask, <<>>, l) = r[n]
<1> DEFINE f == CHOOSE h : h = [s \in SUBSET (1..n) |->
                                IF s = {} THEN <<>> ELSE ProjectTask(h[s \ {Max(s)}], l[Max(s)])]
<1>1. \A h, s : Step(TaskRule, <<>>, l, h, s) = IF s = {} THEN <<>> ELSE ProjectTask(h[s \ {Max(s)}], l[Max(s)])
  BY DEF Step, Apply, TaskRule
<1>2. PICK h : IsFold(TaskRule, <<>>, l, n, h)
  BY FoldExists
<1>3. h = [s \in SUBSET (1..n) |-> IF s = {} THEN <<>> ELSE ProjectTask(h[s \ {Max(s)}], l[Max(s)])]
  BY <1>1, <1>2 DEF IsFold
<1>4. f = [s \in SUBSET (1..n) |-> IF s = {} THEN <<>> ELSE ProjectTask(f[s \ {Max(s)}], l[Max(s)])]
  BY <1>3
<1>5. FoldLeft(ProjectTask, <<>>, l) = f[1..n]
  BY DEF FoldLeft, MapThenFoldSet
<1> HIDE DEF f
<1>6. IsFold(TaskRule, <<>>, l, n, f)
  BY <1>1, <1>4 DEF IsFold
<1>7. \E r : Chain(TaskRule, <<>>, l, n, r) /\ f[1..n] = r[n]
  BY <1>6, FoldChain
<1>8. QED BY <1>5, <1>7

LEMMA MessageFold ==
    ASSUME NEW l, NEW n \in Nat, DOMAIN l = 1..n
    PROVE  \E r : Chain(MessageRule, <<>>, l, n, r) /\ FoldLeft(UpsertMessage, <<>>, l) = r[n]
<1> DEFINE f == CHOOSE h : h = [s \in SUBSET (1..n) |->
                                IF s = {} THEN <<>> ELSE UpsertMessage(h[s \ {Max(s)}], l[Max(s)])]
<1>1. \A h, s : Step(MessageRule, <<>>, l, h, s) = IF s = {} THEN <<>> ELSE UpsertMessage(h[s \ {Max(s)}], l[Max(s)])
  BY DEF Step, Apply, MessageRule
<1>2. PICK h : IsFold(MessageRule, <<>>, l, n, h)
  BY FoldExists
<1>3. h = [s \in SUBSET (1..n) |-> IF s = {} THEN <<>> ELSE UpsertMessage(h[s \ {Max(s)}], l[Max(s)])]
  BY <1>1, <1>2 DEF IsFold
<1>4. f = [s \in SUBSET (1..n) |-> IF s = {} THEN <<>> ELSE UpsertMessage(f[s \ {Max(s)}], l[Max(s)])]
  BY <1>3
<1>5. FoldLeft(UpsertMessage, <<>>, l) = f[1..n]
  BY DEF FoldLeft, MapThenFoldSet
<1> HIDE DEF f
<1>6. IsFold(MessageRule, <<>>, l, n, f)
  BY <1>1, <1>4 DEF IsFold
<1>7. \E r : Chain(MessageRule, <<>>, l, n, r) /\ f[1..n] = r[n]
  BY <1>6, FoldChain
<1>8. QED BY <1>5, <1>7

LEMMA AnswerFold ==
    ASSUME NEW l, NEW n \in Nat, DOMAIN l = 1..n
    PROVE  \E r : Chain(AnswerRule, <<>>, l, n, r) /\ FoldLeft(UpsertAnswer, <<>>, l) = r[n]
<1> DEFINE f == CHOOSE h : h = [s \in SUBSET (1..n) |->
                                IF s = {} THEN <<>> ELSE UpsertAnswer(h[s \ {Max(s)}], l[Max(s)])]
<1>1. \A h, s : Step(AnswerRule, <<>>, l, h, s) = IF s = {} THEN <<>> ELSE UpsertAnswer(h[s \ {Max(s)}], l[Max(s)])
  BY DEF Step, Apply, AnswerRule
<1>2. PICK h : IsFold(AnswerRule, <<>>, l, n, h)
  BY FoldExists
<1>3. h = [s \in SUBSET (1..n) |-> IF s = {} THEN <<>> ELSE UpsertAnswer(h[s \ {Max(s)}], l[Max(s)])]
  BY <1>1, <1>2 DEF IsFold
<1>4. f = [s \in SUBSET (1..n) |-> IF s = {} THEN <<>> ELSE UpsertAnswer(f[s \ {Max(s)}], l[Max(s)])]
  BY <1>3
<1>5. FoldLeft(UpsertAnswer, <<>>, l) = f[1..n]
  BY DEF FoldLeft, MapThenFoldSet
<1> HIDE DEF f
<1>6. IsFold(AnswerRule, <<>>, l, n, f)
  BY <1>1, <1>4 DEF IsFold
<1>7. \E r : Chain(AnswerRule, <<>>, l, n, r) /\ f[1..n] = r[n]
  BY <1>6, FoldChain
<1>8. QED BY <1>5, <1>7

Texts(l, ns, id) == FoldLeft(LAMBDA text, c : AddText(ns, id, text, c), <<>>, l)

LEMMA TextFold ==
    ASSUME NEW l, NEW n \in Nat, DOMAIN l = 1..n, NEW ns, NEW id
    PROVE  \E r : Chain(TextRule(ns, id), <<>>, l, n, r) /\ Texts(l, ns, id) = r[n]
<1> DEFINE f == CHOOSE h : h = [s \in SUBSET (1..n) |->
                                IF s = {} THEN <<>> ELSE AddText(ns, id, h[s \ {Max(s)}], l[Max(s)])]
<1>1. \A h, s : Step(TextRule(ns, id), <<>>, l, h, s) = IF s = {} THEN <<>> ELSE AddText(ns, id, h[s \ {Max(s)}], l[Max(s)])
  BY DEF Step, Apply, TextRule
<1>2. PICK h : IsFold(TextRule(ns, id), <<>>, l, n, h)
  BY FoldExists
<1>3. h = [s \in SUBSET (1..n) |-> IF s = {} THEN <<>> ELSE AddText(ns, id, h[s \ {Max(s)}], l[Max(s)])]
  BY <1>1, <1>2 DEF IsFold
<1>4. f = [s \in SUBSET (1..n) |-> IF s = {} THEN <<>> ELSE AddText(ns, id, f[s \ {Max(s)}], l[Max(s)])]
  BY <1>3
<1>5. Texts(l, ns, id) = f[1..n]
  BY DEF Texts, FoldLeft, MapThenFoldSet
<1> HIDE DEF f
<1>6. IsFold(TextRule(ns, id), <<>>, l, n, f)
  BY <1>1, <1>4 DEF IsFold
<1>7. \E r : Chain(TextRule(ns, id), <<>>, l, n, r) /\ f[1..n] = r[n]
  BY <1>6, FoldChain
<1>8. QED BY <1>5, <1>7

-----------------------------------------------------------------------------
(* What the events say of a task so far, and what the row of it says.       *)

Own(l, k, t) == {m \in 1..k : IsProjected(l[m]) /\ l[m].task = t}

Starts(l, k, t) == {m \in Own(l, k, t) : l[m].state = "running"}

Endings(l, k, t) == Own(l, k, t) \ Starts(l, k, t)

TasksOf(l, k) == {l[m].task : m \in {i \in 1..k : IsProjected(l[i])}}

TaskRow(l, k, t) ==
    [status    |-> l[Max(Own(l, k, t))].state,
     started   |-> IF Starts(l, k, t) = {} THEN None ELSE Min(Starts(l, k, t)),
     completed |-> IF Endings(l, k, t) = {} THEN None ELSE Max(Endings(l, k, t))]

RowsTell(l, k, rows) == rows = [t \in TasksOf(l, k) |-> TaskRow(l, k, t)]

LEMMA OwnFacts ==
    ASSUME NEW l, NEW k \in Nat, NEW t
    PROVE  /\ Own(l, k, t) \subseteq 1..k
           /\ Starts(l, k, t) \subseteq Own(l, k, t)
           /\ Endings(l, k, t) \subseteq Own(l, k, t)
           /\ Own(l, k, t) # {} <=> t \in TasksOf(l, k)
BY DEF Own, Starts, Endings, TasksOf

\* A chunk that is no event of the task changes nothing of it.
LEMMA OtherChunk ==
    ASSUME NEW l, NEW k \in Nat, k > 0, NEW t,
           ~ (IsProjected(l[k]) /\ l[k].task = t)
    PROVE  /\ Own(l, k, t) = Own(l, k - 1, t)
           /\ TaskRow(l, k, t) = TaskRow(l, k - 1, t)
<1>1. Own(l, k, t) = Own(l, k - 1, t)
  BY DEF Own
<1>2. QED BY <1>1 DEF TaskRow, Starts, Endings

LEMMA OwnChunk ==
    ASSUME NEW l, NEW k \in Nat, k > 0, IsProjected(l[k])
    PROVE  LET t == l[k].task
           IN  /\ Own(l, k, t) = Own(l, k - 1, t) \cup {k}
               /\ Starts(l, k, t) = Starts(l, k - 1, t) \cup (IF l[k].state = "running" THEN {k} ELSE {})
               /\ Endings(l, k, t) = Endings(l, k - 1, t) \cup (IF l[k].state = "running" THEN {} ELSE {k})
<1> DEFINE t == l[k].task
<1>1. Own(l, k, t) = Own(l, k - 1, t) \cup {k}
  BY DEF Own
<1>2. k \notin Own(l, k - 1, t)
  BY DEF Own
<1>3. QED BY <1>1, <1>2 DEF Starts, Endings

LEMMA LatestIsMax ==
    ASSUME NEW k \in Nat, k > 0, NEW S \in SUBSET (1..(k - 1))
    PROVE  Max(S \cup {k}) = k
<1>1. S \cup {k} \in SUBSET (1..k) /\ S \cup {k} # {}
  OBVIOUS
<1>2. Max(S \cup {k}) \in S \cup {k} /\ \A y \in S \cup {k} : y <= Max(S \cup {k})
  BY <1>1, MaxIsGreatest
<1>3. k <= Max(S \cup {k}) /\ Max(S \cup {k}) \in 1..k
  BY <1>2, <1>1
<1>4. QED BY <1>3

LEMMA EarliestIsMin ==
    ASSUME NEW k \in Nat, k > 0, NEW S \in SUBSET (1..(k - 1))
    PROVE  Min(S \cup {k}) = IF S = {} THEN k ELSE Min(S)
<1>1. S \in SUBSET Nat /\ S \cup {k} \in SUBSET Nat /\ S \cup {k} # {}
  OBVIOUS
<1>2. Min(S \cup {k}) \in S \cup {k} /\ \A y \in S \cup {k} : Min(S \cup {k}) <= y
  BY <1>1, MinIsLeast
<1>3. CASE S = {}
  BY <1>2, <1>3
<1>4. CASE S # {}
  <2>1. Min(S) \in S /\ \A y \in S : Min(S) <= y
    BY <1>1, <1>4, MinIsLeast
  <2>2. Min(S) \in 1..(k - 1)
    BY <2>1
  <2>3. PICK x \in S : x = Min(S)
    BY <2>1
  <2>4. PICK y \in S \cup {k} : y = Min(S \cup {k})
    BY <1>2
  <2>5. y <= x
    BY <1>2, <2>3, <2>4
  <2>6. y \in S
    BY <2>2, <2>3, <2>4, <2>5
  <2>7. x <= y
    BY <2>1, <2>3, <2>6
  <2>8. x \in Nat /\ y \in Nat
    BY <2>3, <2>6
  <2>9. QED BY <2>3, <2>4, <2>5, <2>7, <2>8, <1>4
<1>5. QED BY <1>3, <1>4

\* One event more: the rows tell of the events so far if they told of those before.
LEMMA RowsTellMore ==
    ASSUME NEW l, NEW k \in Nat, k > 0, l[k].seq = k, NEW rows, RowsTell(l, k - 1, rows)
    PROVE  RowsTell(l, k, ProjectTask(rows, l[k]))
<1>1. CASE ~IsProjected(l[k])
  <2>1. TasksOf(l, k) = TasksOf(l, k - 1)
    BY <1>1 DEF TasksOf
  <2>2. \A t : TaskRow(l, k, t) = TaskRow(l, k - 1, t)
    BY <1>1, OtherChunk
  <2>3. QED BY <1>1, <2>1, <2>2 DEF RowsTell, ProjectTask
<1>2. CASE IsProjected(l[k])
  <2> DEFINE t == l[k].task
             c == l[k]
             O == Own(l, k - 1, t)
             S == Starts(l, k - 1, t)
             E == Endings(l, k - 1, t)
  <2>1. TasksOf(l, k) = TasksOf(l, k - 1) \cup {t}
    BY <1>2 DEF TasksOf
  <2>2. \A u : u # t => TaskRow(l, k, u) = TaskRow(l, k - 1, u)
    BY OtherChunk
  <2>3. O \in SUBSET (1..(k - 1)) /\ S \in SUBSET (1..(k - 1)) /\ E \in SUBSET (1..(k - 1))
    <3>1. k - 1 \in Nat
      OBVIOUS
    <3>2. O \subseteq 1..(k - 1) /\ S \subseteq O /\ E \subseteq O
      BY <3>1, OwnFacts
    <3>3. QED BY <3>2
  <2>4. /\ Own(l, k, t) = O \cup {k}
        /\ Starts(l, k, t) = S \cup (IF c.state = "running" THEN {k} ELSE {})
        /\ Endings(l, k, t) = E \cup (IF c.state = "running" THEN {} ELSE {k})
    BY <1>2, OwnChunk
  <2>5. DOMAIN rows = TasksOf(l, k - 1) /\ \A u \in TasksOf(l, k - 1) : rows[u] = TaskRow(l, k - 1, u)
    BY DEF RowsTell
  <2> DEFINE row == [status    |-> c.state,
                     started   |-> IF S # {} THEN Min(S) ELSE IF c.state = "running" THEN k ELSE None,
                     completed |-> IF c.state # "running" THEN k ELSE IF E # {} THEN Max(E) ELSE None]
  <2>6. TaskRow(l, k, t) = row
    <3>1. Max(O \cup {k}) = k
      BY <2>3, LatestIsMax
    <3>2. Min(S \cup {k}) = IF S = {} THEN k ELSE Min(S)
      BY <2>3, EarliestIsMin
    <3>3. Max(E \cup {k}) = k
      BY <2>3, LatestIsMax
    <3> HIDE DEF O, S, E, t
    <3>4. S \cup {k} # {} /\ E \cup {k} # {} /\ S \cup {} = S /\ E \cup {} = E
      OBVIOUS
    <3>5. CASE c.state = "running"
      BY <2>4, <3>1, <3>2, <3>4, <3>5 DEF TaskRow
    <3>6. CASE c.state # "running"
      BY <2>4, <3>1, <3>3, <3>4, <3>6 DEF TaskRow
    <3>7. QED BY <3>5, <3>6
  <2>7. UpsertTask(rows, c) = Put(rows, t, row)
    <3>1. CASE t \notin DOMAIN rows
      <4>1. O = {}
        BY <3>1, <2>5, OwnFacts
      <4>2. S = {} /\ E = {}
        BY <4>1 DEF Starts, Endings
      <4>3. QED BY <3>1, <4>2 DEF UpsertTask
    <3>2. CASE t \in DOMAIN rows
      <4>1. rows[t] = TaskRow(l, k - 1, t)
        BY <3>2, <2>5
      <4>2. rows[t].started = IF S = {} THEN None ELSE Min(S)
        BY <4>1 DEF TaskRow
      <4>3. rows[t].completed = IF E = {} THEN None ELSE Max(E)
        BY <4>1 DEF TaskRow
      <4>4. S # {} => Min(S) # None
        <5>1. S # {} => Min(S) \in Nat
          BY <2>3, MinIsLeast
        <5>2. QED BY <5>1, ConstantsAssumption
      <4>5. k # None
        BY ConstantsAssumption
      <4> HIDE DEF S, E
      <4>6. CASE c.state = "running"
        BY <3>2, <4>2, <4>3, <4>4, <4>5, <4>6 DEF UpsertTask
      <4>7. CASE c.state # "running"
        BY <3>2, <4>2, <4>3, <4>4, <4>5, <4>7 DEF UpsertTask
      <4>8. QED BY <4>6, <4>7
    <3>3. QED BY <3>1, <3>2
  <2> HIDE DEF row
  <2>8. Put(rows, t, row) = [u \in TasksOf(l, k) |-> TaskRow(l, k, u)]
    BY <2>1, <2>2, <2>5, <2>6 DEF Put
  <2>9. QED BY <1>2, <2>7, <2>8 DEF RowsTell, ProjectTask
<1>3. QED BY <1>1, <1>2

\* The rows before the run is known to have ended.
LEMMA FoldedRowsTell ==
    ASSUME NEW l, NEW n \in Nat, DOMAIN l = 1..n, \A m \in 1..n : l[m].seq = m
    PROVE  RowsTell(l, n, FoldLeft(ProjectTask, <<>>, l))
<1>0. PICK r : Chain(TaskRule, <<>>, l, n, r) /\ FoldLeft(ProjectTask, <<>>, l) = r[n]
  BY TaskFold
<1>1. /\ r[0] = <<>>
      /\ \A k \in 1..n : r[k] = ProjectTask(r[k - 1], l[k])
      /\ FoldLeft(ProjectTask, <<>>, l) = r[n]
  BY <1>0 DEF Chain, Apply, TaskRule
<1> DEFINE Bad == {k \in 0..n : ~RowsTell(l, k, r[k])}
<1>2. RowsTell(l, 0, r[0])
  <2>1. TasksOf(l, 0) = {}
    BY DEF TasksOf
  <2>2. QED BY <2>1, <1>1 DEF RowsTell
<1>3. Bad = {}
  <2>1. SUFFICES ASSUME Bad # {} PROVE FALSE
    OBVIOUS
  <2>2. PICK k \in Bad : \A j \in Bad : k <= j
    <3>1. Bad \in SUBSET Nat
      OBVIOUS
    <3>2. QED BY <2>1, <3>1, LeastNumber
  <2>3. k \in 1..n /\ k - 1 \in 0..n /\ k - 1 \notin Bad
    BY <2>2, <1>2
  <2>4. RowsTell(l, k - 1, r[k - 1])
    BY <2>3
  <2>5. RowsTell(l, k, ProjectTask(r[k - 1], l[k]))
    BY <2>3, <2>4, RowsTellMore
  <2>6. QED BY <2>2, <2>3, <2>5, <1>1
<1>4. RowsTell(l, n, r[n])
  BY <1>3
<1>5. QED BY <1>1, <1>4

-----------------------------------------------------------------------------
(* Sequences that grow at their end.                                        *)

IsList(s) == s \in Seq(Range(s))

LEMMA ListFacts ==
    ASSUME NEW s, IsList(s)
    PROVE  Len(s) \in Nat /\ DOMAIN s = 1..Len(s) /\ Range(s) = {s[i] : i \in 1..Len(s)}
BY LenProperties DEF IsList, Range

LEMMA ListWithMore ==
    ASSUME NEW s, IsList(s), NEW x
    PROVE  /\ IsList(Append(s, x))
           /\ Len(Append(s, x)) = Len(s) + 1
           /\ \A i \in 1..Len(s) : Append(s, x)[i] = s[i]
           /\ Append(s, x)[Len(s) + 1] = x
           /\ Range(Append(s, x)) = Range(s) \cup {x}
<1> DEFINE S == Range(s) \cup {x}
           t == Append(s, x)
<1>1. s \in Seq(S) /\ x \in S
  <2>1. Len(s) \in Nat /\ s = [i \in 1..Len(s) |-> s[i]] /\ \A i \in 1..Len(s) : s[i] \in S
    BY ListFacts DEF IsList, Range
  <2>2. QED BY <2>1
<1>2. /\ t \in Seq(S)
      /\ Len(t) = Len(s) + 1
      /\ \A i \in 1..Len(s) : t[i] = s[i]
      /\ t[Len(s) + 1] = x
  BY ONLY <1>1, AppendProperties, LenProperties
<1>3. IsList(t)
  BY <1>2, SeqOfRange DEF IsList
<1>4. Range(t) = Range(s) \cup {x}
  <2>1. Range(t) = {t[i] : i \in 1..Len(s) + 1}
    BY <1>2, <1>3, ListFacts
  <2>2. Range(s) = {s[i] : i \in 1..Len(s)} /\ Len(s) \in Nat
    BY ListFacts
  <2>3. QED BY <2>1, <2>2, <1>2
<1>5. QED BY <1>2, <1>3, <1>4

-----------------------------------------------------------------------------
(* The invariant.                                                           *)

\* What the executor keeps of the chunks.
Buffered ==
    /\ agent \in Agent
    /\ raw \in Seq(agent.kinds) /\ Len(raw) <= agent.chunks
    /\ IsList(log)
    /\ \A n \in 1..Len(log) : log[n].seq = n
    /\ status \in Ended \union {"running"}
    /\ published \in {Len(log), Len(log) - 1} /\ (status = "running" => published = Len(log))

\* The transfer is written once and all at once.
Written ==
    /\ db.written \in BOOLEAN
    /\ db.written => status \in Ended
    /\ db.written => db.tasks = TaskRows(status)
    /\ \A row \in db.chunks : row.seq \in 1..Len(log)

\* Connection and client never know of a chunk that there is not.
Followed ==
    /\ conn = [open |-> conn.open, via |-> conn.via, cursor |-> conn.cursor,
               whole |-> conn.whole, adapter |-> conn.adapter]
    /\ conn.cursor \in 0..Len(log) + 1
    /\ client = [events |-> client.events, lastId |-> client.lastId, whole |-> client.whole]
    /\ client.lastId # None => client.lastId \in 0..Len(log) + 1
    /\ opened \in 0..agent.connections

\* The last of the first k events of task t under namespace ns is that it runs.
RunsAt(l, k, ns, t) ==
    LET before == {m \in 1..k : IsProjected(l[m]) /\ l[m].task = t /\ l[m].ns = ns}
    IN  before # {} /\ l[Max(before)].state = "running"

\* The tasks that the resolver takes for running are those whose last event says so.
RunningTold ==
    /\ running \in [Namespace -> SUBSET {c.task : c \in Range(log)}]
    /\ \A ns \in Namespace : /\ IsFiniteSet(running[ns])
                             /\ \A t : t \in running[ns] <=> RunsAt(log, Len(log), ns, t)

\* Every inference was made while one task was running.
Inferred ==
    \A n \in 1..Len(log) :
        log[n].link = "inferred" => /\ log[n].ns \in Namespace
                                    /\ \A t : RunsAt(log, n, log[n].ns, t) <=> t = log[n].task

Inv == Buffered /\ Written /\ Followed /\ RunningTold /\ Inferred

LEMMA RunsBefore ==
    ASSUME NEW l, IsList(l), NEW x, NEW k \in 0..Len(l), NEW ns, NEW t
    PROVE  RunsAt(Append(l, x), k, ns, t) <=> RunsAt(l, k, ns, t)
<1> DEFINE Before(s) == {m \in 1..k : IsProjected(s[m]) /\ s[m].task = t /\ s[m].ns = ns}
<1>1. Len(l) \in Nat /\ \A m \in 1..k : Append(l, x)[m] = l[m]
  BY ListFacts, ListWithMore
<1>2. Before(Append(l, x)) = Before(l)
  BY <1>1
<1>3. Before(l) # {} => Max(Before(l)) \in 1..k
  <2>1. k \in Nat /\ Before(l) \in SUBSET (1..k)
    BY <1>1
  <2> HIDE DEF Before
  <2>2. QED BY <2>1, MaxIsGreatest
<1>4. Before(l) # {} => Append(l, x)[Max(Before(l))] = l[Max(Before(l))]
  BY <1>1, <1>3
<1> HIDE DEF Before
<1>5. (Before(Append(l, x)) # {} /\ Append(l, x)[Max(Before(Append(l, x)))].state = "running")
      <=> (Before(l) # {} /\ l[Max(Before(l))].state = "running")
  BY <1>2, <1>4
<1>6. QED BY <1>5 DEF RunsAt, Before

LEMMA RunsNow ==
    ASSUME NEW l, NEW k \in Nat, k > 0, NEW ns, NEW t
    PROVE  RunsAt(l, k, ns, t) <=> IF IsProjected(l[k]) /\ l[k].task = t /\ l[k].ns = ns
                                   THEN l[k].state = "running"
                                   ELSE RunsAt(l, k - 1, ns, t)
<1> DEFINE Is(m) == IsProjected(l[m]) /\ l[m].task = t /\ l[m].ns = ns
           B == {m \in 1..k : Is(m)}
           C == {m \in 1..(k - 1) : Is(m)}
<1>1. CASE Is(k)
  <2>1. B = C \cup {k}
    BY <1>1
  <2>2. Max(C \cup {k}) = k
    BY LatestIsMax
  <2>3. B # {} /\ Max(B) = k
    BY <2>1, <2>2
  <2>4. RunsAt(l, k, ns, t) <=> l[k].state = "running"
    BY <2>3 DEF RunsAt
  <2>5. QED BY <2>4, <1>1
<1>2. CASE ~Is(k)
  <2>1. B = C
    BY <1>2
  <2>2. RunsAt(l, k, ns, t) <=> RunsAt(l, k - 1, ns, t)
    BY <2>1 DEF RunsAt
  <2>3. QED BY <2>2, <1>2
<1>3. QED BY <1>1, <1>2

-----------------------------------------------------------------------------
(* The chunk that is buffered.                                              *)

\* What the resolver made of the next chunk.
LEMMA ResolvedFacts ==
    ASSUME NEW k, Supported(k)
    PROVE  LET c == Resolved(Normalized(k))
           IN  /\ c.seq = Len(log) + 1 /\ c.type = k.type /\ c.ns = k.ns
               /\ c.link = "inferred" => /\ c.type = "custom"
                                         /\ Cardinality(running[k.ns]) = 1
                                         /\ c.task \in running[k.ns]
<1> DEFINE n == Normalized(k)
<1>1. n = [seq |-> Len(log) + 1, type |-> k.type, ns |-> k.ns, named |-> n.named, path |-> n.path,
           task |-> None, link |-> None, state |-> n.state, whole |-> n.whole, id |-> n.id,
           role |-> n.role, text |-> n.text, calls |-> n.calls, last |-> n.last, finish |-> n.finish]
  BY DEF Normalized, NextNumber
<1> HIDE DEF n
<1>2. \A task, link : /\ Linked(n, task, link).seq = n.seq
                      /\ Linked(n, task, link).type = n.type
                      /\ Linked(n, task, link).ns = n.ns
                      /\ Linked(n, task, link).task = task
                      /\ Linked(n, task, link).link = IF task = None THEN "unassigned" ELSE link
  BY <1>1 DEF Linked
<1>3. n.seq = Len(log) + 1 /\ n.type = k.type /\ n.ns = k.ns
  BY <1>1
<1>4. CASE n.type = "tasks"
  <2>1. Resolved(n) = Linked(n, n.named, "explicit")
    BY <1>4 DEF Resolved
  <2>2. Resolved(n).link # "inferred"
    BY <2>1, <1>2
  <2>3. QED BY <2>1, <2>2, <1>2, <1>3 DEF n
<1>5. CASE n.type = "messages"
  <2>1. Resolved(n) = Linked(n, CheckpointTask(n), "metadata")
    BY <1>5 DEF Resolved
  <2>2. Resolved(n).link # "inferred"
    BY <2>1, <1>2
  <2>3. QED BY <2>1, <2>2, <1>2, <1>3 DEF n
<1>6. CASE n.type = "custom"
  <2>1. Resolved(n) = ResolvedCustom(n)
    BY <1>6 DEF Resolved
  <2>2. CASE n.named = None /\ Cardinality(running[n.ns]) = 1
    <3> DEFINE t == CHOOSE u \in running[n.ns] : TRUE
    <3>1. Resolved(n) = Linked(n, t, "inferred")
      BY <2>1, <2>2 DEF ResolvedCustom
    <3>2. running[n.ns] # {}
      BY <2>2, FS_EmptySet
    <3>3. t \in running[n.ns]
      BY <3>2
    <3> HIDE DEF t
    <3>4. QED BY <3>1, <3>3, <2>2, <1>2, <1>3, <1>6 DEF n
  <2>3. CASE ~ (n.named = None /\ Cardinality(running[n.ns]) = 1)
    <3>1. Resolved(n) = Linked(n, n.named, "explicit")
      BY <2>1, <2>3 DEF ResolvedCustom
    <3>2. Resolved(n).link # "inferred"
      BY <3>1, <1>2
    <3>3. QED BY <3>1, <3>2, <1>2, <1>3 DEF n
  <2>4. QED BY <2>2, <2>3
<1>7. n.type \in {"tasks", "messages", "custom"}
  BY <1>3 DEF Supported
<1>8. QED BY <1>4, <1>5, <1>6, <1>7

\* What Buffer does to the log, whatever follows it.
Buffers(k) ==
    LET c == Resolved(Normalized(k))
    IN  /\ status = "running"
        /\ k \in agent.kinds /\ Supported(k) /\ Len(raw) < agent.chunks
        /\ raw' = Append(raw, k)
        /\ log' = Append(log, c)
        /\ running' = Remaining(c)

\* The log after a chunk was buffered.
LEMMA LogGrows ==
    ASSUME Inv, NEW k, Buffers(k)
    PROVE  LET c == Resolved(Normalized(k))
           IN  /\ Len(log) \in Nat /\ Len(log') = Len(log) + 1 /\ IsList(log')
               /\ \A n \in 1..Len(log) : log'[n] = log[n]
               /\ log'[Len(log')] = c
               /\ Range(log') = Range(log) \cup {c}
               /\ \A n \in 1..Len(log) + 1 : log'[n].seq = n
<1> DEFINE c == Resolved(Normalized(k))
<1>1. Len(log) \in Nat /\ IsList(log)
  BY ListFacts DEF Inv, Buffered
<1>2. log' = Append(log, c)
  BY DEF Buffers
<1>3. c.seq = Len(log) + 1
  BY ResolvedFacts DEF Buffers
<1> HIDE DEF c
<1>4. /\ Len(log') = Len(log) + 1 /\ IsList(log')
      /\ \A n \in 1..Len(log) : log'[n] = log[n]
      /\ log'[Len(log) + 1] = c
      /\ Range(log') = Range(log) \cup {c}
  BY <1>1, <1>2, ListWithMore
<1>5. \A n \in 1..Len(log) + 1 : log'[n].seq = n
  BY <1>1, <1>3, <1>4 DEF Inv, Buffered
<1>6. QED BY <1>1, <1>4, <1>5 DEF c

LEMMA BufferKeepsRunningTold ==
    ASSUME Inv, NEW k, Buffers(k)
    PROVE  RunningTold'
<1>1. PICK c : c = Resolved(Normalized(k))
  OBVIOUS
<1>2. /\ Len(log) \in Nat /\ Len(log') = Len(log) + 1 /\ IsList(log')
      /\ log'[Len(log')] = c
      /\ Range(log') = Range(log) \cup {c}
  BY <1>1, LogGrows
<1>3. log' = Append(log, c) /\ IsList(log) /\ running' = Remaining(c)
  BY <1>1 DEF Buffers, Inv, Buffered
<1>4. /\ running \in [Namespace -> SUBSET {x.task : x \in Range(log)}]
      /\ \A ns \in Namespace : /\ IsFiniteSet(running[ns])
                               /\ \A t : t \in running[ns] <=> RunsAt(log, Len(log), ns, t)
  BY DEF Inv, RunningTold
<1>5. \A ns, t : RunsAt(log', Len(log'), ns, t) <=>
                    IF IsProjected(c) /\ c.task = t /\ c.ns = ns THEN c.state = "running"
                    ELSE RunsAt(log, Len(log), ns, t)
  <2> TAKE ns, t
  <2>1. Len(log') \in Nat /\ Len(log') > 0 /\ Len(log') - 1 = Len(log) /\ Len(log) \in 0..Len(log)
    BY <1>2
  <2>2. RunsAt(log', Len(log'), ns, t) <=> IF IsProjected(c) /\ c.task = t /\ c.ns = ns
                                            THEN c.state = "running"
                                            ELSE RunsAt(log', Len(log), ns, t)
    BY <2>1, <1>2, RunsNow
  <2>3. RunsAt(log', Len(log), ns, t) <=> RunsAt(log, Len(log), ns, t)
    BY <2>1, <1>3, RunsBefore
  <2>4. QED BY <2>2, <2>3
<1>6. {x.task : x \in Range(log')} = {x.task : x \in Range(log)} \cup {c.task}
  BY <1>2
<1>7. CASE ~IsProjected(c)
  <2>1. running' = running
    BY <1>3, <1>7 DEF Remaining, IsProjected
  <2>2. running' \in [Namespace -> SUBSET {x.task : x \in Range(log')}]
    BY <2>1, <1>4, <1>6
  <2>3. ASSUME NEW ns \in Namespace
        PROVE  /\ IsFiniteSet(running'[ns])
               /\ \A t : t \in running'[ns] <=> RunsAt(log', Len(log'), ns, t)
    BY <2>1, <1>4, <1>5, <1>7
  <2>4. QED BY <2>2, <2>3 DEF RunningTold
<1>8. CASE IsProjected(c)
  <2> DEFINE now(ns) == IF ns # c.ns THEN running[ns]
                        ELSE IF c.state = "running" THEN running[ns] \cup {c.task}
                        ELSE running[ns] \ {c.task}
  <2>1. running' = [ns \in Namespace |-> now(ns)]
    BY <1>3, <1>4, <1>8 DEF Remaining, IsProjected
  <2>2. \A ns \in Namespace : now(ns) \subseteq {x.task : x \in Range(log')}
    BY <1>4, <1>6
  <2>3. running' \in [Namespace -> SUBSET {x.task : x \in Range(log')}]
    BY <2>1, <2>2
  <2>4. ASSUME NEW ns \in Namespace
        PROVE  /\ IsFiniteSet(running'[ns])
               /\ \A t : t \in running'[ns] <=> RunsAt(log', Len(log'), ns, t)
    <3>1. running'[ns] = now(ns)
      BY <2>1
    <3>2. IsFiniteSet(now(ns))
      <4>1. IsFiniteSet(running[ns])
        BY <1>4
      <4>2. IsFiniteSet(running[ns] \cup {c.task}) /\ IsFiniteSet(running[ns] \ {c.task})
        BY <4>1, FS_AddElement, FS_RemoveElement
      <4>3. QED BY <4>1, <4>2
    <3>3. \A t : t \in now(ns) <=> RunsAt(log', Len(log'), ns, t)
      BY <1>4, <1>5, <1>8
    <3> HIDE DEF now
    <3>4. QED BY <3>1, <3>2, <3>3
  <2>5. QED BY <2>3, <2>4 DEF RunningTold
<1>9. QED BY <1>7, <1>8

\* A remark is given to the task that runs while it is the only one.
LEMMA BufferKeepsInferred ==
    ASSUME Inv, NEW k, Buffers(k)
    PROVE  Inferred'
<1>1. PICK c : c = Resolved(Normalized(k))
  OBVIOUS
<1>2. /\ Len(log) \in Nat /\ Len(log') = Len(log) + 1
      /\ \A n \in 1..Len(log) : log'[n] = log[n]
      /\ log'[Len(log')] = c
  BY <1>1, LogGrows
<1>3. log' = Append(log, c) /\ IsList(log)
  BY <1>1 DEF Buffers, Inv, Buffered
<1>4. SUFFICES ASSUME NEW n \in 1..Len(log'), log'[n].link = "inferred"
               PROVE  /\ log'[n].ns \in Namespace
                      /\ \A t : RunsAt(log', n, log'[n].ns, t) <=> t = log'[n].task
  BY DEF Inferred
<1>5. CASE n \in 1..Len(log)
  <2>1. log'[n] = log[n]
    BY <1>2, <1>5
  <2>2. /\ log[n].ns \in Namespace
        /\ \A t : RunsAt(log, n, log[n].ns, t) <=> t = log[n].task
    BY <2>1, <1>4, <1>5 DEF Inv, Inferred
  <2>3. n \in 0..Len(log)
    BY <1>2, <1>5
  <2>4. \A t : RunsAt(log', n, log[n].ns, t) <=> RunsAt(log, n, log[n].ns, t)
    BY <2>3, <1>3, RunsBefore
  <2>5. QED BY <2>1, <2>2, <2>4
<1>6. CASE n = Len(log')
  <2>1. log'[n] = c /\ c.link = "inferred"
    BY <1>2, <1>4, <1>6
  <2>2. Supported(k)
    BY DEF Buffers
  <2>3. c.ns = k.ns /\ c.type = "custom" /\ Cardinality(running[c.ns]) = 1 /\ c.task \in running[c.ns]
    BY <2>1, <2>2, <1>1, ResolvedFacts
  <2>4. c.ns \in Namespace
    BY <2>3, ConstantsAssumption DEF Buffers, Inv, Buffered
  <2>5. IsFiniteSet(running[c.ns]) /\ \A t : t \in running[c.ns] <=> RunsAt(log, Len(log), c.ns, t)
    BY <2>4 DEF Inv, RunningTold
  <2>6. PICK x : running[c.ns] = {x}
    BY <2>3, <2>5, FS_Singleton
  <2>7. \A t : RunsAt(log, Len(log), c.ns, t) <=> t = c.task
    BY <2>3, <2>5, <2>6
  <2>8. ~IsProjected(c)
    BY <2>3 DEF IsProjected
  <2>9. n \in Nat /\ n > 0 /\ n - 1 = Len(log) /\ Len(log) \in 0..Len(log)
    BY <1>2, <1>6
  <2>10. \A t : RunsAt(log', n, c.ns, t) <=> RunsAt(log', Len(log), c.ns, t)
    BY <2>1, <2>8, <2>9, RunsNow
  <2>11. \A t : RunsAt(log', Len(log), c.ns, t) <=> RunsAt(log, Len(log), c.ns, t)
    BY <2>9, <1>3, RunsBefore
  <2>12. QED BY <2>1, <2>4, <2>7, <2>10, <2>11
<1>7. QED BY <1>2, <1>5, <1>6

-----------------------------------------------------------------------------
(* Every step keeps the invariant.                                          *)

LEMMA InitInv == Init => Inv
<1> SUFFICES ASSUME Init PROVE Inv
  OBVIOUS
<1>1. Len(log) = 0 /\ IsList(log) /\ Range(log) = {}
  <2>1. log = <<>> /\ <<>> \in Seq({}) /\ Len(<<>>) = 0
    BY EmptySeq DEF Init
  <2>2. IsList(log)
    BY <2>1, SeqOfRange DEF IsList
  <2>3. Range(log) = {log[i] : i \in 1..Len(log)} /\ Len(log) = 0
    BY <2>1, <2>2, ListFacts
  <2>4. Range(log) = {}
    BY <2>3
  <2>5. QED BY <2>2, <2>3, <2>4
<1>2. Buffered
  <2>1. raw \in Seq(agent.kinds) /\ Len(raw) = 0
    BY EmptySeq DEF Init
  <2>2. agent \in Agent /\ agent.chunks \in Nat
    BY ConstantsAssumption DEF Init
  <2>3. QED BY <1>1, <2>1, <2>2 DEF Init, Buffered, Ended
<1>3. Written
  BY DEF Init, Written, NoRows
<1>4. Followed
  <2>1. agent.connections \in Nat
    BY ConstantsAssumption DEF Init
  <2>2. QED BY <1>1, <2>1 DEF Init, Followed, Closed
<1>5. RunningTold
  <2>1. running = [ns \in Namespace |-> {}] /\ IsFiniteSet({})
    BY FS_EmptySet DEF Init
  <2>2. \A ns, t : ~RunsAt(log, Len(log), ns, t)
    BY <1>1 DEF RunsAt
  <2>3. QED BY <2>1, <2>2 DEF RunningTold
<1>6. Inferred
  BY <1>1 DEF Inferred
<1>7. QED BY <1>2, <1>3, <1>4, <1>5, <1>6 DEF Inv

\* A chunk is buffered; it may fail the run, and Redis may not have it.
LEMMA BufferKeepsInv ==
    ASSUME Inv, NEW k, Buffers(k),
           UNCHANGED <<agent, db, conn, client, opened>>,
           \/ status' = status /\ published' = published + 1
           \/ status' \in Ended /\ published' = published
    PROVE  Inv'
<1>1. /\ Len(log) \in Nat /\ Len(log') = Len(log) + 1 /\ IsList(log')
      /\ \A n \in 1..Len(log) + 1 : log'[n].seq = n
  BY LogGrows
<1>2. Buffered'
  <2>1. raw' \in Seq(agent.kinds) /\ Len(raw') = Len(raw) + 1 /\ Len(raw) \in Nat
    <3>1. raw \in Seq(agent.kinds) /\ k \in agent.kinds /\ raw' = Append(raw, k)
      BY DEF Buffers, Inv, Buffered
    <3>2. QED BY <3>1, AppendProperties, LenProperties
  <2>2. Len(raw) < agent.chunks /\ agent.chunks \in Nat
    BY ConstantsAssumption DEF Buffers, Inv, Buffered
  <2>3. published = Len(log)
    BY DEF Buffers, Inv, Buffered
  <2>4. status' \in Ended \union {"running"} /\ "running" \notin Ended
    BY DEF Buffers, Ended
  <2>5. published' \in {Len(log'), Len(log') - 1} /\ (status' = "running" => published' = Len(log'))
    BY <1>1, <2>3, <2>4
  <2>6. agent' \in Agent /\ agent' = agent
    BY DEF Inv, Buffered
  <2>7. QED BY <1>1, <2>1, <2>2, <2>4, <2>5, <2>6 DEF Buffered
<1>3. Written'
  <2>1. db.written = FALSE
    BY DEF Inv, Written, Buffers, Ended
  <2>2. \A row \in db.chunks : row.seq \in 1..Len(log')
    BY <1>1 DEF Inv, Written
  <2>3. QED BY <2>1, <2>2 DEF Written
<1>4. Followed'
  BY <1>1 DEF Inv, Followed
<1>5. RunningTold' /\ Inferred'
  BY BufferKeepsRunningTold, BufferKeepsInferred
<1>6. QED BY <1>2, <1>3, <1>4, <1>5 DEF Inv

LEMMA ChunkKeepsInv ==
    ASSUME Inv, NEW k, Chunk(k)
    PROVE  Inv'
<1>1. Buffers(k)
  BY DEF Chunk, Buffer, Buffers
<1>2. QED BY <1>1, BufferKeepsInv DEF Chunk

LEMMA ChunkRefusedKeepsInv ==
    ASSUME Inv, NEW k, NEW ending, ChunkRefused(k, ending)
    PROVE  Inv'
<1>1. Buffers(k)
  BY DEF ChunkRefused, Buffer, Buffers
<1>2. status' \in Ended /\ published' = published
  BY DEF ChunkRefused, Ended
<1>3. QED BY <1>1, <1>2, BufferKeepsInv DEF ChunkRefused

LEMMA ChunkUnmergeableKeepsInv ==
    ASSUME Inv, NEW k, ChunkUnmergeable(k)
    PROVE  Inv'
<1>1. Buffers(k)
  BY DEF ChunkUnmergeable, Buffer, Buffers
<1>2. status' \in Ended /\ published' = published
  BY DEF ChunkUnmergeable, Ended
<1>3. QED BY <1>1, <1>2, BufferKeepsInv DEF ChunkUnmergeable

LEMMA ChunkIgnoredKeepsInv ==
    ASSUME Inv, NEW k, ChunkIgnored(k)
    PROVE  Inv'
<1>1. UNCHANGED <<agent, log, running, status, published, db, conn, client, opened>>
  BY DEF ChunkIgnored
<1>2. raw' \in Seq(agent.kinds) /\ Len(raw') = Len(raw) + 1 /\ Len(raw) \in Nat
  <2>1. raw \in Seq(agent.kinds) /\ k \in agent.kinds /\ raw' = Append(raw, k)
    BY DEF ChunkIgnored, Inv, Buffered
  <2>2. QED BY <2>1, AppendProperties, LenProperties
<1>3. Len(raw) < agent.chunks /\ agent.chunks \in Nat
  BY ConstantsAssumption DEF ChunkIgnored, Inv, Buffered
<1>4. Buffered'
  BY <1>1, <1>2, <1>3 DEF Inv, Buffered
<1>5. Written'
  <2>1. TaskRows(status)' = TaskRows(status)
    BY <1>1 DEF TaskRows
  <2>2. QED BY <1>1, <2>1 DEF Inv, Written
<1>6. Followed' /\ RunningTold' /\ Inferred'
  BY <1>1 DEF Inv, Followed, RunningTold, Inferred
<1>7. QED BY <1>4, <1>5, <1>6 DEF Inv

LEMMA EndsKeepsInv ==
    ASSUME Inv, NEW ending, Ends(ending)
    PROVE  Inv'
<1>1. UNCHANGED <<agent, raw, log, running, published, db, conn, client, opened>>
  BY DEF Ends
<1>2. status = "running" /\ status' \in Ended /\ "running" \notin Ended
  BY DEF Ends, Ended
<1>3. Buffered'
  BY <1>1, <1>2 DEF Inv, Buffered
<1>4. Written'
  BY <1>1, <1>2 DEF Inv, Written
<1>5. Followed' /\ RunningTold' /\ Inferred'
  BY <1>1 DEF Inv, Followed, RunningTold, Inferred
<1>6. QED BY <1>3, <1>4, <1>5 DEF Inv

LEMMA TransferKeepsInv ==
    ASSUME Inv, Transfer
    PROVE  Inv'
<1>1. UNCHANGED <<agent, raw, log, running, status, published, conn, client, opened>>
  BY DEF Transfer
<1>2. Buffered' /\ Followed' /\ RunningTold' /\ Inferred'
  BY <1>1 DEF Inv, Buffered, Followed, RunningTold, Inferred
<1>3. Written'
  <2>1. db'.written = TRUE /\ status \in Ended
    BY DEF Transfer
  <2>2. db'.tasks = TaskRows(status) /\ TaskRows(status)' = TaskRows(status)
    BY <1>1 DEF Transfer, TaskRows
  <2>3. ASSUME NEW row \in db'.chunks
        PROVE  row.seq \in 1..Len(log)
    <3>1. IsList(log) /\ \A n \in 1..Len(log) : log[n].seq = n
      BY DEF Inv, Buffered
    <3>2. PICK n \in 1..Len(log) : row = ChunkRow(log[n])
      <4>1. row \in {ChunkRow(log[n]) : n \in DOMAIN log}
        BY DEF Transfer
      <4>2. QED BY <4>1, <3>1, ListFacts
    <3>3. row.seq = n
      BY <3>1, <3>2 DEF ChunkRow
    <3>4. QED BY <3>3
  <2>4. QED BY <1>1, <2>1, <2>2, <2>3 DEF Written
<1>4. QED BY <1>2, <1>3 DEF Inv

\* What the subscription does leaves the executor alone.
LEMMA FollowingKeepsInv ==
    ASSUME Inv, UNCHANGED executor, Followed'
    PROVE  Inv'
<1>1. UNCHANGED <<agent, raw, log, running, status, published, db>>
  BY DEF executor
<1>2. Buffered' /\ RunningTold' /\ Inferred'
  BY <1>1 DEF Inv, Buffered, RunningTold, Inferred
<1>3. Written'
  <2>1. TaskRows(status)' = TaskRows(status)
    BY <1>1 DEF TaskRows
  <2>2. QED BY <1>1, <2>1 DEF Inv, Written
<1>4. QED BY <1>2, <1>3 DEF Inv

\* Whatever is sent, the connection is where next says, and the client knows
\* that place or one it knew.
LEMMA SendKeepsFollowed ==
    ASSUME Inv, NEW next, NEW id, Send(next, id),
           next = [open |-> next.open, via |-> next.via, cursor |-> next.cursor,
                   whole |-> next.whole, adapter |-> next.adapter],
           next.cursor \in 0..Len(log) + 1, id \in 0..Len(log) + 1,
           opened' \in 0..agent.connections
    PROVE  UNCHANGED executor /\ Followed'
<1>1. PICK j : /\ conn' = [next EXCEPT !.open = @ /\ j = Len(next.adapter.out), !.adapter.out = <<>>]
               /\ client' = [Received(next.adapter.out, j, id) EXCEPT !.whole = @ /\ next.whole]
               /\ UNCHANGED executor
  BY DEF Send
<1>2. UNCHANGED <<log, agent>>
  BY <1>1 DEF executor
<1>3. /\ conn' = [open |-> conn'.open, via |-> conn'.via, cursor |-> conn'.cursor,
                  whole |-> conn'.whole, adapter |-> conn'.adapter]
      /\ conn'.cursor = next.cursor
  BY <1>1
<1>4. PICK r : r = Received(next.adapter.out, j, id)
  OBVIOUS
<1>5. /\ r = [events |-> r.events, lastId |-> r.lastId, whole |-> r.whole]
      /\ r.lastId \in {client.lastId, id}
  BY <1>4 DEF Received
<1>6. client' = [r EXCEPT !.whole = @ /\ next.whole]
  BY <1>1, <1>4
<1>7. /\ client' = [events |-> client'.events, lastId |-> client'.lastId, whole |-> client'.whole]
      /\ client'.lastId = r.lastId
  BY <1>5, <1>6
<1>8. client'.lastId # None => client'.lastId \in 0..Len(log) + 1
  BY <1>5, <1>7 DEF Inv, Followed
<1>9. QED BY <1>1, <1>2, <1>3, <1>7, <1>8 DEF Followed

LEMMA ConnectKeepsInv ==
    ASSUME Inv, NEW via, Connect(via)
    PROVE  Inv'
<1> DEFINE isResume == client.lastId # None
           from     == IF isResume THEN client.lastId ELSE 0
           replayed == IF via = "redis" THEN Min({from, published}) ELSE 0
           a        == Replay(replayed)
           b        == IF isResume THEN [a EXCEPT !.out = <<>>] ELSE a
<1>1. PICK next : next = [open |-> TRUE, via |-> via, cursor |-> from, whole |-> replayed = from, adapter |-> b]
  OBVIOUS
<1>2. Send(next, 0) /\ opened < agent.connections /\ opened' = opened + 1
  BY <1>1 DEF Connect
<1>3. Len(log) \in Nat
  BY ListFacts DEF Inv, Buffered
<1>4. from \in 0..Len(log) + 1
  BY <1>3 DEF Inv, Followed
<1> HIDE DEF from, b, replayed
<1>5. next.cursor \in 0..Len(log) + 1 /\ 0 \in 0..Len(log) + 1
  BY <1>1, <1>3, <1>4
<1>6. next = [open |-> next.open, via |-> next.via, cursor |-> next.cursor,
              whole |-> next.whole, adapter |-> next.adapter]
  BY <1>1
<1>7. opened' \in 0..agent.connections
  <2>1. agent.connections \in Nat /\ opened \in 0..agent.connections
    BY ConstantsAssumption DEF Inv, Buffered, Followed
  <2>2. QED BY <2>1, <1>2
<1>8. QED BY <1>2, <1>5, <1>6, <1>7, SendKeepsFollowed, FollowingKeepsInv

LEMMA DeliverChunkKeepsInv ==
    ASSUME Inv, DeliverChunk
    PROVE  Inv'
<1> DEFINE n == conn.cursor + 1
           c == IF InRedis(n) THEN RedisEntry(n) ELSE StoredChunk(n)
<1>1. PICK next : next = [conn EXCEPT !.cursor = n, !.adapter = Format(@, c)]
  OBVIOUS
<1>2. Send(next, n) /\ UNCHANGED opened /\ Readable(n)
  BY <1>1 DEF DeliverChunk
<1>3. Len(log) \in Nat
  BY ListFacts DEF Inv, Buffered
<1>4. conn = [open |-> conn.open, via |-> conn.via, cursor |-> conn.cursor,
              whole |-> conn.whole, adapter |-> conn.adapter]
  BY DEF Inv, Followed
<1> HIDE DEF c
<1>5. /\ next = [open |-> next.open, via |-> next.via, cursor |-> next.cursor,
                 whole |-> next.whole, adapter |-> next.adapter]
      /\ next.cursor = n
  BY <1>1, <1>4
<1>6. n \in 0..Len(log) + 1
  <2>1. conn.cursor \in 0..Len(log) + 1
    BY DEF Inv, Followed
  <2>2. CASE InRedis(n)
    <3>1. n <= published /\ published \in {Len(log), Len(log) - 1}
      BY <2>2 DEF InRedis, Inv, Buffered
    <3>2. QED BY <3>1, <2>1, <1>3
  <2>3. CASE \E row \in db.chunks : row.seq = n
    BY <2>3, <1>3 DEF Inv, Written
  <2>4. QED BY <2>2, <2>3, <1>2 DEF Readable
<1>7. opened' \in 0..agent.connections
  BY <1>2 DEF Inv, Followed
<1> HIDE DEF n
<1>8. QED BY <1>2, <1>5, <1>6, <1>7, SendKeepsFollowed, FollowingKeepsInv

LEMMA DeliverEndKeepsInv ==
    ASSUME Inv, DeliverEnd
    PROVE  Inv'
<1> DEFINE n == Len(log) + 1
<1>1. PICK next : next = [conn EXCEPT !.open = FALSE, !.cursor = n,
                                      !.adapter = FormatEnd(SetSource(@, n), status)]
  OBVIOUS
<1>2. Send(next, n) /\ UNCHANGED opened
  BY <1>1 DEF DeliverEnd
<1>3. Len(log) \in Nat
  BY ListFacts DEF Inv, Buffered
<1>4. conn = [open |-> conn.open, via |-> conn.via, cursor |-> conn.cursor,
              whole |-> conn.whole, adapter |-> conn.adapter]
  BY DEF Inv, Followed
<1>5. /\ next = [open |-> next.open, via |-> next.via, cursor |-> next.cursor,
                 whole |-> next.whole, adapter |-> next.adapter]
      /\ next.cursor = n
  BY <1>1, <1>4
<1>6. n \in 0..Len(log) + 1
  BY <1>3
<1>7. opened' \in 0..agent.connections
  BY <1>2 DEF Inv, Followed
<1> HIDE DEF n
<1>8. QED BY <1>2, <1>5, <1>6, <1>7, SendKeepsFollowed, FollowingKeepsInv

LEMMA StutterKeepsInv ==
    ASSUME Inv, UNCHANGED vars
    PROVE  Inv'
<1>1. UNCHANGED executor /\ UNCHANGED <<conn, client, opened>>
  BY DEF vars, executor
<1>2. Followed'
  BY <1>1 DEF Inv, Followed, executor
<1>3. QED BY <1>1, <1>2, FollowingKeepsInv

LEMMA NextInv ==
    ASSUME Inv, [Next]_vars
    PROVE  Inv'
<1>1. ASSUME NEW k \in agent.kinds, Chunk(k) PROVE Inv'
  BY <1>1, ChunkKeepsInv
<1>2. ASSUME NEW k \in agent.kinds, ChunkUnmergeable(k) PROVE Inv'
  BY <1>2, ChunkUnmergeableKeepsInv
<1>3. ASSUME NEW k \in agent.kinds, ChunkIgnored(k) PROVE Inv'
  BY <1>3, ChunkIgnoredKeepsInv
<1>4. ASSUME NEW k \in agent.kinds, NEW ending \in Ended, ChunkRefused(k, ending) PROVE Inv'
  BY <1>4, ChunkRefusedKeepsInv
<1>5. ASSUME NEW ending \in Ended, Ends(ending) PROVE Inv'
  BY <1>5, EndsKeepsInv
<1>6. CASE Transfer
  BY <1>6, TransferKeepsInv
<1>7. ASSUME NEW via \in {"redis", "postgres"}, Connect(via) PROVE Inv'
  BY <1>7, ConnectKeepsInv
<1>8. CASE DeliverChunk
  BY <1>8, DeliverChunkKeepsInv
<1>9. CASE DeliverEnd
  BY <1>9, DeliverEndKeepsInv
<1>10. CASE UNCHANGED vars
  BY <1>10, StutterKeepsInv
<1>11. QED BY <1>1, <1>2, <1>3, <1>4, <1>5, <1>6, <1>7, <1>8, <1>9, <1>10 DEF Next

\* What is buffered, stored, followed and inferred stays in step, for any agents.
THEOREM PipelineInStep == Spec => []Inv
<1>1. Init => Inv
  BY InitInv
<1>2. Inv /\ [Next]_vars => Inv'
  BY NextInv
<1>3. QED BY <1>1, <1>2, PTL DEF Spec

LEMMA TypesFollow == Inv => TypeOK
<1> SUFFICES ASSUME Inv PROVE TypeOK
  OBVIOUS
<1>1. DOMAIN log = 1..Len(log)
  BY ListFacts DEF Inv, Buffered
<1>2. QED BY <1>1 DEF Inv, Buffered, Written, Followed, RunningTold, TypeOK

\* Chunks are numbered as they are buffered, at most the last one is not
\* published, and rows are only of runs that ended (job_executor.py).
THEOREM TypesHold == Spec => []TypeOK
<1>1. Inv => TypeOK
  BY TypesFollow
<1>2. QED BY <1>1, PipelineInStep, PTL

LEMMA AloneFollows == Inv => InferredTaskWasAlone
<1> SUFFICES ASSUME Inv, NEW n \in DOMAIN log, log[n].link = "inferred"
             PROVE  {t \in {c.task : c \in Range(log)} :
                        LET before == {m \in 1..n : IsProjected(log[m]) /\ log[m].task = t
                                                    /\ log[m].ns = log[n].ns}
                        IN  before # {} /\ log[Max(before)].state = "running"} = {log[n].task}
  BY DEF InferredTaskWasAlone
<1>1. n \in 1..Len(log) /\ Range(log) = {log[i] : i \in 1..Len(log)}
  BY ListFacts DEF Inv, Buffered
<1>2. \A t : RunsAt(log, n, log[n].ns, t) <=> t = log[n].task
  BY <1>1 DEF Inv, Inferred
<1>3. log[n].task \in {c.task : c \in Range(log)}
  BY <1>1
<1>4. {t \in {c.task : c \in Range(log)} : RunsAt(log, n, log[n].ns, t)} = {log[n].task}
  BY <1>2, <1>3
<1>5. QED BY <1>4 DEF RunsAt

\* A custom chunk without a task is linked to one only while that is the only
\* task of its namespace whose last event says it runs (_resolve_custom_chunk):
\* the resolver's sets of running tasks are never out of step with the events.
THEOREM InferencesAreSafe == Spec => []InferredTaskWasAlone
<1>1. Inv => InferredTaskWasAlone
  BY AloneFollows
<1>2. QED BY <1>1, PipelineInStep, PTL

LEMMA TaskRowsFollow == Inv => TaskRowsTellEnding
<1> SUFFICES ASSUME Inv, db.written
             PROVE  \A t \in {c.task : c \in {d \in Range(log) : IsProjected(d)}} :
                        LET own     == {n \in DOMAIN log : IsProjected(log[n]) /\ log[n].task = t}
                            starts  == {n \in own : log[n].state = "running"}
                            endings == own \ starts
                            lastly  == log[Max(own)].state
                            row     == db.tasks[t]
                        IN  /\ row.status = CASE lastly # "running"                           -> lastly
                                              [] lastly = "running" /\ status = "cancelled" -> "cancelled"
                                              [] lastly = "running" /\ status # "cancelled" -> "incomplete"
                            /\ row.started = IF starts = {} THEN None ELSE Min(starts)
                            /\ row.completed = IF endings = {} THEN None ELSE Max(endings)
  BY DEF TaskRowsTellEnding
<1> DEFINE n == Len(log)
           rows == FoldLeft(ProjectTask, <<>>, log)
<1>1. n \in Nat /\ DOMAIN log = 1..n /\ Range(log) = {log[i] : i \in 1..n} /\ \A m \in 1..n : log[m].seq = m
  BY ListFacts DEF Inv, Buffered
<1>2. rows = [t \in TasksOf(log, n) |-> TaskRow(log, n, t)]
  BY <1>1, FoldedRowsTell DEF RowsTell
<1>3. db.tasks = MarkUnfinished(rows, status)
  BY DEF Inv, Written, TaskRows
<1> HIDE DEF rows
<1> TAKE t \in {c.task : c \in {d \in Range(log) : IsProjected(d)}}
<1>4. t \in TasksOf(log, n)
  BY <1>1 DEF TasksOf
<1>5. rows[t] = TaskRow(log, n, t) /\ t \in DOMAIN rows
  BY <1>2, <1>4
<1>6. db.tasks[t] = IF rows[t].status = "running"
                    THEN [rows[t] EXCEPT !.status = IF status = "cancelled" THEN "cancelled" ELSE "incomplete"]
                    ELSE rows[t]
  BY <1>3, <1>5 DEF MarkUnfinished
<1>7. Own(log, n, t) = {m \in DOMAIN log : IsProjected(log[m]) /\ log[m].task = t}
  BY <1>1 DEF Own
<1> DEFINE lastly == log[Max(Own(log, n, t))].state
<1>8. /\ db.tasks[t].status = CASE lastly # "running" -> lastly
                                [] lastly = "running" /\ status = "cancelled" -> "cancelled"
                                [] lastly = "running" /\ status # "cancelled" -> "incomplete"
      /\ db.tasks[t].started = IF Starts(log, n, t) = {} THEN None ELSE Min(Starts(log, n, t))
      /\ db.tasks[t].completed = IF Endings(log, n, t) = {} THEN None ELSE Max(Endings(log, n, t))
  <2>1. CASE log[Max(Own(log, n, t))].state = "running"
    BY <2>1, <1>5, <1>6 DEF TaskRow
  <2>2. CASE log[Max(Own(log, n, t))].state # "running"
    BY <2>2, <1>5, <1>6 DEF TaskRow
  <2>3. QED BY <2>1, <2>2
<1>9. QED BY <1>7, <1>8 DEF Starts, Endings

\* The stored row of a task tells how its last event ended it, or that the run
\* ended before it (task_projector.py, job_task_repository.py), in whatever
\* order and however often its events came.
THEOREM TaskRowsAreTrue == Spec => []TaskRowsTellEnding
<1>1. Inv => TaskRowsTellEnding
  BY TaskRowsFollow
<1>2. QED BY <1>1, PipelineInStep, PTL

-----------------------------------------------------------------------------
(* The accumulator.                                                         *)

IsEntry(e) ==
    e = [ns |-> e.ns, key |-> e.key, task |-> e.task, id |-> e.id, role |-> e.role,
         whole |-> e.whole, content |-> e.content, first |-> e.first, last |-> e.last]

\* e was opened by one of the chunks of l.
Opened(l, e) ==
    /\ e.first \in 1..Len(l) /\ e.last \in 1..Len(l) /\ e.first <= e.last
    /\ l[e.first].type = "messages" /\ l[e.first].ns = e.ns /\ l[e.first].task = e.key
    /\ l[e.first].role = e.role /\ l[e.first].whole = e.whole
    /\ IF l[e.first].id = None THEN e.id \in SyntheticIds ELSE e.id = l[e.first].id

\* m is what entry e was when it was streamed.
Was(e, m) ==
    /\ m.ns = e.ns /\ m.key = e.key /\ m.id = e.id /\ m.role = e.role /\ m.first = e.first
    /\ m.last <= e.last
    /\ m.last = e.last => m = e

EntriesOf(l, pending) ==
    /\ IsList(pending)
    /\ \A i \in 1..Len(pending) : IsEntry(pending[i]) /\ Opened(l, pending[i])
    /\ \A i, j \in 1..Len(pending) :
          pending[i].ns = pending[j].ns /\ pending[i].key = pending[j].key /\ pending[i].id = pending[j].id => i = j
    /\ \A i, j \in 1..Len(pending) : i < j => pending[i].first < pending[j].first

StreamedFrom(pending, list) ==
    /\ IsList(list)
    /\ \A m \in Range(list) : IsEntry(m) /\ m.last \in Nat /\ \E i \in 1..Len(pending) : Was(pending[i], m)

Numbers(l, ns, id) == {n \in 1..Len(l) : l[n].type = "messages" /\ l[n].ns = ns /\ l[n].id = id}

Uniform(l, S) ==
    \A m, n \in S : /\ l[m].task = l[n].task
                    /\ l[m].whole = l[n].whole
                    /\ l[m].whole => l[m].text = l[n].text /\ l[m].role = l[n].role

\* e has the text and the place of all the chunks of a message.
Holds(l, ns, id, e) ==
    LET S == Numbers(l, ns, id)
    IN  /\ e.ns = ns /\ e.id = id
        /\ e.first = Min(S) /\ e.last = Max(S)
        /\ e.content = IF l[e.first].whole THEN l[e.first].text ELSE Texts(l, ns, id)

Merging ==
    /\ merging = [pending |-> merging.pending, active |-> merging.active, count |-> merging.count]
    /\ merging.active \in [Context -> {None} \cup SyntheticIds]
    /\ merging.count \in [Context -> Nat]
    /\ EntriesOf(log, merging.pending)
    /\ StreamedFrom(merging.pending, streamed)

\* Every message that came in a plain way is held by one entry.
ContentOf(l, p) ==
    \A ns, id :
        /\ Numbers(l, ns, id) = {} => Texts(l, ns, id) = <<>>
        /\ id # None /\ id \notin SyntheticIds /\ Numbers(l, ns, id) # {} /\ Uniform(l, Numbers(l, ns, id)) =>
              \E i \in 1..Len(p) : Holds(l, ns, id, p[i])

MessagesTold ==
    /\ \A n \in 1..Len(log) : log[n].text \in Seq(Nat) /\ log[n].id \notin SyntheticIds
    /\ ContentOf(log, merging.pending)

LEMMA OpenedStays ==
    ASSUME NEW l, IsList(l), NEW x, NEW e, Opened(l, e)
    PROVE  Opened(Append(l, x), e)
<1>1. /\ Len(l) \in Nat /\ Len(Append(l, x)) = Len(l) + 1
      /\ \A i \in 1..Len(l) : Append(l, x)[i] = l[i]
  BY ListFacts, ListWithMore
<1>2. e.first \in 1..Len(l) /\ e.last \in 1..Len(l)
  BY DEF Opened
<1>3. Append(l, x)[e.first] = l[e.first]
  BY <1>1, <1>2
<1>4. e.first \in 1..Len(Append(l, x)) /\ e.last \in 1..Len(Append(l, x))
  BY <1>1, <1>2
<1>5. QED BY <1>3, <1>4 DEF Opened

\* A chunk opens an entry, or it extends one.
Opens(l, p, q, e) ==
    /\ q = Append(p, e)
    /\ IsEntry(e) /\ Opened(l, e) /\ e.first = Len(l) /\ e.last = Len(l)
    /\ \A j \in 1..Len(p) : ~ (p[j].ns = e.ns /\ p[j].key = e.key /\ p[j].id = e.id)

Extends(l, p, q, e, i) ==
    /\ i \in 1..Len(p)
    /\ q = [p EXCEPT ![i] = e]
    /\ IsEntry(e) /\ Opened(l, e) /\ e.last = Len(l)
    /\ e.ns = p[i].ns /\ e.key = p[i].key /\ e.id = p[i].id /\ e.role = p[i].role /\ e.first = p[i].first

LEMMA OpeningKeepsEntries ==
    ASSUME NEW l, IsList(l), NEW c, NEW p, EntriesOf(l, p), NEW q, NEW e, Opens(Append(l, c), p, q, e)
    PROVE  /\ EntriesOf(Append(l, c), q)
           /\ Len(q) = Len(p) + 1 /\ Len(p) \in Nat
           /\ \A j \in 1..Len(p) : q[j] = p[j]
           /\ q[Len(q)] = e
<1>1. Len(l) \in Nat /\ Len(Append(l, c)) = Len(l) + 1
  BY ListFacts, ListWithMore
<1>2. IsList(p) /\ Len(p) \in Nat
  BY ListFacts DEF EntriesOf
<1>3. /\ IsList(q) /\ Len(q) = Len(p) + 1
      /\ \A j \in 1..Len(p) : q[j] = p[j]
      /\ q[Len(p) + 1] = e
  BY <1>2, ListWithMore DEF Opens
<1>4. \A j \in 1..Len(q) : IsEntry(q[j]) /\ Opened(Append(l, c), q[j])
  <2> SUFFICES ASSUME NEW j \in 1..Len(q) PROVE IsEntry(q[j]) /\ Opened(Append(l, c), q[j])
    OBVIOUS
  <2>1. CASE j \in 1..Len(p)
    <3>1. IsEntry(p[j]) /\ Opened(l, p[j])
      BY <2>1 DEF EntriesOf
    <3>2. Opened(Append(l, c), p[j])
      BY <3>1, OpenedStays
    <3>3. QED BY <2>1, <3>1, <3>2, <1>3
  <2>2. CASE j = Len(p) + 1
    BY <2>2, <1>3 DEF Opens
  <2>3. QED BY <2>1, <2>2, <1>2, <1>3
<1>5. ASSUME NEW j \in 1..Len(q), NEW k \in 1..Len(q),
             q[j].ns = q[k].ns, q[j].key = q[k].key, q[j].id = q[k].id
      PROVE  j = k
  <2>1. \A i \in 1..Len(p) : ~ (p[i].ns = e.ns /\ p[i].key = e.key /\ p[i].id = e.id)
    BY DEF Opens
  <2>2. CASE j \in 1..Len(p) /\ k \in 1..Len(p)
    BY <2>2, <1>3, <1>5 DEF EntriesOf
  <2>3. CASE j \in 1..Len(p) /\ k = Len(p) + 1
    BY <2>1, <2>3, <1>3, <1>5
  <2>4. CASE j = Len(p) + 1 /\ k \in 1..Len(p)
    BY <2>1, <2>4, <1>3, <1>5
  <2>5. CASE j = Len(p) + 1 /\ k = Len(p) + 1
    BY <2>5
  <2>6. QED BY <2>2, <2>3, <2>4, <2>5, <1>2, <1>3
<1>6. ASSUME NEW j \in 1..Len(q), NEW k \in 1..Len(q), j < k
      PROVE  q[j].first < q[k].first
  <2>1. \A i \in 1..Len(p) : p[i].first \in 1..Len(l)
    BY DEF EntriesOf, Opened
  <2>2. j \in 1..Len(p)
    BY <1>2, <1>3, <1>6
  <2>3. CASE k \in 1..Len(p)
    BY <2>2, <2>3, <1>3, <1>6 DEF EntriesOf
  <2>4. CASE k = Len(p) + 1
    <3>1. q[k].first = Len(l) + 1
      BY <2>4, <1>1, <1>3 DEF Opens
    <3>2. q[j].first \in 1..Len(l)
      BY <2>1, <2>2, <1>3
    <3>3. QED BY <3>1, <3>2, <1>1
  <2>5. QED BY <2>3, <2>4, <1>2, <1>3
<1>7. QED BY <1>2, <1>3, <1>4, <1>5, <1>6 DEF EntriesOf

LEMMA ExtendingKeepsEntries ==
    ASSUME NEW l, IsList(l), NEW c, NEW p, EntriesOf(l, p), NEW q, NEW e, NEW i,
           Extends(Append(l, c), p, q, e, i)
    PROVE  /\ EntriesOf(Append(l, c), q)
           /\ Len(q) = Len(p) /\ Len(p) \in Nat
           /\ \A j \in 1..Len(p) : q[j] = IF j = i THEN e ELSE p[j]
<1>2. IsList(p) /\ Len(p) \in Nat /\ DOMAIN p = 1..Len(p) /\ i \in 1..Len(p)
  BY ListFacts DEF EntriesOf, Extends
<1>3. /\ IsList(q) /\ Len(q) = Len(p)
      /\ \A j \in 1..Len(p) : q[j] = IF j = i THEN e ELSE p[j]
  <2>1. p = [j \in 1..Len(p) |-> p[j]]
    BY <1>2 DEF IsList
  <2>2. q = [j \in 1..Len(p) |-> IF j = i THEN e ELSE p[j]]
    BY <2>1, <1>2 DEF Extends
  <2> DEFINE S == Range(p) \cup {e}
  <2>3. \A j \in 1..Len(p) : (IF j = i THEN e ELSE p[j]) \in S
    BY <1>2 DEF Range
  <2>4. q \in [1..Len(p) -> S]
    BY <2>2, <2>3
  <2> HIDE DEF S
  <2>5. q \in Seq(S) /\ Len(q) = Len(p)
    BY <2>4, <1>2
  <2>6. IsList(q)
    BY <2>5, SeqOfRange DEF IsList
  <2>7. QED BY <2>2, <2>5, <2>6
<1>4. \A j \in 1..Len(q) : IsEntry(q[j]) /\ Opened(Append(l, c), q[j])
  <2> SUFFICES ASSUME NEW j \in 1..Len(p) PROVE IsEntry(q[j]) /\ Opened(Append(l, c), q[j])
    BY <1>3
  <2>1. CASE j # i
    <3>1. IsEntry(p[j]) /\ Opened(l, p[j])
      BY DEF EntriesOf
    <3>2. Opened(Append(l, c), p[j])
      BY <3>1, OpenedStays
    <3>3. QED BY <2>1, <3>1, <3>2, <1>3
  <2>2. CASE j = i
    BY <2>2, <1>3 DEF Extends
  <2>3. QED BY <2>1, <2>2
<1>5. \A j \in 1..Len(p) : /\ q[j].ns = p[j].ns /\ q[j].key = p[j].key
                           /\ q[j].id = p[j].id /\ q[j].first = p[j].first
  BY <1>3 DEF Extends
<1>6. \A j, k \in 1..Len(q) :
          q[j].ns = q[k].ns /\ q[j].key = q[k].key /\ q[j].id = q[k].id => j = k
  BY <1>3, <1>5 DEF EntriesOf
<1>7. \A j, k \in 1..Len(q) : j < k => q[j].first < q[k].first
  BY <1>3, <1>5 DEF EntriesOf
<1>8. QED BY <1>2, <1>3, <1>4, <1>6, <1>7 DEF EntriesOf

LEMMA OpeningKeepsStreamed ==
    ASSUME NEW l, IsList(l), NEW c, NEW p, EntriesOf(l, p), NEW q, NEW e, Opens(Append(l, c), p, q, e),
           NEW s, StreamedFrom(p, s)
    PROVE  StreamedFrom(q, Append(s, e))
<1>1. /\ Len(q) = Len(p) + 1 /\ Len(p) \in Nat
      /\ \A j \in 1..Len(p) : q[j] = p[j]
      /\ q[Len(q)] = e
  BY OpeningKeepsEntries
<1>2. IsList(Append(s, e)) /\ Range(Append(s, e)) = Range(s) \cup {e}
  BY ListWithMore DEF StreamedFrom
<1>3. ASSUME NEW m \in Range(s)
      PROVE  IsEntry(m) /\ m.last \in Nat /\ \E j \in 1..Len(q) : Was(q[j], m)
  <2>1. IsEntry(m) /\ m.last \in Nat
    BY DEF StreamedFrom
  <2>2. PICK j \in 1..Len(p) : Was(p[j], m)
    BY DEF StreamedFrom
  <2>3. j \in 1..Len(q) /\ q[j] = p[j]
    BY <1>1
  <2>4. QED BY <2>1, <2>2, <2>3
<1>4. IsEntry(e) /\ e.last \in Nat /\ \E j \in 1..Len(q) : Was(q[j], e)
  <2>1. IsEntry(e) /\ e.last \in Nat
    BY DEF Opens, Opened
  <2>2. Was(e, e)
    BY <2>1 DEF Was
  <2>3. Len(q) \in 1..Len(q)
    BY <1>1
  <2>4. QED BY <2>1, <2>2, <2>3, <1>1
<1>5. QED BY <1>2, <1>3, <1>4 DEF StreamedFrom

LEMMA ExtendingKeepsStreamed ==
    ASSUME NEW l, IsList(l), NEW c, NEW p, EntriesOf(l, p), NEW q, NEW e, NEW i,
           Extends(Append(l, c), p, q, e, i), NEW s, StreamedFrom(p, s)
    PROVE  StreamedFrom(q, Append(s, e))
<1>1. /\ Len(q) = Len(p) /\ Len(p) \in Nat
      /\ \A j \in 1..Len(p) : q[j] = IF j = i THEN e ELSE p[j]
      /\ i \in 1..Len(p)
  <2>1. i \in 1..Len(p)
    BY DEF Extends
  <2>2. QED BY <2>1, ExtendingKeepsEntries
<1>2. IsList(Append(s, e)) /\ Range(Append(s, e)) = Range(s) \cup {e}
  BY ListWithMore DEF StreamedFrom
<1>3. ASSUME NEW m \in Range(s)
      PROVE  IsEntry(m) /\ m.last \in Nat /\ \E j \in 1..Len(q) : Was(q[j], m)
  <2>1. IsEntry(m) /\ m.last \in Nat
    BY DEF StreamedFrom
  <2>2. PICK j \in 1..Len(p) : Was(p[j], m)
    BY DEF StreamedFrom
  <2>3. CASE j # i
    BY <2>1, <2>2, <2>3, <1>1
  <2>4. CASE j = i
    <3>1. Len(l) \in Nat /\ e.last = Len(l) + 1
      BY ListFacts, ListWithMore DEF Extends
    <3>2. p[i].last \in 1..Len(l)
      BY <1>1 DEF EntriesOf, Opened
    <3>3. m.last < e.last /\ m.last <= e.last /\ m.last # e.last
      BY <2>1, <2>2, <2>4, <3>1, <3>2 DEF Was
    <3>4. Was(e, m)
      BY <2>2, <2>4, <3>3 DEF Was, Extends
    <3>5. QED BY <2>1, <3>4, <1>1
  <2>5. QED BY <2>3, <2>4
<1>4. IsEntry(e) /\ e.last \in Nat /\ \E j \in 1..Len(q) : Was(q[j], e)
  <2>1. IsEntry(e) /\ e.last \in Nat
    BY DEF Extends, Opened
  <2>2. Was(e, e)
    BY <2>1 DEF Was
  <2>3. QED BY <2>1, <2>2, <1>1
<1>5. QED BY <1>2, <1>3, <1>4 DEF StreamedFrom

-----------------------------------------------------------------------------
(* The text of a message and the numbers of its chunks.                     *)

IsOf(c, ns, id) == c.type = "messages" /\ c.ns = ns /\ c.id = id

LEMMA TextsGrow ==
    ASSUME NEW l, IsList(l), NEW c, NEW ns, NEW id
    PROVE  Texts(Append(l, c), ns, id) = AddText(ns, id, Texts(l, ns, id), c)
<1> DEFINE n == Len(l)
           m == Append(l, c)
<1>1. /\ n \in Nat /\ DOMAIN l = 1..n /\ DOMAIN m = 1..(n + 1)
      /\ m[n + 1] = c /\ \A k \in 1..n : m[k] = l[k]
  <2>1. IsList(m) /\ Len(m) = n + 1 /\ m[n + 1] = c /\ \A k \in 1..n : m[k] = l[k]
    BY ListWithMore
  <2> HIDE DEF m
  <2>2. QED BY <2>1, ListFacts
<1> HIDE DEF m, n
<1>2. PICK r : Chain(TextRule(ns, id), <<>>, l, n, r) /\ Texts(l, ns, id) = r[n]
  BY <1>1, TextFold
<1>3. n + 1 \in Nat
  BY <1>1
<1>4. PICK q : Chain(TextRule(ns, id), <<>>, m, n + 1, q) /\ Texts(m, ns, id) = q[n + 1]
  BY <1>1, <1>3, TextFold
<1>5. Chain(TextRule(ns, id), <<>>, m, n, q)
  BY <1>1, <1>4 DEF Chain
<1>6. r[n] = q[n]
  BY <1>1, <1>2, <1>5, ChainsAgree
<1>7. q[n + 1] = Apply(TextRule(ns, id), q[n], m[n + 1])
  <2>1. n + 1 \in 1..(n + 1) /\ (n + 1) - 1 = n
    BY <1>1
  <2>2. QED BY <2>1, <1>4 DEF Chain
<1>8. Apply(TextRule(ns, id), q[n], c) = AddText(ns, id, q[n], c)
  BY DEF Apply, TextRule
<1>9. QED BY <1>1, <1>2, <1>4, <1>6, <1>7, <1>8 DEF m

LEMMA NumbersGrow ==
    ASSUME NEW l, IsList(l), NEW c, NEW ns, NEW id
    PROVE  /\ Numbers(Append(l, c), ns, id) =
                Numbers(l, ns, id) \cup (IF IsOf(c, ns, id) THEN {Len(l) + 1} ELSE {})
           /\ Numbers(l, ns, id) \in SUBSET (1..Len(l))
<1>1. /\ Len(l) \in Nat /\ Len(Append(l, c)) = Len(l) + 1
      /\ \A k \in 1..Len(l) : Append(l, c)[k] = l[k]
      /\ Append(l, c)[Len(l) + 1] = c
  BY ListFacts, ListWithMore
<1>2. QED BY <1>1 DEF Numbers, IsOf

LEMMA UniformBefore ==
    ASSUME NEW l, IsList(l), NEW c, NEW ns, NEW id,
           Uniform(Append(l, c), Numbers(Append(l, c), ns, id))
    PROVE  /\ Uniform(l, Numbers(l, ns, id))
           /\ IsOf(c, ns, id) =>
                \A m \in Numbers(l, ns, id) : /\ l[m].task = c.task /\ l[m].whole = c.whole
                                              /\ c.whole => l[m].text = c.text /\ l[m].role = c.role
<1> DEFINE S == Numbers(l, ns, id)
           T == Numbers(Append(l, c), ns, id)
<1>1. S \subseteq T /\ S \in SUBSET (1..Len(l)) /\ (IsOf(c, ns, id) => Len(l) + 1 \in T)
  BY NumbersGrow
<1>2. /\ \A k \in 1..Len(l) : Append(l, c)[k] = l[k]
      /\ Append(l, c)[Len(l) + 1] = c
  BY ListWithMore
<1> HIDE DEF S, T
<1>3. Uniform(l, S)
  BY <1>1, <1>2 DEF Uniform, T
<1>4. ASSUME IsOf(c, ns, id), NEW m \in S
      PROVE  /\ l[m].task = c.task /\ l[m].whole = c.whole
             /\ c.whole => l[m].text = c.text /\ l[m].role = c.role
  <2>1. m \in T /\ Len(l) + 1 \in T /\ Append(l, c)[m] = l[m]
    BY <1>1, <1>2, <1>4
  <2>2. /\ Append(l, c)[m].task = Append(l, c)[Len(l) + 1].task
        /\ Append(l, c)[m].whole = Append(l, c)[Len(l) + 1].whole
        /\ Append(l, c)[m].whole => /\ Append(l, c)[m].text = Append(l, c)[Len(l) + 1].text
                                    /\ Append(l, c)[m].role = Append(l, c)[Len(l) + 1].role
    BY <2>1 DEF Uniform, T
  <2>3. QED BY <2>1, <2>2, <1>2
<1>5. QED BY <1>3, <1>4 DEF S

\* The entry that is opened by a chunk of a message holds it, too.
LEMMA HolderIsOpen ==
    ASSUME NEW l, NEW p, EntriesOf(l, p), NEW ns, NEW id, NEW i \in 1..Len(p), Holds(l, ns, id, p[i]),
           Numbers(l, ns, id) # {}, Numbers(l, ns, id) \in SUBSET (1..Len(l)), Len(l) \in Nat
    PROVE  /\ p[i].first \in Numbers(l, ns, id)
           /\ p[i].first \in 1..Len(l) /\ p[i].last \in 1..Len(l)
           /\ p[i].key = l[p[i].first].task /\ p[i].whole = l[p[i].first].whole
           /\ p[i].role = l[p[i].first].role
<1>1. p[i].first = Min(Numbers(l, ns, id))
  BY DEF Holds
<1>2. Numbers(l, ns, id) \in SUBSET Nat
  OBVIOUS
<1>3. p[i].first \in Numbers(l, ns, id)
  BY <1>1, <1>2, MinIsLeast
<1>4. Opened(l, p[i])
  BY DEF EntriesOf
<1>5. QED BY <1>3, <1>4 DEF Opened

LEMMA HoldsStays ==
    ASSUME NEW l, IsList(l), NEW c, NEW ns, NEW id, ~IsOf(c, ns, id),
           NEW e, e.first \in 1..Len(l), Holds(l, ns, id, e)
    PROVE  Holds(Append(l, c), ns, id, e)
<1>1. Numbers(Append(l, c), ns, id) = Numbers(l, ns, id)
  BY NumbersGrow
<1>2. Texts(Append(l, c), ns, id) = Texts(l, ns, id)
  BY TextsGrow DEF AddText, IsOf
<1>3. Append(l, c)[e.first] = l[e.first]
  BY ListWithMore
<1>4. QED BY <1>1, <1>2, <1>3 DEF Holds

\* The rest of what an accumulated chunk changes: entry e is the one of chunk c.
TakesIn(c, e) == e.ns = c.ns /\ e.key = c.task /\ (e.id = c.id \/ (c.id = None /\ e.id \in SyntheticIds))

LEMMA NoTextYet ==
    ASSUME NEW l, IsList(l), NEW c, NEW p, ContentOf(l, p), NEW ns, NEW id,
           Numbers(Append(l, c), ns, id) = {}
    PROVE  Texts(Append(l, c), ns, id) = <<>>
<1>1. ~IsOf(c, ns, id) /\ Numbers(l, ns, id) = {}
  BY NumbersGrow
<1>2. Texts(l, ns, id) = <<>>
  BY <1>1 DEF ContentOf
<1>3. QED BY <1>1, <1>2, TextsGrow DEF AddText, IsOf

LEMMA OtherMessageIsHeld ==
    ASSUME NEW l, IsList(l), NEW c, NEW p, EntriesOf(l, p), ContentOf(l, p),
           NEW ns, NEW id, id # None, id \notin SyntheticIds, ~IsOf(c, ns, id),
           Numbers(Append(l, c), ns, id) # {},
           Uniform(Append(l, c), Numbers(Append(l, c), ns, id))
    PROVE  \E i \in 1..Len(p) : Holds(Append(l, c), ns, id, p[i])
<1>1. Numbers(l, ns, id) # {} /\ Numbers(l, ns, id) \in SUBSET (1..Len(l))
  BY NumbersGrow
<1>2. Uniform(l, Numbers(l, ns, id))
  BY UniformBefore
<1>3. PICK i \in 1..Len(p) : Holds(l, ns, id, p[i])
  BY <1>1, <1>2 DEF ContentOf
<1>4. p[i].first \in 1..Len(l)
  BY DEF EntriesOf, Opened
<1>5. QED BY <1>3, <1>4, HoldsStays

\* The holder of the message that chunk c continues, while it is plain.
HeldFor(l, c, p) ==
    \E i \in 1..Len(p) : /\ Holds(l, c.ns, c.id, p[i])
                         /\ p[i].key = c.task /\ p[i].whole = c.whole
                         /\ p[i].first \in Numbers(l, c.ns, c.id)
                         /\ c.whole => p[i].content = c.text /\ p[i].role = c.role

LEMMA OwnMessageWasHeld ==
    ASSUME NEW l, IsList(l), NEW c, NEW p, EntriesOf(l, p), ContentOf(l, p),
           c.type = "messages", c.id # None, c.id \notin SyntheticIds,
           Numbers(l, c.ns, c.id) # {},
           Uniform(Append(l, c), Numbers(Append(l, c), c.ns, c.id))
    PROVE  HeldFor(l, c, p)
<1>1. Numbers(l, c.ns, c.id) \in SUBSET (1..Len(l)) /\ Len(l) \in Nat
  BY NumbersGrow, ListFacts
<1>2. IsOf(c, c.ns, c.id)
  BY DEF IsOf
<1>3. /\ Uniform(l, Numbers(l, c.ns, c.id))
      /\ \A m \in Numbers(l, c.ns, c.id) : /\ l[m].task = c.task /\ l[m].whole = c.whole
                                           /\ c.whole => l[m].text = c.text /\ l[m].role = c.role
  BY <1>2, UniformBefore
<1>4. PICK i \in 1..Len(p) : Holds(l, c.ns, c.id, p[i])
  BY <1>3 DEF ContentOf
<1>5. /\ p[i].first \in Numbers(l, c.ns, c.id)
      /\ p[i].key = l[p[i].first].task /\ p[i].whole = l[p[i].first].whole
      /\ p[i].role = l[p[i].first].role
  BY <1>1, <1>4, HolderIsOpen
<1>6. c.whole => p[i].content = c.text /\ p[i].role = c.role
  BY <1>3, <1>4, <1>5 DEF Holds
<1>7. QED BY <1>3, <1>4, <1>5, <1>6 DEF HeldFor

LEMMA OpeningKeepsContent ==
    ASSUME NEW l, IsList(l), NEW c, NEW p, EntriesOf(l, p), ContentOf(l, p),
           c.type = "messages", c.id \notin SyntheticIds, c.text \in Seq(Nat),
           NEW q, NEW e, Opens(Append(l, c), p, q, e), TakesIn(c, e), e.content = c.text
    PROVE  ContentOf(Append(l, c), q)
<1>1. /\ Len(q) = Len(p) + 1 /\ Len(p) \in Nat
      /\ \A j \in 1..Len(p) : q[j] = p[j]
      /\ q[Len(q)] = e
  BY OpeningKeepsEntries
<1>2. SUFFICES ASSUME NEW ns, NEW id, id # None, id \notin SyntheticIds,
                      Numbers(Append(l, c), ns, id) # {},
                      Uniform(Append(l, c), Numbers(Append(l, c), ns, id))
               PROVE  \E i \in 1..Len(q) : Holds(Append(l, c), ns, id, q[i])
  BY NoTextYet DEF ContentOf
<1>3. CASE ~IsOf(c, ns, id)
  <2>1. PICK i \in 1..Len(p) : Holds(Append(l, c), ns, id, p[i])
    BY <1>2, <1>3, OtherMessageIsHeld
  <2>2. i \in 1..Len(q) /\ q[i] = p[i]
    BY <1>1
  <2>3. QED BY <2>1, <2>2
<1>4. CASE IsOf(c, ns, id)
  <2>1. c.ns = ns /\ c.id = id
    BY <1>4 DEF IsOf
  <2>2. Numbers(l, ns, id) = {}
    <3>1. SUFFICES ASSUME Numbers(l, ns, id) # {} PROVE FALSE
      OBVIOUS
    <3>2. PICK i \in 1..Len(p) : Holds(l, c.ns, c.id, p[i]) /\ p[i].key = c.task
      <4>1. Numbers(l, c.ns, c.id) # {} /\ c.id # None
        BY <1>2, <2>1, <3>1
      <4>2. Uniform(Append(l, c), Numbers(Append(l, c), c.ns, c.id))
        BY <1>2, <2>1
      <4>3. HeldFor(l, c, p)
        BY <4>1, <4>2, OwnMessageWasHeld
      <4>4. QED BY <4>3 DEF HeldFor
    <3>3. p[i].ns = e.ns /\ p[i].key = e.key /\ p[i].id = e.id
      BY <1>2, <2>1, <3>2 DEF Holds, TakesIn
    <3>4. QED BY <3>3 DEF Opens
  <2>3. Len(l) \in Nat /\ Len(Append(l, c)) = Len(l) + 1 /\ Append(l, c)[Len(l) + 1] = c
    BY ListFacts, ListWithMore
  <2>4. Numbers(Append(l, c), ns, id) = {Len(l) + 1}
    BY <2>2, <1>4, NumbersGrow
  <2>5. Min({Len(l) + 1}) = Len(l) + 1 /\ Max({Len(l) + 1}) = Len(l) + 1
    <3>1. PICK k \in Nat : k = Len(l) + 1
      BY <2>3
    <3>2. {k} \in SUBSET Nat /\ {k} # {} /\ {k} \in SUBSET (1..k)
      BY <3>1, <2>3
    <3>3. Min({k}) = k /\ Max({k}) = k
      BY <3>2, MinIsLeast, MaxIsGreatest
    <3>4. QED BY <3>1, <3>3
  <2>6. e.first = Len(l) + 1 /\ e.last = Len(l) + 1
    BY <2>3 DEF Opens
  <2>7. Texts(Append(l, c), ns, id) = c.text
    <3>1. Texts(l, ns, id) = <<>>
      BY <2>2 DEF ContentOf
    <3>2. Texts(Append(l, c), ns, id) = <<>> \o c.text
      BY <3>1, <1>4, TextsGrow DEF AddText, IsOf
    <3>3. QED BY <3>2, ConcatEmptySeq
  <2>8. Holds(Append(l, c), ns, id, e)
    BY <2>1, <2>3, <2>4, <2>5, <2>6, <2>7, <1>2 DEF Holds, TakesIn
  <2>9. Len(q) \in 1..Len(q)
    BY <1>1
  <2>10. QED BY <2>8, <2>9, <1>1
<1>5. QED BY <1>3, <1>4

LEMMA ExtendingKeepsContent ==
    ASSUME NEW l, IsList(l), NEW c, NEW p, EntriesOf(l, p), ContentOf(l, p),
           c.type = "messages", c.id \notin SyntheticIds,
           NEW q, NEW e, NEW i, Extends(Append(l, c), p, q, e, i), TakesIn(c, e),
           e.content = IF c.whole THEN p[i].content ELSE p[i].content \o c.text
    PROVE  ContentOf(Append(l, c), q)
<1>1. /\ Len(q) = Len(p) /\ Len(p) \in Nat
      /\ \A j \in 1..Len(p) : q[j] = IF j = i THEN e ELSE p[j]
      /\ i \in 1..Len(p)
  <2>1. i \in 1..Len(p)
    BY DEF Extends
  <2>2. QED BY <2>1, ExtendingKeepsEntries
<1>2. SUFFICES ASSUME NEW ns, NEW id, id # None, id \notin SyntheticIds,
                      Numbers(Append(l, c), ns, id) # {},
                      Uniform(Append(l, c), Numbers(Append(l, c), ns, id))
               PROVE  \E j \in 1..Len(q) : Holds(Append(l, c), ns, id, q[j])
  BY NoTextYet DEF ContentOf
<1>3. CASE ~IsOf(c, ns, id)
  <2>1. PICK j \in 1..Len(p) : Holds(Append(l, c), ns, id, p[j])
    BY <1>2, <1>3, OtherMessageIsHeld
  <2>2. j # i
    <3>1. SUFFICES ASSUME j = i PROVE FALSE
      OBVIOUS
    <3>2. p[i].ns = ns /\ p[i].id = id
      BY <2>1, <3>1 DEF Holds
    <3>3. e.ns = ns /\ e.id = id
      BY <3>2 DEF Extends
    <3>4. c.ns = ns /\ c.id = id
      BY <3>3, <1>2 DEF TakesIn
    <3>5. QED BY <3>4, <1>3 DEF IsOf
  <2>3. j \in 1..Len(q) /\ q[j] = p[j]
    BY <1>1, <2>2
  <2>4. QED BY <2>1, <2>3
<1>4. CASE IsOf(c, ns, id)
  <2>1. c.ns = ns /\ c.id = id
    BY <1>4 DEF IsOf
  <2>2. /\ Len(l) \in Nat /\ Len(Append(l, c)) = Len(l) + 1
        /\ \A k \in 1..Len(l) : Append(l, c)[k] = l[k]
        /\ Append(l, c)[Len(l) + 1] = c
    BY ListFacts, ListWithMore
  <2>3. e.id = id /\ e.ns = ns /\ e.key = c.task
    BY <2>1, <1>2 DEF TakesIn
  <2>4. p[i].id = id /\ p[i].ns = ns /\ p[i].key = c.task /\ p[i].first = e.first
    BY <2>3 DEF Extends
  <2>5. Numbers(l, ns, id) # {}
    <3>1. Opened(l, p[i])
      BY <1>1 DEF EntriesOf
    <3>2. l[p[i].first].id = id
      BY <3>1, <2>4, <1>2 DEF Opened
    <3>3. p[i].first \in Numbers(l, ns, id)
      BY <3>1, <3>2, <2>4 DEF Opened, Numbers
    <3>4. QED BY <3>3
  <2>6. PICK j \in 1..Len(p) : /\ Holds(l, c.ns, c.id, p[j])
                               /\ p[j].key = c.task /\ p[j].whole = c.whole
                               /\ p[j].first \in Numbers(l, c.ns, c.id)
                               /\ c.whole => p[j].content = c.text
    <3>1. Numbers(l, c.ns, c.id) # {} /\ c.id # None
      BY <1>2, <2>1, <2>5
    <3>2. Uniform(Append(l, c), Numbers(Append(l, c), c.ns, c.id))
      BY <1>2, <2>1
    <3>3. HeldFor(l, c, p)
      BY <3>1, <3>2, OwnMessageWasHeld
    <3>4. QED BY <3>3 DEF HeldFor
  <2>7. j = i
    <3>1. p[j].ns = p[i].ns /\ p[j].id = p[i].id /\ p[j].key = p[i].key
      BY <2>1, <2>4, <2>6 DEF Holds
    <3>2. QED BY <3>1, <1>1 DEF EntriesOf
  <2> DEFINE S == Numbers(l, ns, id)
             n == Len(l) + 1
  <2>8. S \in SUBSET (1..Len(l)) /\ Numbers(Append(l, c), ns, id) = S \cup {n}
    BY <1>4, NumbersGrow
  <2>9. Min(S \cup {n}) = Min(S) /\ Max(S \cup {n}) = n
    <3>1. n \in Nat /\ n > 0 /\ S \in SUBSET (1..(n - 1))
      BY <2>2, <2>8
    <3>2. S # {}
      BY <2>5
    <3> HIDE DEF S, n
    <3>3. QED BY <3>1, <3>2, EarliestIsMin, LatestIsMax
  <2>10. e.last = n /\ e.first = Min(S)
    BY <2>1, <2>2, <2>4, <2>6, <2>7 DEF Holds, Extends
  <2>11. e.first \in S /\ Append(l, c)[e.first] = l[e.first] /\ l[e.first].whole = c.whole
    <3>1. e.first \in S
      BY <2>1, <2>4, <2>6, <2>7
    <3>2. IsOf(c, ns, id) => \A m \in S : l[m].whole = c.whole
      BY <1>2, UniformBefore
    <3>3. QED BY <3>1, <3>2, <1>4, <2>2, <2>8
  <2>12. e.content = IF l[e.first].whole THEN l[e.first].text ELSE Texts(Append(l, c), ns, id)
    <3>1. p[i].content = IF l[e.first].whole THEN l[e.first].text ELSE Texts(l, ns, id)
      BY <2>1, <2>4, <2>6, <2>7 DEF Holds
    <3>2. Texts(Append(l, c), ns, id) = Texts(l, ns, id) \o c.text
      BY <1>4, TextsGrow DEF AddText, IsOf
    <3>3. CASE c.whole
      BY <3>1, <3>3, <2>11
    <3>4. CASE ~c.whole
      BY <3>1, <3>2, <3>4, <2>11
    <3>5. QED BY <3>3, <3>4
  <2>13. Holds(Append(l, c), ns, id, e)
    BY <2>3, <2>8, <2>9, <2>10, <2>11, <2>12 DEF Holds
  <2>14. QED BY <2>13, <1>1
<1>5. QED BY <1>3, <1>4

\* A chunk that is no message, or that is not merged, continues no plain message.
LEMMA LoggingKeepsContent ==
    ASSUME NEW l, IsList(l), NEW c, NEW p, EntriesOf(l, p), ContentOf(l, p),
           \/ c.type # "messages" \/ c.id = None
           \/ ~Uniform(Append(l, c), Numbers(Append(l, c), c.ns, c.id))
    PROVE  ContentOf(Append(l, c), p)
<1> SUFFICES ASSUME NEW ns, NEW id, id # None, id \notin SyntheticIds,
                    Numbers(Append(l, c), ns, id) # {},
                    Uniform(Append(l, c), Numbers(Append(l, c), ns, id))
             PROVE  \E i \in 1..Len(p) : Holds(Append(l, c), ns, id, p[i])
  BY NoTextYet DEF ContentOf
<1>1. ~IsOf(c, ns, id)
  BY DEF IsOf
<1>2. QED BY <1>1, OtherMessageIsHeld

-----------------------------------------------------------------------------
(* One chunk is accumulated.                                                *)

LEMMA ResolvedMessage ==
    ASSUME Inv, NEW k, Buffers(k)
    PROVE  LET c == Resolved(Normalized(k))
           IN  /\ c.seq = Len(log) + 1 /\ c.type = k.type
               /\ c.ns \in Namespace /\ c.role \in Role /\ c.id \notin SyntheticIds
               /\ c.text \in Seq(Nat) /\ IsList(c.calls)
               /\ c.ns = k.ns /\ c.role = k.role /\ c.id = k.id /\ c.whole = k.whole
               /\ c.text = IF k.said THEN Token(k, Len(raw) + 1) ELSE <<>>
<1> DEFINE n == Normalized(k)
           token == Token(k, Len(raw) + 1)
           calls == [i \in DOMAIN k.calls |-> [index |-> k.calls[i].index, id |-> k.calls[i].id, args |-> token]]
           text == IF k.said THEN token ELSE <<>>
<1>1. n = [seq |-> Len(log) + 1, type |-> k.type, ns |-> k.ns, named |-> k.task, path |-> k.path,
           task |-> None, link |-> None, state |-> TaskStatus(k), whole |-> k.whole, id |-> k.id,
           role |-> k.role, text |-> text, calls |-> calls, last |-> k.last, finish |-> k.finish]
  BY DEF Normalized, NextNumber, Serialized
<1>2. text \in Seq(Nat)
  <2>1. Len(raw) \in Nat
    BY LenProperties DEF Inv, Buffered
  <2>2. <<0>> \in Seq(Nat) /\ <<Len(raw) + 1>> \in Seq(Nat) /\ <<>> \in Seq(Nat)
    BY <2>1
  <2>3. QED BY <2>2 DEF Token
<1>0. IsList(calls)
  <2>1. k.calls \in Seq(Range(k.calls))
    BY ConstantsAssumption DEF Inv, Buffered, Buffers
  <2>2. DOMAIN calls = 1..Len(k.calls) /\ Len(k.calls) \in Nat
    BY <2>1, LenProperties
  <2>3. calls = [i \in DOMAIN calls |-> calls[i]]
    OBVIOUS
  <2> HIDE DEF calls
  <2>4. \A i \in 1..Len(k.calls) : calls[i] \in Range(calls)
    BY <2>2 DEF Range
  <2>5. QED BY <2>2, <2>3, <2>4 DEF IsList
<1> HIDE DEF n, text, calls, token
<1>3. \A task, link : /\ Linked(n, task, link).seq = Len(log) + 1
                      /\ Linked(n, task, link).type = k.type
                      /\ Linked(n, task, link).ns = k.ns
                      /\ Linked(n, task, link).role = k.role
                      /\ Linked(n, task, link).id = k.id
                      /\ Linked(n, task, link).text = text
                      /\ Linked(n, task, link).calls = calls
                      /\ Linked(n, task, link).whole = k.whole
  BY <1>1 DEF Linked
<1>4. n.type \in {"tasks", "messages", "custom"}
  BY <1>1 DEF Buffers, Supported
<1>5. \E task, link : Resolved(n) = Linked(n, task, link)
  <2>1. CASE n.type = "tasks"
    BY <2>1 DEF Resolved
  <2>2. CASE n.type = "messages"
    BY <2>2 DEF Resolved
  <2>3. CASE n.type = "custom"
    BY <2>3 DEF Resolved, ResolvedCustom
  <2>4. QED BY <1>4, <2>1, <2>2, <2>3
<1>6. k.ns \in Namespace /\ k.role \in Role /\ k.id \notin SyntheticIds
  BY ConstantsAssumption DEF Inv, Buffered, Buffers
<1>7. text = IF k.said THEN Token(k, Len(raw) + 1) ELSE <<>>
  BY DEF text, token
<1>8. QED BY <1>0, <1>2, <1>3, <1>5, <1>6, <1>7 DEF n

\* Messages of chunks with an id keep it, the others get one that no model gives.
LEMMA IdsKeptApart ==
    ASSUME Merging, NEW c, c.ns \in Namespace, c.role \in Role
    PROVE  IF c.id = None THEN SyntheticId(c) \in SyntheticIds ELSE SyntheticId(c) = c.id
<1>1. <<c.ns, c.role>> \in Context
  BY DEF Context
<1>2. merging.active[<<c.ns, c.role>>] \in {None} \cup SyntheticIds /\ merging.count[<<c.ns, c.role>>] \in Nat
  BY <1>1 DEF Merging
<1>3. CASE c.id # None
  BY <1>3 DEF SyntheticId
<1>4. CASE c.id = None /\ merging.active[<<c.ns, c.role>>] # None
  BY <1>2, <1>4 DEF SyntheticId
<1>5. CASE c.id = None /\ merging.active[<<c.ns, c.role>>] = None
  <2>1. SyntheticId(c) = <<"synthetic", c.role, merging.count[<<c.ns, c.role>>] + 1>>
    BY <1>5 DEF SyntheticId
  <2>2. <<"synthetic", c.role, merging.count[<<c.ns, c.role>>] + 1>> \in SyntheticIds
    BY <1>2 DEF SyntheticIds
  <2>3. QED BY <1>5, <2>1, <2>2
<1>6. QED BY <1>3, <1>4, <1>5

LEMMA EntryFacts ==
    ASSUME Merging, NEW c
    PROVE  LET p == merging.pending
               Is(e) == e.ns = c.ns /\ e.key = c.task /\ e.id = SyntheticId(c)
           IN  /\ \/ Entry(c) = 0
                  \/ Entry(c) \in 1..Len(p) /\ Is(p[Entry(c)])
               /\ Entry(c) = 0 => \A j \in 1..Len(p) : ~Is(p[j])
<1> DEFINE p == merging.pending
           Is(e) == e.ns = c.ns /\ e.key = c.task /\ e.id = SyntheticId(c)
           I == {j \in 1..Len(p) : Is(p[j])}
<1>1. Entry(c) = IF I # {} THEN Min(I) ELSE 0
  BY DEF Entry, SelectInSeq
<1>2. I \in SUBSET Nat
  OBVIOUS
<1>3. CASE I = {}
  <2>1. Entry(c) = 0
    BY <1>1, <1>3
  <2>2. \A j \in 1..Len(p) : ~Is(p[j])
    BY <1>3
  <2>3. QED BY <2>1, <2>2, Zenon
<1>4. CASE I # {}
  <2>1. Min(I) \in I
    BY <1>2, <1>4, MinIsLeast
  <2>2. Entry(c) \in I
    BY <1>1, <1>4, <2>1
  <2>3. QED BY <2>2
<1>5. QED BY <1>3, <1>4

\* The entry of the chunk is opened or extended, and streamed.
Accumulates(c, e) ==
    /\ TakesIn(c, e) /\ e.id = SyntheticId(c)
    /\ streamed' = Append(streamed, e)
    /\ \/ Opens(log', merging.pending, merging'.pending, e) /\ e.content = c.text
       \/ \E i : /\ Extends(log', merging.pending, merging'.pending, e, i)
                 /\ e.content = IF c.whole THEN merging.pending[i].content ELSE merging.pending[i].content \o c.text

\* What becomes of the context of the chunk.
NextActive(c) ==
    CASE c.id # None                        -> merging.active[<<c.ns, c.role>>]
      [] c.id = None /\ IsStreamClosed(c)   -> None
      [] c.id = None /\ ~IsStreamClosed(c)  -> SyntheticId(c)

NextCount(c) ==
    LET count == merging.count[<<c.ns, c.role>>]
    IN  IF c.id = None /\ merging.active[<<c.ns, c.role>>] = None THEN count + 1 ELSE count

LEMMA AccumulateFacts ==
    ASSUME Inv, Merging, NEW k, Buffers(k), NEW c, c = Resolved(Normalized(k)), c.type = "messages", Accumulate(c)
    PROVE  /\ \E e : Accumulates(c, e)
           /\ merging' = [pending |-> merging'.pending, active |-> merging'.active, count |-> merging'.count]
           /\ merging'.active \in [Context -> {None} \cup SyntheticIds]
           /\ merging'.count \in [Context -> Nat]
           /\ merging'.active = [merging.active EXCEPT ![<<c.ns, c.role>>] = NextActive(c)]
           /\ merging'.count = [merging.count EXCEPT ![<<c.ns, c.role>>] = NextCount(c)]
<1> DEFINE x == <<c.ns, c.role>>
           p == merging.pending
           next == Merged(c)
           at == IF Entry(c) = 0 THEN Len(next) ELSE Entry(c)
<1>1. /\ c.seq = Len(log) + 1 /\ c.ns \in Namespace /\ c.role \in Role /\ c.id \notin SyntheticIds
  BY ResolvedMessage
<1>2. x \in Context
  BY <1>1 DEF Context
<1>3. IF c.id = None THEN SyntheticId(c) \in SyntheticIds ELSE SyntheticId(c) = c.id
  BY <1>1, IdsKeptApart
<1>4. /\ merging = [pending |-> p, active |-> merging.active, count |-> merging.count]
      /\ merging.active \in [Context -> {None} \cup SyntheticIds]
      /\ merging.count \in [Context -> Nat]
      /\ EntriesOf(log, p)
  BY DEF Merging
<1>5. PICK count : /\ count = IF c.id = None /\ merging.active[x] = None THEN merging.count[x] + 1 ELSE merging.count[x]
                   /\ count = NextCount(c)
  BY DEF NextCount
<1>6. PICK active : /\ active = CASE c.id # None                        -> merging.active[x]
                                  [] c.id = None /\ IsStreamClosed(c)   -> None
                                  [] c.id = None /\ ~IsStreamClosed(c)  -> SyntheticId(c)
                    /\ active = NextActive(c)
  BY DEF NextActive
<1>7. merging' = [merging EXCEPT !.pending = next, !.count[x] = count, !.active[x] = active]
  BY <1>5, <1>6 DEF Accumulate
<1>8. streamed' = Append(streamed, next[at])
  BY DEF Accumulate
<1> HIDE DEF x, next
<1>9. merging' = [pending |-> next, active |-> [merging.active EXCEPT ![x] = active],
                  count |-> [merging.count EXCEPT ![x] = count]]
  BY <1>4, <1>7
<1>10. count \in Nat
  BY <1>2, <1>4, <1>5
<1>11. active \in {None} \cup SyntheticIds
  <2>1. CASE c.id # None
    BY <2>1, <1>2, <1>4, <1>6
  <2>2. CASE c.id = None /\ IsStreamClosed(c)
    BY <2>2, <1>6
  <2>3. CASE c.id = None /\ ~IsStreamClosed(c)
    BY <2>3, <1>3, <1>6
  <2>4. QED BY <2>1, <2>2, <2>3
<1>12. /\ merging' = [pending |-> merging'.pending, active |-> merging'.active, count |-> merging'.count]
       /\ merging'.active \in [Context -> {None} \cup SyntheticIds]
       /\ merging'.count \in [Context -> Nat]
       /\ merging'.pending = next
       /\ merging'.active = [merging.active EXCEPT ![<<c.ns, c.role>>] = NextActive(c)]
       /\ merging'.count = [merging.count EXCEPT ![<<c.ns, c.role>>] = NextCount(c)]
  BY <1>4, <1>5, <1>6, <1>9, <1>10, <1>11 DEF x
<1>13. /\ log' = Append(log, c) /\ IsList(log) /\ Len(log) \in Nat /\ Len(log') = Len(log) + 1
       /\ \A n \in 1..Len(log) : log'[n] = log[n]
       /\ log'[Len(log) + 1] = c
  <2>1. log' = Append(log, c) /\ IsList(log)
    BY DEF Buffers, Inv, Buffered
  <2>2. QED BY <2>1, ListFacts, ListWithMore
<1>14. CASE Entry(c) = 0
  <2> DEFINE e == [ns |-> c.ns, key |-> c.task, task |-> c.task, id |-> SyntheticId(c), role |-> c.role,
                   whole |-> c.whole, content |-> c.text, first |-> c.seq, last |-> c.seq]
  <2>1. next = Append(p, e)
    BY <1>14 DEF next, Merged
  <2>2. Len(next) = Len(p) + 1 /\ next[Len(p) + 1] = e
    BY <2>1, <1>4, ListWithMore DEF EntriesOf
  <2>3. streamed' = Append(streamed, e)
    BY <2>2, <1>8, <1>14
  <2>4. IsEntry(e) /\ e.first = Len(log') /\ e.last = Len(log') /\ e.content = c.text
    BY <1>1, <1>13 DEF IsEntry
  <2>5. TakesIn(c, e)
    <3>1. e.ns = c.ns /\ e.key = c.task /\ e.id = SyntheticId(c)
      OBVIOUS
    <3>2. e.id = c.id \/ (c.id = None /\ e.id \in SyntheticIds)
      BY <3>1, <1>3
    <3> HIDE DEF e
    <3>3. QED BY ONLY <3>1, <3>2 DEF TakesIn
  <2>6. Opened(log', e)
    BY <1>1, <1>3, <1>13 DEF Opened
  <2>7. \A j \in 1..Len(p) : ~ (p[j].ns = e.ns /\ p[j].key = e.key /\ p[j].id = e.id)
    BY <1>14, EntryFacts
  <2> HIDE DEF e
  <2>8. Opens(log', p, merging'.pending, e)
    BY <1>12, <2>1, <2>4, <2>6, <2>7 DEF Opens
  <2>9. e.id = SyntheticId(c)
    BY DEF e
  <2>10. QED BY <2>3, <2>4, <2>5, <2>8, <2>9, <1>12 DEF Accumulates
<1>15. CASE Entry(c) # 0
  <2>1. PICK i : i = Entry(c)
    OBVIOUS
  <2>2. i \in 1..Len(p) /\ p[i].ns = c.ns /\ p[i].key = c.task /\ p[i].id = SyntheticId(c)
    BY <1>15, <2>1, EntryFacts
  <2>3. IsEntry(p[i]) /\ Opened(log, p[i]) /\ IsList(p) /\ DOMAIN p = 1..Len(p)
    BY <1>4, <2>2, ListFacts DEF EntriesOf
  <2> DEFINE content == IF c.whole THEN p[i].content ELSE p[i].content \o c.text
             e == [ns |-> p[i].ns, key |-> p[i].key, task |-> p[i].task, id |-> p[i].id, role |-> p[i].role,
                   whole |-> p[i].whole, content |-> content, first |-> p[i].first, last |-> c.seq]
  <2>4. PICK text : text = content
    OBVIOUS
  <2>5. next = [p EXCEPT ![i].content = text, ![i].last = c.seq]
    BY <1>15, <2>1, <2>4 DEF next, Merged
  <2>6. [p[i] EXCEPT !.content = text, !.last = c.seq] = e
    <3>1. p[i] = [ns |-> p[i].ns, key |-> p[i].key, task |-> p[i].task, id |-> p[i].id, role |-> p[i].role,
                  whole |-> p[i].whole, content |-> p[i].content, first |-> p[i].first, last |-> p[i].last]
      BY <2>3 DEF IsEntry
    <3>2. PICK y : y = p[i]
      OBVIOUS
    <3>3. y = [ns |-> y.ns, key |-> y.key, task |-> y.task, id |-> y.id, role |-> y.role,
               whole |-> y.whole, content |-> y.content, first |-> y.first, last |-> y.last]
      BY <3>1, <3>2
    <3>4. [y EXCEPT !.content = text, !.last = c.seq] =
            [ns |-> y.ns, key |-> y.key, task |-> y.task, id |-> y.id, role |-> y.role,
             whole |-> y.whole, content |-> text, first |-> y.first, last |-> c.seq]
      <4>1. PICK z : z = [y EXCEPT !.content = text]
        OBVIOUS
      <4>2. z = [ns |-> y.ns, key |-> y.key, task |-> y.task, id |-> y.id, role |-> y.role,
                 whole |-> y.whole, content |-> text, first |-> y.first, last |-> y.last]
        BY ONLY <3>3, <4>1
      <4>3. [z EXCEPT !.last = c.seq] =
              [ns |-> y.ns, key |-> y.key, task |-> y.task, id |-> y.id,
               role |-> y.role, whole |-> y.whole, content |-> text, first |-> y.first, last |-> c.seq]
        BY ONLY <4>2
      <4>4. QED BY <4>1, <4>3
    <3>5. QED BY <3>2, <3>4, <2>4
  <2> HIDE DEF content
  <2>7. next = [p EXCEPT ![i] = e]
    BY <2>2, <2>3, <2>5, <2>6
  <2>8. next[at] = e
    BY <2>1, <2>2, <2>3, <2>7, <1>15
  <2>9. IsEntry(e) /\ e.last = Len(log')
    BY <1>1, <1>13 DEF IsEntry
  <2>10. TakesIn(c, e)
    <3>1. e.ns = c.ns /\ e.key = c.task /\ e.id = SyntheticId(c)
      BY <2>2
    <3>2. e.id = c.id \/ (c.id = None /\ e.id \in SyntheticIds)
      BY <3>1, <1>3
    <3> HIDE DEF e
    <3>3. QED BY ONLY <3>1, <3>2 DEF TakesIn
  <2>11. Opened(log', p[i])
    BY <1>13, <2>3, OpenedStays
  <2>12. Opened(log', e)
    <3>1. p[i].first \in 1..Len(log)
      BY <2>3 DEF Opened
    <3>2. e.last \in 1..Len(log') /\ e.first <= e.last /\ e.first \in 1..Len(log')
      BY <3>1, <1>1, <1>13
    <3>3. QED BY <2>11, <3>2 DEF Opened
  <2>13. /\ e.ns = p[i].ns /\ e.key = p[i].key /\ e.id = p[i].id
         /\ e.role = p[i].role /\ e.first = p[i].first /\ e.content = content
    OBVIOUS
  <2>14. e.id = SyntheticId(c)
    BY <2>2
  <2> HIDE DEF e
  <2>15. Extends(log', p, merging'.pending, e, i)
    BY <1>12, <2>2, <2>7, <2>9, <2>12, <2>13 DEF Extends
  <2>16. streamed' = Append(streamed, e)
    BY <1>8, <2>8
  <2>17. Accumulates(c, e)
    BY <2>10, <2>13, <2>15, <2>16, <2>14 DEF Accumulates, content
  <2>18. QED BY <2>17, <1>12
<1>16. QED BY <1>14, <1>15

\* Whatever becomes of the chunk, every plain message is still held.
LEMMA BufferKeepsMessages ==
    ASSUME Inv, Merging, MessagesTold, NEW k, NEW ok, Buffer(k, ok)
    PROVE  Merging' /\ MessagesTold'
<1>1. PICK c : c = Resolved(Normalized(k))
  OBVIOUS
<1>2. Buffers(k)
  BY DEF Buffer, Buffers
<1>3. /\ c.type = k.type /\ c.ns \in Namespace /\ c.role \in Role /\ c.id \notin SyntheticIds
      /\ c.text \in Seq(Nat)
  BY <1>1, <1>2, ResolvedMessage
<1>4. log' = Append(log, c) /\ IsList(log)
  BY <1>1, <1>2 DEF Buffers, Inv, Buffered
<1>5. \A n \in 1..Len(log') : log'[n].text \in Seq(Nat) /\ log'[n].id \notin SyntheticIds
  <2>1. /\ Len(log) \in Nat /\ Len(log') = Len(log) + 1
        /\ \A n \in 1..Len(log) : log'[n] = log[n]
        /\ log'[Len(log) + 1] = c
    BY <1>4, ListFacts, ListWithMore
  <2>2. \A n \in 1..Len(log) : log[n].text \in Seq(Nat) /\ log[n].id \notin SyntheticIds
    BY DEF MessagesTold
  <2>3. QED BY <2>1, <2>2, <1>3
<1>6. EntriesOf(log, merging.pending) /\ StreamedFrom(merging.pending, streamed) /\ ContentOf(log, merging.pending)
  BY DEF Merging, MessagesTold
<1>7. CASE c.type = "messages" /\ ok
  <2>1. Accumulate(c)
    BY <1>1, <1>7 DEF Buffer
  <2>2. /\ \E e : Accumulates(c, e)
        /\ merging' = [pending |-> merging'.pending, active |-> merging'.active, count |-> merging'.count]
        /\ merging'.active \in [Context -> {None} \cup SyntheticIds]
        /\ merging'.count \in [Context -> Nat]
    BY <1>1, <1>2, <1>7, <2>1, AccumulateFacts
  <2>3. PICK e : Accumulates(c, e)
    BY <2>2
  <2>4. PICK q : q = merging'.pending
    OBVIOUS
  <2>5. TakesIn(c, e) /\ streamed' = Append(streamed, e)
    BY <2>3 DEF Accumulates
  <2>6. CASE Opens(log', merging.pending, q, e) /\ e.content = c.text
    <3>1. EntriesOf(log', q)
      BY <1>4, <1>6, <2>6, OpeningKeepsEntries
    <3>2. StreamedFrom(q, streamed')
      BY <1>4, <1>6, <2>5, <2>6, OpeningKeepsStreamed
    <3>3. ContentOf(log', q)
      BY <1>3, <1>4, <1>6, <1>7, <2>5, <2>6, OpeningKeepsContent
    <3>4. QED BY <1>5, <2>2, <2>4, <3>1, <3>2, <3>3 DEF Merging, MessagesTold
  <2>7. CASE \E i : /\ Extends(log', merging.pending, q, e, i)
                    /\ e.content = IF c.whole THEN merging.pending[i].content
                                              ELSE merging.pending[i].content \o c.text
    <3> PICK i : /\ Extends(log', merging.pending, q, e, i)
                 /\ e.content = IF c.whole THEN merging.pending[i].content
                                           ELSE merging.pending[i].content \o c.text
      BY <2>7
    <3>1. EntriesOf(log', q)
      BY <1>4, <1>6, ExtendingKeepsEntries
    <3>2. StreamedFrom(q, streamed')
      BY <1>4, <1>6, <2>5, ExtendingKeepsStreamed
    <3>3. ContentOf(log', q)
      BY <1>3, <1>4, <1>6, <1>7, <2>5, ExtendingKeepsContent
    <3>4. QED BY <1>5, <2>2, <2>4, <3>1, <3>2, <3>3 DEF Merging, MessagesTold
  <2>8. QED BY <2>3, <2>4, <2>6, <2>7 DEF Accumulates
<1>8. CASE ~ (c.type = "messages" /\ ok)
  <2>1. UNCHANGED <<merging, streamed>>
    BY <1>1, <1>8 DEF Buffer
  <2>2. EntriesOf(log', merging.pending)
    <3>1. \A e : Opened(log, e) => Opened(log', e)
      BY <1>4, OpenedStays
    <3>2. QED BY <3>1, <1>6 DEF EntriesOf
  <2>3. \/ c.type # "messages" \/ c.id = None
        \/ ~Uniform(Append(log, c), Numbers(Append(log, c), c.ns, c.id))
    <3>1. SUFFICES ASSUME c.type = "messages", c.id # None,
                          Uniform(Append(log, c), Numbers(Append(log, c), c.ns, c.id))
                   PROVE  FALSE
      OBVIOUS
    <3>2. ~Mergeable(c)
      BY <1>1, <1>8, <3>1 DEF Buffer
    <3>3. Entry(c) # 0
      BY <3>2 DEF Mergeable
    <3>4. PICK i : i = Entry(c)
      OBVIOUS
    <3>5. SyntheticId(c) = c.id
      BY <1>3, <3>1, IdsKeptApart
    <3>6. /\ i \in 1..Len(merging.pending)
          /\ merging.pending[i].ns = c.ns /\ merging.pending[i].key = c.task /\ merging.pending[i].id = c.id
      BY <3>3, <3>4, <3>5, EntryFacts
    <3>7. Numbers(log, c.ns, c.id) # {}
      <4>1. Opened(log, merging.pending[i])
        BY <1>6, <3>6 DEF EntriesOf
      <4>2. log[merging.pending[i].first].id = c.id
        BY <4>1, <3>6, <1>3 DEF Opened
      <4>3. merging.pending[i].first \in Numbers(log, c.ns, c.id)
        BY <4>1, <4>2, <3>6 DEF Opened, Numbers
      <4>4. QED BY <4>3
    <3>8. HeldFor(log, c, merging.pending)
      BY <1>3, <1>4, <1>6, <3>1, <3>7, OwnMessageWasHeld
    <3>9. PICK j \in 1..Len(merging.pending) :
              /\ Holds(log, c.ns, c.id, merging.pending[j])
              /\ merging.pending[j].key = c.task /\ merging.pending[j].whole = c.whole
              /\ c.whole => merging.pending[j].content = c.text /\ merging.pending[j].role = c.role
      BY <3>8 DEF HeldFor
    <3>10. j = i
      <4>1. /\ merging.pending[j].ns = merging.pending[i].ns
            /\ merging.pending[j].id = merging.pending[i].id
            /\ merging.pending[j].key = merging.pending[i].key
        BY <3>6, <3>9 DEF Holds
      <4>2. QED BY <4>1, <1>6, <3>6 DEF EntriesOf
    <3>11. QED BY <3>2, <3>4, <3>9, <3>10 DEF Mergeable
  <2>4. ContentOf(log', merging.pending)
    BY <1>4, <1>6, <2>3, LoggingKeepsContent
  <2>5. QED BY <1>5, <2>1, <2>2, <2>4 DEF Merging, MessagesTold
<1>9. QED BY <1>7, <1>8

-----------------------------------------------------------------------------
(* What the transfer has stored of the messages.                            *)

Stored ==
    db.written =>
        /\ db.messages = FoldLeft(UpsertMessage, <<>>, MessageList)
        /\ db.answer = FoldLeft(UpsertAnswer, <<>>, MessageList)
        /\ db.preview = Preview(MessageList)
        /\ db.events = EventRows

\* The invariant of the messages: what the accumulator and the transfer made of them.
MessageInv == Merging /\ MessagesTold /\ Stored

LEMMA InitMessageInv == Init => MessageInv
<1> SUFFICES ASSUME Init PROVE MessageInv
  OBVIOUS
<1>1. log = <<>> /\ streamed = <<>> /\ merging.pending = <<>>
  BY DEF Init
<1>2. \A s : s = <<>> => IsList(s) /\ Len(s) = 0 /\ Range(s) = {} /\ DOMAIN s = 1..0
  <2> SUFFICES ASSUME NEW s, s = <<>> PROVE IsList(s) /\ Len(s) = 0 /\ Range(s) = {} /\ DOMAIN s = 1..0
    OBVIOUS
  <2>1. s \in Seq({}) /\ Len(s) = 0
    BY EmptySeq
  <2>2. IsList(s)
    BY <2>1, SeqOfRange DEF IsList
  <2>3. Range(s) = {s[i] : i \in 1..0} /\ DOMAIN s = 1..0
    BY <2>1, <2>2, ListFacts
  <2>4. QED BY <2>1, <2>2, <2>3
<1>3. IsList(log) /\ Len(log) = 0 /\ DOMAIN log = 1..0
  BY <1>1, <1>2
<1>4. IsList(streamed) /\ Range(streamed) = {}
  BY <1>1, <1>2
<1>5. IsList(merging.pending) /\ Len(merging.pending) = 0
  BY <1>1, <1>2
<1>6. Merging
  <2>1. EntriesOf(log, merging.pending)
    BY <1>5 DEF EntriesOf
  <2>2. StreamedFrom(merging.pending, streamed)
    BY <1>4 DEF StreamedFrom
  <2>3. QED BY <2>1, <2>2 DEF Init, Merging
<1>7. MessagesTold
  <2>1. \A ns, id : Numbers(log, ns, id) = {}
    BY <1>3 DEF Numbers
  <2>2. ASSUME NEW ns, NEW id PROVE Texts(log, ns, id) = <<>>
    <3>1. PICK r : Chain(TextRule(ns, id), <<>>, log, 0, r) /\ Texts(log, ns, id) = r[0]
      BY <1>3, TextFold
    <3>2. QED BY <3>1 DEF Chain
  <2>3. ContentOf(log, merging.pending)
    BY <2>1, <2>2 DEF ContentOf
  <2>4. QED BY <1>3, <2>3 DEF MessagesTold
<1>8. Stored
  BY DEF Init, NoRows, Stored
<1>9. QED BY <1>6, <1>7, <1>8 DEF MessageInv

\* While nothing is buffered and nothing is stored, everything of the messages rests.
LEMMA MessagesRest ==
    ASSUME MessageInv, UNCHANGED <<log, merging, streamed>>,
           UNCHANGED db \/ ~db'.written
    PROVE  MessageInv'
<1>1. Merging' /\ MessagesTold'
  BY DEF MessageInv, Merging, MessagesTold
<1>2. MessageList' = MessageList /\ EventRows' = EventRows
  BY DEF MessageList, FlushAll, EventRows
<1>3. FoldLeft(UpsertMessage, <<>>, MessageList)' = FoldLeft(UpsertMessage, <<>>, MessageList)
  BY <1>2
<1>4. FoldLeft(UpsertAnswer, <<>>, MessageList)' = FoldLeft(UpsertAnswer, <<>>, MessageList)
  BY <1>2
<1>5. Preview(MessageList)' = Preview(MessageList)
  BY <1>2
<1>6. Stored'
  BY <1>2, <1>3, <1>4, <1>5 DEF MessageInv, Stored
<1>7. QED BY <1>1, <1>6 DEF MessageInv

LEMMA BufferKeepsMessageInv ==
    ASSUME Inv, MessageInv, NEW k, NEW ok, Buffer(k, ok), UNCHANGED db
    PROVE  MessageInv'
<1>1. Merging' /\ MessagesTold'
  BY BufferKeepsMessages DEF MessageInv
<1>2. db.written = FALSE
  BY DEF Inv, Written, Buffer, Ended
<1>3. QED BY <1>1, <1>2 DEF MessageInv, Stored

LEMMA NextMessageInv ==
    ASSUME Inv, MessageInv, [Next]_vars
    PROVE  MessageInv'
<1>1. ASSUME NEW k \in agent.kinds, Chunk(k) PROVE MessageInv'
  BY <1>1, BufferKeepsMessageInv DEF Chunk
<1>2. ASSUME NEW k \in agent.kinds, ChunkUnmergeable(k) PROVE MessageInv'
  BY <1>2, BufferKeepsMessageInv DEF ChunkUnmergeable
<1>3. ASSUME NEW k \in agent.kinds, ChunkIgnored(k) PROVE MessageInv'
  BY <1>3, MessagesRest DEF ChunkIgnored
<1>4. ASSUME NEW k \in agent.kinds, NEW ending \in Ended, ChunkRefused(k, ending) PROVE MessageInv'
  BY <1>4, BufferKeepsMessageInv DEF ChunkRefused
<1>5. ASSUME NEW ending \in Ended, Ends(ending) PROVE MessageInv'
  BY <1>5, MessagesRest DEF Ends
<1>6. CASE Transfer
  <2>1. UNCHANGED <<log, merging, streamed>>
    BY <1>6 DEF Transfer
  <2>2. Merging' /\ MessagesTold'
    BY <2>1 DEF MessageInv, Merging, MessagesTold
  <2>3. /\ db'.messages = FoldLeft(UpsertMessage, <<>>, MessageList)
        /\ db'.answer = FoldLeft(UpsertAnswer, <<>>, MessageList)
        /\ db'.preview = Preview(MessageList)
        /\ db'.events = EventRows
    BY <1>6 DEF Transfer
  <2>4. MessageList' = MessageList /\ EventRows' = EventRows
    BY <2>1 DEF MessageList, FlushAll, EventRows
  <2>5. Stored'
    BY <2>3, <2>4 DEF Stored
  <2>6. QED BY <2>2, <2>5 DEF MessageInv
<1>7. ASSUME NEW via \in {"redis", "postgres"}, Connect(via) PROVE MessageInv'
  <2>1. UNCHANGED executor
    BY <1>7 DEF Connect, Send
  <2>2. QED BY <2>1, MessagesRest DEF executor
<1>8. CASE DeliverChunk
  <2>1. UNCHANGED executor
    BY <1>8 DEF DeliverChunk, Send
  <2>2. QED BY <2>1, MessagesRest DEF executor
<1>9. CASE DeliverEnd
  <2>1. UNCHANGED executor
    BY <1>9 DEF DeliverEnd, Send
  <2>2. QED BY <2>1, MessagesRest DEF executor
<1>10. CASE UNCHANGED vars
  <2>1. UNCHANGED executor
    BY <1>10 DEF vars, executor
  <2>2. QED BY <2>1, MessagesRest DEF executor
<1>11. QED BY <1>1, <1>2, <1>3, <1>4, <1>5, <1>6, <1>7, <1>8, <1>9, <1>10 DEF Next

\* Whatever the order of the chunks, every entry of the accumulator was opened by
\* the first chunk of its message and has the text of all of them, if they belong
\* together; what was streamed of it before is an earlier state of the same entry,
\* and the rows are made of those (message_accumulator.py, job_transfer.py).
THEOREM MessagesInStep == Spec => [](Inv /\ MessageInv)
<1>1. Init => Inv /\ MessageInv
  BY InitInv, InitMessageInv
<1>2. Inv /\ MessageInv /\ [Next]_vars => (Inv /\ MessageInv)'
  BY NextInv, NextMessageInv
<1>3. QED BY <1>1, <1>2, PTL DEF Spec

-----------------------------------------------------------------------------
(* The row of a message.                                                    *)

KeyOf(m) == <<m.ns, m.id>>

\* The messages of l under key x are states of e, and e is one of them.
Versions(l, n, x, e) ==
    /\ e.first \in Nat /\ e.last \in Nat
    /\ \A m \in 1..n : KeyOf(l[m]) = x =>
          /\ l[m].first = e.first /\ l[m].role = e.role
          /\ l[m].last \in Nat /\ l[m].last <= e.last
          /\ l[m].last = e.last => l[m].content = e.content
    /\ \E m \in 1..n : KeyOf(l[m]) = x /\ l[m].last = e.last

\* The row has kept up with the first k messages of l.
RowKeepsUp(l, k, x, e, rows) ==
    /\ x \in DOMAIN rows <=> \E m \in 1..k : KeyOf(l[m]) = x
    /\ x \in DOMAIN rows =>
          /\ rows[x].first = e.first /\ rows[x].role = e.role
          /\ rows[x].last \in Nat /\ rows[x].last <= e.last
          /\ rows[x].last = e.last => rows[x].content = e.content
          /\ \A m \in 1..k : KeyOf(l[m]) = x => l[m].last <= rows[x].last

LEMMA MaxOfTwo ==
    ASSUME NEW a \in Nat, NEW b \in Nat
    PROVE  Max({a, b}) = IF b >= a THEN b ELSE a
<1>1. \E x \in {a, b} : \A y \in {a, b} : x >= y
  OBVIOUS
<1>2. Max({a, b}) \in {a, b} /\ \A y \in {a, b} : Max({a, b}) >= y
  BY <1>1 DEF Max
<1>3. QED BY <1>2

LEMMA MinOfOne ==
    ASSUME NEW a \in Nat
    PROVE  Min({a, a}) = a
<1>1. Min({a, a}) \in {a, a}
  BY DEF Min
<1>2. QED BY <1>1

LEMMA RowKeepsUpMore ==
    ASSUME NEW l, NEW n \in Nat, NEW x, NEW e, Versions(l, n, x, e),
           NEW k \in 1..n, NEW rows, RowKeepsUp(l, k - 1, x, e, rows)
    PROVE  RowKeepsUp(l, k, x, e, UpsertMessage(rows, l[k]))
<1>1. PICK m : m = l[k]
  OBVIOUS
<1>2. PICK next : next = UpsertMessage(rows, m)
  OBVIOUS
<1>3. \A i \in 1..k : i = k \/ i \in 1..(k - 1)
  OBVIOUS
<1>4. CASE KeyOf(m) # x
  <2>1. \E row : next = Put(rows, KeyOf(m), row)
    BY <1>2 DEF UpsertMessage, KeyOf
  <2>2. (x \in DOMAIN next <=> x \in DOMAIN rows) /\ (x \in DOMAIN rows => next[x] = rows[x])
    BY <2>1, <1>4 DEF Put
  <2>3. (\E i \in 1..k : KeyOf(l[i]) = x) <=> \E i \in 1..(k - 1) : KeyOf(l[i]) = x
    BY <1>1, <1>3, <1>4
  <2>4. QED BY <1>1, <1>2, <1>3, <1>4, <2>2, <2>3 DEF RowKeepsUp
<1>5. CASE KeyOf(m) = x
  <2>1. /\ m.first = e.first /\ m.role = e.role /\ e.first \in Nat
        /\ m.last \in Nat /\ m.last <= e.last /\ e.last \in Nat
        /\ m.last = e.last => m.content = e.content
    BY <1>1, <1>5 DEF Versions
  <2>2. \E i \in 1..k : KeyOf(l[i]) = x
    BY <1>1, <1>5
  <2>3. CASE x \notin DOMAIN rows
    <3>1. next = Put(rows, x, [role |-> m.role, task |-> m.task, content |-> m.content,
                               first |-> m.first, last |-> m.last])
      BY <1>2, <1>5, <2>3 DEF UpsertMessage, KeyOf
    <3>2. x \in DOMAIN next /\ next[x] = [role |-> m.role, task |-> m.task, content |-> m.content,
                                          first |-> m.first, last |-> m.last]
      BY <3>1 DEF Put
    <3>3. \A i \in 1..(k - 1) : KeyOf(l[i]) # x
      BY <2>3 DEF RowKeepsUp
    <3>4. \A i \in 1..k : KeyOf(l[i]) = x => l[i].last <= next[x].last
      BY <1>1, <1>3, <2>1, <3>2, <3>3
    <3>5. QED BY <1>1, <1>2, <2>1, <2>2, <3>2, <3>4 DEF RowKeepsUp
  <2>4. CASE x \in DOMAIN rows
    <3>1. PICK old : old = rows[x]
      OBVIOUS
    <3>2. /\ old.first = e.first /\ old.role = e.role
          /\ old.last \in Nat /\ old.last <= e.last
          /\ old.last = e.last => old.content = e.content
          /\ \A i \in 1..(k - 1) : KeyOf(l[i]) = x => l[i].last <= old.last
      BY <2>4, <3>1 DEF RowKeepsUp
    <3>3. PICK row : row = [role    |-> old.role,
                            task    |-> IF m.task = None THEN old.task ELSE m.task,
                            content |-> IF m.last >= old.last THEN m.content ELSE old.content,
                            first   |-> Min({old.first, m.first}),
                            last    |-> Max({old.last, m.last})]
      OBVIOUS
    <3>4. next = Put(rows, x, row)
      BY <1>2, <1>5, <2>4, <3>1, <3>3 DEF UpsertMessage, KeyOf
    <3>5. x \in DOMAIN next /\ next[x] = row
      BY <3>4 DEF Put
    <3>6. Min({old.first, m.first}) = e.first
      BY <2>1, <3>2, MinOfOne
    <3>7. Max({old.last, m.last}) = IF m.last >= old.last THEN m.last ELSE old.last
      BY <2>1, <3>2, MaxOfTwo
    <3>8. /\ row.role = e.role /\ row.first = e.first
          /\ row.last = IF m.last >= old.last THEN m.last ELSE old.last
          /\ row.content = IF m.last >= old.last THEN m.content ELSE old.content
      BY <3>2, <3>3, <3>6, <3>7
    <3>9. /\ row.last \in Nat /\ row.last <= e.last
          /\ row.last = e.last => row.content = e.content
          /\ m.last <= row.last /\ old.last <= row.last
      BY <2>1, <3>2, <3>8
    <3>10. \A i \in 1..k : KeyOf(l[i]) = x => l[i].last <= row.last
      <4> SUFFICES ASSUME NEW i \in 1..k, KeyOf(l[i]) = x PROVE l[i].last <= row.last
        OBVIOUS
      <4>1. CASE i = k
        BY <4>1, <1>1, <3>9
      <4>2. CASE i \in 1..(k - 1)
        <5>1. i \in 1..n
          BY <4>2
        <5>2. l[i].last \in Nat /\ l[i].last <= old.last
          BY <5>1, <4>2, <3>2 DEF Versions
        <5>3. QED BY <5>2, <3>2, <3>9
      <4>3. QED BY <4>1, <4>2, <1>3
    <3>11. QED BY <1>1, <1>2, <2>2, <3>5, <3>8, <3>9, <3>10 DEF RowKeepsUp
  <2>5. QED BY <2>3, <2>4
<1>6. QED BY <1>4, <1>5

RowIs(rows, x, e) ==
    /\ x \in DOMAIN rows
    /\ rows[x].first = e.first /\ rows[x].last = e.last
    /\ rows[x].content = e.content /\ rows[x].role = e.role

\* The row of a message is the last of its states, however often each was written.
LEMMA RowOfMessage ==
    ASSUME NEW l, NEW n \in Nat, DOMAIN l = 1..n, NEW x, NEW e, Versions(l, n, x, e),
           NEW rows, rows = FoldLeft(UpsertMessage, <<>>, l)
    PROVE  RowIs(rows, x, e)
<1>0. PICK r : Chain(MessageRule, <<>>, l, n, r) /\ FoldLeft(UpsertMessage, <<>>, l) = r[n]
  BY MessageFold
<1>1. /\ r[0] = <<>>
      /\ \A k \in 1..n : r[k] = UpsertMessage(r[k - 1], l[k])
      /\ rows = r[n]
  BY <1>0 DEF Chain, Apply, MessageRule
<1> DEFINE Bad == {k \in 0..n : ~RowKeepsUp(l, k, x, e, r[k])}
<1>2. RowKeepsUp(l, 0, x, e, r[0])
  BY <1>1 DEF RowKeepsUp
<1>3. Bad = {}
  <2>1. SUFFICES ASSUME Bad # {} PROVE FALSE
    OBVIOUS
  <2>2. PICK k \in Bad : \A j \in Bad : k <= j
    <3>1. Bad \in SUBSET Nat
      OBVIOUS
    <3>2. QED BY <2>1, <3>1, LeastNumber
  <2>3. k \in 1..n /\ k - 1 \in 0..n /\ k - 1 \notin Bad
    BY <2>2, <1>2
  <2>4. RowKeepsUp(l, k - 1, x, e, r[k - 1])
    BY <2>3
  <2>5. RowKeepsUp(l, k, x, e, UpsertMessage(r[k - 1], l[k]))
    BY <2>3, <2>4, RowKeepsUpMore
  <2>6. QED BY <2>2, <2>3, <2>5, <1>1
<1>4. RowKeepsUp(l, n, x, e, rows)
  BY <1>1, <1>3
<1>5. PICK m \in 1..n : KeyOf(l[m]) = x /\ l[m].last = e.last
  BY DEF Versions
<1>6. x \in DOMAIN rows
  BY <1>4, <1>5 DEF RowKeepsUp
<1>7. /\ rows[x].first = e.first /\ rows[x].role = e.role
      /\ rows[x].last \in Nat /\ rows[x].last <= e.last
      /\ rows[x].last = e.last => rows[x].content = e.content
      /\ e.last <= rows[x].last
  BY <1>4, <1>5, <1>6 DEF RowKeepsUp
<1>8. rows[x].last = e.last
  BY <1>7 DEF Versions
<1>9. QED BY <1>6, <1>7, <1>8 DEF RowIs

\* Every row is of a message that was written.
LEMMA RowsAreOfMessages ==
    ASSUME NEW l, NEW n \in Nat, DOMAIN l = 1..n,
           NEW rows, rows = FoldLeft(UpsertMessage, <<>>, l), NEW x \in DOMAIN rows
    PROVE  \E m \in 1..n : KeyOf(l[m]) = x
<1>0. PICK r : Chain(MessageRule, <<>>, l, n, r) /\ FoldLeft(UpsertMessage, <<>>, l) = r[n]
  BY MessageFold
<1>1. /\ r[0] = <<>>
      /\ \A k \in 1..n : r[k] = UpsertMessage(r[k - 1], l[k])
      /\ rows = r[n]
  BY <1>0 DEF Chain, Apply, MessageRule
<1> DEFINE Good(k) == x \in DOMAIN r[k] => \E m \in 1..k : KeyOf(l[m]) = x
           Bad == {k \in 0..n : ~Good(k)}
<1>2. Good(0)
  BY <1>1
<1>3. Bad = {}
  <2>1. SUFFICES ASSUME Bad # {} PROVE FALSE
    OBVIOUS
  <2>2. PICK k \in Bad : \A j \in Bad : k <= j
    <3>1. Bad \in SUBSET Nat
      OBVIOUS
    <3>2. QED BY <2>1, <3>1, LeastNumber
  <2>3. k \in 1..n /\ k - 1 \in 0..n /\ k - 1 \notin Bad
    BY <2>2, <1>2
  <2>4. Good(k - 1)
    BY <2>3
  <2>5. DOMAIN r[k] = DOMAIN r[k - 1] \cup {KeyOf(l[k])}
    <3>1. \A old, m : \E row : UpsertMessage(old, m) = Put(old, KeyOf(m), row)
      BY DEF UpsertMessage, KeyOf
    <3>2. PICK row : r[k] = Put(r[k - 1], KeyOf(l[k]), row)
      <4>1. r[k] = UpsertMessage(r[k - 1], l[k])
        BY <2>3, <1>1
      <4>2. QED BY <4>1, <3>1
    <3>3. QED BY <3>2 DEF Put
  <2>6. Good(k)
    BY <2>3, <2>4, <2>5
  <2>7. QED BY <2>2, <2>6
<1>4. Good(n)
  BY <1>3
<1>5. QED BY <1>1, <1>4

\* The list that is written: what was streamed, and then every entry again.
LEMMA ListOfMessages ==
    ASSUME MessageInv, NEW l, l = MessageList
    PROVE  /\ Len(streamed) \in Nat /\ Len(merging.pending) \in Nat
           /\ Len(l) = Len(streamed) + Len(merging.pending)
           /\ DOMAIN l = 1..Len(l)
           /\ \A i \in 1..Len(streamed) : l[i] = streamed[i]
           /\ \A j \in 1..Len(merging.pending) : l[Len(streamed) + j] = merging.pending[j]
<1>1. PICK p : p = merging.pending
  OBVIOUS
<1>2. IsList(streamed) /\ IsList(p)
  BY <1>1 DEF MessageInv, Merging, StreamedFrom, EntriesOf
<1> DEFINE S == Range(streamed) \cup Range(p)
<1>3. streamed \in Seq(S) /\ p \in Seq(S)
  <2>1. \A s : IsList(s) => Len(s) \in Nat /\ s = [i \in 1..Len(s) |-> s[i]] /\ \A i \in 1..Len(s) : s[i] \in Range(s)
    BY ListFacts DEF IsList, Range
  <2>2. /\ Len(streamed) \in Nat /\ streamed = [i \in 1..Len(streamed) |-> streamed[i]]
        /\ \A i \in 1..Len(streamed) : streamed[i] \in S
    BY <1>2, <2>1
  <2>3. Len(p) \in Nat /\ p = [i \in 1..Len(p) |-> p[i]] /\ \A i \in 1..Len(p) : p[i] \in S
    BY <1>2, <2>1
  <2> HIDE DEF S
  <2>4. QED BY <2>2, <2>3
<1> HIDE DEF S
<1>4. PICK q : q = streamed \o p
  OBVIOUS
<1>5. /\ q \in Seq(S)
      /\ Len(q) = Len(streamed) + Len(p)
      /\ \A i \in 1..(Len(streamed) + Len(p)) : q[i] = IF i <= Len(streamed) THEN streamed[i] ELSE p[i - Len(streamed)]
  BY ONLY <1>3, <1>4, ConcatProperties
<1>6. l = q
  BY <1>1, <1>4 DEF MessageList, FlushAll
<1>7. Len(streamed) \in Nat /\ Len(p) \in Nat /\ DOMAIN q = 1..Len(q)
  BY <1>3, <1>5, LenProperties
<1>8. \A i \in 1..Len(streamed) : q[i] = streamed[i]
  BY <1>5, <1>7
<1>9. ASSUME NEW j \in 1..Len(p) PROVE q[Len(streamed) + j] = p[j]
  <2>1. PICK i : i = Len(streamed) + j
    OBVIOUS
  <2>2. i \in 1..(Len(streamed) + Len(p)) /\ ~(i <= Len(streamed)) /\ i - Len(streamed) = j
    BY <2>1, <1>7
  <2>3. q[i] = p[j]
    BY <2>2, <1>5
  <2>4. QED BY <2>1, <2>3
<1>10. QED BY <1>1, <1>5, <1>6, <1>7, <1>8, <1>9

\* No other entry goes to the same row.
Sole(p, i) == \A j \in 1..Len(p) : p[j].ns = p[i].ns /\ p[j].id = p[i].id => j = i

LEMMA SoleEntryIsStored ==
    ASSUME MessageInv, NEW i \in 1..Len(merging.pending), Sole(merging.pending, i),
           NEW rows, rows = FoldLeft(UpsertMessage, <<>>, MessageList)
    PROVE  RowIs(rows, KeyOf(merging.pending[i]), merging.pending[i])
<1>1. PICK l : l = MessageList
  OBVIOUS
<1>2. PICK p : p = merging.pending
  OBVIOUS
<1>3. /\ Len(streamed) \in Nat /\ Len(p) \in Nat
      /\ Len(l) = Len(streamed) + Len(p)
      /\ DOMAIN l = 1..Len(l)
      /\ \A k \in 1..Len(streamed) : l[k] = streamed[k]
      /\ \A j \in 1..Len(p) : l[Len(streamed) + j] = p[j]
  BY <1>1, <1>2, ListOfMessages
<1>4. PICK e : e = p[i]
  OBVIOUS
<1>5. e.first \in Nat /\ e.last \in Nat
  BY <1>2, <1>4 DEF MessageInv, Merging, EntriesOf, Opened
<1>6. \A j \in 1..Len(p) : p[j].ns = e.ns /\ p[j].id = e.id => j = i
  BY <1>2, <1>4 DEF Sole
<1>7. ASSUME NEW m \in 1..Len(l), KeyOf(l[m]) = KeyOf(e)
      PROVE  /\ l[m].first = e.first /\ l[m].role = e.role
             /\ l[m].last \in Nat /\ l[m].last <= e.last
             /\ l[m].last = e.last => l[m].content = e.content
  <2>1. l[m].ns = e.ns /\ l[m].id = e.id
    BY <1>7 DEF KeyOf
  <2>2. CASE m \in 1..Len(streamed)
    <3>1. l[m] \in Range(streamed)
      <4>1. Range(streamed) = {streamed[j] : j \in 1..Len(streamed)}
        BY ListFacts DEF MessageInv, Merging, StreamedFrom
      <4>2. QED BY <4>1, <2>2, <1>3
    <3>2. l[m].last \in Nat /\ \E j \in 1..Len(p) : Was(p[j], l[m])
      BY <3>1, <1>2 DEF MessageInv, Merging, StreamedFrom
    <3>3. PICK j \in 1..Len(p) : Was(p[j], l[m])
      BY <3>2
    <3>4. j = i
      BY <3>3, <2>1, <1>6 DEF Was
    <3>5. Was(e, l[m])
      BY <3>3, <3>4, <1>4
    <3>6. QED BY <3>2, <3>5 DEF Was
  <2>3. CASE m \notin 1..Len(streamed)
    <3>1. PICK j : j = m - Len(streamed)
      OBVIOUS
    <3>2. j \in 1..Len(p) /\ m = Len(streamed) + j
      BY <3>1, <2>3, <1>3
    <3>3. l[m] = p[j]
      BY <3>2, <1>3
    <3>4. j = i
      BY <3>2, <3>3, <2>1, <1>6
    <3>5. l[m] = e
      BY <3>3, <3>4, <1>4
    <3>6. QED BY <3>5, <1>5
  <2>4. QED BY <2>2, <2>3
<1>8. \E m \in 1..Len(l) : KeyOf(l[m]) = KeyOf(e) /\ l[m].last = e.last
  <2>1. PICK m : m = Len(streamed) + i
    OBVIOUS
  <2>2. m \in 1..Len(l) /\ l[m] = e
    BY <2>1, <1>2, <1>3, <1>4
  <2>3. QED BY <2>2
<1>9. Versions(l, Len(l), KeyOf(e), e)
  BY <1>5, <1>7, <1>8 DEF Versions
<1>10. rows = FoldLeft(UpsertMessage, <<>>, l) /\ Len(l) \in Nat
  BY <1>1, <1>3
<1>11. RowIs(rows, KeyOf(e), e)
  BY <1>3, <1>9, <1>10, RowOfMessage
<1>12. QED BY <1>2, <1>4, <1>11

\* A plain message is held by one entry only, so that its row is that entry.
LEMMA PlainMessageIsStored ==
    ASSUME Inv, MessageInv, NEW ns, NEW id, id # None, id \notin SyntheticIds,
           Numbers(log, ns, id) # {}, Uniform(log, Numbers(log, ns, id)),
           NEW rows, rows = FoldLeft(UpsertMessage, <<>>, MessageList)
    PROVE  \E i \in 1..Len(merging.pending) :
               LET e == merging.pending[i]
               IN  Sole(merging.pending, i) /\ Holds(log, ns, id, e) /\ RowIs(rows, <<ns, id>>, e)
<1>1. PICK p : p = merging.pending
  OBVIOUS
<1>2. EntriesOf(log, p) /\ ContentOf(log, p)
  BY <1>1 DEF MessageInv, Merging, MessagesTold
<1>3. PICK i \in 1..Len(p) : Holds(log, ns, id, p[i])
  BY <1>2 DEF ContentOf
<1>4. p[i].ns = ns /\ p[i].id = id
  BY <1>3 DEF Holds
<1>5. ASSUME NEW j \in 1..Len(p), p[j].ns = ns, p[j].id = id
      PROVE  p[j].first \in Numbers(log, ns, id) /\ log[p[j].first].task = p[j].key
  <2>1. Opened(log, p[j])
    BY <1>2 DEF EntriesOf
  <2>2. log[p[j].first].id = id
    BY <2>1, <1>5 DEF Opened
  <2>3. QED BY <2>1, <2>2, <1>5 DEF Opened, Numbers
<1>6. Sole(p, i)
  <2>1. ASSUME NEW j \in 1..Len(p), p[j].ns = p[i].ns, p[j].id = p[i].id PROVE j = i
    <3>1. p[j].key = p[i].key
      BY <1>4, <1>5, <2>1 DEF Uniform
    <3>2. QED BY <3>1, <2>1, <1>2 DEF EntriesOf
  <2>2. QED BY <2>1 DEF Sole
<1>7. RowIs(rows, KeyOf(p[i]), p[i])
  BY <1>1, <1>6, SoleEntryIsStored
<1>8. RowIs(rows, <<ns, id>>, p[i])
  BY <1>4, <1>7 DEF KeyOf
<1>9. QED BY <1>1, <1>3, <1>6, <1>8

LEMMA MessageRowsFollow == Inv /\ MessageInv => RowsAreTheirChunks
<1> SUFFICES ASSUME Inv, MessageInv, db.written,
                    NEW ns \in Namespace, NEW id \in {c.id : c \in Range(log)} \ {None},
                    ChunksOf(ns, id) # {}, Plain(ChunksOf(ns, id))
             PROVE  LET numbers == ChunksOf(ns, id)
                        row     == db.messages[<<ns, id>>]
                    IN  /\ <<ns, id>> \in DOMAIN db.messages
                        /\ row.first = Min(numbers) /\ row.last = Max(numbers)
                        /\ row.content = IF log[row.first].whole THEN log[row.first].text ELSE TextOf(ns, id)
                        /\ db.events \cap numbers = {}
  BY DEF RowsAreTheirChunks
<1>1. DOMAIN log = 1..Len(log) /\ Range(log) = {log[i] : i \in 1..Len(log)}
  BY ListFacts DEF Inv, Buffered
<1>2. PICK S : S = Numbers(log, ns, id)
  OBVIOUS
<1>3. ChunksOf(ns, id) = S
  BY <1>1, <1>2 DEF ChunksOf, Numbers
<1>4. S # {} /\ Uniform(log, S)
  BY <1>3 DEF Plain, Uniform
<1>5. id # None /\ id \notin SyntheticIds
  BY <1>1 DEF MessageInv, MessagesTold
<1>6. PICK rows : rows = db.messages
  OBVIOUS
<1>7. rows = FoldLeft(UpsertMessage, <<>>, MessageList) /\ db.events = EventRows
  BY <1>6 DEF MessageInv, Stored
<1>8. PICK e : Holds(log, ns, id, e) /\ RowIs(rows, <<ns, id>>, e)
  BY <1>2, <1>4, <1>5, <1>7, PlainMessageIsStored
<1>9. TextOf(ns, id) = Texts(log, ns, id)
  BY DEF TextOf, Texts
<1>10. /\ <<ns, id>> \in DOMAIN rows
       /\ rows[<<ns, id>>].first = Min(S) /\ rows[<<ns, id>>].last = Max(S)
       /\ rows[<<ns, id>>].content = IF log[rows[<<ns, id>>].first].whole
                                     THEN log[rows[<<ns, id>>].first].text ELSE TextOf(ns, id)
  BY <1>2, <1>8, <1>9 DEF Holds, RowIs
<1>11. db.events \cap S = {}
  BY <1>2, <1>7 DEF EventRows, Numbers
<1>12. QED BY <1>3, <1>6, <1>10, <1>11

\* The row of a message has the text of all its chunks, in their order, and the
\* numbers of the first and the last (message_accumulator.py,
\* job_message_repository.py), whatever came between them and although every
\* state of the message was written in its turn.
THEOREM MessageRowsAreTrue == Spec => []RowsAreTheirChunks
<1>1. Inv /\ MessageInv => RowsAreTheirChunks
  BY MessageRowsFollow
<1>2. QED BY <1>1, MessagesInStep, PTL

-----------------------------------------------------------------------------
(* The answers of the run.                                                  *)

AnswersIn(l, k) == {i \in 1..k : IsAnswer(l[i])}

LatestAnswer(l, k) == IF AnswersIn(l, k) = {} THEN <<>> ELSE l[Max(AnswersIn(l, k))].content

\* The message of the run, written anew by every root answer, is the last one.
LEMMA AnswerIsLatest ==
    ASSUME NEW l, NEW n \in Nat, DOMAIN l = 1..n
    PROVE  FoldLeft(UpsertAnswer, <<>>, l) = LatestAnswer(l, n)
<1>0. PICK r : Chain(AnswerRule, <<>>, l, n, r) /\ FoldLeft(UpsertAnswer, <<>>, l) = r[n]
  BY AnswerFold
<1>1. /\ r[0] = <<>>
      /\ \A k \in 1..n : r[k] = UpsertAnswer(r[k - 1], l[k])
      /\ FoldLeft(UpsertAnswer, <<>>, l) = r[n]
  BY <1>0 DEF Chain, Apply, AnswerRule
<1> DEFINE Bad == {k \in 0..n : r[k] # LatestAnswer(l, k)}
<1>2. r[0] = LatestAnswer(l, 0)
  <2>1. AnswersIn(l, 0) = {}
    BY DEF AnswersIn
  <2>2. QED BY <2>1, <1>1 DEF LatestAnswer
<1>3. Bad = {}
  <2>1. SUFFICES ASSUME Bad # {} PROVE FALSE
    OBVIOUS
  <2>2. PICK k \in Bad : \A j \in Bad : k <= j
    <3>1. Bad \in SUBSET Nat
      OBVIOUS
    <3>2. QED BY <2>1, <3>1, LeastNumber
  <2>3. k \in 1..n /\ k - 1 \in 0..n /\ k - 1 \notin Bad
    BY <2>2, <1>2
  <2>4. r[k - 1] = LatestAnswer(l, k - 1)
    BY <2>3
  <2>5. r[k] = IF IsAnswer(l[k]) THEN l[k].content ELSE r[k - 1]
    BY <2>3, <1>1 DEF UpsertAnswer
  <2>6. r[k] = LatestAnswer(l, k)
    <3>1. CASE IsAnswer(l[k])
      <4>1. AnswersIn(l, k) = AnswersIn(l, k - 1) \cup {k}
        BY <3>1, <2>3 DEF AnswersIn
      <4>2. Max(AnswersIn(l, k - 1) \cup {k}) = k
        <5>1. AnswersIn(l, k - 1) \in SUBSET (1..(k - 1)) /\ k \in Nat /\ k > 0
          BY <2>3 DEF AnswersIn
        <5>2. QED BY <5>1, LatestIsMax
      <4>3. AnswersIn(l, k) # {}
        BY <4>1
      <4>4. QED BY <2>5, <3>1, <4>1, <4>2, <4>3 DEF LatestAnswer
    <3>2. CASE ~IsAnswer(l[k])
      <4>1. AnswersIn(l, k) = AnswersIn(l, k - 1)
        BY <3>2, <2>3 DEF AnswersIn
      <4>2. QED BY <2>4, <2>5, <3>2, <4>1 DEF LatestAnswer
    <3>3. QED BY <3>1, <3>2
  <2>7. QED BY <2>2, <2>6
<1>4. r[n] = LatestAnswer(l, n)
  BY <1>3
<1>5. QED BY <1>1, <1>4

LEMMA PreviewIsLatest ==
    ASSUME NEW l, Len(l) \in Nat
    PROVE  Preview(l) = LatestAnswer(l, Len(l))
<1> DEFINE I == {i \in 1..Len(l) : IsAnswer(l[i])}
<1>1. SelectLastInSeq(l, IsAnswer) = IF I # {} THEN Max(I) ELSE 0
  BY DEF SelectLastInSeq
<1>2. I = AnswersIn(l, Len(l)) /\ I \in SUBSET (1..Len(l))
  BY DEF AnswersIn
<1> HIDE DEF I
<1>3. CASE I = {}
  BY <1>1, <1>2, <1>3 DEF Preview, LatestAnswer
<1>4. CASE I # {}
  <2>1. Max(I) \in 1..Len(l)
    BY <1>2, <1>4, MaxIsGreatest
  <2>2. Max(I) # 0
    BY <2>1
  <2>3. QED BY <1>1, <1>2, <1>4, <2>2 DEF Preview, LatestAnswer
<1>5. QED BY <1>3, <1>4

\* While no two tasks share a message, the rows are the entries.
LEMMA RowsAreEntries ==
    ASSUME MessageInv, Unshared, NEW p, p = merging.pending,
           NEW rows, rows = FoldLeft(UpsertMessage, <<>>, MessageList)
    PROVE  /\ \A i, j \in 1..Len(p) : KeyOf(p[i]) = KeyOf(p[j]) => i = j
           /\ \A i \in 1..Len(p) : RowIs(rows, KeyOf(p[i]), p[i])
           /\ \A x \in DOMAIN rows : \E i \in 1..Len(p) : x = KeyOf(p[i])
<1>1. EntriesOf(log, p) /\ StreamedFrom(p, streamed)
  BY DEF MessageInv, Merging
<1>2. Range(p) = {p[i] : i \in 1..Len(p)}
  BY <1>1, ListFacts DEF EntriesOf
<1>3. ASSUME NEW i \in 1..Len(p), NEW j \in 1..Len(p), p[i].ns = p[j].ns, p[i].id = p[j].id
      PROVE  i = j
  <2>1. p[i].key = p[j].key
    BY <1>2, <1>3 DEF Unshared
  <2>2. QED BY <2>1, <1>1, <1>3 DEF EntriesOf
<1>4. \A i, j \in 1..Len(p) : KeyOf(p[i]) = KeyOf(p[j]) => i = j
  BY <1>3 DEF KeyOf
<1>5. ASSUME NEW i \in 1..Len(p) PROVE RowIs(rows, KeyOf(p[i]), p[i])
  <2>1. Sole(p, i)
    BY <1>3 DEF Sole
  <2>2. QED BY <2>1, SoleEntryIsStored
<1>6. ASSUME NEW x \in DOMAIN rows PROVE \E i \in 1..Len(p) : x = KeyOf(p[i])
  <2>1. PICK l : l = MessageList
    OBVIOUS
  <2>2. /\ Len(streamed) \in Nat /\ Len(p) \in Nat
        /\ Len(l) = Len(streamed) + Len(p)
        /\ DOMAIN l = 1..Len(l)
        /\ \A k \in 1..Len(streamed) : l[k] = streamed[k]
        /\ \A j \in 1..Len(p) : l[Len(streamed) + j] = p[j]
    BY <2>1, ListOfMessages
  <2>3. rows = FoldLeft(UpsertMessage, <<>>, l) /\ Len(l) \in Nat
    BY <2>1, <2>2
  <2>4. PICK m \in 1..Len(l) : KeyOf(l[m]) = x
    BY <2>2, <2>3, RowsAreOfMessages
  <2>5. CASE m \in 1..Len(streamed)
    <3>1. l[m] \in Range(streamed)
      <4>1. Range(streamed) = {streamed[j] : j \in 1..Len(streamed)}
        BY <1>1, ListFacts DEF StreamedFrom
      <4>2. QED BY <4>1, <2>5, <2>2
    <3>2. PICK j \in 1..Len(p) : Was(p[j], l[m])
      BY <3>1, <1>1 DEF StreamedFrom
    <3>3. QED BY <3>2, <2>4 DEF Was, KeyOf
  <2>6. CASE m \notin 1..Len(streamed)
    <3>1. PICK j : j = m - Len(streamed)
      OBVIOUS
    <3>2. j \in 1..Len(p) /\ m = Len(streamed) + j
      BY <3>1, <2>6, <2>2
    <3>3. QED BY <3>2, <2>2, <2>4
  <2>7. QED BY <2>5, <2>6
<1>7. QED BY <1>4, <1>5, <1>6

\* The last root answer that is written is the last entry that is one.
LEMMA LatestIsLastEntry ==
    ASSUME MessageInv, NEW p, p = merging.pending, NEW l, l = MessageList,
           AnswersIn(p, Len(p)) # {}
    PROVE  /\ Max(AnswersIn(p, Len(p))) \in AnswersIn(p, Len(p))
           /\ \A i \in AnswersIn(p, Len(p)) : i <= Max(AnswersIn(p, Len(p)))
           /\ LatestAnswer(l, Len(l)) = p[Max(AnswersIn(p, Len(p)))].content
<1> DEFINE A == AnswersIn(p, Len(p))
           I == AnswersIn(l, Len(l))
<1>1. /\ Len(streamed) \in Nat /\ Len(p) \in Nat
      /\ Len(l) = Len(streamed) + Len(p)
      /\ \A j \in 1..Len(p) : l[Len(streamed) + j] = p[j]
  BY ListOfMessages
<1>2. A \in SUBSET (1..Len(p)) /\ I \in SUBSET (1..Len(l)) /\ Len(l) \in Nat
  BY <1>1 DEF AnswersIn
<1>3. \A j \in 1..Len(p) : j \in A <=> IsAnswer(p[j])
  BY DEF AnswersIn
<1>4. \A m \in 1..Len(l) : m \in I <=> IsAnswer(l[m])
  BY DEF AnswersIn
<1>5. A # {} /\ LatestAnswer(l, Len(l)) = IF I = {} THEN <<>> ELSE l[Max(I)].content
  BY DEF LatestAnswer
<1> HIDE DEF A, I
<1>6. Max(A) \in A /\ \A i \in A : i <= Max(A)
  BY <1>1, <1>2, <1>5, MaxIsGreatest
<1>7. PICK z : z = Max(A)
  OBVIOUS
<1>8. PICK m : m = Len(streamed) + z
  OBVIOUS
<1>9. m \in 1..Len(l) /\ l[m] = p[z]
  <2>1. z \in 1..Len(p)
    BY <1>2, <1>6, <1>7
  <2>2. l[m] = p[z]
    BY <2>1, <1>1, <1>8
  <2>3. m \in 1..Len(l)
    BY <2>1, <1>1, <1>8
  <2>4. QED BY <2>2, <2>3
<1>10. m \in I
  BY <1>3, <1>4, <1>6, <1>7, <1>9, <1>2
<1>11. Max(I) \in I /\ \A i \in I : i <= Max(I)
  BY <1>2, <1>10, MaxIsGreatest
<1>12. PICK y : y = Max(I)
  OBVIOUS
<1>13. y = m
  <2>1. y \in 1..Len(l) /\ m <= y
    BY <1>2, <1>10, <1>11, <1>12
  <2>2. PICK j : j = y - Len(streamed)
    OBVIOUS
  <2>3. z \in 1..Len(p)
    BY <1>2, <1>6, <1>7
  <2>4. j \in 1..Len(p) /\ y = Len(streamed) + j
    BY <2>1, <2>2, <2>3, <1>1, <1>8
  <2>5. IsAnswer(p[j])
    BY <2>1, <2>4, <1>1, <1>4, <1>11, <1>12
  <2>6. j <= z
    BY <2>4, <2>5, <1>3, <1>6, <1>7
  <2>7. QED BY <2>1, <2>3, <2>4, <2>6, <1>1, <1>8
<1>14. LatestAnswer(l, Len(l)) = p[z].content
  BY <1>5, <1>9, <1>10, <1>12, <1>13
<1>15. QED BY <1>6, <1>7, <1>14 DEF A

LEMMA AnswersFollow == Inv /\ MessageInv => AnswersAgree
<1> DEFINE roots == {k \in DOMAIN db.messages : k[1] = Root /\ db.messages[k].role = "ai"}
<1> SUFFICES ASSUME Inv, MessageInv, db.written, Unshared,
                    \A k, j \in roots : k # j => ~Overlap(k, j)
             PROVE  db.answer = db.preview /\ \A k \in LastRootAiMessage : db.messages[k].content = db.answer
  BY DEF AnswersAgree
<1>1. PICK l : l = MessageList
  OBVIOUS
<1>2. PICK p : p = merging.pending
  OBVIOUS
<1>3. PICK rows : rows = db.messages
  OBVIOUS
<1>4. Len(l) \in Nat /\ DOMAIN l = 1..Len(l)
  BY <1>1, ListOfMessages
<1>5. /\ rows = FoldLeft(UpsertMessage, <<>>, MessageList)
      /\ db.answer = FoldLeft(UpsertAnswer, <<>>, l)
      /\ db.preview = Preview(l)
  BY <1>1, <1>3 DEF MessageInv, Stored
<1>6. db.answer = LatestAnswer(l, Len(l))
  BY <1>4, <1>5, AnswerIsLatest
<1>7. db.preview = LatestAnswer(l, Len(l))
  BY <1>4, <1>5, PreviewIsLatest
<1>8. /\ \A i, j \in 1..Len(p) : KeyOf(p[i]) = KeyOf(p[j]) => i = j
      /\ \A i \in 1..Len(p) : RowIs(rows, KeyOf(p[i]), p[i])
      /\ \A x \in DOMAIN rows : \E i \in 1..Len(p) : x = KeyOf(p[i])
  BY <1>2, <1>5, RowsAreEntries
<1>9. PICK A : A = AnswersIn(p, Len(p))
  OBVIOUS
<1>10. A = {i \in 1..Len(p) : p[i].role = "ai" /\ p[i].ns = Root}
  BY <1>9 DEF AnswersIn, IsAnswer
<1>11. roots = {k \in DOMAIN rows : k[1] = Root /\ rows[k].role = "ai"}
  BY <1>3
<1>12. \A i \in 1..Len(p) : KeyOf(p[i])[1] = p[i].ns
  BY DEF KeyOf
<1>13. \A i \in A : KeyOf(p[i]) \in roots
  BY <1>8, <1>10, <1>11, <1>12 DEF RowIs
<1>14. \A x \in roots : \E i \in A : x = KeyOf(p[i])
  BY <1>8, <1>10, <1>11, <1>12 DEF RowIs
<1>15. ASSUME NEW k \in LastRootAiMessage
       PROVE  rows[k].content = LatestAnswer(l, Len(l))
  <2>1. k \in roots /\ \A j \in roots : rows[j].last <= rows[k].last
    BY <1>3, <1>15 DEF LastRootAiMessage
  <2>2. PICK i \in A : k = KeyOf(p[i])
    BY <2>1, <1>14
  <2>3. PICK z : z = Max(A)
    OBVIOUS
  <2>4. z \in A /\ i <= z /\ LatestAnswer(l, Len(l)) = p[z].content
    BY <1>1, <1>2, <1>9, <2>2, <2>3, LatestIsLastEntry
  <2>5. i \in 1..Len(p) /\ z \in 1..Len(p)
    BY <2>2, <2>4, <1>10
  <2>6. /\ rows[k].last = p[i].last /\ rows[k].first = p[i].first /\ rows[k].content = p[i].content
        /\ rows[KeyOf(p[z])].last = p[z].last /\ rows[KeyOf(p[z])].first = p[z].first
    BY <2>2, <2>5, <1>8 DEF RowIs
  <2>7. i = z
    <3>1. SUFFICES ASSUME i # z PROVE FALSE
      OBVIOUS
    <3>2. p[i].first < p[z].first
      BY <3>1, <2>4, <2>5, <1>2 DEF MessageInv, Merging, EntriesOf
    <3>3. \A j \in 1..Len(p) : p[j].first \in Nat /\ p[j].last \in Nat /\ p[j].first <= p[j].last
      BY <1>2 DEF MessageInv, Merging, EntriesOf, Opened
    <3>4. KeyOf(p[z]) \in roots /\ KeyOf(p[z]) # k
      BY <3>1, <2>2, <2>4, <2>5, <1>8, <1>13
    <3>5. ~(rows[k].first <= rows[KeyOf(p[z])].last /\ rows[KeyOf(p[z])].first <= rows[k].last)
      BY <2>1, <3>4, <1>3 DEF Overlap
    <3>6. ~(p[i].first <= p[z].last /\ p[z].first <= p[i].last)
      BY <3>5, <2>6
    <3>7. p[z].last <= p[i].last
      BY <2>1, <2>6, <3>4
    <3>8. QED BY <3>2, <3>3, <3>6, <3>7, <2>5
  <2>8. QED BY <2>4, <2>6, <2>7
<1>16. QED BY <1>3, <1>6, <1>7, <1>15

\* While root answers do not overlap and no two tasks share a message, the answer
\* shown for the run, the preview of the thread and the message that the next turn
\* is given (get_last_root_ai_message_async) are one, although the first two go by
\* the order of writing and the third by the numbers in the rows.
THEOREM AnswersAreOne == Spec => []AnswersAgree
<1>1. Inv /\ MessageInv => AnswersAgree
  BY AnswersFollow
<1>2. QED BY <1>1, MessagesInStep, PTL

-----------------------------------------------------------------------------
(* The folds of the adapter.                                                *)

Streamed(a, l)               == FoldLeft(FormatChunk, a, l)
Formatted(a, l)              == FoldLeft(Format, a, l)
CallsOpened(a, l, c, key)    == FoldLeftDomain(LAMBDA d, i : OpenCall(d, c, key, i), a, l)
CallsFormatted(a, l, c, key) == FoldLeftDomain(LAMBDA d, i : FormatCall(d, c, key, i), a, l)
OwnClosed(a, l, key, isCall) == FoldLeftDomain(LAMBDA d, i : CloseOwn(d, key, i, isCall), a, l)
AllClosed(a, l)              == FoldLeft(LAMBDA b, it : CloseMessage(b, it.key), a, l)

\* The places of a list, over which a fold of its domain runs
Places(l) == [i \in DOMAIN l |-> i]

LEMMA StreamFold ==
    ASSUME NEW a, NEW l, NEW n \in Nat, DOMAIN l = 1..n
    PROVE  \E r : Chain(StreamRule, a, l, n, r) /\ Streamed(a, l) = r[n]
<1>1. PICK m, rule : m = l /\ rule = StreamRule
  OBVIOUS
<1> DEFINE f == CHOOSE h : h = [s \in SUBSET (1..n) |->
                                IF s = {} THEN a ELSE FormatChunk(h[s \ {Max(s)}], m[Max(s)])]
<1>2. \A h, s : Step(rule, a, m, h, s) = IF s = {} THEN a ELSE FormatChunk(h[s \ {Max(s)}], m[Max(s)])
  <2>1. rule.kind = "stream"
    BY <1>1 DEF StreamRule
  <2>2. \A x, y : Apply(rule, x, y) = FormatChunk(x, y)
    BY <2>1 DEF Apply
  <2>3. QED BY <2>2 DEF Step
<1>3. PICK h : IsFold(rule, a, m, n, h)
  BY FoldExists
<1>4. h = [s \in SUBSET (1..n) |-> IF s = {} THEN a ELSE FormatChunk(h[s \ {Max(s)}], m[Max(s)])]
  BY <1>2, <1>3 DEF IsFold
<1>5. f = [s \in SUBSET (1..n) |-> IF s = {} THEN a ELSE FormatChunk(f[s \ {Max(s)}], m[Max(s)])]
  BY <1>4
<1>6. Streamed(a, l) = f[1..n]
  BY <1>1 DEF Streamed, FoldLeft, MapThenFoldSet
<1> HIDE DEF f
<1>7. IsFold(rule, a, m, n, f)
  BY <1>2, <1>5 DEF IsFold
<1>8. PICK r : Chain(rule, a, m, n, r) /\ f[1..n] = r[n]
  BY <1>7, FoldChain
<1>9. Chain(StreamRule, a, l, n, r) /\ Streamed(a, l) = r[n]
  BY <1>1, <1>6, <1>8
<1>10. QED BY <1>9

LEMMA FormatFold ==
    ASSUME NEW a, NEW l, NEW n \in Nat, DOMAIN l = 1..n
    PROVE  \E r : Chain(FormatRule, a, l, n, r) /\ Formatted(a, l) = r[n]
<1>1. PICK m, rule : m = l /\ rule = FormatRule
  OBVIOUS
<1> DEFINE f == CHOOSE h : h = [s \in SUBSET (1..n) |->
                                IF s = {} THEN a ELSE Format(h[s \ {Max(s)}], m[Max(s)])]
<1>2. \A h, s : Step(rule, a, m, h, s) = IF s = {} THEN a ELSE Format(h[s \ {Max(s)}], m[Max(s)])
  <2>1. rule.kind = "format"
    BY <1>1 DEF FormatRule
  <2>2. \A x, y : Apply(rule, x, y) = Format(x, y)
    BY <2>1 DEF Apply
  <2>3. QED BY <2>2 DEF Step
<1>3. PICK h : IsFold(rule, a, m, n, h)
  BY FoldExists
<1>4. h = [s \in SUBSET (1..n) |-> IF s = {} THEN a ELSE Format(h[s \ {Max(s)}], m[Max(s)])]
  BY <1>2, <1>3 DEF IsFold
<1>5. f = [s \in SUBSET (1..n) |-> IF s = {} THEN a ELSE Format(f[s \ {Max(s)}], m[Max(s)])]
  BY <1>4
<1>6. Formatted(a, l) = f[1..n]
  BY <1>1 DEF Formatted, FoldLeft, MapThenFoldSet
<1> HIDE DEF f
<1>7. IsFold(rule, a, m, n, f)
  BY <1>2, <1>5 DEF IsFold
<1>8. PICK r : Chain(rule, a, m, n, r) /\ f[1..n] = r[n]
  BY <1>7, FoldChain
<1>9. Chain(FormatRule, a, l, n, r) /\ Formatted(a, l) = r[n]
  BY <1>1, <1>6, <1>8
<1>10. QED BY <1>9

LEMMA OpenCallFold ==
    ASSUME NEW a, NEW l, NEW n \in Nat, DOMAIN l = 1..n, NEW c, NEW key
    PROVE  \E r : Chain(OpenCallRule(c, key), a, Places(l), n, r) /\ CallsOpened(a, l, c, key) = r[n]
<1>1. PICK m, rule : m = Places(l) /\ rule = OpenCallRule(c, key)
  OBVIOUS
<1> DEFINE f == CHOOSE h : h = [s \in SUBSET (1..n) |->
                                IF s = {} THEN a ELSE OpenCall(h[s \ {Max(s)}], c, key, m[Max(s)])]
<1>2. \A h, s : Step(rule, a, m, h, s) = IF s = {} THEN a ELSE OpenCall(h[s \ {Max(s)}], c, key, m[Max(s)])
  <2>1. rule.kind = "open call" /\ rule.c = c /\ rule.key = key
    BY <1>1 DEF OpenCallRule
  <2>2. \A x, y : Apply(rule, x, y) = OpenCall(x, c, key, y)
    BY <2>1 DEF Apply
  <2>3. QED BY <2>2 DEF Step
<1>3. PICK h : IsFold(rule, a, m, n, h)
  BY FoldExists
<1>4. h = [s \in SUBSET (1..n) |-> IF s = {} THEN a ELSE OpenCall(h[s \ {Max(s)}], c, key, m[Max(s)])]
  BY <1>2, <1>3 DEF IsFold
<1>5. f = [s \in SUBSET (1..n) |-> IF s = {} THEN a ELSE OpenCall(f[s \ {Max(s)}], c, key, m[Max(s)])]
  BY <1>4
<1>6. CallsOpened(a, l, c, key) = f[1..n]
  BY <1>1 DEF CallsOpened, FoldLeftDomain, Places, FoldLeft, MapThenFoldSet
<1> HIDE DEF f
<1>7. IsFold(rule, a, m, n, f)
  BY <1>2, <1>5 DEF IsFold
<1>8. PICK r : Chain(rule, a, m, n, r) /\ f[1..n] = r[n]
  BY <1>7, FoldChain
<1>9. Chain(OpenCallRule(c, key), a, Places(l), n, r) /\ CallsOpened(a, l, c, key) = r[n]
  BY <1>1, <1>6, <1>8
<1>10. QED BY <1>9

LEMMA FormatCallFold ==
    ASSUME NEW a, NEW l, NEW n \in Nat, DOMAIN l = 1..n, NEW c, NEW key
    PROVE  \E r : Chain(FormatCallRule(c, key), a, Places(l), n, r) /\ CallsFormatted(a, l, c, key) = r[n]
<1>1. PICK m, rule : m = Places(l) /\ rule = FormatCallRule(c, key)
  OBVIOUS
<1> DEFINE f == CHOOSE h : h = [s \in SUBSET (1..n) |->
                                IF s = {} THEN a ELSE FormatCall(h[s \ {Max(s)}], c, key, m[Max(s)])]
<1>2. \A h, s : Step(rule, a, m, h, s) = IF s = {} THEN a ELSE FormatCall(h[s \ {Max(s)}], c, key, m[Max(s)])
  <2>1. rule.kind = "format call" /\ rule.c = c /\ rule.key = key
    BY <1>1 DEF FormatCallRule
  <2>2. \A x, y : Apply(rule, x, y) = FormatCall(x, c, key, y)
    BY <2>1 DEF Apply
  <2>3. QED BY <2>2 DEF Step
<1>3. PICK h : IsFold(rule, a, m, n, h)
  BY FoldExists
<1>4. h = [s \in SUBSET (1..n) |-> IF s = {} THEN a ELSE FormatCall(h[s \ {Max(s)}], c, key, m[Max(s)])]
  BY <1>2, <1>3 DEF IsFold
<1>5. f = [s \in SUBSET (1..n) |-> IF s = {} THEN a ELSE FormatCall(f[s \ {Max(s)}], c, key, m[Max(s)])]
  BY <1>4
<1>6. CallsFormatted(a, l, c, key) = f[1..n]
  BY <1>1 DEF CallsFormatted, FoldLeftDomain, Places, FoldLeft, MapThenFoldSet
<1> HIDE DEF f
<1>7. IsFold(rule, a, m, n, f)
  BY <1>2, <1>5 DEF IsFold
<1>8. PICK r : Chain(rule, a, m, n, r) /\ f[1..n] = r[n]
  BY <1>7, FoldChain
<1>9. Chain(FormatCallRule(c, key), a, Places(l), n, r) /\ CallsFormatted(a, l, c, key) = r[n]
  BY <1>1, <1>6, <1>8
<1>10. QED BY <1>9

LEMMA CloseOwnFold ==
    ASSUME NEW a, NEW l, NEW n \in Nat, DOMAIN l = 1..n, NEW key, NEW isCall
    PROVE  \E r : Chain(CloseOwnRule(key, isCall), a, Places(l), n, r) /\ OwnClosed(a, l, key, isCall) = r[n]
<1>1. PICK m, rule : m = Places(l) /\ rule = CloseOwnRule(key, isCall)
  OBVIOUS
<1> DEFINE f == CHOOSE h : h = [s \in SUBSET (1..n) |->
                                IF s = {} THEN a ELSE CloseOwn(h[s \ {Max(s)}], key, m[Max(s)], isCall)]
<1>2. \A h, s : Step(rule, a, m, h, s) = IF s = {} THEN a ELSE CloseOwn(h[s \ {Max(s)}], key, m[Max(s)], isCall)
  <2>1. rule.kind = "close own" /\ rule.key = key /\ rule.isCall = isCall
    BY <1>1 DEF CloseOwnRule
  <2>2. \A x, y : Apply(rule, x, y) = CloseOwn(x, key, y, isCall)
    BY <2>1 DEF Apply
  <2>3. QED BY <2>2 DEF Step
<1>3. PICK h : IsFold(rule, a, m, n, h)
  BY FoldExists
<1>4. h = [s \in SUBSET (1..n) |-> IF s = {} THEN a ELSE CloseOwn(h[s \ {Max(s)}], key, m[Max(s)], isCall)]
  BY <1>2, <1>3 DEF IsFold
<1>5. f = [s \in SUBSET (1..n) |-> IF s = {} THEN a ELSE CloseOwn(f[s \ {Max(s)}], key, m[Max(s)], isCall)]
  BY <1>4
<1>6. OwnClosed(a, l, key, isCall) = f[1..n]
  BY <1>1 DEF OwnClosed, FoldLeftDomain, Places, FoldLeft, MapThenFoldSet
<1> HIDE DEF f
<1>7. IsFold(rule, a, m, n, f)
  BY <1>2, <1>5 DEF IsFold
<1>8. PICK r : Chain(rule, a, m, n, r) /\ f[1..n] = r[n]
  BY <1>7, FoldChain
<1>9. Chain(CloseOwnRule(key, isCall), a, Places(l), n, r) /\ OwnClosed(a, l, key, isCall) = r[n]
  BY <1>1, <1>6, <1>8
<1>10. QED BY <1>9

LEMMA CloseFold ==
    ASSUME NEW a, NEW l, NEW n \in Nat, DOMAIN l = 1..n
    PROVE  \E r : Chain(CloseRule, a, l, n, r) /\ AllClosed(a, l) = r[n]
<1>1. PICK m, rule : m = l /\ rule = CloseRule
  OBVIOUS
<1> DEFINE f == CHOOSE h : h = [s \in SUBSET (1..n) |->
                                IF s = {} THEN a ELSE CloseMessage(h[s \ {Max(s)}], m[Max(s)].key)]
<1>2. \A h, s : Step(rule, a, m, h, s) = IF s = {} THEN a ELSE CloseMessage(h[s \ {Max(s)}], m[Max(s)].key)
  <2>1. rule.kind = "close"
    BY <1>1 DEF CloseRule
  <2>2. \A x, y : Apply(rule, x, y) = CloseMessage(x, y.key)
    BY <2>1 DEF Apply
  <2>3. QED BY <2>2 DEF Step
<1>3. PICK h : IsFold(rule, a, m, n, h)
  BY FoldExists
<1>4. h = [s \in SUBSET (1..n) |-> IF s = {} THEN a ELSE CloseMessage(h[s \ {Max(s)}], m[Max(s)].key)]
  BY <1>2, <1>3 DEF IsFold
<1>5. f = [s \in SUBSET (1..n) |-> IF s = {} THEN a ELSE CloseMessage(f[s \ {Max(s)}], m[Max(s)].key)]
  BY <1>4
<1>6. AllClosed(a, l) = f[1..n]
  BY <1>1 DEF AllClosed, FoldLeft, MapThenFoldSet
<1> HIDE DEF f
<1>7. IsFold(rule, a, m, n, f)
  BY <1>2, <1>5 DEF IsFold
<1>8. PICK r : Chain(rule, a, m, n, r) /\ f[1..n] = r[n]
  BY <1>7, FoldChain
<1>9. Chain(CloseRule, a, l, n, r) /\ AllClosed(a, l) = r[n]
  BY <1>1, <1>6, <1>8
<1>10. QED BY <1>9

-----------------------------------------------------------------------------
(* Lists that are joined.                                                   *)

LEMMA JoinedLists ==
    ASSUME NEW s, IsList(s), NEW t, IsList(t)
    PROVE  /\ IsList(s \o t)
           /\ Len(s \o t) = Len(s) + Len(t)
           /\ \A i \in 1..Len(s) : (s \o t)[i] = s[i]
           /\ \A i \in 1..Len(t) : (s \o t)[Len(s) + i] = t[i]
<1> DEFINE S == Range(s) \cup Range(t)
<1>1. s \in Seq(S) /\ t \in Seq(S)
  <2>1. Len(s) \in Nat /\ s = [i \in 1..Len(s) |-> s[i]] /\ \A i \in 1..Len(s) : s[i] \in S
    BY ListFacts DEF IsList, Range
  <2>2. Len(t) \in Nat /\ t = [i \in 1..Len(t) |-> t[i]] /\ \A i \in 1..Len(t) : t[i] \in S
    BY ListFacts DEF IsList, Range
  <2>3. QED BY <2>1, <2>2
<1> HIDE DEF S
<1>2. /\ s \o t \in Seq(S)
      /\ Len(s \o t) = Len(s) + Len(t)
      /\ \A i \in 1..(Len(s) + Len(t)) : (s \o t)[i] = IF i <= Len(s) THEN s[i] ELSE t[i - Len(s)]
  BY <1>1, ConcatProperties
<1>3. IsList(s \o t)
  BY <1>2, SeqOfRange DEF IsList
<1>4. Len(s) \in Nat /\ Len(t) \in Nat
  BY ListFacts
<1>5. \A i \in 1..Len(s) : (s \o t)[i] = s[i]
  BY <1>2, <1>4
<1>6. ASSUME NEW i \in 1..Len(t)
      PROVE  (s \o t)[Len(s) + i] = t[i]
  <2>1. Len(s) + i \in 1..(Len(s) + Len(t)) /\ ~ (Len(s) + i <= Len(s)) /\ (Len(s) + i) - Len(s) = i
    BY <1>4
  <2>2. QED BY <2>1, <1>2
<1>7. QED BY <1>2, <1>3, <1>5, <1>6

LEMMA SameLists ==
    ASSUME NEW s, IsList(s), NEW t, IsList(t), Len(s) = Len(t),
           \A i \in 1..Len(s) : s[i] = t[i]
    PROVE  s = t
<1>1. s = [i \in 1..Len(s) |-> s[i]] /\ t = [i \in 1..Len(t) |-> t[i]]
  BY DEF IsList
<1>2. QED BY <1>1

LEMMA JoinedWithMore ==
    ASSUME NEW s, IsList(s), NEW t, IsList(t), NEW x
    PROVE  s \o Append(t, x) = Append(s \o t, x)
<1> DEFINE u == s \o Append(t, x)
           v == Append(s \o t, x)
<1>0. Len(s) \in Nat /\ Len(t) \in Nat
  BY ListFacts
<1>1. /\ IsList(Append(t, x)) /\ Len(Append(t, x)) = Len(t) + 1
      /\ \A i \in 1..Len(t) : Append(t, x)[i] = t[i]
      /\ Append(t, x)[Len(t) + 1] = x
  BY ListWithMore
<1>2. /\ IsList(s \o t) /\ Len(s \o t) = Len(s) + Len(t)
      /\ \A i \in 1..Len(s) : (s \o t)[i] = s[i]
      /\ \A i \in 1..Len(t) : (s \o t)[Len(s) + i] = t[i]
  BY JoinedLists
<1>3. /\ IsList(u) /\ Len(u) = Len(s) + (Len(t) + 1)
      /\ \A i \in 1..Len(s) : u[i] = s[i]
      /\ \A i \in 1..(Len(t) + 1) : u[Len(s) + i] = Append(t, x)[i]
  BY <1>1, JoinedLists
<1>4. /\ IsList(v) /\ Len(v) = (Len(s) + Len(t)) + 1
      /\ \A i \in 1..(Len(s) + Len(t)) : v[i] = (s \o t)[i]
      /\ v[Len(s) + Len(t) + 1] = x
  BY <1>2, ListWithMore
<1> HIDE DEF u, v
<1>5. ASSUME NEW i \in 1..Len(u)
      PROVE  u[i] = v[i]
  <2>1. CASE i \in 1..Len(s)
    BY <2>1, <1>0, <1>2, <1>3, <1>4
  <2>2. CASE i = Len(s) + Len(t) + 1
    BY <2>2, <1>0, <1>1, <1>3, <1>4
  <2>3. CASE i \in (Len(s) + 1)..(Len(s) + Len(t))
    <3>1. PICK j \in 1..Len(t) : i = Len(s) + j
      <4>1. i - Len(s) \in 1..Len(t) /\ i = Len(s) + (i - Len(s))
        BY <2>3, <1>0
      <4>2. QED BY <4>1
    <3>2. u[i] = Append(t, x)[j] /\ v[i] = (s \o t)[i]
      <4>1. j \in 1..(Len(t) + 1) /\ i \in 1..(Len(s) + Len(t))
        BY <3>1, <2>3, <1>0
      <4>2. QED BY <4>1, <3>1, <1>3, <1>4
    <3>3. Append(t, x)[j] = t[j] /\ (s \o t)[i] = t[j]
      BY <3>1, <1>1, <1>2
    <3>4. QED BY <3>2, <3>3
  <2>4. QED BY <2>1, <2>2, <2>3, <1>0, <1>3
<1>6. u = v
  BY <1>0, <1>3, <1>4, <1>5, SameLists
<1>7. QED BY <1>6 DEF u, v

LEMMA JoinedThrice ==
    ASSUME NEW s, IsList(s), NEW t, IsList(t), NEW u, IsList(u)
    PROVE  (s \o t) \o u = s \o (t \o u)
<1>1. PICK S : S = (Range(s) \cup Range(t)) \cup Range(u)
  OBVIOUS
<1>2. s \in Seq(S) /\ t \in Seq(S) /\ u \in Seq(S)
  <2>1. Len(s) \in Nat /\ s = [i \in 1..Len(s) |-> s[i]] /\ \A i \in 1..Len(s) : s[i] \in S
    BY <1>1, ListFacts DEF IsList, Range
  <2>2. Len(t) \in Nat /\ t = [i \in 1..Len(t) |-> t[i]] /\ \A i \in 1..Len(t) : t[i] \in S
    BY <1>1, ListFacts DEF IsList, Range
  <2>3. Len(u) \in Nat /\ u = [i \in 1..Len(u) |-> u[i]] /\ \A i \in 1..Len(u) : u[i] \in S
    BY <1>1, ListFacts DEF IsList, Range
  <2>4. QED BY <2>1, <2>2, <2>3
<1>3. QED BY <1>2, ConcatAssociative

LEMMA JoinedWithNone ==
    ASSUME NEW s, IsList(s)
    PROVE  s \o <<>> = s /\ <<>> \o s = s /\ IsList(<<>>) /\ Len(<<>>) = 0
<1>1. s \in Seq(Range(s))
  BY DEF IsList
<1>2. s \o <<>> = s /\ <<>> \o s = s
  BY <1>1, ConcatEmptySeq
<1>3. IsList(<<>>) /\ Len(<<>>) = 0
  <2>1. <<>> \in Seq({}) /\ Len(<<>>) = 0
    BY EmptySeq
  <2>2. QED BY <2>1, SeqOfRange DEF IsList
<1>4. QED BY <1>2, <1>3

-----------------------------------------------------------------------------
(* What an adapter puts out is only put out: nothing else depends on it.    *)

Item(key, tool, call, text, done) == [key |-> key, tool |-> tool, call |-> call, text |-> text, done |-> done]

IsItem(it) == it = Item(it.key, it.tool, it.call, it.text, it.done) /\ it.done \in BOOLEAN

Adapter(items, active, count, number, started, ended, out) ==
    [items |-> items, active |-> active, count |-> count, number |-> number,
     started |-> started, ended |-> ended, out |-> out]

IsAdapter(a) ==
    /\ a = Adapter(a.items, a.active, a.count, a.number, a.started, a.ended, a.out)
    /\ IsList(a.items) /\ IsList(a.out)
    /\ a.number \in Nat
    /\ \A i \in 1..Len(a.items) : IsItem(a.items[i])

\* b has put out w before, and is a otherwise.
Twin(a, b, w) ==
    /\ IsAdapter(a) /\ IsAdapter(b) /\ IsList(w)
    /\ b.items = a.items /\ b.active = a.active /\ b.count = a.count /\ b.number = a.number
    /\ b.started = a.started /\ b.ended = a.ended
    /\ b.out = w \o a.out

\* An adapter with another value of a part.
LEMMA AdapterChanges ==
    \A v1, v2, v3, v4, v5, v6, v7, x :
        LET a == Adapter(v1, v2, v3, v4, v5, v6, v7)
        IN  /\ [a EXCEPT !.items = x]   = Adapter(x, v2, v3, v4, v5, v6, v7)
            /\ [a EXCEPT !.active = x]  = Adapter(v1, x, v3, v4, v5, v6, v7)
            /\ [a EXCEPT !.number = x]  = Adapter(v1, v2, v3, x, v5, v6, v7)
            /\ [a EXCEPT !.started = x] = Adapter(v1, v2, v3, v4, x, v6, v7)
            /\ [a EXCEPT !.ended = x]   = Adapter(v1, v2, v3, v4, v5, x, v7)
            /\ [a EXCEPT !.out = x]     = Adapter(v1, v2, v3, v4, v5, v6, x)
BY DEF Adapter

LEMMA PartsOf ==
    ASSUME NEW a, NEW v1, NEW v2, NEW v3, NEW v4, NEW v5, NEW v6, NEW v7,
           a = Adapter(v1, v2, v3, v4, v5, v6, v7)
    PROVE  /\ a.items = v1 /\ a.active = v2 /\ a.count = v3 /\ a.number = v4
           /\ a.started = v5 /\ a.ended = v6 /\ a.out = v7
BY DEF Adapter

LEMMA EmitFacts ==
    ASSUME NEW a, IsAdapter(a), NEW kind, NEW i, NEW text
    PROVE  LET e == [kind |-> kind, item |-> i, text |-> text, number |-> a.number]
               b == Emit(a, kind, i, text)
           IN  /\ IsAdapter(b)
               /\ b.items = a.items /\ b.active = a.active /\ b.count = a.count /\ b.number = a.number + 1
               /\ b.started = a.started /\ b.ended = a.ended /\ b.out = Append(a.out, e)
<1> DEFINE e == [kind |-> kind, item |-> i, text |-> text, number |-> a.number]
<1>1. PICK n, o : n = a.number + 1 /\ o = Append(a.out, e)
  OBVIOUS
<1>2. Emit(a, kind, i, text) = Adapter(a.items, a.active, a.count, a.number + 1,
                                       a.started, a.ended, Append(a.out, e))
  <2>1. Emit(a, kind, i, text) = [a EXCEPT !.number = n, !.out = o]
    BY <1>1 DEF Emit
  <2>2. [a EXCEPT !.number = n, !.out = o] = [[a EXCEPT !.number = n] EXCEPT !.out = o]
    OBVIOUS
  <2>3. PICK b : b = [a EXCEPT !.number = n]
    OBVIOUS
  <2>4. b = Adapter(a.items, a.active, a.count, n, a.started, a.ended, a.out)
    BY <2>3, AdapterChanges DEF IsAdapter
  <2>5. [b EXCEPT !.out = o] = Adapter(a.items, a.active, a.count, n, a.started, a.ended, o)
    BY <2>4, AdapterChanges
  <2>6. QED BY <2>1, <2>2, <2>3, <2>5, <1>1
<1>3. IsList(Append(a.out, e))
  BY ListWithMore DEF IsAdapter
<1> HIDE DEF e
<1>4. PICK b : b = Emit(a, kind, i, text)
  OBVIOUS
<1>5. /\ b.items = a.items /\ b.active = a.active /\ b.count = a.count /\ b.number = a.number + 1
      /\ b.started = a.started /\ b.ended = a.ended /\ b.out = Append(a.out, e)
  BY <1>2, <1>4 DEF Adapter
<1>6. IsAdapter(b)
  <2>1. b = Adapter(b.items, b.active, b.count, b.number, b.started, b.ended, b.out)
    BY <1>2, <1>4, <1>5
  <2>2. IsList(b.items) /\ IsList(b.out) /\ b.number \in Nat
    BY <1>3, <1>5 DEF IsAdapter
  <2>3. \A j \in 1..Len(b.items) : IsItem(b.items[j])
    BY <1>5 DEF IsAdapter
  <2>4. QED BY <2>1, <2>2, <2>3 DEF IsAdapter
<1>7. QED BY <1>4, <1>5, <1>6 DEF e

LEMMA EmitTwins ==
    ASSUME NEW a, NEW b, NEW w, Twin(a, b, w), NEW kind, NEW i, NEW text
    PROVE  Twin(Emit(a, kind, i, text), Emit(b, kind, i, text), w)
<1>1. PICK e : e = [kind |-> kind, item |-> i, text |-> text, number |-> a.number]
  OBVIOUS
<1>2. PICK c, d : c = Emit(a, kind, i, text) /\ d = Emit(b, kind, i, text)
  OBVIOUS
<1>3. /\ IsAdapter(c)
      /\ c.items = a.items /\ c.active = a.active /\ c.count = a.count /\ c.number = a.number + 1
      /\ c.started = a.started /\ c.ended = a.ended /\ c.out = Append(a.out, e)
  BY <1>1, <1>2, EmitFacts DEF Twin
<1>4. /\ IsAdapter(d)
      /\ d.items = b.items /\ d.active = b.active /\ d.count = b.count /\ d.number = b.number + 1
      /\ d.started = b.started /\ d.ended = b.ended /\ d.out = Append(b.out, e)
  <2>1. IsAdapter(b) /\ e = [kind |-> kind, item |-> i, text |-> text, number |-> b.number]
    BY <1>1 DEF Twin
  <2>2. QED BY <2>1, <1>2, EmitFacts
<1>5. Append(b.out, e) = w \o Append(a.out, e)
  <2>1. IsList(w) /\ IsList(a.out) /\ b.out = w \o a.out
    BY DEF Twin, IsAdapter
  <2>2. QED BY <2>1, JoinedWithMore
<1>6. Twin(c, d, w)
  BY <1>3, <1>4, <1>5 DEF Twin
<1>7. QED BY <1>2, <1>6

\* Another value for the items of an adapter.
LEMMA ItemsFacts ==
    ASSUME NEW a, IsAdapter(a), NEW x, IsList(x), \A i \in 1..Len(x) : IsItem(x[i])
    PROVE  LET b == [a EXCEPT !.items = x]
           IN  /\ IsAdapter(b)
               /\ b.items = x /\ b.active = a.active /\ b.count = a.count /\ b.number = a.number
               /\ b.started = a.started /\ b.ended = a.ended /\ b.out = a.out
<1>1. PICK b : b = [a EXCEPT !.items = x]
  OBVIOUS
<1>2. b = Adapter(x, a.active, a.count, a.number, a.started, a.ended, a.out)
  BY <1>1, AdapterChanges DEF IsAdapter
<1>3. /\ b.items = x /\ b.active = a.active /\ b.count = a.count /\ b.number = a.number
      /\ b.started = a.started /\ b.ended = a.ended /\ b.out = a.out
  BY <1>2 DEF Adapter
<1>4. IsAdapter(b)
  BY <1>2, <1>3 DEF IsAdapter
<1>5. QED BY <1>1, <1>3, <1>4

LEMMA ItemsTwins ==
    ASSUME NEW a, NEW b, NEW w, Twin(a, b, w), NEW x, IsList(x), \A i \in 1..Len(x) : IsItem(x[i])
    PROVE  Twin([a EXCEPT !.items = x], [b EXCEPT !.items = x], w)
<1>1. PICK c, d : c = [a EXCEPT !.items = x] /\ d = [b EXCEPT !.items = x]
  OBVIOUS
<1>2. /\ IsAdapter(c)
      /\ c.items = x /\ c.active = a.active /\ c.count = a.count /\ c.number = a.number
      /\ c.started = a.started /\ c.ended = a.ended /\ c.out = a.out
  BY <1>1, ItemsFacts DEF Twin
<1>3. /\ IsAdapter(d)
      /\ d.items = x /\ d.active = b.active /\ d.count = b.count /\ d.number = b.number
      /\ d.started = b.started /\ d.ended = b.ended /\ d.out = b.out
  BY <1>1, ItemsFacts DEF Twin
<1>4. Twin(c, d, w)
  BY <1>2, <1>3 DEF Twin
<1>5. QED BY <1>1, <1>4

\* Another item in the place of one.
Replaced(items, i, it) == [items EXCEPT ![i] = it]

LEMMA ReplacedItem ==
    ASSUME NEW items, IsList(items), NEW i \in 1..Len(items), NEW it,
           NEW x, x = Replaced(items, i, it)
    PROVE  /\ IsList(x) /\ Len(x) = Len(items)
           /\ x[i] = it /\ \A j \in 1..Len(items) : j # i => x[j] = items[j]
<1>1. x = [items EXCEPT ![i] = it]
  BY DEF Replaced
<1>2. Len(items) \in Nat /\ items = [j \in 1..Len(items) |-> items[j]]
  BY ListFacts DEF IsList
<1>3. x = [j \in 1..Len(items) |-> IF j = i THEN it ELSE items[j]]
  BY <1>1, <1>2
<1>4. x \in Seq(Range(items) \cup {it})
  <2>1. \A j \in 1..Len(items) : items[j] \in Range(items)
    BY ListFacts
  <2>2. QED BY <2>1, <1>2, <1>3
<1>5. IsList(x)
  BY <1>4, SeqOfRange DEF IsList
<1>6. Len(x) = Len(items)
  BY <1>2, <1>3
<1>7. QED BY <1>1, <1>3, <1>5, <1>6

\* Another value for text, call or end of an item.
LEMMA ItemChanges ==
    ASSUME NEW it, IsItem(it), NEW x
    PROVE  /\ [it EXCEPT !.text = x] = Item(it.key, it.tool, it.call, x, it.done)
           /\ [it EXCEPT !.call = x] = Item(it.key, it.tool, x, it.text, it.done)
           /\ [it EXCEPT !.done = x] = Item(it.key, it.tool, it.call, it.text, x)
<1>1. \A v1, v2, v3, v4, v5 :
        LET j == Item(v1, v2, v3, v4, v5)
        IN  /\ [j EXCEPT !.text = x] = Item(v1, v2, v3, x, v5)
            /\ [j EXCEPT !.call = x] = Item(v1, v2, x, v4, v5)
            /\ [j EXCEPT !.done = x] = Item(v1, v2, v3, v4, x)
  BY DEF Item
<1>2. QED BY <1>1 DEF IsItem

-----------------------------------------------------------------------------
(* The text of pieces.                                                      *)

\* The pieces have numbers, each its own.
ArePieces(S) ==
    /\ IsFiniteSet(S)
    /\ \A e \in S : e.number \in Nat
    /\ \A d, e \in S : d.number = e.number => d = e

LEMMA LatestPiece ==
    ASSUME NEW S, ArePieces(S), S # {}
    PROVE  Latest(S) \in S /\ \A d \in S : d.number <= Latest(S).number
<1> DEFINE Q == {k \in Nat : \E T \in SUBSET S : /\ T # {} /\ Cardinality(T) = k
                                               /\ ~ \E e \in T : \A d \in T : d.number <= e.number}
<1>1. ASSUME NEW T \in SUBSET S
      PROVE  IsFiniteSet(T) /\ Cardinality(T) \in Nat
  BY FS_Subset, FS_CardinalityType DEF ArePieces
<1>2. Q = {}
  <2>1. SUFFICES ASSUME Q # {} PROVE FALSE
    OBVIOUS
  <2>2. PICK k \in Q : \A j \in Q : k <= j
    BY <2>1, LeastNumber
  <2>3. PICK T \in SUBSET S : /\ T # {} /\ Cardinality(T) = k
                              /\ ~ \E e \in T : \A d \in T : d.number <= e.number
    BY <2>2
  <2>4. PICK x \in T : TRUE
    BY <2>3
  <2> DEFINE U == T \ {x}
  <2>5. U \in SUBSET S /\ IsFiniteSet(T) /\ k \in Nat
    BY <2>2, <1>1
  <2>6. Cardinality(U) = k - 1 /\ Cardinality(U) \in Nat
    <3>1. Cardinality(T \ {x}) = Cardinality(T) - 1
      BY <2>4, <2>5, FS_RemoveElement
    <3>2. Cardinality(U) \in Nat
      BY <2>5, <1>1
    <3>3. QED BY <3>1, <3>2, <2>3
  <2>7. x.number \in Nat /\ \A d \in U : d.number \in Nat
    BY DEF ArePieces
  <2>8. CASE U = {}
    <3>1. T = {x}
      BY <2>4, <2>8
    <3>2. QED BY <3>1, <2>3, <2>7
  <2>9. CASE U # {}
    <3>1. k - 1 \notin Q
      <4>1. k - 1 \in Nat /\ ~ (k <= k - 1)
        BY <2>5, <2>6
      <4>2. QED BY <4>1, <2>2
    <3>2. PICK e \in U : \A d \in U : d.number <= e.number
      BY <3>1, <2>5, <2>6, <2>9
    <3>3. CASE x.number <= e.number
      BY <3>2, <3>3, <2>3
    <3>4. CASE ~ (x.number <= e.number)
      <4>1. \A d \in T : d.number <= x.number
        BY <3>2, <3>4, <2>7
      <4>2. QED BY <4>1, <2>3, <2>4
    <3>5. QED BY <3>3, <3>4
  <2>10. QED BY <2>8, <2>9
<1>3. IsFiniteSet(S) /\ Cardinality(S) \in Nat
  BY <1>1
<1>4. \E e \in S : \A d \in S : d.number <= e.number
  <2>1. Cardinality(S) \notin Q
    BY <1>2
  <2>2. S \in SUBSET S
    OBVIOUS
  <2> HIDE DEF Q
  <2>3. QED BY <2>1, <2>2, <1>3 DEF Q
<1>5. QED BY <1>4 DEF Latest

\* f joins the pieces of every subset of S, the latest at the end.
JoinsPieces(S, f) ==
    \A s \in SUBSET S : f[s] = IF s = {} THEN <<>> ELSE f[s \ {Latest(s)}] \o Latest(s).text

LEMMA PiecesOfPieces ==
    ASSUME NEW S, ArePieces(S), NEW T \in SUBSET S
    PROVE  ArePieces(T)
BY FS_Subset DEF ArePieces

LEMMA PieceFold ==
    ASSUME NEW S, ArePieces(S)
    PROVE  \E f : JoinsPieces(S, f) /\ TextOfPieces(S) = f[S]
<1>1. PICK p, m : p = [s \in SUBSET S |-> Latest(s)] /\ m = [e \in S |-> e]
  OBVIOUS
<1>2. \A s \in SUBSET S : s # {} => p[s] \in s
  BY <1>1, PiecesOfPieces, LatestPiece
<1>3. IsFiniteSet(S)
  BY DEF ArePieces
<1>4. PICK rule : rule = PieceRule
  OBVIOUS
<1>5. \A x, y : Apply(rule, x, y) = x \o y.text
  <2>1. rule.kind = "piece"
    BY <1>4 DEF PieceRule
  <2>2. QED BY <2>1 DEF Apply
<1>6. PICK h : IsSetFold(rule, <<>>, p, m, S, h)
  BY <1>2, <1>3, SetFoldExists
<1>7. h = [s \in SUBSET S |-> StepBy(rule, <<>>, p, m, h, s)]
  BY <1>6 DEF IsSetFold
<1>8. \A s \in SUBSET S : StepBy(rule, <<>>, p, m, h, s) =
                             IF s = {} THEN <<>> ELSE h[s \ {Latest(s)}] \o Latest(s).text
  <2>1. \A s \in SUBSET S : s # {} => m[p[s]] = Latest(s)
    BY <1>1, <1>2
  <2>2. \A s \in SUBSET S : p[s] = Latest(s)
    BY <1>1
  <2>3. QED BY <2>1, <2>2, <1>5 DEF StepBy
<1>9. h = [s \in SUBSET S |-> IF s = {} THEN <<>> ELSE h[s \ {Latest(s)}] \o Latest(s).text]
  BY <1>7, <1>8
<1> DEFINE f == CHOOSE g : g = [s \in SUBSET S |->
                                IF s = {} THEN <<>> ELSE g[s \ {Latest(s)}] \o Latest(s).text]
<1>10. f = [s \in SUBSET S |-> IF s = {} THEN <<>> ELSE f[s \ {Latest(s)}] \o Latest(s).text]
  BY <1>9
<1>11. TextOfPieces(S) = f[S]
  BY DEF TextOfPieces, MapThenFoldSet
<1> HIDE DEF f
<1>12. JoinsPieces(S, f)
  BY <1>10 DEF JoinsPieces
<1>13. QED BY <1>11, <1>12

LEMMA PieceFoldsAgree ==
    ASSUME NEW S, ArePieces(S), NEW f, JoinsPieces(S, f), NEW g, JoinsPieces(S, g)
    PROVE  f[S] = g[S]
<1> DEFINE Q == {k \in Nat : \E T \in SUBSET S : Cardinality(T) = k /\ f[T] # g[T]}
<1>1. ASSUME NEW T \in SUBSET S
      PROVE  IsFiniteSet(T) /\ Cardinality(T) \in Nat
  BY FS_Subset, FS_CardinalityType DEF ArePieces
<1>2. Q = {}
  <2>1. SUFFICES ASSUME Q # {} PROVE FALSE
    OBVIOUS
  <2>2. PICK k \in Q : \A j \in Q : k <= j
    BY <2>1, LeastNumber
  <2>3. PICK T \in SUBSET S : Cardinality(T) = k /\ f[T] # g[T]
    BY <2>2
  <2>4. CASE T = {}
    BY <2>3, <2>4 DEF JoinsPieces
  <2>5. CASE T # {}
    <3>1. PICK x : x = Latest(T)
      OBVIOUS
    <3>2. x \in T
      BY <3>1, <2>5, PiecesOfPieces, LatestPiece
    <3>3. f[T] = f[T \ {x}] \o x.text /\ g[T] = g[T \ {x}] \o x.text
      BY <3>1, <2>5 DEF JoinsPieces
    <3>4. f[T \ {x}] # g[T \ {x}]
      BY <3>3, <2>3
    <3>5. Cardinality(T \ {x}) = k - 1
      BY <3>2, <2>3, <1>1, FS_RemoveElement
    <3>6. T \ {x} \in SUBSET S /\ Cardinality(T \ {x}) \in Nat
      BY <1>1
    <3>7. k - 1 \in Q
      BY <3>4, <3>5, <3>6
    <3>8. k \in Nat /\ ~ (k <= k - 1)
      BY <2>2
    <3>9. QED BY <3>7, <3>8, <2>2
  <2>6. QED BY <2>4, <2>5
<1>3. Cardinality(S) \in Nat /\ S \in SUBSET S
  BY <1>1
<1> HIDE DEF Q
<1>4. Cardinality(S) \notin Q
  BY <1>2
<1>5. QED BY <1>3, <1>4 DEF Q

\* A piece that is later than all others ends the text.
LEMMA PiecesGrow ==
    ASSUME NEW S, ArePieces(S), NEW e, e.number \in Nat, \A d \in S : d.number < e.number
    PROVE  /\ ArePieces(S \cup {e})
           /\ TextOfPieces(S \cup {e}) = TextOfPieces(S) \o e.text
<1> DEFINE T == S \cup {e}
<1>1. ArePieces(T)
  <2>1. IsFiniteSet(T)
    BY FS_AddElement DEF ArePieces
  <2>2. QED BY <2>1 DEF ArePieces
<1>2. e \notin S
  OBVIOUS
<1>3. T # {} /\ T \ {e} = S
  BY <1>2
<1> HIDE DEF T
<1>4. Latest(T) = e
  <2>1. Latest(T) \in T /\ \A d \in T : d.number <= Latest(T).number
    BY <1>1, <1>3, LatestPiece
  <2>2. e \in T /\ \A d \in T : d.number \in Nat
    BY <1>1 DEF T, ArePieces
  <2>3. PICK x : x = Latest(T)
    OBVIOUS
  <2>4. x \in T /\ e.number <= x.number
    BY <2>1, <2>2, <2>3
  <2>5. x \notin S
    BY <2>2, <2>4
  <2>6. QED BY <2>3, <2>4, <2>5 DEF T
<1>5. PICK g : JoinsPieces(T, g) /\ TextOfPieces(T) = g[T]
  BY <1>1, PieceFold
<1>6. g[T] = g[S] \o e.text
  BY <1>3, <1>4, <1>5 DEF JoinsPieces
<1>7. JoinsPieces(S, g)
  BY <1>5 DEF JoinsPieces, T
<1>8. PICK f : JoinsPieces(S, f) /\ TextOfPieces(S) = f[S]
  BY PieceFold
<1>9. f[S] = g[S]
  BY <1>7, <1>8, PieceFoldsAgree
<1>10. QED BY <1>1, <1>5, <1>6, <1>8, <1>9 DEF T

LEMMA NoPieces == ArePieces({}) /\ TextOfPieces({}) = <<>>
<1>1. ArePieces({})
  BY FS_EmptySet DEF ArePieces
<1>2. PICK f : JoinsPieces({}, f) /\ TextOfPieces({}) = f[{}]
  BY <1>1, PieceFold
<1>3. QED BY <1>1, <1>2 DEF JoinsPieces

-----------------------------------------------------------------------------
(* What the events of an adapter tell of its items.                         *)

Kinds == {"created", "in_progress", "added", "delta", "text_done", "item_done", "tasks", "custom"}

At(o, i, kind) == {p \in 1..Len(o) : o[p].item = i /\ o[p].kind = kind}

Pieces(o, i) == {o[p] : p \in At(o, i, "delta")}

\* Every event has a number below n, its own and later than that of the events before.
Numbered(o, items, n) ==
    /\ \A p \in 1..Len(o) : /\ o[p].number \in Nat /\ o[p].number < n
                            /\ o[p].item \in 0..Len(items) /\ o[p].kind \in Kinds
    /\ \A p, q \in 1..Len(o) : p < q => o[p].number < o[q].number

InOrder(o) ==
    \A p, q \in 1..Len(o) : o[p].kind = "added" /\ o[q].kind = "added" /\ o[p].item < o[q].item => p < q

Announced(o, i) == \E p \in 1..Len(o) : /\ At(o, i, "added") = {p}
                                     /\ \A q \in 1..Len(o) : o[q].item = i => p <= q

Concluded(o, it, i) ==
    \E d, e \in 1..Len(o) : /\ At(o, i, "text_done") = {d} /\ At(o, i, "item_done") = {e}
                            /\ o[d].text = it.text
                            /\ \A p \in At(o, i, "delta") : p < d

Told(o, it, i) ==
    /\ Announced(o, i)
    /\ it.text = TextOfPieces(Pieces(o, i))
    /\ ~it.done => At(o, i, "text_done") = {} /\ At(o, i, "item_done") = {}
    /\ it.done => Concluded(o, it, i)

Sane(items, o, n) ==
    /\ Numbered(o, items, n)
    /\ InOrder(o)
    /\ \A i \in 1..Len(items) : Told(o, items[i], i)

LEMMA MoreFacts ==
    ASSUME NEW o, IsList(o), NEW e
    PROVE  /\ IsList(Append(o, e)) /\ Len(Append(o, e)) = Len(o) + 1 /\ Len(o) \in Nat
           /\ \A p \in 1..Len(o) : Append(o, e)[p] = o[p]
           /\ Append(o, e)[Len(o) + 1] = e
           /\ \A p \in 1..(Len(o) + 1) : p \in 1..Len(o) \/ p = Len(o) + 1
BY ListFacts, ListWithMore

LEMMA AtMore ==
    ASSUME NEW o, IsList(o), NEW e, NEW i, NEW kind
    PROVE  /\ e.item = i /\ e.kind = kind => At(Append(o, e), i, kind) = At(o, i, kind) \cup {Len(o) + 1}
           /\ ~(e.item = i /\ e.kind = kind) => At(Append(o, e), i, kind) = At(o, i, kind)
<1>1. PICK x : x = Append(o, e)
  OBVIOUS
<1>2. /\ Len(x) = Len(o) + 1 /\ Len(o) \in Nat
      /\ \A p \in 1..Len(o) : x[p] = o[p]
      /\ x[Len(o) + 1] = e
      /\ \A p \in 1..(Len(o) + 1) : p \in 1..Len(o) \/ p = Len(o) + 1
  BY <1>1, MoreFacts
<1>3. \A p \in 1..Len(o) : p \in 1..Len(x) /\ Len(o) + 1 \in 1..Len(x)
  BY <1>2
<1>4. Len(o) + 1 \in 1..Len(x)
  BY <1>2
<1>5. At(x, i, kind) = {p \in 1..Len(o) : o[p].item = i /\ o[p].kind = kind}
                       \cup (IF e.item = i /\ e.kind = kind THEN {Len(o) + 1} ELSE {})
  BY <1>2, <1>3, <1>4 DEF At
<1>6. QED BY <1>1, <1>5 DEF At

LEMMA PiecesMore ==
    ASSUME NEW o, IsList(o), NEW e, NEW i
    PROVE  /\ e.item = i /\ e.kind = "delta" => Pieces(Append(o, e), i) = Pieces(o, i) \cup {e}
           /\ ~(e.item = i /\ e.kind = "delta") => Pieces(Append(o, e), i) = Pieces(o, i)
<1>1. PICK x : x = Append(o, e)
  OBVIOUS
<1>2. /\ \A p \in 1..Len(o) : x[p] = o[p]
      /\ x[Len(o) + 1] = e
  BY <1>1, MoreFacts
<1>3. /\ e.item = i /\ e.kind = "delta" => At(x, i, "delta") = At(o, i, "delta") \cup {Len(o) + 1}
      /\ ~(e.item = i /\ e.kind = "delta") => At(x, i, "delta") = At(o, i, "delta")
  BY <1>1, AtMore
<1>4. At(o, i, "delta") \subseteq 1..Len(o)
  BY DEF At
<1>5. QED BY <1>1, <1>2, <1>3, <1>4 DEF Pieces

LEMMA PiecesAreNumbered ==
    ASSUME NEW o, IsList(o), NEW items, NEW n, Numbered(o, items, n), NEW i
    PROVE  ArePieces(Pieces(o, i)) /\ \A e \in Pieces(o, i) : e.number < n
<1>1. PICK m \in Nat : m = Len(o)
  BY ListFacts
<1>2. IsFiniteSet(At(o, i, "delta"))
  <2>1. IsFiniteSet(1..m) /\ At(o, i, "delta") \subseteq 1..m
    BY <1>1, FS_Interval DEF At
  <2>2. QED BY <2>1, FS_Subset
<1>3. IsFiniteSet(Pieces(o, i))
  <2>1. PICK S : S = At(o, i, "delta")
    OBVIOUS
  <2>2. IsFiniteSet({o[p] : p \in S})
    <3> DEFINE T == {o[p] : p \in S}
               f == [p \in S |-> o[p]]
    <3>1. f \in Surjection(S, T)
      BY DEF Surjection
    <3> HIDE DEF f, T
    <3>2. IsFiniteSet(T)
      BY <1>2, <2>1, <3>1, FS_Surjection
    <3>3. QED BY <3>2 DEF T
  <2>3. QED BY <2>1, <2>2 DEF Pieces
<1>4. ASSUME NEW d \in Pieces(o, i), NEW e \in Pieces(o, i), d.number = e.number
      PROVE  d = e
  <2>1. PICK p, q \in 1..Len(o) : d = o[p] /\ e = o[q]
    BY DEF Pieces, At
  <2>2. ~ (p < q) /\ ~ (q < p)
    <3>1. o[p].number \in Nat /\ o[q].number = o[p].number
      BY <2>1, <1>4 DEF Numbered
    <3>2. (p < q => o[p].number < o[q].number) /\ (q < p => o[q].number < o[p].number)
      BY DEF Numbered
    <3>3. QED BY <3>1, <3>2
  <2>3. p = q
    BY <2>2, <1>1
  <2>4. QED BY <2>1, <2>3
<1>5. \A e \in Pieces(o, i) : e.number \in Nat /\ e.number < n
  BY DEF Pieces, At, Numbered
<1>6. QED BY <1>3, <1>4, <1>5 DEF ArePieces

LEMMA NumberedMore ==
    ASSUME NEW o, IsList(o), NEW items, NEW n \in Nat, Numbered(o, items, n),
           NEW more, IsList(items), IsList(more), Len(items) <= Len(more),
           NEW e, e.number = n, e.item \in 0..Len(more), e.kind \in Kinds
    PROVE  Numbered(Append(o, e), more, n + 1)
<1>1. PICK x : x = Append(o, e)
  OBVIOUS
<1>2. /\ Len(x) = Len(o) + 1 /\ Len(o) \in Nat
      /\ \A p \in 1..Len(o) : x[p] = o[p]
      /\ x[Len(o) + 1] = e
      /\ \A p \in 1..(Len(o) + 1) : p \in 1..Len(o) \/ p = Len(o) + 1
  BY <1>1, MoreFacts
<1>3. ASSUME NEW p \in 1..Len(x)
      PROVE  /\ x[p].number \in Nat /\ x[p].number < n + 1
             /\ x[p].item \in 0..Len(more) /\ x[p].kind \in Kinds
  <2>0. Len(items) \in Nat /\ Len(more) \in Nat
    BY ListFacts
  <2>1. CASE p \in 1..Len(o)
    <3>1. x[p] = o[p] /\ o[p].number \in Nat /\ o[p].number < n
          /\ o[p].item \in 0..Len(items) /\ o[p].kind \in Kinds
      BY <2>1, <1>2 DEF Numbered
    <3>2. QED BY <3>1, <2>0
  <2>2. CASE p = Len(o) + 1
    <3>1. x[p] = e
      BY <2>2, <1>2
    <3>2. QED BY <3>1
  <2>3. QED BY <1>2, <2>1, <2>2
<1>4. ASSUME NEW p \in 1..Len(x), NEW q \in 1..Len(x), p < q
      PROVE  x[p].number < x[q].number
  <2>1. p \in 1..Len(o)
    BY <1>2, <1>4
  <2>2. x[p] = o[p] /\ o[p].number < n
    BY <2>1, <1>2 DEF Numbered
  <2>3. CASE q \in 1..Len(o)
    BY <2>1, <2>3, <1>2, <1>4 DEF Numbered
  <2>4. CASE q = Len(o) + 1
    BY <2>2, <2>4, <1>2
  <2>5. QED BY <1>2, <2>3, <2>4
<1>5. QED BY <1>1, <1>3, <1>4 DEF Numbered

LEMMA InOrderMore ==
    ASSUME NEW o, IsList(o), InOrder(o), NEW e,
           e.kind = "added" => \A p \in 1..Len(o) : o[p].kind = "added" => ~ (e.item < o[p].item)
    PROVE  e.item \in Nat => InOrder(Append(o, e))
<1>0. SUFFICES ASSUME e.item \in Nat PROVE InOrder(Append(o, e))
  OBVIOUS
<1>1. PICK x : x = Append(o, e)
  OBVIOUS
<1>2. /\ Len(x) = Len(o) + 1 /\ Len(o) \in Nat
      /\ \A p \in 1..Len(o) : x[p] = o[p]
      /\ x[Len(o) + 1] = e
      /\ \A p \in 1..(Len(o) + 1) : p \in 1..Len(o) \/ p = Len(o) + 1
  BY <1>1, MoreFacts
<1>3. ASSUME NEW p \in 1..Len(x), NEW q \in 1..Len(x),
             x[p].kind = "added", x[q].kind = "added", x[p].item < x[q].item
      PROVE  p < q
  <2>1. CASE p \in 1..Len(o) /\ q \in 1..Len(o)
    <3>1. x[p] = o[p] /\ x[q] = o[q]
      BY <2>1, <1>2
    <3>2. QED BY <3>1, <2>1, <1>3 DEF InOrder
  <2>2. CASE p = Len(o) + 1 /\ q \in 1..Len(o)
    <3>1. x[p] = e /\ x[q] = o[q]
      BY <2>2, <1>2
    <3>2. QED BY <3>1, <2>2, <1>3
  <2>3. CASE q = Len(o) + 1 /\ p \in 1..Len(o)
    BY <2>3, <1>2
  <2>4. CASE p = Len(o) + 1 /\ q = Len(o) + 1
    <3>1. e.item < e.item
      BY <2>4, <1>2, <1>3
    <3>2. QED BY <3>1, <1>0
  <2>5. QED BY <1>2, <2>1, <2>2, <2>3, <2>4
<1>4. QED BY <1>1, <1>3 DEF InOrder

\* An event of another item tells nothing of this one.
LEMMA ToldAsBefore ==
    ASSUME NEW o, IsList(o), NEW it, NEW i, Told(o, it, i), NEW e, e.item # i
    PROVE  Told(Append(o, e), it, i)
<1>1. PICK x : x = Append(o, e)
  OBVIOUS
<1>2. /\ Len(x) = Len(o) + 1 /\ Len(o) \in Nat
      /\ \A p \in 1..Len(o) : x[p] = o[p]
      /\ x[Len(o) + 1] = e
      /\ \A p \in 1..(Len(o) + 1) : p \in 1..Len(o) \/ p = Len(o) + 1
  BY <1>1, MoreFacts
<1>3. \A kind : At(x, i, kind) = At(o, i, kind)
  BY <1>1, AtMore
<1>4. Pieces(x, i) = Pieces(o, i)
  BY <1>1, PiecesMore
<1>5. \A p \in 1..Len(o) : p \in 1..Len(x)
  BY <1>2
<1>6. Announced(x, i)
  <2>1. PICK p \in 1..Len(o) : /\ At(o, i, "added") = {p}
                               /\ \A q \in 1..Len(o) : o[q].item = i => p <= q
    BY DEF Told, Announced
  <2>2. ASSUME NEW q \in 1..Len(x), x[q].item = i
        PROVE  p <= q
    BY <2>1, <2>2, <1>2
  <2>3. QED BY <2>1, <2>2, <1>3, <1>5 DEF Announced
<1>7. it.done => Concluded(x, it, i)
  <2>1. SUFFICES ASSUME it.done PROVE Concluded(x, it, i)
    OBVIOUS
  <2>2. PICK d, f \in 1..Len(o) : /\ At(o, i, "text_done") = {d} /\ At(o, i, "item_done") = {f}
                                  /\ o[d].text = it.text
                                  /\ \A p \in At(o, i, "delta") : p < d
    BY <2>1 DEF Told, Concluded
  <2>3. x[d].text = it.text
    BY <2>2, <1>2
  <2>4. QED BY <2>2, <2>3, <1>3, <1>5 DEF Concluded
<1>8. QED BY <1>1, <1>3, <1>4, <1>6, <1>7 DEF Told

\* An event that is about no item.
LEMMA SaneWithEvent ==
    ASSUME NEW items, IsList(items), NEW o, IsList(o), NEW n \in Nat, Sane(items, o, n),
           NEW e, e.number = n, e.item = 0, e.kind \in Kinds, e.kind # "added"
    PROVE  Sane(items, Append(o, e), n + 1)
<1>0. Len(items) \in Nat
  BY ListFacts
<1>1. Numbered(Append(o, e), items, n + 1)
  <2>1. Len(items) <= Len(items) /\ e.item \in 0..Len(items) /\ Numbered(o, items, n)
    BY <1>0 DEF Sane
  <2>2. QED BY <2>1, NumberedMore
<1>2. InOrder(Append(o, e))
  <2>1. InOrder(o) /\ e.item \in Nat
    BY DEF Sane
  <2>2. QED BY <2>1, InOrderMore
<1>3. ASSUME NEW i \in 1..Len(items)
      PROVE  Told(Append(o, e), items[i], i)
  <2>1. e.item # i /\ Told(o, items[i], i)
    BY DEF Sane
  <2>2. QED BY <2>1, ToldAsBefore
<1>4. QED BY <1>1, <1>2, <1>3 DEF Sane

LEMMA SaneLater ==
    ASSUME NEW items, NEW o, NEW n \in Nat, Sane(items, o, n), NEW m \in Nat, n <= m
    PROVE  Sane(items, o, m)
<1>1. ASSUME NEW p \in 1..Len(o)
      PROVE  o[p].number < m
  <2>1. o[p].number \in Nat /\ o[p].number < n
    BY DEF Sane, Numbered
  <2>2. QED BY <2>1
<1>2. Numbered(o, items, m)
  BY <1>1 DEF Sane, Numbered
<1>3. QED BY <1>2 DEF Sane

\* An item that is opened.
LEMMA SaneWithItem ==
    ASSUME NEW items, IsList(items), NEW o, IsList(o), NEW n \in Nat, Sane(items, o, n),
           NEW it, it.text = <<>>, it.done = FALSE,
           NEW e, e.number = n, e.item = Len(items) + 1, e.kind = "added"
    PROVE  Sane(Append(items, it), Append(o, e), n + 1)
<1>0. PICK more, x, i : more = Append(items, it) /\ x = Append(o, e) /\ i = Len(items) + 1
  OBVIOUS
<1>1. /\ IsList(more) /\ Len(more) = Len(items) + 1 /\ Len(items) \in Nat
      /\ \A j \in 1..Len(items) : more[j] = items[j]
      /\ more[Len(items) + 1] = it
      /\ \A j \in 1..(Len(items) + 1) : j \in 1..Len(items) \/ j = Len(items) + 1
  BY <1>0, MoreFacts
<1>2. /\ Len(x) = Len(o) + 1 /\ Len(o) \in Nat
      /\ \A p \in 1..Len(o) : x[p] = o[p]
      /\ x[Len(o) + 1] = e
      /\ \A p \in 1..(Len(o) + 1) : p \in 1..Len(o) \/ p = Len(o) + 1
  BY <1>0, MoreFacts
<1>3. Numbered(x, more, n + 1)
  <2>1. Len(items) <= Len(more) /\ e.item \in 0..Len(more) /\ e.kind \in Kinds /\ Numbered(o, items, n)
    BY <1>1 DEF Sane, Kinds
  <2>2. QED BY <2>1, <1>0, <1>1, NumberedMore
<1>4. \A p \in 1..Len(o) : o[p].item \in 0..Len(items)
  BY DEF Sane, Numbered
<1>5. InOrder(x)
  <2>1. \A p \in 1..Len(o) : ~ (e.item < o[p].item)
    BY <1>1, <1>4
  <2>2. InOrder(o) /\ e.item \in Nat
    BY <1>1 DEF Sane
  <2>3. QED BY <2>1, <2>2, <1>0, InOrderMore
<1>6. \A kind : At(o, i, kind) = {}
  <2>1. \A p \in 1..Len(o) : o[p].item # i
    BY <1>0, <1>1, <1>4
  <2>2. QED BY <2>1 DEF At
<1>7. Told(x, it, i)
  <2>1. At(x, i, "added") = {Len(o) + 1}
    <3>1. e.item = i
      BY <1>0
    <3>2. At(x, i, "added") = At(o, i, "added") \cup {Len(o) + 1}
      BY <3>1, <1>0, AtMore
    <3>3. QED BY <3>2, <1>6
  <2>2. At(x, i, "text_done") = {} /\ At(x, i, "item_done") = {} /\ At(x, i, "delta") = {}
    <3>1. e.kind # "text_done" /\ e.kind # "item_done" /\ e.kind # "delta"
      OBVIOUS
    <3>2. QED BY <3>1, <1>0, <1>6, AtMore
  <2>3. Pieces(x, i) = {}
    BY <2>2 DEF Pieces
  <2>4. Announced(x, i)
    <3>1. Len(o) + 1 \in 1..Len(x)
      BY <1>2
    <3>2. ASSUME NEW q \in 1..Len(x), x[q].item = i
          PROVE  Len(o) + 1 <= q
      <4>1. CASE q \in 1..Len(o)
        BY <4>1, <3>2, <1>0, <1>1, <1>2, <1>4
      <4>2. CASE q = Len(o) + 1
        BY <4>2, <1>2
      <4>3. QED BY <4>1, <4>2, <1>2
    <3>3. QED BY <3>1, <3>2, <2>1 DEF Announced
  <2>5. it.text = TextOfPieces(Pieces(x, i))
    BY <2>3, NoPieces
  <2>6. QED BY <2>2, <2>4, <2>5 DEF Told
<1>8. ASSUME NEW j \in 1..Len(more)
      PROVE  Told(x, more[j], j)
  <2>1. CASE j \in 1..Len(items)
    <3>1. more[j] = items[j] /\ e.item # j
      BY <2>1, <1>1
    <3>2. Told(o, items[j], j)
      BY <2>1 DEF Sane
    <3>3. QED BY <3>1, <3>2, <1>0, ToldAsBefore
  <2>2. CASE j = i
    BY <2>2, <1>0, <1>1, <1>7
  <2>3. QED BY <1>0, <1>1, <2>1, <2>2
<1>9. QED BY <1>0, <1>3, <1>5, <1>8 DEF Sane

\* An item that is replaced by one of which the same is told.
LEMMA SaneWithOther ==
    ASSUME NEW items, IsList(items), NEW o, NEW n, Sane(items, o, n),
           NEW i \in 1..Len(items), NEW it, it.text = items[i].text, it.done = items[i].done
    PROVE  Sane(Replaced(items, i, it), o, n)
<1>1. PICK x : x = Replaced(items, i, it)
  OBVIOUS
<1>2. /\ IsList(x) /\ Len(x) = Len(items)
      /\ x[i] = it /\ \A j \in 1..Len(items) : j # i => x[j] = items[j]
  BY <1>1, ReplacedItem
<1>3. Numbered(o, x, n)
  BY <1>2 DEF Sane, Numbered
<1>4. Told(o, it, i)
  BY DEF Sane, Told, Concluded
<1>5. \A j \in 1..Len(x) : Told(o, x[j], j)
  BY <1>2, <1>4 DEF Sane
<1>6. QED BY <1>1, <1>3, <1>5 DEF Sane

\* A piece more of an item that has not ended.
LEMMA SaneWithPiece ==
    ASSUME NEW items, IsList(items), NEW o, IsList(o), NEW n \in Nat, Sane(items, o, n),
           NEW i \in 1..Len(items), ~items[i].done,
           NEW it, it.done = FALSE,
           NEW e, e.number = n, e.item = i, e.kind = "delta", it.text = items[i].text \o e.text
    PROVE  Sane(Replaced(items, i, it), Append(o, e), n + 1)
<1>0. PICK y, x : y = Replaced(items, i, it) /\ x = Append(o, e)
  OBVIOUS
<1>1. /\ IsList(y) /\ Len(y) = Len(items)
      /\ y[i] = it /\ \A j \in 1..Len(items) : j # i => y[j] = items[j]
  BY <1>0, ReplacedItem
<1>2. /\ Len(x) = Len(o) + 1 /\ Len(o) \in Nat
      /\ \A p \in 1..Len(o) : x[p] = o[p]
      /\ x[Len(o) + 1] = e
      /\ \A p \in 1..(Len(o) + 1) : p \in 1..Len(o) \/ p = Len(o) + 1
  BY <1>0, MoreFacts
<1>3. Numbered(o, items, n) /\ InOrder(o) /\ Told(o, items[i], i) /\ Len(items) \in Nat
  BY ListFacts DEF Sane
<1>4. Numbered(x, y, n + 1)
  <2>1. Len(items) <= Len(y) /\ e.item \in 0..Len(y) /\ e.kind \in Kinds
    BY <1>1, <1>3 DEF Kinds
  <2>2. QED BY <2>1, <1>0, <1>1, <1>3, NumberedMore
<1>5. InOrder(x)
  <2>1. e.kind # "added" /\ e.item \in Nat
    OBVIOUS
  <2>2. QED BY <2>1, <1>0, <1>3, InOrderMore
<1>6. Told(x, it, i)
  <2>1. \A kind : kind # "delta" => At(x, i, kind) = At(o, i, kind)
    BY <1>0, AtMore
  <2>2. At(x, i, "text_done") = {} /\ At(x, i, "item_done") = {} /\ At(x, i, "added") = At(o, i, "added")
    <3>1. At(o, i, "text_done") = {} /\ At(o, i, "item_done") = {}
      BY <1>3 DEF Told
    <3>2. QED BY <3>1, <2>1
  <2>3. Announced(x, i)
    <3>1. PICK p \in 1..Len(o) : /\ At(o, i, "added") = {p}
                                 /\ \A q \in 1..Len(o) : o[q].item = i => p <= q
      BY <1>3 DEF Told, Announced
    <3>2. ASSUME NEW q \in 1..Len(x), x[q].item = i
          PROVE  p <= q
      BY <3>1, <3>2, <1>2
    <3>3. p \in 1..Len(x)
      BY <1>2
    <3>4. QED BY <3>1, <3>2, <3>3, <2>2 DEF Announced
  <2>4. Pieces(x, i) = Pieces(o, i) \cup {e}
    <3>1. e.item = i /\ e.kind = "delta"
      OBVIOUS
    <3>2. QED BY <3>1, <1>0, PiecesMore
  <2>5. ArePieces(Pieces(o, i)) /\ \A d \in Pieces(o, i) : d.number < e.number
    BY <1>3, PiecesAreNumbered
  <2>6. TextOfPieces(Pieces(o, i) \cup {e}) = TextOfPieces(Pieces(o, i)) \o e.text
    BY <2>5, PiecesGrow
  <2>7. items[i].text = TextOfPieces(Pieces(o, i))
    BY <1>3 DEF Told
  <2>8. it.text = TextOfPieces(Pieces(x, i))
    BY <2>4, <2>6, <2>7
  <2>9. QED BY <2>2, <2>3, <2>8 DEF Told
<1>7. ASSUME NEW j \in 1..Len(y)
      PROVE  Told(x, y[j], j)
  <2>1. CASE j # i
    <3>1. y[j] = items[j] /\ e.item # j /\ Told(o, items[j], j)
      BY <2>1, <1>1 DEF Sane
    <3>2. QED BY <3>1, <1>0, ToldAsBefore
  <2>2. CASE j = i
    BY <2>2, <1>1, <1>6
  <2>3. QED BY <2>1, <2>2
<1>8. QED BY <1>0, <1>4, <1>5, <1>7 DEF Sane

\* An item that ends.
LEMMA SaneWithEnd ==
    ASSUME NEW items, IsList(items), NEW o, IsList(o), NEW n \in Nat, Sane(items, o, n),
           NEW i \in 1..Len(items), ~items[i].done,
           NEW it, it.done = TRUE, it.text = items[i].text,
           NEW e, e.number = n, e.item = i, e.kind = "text_done", e.text = it.text,
           NEW f, f.number = n + 1, f.item = i, f.kind = "item_done"
    PROVE  Sane(Replaced(items, i, it), Append(Append(o, e), f), n + 2)
<1>0. PICK y, x, z : y = Replaced(items, i, it) /\ x = Append(o, e) /\ z = Append(x, f)
  OBVIOUS
<1>1. /\ IsList(y) /\ Len(y) = Len(items)
      /\ y[i] = it /\ \A j \in 1..Len(items) : j # i => y[j] = items[j]
  BY <1>0, ReplacedItem
<1>2. /\ IsList(x) /\ Len(x) = Len(o) + 1 /\ Len(o) \in Nat
      /\ \A p \in 1..Len(o) : x[p] = o[p]
      /\ x[Len(o) + 1] = e
      /\ \A p \in 1..(Len(o) + 1) : p \in 1..Len(o) \/ p = Len(o) + 1
  BY <1>0, MoreFacts
<1>3. /\ Len(z) = Len(x) + 1
      /\ \A p \in 1..Len(x) : z[p] = x[p]
      /\ z[Len(x) + 1] = f
      /\ \A p \in 1..(Len(x) + 1) : p \in 1..Len(x) \/ p = Len(x) + 1
  BY <1>0, <1>2, MoreFacts
<1>4. Numbered(o, items, n) /\ InOrder(o) /\ Told(o, items[i], i) /\ Len(items) \in Nat
  BY ListFacts DEF Sane
<1>5. Numbered(z, y, n + 2)
  <2>1. Len(items) <= Len(y) /\ e.item \in 0..Len(y) /\ e.kind \in Kinds
        /\ f.item \in 0..Len(y) /\ f.kind \in Kinds /\ Len(y) <= Len(y) /\ n + 1 \in Nat
    BY <1>1, <1>4 DEF Kinds
  <2>2. Numbered(x, y, n + 1)
    BY <2>1, <1>0, <1>1, <1>4, NumberedMore
  <2>3. Numbered(z, y, (n + 1) + 1)
    BY <2>1, <2>2, <1>0, <1>1, <1>2, NumberedMore
  <2>4. (n + 1) + 1 = n + 2
    OBVIOUS
  <2>5. QED BY <2>3, <2>4
<1>6. InOrder(z)
  <2>1. e.kind # "added" /\ e.item \in Nat /\ f.kind # "added" /\ f.item \in Nat
    OBVIOUS
  <2>2. InOrder(x)
    BY <2>1, <1>0, <1>4, InOrderMore
  <2>3. QED BY <2>1, <2>2, <1>0, <1>2, InOrderMore
<1>7. Told(z, it, i)
  <2>1. At(o, i, "text_done") = {} /\ At(o, i, "item_done") = {}
    BY <1>4 DEF Told
  <2>2. /\ At(x, i, "text_done") = {Len(o) + 1} /\ At(x, i, "item_done") = {}
        /\ At(x, i, "added") = At(o, i, "added") /\ At(x, i, "delta") = At(o, i, "delta")
    <3>1. e.kind # "item_done" /\ e.kind # "added" /\ e.kind # "delta"
      OBVIOUS
    <3>2. At(x, i, "text_done") = At(o, i, "text_done") \cup {Len(o) + 1}
      <4>1. e.item = i /\ e.kind = "text_done"
        OBVIOUS
      <4>2. QED BY <4>1, <1>0, AtMore
    <3>3. /\ At(x, i, "item_done") = At(o, i, "item_done")
          /\ At(x, i, "added") = At(o, i, "added") /\ At(x, i, "delta") = At(o, i, "delta")
      BY <3>1, <1>0, AtMore
    <3>4. QED BY <3>2, <3>3, <2>1
  <2>3. /\ At(z, i, "text_done") = {Len(o) + 1} /\ At(z, i, "item_done") = {Len(o) + 2}
        /\ At(z, i, "added") = At(o, i, "added") /\ At(z, i, "delta") = At(o, i, "delta")
    <3>1. f.kind # "text_done" /\ f.kind # "added" /\ f.kind # "delta"
      OBVIOUS
    <3>2. Len(x) + 1 = Len(o) + 2
      BY <1>2
    <3>3. At(z, i, "item_done") = At(x, i, "item_done") \cup {Len(x) + 1}
      <4>1. f.item = i /\ f.kind = "item_done"
        OBVIOUS
      <4>2. z = Append(x, f) /\ IsList(x)
        BY <1>0, <1>2
      <4>3. At(Append(x, f), i, "item_done") = At(x, i, "item_done") \cup {Len(x) + 1}
        BY <4>1, <4>2, AtMore
      <4>4. QED BY <4>2, <4>3
    <3>4. /\ At(z, i, "text_done") = At(x, i, "text_done")
          /\ At(z, i, "added") = At(x, i, "added") /\ At(z, i, "delta") = At(x, i, "delta")
      BY <3>1, <1>0, <1>2, AtMore
    <3>5. QED BY <3>2, <3>3, <3>4, <2>2
  <2>4. Announced(z, i)
    <3>1. PICK p \in 1..Len(o) : /\ At(o, i, "added") = {p}
                                 /\ \A q \in 1..Len(o) : o[q].item = i => p <= q
      BY <1>4 DEF Told, Announced
    <3>2. ASSUME NEW q \in 1..Len(z), z[q].item = i
          PROVE  p <= q
      <4>1. CASE q \in 1..Len(o)
        <5>1. q \in 1..Len(x)
          BY <4>1, <1>2
        <5>2. z[q] = o[q]
          BY <4>1, <5>1, <1>2, <1>3
        <5>3. QED BY <5>2, <4>1, <3>1, <3>2
      <4>2. CASE ~ (q \in 1..Len(o))
        BY <4>2, <1>2, <1>3
      <4>3. QED BY <4>1, <4>2
    <3>3. p \in 1..Len(z)
      BY <1>2, <1>3
    <3>4. QED BY <3>1, <3>2, <3>3, <2>3 DEF Announced
  <2>5. Pieces(z, i) = Pieces(o, i)
    <3>1. e.kind # "delta" /\ f.kind # "delta"
      OBVIOUS
    <3>2. Pieces(x, i) = Pieces(o, i)
      BY <3>1, <1>0, PiecesMore
    <3>3. Pieces(z, i) = Pieces(x, i)
      BY <3>1, <1>0, <1>2, PiecesMore
    <3>4. QED BY <3>2, <3>3
  <2>6. Concluded(z, it, i)
    <3>1. Len(o) + 1 \in 1..Len(z) /\ Len(o) + 2 \in 1..Len(z) /\ Len(o) + 1 \in 1..Len(x)
      BY <1>2, <1>3
    <3>2. z[Len(o) + 1] = e
      BY <3>1, <1>2, <1>3
    <3>3. \A p \in At(z, i, "delta") : p < Len(o) + 1
      <4>1. At(o, i, "delta") \subseteq 1..Len(o)
        BY DEF At
      <4>2. QED BY <4>1, <2>3, <1>2
    <3>4. z[Len(o) + 1].text = it.text
      BY <3>2
    <3>5. QED BY <3>1, <3>3, <3>4, <2>3 DEF Concluded
  <2>7. it.text = TextOfPieces(Pieces(z, i))
    <3>1. items[i].text = TextOfPieces(Pieces(o, i))
      BY <1>4 DEF Told
    <3>2. QED BY <3>1, <2>5
  <2>8. QED BY <2>4, <2>6, <2>7 DEF Told
<1>8. ASSUME NEW j \in 1..Len(y)
      PROVE  Told(z, y[j], j)
  <2>1. CASE j # i
    <3>1. y[j] = items[j] /\ e.item # j /\ f.item # j /\ Told(o, items[j], j)
      BY <2>1, <1>1 DEF Sane
    <3>2. Told(x, items[j], j)
      BY <3>1, <1>0, ToldAsBefore
    <3>3. Told(z, items[j], j)
      BY <3>1, <3>2, <1>0, <1>2, ToldAsBefore
    <3>4. QED BY <3>1, <3>3
  <2>2. CASE j = i
    BY <2>2, <1>1, <1>7
  <2>3. QED BY <2>1, <2>2
<1>9. QED BY <1>0, <1>5, <1>6, <1>8 DEF Sane

-----------------------------------------------------------------------------
(* One adapter that follows another: it has put out w before, and is the    *)
(* same otherwise; and what it has put out tells its items.                 *)

Good(b) == b.started = TRUE /\ b.ended = FALSE /\ Sane(b.items, b.out, b.number)

Follows(a, b, w) == Twin(a, b, w) /\ Good(b)

LEMMA FollowsEmit ==
    ASSUME NEW a, NEW b, NEW w, Follows(a, b, w), NEW kind, kind \in Kinds, kind # "added", NEW text
    PROVE  Follows(Emit(a, kind, 0, text), Emit(b, kind, 0, text), w)
<1>1. PICK d, e : d = Emit(b, kind, 0, text)
                  /\ e = [kind |-> kind, item |-> 0, text |-> text, number |-> b.number]
  OBVIOUS
<1>2. IsAdapter(b) /\ Good(b) /\ Twin(a, b, w)
  BY DEF Follows, Twin
<1>3. /\ d.items = b.items /\ d.number = b.number + 1
      /\ d.started = b.started /\ d.ended = b.ended /\ d.out = Append(b.out, e)
  BY <1>1, <1>2, EmitFacts
<1>4. IsList(b.items) /\ IsList(b.out) /\ b.number \in Nat /\ Sane(b.items, b.out, b.number)
  BY <1>2 DEF IsAdapter, Good
<1>5. e.number = b.number /\ e.item = 0 /\ e.kind \in Kinds /\ e.kind # "added"
  BY <1>1
<1>6. Sane(b.items, Append(b.out, e), b.number + 1)
  BY <1>4, <1>5, SaneWithEvent
<1>7. Good(d)
  BY <1>2, <1>3, <1>6 DEF Good
<1>8. Twin(Emit(a, kind, 0, text), Emit(b, kind, 0, text), w)
  BY <1>2, EmitTwins
<1>9. QED BY <1>1, <1>7, <1>8 DEF Follows

\* Another value for what the events do not tell.
LEMMA OtherParts ==
    ASSUME NEW a, IsAdapter(a), NEW x
    PROVE  LET b == [a EXCEPT !.active = x]
               d == [a EXCEPT !.count = x]
           IN  /\ IsAdapter(b)
               /\ b.items = a.items /\ b.active = x /\ b.count = a.count /\ b.number = a.number
               /\ b.started = a.started /\ b.ended = a.ended /\ b.out = a.out
               /\ IsAdapter(d)
               /\ d.items = a.items /\ d.active = a.active /\ d.count = x /\ d.number = a.number
               /\ d.started = a.started /\ d.ended = a.ended /\ d.out = a.out
<1>1. PICK b, d : b = [a EXCEPT !.active = x] /\ d = [a EXCEPT !.count = x]
  OBVIOUS
<1>2. /\ b = Adapter(a.items, x, a.count, a.number, a.started, a.ended, a.out)
      /\ d = Adapter(a.items, a.active, x, a.number, a.started, a.ended, a.out)
  <2>1. \A v1, v2, v3, v4, v5, v6, v7 :
           /\ [Adapter(v1, v2, v3, v4, v5, v6, v7) EXCEPT !.active = x] = Adapter(v1, x, v3, v4, v5, v6, v7)
           /\ [Adapter(v1, v2, v3, v4, v5, v6, v7) EXCEPT !.count = x] = Adapter(v1, v2, x, v4, v5, v6, v7)
    BY DEF Adapter
  <2>2. QED BY <1>1, <2>1 DEF IsAdapter
<1>3. /\ b.items = a.items /\ b.active = x /\ b.count = a.count /\ b.number = a.number
      /\ b.started = a.started /\ b.ended = a.ended /\ b.out = a.out
      /\ d.items = a.items /\ d.active = a.active /\ d.count = x /\ d.number = a.number
      /\ d.started = a.started /\ d.ended = a.ended /\ d.out = a.out
  BY <1>2 DEF Adapter
<1>4. IsAdapter(b)
  <2>1. b = Adapter(b.items, b.active, b.count, b.number, b.started, b.ended, b.out)
    BY <1>2, <1>3
  <2>2. QED BY <2>1, <1>3 DEF IsAdapter
<1>5. IsAdapter(d)
  <2>1. d = Adapter(d.items, d.active, d.count, d.number, d.started, d.ended, d.out)
    BY <1>2, <1>3
  <2>2. QED BY <2>1, <1>3 DEF IsAdapter
<1>6. QED BY <1>1, <1>3, <1>4, <1>5

LEMMA FollowsActive ==
    ASSUME NEW a, NEW b, NEW w, Follows(a, b, w), NEW x
    PROVE  Follows([a EXCEPT !.active = x], [b EXCEPT !.active = x], w)
<1>1. PICK c, d : c = [a EXCEPT !.active = x] /\ d = [b EXCEPT !.active = x]
  OBVIOUS
<1>2. IsAdapter(a) /\ IsAdapter(b)
  BY DEF Follows, Twin
<1>3. /\ IsAdapter(c) /\ IsAdapter(d)
      /\ c.items = a.items /\ c.active = x /\ c.count = a.count /\ c.number = a.number
      /\ c.started = a.started /\ c.ended = a.ended /\ c.out = a.out
      /\ d.items = b.items /\ d.active = x /\ d.count = b.count /\ d.number = b.number
      /\ d.started = b.started /\ d.ended = b.ended /\ d.out = b.out
  BY <1>1, <1>2, OtherParts
<1>4. Twin(c, d, w) /\ Good(d)
  BY <1>3 DEF Follows, Twin, Good
<1>5. QED BY <1>1, <1>4 DEF Follows

LEMMA FollowsCount ==
    ASSUME NEW a, NEW b, NEW w, Follows(a, b, w), NEW x
    PROVE  Follows([a EXCEPT !.count = x], [b EXCEPT !.count = x], w)
<1>1. PICK c, d : c = [a EXCEPT !.count = x] /\ d = [b EXCEPT !.count = x]
  OBVIOUS
<1>2. IsAdapter(a) /\ IsAdapter(b)
  BY DEF Follows, Twin
<1>3. /\ IsAdapter(c) /\ IsAdapter(d)
      /\ c.items = a.items /\ c.active = a.active /\ c.count = x /\ c.number = a.number
      /\ c.started = a.started /\ c.ended = a.ended /\ c.out = a.out
      /\ d.items = b.items /\ d.active = b.active /\ d.count = x /\ d.number = b.number
      /\ d.started = b.started /\ d.ended = b.ended /\ d.out = b.out
  BY <1>1, <1>2, OtherParts
<1>4. Twin(c, d, w) /\ Good(d)
  BY <1>3 DEF Follows, Twin, Good
<1>5. QED BY <1>1, <1>4 DEF Follows

LEMMA FollowsNumber ==
    ASSUME NEW a, NEW b, NEW w, Follows(a, b, w), NEW n \in Nat, b.number <= n
    PROVE  Follows([a EXCEPT !.number = n], [b EXCEPT !.number = n], w)
<1>1. PICK c, d : c = [a EXCEPT !.number = n] /\ d = [b EXCEPT !.number = n]
  OBVIOUS
<1>2. IsAdapter(a) /\ IsAdapter(b)
  BY DEF Follows, Twin
<1>3. /\ c = Adapter(a.items, a.active, a.count, n, a.started, a.ended, a.out)
      /\ d = Adapter(b.items, b.active, b.count, n, b.started, b.ended, b.out)
  BY <1>1, <1>2, AdapterChanges DEF IsAdapter
<1>4. /\ c.items = a.items /\ c.active = a.active /\ c.count = a.count /\ c.number = n
      /\ c.started = a.started /\ c.ended = a.ended /\ c.out = a.out
      /\ d.items = b.items /\ d.active = b.active /\ d.count = b.count /\ d.number = n
      /\ d.started = b.started /\ d.ended = b.ended /\ d.out = b.out
  BY <1>3 DEF Adapter
<1>5. IsAdapter(c) /\ IsAdapter(d)
  <2>1. /\ c = Adapter(c.items, c.active, c.count, c.number, c.started, c.ended, c.out)
        /\ d = Adapter(d.items, d.active, d.count, d.number, d.started, d.ended, d.out)
    BY <1>3, <1>4
  <2>2. QED BY <2>1, <1>2, <1>4 DEF IsAdapter
<1>6. Sane(b.items, b.out, n)
  <2>1. b.number \in Nat /\ Sane(b.items, b.out, b.number)
    BY DEF Follows, Twin, IsAdapter, Good
  <2>2. QED BY <2>1, SaneLater
<1>7. Twin(c, d, w) /\ Good(d)
  BY <1>4, <1>5, <1>6 DEF Follows, Twin, Good
<1>8. QED BY <1>1, <1>7 DEF Follows

LEMMA FollowsSource ==
    ASSUME NEW a, NEW b, NEW w, Follows(a, b, w), NEW seq \in Nat
    PROVE  Follows(SetSource(a, seq), SetSource(b, seq), w)
<1>1. a.number = b.number /\ b.number \in Nat
  BY DEF Follows, Twin, IsAdapter
<1>2. PICK m \in Nat : m = seq * Multiplier
  BY ConstantsAssumption
<1>3. PICK n : n = Max({b.number, m})
  OBVIOUS
<1>4. n \in Nat /\ b.number <= n
  <2>1. {b.number, m} \in SUBSET Nat /\ {b.number, m} # {}
    BY <1>1
  <2>2. n \in {b.number, m} /\ \A y \in {b.number, m} : y <= n
    <3>1. PICK T : T = {b.number, m}
      OBVIOUS
    <3>2. \E x \in T : \A y \in T : x >= y
      BY <3>1, <1>1
    <3>3. Max(T) \in T /\ \A y \in T : Max(T) >= y
      BY <3>2 DEF Max
    <3>4. \A y \in T : y \in Nat
      BY <3>1, <1>1
    <3>5. QED BY <3>1, <3>3, <3>4, <1>3
  <2>3. QED BY <2>1, <2>2
<1>5. SetSource(a, seq) = [a EXCEPT !.number = n] /\ SetSource(b, seq) = [b EXCEPT !.number = n]
  BY <1>1, <1>2, <1>3 DEF SetSource
<1>6. Follows([a EXCEPT !.number = n], [b EXCEPT !.number = n], w)
  BY <1>4, FollowsNumber
<1>7. QED BY <1>5, <1>6

-----------------------------------------------------------------------------
(* The changes of items.                                                    *)

LEMMA FollowsOpen ==
    ASSUME NEW a, NEW b, NEW w, Follows(a, b, w), NEW key, NEW tool, NEW call
    PROVE  Follows(Open(a, key, tool, call), Open(b, key, tool, call), w)
<1>1. PICK it, x, n : /\ it = [key |-> key, tool |-> tool, call |-> call, text |-> <<>>, done |-> FALSE]
                      /\ x = Append(b.items, it) /\ n = Len(b.items) + 1
  OBVIOUS
<1>2. /\ Twin(a, b, w) /\ IsAdapter(a) /\ IsAdapter(b) /\ Good(b) /\ a.items = b.items
      /\ IsList(b.items) /\ IsList(b.out) /\ b.number \in Nat /\ Sane(b.items, b.out, b.number)
      /\ \A i \in 1..Len(b.items) : IsItem(b.items[i])
  BY DEF Follows, Twin, IsAdapter, Good
<1>3. IsItem(it) /\ it.text = <<>> /\ it.done = FALSE
  BY <1>1 DEF IsItem, Item
<1>4. IsList(x) /\ \A i \in 1..Len(x) : IsItem(x[i])
  <2>1. /\ IsList(x) /\ Len(x) = Len(b.items) + 1
        /\ \A i \in 1..Len(b.items) : x[i] = b.items[i]
        /\ x[Len(b.items) + 1] = it
        /\ \A i \in 1..(Len(b.items) + 1) : i \in 1..Len(b.items) \/ i = Len(b.items) + 1
    BY <1>1, <1>2, MoreFacts
  <2>2. QED BY <2>1, <1>2, <1>3
<1>5. PICK c, d : c = [a EXCEPT !.items = x] /\ d = [b EXCEPT !.items = x]
  OBVIOUS
<1>6. Twin(c, d, w)
  BY <1>2, <1>4, <1>5, ItemsTwins
<1>7. /\ IsAdapter(d) /\ d.items = x /\ d.number = b.number
      /\ d.started = b.started /\ d.ended = b.ended /\ d.out = b.out
  BY <1>2, <1>4, <1>5, ItemsFacts
<1>8. /\ Open(a, key, tool, call) = Emit(c, "added", n, <<>>)
      /\ Open(b, key, tool, call) = Emit(d, "added", n, <<>>)
  BY <1>1, <1>2, <1>5 DEF Open
<1>9. PICK f, e : f = Emit(d, "added", n, <<>>)
                  /\ e = [kind |-> "added", item |-> n, text |-> <<>>, number |-> d.number]
  OBVIOUS
<1>10. /\ f.items = x /\ f.number = b.number + 1
       /\ f.started = b.started /\ f.ended = b.ended /\ f.out = Append(b.out, e)
  BY <1>7, <1>9, EmitFacts
<1>11. Sane(x, Append(b.out, e), b.number + 1)
  <2>1. e.number = b.number /\ e.item = Len(b.items) + 1 /\ e.kind = "added"
    BY <1>1, <1>7, <1>9
  <2>2. QED BY <2>1, <1>1, <1>2, <1>3, SaneWithItem
<1>12. Good(f)
  BY <1>2, <1>10, <1>11 DEF Good
<1>13. Twin(Emit(c, "added", n, <<>>), Emit(d, "added", n, <<>>), w)
  BY <1>6, EmitTwins
<1>14. QED BY <1>8, <1>9, <1>12, <1>13 DEF Follows

\* Of the items of a, none is lost, takes another key or opens again.
Keeps(a, b) ==
    /\ Len(b.items) = Len(a.items)
    /\ \A i \in 1..Len(a.items) : /\ b.items[i].key = a.items[i].key /\ b.items[i].tool = a.items[i].tool
                                  /\ a.items[i].done => b.items[i].done

LEMMA ReplacedItems ==
    ASSUME NEW a, IsAdapter(a), NEW i \in 1..Len(a.items), NEW it, IsItem(it),
           NEW x, x = Replaced(a.items, i, it)
    PROVE  /\ IsList(x) /\ Len(x) = Len(a.items) /\ x[i] = it
           /\ \A j \in 1..Len(a.items) : j # i => x[j] = a.items[j]
           /\ \A j \in 1..Len(x) : IsItem(x[j])
<1>1. /\ IsList(x) /\ Len(x) = Len(a.items)
      /\ x[i] = it /\ \A j \in 1..Len(a.items) : j # i => x[j] = a.items[j]
  BY ReplacedItem DEF IsAdapter
<1>2. QED BY <1>1 DEF IsAdapter

\* Another call of an item.
Called(a, i, id) == [a EXCEPT !.items[i].call = id]

LEMMA FollowsCall ==
    ASSUME NEW a, NEW b, NEW w, Follows(a, b, w), NEW i \in 1..Len(a.items), NEW id
    PROVE  Follows(Called(a, i, id), Called(b, i, id), w)
<1>1. PICK it : it = [b.items[i] EXCEPT !.call = id]
  OBVIOUS
<1>2. PICK x : x = Replaced(b.items, i, it)
  OBVIOUS
<1>3. /\ Twin(a, b, w) /\ IsAdapter(a) /\ IsAdapter(b) /\ Good(b) /\ a.items = b.items
      /\ IsList(b.items) /\ IsList(b.out) /\ b.number \in Nat /\ Sane(b.items, b.out, b.number)
      /\ IsItem(b.items[i]) /\ i \in 1..Len(b.items)
  BY DEF Follows, Twin, IsAdapter, Good
<1>4. IsItem(it) /\ it.text = b.items[i].text /\ it.done = b.items[i].done
  <2>1. PICK j : j = b.items[i]
    OBVIOUS
  <2>2. it = Item(j.key, j.tool, id, j.text, j.done)
    BY <2>1, <1>1, <1>3, ItemChanges
  <2>3. j.done \in BOOLEAN
    BY <2>1, <1>3 DEF IsItem
  <2>4. it.key = j.key /\ it.tool = j.tool /\ it.call = id /\ it.text = j.text /\ it.done = j.done
    BY <2>2 DEF Item
  <2>5. QED BY <2>1, <2>2, <2>3, <2>4 DEF IsItem
<1>5. IsList(x) /\ \A j \in 1..Len(x) : IsItem(x[j])
  BY <1>2, <1>3, <1>4, ReplacedItems
<1>6. PICK c, d : c = [a EXCEPT !.items = x] /\ d = [b EXCEPT !.items = x]
  OBVIOUS
<1>7. c = Called(a, i, id) /\ d = Called(b, i, id)
  <2>1. x = [a.items EXCEPT ![i] = [a.items[i] EXCEPT !.call = id]]
    BY <1>1, <1>2, <1>3 DEF Replaced
  <2>2. x = [b.items EXCEPT ![i] = [b.items[i] EXCEPT !.call = id]]
    BY <1>1, <1>2 DEF Replaced
  <2>3. QED BY <2>1, <2>2, <1>6 DEF Called
<1>8. Twin(c, d, w)
  BY <1>3, <1>5, <1>6, ItemsTwins
<1>9. /\ d.items = x /\ d.number = b.number
      /\ d.started = b.started /\ d.ended = b.ended /\ d.out = b.out
  BY <1>3, <1>5, <1>6, ItemsFacts
<1>10. Sane(x, b.out, b.number)
  BY <1>2, <1>3, <1>4, SaneWithOther
<1>11. Good(d)
  BY <1>3, <1>9, <1>10 DEF Good
<1>12. QED BY <1>7, <1>8, <1>11 DEF Follows

LEMMA FollowsExtend ==
    ASSUME NEW a, NEW b, NEW w, Follows(a, b, w), NEW i \in 0..Len(a.items), NEW delta
    PROVE  Follows(Extend(a, i, delta), Extend(b, i, delta), w)
<1>1. /\ Twin(a, b, w) /\ IsAdapter(a) /\ IsAdapter(b) /\ Good(b) /\ a.items = b.items
      /\ IsList(b.items) /\ IsList(b.out) /\ b.number \in Nat /\ Sane(b.items, b.out, b.number)
      /\ \A j \in 1..Len(b.items) : IsItem(b.items[j])
  BY DEF Follows, Twin, IsAdapter, Good
<1>2. CASE i = 0 \/ delta = <<>> \/ b.items[i].done
  BY <1>1, <1>2 DEF Extend
<1>3. CASE ~ (i = 0 \/ delta = <<>> \/ b.items[i].done)
  <2>0. i \in 1..Len(b.items)
    BY <1>1, <1>3
  <2>1. PICK it : it = [b.items[i] EXCEPT !.text = b.items[i].text \o delta]
    OBVIOUS
  <2>2. PICK x : x = Replaced(b.items, i, it)
    OBVIOUS
  <2>3. IsItem(it) /\ it.text = b.items[i].text \o delta /\ it.done = FALSE
    <3>1. PICK j, t : j = b.items[i] /\ t = b.items[i].text \o delta
      OBVIOUS
    <3>2. IsItem(j) /\ j.done = FALSE
      BY <3>1, <2>0, <1>1, <1>3 DEF IsItem
    <3>3. it = [j EXCEPT !.text = t]
      BY <3>1, <2>1
    <3>4. it = Item(j.key, j.tool, j.call, t, j.done)
      BY <3>2, <3>3, ItemChanges
    <3>5. it.key = j.key /\ it.tool = j.tool /\ it.call = j.call /\ it.text = t /\ it.done = j.done
      BY <3>4 DEF Item
    <3>6. QED BY <3>1, <3>2, <3>4, <3>5 DEF IsItem
  <2>4. IsList(x) /\ \A j \in 1..Len(x) : IsItem(x[j])
    BY <1>1, <2>0, <2>2, <2>3, ReplacedItems
  <2>5. PICK c, d : c = [a EXCEPT !.items = x] /\ d = [b EXCEPT !.items = x]
    OBVIOUS
  <2>6. Extend(a, i, delta) = Emit(c, "delta", i, delta) /\ Extend(b, i, delta) = Emit(d, "delta", i, delta)
    <3>1. x = [b.items EXCEPT ![i] = [b.items[i] EXCEPT !.text = b.items[i].text \o delta]]
      BY <2>1, <2>2 DEF Replaced
    <3>2. x = [a.items EXCEPT ![i] = [a.items[i] EXCEPT !.text = a.items[i].text \o delta]]
      BY <3>1, <1>1
    <3>3. c = [a EXCEPT !.items[i].text = @ \o delta] /\ d = [b EXCEPT !.items[i].text = @ \o delta]
      BY <3>1, <3>2, <2>5
    <3>4. ~ (i = 0 \/ delta = <<>> \/ a.items[i].done)
      BY <1>1, <1>3
    <3>5. QED BY <3>3, <3>4, <1>3 DEF Extend
  <2>7. Twin(c, d, w)
    BY <1>1, <2>4, <2>5, ItemsTwins
  <2>8. /\ IsAdapter(d) /\ d.items = x /\ d.number = b.number
        /\ d.started = b.started /\ d.ended = b.ended /\ d.out = b.out
    BY <1>1, <2>4, <2>5, ItemsFacts
  <2>9. PICK f, e : f = Emit(d, "delta", i, delta)
                    /\ e = [kind |-> "delta", item |-> i, text |-> delta, number |-> d.number]
    OBVIOUS
  <2>10. /\ f.items = x /\ f.number = b.number + 1
         /\ f.started = b.started /\ f.ended = b.ended /\ f.out = Append(b.out, e)
    BY <2>8, <2>9, EmitFacts
  <2>11. Sane(x, Append(b.out, e), b.number + 1)
    <3>1. e.number = b.number /\ e.item = i /\ e.kind = "delta" /\ it.text = b.items[i].text \o e.text
      BY <2>3, <2>8, <2>9
    <3>2. ~b.items[i].done
      BY <1>3
    <3>3. QED BY <3>1, <3>2, <2>0, <2>2, <2>3, <1>1, SaneWithPiece
  <2>12. Good(f)
    BY <1>1, <2>10, <2>11 DEF Good
  <2>13. Twin(Emit(c, "delta", i, delta), Emit(d, "delta", i, delta), w)
    BY <2>7, EmitTwins
  <2>14. QED BY <2>6, <2>9, <2>12, <2>13 DEF Follows
<1>4. QED BY <1>2, <1>3

LEMMA FollowsClose ==
    ASSUME NEW a, NEW b, NEW w, Follows(a, b, w), NEW i \in 1..Len(a.items)
    PROVE  /\ Follows(Close(a, i), Close(b, i), w)
           /\ Keeps(b, Close(b, i)) /\ Close(b, i).items[i].done
<1>1. /\ Twin(a, b, w) /\ IsAdapter(a) /\ IsAdapter(b) /\ Good(b) /\ a.items = b.items
      /\ IsList(b.items) /\ IsList(b.out) /\ b.number \in Nat /\ Sane(b.items, b.out, b.number)
      /\ i \in 1..Len(b.items) /\ \A j \in 1..Len(b.items) : IsItem(b.items[j])
  BY DEF Follows, Twin, IsAdapter, Good
<1>2. CASE b.items[i].done
  BY <1>1, <1>2 DEF Close, Keeps
<1>3. CASE ~b.items[i].done
  <2>1. PICK it, text : it = [b.items[i] EXCEPT !.done = TRUE] /\ text = b.items[i].text
    OBVIOUS
  <2>2. PICK x : x = Replaced(b.items, i, it)
    OBVIOUS
  <2>3. IsItem(it) /\ it.text = text /\ it.done = TRUE
        /\ it.key = b.items[i].key /\ it.tool = b.items[i].tool
    <3>1. PICK j, t : j = b.items[i] /\ t = TRUE
      OBVIOUS
    <3>2. IsItem(j) /\ it = [j EXCEPT !.done = t]
      BY <3>1, <2>1, <1>1
    <3>3. it = Item(j.key, j.tool, j.call, j.text, t)
      BY <3>2, ItemChanges
    <3>4. it.key = j.key /\ it.tool = j.tool /\ it.call = j.call /\ it.text = j.text /\ it.done = t
      BY <3>3 DEF Item
    <3>5. QED BY <3>1, <3>3, <3>4, <2>1 DEF IsItem
  <2>4. /\ IsList(x) /\ Len(x) = Len(b.items) /\ x[i] = it
        /\ \A j \in 1..Len(b.items) : j # i => x[j] = b.items[j]
        /\ \A j \in 1..Len(x) : IsItem(x[j])
    <3>1. IsAdapter(b) /\ i \in 1..Len(b.items) /\ IsItem(it) /\ x = Replaced(b.items, i, it)
      BY <1>1, <2>2, <2>3
    <3>2. QED BY ONLY <3>1, ReplacedItems
  <2>5. PICK c, d : c = [a EXCEPT !.items = x] /\ d = [b EXCEPT !.items = x]
    OBVIOUS
  <2>6. /\ Close(a, i) = Emit(Emit(c, "text_done", i, text), "item_done", i, text)
        /\ Close(b, i) = Emit(Emit(d, "text_done", i, text), "item_done", i, text)
    <3>1. x = [b.items EXCEPT ![i] = [b.items[i] EXCEPT !.done = TRUE]]
      BY <2>1, <2>2 DEF Replaced
    <3>2. x = [a.items EXCEPT ![i] = [a.items[i] EXCEPT !.done = TRUE]]
      BY <3>1, <1>1
    <3>3. c = [a EXCEPT !.items[i].done = TRUE] /\ d = [b EXCEPT !.items[i].done = TRUE]
      BY <3>1, <3>2, <2>5
    <3>4. ~a.items[i].done /\ text = a.items[i].text
      BY <1>1, <1>3, <2>1
    <3>5. QED BY <3>3, <3>4, <2>1, <1>3 DEF Close
  <2>7. Twin(c, d, w)
    BY <1>1, <2>4, <2>5, ItemsTwins
  <2>8. /\ IsAdapter(d) /\ d.items = x /\ d.number = b.number
        /\ d.started = b.started /\ d.ended = b.ended /\ d.out = b.out
    BY <1>1, <2>4, <2>5, ItemsFacts
  <2>9. PICK f, e : f = Emit(d, "text_done", i, text)
                    /\ e = [kind |-> "text_done", item |-> i, text |-> text, number |-> d.number]
    OBVIOUS
  <2>10. /\ IsAdapter(f) /\ f.items = x /\ f.number = b.number + 1
         /\ f.started = b.started /\ f.ended = b.ended /\ f.out = Append(b.out, e)
    BY <2>8, <2>9, EmitFacts
  <2>11. PICK g, h : g = Emit(f, "item_done", i, text)
                     /\ h = [kind |-> "item_done", item |-> i, text |-> text, number |-> f.number]
    OBVIOUS
  <2>12. /\ g.items = x /\ g.number = (b.number + 1) + 1
         /\ g.started = b.started /\ g.ended = b.ended /\ g.out = Append(Append(b.out, e), h)
    BY <2>10, <2>11, EmitFacts
  <2>13. Sane(x, Append(Append(b.out, e), h), b.number + 2)
    <3>1. /\ e.number = b.number /\ e.item = i /\ e.kind = "text_done" /\ e.text = it.text
          /\ h.number = b.number + 1 /\ h.item = i /\ h.kind = "item_done" /\ it.text = b.items[i].text
      BY <2>1, <2>3, <2>8, <2>9, <2>10, <2>11
    <3>2. ~b.items[i].done
      BY <1>3
    <3>3. QED BY <3>1, <3>2, <2>2, <2>3, <1>1, SaneWithEnd
  <2>14. Good(g)
    <3>1. g.number = b.number + 2
      BY <2>12, <1>1
    <3>2. QED BY <3>1, <1>1, <2>12, <2>13 DEF Good
  <2>15. Twin(Emit(c, "text_done", i, text), Emit(d, "text_done", i, text), w)
    BY <2>7, EmitTwins
  <2>16. Twin(Close(a, i), g, w) /\ g = Close(b, i)
    <3>1. PICK y : y = Emit(c, "text_done", i, text)
      OBVIOUS
    <3>2. Twin(Emit(y, "item_done", i, text), Emit(f, "item_done", i, text), w)
      BY <3>1, <2>9, <2>15, EmitTwins
    <3>3. QED BY <3>1, <3>2, <2>6, <2>9, <2>11
  <2>17. Keeps(b, g) /\ g.items[i].done
    BY <2>3, <2>4, <2>12, <1>1 DEF Keeps
  <2>18. QED BY <2>14, <2>16, <2>17 DEF Follows
<1>4. QED BY <1>2, <1>3

-----------------------------------------------------------------------------
(* The operations of an adapter.                                            *)

LEMMA KeepsTwice ==
    ASSUME NEW a, NEW b, NEW c, Keeps(a, b), Keeps(b, c)
    PROVE  Keeps(a, c)
BY DEF Keeps

LEMMA KeepsItself == \A a : Keeps(a, a)
BY DEF Keeps

\* Which item is found depends on the items alone.
LEMMA Found ==
    ASSUME NEW a, NEW b, IsList(a.items), b.items = a.items, NEW key, NEW tool
    PROVE  Find(b, key, tool) = Find(a, key, tool) /\ Find(a, key, tool) \in 0..Len(a.items)
<1>1. Find(b, key, tool) = Find(a, key, tool)
  BY DEF Find, SelectInSeq
<1>2. PICK I, n : I = {i \in 1..Len(a.items) : a.items[i].key = key /\ a.items[i].tool = tool}
                  /\ n = Len(a.items)
  OBVIOUS
<1>3. n \in Nat /\ I \in SUBSET (1..n)
  BY <1>2, ListFacts
<1>4. Find(a, key, tool) = IF I # {} THEN Min(I) ELSE 0
  BY <1>2 DEF Find, SelectInSeq
<1>5. I # {} => Min(I) \in I
  <2>1. I \in SUBSET Nat
    BY <1>3
  <2>2. QED BY <2>1, MinIsLeast
<1>6. QED BY <1>1, <1>2, <1>3, <1>4, <1>5

LEMMA FollowsIndex ==
    ASSUME NEW a, NEW b, NEW w, Follows(a, b, w), NEW key, NEW default, NEW call
    PROVE  ToolIndex(b, key, default, call) = ToolIndex(a, key, default, call)
<1>1. b.items = a.items
  BY DEF Follows, Twin
<1>2. QED BY <1>1 DEF ToolIndex, SelectInSeq

LEMMA FollowsFound ==
    ASSUME NEW a, NEW b, NEW w, Follows(a, b, w), NEW key, NEW tool
    PROVE  Find(b, key, tool) = Find(a, key, tool) /\ Find(a, key, tool) \in 0..Len(a.items)
<1>1. b.items = a.items /\ IsList(a.items)
  BY DEF Follows, Twin, IsAdapter
<1>2. QED BY <1>1, Found

LEMMA FollowsOpenMessage ==
    ASSUME NEW a, NEW b, NEW w, Follows(a, b, w), NEW key
    PROVE  Follows(OpenMessage(a, key), OpenMessage(b, key), w)
<1>1. Find(b, key, None) = Find(a, key, None)
  BY FollowsFound
<1>2. Follows(Open(a, key, None, None), Open(b, key, None, None), w)
  BY FollowsOpen
<1>3. QED BY <1>1, <1>2 DEF OpenMessage

LEMMA FollowsOpenTool ==
    ASSUME NEW a, NEW b, NEW w, Follows(a, b, w), NEW key, NEW index, NEW call
    PROVE  Follows(OpenTool(a, key, index, call), OpenTool(b, key, index, call), w)
<1>1. PICK i : i = Find(a, key, index)
  OBVIOUS
<1>2. i = Find(b, key, index) /\ i \in 0..Len(a.items) /\ Len(a.items) \in Nat
  <2>1. Len(a.items) \in Nat
    BY ListFacts DEF Follows, Twin, IsAdapter
  <2>2. QED BY <2>1, <1>1, FollowsFound
<1>3. CASE i = 0
  <2>1. PICK id : id = call.id
    OBVIOUS
  <2>2. Follows(Open(a, key, index, id), Open(b, key, index, id), w)
    BY FollowsOpen
  <2>3. OpenTool(a, key, index, call) = Open(a, key, index, id)
    BY <2>1, <1>1, <1>3 DEF OpenTool
  <2>4. OpenTool(b, key, index, call) = Open(b, key, index, id)
    BY <2>1, <1>2, <1>3 DEF OpenTool
  <2>5. QED BY <2>2, <2>3, <2>4
<1>4. CASE i # 0 /\ call.id = None
  <2>1. OpenTool(a, key, index, call) = a
    BY <1>1, <1>4 DEF OpenTool
  <2>2. OpenTool(b, key, index, call) = b
    BY <1>2, <1>4 DEF OpenTool
  <2>3. QED BY <2>1, <2>2
<1>5. CASE i # 0 /\ call.id # None
  <2>1. PICK id : id = call.id
    OBVIOUS
  <2>2. i \in 1..Len(a.items)
    BY <1>2, <1>5
  <2>3. Follows(Called(a, i, id), Called(b, i, id), w)
    BY <2>2, FollowsCall
  <2>4. OpenTool(a, key, index, call) = Called(a, i, id)
    BY <2>1, <1>1, <1>5 DEF OpenTool, Called
  <2>5. OpenTool(b, key, index, call) = Called(b, i, id)
    BY <2>1, <1>2, <1>5 DEF OpenTool, Called
  <2>6. QED BY <2>3, <2>4, <2>5
<1>6. QED BY <1>3, <1>4, <1>5

LEMMA FollowsOpenCall ==
    ASSUME NEW a, NEW b, NEW w, Follows(a, b, w), NEW c, NEW key, NEW i
    PROVE  Follows(OpenCall(a, c, key, i), OpenCall(b, c, key, i), w)
<1>1. PICK index, call : index = ToolIndex(a, key, i - 1, c.calls[i]) /\ call = c.calls[i]
  OBVIOUS
<1>2. ToolIndex(b, key, i - 1, call) = ToolIndex(a, key, i - 1, call)
  BY FollowsIndex
<1>3. Follows(OpenTool(a, key, index, call), OpenTool(b, key, index, call), w)
  BY FollowsOpenTool
<1>4. QED BY <1>1, <1>2, <1>3 DEF OpenCall

LEMMA FollowsFormatCall ==
    ASSUME NEW a, NEW b, NEW w, Follows(a, b, w), NEW c, NEW key, NEW i
    PROVE  Follows(FormatCall(a, c, key, i), FormatCall(b, c, key, i), w)
<1>1. PICK d, e, index : /\ d = OpenCall(a, c, key, i) /\ e = OpenCall(b, c, key, i)
                         /\ index = ToolIndex(a, key, i - 1, c.calls[i])
  OBVIOUS
<1>2. Follows(d, e, w)
  BY <1>1, FollowsOpenCall
<1>3. index = ToolIndex(b, key, i - 1, c.calls[i])
  BY <1>1, FollowsIndex
<1>4. PICK item : item = Find(d, key, index)
  OBVIOUS
<1>5. item = Find(e, key, index) /\ item \in 0..Len(d.items) /\ e.items = d.items
  BY <1>2, <1>4, FollowsFound DEF Follows, Twin
<1>6. PICK delta : delta = ArgumentDelta(d.items[item].text, c.calls[i].args)
  OBVIOUS
<1>7. Follows(Extend(d, item, delta), Extend(e, item, delta), w)
  BY <1>2, <1>5, FollowsExtend
<1>8. FormatCall(a, c, key, i) = Extend(d, item, delta)
  BY <1>1, <1>4, <1>6 DEF FormatCall
<1>9. FormatCall(b, c, key, i) = Extend(e, item, delta)
  BY <1>1, <1>3, <1>5, <1>6 DEF FormatCall
<1>10. QED BY <1>7, <1>8, <1>9

\* The chains of a rule follow each other if its steps do.
LEMMA ChainsFollow ==
    ASSUME NEW rule, NEW l, NEW n \in Nat, NEW a, NEW b, NEW w, Follows(a, b, w),
           NEW r, Chain(rule, a, l, n, r), NEW q, Chain(rule, b, l, n, q),
           \A k \in 1..n : \A x, y : Follows(x, y, w) => Follows(Apply(rule, x, l[k]), Apply(rule, y, l[k]), w)
    PROVE  Follows(r[n], q[n], w)
<1> DEFINE Bad == {k \in 0..n : ~Follows(r[k], q[k], w)}
<1>1. SUFFICES ASSUME Bad # {} PROVE FALSE
  OBVIOUS
<1>2. PICK k \in Bad : \A j \in Bad : k <= j
  <2>1. Bad \in SUBSET Nat
    OBVIOUS
  <2>2. QED BY <1>1, <2>1, LeastNumber
<1>3. k # 0
  BY <1>2 DEF Chain
<1>4. k \in 1..n /\ k - 1 \in 0..n /\ k - 1 \notin Bad
  BY <1>2, <1>3
<1>5. Follows(r[k - 1], q[k - 1], w)
  BY <1>4
<1>6. r[k] = Apply(rule, r[k - 1], l[k]) /\ q[k] = Apply(rule, q[k - 1], l[k])
  BY <1>4 DEF Chain
<1>7. Follows(r[k], q[k], w)
  BY <1>4, <1>5, <1>6
<1>8. QED BY <1>2, <1>7

LEMMA FollowsCallsOpened ==
    ASSUME NEW a, NEW b, NEW w, Follows(a, b, w), NEW l, IsList(l), NEW c, NEW key
    PROVE  Follows(CallsOpened(a, l, c, key), CallsOpened(b, l, c, key), w)
<1>1. PICK n \in Nat : n = Len(l) /\ DOMAIN l = 1..n
  BY ListFacts
<1>2. PICK m, rule : m = Places(l) /\ rule = OpenCallRule(c, key)
  OBVIOUS
<1>3. PICK r : Chain(rule, a, m, n, r) /\ CallsOpened(a, l, c, key) = r[n]
  BY <1>1, <1>2, OpenCallFold
<1>4. PICK q : Chain(rule, b, m, n, q) /\ CallsOpened(b, l, c, key) = q[n]
  BY <1>1, <1>2, OpenCallFold
<1>5. \A x, i : Apply(rule, x, i) = OpenCall(x, c, key, i)
  <2>1. rule.kind = "open call" /\ rule.c = c /\ rule.key = key
    BY <1>2 DEF OpenCallRule
  <2>2. QED BY <2>1 DEF Apply
<1>6. \A k \in 1..n : \A x, y : Follows(x, y, w) => Follows(Apply(rule, x, m[k]), Apply(rule, y, m[k]), w)
  BY <1>5, FollowsOpenCall
<1>7. Follows(r[n], q[n], w)
  BY <1>3, <1>4, <1>6, ChainsFollow
<1>8. QED BY <1>3, <1>4, <1>7

LEMMA FollowsCallsFormatted ==
    ASSUME NEW a, NEW b, NEW w, Follows(a, b, w), NEW l, IsList(l), NEW c, NEW key
    PROVE  Follows(CallsFormatted(a, l, c, key), CallsFormatted(b, l, c, key), w)
<1>1. PICK n \in Nat : n = Len(l) /\ DOMAIN l = 1..n
  BY ListFacts
<1>2. PICK m, rule : m = Places(l) /\ rule = FormatCallRule(c, key)
  OBVIOUS
<1>3. PICK r : Chain(rule, a, m, n, r) /\ CallsFormatted(a, l, c, key) = r[n]
  BY <1>1, <1>2, FormatCallFold
<1>4. PICK q : Chain(rule, b, m, n, q) /\ CallsFormatted(b, l, c, key) = q[n]
  BY <1>1, <1>2, FormatCallFold
<1>5. \A x, i : Apply(rule, x, i) = FormatCall(x, c, key, i)
  <2>1. rule.kind = "format call" /\ rule.c = c /\ rule.key = key
    BY <1>2 DEF FormatCallRule
  <2>2. QED BY <2>1 DEF Apply
<1>6. \A k \in 1..n : \A x, y : Follows(x, y, w) => Follows(Apply(rule, x, m[k]), Apply(rule, y, m[k]), w)
  BY <1>5, FollowsFormatCall
<1>7. Follows(r[n], q[n], w)
  BY <1>3, <1>4, <1>6, ChainsFollow
<1>8. QED BY <1>3, <1>4, <1>7

LEMMA FollowsPrepare ==
    ASSUME NEW a, NEW b, NEW w, Follows(a, b, w), NEW c, IsList(c.calls), NEW key
    PROVE  Follows(Prepare(a, c, key), Prepare(b, c, key), w)
<1>1. Find(b, key, None) = Find(a, key, None)
  BY FollowsFound
<1>2. Follows(OpenMessage(a, key), OpenMessage(b, key), w)
  BY FollowsOpenMessage
<1>3. PICK test : test <=> (Find(a, key, None) # 0 \/ c.text # <<>> \/ c.calls = <<>>)
  OBVIOUS
<1>4. PICK x, y : x = (IF test THEN OpenMessage(a, key) ELSE a) /\ y = (IF test THEN OpenMessage(b, key) ELSE b)
  OBVIOUS
<1>5. Follows(x, y, w)
  BY <1>2, <1>4
<1>6. PICK l : l = c.calls
  OBVIOUS
<1>7. Follows(CallsOpened(x, l, c, key), CallsOpened(y, l, c, key), w)
  BY <1>5, <1>6, FollowsCallsOpened
<1>8. Prepare(a, c, key) = CallsOpened(x, l, c, key)
  BY <1>3, <1>4, <1>6 DEF Prepare, CallsOpened
<1>9. Prepare(b, c, key) = CallsOpened(y, l, c, key)
  BY <1>1, <1>3, <1>4, <1>6 DEF Prepare, CallsOpened
<1>10. QED BY <1>7, <1>8, <1>9

LEMMA FollowsFormatCalls ==
    ASSUME NEW a, NEW b, NEW w, Follows(a, b, w), NEW c, IsList(c.calls), NEW key
    PROVE  Follows(FormatCalls(a, c, key), FormatCalls(b, c, key), w)
<1>1. PICK l : l = c.calls
  OBVIOUS
<1>2. Follows(CallsFormatted(a, l, c, key), CallsFormatted(b, l, c, key), w)
  BY <1>1, FollowsCallsFormatted
<1>3. QED BY <1>1, <1>2 DEF FormatCalls, CallsFormatted

-----------------------------------------------------------------------------
(* Items that end.                                                          *)

Owned(it, key, isCall) == it.key = key /\ (it.tool # None) = isCall

\* What closing the items of a key has come to after k of them.
ClosedSoFar(a, b, w, base, key, isCall, k) ==
    /\ Follows(a, b, w) /\ Keeps(base, b)
    /\ \A i \in 1..k : Owned(base.items[i], key, isCall) => b.items[i].done

LEMMA OneMoreClosed ==
    ASSUME NEW a, NEW b, NEW w, NEW base, NEW key, NEW isCall, NEW k \in Nat, k + 1 \in 1..Len(base.items),
           ClosedSoFar(a, b, w, base, key, isCall, k)
    PROVE  ClosedSoFar(CloseOwn(a, key, k + 1, isCall), CloseOwn(b, key, k + 1, isCall), w, base, key, isCall, k + 1)
<1> DEFINE i == k + 1
<1>1. /\ Follows(a, b, w) /\ Keeps(base, b) /\ b.items = a.items
      /\ \A j \in 1..k : Owned(base.items[j], key, isCall) => b.items[j].done
  BY DEF ClosedSoFar, Follows, Twin
<1>2. i \in 1..Len(a.items) /\ i \in 1..Len(base.items)
      /\ b.items[i].key = base.items[i].key /\ b.items[i].tool = base.items[i].tool
  BY <1>1 DEF Keeps
<1>3. CASE ~Owned(base.items[i], key, isCall)
  <2>1. CloseOwn(a, key, i, isCall) = a /\ CloseOwn(b, key, i, isCall) = b
    BY <1>1, <1>2, <1>3 DEF CloseOwn, Owned
  <2>2. \A j \in 1..i : j \in 1..k \/ j = i
    OBVIOUS
  <2>3. QED BY <1>1, <1>3, <2>1, <2>2 DEF ClosedSoFar
<1>4. CASE Owned(base.items[i], key, isCall)
  <2>1. CloseOwn(a, key, i, isCall) = Close(a, i) /\ CloseOwn(b, key, i, isCall) = Close(b, i)
    BY <1>1, <1>2, <1>4 DEF CloseOwn, Owned
  <2>2. PICK c, d : c = Close(a, i) /\ d = Close(b, i)
    OBVIOUS
  <2>3. Follows(c, d, w) /\ Keeps(b, d) /\ d.items[i].done
    BY <1>1, <1>2, <2>2, FollowsClose
  <2>4. Keeps(base, d)
    BY <1>1, <2>3, KeepsTwice
  <2>5. ASSUME NEW j \in 1..i, Owned(base.items[j], key, isCall)
        PROVE  d.items[j].done
    <3>1. CASE j = i
      BY <3>1, <2>3
    <3>2. CASE j \in 1..k
      <4>1. b.items[j].done /\ j \in 1..Len(b.items)
        BY <3>2, <2>5, <1>1, <1>2 DEF Keeps
      <4>2. QED BY <4>1, <2>3 DEF Keeps
    <3>3. QED BY <3>1, <3>2
  <2>6. ClosedSoFar(c, d, w, base, key, isCall, i)
    BY <2>3, <2>4, <2>5 DEF ClosedSoFar
  <2>7. QED BY <2>1, <2>2, <2>6
<1>5. QED BY <1>3, <1>4

LEMMA FollowsOwnClosed ==
    ASSUME NEW a, NEW b, NEW w, Follows(a, b, w), NEW base, Keeps(base, b), NEW key, NEW isCall
    PROVE  LET l == a.items
           IN  ClosedSoFar(OwnClosed(a, l, key, isCall), OwnClosed(b, l, key, isCall), w,
                           base, key, isCall, Len(base.items))
<1>0. PICK l : l = a.items
  OBVIOUS
<1>1. PICK n \in Nat : l = a.items /\ n = Len(l) /\ DOMAIN l = 1..n
  BY <1>0, ListFacts DEF Follows, Twin, IsAdapter
<1>2. n = Len(base.items)
  BY <1>1 DEF Follows, Twin, Keeps
<1>3. PICK m, rule : m = Places(l) /\ rule = CloseOwnRule(key, isCall)
  OBVIOUS
<1>4. PICK r : Chain(rule, a, m, n, r) /\ OwnClosed(a, l, key, isCall) = r[n]
  BY <1>1, <1>3, CloseOwnFold
<1>5. PICK q : Chain(rule, b, m, n, q) /\ OwnClosed(b, l, key, isCall) = q[n]
  BY <1>1, <1>3, CloseOwnFold
<1>6. \A x, i : Apply(rule, x, i) = CloseOwn(x, key, i, isCall)
  <2>1. rule.kind = "close own" /\ rule.key = key /\ rule.isCall = isCall
    BY <1>3 DEF CloseOwnRule
  <2>2. QED BY <2>1 DEF Apply
<1>7. \A k \in 1..n : m[k] = k
  BY <1>1, <1>3 DEF Places
<1> DEFINE Bad == {k \in 0..n : ~ClosedSoFar(r[k], q[k], w, base, key, isCall, k)}
<1>8. Bad = {}
  <2>1. SUFFICES ASSUME Bad # {} PROVE FALSE
    OBVIOUS
  <2>2. PICK k \in Bad : \A j \in Bad : k <= j
    <3>1. Bad \in SUBSET Nat
      OBVIOUS
    <3>2. QED BY <2>1, <3>1, LeastNumber
  <2>3. ClosedSoFar(a, b, w, base, key, isCall, 0)
    BY DEF ClosedSoFar
  <2>4. k # 0
    BY <2>2, <2>3, <1>4, <1>5 DEF Chain
  <2>5. PICK j \in Nat : k = j + 1 /\ j \in 0..n
    <3>1. k - 1 \in Nat /\ k = (k - 1) + 1 /\ k - 1 \in 0..n
      BY <2>2, <2>4
    <3>2. QED BY <3>1
  <2>6. k \in 1..n /\ k - 1 = j /\ j \notin Bad
    BY <2>2, <2>5
  <2>7. r[k] = CloseOwn(r[j], key, k, isCall) /\ q[k] = CloseOwn(q[j], key, k, isCall)
    BY <2>6, <1>4, <1>5, <1>6, <1>7 DEF Chain
  <2>8. PICK x, y : x = r[j] /\ y = q[j]
    OBVIOUS
  <2>9. ClosedSoFar(x, y, w, base, key, isCall, j) /\ j + 1 \in 1..Len(base.items)
    BY <2>5, <2>6, <2>8, <1>2
  <2>10. ClosedSoFar(CloseOwn(x, key, j + 1, isCall), CloseOwn(y, key, j + 1, isCall), w, base, key, isCall, j + 1)
    BY <2>9, OneMoreClosed
  <2>11. QED BY <2>2, <2>5, <2>7, <2>8, <2>10
<1> HIDE DEF Bad
<1>9. n \in 0..n /\ n \notin Bad
  BY <1>8
<1>10. ClosedSoFar(r[n], q[n], w, base, key, isCall, n)
  BY <1>9 DEF Bad
<1>11. QED BY <1>1, <1>2, <1>4, <1>5, <1>10

LEMMA FollowsDeactivate ==
    ASSUME NEW a, NEW b, NEW w, Follows(a, b, w), NEW key
    PROVE  Follows(Deactivate(a, key), Deactivate(b, key), w)
           /\ Deactivate(b, key).items = b.items
<1>1. PICK x : x = [y \in Context |-> IF y[1] = key[1] /\ a.active[y] = key[2] THEN None ELSE a.active[y]]
  OBVIOUS
<1>2. b.active = a.active /\ IsAdapter(b)
  BY DEF Follows, Twin
<1>3. Deactivate(a, key) = [a EXCEPT !.active = x]
  BY <1>1 DEF Deactivate
<1>4. Deactivate(b, key) = [b EXCEPT !.active = x]
  BY <1>1, <1>2 DEF Deactivate
<1>5. PICK d : d = [b EXCEPT !.active = x]
  OBVIOUS
<1>6. d.items = b.items
  BY <1>2, <1>5, OtherParts
<1>7. Follows([a EXCEPT !.active = x], [b EXCEPT !.active = x], w)
  BY FollowsActive
<1>8. QED BY <1>3, <1>4, <1>5, <1>6, <1>7

\* All items of a key have ended.
LEMMA FollowsCloseMessage ==
    ASSUME NEW a, NEW b, NEW w, Follows(a, b, w), NEW key
    PROVE  LET c == CloseMessage(a, key)
               d == CloseMessage(b, key)
           IN  /\ Follows(c, d, w) /\ Keeps(b, d)
               /\ \A i \in 1..Len(b.items) : b.items[i].key = key => d.items[i].done
<1>1. Keeps(b, b) /\ b.items = a.items
  BY KeepsItself DEF Follows, Twin
<1>2. PICK l, n : l = a.items /\ n = Len(b.items)
  OBVIOUS
<1>3. PICK x, y : x = OwnClosed(a, l, key, FALSE) /\ y = OwnClosed(b, l, key, FALSE)
  OBVIOUS
<1>4. ClosedSoFar(x, y, w, b, key, FALSE, n)
  BY <1>1, <1>2, <1>3, FollowsOwnClosed
<1>5. Follows(x, y, w) /\ Keeps(b, y) /\ x.items = y.items
  BY <1>4 DEF ClosedSoFar, Follows, Twin
<1>6. PICK m : m = x.items
  OBVIOUS
<1>7. PICK u, v : u = OwnClosed(x, m, key, TRUE) /\ v = OwnClosed(y, m, key, TRUE)
  OBVIOUS
<1>8. ClosedSoFar(u, v, w, b, key, TRUE, n)
  BY <1>2, <1>5, <1>6, <1>7, FollowsOwnClosed
<1>9. ClosedSoFar(u, v, w, y, key, TRUE, Len(y.items))
  BY <1>5, <1>6, <1>7, KeepsItself, FollowsOwnClosed
<1>10. Follows(u, v, w) /\ Keeps(b, v) /\ Keeps(y, v)
  BY <1>8, <1>9 DEF ClosedSoFar
<1>11. CloseMessage(a, key) = Deactivate(u, key) /\ CloseMessage(b, key) = Deactivate(v, key)
  BY <1>1, <1>2, <1>3, <1>5, <1>6, <1>7 DEF CloseMessage, OwnClosed
<1>12. PICK c, d : c = Deactivate(u, key) /\ d = Deactivate(v, key)
  OBVIOUS
<1>13. Follows(c, d, w) /\ d.items = v.items
  BY <1>10, <1>12, FollowsDeactivate
<1>14. Keeps(b, d)
  BY <1>10, <1>13 DEF Keeps
<1>15. ASSUME NEW i \in 1..n, b.items[i].key = key
       PROVE  d.items[i].done
  <2>1. CASE b.items[i].tool # None
    <3>1. Owned(b.items[i], key, TRUE)
      BY <1>15, <2>1 DEF Owned
    <3>2. QED BY <3>1, <1>8, <1>13 DEF ClosedSoFar
  <2>2. CASE b.items[i].tool = None
    <3>1. Owned(b.items[i], key, FALSE)
      BY <1>15, <2>2 DEF Owned
    <3>2. y.items[i].done
      BY <3>1, <1>4 DEF ClosedSoFar
    <3>3. i \in 1..Len(y.items)
      BY <1>2, <1>5 DEF Keeps
    <3>4. QED BY <3>2, <3>3, <1>10, <1>13 DEF Keeps
  <2>3. QED BY <2>1, <2>2
<1>16. QED BY <1>2, <1>11, <1>12, <1>13, <1>14, <1>15

\* What closing all items has come to after k of them.
AllSoFar(a, b, w, base, k) ==
    /\ Follows(a, b, w) /\ Keeps(base, b)
    /\ \A i \in 1..k : b.items[i].done

LEMMA FollowsAllClosed ==
    ASSUME NEW a, NEW b, NEW w, Follows(a, b, w)
    PROVE  LET l == a.items
           IN  AllSoFar(AllClosed(a, l), AllClosed(b, l), w, b, Len(b.items))
<1>0. PICK l : l = a.items
  OBVIOUS
<1>1. PICK n \in Nat : l = a.items /\ n = Len(l) /\ DOMAIN l = 1..n /\ b.items = l
  BY <1>0, ListFacts DEF Follows, Twin, IsAdapter
<1>2. PICK rule : rule = CloseRule
  OBVIOUS
<1>3. PICK r : Chain(rule, a, l, n, r) /\ AllClosed(a, l) = r[n]
  BY <1>1, <1>2, CloseFold
<1>4. PICK q : Chain(rule, b, l, n, q) /\ AllClosed(b, l) = q[n]
  BY <1>1, <1>2, CloseFold
<1>5. \A x, it : Apply(rule, x, it) = CloseMessage(x, it.key)
  <2>1. rule.kind = "close"
    BY <1>2 DEF CloseRule
  <2>2. QED BY <2>1 DEF Apply
<1> DEFINE Bad == {k \in 0..n : ~AllSoFar(r[k], q[k], w, b, k)}
<1>6. Bad = {}
  <2>1. SUFFICES ASSUME Bad # {} PROVE FALSE
    OBVIOUS
  <2>2. PICK k \in Bad : \A j \in Bad : k <= j
    <3>1. Bad \in SUBSET Nat
      OBVIOUS
    <3>2. QED BY <2>1, <3>1, LeastNumber
  <2>3. AllSoFar(a, b, w, b, 0)
    BY KeepsItself DEF AllSoFar
  <2>4. k # 0
    BY <2>2, <2>3, <1>3, <1>4 DEF Chain
  <2>5. k \in 1..n /\ k - 1 \in 0..n /\ k - 1 \notin Bad
    BY <2>2, <2>4
  <2>6. PICK x, y, key : x = r[k - 1] /\ y = q[k - 1] /\ key = l[k].key
    OBVIOUS
  <2>7. AllSoFar(x, y, w, b, k - 1)
    BY <2>5, <2>6
  <2>8. PICK c, d : c = CloseMessage(x, key) /\ d = CloseMessage(y, key)
    OBVIOUS
  <2>9. r[k] = c /\ q[k] = d
    BY <2>5, <2>6, <2>8, <1>3, <1>4, <1>5 DEF Chain
  <2>10. Follows(x, y, w) /\ Keeps(b, y)
    BY <2>7 DEF AllSoFar
  <2>11. /\ Follows(c, d, w) /\ Keeps(y, d)
         /\ \A i \in 1..Len(y.items) : y.items[i].key = key => d.items[i].done
    BY <2>8, <2>10, FollowsCloseMessage
  <2>12. Keeps(b, d)
    BY <2>10, <2>11, KeepsTwice
  <2>13. ASSUME NEW i \in 1..k
         PROVE  d.items[i].done
    <3>1. i \in 1..Len(y.items) /\ i \in 1..Len(b.items)
      BY <2>5, <2>10, <1>1 DEF Keeps
    <3>2. CASE i \in 1..(k - 1)
      <4>1. y.items[i].done
        BY <3>2, <2>7 DEF AllSoFar
      <4>2. QED BY <4>1, <3>1, <2>11 DEF Keeps
    <3>3. CASE i = k
      <4>1. y.items[i].key = key
        BY <3>1, <3>3, <2>6, <2>10, <1>1 DEF Keeps
      <4>2. QED BY <4>1, <3>1, <2>11
    <3>4. QED BY <3>2, <3>3, <2>5
  <2>14. AllSoFar(c, d, w, b, k)
    BY <2>11, <2>12, <2>13 DEF AllSoFar
  <2>15. QED BY <2>2, <2>9, <2>14
<1> HIDE DEF Bad
<1>7. n \in 0..n /\ n \notin Bad
  BY <1>6
<1>8. AllSoFar(r[n], q[n], w, b, n)
  BY <1>7 DEF Bad
<1>9. QED BY <1>1, <1>3, <1>4, <1>8

LEMMA FollowsCloseAll ==
    ASSUME NEW a, NEW b, NEW w, Follows(a, b, w)
    PROVE  LET d == CloseAll(b)
           IN  /\ Follows(CloseAll(a), d, w)
               /\ \A i \in 1..Len(d.items) : d.items[i].done
<1>1. PICK l : l = a.items /\ l = b.items
  BY DEF Follows, Twin
<1>2. PICK c, d : c = AllClosed(a, l) /\ d = AllClosed(b, l)
  OBVIOUS
<1>3. AllSoFar(c, d, w, b, Len(b.items))
  BY <1>1, <1>2, FollowsAllClosed
<1>4. c = CloseAll(a) /\ d = CloseAll(b)
  BY <1>1, <1>2 DEF CloseAll, AllClosed
<1>5. \A i \in 1..Len(d.items) : d.items[i].done
  BY <1>3 DEF AllSoFar, Keeps
<1>6. QED BY <1>3, <1>4, <1>5 DEF AllSoFar

-----------------------------------------------------------------------------
(* A chunk, and the end of the stream.                                      *)

IsRow(c) == IsList(c.calls) /\ c.seq \in Nat /\ c.type \in {"tasks", "messages", "custom"}

LEMMA FollowsActivate ==
    ASSUME NEW a, NEW b, NEW w, Follows(a, b, w), NEW c
    PROVE  Follows(Activate(a, c), Activate(b, c), w) /\ MessageId(b, c) = MessageId(a, c)
<1>1. b.active = a.active /\ b.count = a.count
  BY DEF Follows, Twin
<1>2. MessageId(b, c) = MessageId(a, c)
  BY <1>1 DEF MessageId
<1>3. PICK x, m : x = <<c.ns, c.role>> /\ m = MessageId(a, c)
  OBVIOUS
<1>4. PICK count, active :
        /\ count = [a.count EXCEPT ![x] = IF c.id = None /\ a.active[x] = None THEN @ + 1 ELSE @]
        /\ active = [a.active EXCEPT ![x] = m]
  OBVIOUS
<1>5. PICK d, e : d = [a EXCEPT !.count = count] /\ e = [b EXCEPT !.count = count]
  OBVIOUS
<1>6. Follows(d, e, w)
  BY <1>5, FollowsCount
<1>7. Follows([d EXCEPT !.active = active], [e EXCEPT !.active = active], w)
  BY <1>6, FollowsActive
<1>8. Activate(a, c) = [d EXCEPT !.active = active]
  <2>1. Activate(a, c) = [a EXCEPT !.count = count, !.active = active]
    BY <1>3, <1>4 DEF Activate
  <2>2. [a EXCEPT !.count = count, !.active = active] = [[a EXCEPT !.count = count] EXCEPT !.active = active]
    OBVIOUS
  <2>3. QED BY <2>1, <2>2, <1>5
<1>9. Activate(b, c) = [e EXCEPT !.active = active]
  <2>1. Activate(b, c) = [b EXCEPT !.count = count, !.active = active]
    BY <1>1, <1>2, <1>3, <1>4 DEF Activate
  <2>2. [b EXCEPT !.count = count, !.active = active] = [[b EXCEPT !.count = count] EXCEPT !.active = active]
    OBVIOUS
  <2>3. QED BY <2>1, <2>2, <1>5
<1>10. QED BY <1>2, <1>7, <1>8, <1>9

LEMMA FollowsFormatMessage ==
    ASSUME NEW a, NEW b, NEW w, Follows(a, b, w), NEW c, IsList(c.calls)
    PROVE  Follows(FormatMessage(a, c), FormatMessage(b, c), w)
<1>1. PICK key : key = <<c.ns, MessageId(a, c)>>
  OBVIOUS
<1>2. PICK a1, b1 : a1 = Activate(a, c) /\ b1 = Activate(b, c)
  OBVIOUS
<1>3. Follows(a1, b1, w) /\ MessageId(b, c) = MessageId(a, c)
  BY <1>2, FollowsActivate
<1>4. PICK a2, b2 : a2 = Prepare(a1, c, key) /\ b2 = Prepare(b1, c, key)
  OBVIOUS
<1>5. Follows(a2, b2, w)
  BY <1>3, <1>4, FollowsPrepare
<1>6. PICK i : i = Find(a2, key, None)
  OBVIOUS
<1>7. i = Find(b2, key, None) /\ i \in 0..Len(a2.items)
  BY <1>5, <1>6, FollowsFound
<1>8. PICK text : text = c.text
  OBVIOUS
<1>9. PICK a3, b3 : a3 = Extend(a2, i, text) /\ b3 = Extend(b2, i, text)
  OBVIOUS
<1>10. Follows(a3, b3, w)
  BY <1>5, <1>7, <1>9, FollowsExtend
<1>11. PICK a4, b4 : a4 = FormatCalls(a3, c, key) /\ b4 = FormatCalls(b3, c, key)
  OBVIOUS
<1>12. Follows(a4, b4, w)
  BY <1>10, <1>11, FollowsFormatCalls
<1>13. Follows(CloseMessage(a4, key), CloseMessage(b4, key), w)
  BY <1>12, FollowsCloseMessage
<1>14. FormatMessage(a, c) = IF IsComplete(c) THEN CloseMessage(a4, key) ELSE a4
  BY <1>1, <1>2, <1>4, <1>6, <1>8, <1>9, <1>11 DEF FormatMessage
<1>15. FormatMessage(b, c) = IF IsComplete(c) THEN CloseMessage(b4, key) ELSE b4
  BY <1>1, <1>2, <1>3, <1>4, <1>7, <1>8, <1>9, <1>11 DEF FormatMessage
<1>16. QED BY <1>12, <1>13, <1>14, <1>15

LEMMA FollowsChunk ==
    ASSUME NEW a, NEW b, NEW w, Follows(a, b, w), NEW c, IsRow(c)
    PROVE  Follows(FormatChunk(a, c), FormatChunk(b, c), w)
<1>1. a.started = TRUE /\ b.started = TRUE /\ a.ended = FALSE /\ b.ended = FALSE
  BY DEF Follows, Twin, Good
<1>2. FormatStart(a) = a /\ FormatStart(b) = b
  BY <1>1 DEF FormatStart
<1>3. PICK seq \in Nat : seq = c.seq
  BY DEF IsRow
<1>4. PICK d, e : d = SetSource(a, seq) /\ e = SetSource(b, seq)
  OBVIOUS
<1>5. Follows(d, e, w)
  BY <1>4, FollowsSource
<1>6. CASE c.type = "messages"
  <2>1. Follows(FormatMessage(d, c), FormatMessage(e, c), w)
    BY <1>5, FollowsFormatMessage DEF IsRow
  <2>2. FormatChunk(a, c) = FormatMessage(d, c)
    BY <1>1, <1>2, <1>3, <1>4, <1>6 DEF FormatChunk
  <2>3. FormatChunk(b, c) = FormatMessage(e, c)
    BY <1>1, <1>2, <1>3, <1>4, <1>6 DEF FormatChunk
  <2>4. QED BY <2>1, <2>2, <2>3
<1>7. CASE c.type # "messages" /\ IncludeEvents
  <2>1. PICK kind, text : kind = c.type /\ text = <<c.seq>>
    OBVIOUS
  <2>2. kind \in Kinds /\ kind # "added"
    BY <2>1, <1>7 DEF IsRow, Kinds
  <2>3. Follows(Emit(d, kind, 0, text), Emit(e, kind, 0, text), w)
    BY <2>2, <1>5, FollowsEmit
  <2>4. FormatChunk(a, c) = Emit(d, kind, 0, text)
    BY <2>1, <1>1, <1>2, <1>3, <1>4, <1>7 DEF FormatChunk
  <2>5. FormatChunk(b, c) = Emit(e, kind, 0, text)
    BY <2>1, <1>1, <1>2, <1>3, <1>4, <1>7 DEF FormatChunk
  <2>6. QED BY <2>3, <2>4, <2>5
<1>8. CASE c.type # "messages" /\ ~IncludeEvents
  <2>1. FormatChunk(a, c) = d
    BY <1>1, <1>2, <1>3, <1>4, <1>8 DEF FormatChunk
  <2>2. FormatChunk(b, c) = e
    BY <1>1, <1>2, <1>3, <1>4, <1>8 DEF FormatChunk
  <2>3. QED BY <2>1, <2>2, <1>5
<1>9. QED BY <1>6, <1>7, <1>8, ConstantsAssumption

\* What is put out next does not depend on what was put out before.
Cleared(a) == [a EXCEPT !.out = <<>>]

LEMMA ClearedFacts ==
    ASSUME NEW a, IsAdapter(a)
    PROVE  LET b == Cleared(a)
           IN  /\ IsAdapter(b)
               /\ b.items = a.items /\ b.active = a.active /\ b.count = a.count /\ b.number = a.number
               /\ b.started = a.started /\ b.ended = a.ended /\ b.out = <<>>
<1>1. PICK b, x : b = Cleared(a) /\ x = <<>>
  OBVIOUS
<1>2. b = Adapter(a.items, a.active, a.count, a.number, a.started, a.ended, x)
  BY <1>1, AdapterChanges DEF IsAdapter, Cleared
<1>3. /\ b.items = a.items /\ b.active = a.active /\ b.count = a.count /\ b.number = a.number
      /\ b.started = a.started /\ b.ended = a.ended /\ b.out = x
  BY <1>2 DEF Adapter
<1>4. IsAdapter(b)
  <2>1. b = Adapter(b.items, b.active, b.count, b.number, b.started, b.ended, b.out)
    BY <1>2, <1>3
  <2>2. IsList(x)
    BY <1>1, JoinedWithNone DEF IsAdapter
  <2>3. QED BY <2>1, <2>2, <1>3 DEF IsAdapter
<1>5. QED BY <1>1, <1>3, <1>4

LEMMA ClearedFollows ==
    ASSUME NEW a, NEW b, NEW w, Follows(a, b, w)
    PROVE  Follows(Cleared(a), b, b.out)
<1>1. PICK d : d = Cleared(a)
  OBVIOUS
<1>2. IsAdapter(a) /\ IsAdapter(b) /\ Twin(a, b, w) /\ Good(b) /\ IsList(b.out)
  BY DEF Follows, Twin, IsAdapter
<1>3. /\ IsAdapter(d)
      /\ d.items = a.items /\ d.active = a.active /\ d.count = a.count /\ d.number = a.number
      /\ d.started = a.started /\ d.ended = a.ended /\ d.out = <<>>
  BY <1>1, <1>2, ClearedFacts
<1>4. b.out = b.out \o <<>>
  BY <1>2, JoinedWithNone
<1>5. Twin(d, b, b.out)
  BY <1>2, <1>3, <1>4 DEF Twin
<1>6. QED BY <1>1, <1>2, <1>5 DEF Follows

\* The adapter that a connection begins with
Start == FormatStart(NewAdapter)

LEMMA StartFacts == Follows(Start, Start, <<>>)
<1>1. PICK a : a = [NewAdapter EXCEPT !.started = TRUE]
  OBVIOUS
<1>2. /\ a.items = <<>> /\ a.number = 0 /\ a.started = TRUE /\ a.ended = FALSE /\ a.out = <<>>
      /\ a = Adapter(a.items, a.active, a.count, a.number, a.started, a.ended, a.out)
  <2>1. PICK v2, v3 : v2 = [x \in Context |-> None] /\ v3 = [x \in Context |-> 0]
    OBVIOUS
  <2>2. a = Adapter(<<>>, v2, v3, 0, TRUE, FALSE, <<>>)
    BY <1>1, <2>1 DEF NewAdapter, Adapter
  <2>3. QED BY <2>2 DEF Adapter
<1>3. IsList(<<>>) /\ Len(<<>>) = 0 /\ <<>> \o <<>> = <<>>
  <2>1. IsList(<<>>) /\ Len(<<>>) = 0
    <3>1. <<>> \in Seq({}) /\ Len(<<>>) = 0
      BY EmptySeq
    <3>2. QED BY <3>1, SeqOfRange DEF IsList
  <2>2. QED BY <2>1, JoinedWithNone
<1>4. IsAdapter(a)
  BY <1>2, <1>3 DEF IsAdapter
<1>5. Good(a)
  <2>1. Sane(a.items, a.out, a.number)
    BY <1>2, <1>3 DEF Sane, Numbered, InOrder
  <2>2. QED BY <2>1, <1>2 DEF Good
<1>6. PICK none : none = <<>>
  OBVIOUS
<1>7. Follows(a, a, none)
  BY <1>2, <1>3, <1>4, <1>5, <1>6 DEF Follows, Twin
<1>8. PICK b : b = Emit(a, "created", 0, none)
  OBVIOUS
<1>9. Follows(b, b, none)
  <2>1. "created" \in Kinds /\ "created" # "added"
    BY DEF Kinds
  <2>2. QED BY <2>1, <1>7, <1>8, FollowsEmit
<1>10. PICK c : c = Emit(b, "in_progress", 0, none)
  OBVIOUS
<1>11. Follows(c, c, none)
  <2>1. "in_progress" \in Kinds /\ "in_progress" # "added"
    BY DEF Kinds
  <2>2. QED BY <2>1, <1>9, <1>10, FollowsEmit
<1>12. Start = c
  <2>1. NewAdapter.started = FALSE
    BY DEF NewAdapter
  <2>2. QED BY <2>1, <1>1, <1>6, <1>8, <1>10 DEF Start, FormatStart
<1>13. QED BY <1>6, <1>11, <1>12

\* The response ends after every item has, and with nothing after it.
LEMMA EndFacts ==
    ASSUME NEW a, NEW b, NEW w, Follows(a, b, w), NEW ending, NEW n \in Nat
    PROVE  \E x, e : /\ Good(x) /\ IsAdapter(x) /\ \A i \in 1..Len(x.items) : x.items[i].done
                     /\ e.number = x.number /\ e.item = 0 /\ e.kind \in {"completed", "failed"}
                     /\ FormatEnd(SetSource(b, n), ending).out = Append(x.out, e)
                     /\ Twin(FormatEnd(SetSource(a, n), ending), FormatEnd(SetSource(b, n), ending), w)
<1>1. PICK c, d : c = SetSource(a, n) /\ d = SetSource(b, n)
  OBVIOUS
<1>2. Follows(c, d, w)
  BY <1>1, FollowsSource
<1>3. c.started = TRUE /\ d.started = TRUE /\ c.ended = FALSE /\ d.ended = FALSE
  BY <1>2 DEF Follows, Twin, Good
<1>4. FormatStart(c) = c /\ FormatStart(d) = d
  BY <1>3 DEF FormatStart
<1>5. PICK f, g : f = CloseAll(c) /\ g = CloseAll(d)
  OBVIOUS
<1>6. Follows(f, g, w) /\ \A i \in 1..Len(g.items) : g.items[i].done
  BY <1>2, <1>5, FollowsCloseAll
<1>7. PICK kind, text : kind = (IF ending = "completed" THEN "completed" ELSE "failed") /\ text = <<>>
  OBVIOUS
<1>8. PICK t, h, k : t = TRUE /\ h = [f EXCEPT !.ended = t] /\ k = [g EXCEPT !.ended = t]
  OBVIOUS
<1>9. Twin(f, g, w) /\ IsAdapter(f) /\ IsAdapter(g) /\ Good(g)
  BY <1>6 DEF Follows, Twin
<1>10. /\ h = Adapter(f.items, f.active, f.count, f.number, f.started, t, f.out)
       /\ k = Adapter(g.items, g.active, g.count, g.number, g.started, t, g.out)
  <2>1. h = Adapter(f.items, f.active, f.count, f.number, f.started, t, f.out)
    <3>1. f = Adapter(f.items, f.active, f.count, f.number, f.started, f.ended, f.out)
      BY <1>9 DEF IsAdapter
    <3>2. h = [f EXCEPT !.ended = t]
      BY <1>8
    <3>3. QED BY <3>1, <3>2, AdapterChanges
  <2>2. k = Adapter(g.items, g.active, g.count, g.number, g.started, t, g.out)
    <3>1. g = Adapter(g.items, g.active, g.count, g.number, g.started, g.ended, g.out)
      BY <1>9 DEF IsAdapter
    <3>2. k = [g EXCEPT !.ended = t]
      BY <1>8
    <3>3. QED BY <3>1, <3>2, AdapterChanges
  <2>3. QED BY <2>1, <2>2
<1>11. /\ h.items = f.items /\ h.active = f.active /\ h.count = f.count /\ h.number = f.number
       /\ h.started = f.started /\ h.ended = t /\ h.out = f.out
       /\ k.items = g.items /\ k.active = g.active /\ k.count = g.count /\ k.number = g.number
       /\ k.started = g.started /\ k.ended = t /\ k.out = g.out
  BY <1>10 DEF Adapter
<1>12. IsAdapter(h) /\ IsAdapter(k)
  <2>1. /\ h = Adapter(h.items, h.active, h.count, h.number, h.started, h.ended, h.out)
        /\ k = Adapter(k.items, k.active, k.count, k.number, k.started, k.ended, k.out)
    BY <1>10, <1>11
  <2>2. QED BY <2>1, <1>9, <1>11 DEF IsAdapter
<1>13. Twin(h, k, w)
  BY <1>9, <1>11, <1>12 DEF Twin
<1>14. /\ FormatEnd(c, ending) = Emit(h, kind, 0, text)
       /\ FormatEnd(d, ending) = Emit(k, kind, 0, text)
  BY <1>3, <1>4, <1>5, <1>7, <1>8 DEF FormatEnd
<1>15. Twin(Emit(h, kind, 0, text), Emit(k, kind, 0, text), w)
  BY <1>13, EmitTwins
<1>16. PICK e : e = [kind |-> kind, item |-> 0, text |-> text, number |-> k.number]
  OBVIOUS
<1>17. Emit(k, kind, 0, text).out = Append(k.out, e)
  BY <1>12, <1>16, EmitFacts
<1>18. e.number = g.number /\ e.item = 0 /\ e.kind \in {"completed", "failed"}
  BY <1>7, <1>11, <1>16
<1>19. /\ FormatEnd(SetSource(b, n), ending).out = Append(g.out, e)
       /\ Twin(FormatEnd(SetSource(a, n), ending), FormatEnd(SetSource(b, n), ending), w)
  BY <1>1, <1>11, <1>14, <1>15, <1>17
<1>20. QED BY <1>6, <1>9, <1>18, <1>19

-----------------------------------------------------------------------------
(* What a reader makes of the first n chunks, and what one connection does. *)

RowsUpTo(l, n) == [i \in 1..n |-> ChunkRow(l[i])]

ReadOf(l, n) == Formatted(Start, RowsUpTo(l, n))

StreamOf(l, n) == Streamed(Start, RowsUpTo(l, n))

AreRows(l) == IsList(l) /\ \A n \in 1..Len(l) : IsRow(ChunkRow(l[n]))

LEMMA RowsAgree ==
    ASSUME NEW l, NEW m, NEW n \in Nat, \A i \in 1..n : l[i] = m[i]
    PROVE  ReadOf(l, n) = ReadOf(m, n) /\ StreamOf(l, n) = StreamOf(m, n)
<1>1. RowsUpTo(l, n) = RowsUpTo(m, n)
  BY DEF RowsUpTo
<1>2. QED BY <1>1 DEF ReadOf, StreamOf

LEMMA ReadNone == \A l : ReadOf(l, 0) = Start /\ StreamOf(l, 0) = Start
<1>1. SUFFICES ASSUME NEW l PROVE ReadOf(l, 0) = Start /\ StreamOf(l, 0) = Start
  OBVIOUS
<1>2. PICK m, a : m = RowsUpTo(l, 0) /\ a = Start
  OBVIOUS
<1>3. DOMAIN m = 1..0
  BY <1>2 DEF RowsUpTo
<1>4. PICK r : Chain(FormatRule, a, m, 0, r) /\ Formatted(a, m) = r[0]
  BY <1>3, FormatFold
<1>5. PICK q : Chain(StreamRule, a, m, 0, q) /\ Streamed(a, m) = q[0]
  BY <1>3, StreamFold
<1>6. QED BY <1>2, <1>4, <1>5 DEF Chain, ReadOf, StreamOf

LEMMA ChainNext ==
    ASSUME NEW rule, NEW a, NEW n \in Nat, n > 0, NEW m, NEW k, \A i \in 1..(n - 1) : m[i] = k[i],
           NEW r, Chain(rule, a, m, n, r), NEW q, Chain(rule, a, k, n - 1, q)
    PROVE  r[n] = Apply(rule, q[n - 1], m[n])
<1>1. PICK j \in Nat : j = n - 1
  OBVIOUS
<1>2. Chain(rule, a, m, j, r) /\ Chain(rule, a, k, j, q)
  BY <1>1 DEF Chain
<1>3. r[j] = q[j]
  BY <1>1, <1>2, ChainsAgree
<1>4. n \in 1..n
  OBVIOUS
<1>5. QED BY <1>1, <1>3, <1>4 DEF Chain

LEMMA ReadNext ==
    ASSUME NEW l, NEW n \in Nat, n > 0
    PROVE  /\ ReadOf(l, n) = Format(ReadOf(l, n - 1), ChunkRow(l[n]))
           /\ StreamOf(l, n) = FormatChunk(StreamOf(l, n - 1), ChunkRow(l[n]))
<1>1. PICK m, k, a : m = RowsUpTo(l, n) /\ k = RowsUpTo(l, n - 1) /\ a = Start
  OBVIOUS
<1>2. PICK j \in Nat : j = n - 1
  OBVIOUS
<1>3. DOMAIN m = 1..n /\ DOMAIN k = 1..j /\ m[n] = ChunkRow(l[n]) /\ \A i \in 1..(n - 1) : m[i] = k[i]
  BY <1>1, <1>2 DEF RowsUpTo
<1>4. PICK fr, sr : fr = FormatRule /\ sr = StreamRule
  OBVIOUS
<1>5. \A x, c : Apply(fr, x, c) = Format(x, c)
  <2>1. fr.kind = "format"
    BY <1>4 DEF FormatRule
  <2>2. QED BY <2>1 DEF Apply
<1>6. \A x, c : Apply(sr, x, c) = FormatChunk(x, c)
  <2>1. sr.kind = "stream"
    BY <1>4 DEF StreamRule
  <2>2. QED BY <2>1 DEF Apply
<1>7. PICK r : Chain(fr, a, m, n, r) /\ Formatted(a, m) = r[n]
  BY <1>3, <1>4, FormatFold
<1>8. PICK q : Chain(fr, a, k, j, q) /\ Formatted(a, k) = q[j]
  BY <1>3, <1>4, FormatFold
<1>9. r[n] = Apply(fr, q[j], m[n])
  BY <1>2, <1>3, <1>7, <1>8, ChainNext
<1>10. PICK u : Chain(sr, a, m, n, u) /\ Streamed(a, m) = u[n]
  BY <1>3, <1>4, StreamFold
<1>11. PICK v : Chain(sr, a, k, j, v) /\ Streamed(a, k) = v[j]
  BY <1>3, <1>4, StreamFold
<1>12. u[n] = Apply(sr, v[j], m[n])
  BY <1>2, <1>3, <1>10, <1>11, ChainNext
<1>13. ReadOf(l, n) = r[n] /\ ReadOf(l, n - 1) = q[j]
  BY <1>1, <1>7, <1>8 DEF ReadOf
<1>14. StreamOf(l, n) = u[n] /\ StreamOf(l, n - 1) = v[j]
  BY <1>1, <1>10, <1>11 DEF StreamOf
<1>15. QED BY <1>3, <1>5, <1>6, <1>9, <1>12, <1>13, <1>14

\* A chunk that is read after others adds to the stream what it brings.
LEMMA OneMoreRead ==
    ASSUME NEW a, NEW b, NEW w, Follows(a, b, w), NEW c, IsRow(c)
    PROVE  Follows(Format(a, c), FormatChunk(b, c), b.out)
<1>1. PICK d : d = Cleared(a)
  OBVIOUS
<1>2. Follows(d, b, b.out)
  BY <1>1, ClearedFollows
<1>3. Follows(FormatChunk(d, c), FormatChunk(b, c), b.out)
  BY <1>2, FollowsChunk
<1>4. QED BY <1>1, <1>3 DEF Format, Cleared

LEMMA ReadFollows ==
    ASSUME NEW l, AreRows(l), NEW n \in 0..Len(l)
    PROVE  \E w : Follows(ReadOf(l, n), StreamOf(l, n), w)
<1> DEFINE Bad == {k \in 0..Len(l) : ~ \E w : Follows(ReadOf(l, k), StreamOf(l, k), w)}
<1>0. Len(l) \in Nat
  BY ListFacts DEF AreRows
<1>1. SUFFICES ASSUME Bad # {} PROVE FALSE
  OBVIOUS
<1>2. PICK k \in Bad : \A j \in Bad : k <= j
  <2>1. Bad \in SUBSET Nat
    OBVIOUS
  <2>2. QED BY <1>1, <2>1, LeastNumber
<1>3. k # 0
  <2>1. ReadOf(l, 0) = Start /\ StreamOf(l, 0) = Start
    BY ReadNone
  <2>2. QED BY <2>1, <1>2, StartFacts
<1>4. k \in Nat /\ k > 0 /\ k - 1 \in 0..Len(l) /\ k - 1 \notin Bad /\ k \in 1..Len(l)
  BY <1>0, <1>2, <1>3
<1>5. PICK a, b, c : a = ReadOf(l, k - 1) /\ b = StreamOf(l, k - 1) /\ c = ChunkRow(l[k])
  OBVIOUS
<1>6. PICK w : Follows(a, b, w)
  BY <1>4, <1>5
<1>7. IsRow(c)
  BY <1>4, <1>5 DEF AreRows
<1>8. Follows(Format(a, c), FormatChunk(b, c), b.out)
  BY <1>6, <1>7, OneMoreRead
<1>9. ReadOf(l, k) = Format(a, c) /\ StreamOf(l, k) = FormatChunk(b, c)
  BY <1>4, <1>5, ReadNext
<1>10. QED BY <1>2, <1>8, <1>9

\* The stream of n chunks is that of all but the last of them, and what the last brings.
LEMMA StreamGrows ==
    ASSUME NEW l, AreRows(l), NEW n \in 1..Len(l)
    PROVE  /\ StreamOf(l, n).out = StreamOf(l, n - 1).out \o ReadOf(l, n).out
           /\ IsList(StreamOf(l, n).out) /\ IsList(StreamOf(l, n - 1).out) /\ IsList(ReadOf(l, n).out)
<1>0. Len(l) \in Nat
  BY ListFacts DEF AreRows
<1>1. n \in Nat /\ n > 0 /\ n - 1 \in 0..Len(l)
  BY <1>0
<1>2. PICK a, b, c, j : a = ReadOf(l, n - 1) /\ b = StreamOf(l, n - 1) /\ c = ChunkRow(l[n]) /\ j = n - 1
  OBVIOUS
<1>3. PICK w : Follows(a, b, w)
  <2>1. j \in 0..Len(l)
    BY <1>1, <1>2
  <2>2. PICK w : Follows(ReadOf(l, j), StreamOf(l, j), w)
    BY <2>1, ReadFollows
  <2>3. QED BY <2>2, <1>2
<1>4. IsRow(c)
  BY <1>2 DEF AreRows
<1>5. Follows(Format(a, c), FormatChunk(b, c), b.out)
  BY <1>3, <1>4, OneMoreRead
<1>6. ReadOf(l, n) = Format(a, c) /\ StreamOf(l, n) = FormatChunk(b, c)
  BY <1>1, <1>2, ReadNext
<1>7. QED BY <1>2, <1>3, <1>5, <1>6 DEF Follows, Twin, IsAdapter

\* One list begins with another.
Begins(s, t) ==
    /\ IsList(s) /\ IsList(t) /\ Len(s) <= Len(t)
    /\ \A i \in 1..Len(s) : t[i] = s[i]

LEMMA BeginsTwice ==
    ASSUME NEW s, NEW t, NEW u, Begins(s, t), Begins(t, u)
    PROVE  Begins(s, u)
<1>1. Len(s) \in Nat /\ Len(t) \in Nat /\ Len(u) \in Nat
  BY ListFacts DEF Begins
<1>2. \A i \in 1..Len(s) : i \in 1..Len(t)
  BY <1>1 DEF Begins
<1>3. QED BY <1>1, <1>2 DEF Begins

LEMMA JoinedBegins ==
    ASSUME NEW s, NEW t, IsList(s), IsList(t)
    PROVE  Begins(s, s \o t) /\ Begins(s, s)
<1>1. Len(s) \in Nat /\ Len(t) \in Nat
  BY ListFacts
<1>2. /\ IsList(s \o t) /\ Len(s \o t) = Len(s) + Len(t)
      /\ \A i \in 1..Len(s) : (s \o t)[i] = s[i]
  BY JoinedLists
<1>3. QED BY <1>1, <1>2 DEF Begins

LEMMA StreamsBegin ==
    ASSUME NEW l, AreRows(l), NEW m \in 0..Len(l), NEW n \in 0..Len(l), m <= n
    PROVE  Begins(StreamOf(l, m).out, StreamOf(l, n).out)
<1> DEFINE Bad == {k \in m..Len(l) : ~Begins(StreamOf(l, m).out, StreamOf(l, k).out)}
<1>0. Len(l) \in Nat /\ m \in Nat /\ n \in m..Len(l)
  BY ListFacts DEF AreRows
<1>1. SUFFICES ASSUME Bad # {} PROVE FALSE
  BY <1>0
<1>2. PICK k \in Bad : \A j \in Bad : k <= j
  <2>1. Bad \in SUBSET Nat
    BY <1>0
  <2>2. QED BY <1>1, <2>1, LeastNumber
<1>3. k # m
  <2>1. PICK w : Follows(ReadOf(l, m), StreamOf(l, m), w)
    BY ReadFollows
  <2>2. IsList(StreamOf(l, m).out)
    BY <2>1 DEF Follows, Twin, IsAdapter
  <2>3. PICK s : s = StreamOf(l, m).out
    OBVIOUS
  <2>4. Begins(s, s)
    BY <2>2, <2>3, JoinedBegins
  <2>5. QED BY <2>3, <2>4, <1>2
<1>4. k - 1 \in m..Len(l) /\ k - 1 \notin Bad /\ k \in 1..Len(l)
  BY <1>0, <1>2, <1>3
<1>5. PICK s, t, u : s = StreamOf(l, m).out /\ t = StreamOf(l, k - 1).out /\ u = ReadOf(l, k).out
  OBVIOUS
<1>6. Begins(s, t)
  BY <1>4, <1>5
<1>7. StreamOf(l, k).out = t \o u /\ IsList(t) /\ IsList(u)
  BY <1>4, <1>5, StreamGrows
<1>8. Begins(t, t \o u)
  BY <1>7, JoinedBegins
<1>9. Begins(s, t \o u)
  BY <1>6, <1>8, BeginsTwice
<1>10. QED BY <1>2, <1>5, <1>7, <1>9

-----------------------------------------------------------------------------
(* What the client has received.                                            *)

Complete(l, ending) == FormatEnd(SetSource(StreamOf(l, Len(l)), Len(l) + 1), ending).out

\* What one connection could have brought by now
Sent(l, written, ending) == IF written THEN Complete(l, ending) ELSE StreamOf(l, Len(l)).out

\* The events are the first p of the stream; they include all chunks up to the last
\* id, and up to the cursor of an open connection.
Reached(s, l, p, events, lastId, open, cursor) ==
    /\ p \in 0..Len(s)
    /\ Range(events) = {s[i] : i \in 1..p}
    /\ lastId \in 0..Len(l) => Len(StreamOf(l, lastId).out) <= p
    /\ open => Len(StreamOf(l, cursor).out) <= p

Telling ==
    /\ AreRows(log)
    /\ db.chunks = IF db.written THEN {ChunkRow(log[n]) : n \in 1..Len(log)} ELSE {}
    /\ client.lastId = Len(log) + 1 => db.written
    /\ client.whole =>
          /\ IsList(client.events)
          /\ conn.open => conn.cursor \in 0..Len(log) /\ conn.adapter = Cleared(ReadOf(log, conn.cursor))
          /\ \E p : Reached(Sent(log, db.written, status), log, p,
                            client.events, client.lastId, conn.open, conn.cursor)

LEMMA CompleteGrows ==
    ASSUME NEW l, AreRows(l), NEW ending
    PROVE  LET n == Len(l)
               a == Cleared(ReadOf(l, n))
               out == FormatEnd(SetSource(a, n + 1), ending).out
           IN  /\ Complete(l, ending) = StreamOf(l, n).out \o out
               /\ IsList(out) /\ IsList(StreamOf(l, n).out)
<1>1. PICK n \in Nat : n = Len(l)
  BY ListFacts DEF AreRows
<1>2. PICK w : Follows(ReadOf(l, n), StreamOf(l, n), w)
  BY <1>1, ReadFollows
<1>3. PICK a, b : a = Cleared(ReadOf(l, n)) /\ b = StreamOf(l, n)
  OBVIOUS
<1>4. Follows(a, b, b.out)
  BY <1>2, <1>3, ClearedFollows
<1>5. n + 1 \in Nat
  OBVIOUS
<1>6. Twin(FormatEnd(SetSource(a, n + 1), ending), FormatEnd(SetSource(b, n + 1), ending), b.out)
  BY <1>4, <1>5, EndFacts
<1>7. PICK c, d : c = FormatEnd(SetSource(a, n + 1), ending) /\ d = FormatEnd(SetSource(b, n + 1), ending)
  OBVIOUS
<1>8. d.out = b.out \o c.out /\ IsList(c.out) /\ IsList(b.out)
  BY <1>6, <1>7, <1>4 DEF Twin, IsAdapter, Follows
<1>9. QED BY <1>1, <1>3, <1>7, <1>8 DEF Complete

LEMMA SentBegins ==
    ASSUME NEW l, AreRows(l), NEW n \in 0..Len(l), NEW written, NEW ending
    PROVE  /\ Begins(StreamOf(l, n).out, Sent(l, written, ending))
           /\ Begins(StreamOf(l, n).out, StreamOf(l, Len(l)).out)
           /\ Begins(Sent(l, written, ending), Complete(l, ending))
<1>1. PICK m \in Nat : m = Len(l) /\ m \in 0..Len(l) /\ n <= m
  BY ListFacts DEF AreRows
<1>2. PICK s, t, out : /\ s = StreamOf(l, n).out /\ t = StreamOf(l, m).out
                       /\ out = FormatEnd(SetSource(Cleared(ReadOf(l, m)), m + 1), ending).out
  OBVIOUS
<1>3. Begins(s, t)
  BY <1>1, <1>2, StreamsBegin
<1>4. Complete(l, ending) = t \o out /\ IsList(out) /\ IsList(t)
  BY <1>1, <1>2, CompleteGrows
<1>5. Begins(t, t \o out) /\ Begins(t, t)
  BY <1>4, JoinedBegins
<1>6. Begins(s, t \o out)
  BY <1>3, <1>5, BeginsTwice
<1>7. Begins(t \o out, t \o out)
  <2>1. IsList(t \o out)
    BY <1>5 DEF Begins
  <2>2. PICK u : u = t \o out
    OBVIOUS
  <2>3. QED BY <2>1, <2>2, JoinedBegins
<1>8. QED BY <1>1, <1>2, <1>3, <1>4, <1>5, <1>6, <1>7 DEF Sent

\* A stream that begins with another has reached what that has.
LEMMA ReachedLater ==
    ASSUME NEW s, NEW t, Begins(s, t), NEW l, IsList(l), NEW m, IsList(m), Len(l) <= Len(m),
           \A n \in 1..Len(l) : m[n] = l[n],
           NEW p, NEW events, NEW lastId, lastId \in 0..Len(m) => lastId \in 0..Len(l),
           NEW open, NEW cursor, open => cursor \in 0..Len(l),
           Reached(s, l, p, events, lastId, open, cursor)
    PROVE  Reached(t, m, p, events, lastId, open, cursor)
<1>1. Len(s) \in Nat /\ Len(t) \in Nat /\ Len(l) \in Nat /\ Len(m) \in Nat
  BY ListFacts DEF Begins
<1>2. p \in 0..Len(t)
  BY <1>1 DEF Reached, Begins
<1>3. Range(events) = {t[i] : i \in 1..p}
  <2>1. \A i \in 1..p : i \in 1..Len(s)
    BY <1>1 DEF Reached
  <2>2. \A i \in 1..p : t[i] = s[i]
    BY <2>1 DEF Begins
  <2>3. QED BY <2>2 DEF Reached
<1>4. ASSUME NEW n \in 0..Len(l)
      PROVE  StreamOf(m, n) = StreamOf(l, n)
  <2>1. n \in Nat /\ \A i \in 1..n : m[i] = l[i]
    BY <1>1
  <2>2. QED BY <2>1, RowsAgree
<1>5. lastId \in 0..Len(m) => Len(StreamOf(m, lastId).out) <= p
  BY <1>4 DEF Reached
<1>6. open => Len(StreamOf(m, cursor).out) <= p
  BY <1>4 DEF Reached
<1>7. QED BY <1>2, <1>3, <1>5, <1>6 DEF Reached

-----------------------------------------------------------------------------
(* A call that the client receives, or the beginning of it.                 *)

LEMMA RangeJoined ==
    ASSUME NEW s, IsList(s), NEW t, IsList(t)
    PROVE  Range(s \o t) = Range(s) \cup Range(t)
<1>1. PICK u : u = s \o t
  OBVIOUS
<1>2. /\ IsList(u) /\ Len(u) = Len(s) + Len(t)
      /\ \A i \in 1..Len(s) : u[i] = s[i]
      /\ \A i \in 1..Len(t) : u[Len(s) + i] = t[i]
  BY <1>1, JoinedLists
<1>3. /\ Len(s) \in Nat /\ Len(t) \in Nat
      /\ Range(s) = {s[i] : i \in 1..Len(s)} /\ Range(t) = {t[i] : i \in 1..Len(t)}
      /\ Range(u) = {u[i] : i \in 1..Len(u)}
  BY <1>2, ListFacts
<1>4. ASSUME NEW x \in Range(u)
      PROVE  x \in Range(s) \cup Range(t)
  <2>1. PICK i \in 1..Len(u) : x = u[i]
    BY <1>3
  <2>2. CASE i \in 1..Len(s)
    BY <2>1, <2>2, <1>2, <1>3
  <2>3. CASE i \notin 1..Len(s)
    <3>1. PICK j \in 1..Len(t) : i = Len(s) + j
      <4>1. i - Len(s) \in 1..Len(t) /\ i = Len(s) + (i - Len(s))
        BY <2>3, <1>2, <1>3
      <4>2. QED BY <4>1
    <3>2. QED BY <3>1, <2>1, <1>2, <1>3
  <2>4. QED BY <2>2, <2>3
<1>5. ASSUME NEW x \in Range(s) \cup Range(t)
      PROVE  x \in Range(u)
  <2>1. CASE x \in Range(s)
    <3>1. PICK i \in 1..Len(s) : x = s[i]
      BY <2>1, <1>3
    <3>2. i \in 1..Len(u) /\ x = u[i]
      BY <3>1, <1>2, <1>3
    <3>3. QED BY <3>2, <1>3
  <2>2. CASE x \in Range(t)
    <3>1. PICK i \in 1..Len(t) : x = t[i]
      BY <2>2, <1>3
    <3>2. Len(s) + i \in 1..Len(u) /\ x = u[Len(s) + i]
      BY <3>1, <1>2, <1>3
    <3>3. QED BY <3>2, <1>3
  <2>3. QED BY <2>1, <2>2
<1>6. QED BY <1>1, <1>4, <1>5

LEMMA FirstOfList ==
    ASSUME NEW out, IsList(out), NEW j \in 0..Len(out)
    PROVE  LET t == SubSeq(out, 1, j)
           IN  IsList(t) /\ Len(t) = j /\ Range(t) = {out[i] : i \in 1..j}
<1>1. Len(out) \in Nat
  BY ListFacts
<1>2. PICK t : t = SubSeq(out, 1, j)
  OBVIOUS
<1>3. t \in Seq(Range(out)) /\ Len(t) = j /\ \A i \in 1..j : t[i] = out[i]
  <2>1. \A i \in 1..j : out[i] \in Range(out)
    BY <1>1, ListFacts
  <2>2. PICK n \in Nat : n = j /\ 1 \in Int /\ n \in Int
    BY <1>1
  <2>3. SubSeq(out, 1, n) \in Seq(Range(out)) /\ Len(SubSeq(out, 1, n)) = (IF 1 <= n THEN n - 1 + 1 ELSE 0)
        /\ \A i \in 1..(n - 1 + 1) : SubSeq(out, 1, n)[i] = out[1 + i - 1]
    BY <2>1, <2>2, SubSeqProperties
  <2>4. Len(t) = j
    BY <2>2, <2>3, <1>2
  <2>5. ASSUME NEW i \in 1..j PROVE t[i] = out[i]
    <3>1. i \in 1..(n - 1 + 1) /\ 1 + i - 1 = i
      BY <2>2
    <3>2. QED BY <3>1, <2>2, <2>3, <1>2
  <2>6. QED BY <2>2, <2>3, <2>4, <2>5, <1>2
<1>4. IsList(t) /\ Range(t) = {out[i] : i \in 1..j}
  <2>1. IsList(t)
    BY <1>3, SeqOfRange DEF IsList
  <2>2. Range(t) = {t[i] : i \in 1..j}
    BY <2>1, <1>3, ListFacts
  <2>3. QED BY <2>1, <2>2, <1>3
<1>5. QED BY <1>2, <1>3, <1>4

Firsts(s, p) == {s[i] : i \in 1..p}

\* What comes after the first m of s is out.
Continues(s, m, out) == \A i \in 1..Len(out) : m + i \in 1..Len(s) /\ s[m + i] = out[i]

MoreOf(s, p, n, e) == \E q \in 0..Len(s) : p <= q /\ n <= q /\ Range(e) = Firsts(s, q)

LEMMA ReceivedMore ==
    ASSUME NEW s, IsList(s), NEW events, IsList(events), NEW p \in 0..Len(s), Range(events) = Firsts(s, p),
           NEW out, IsList(out), NEW m \in 0..p, Continues(s, m, out), NEW j \in 0..Len(out)
    PROVE  MoreOf(s, p, m + j, events \o SubSeq(out, 1, j))
<1>0. Range(events) = {s[i] : i \in 1..p} /\ \A i \in 1..Len(out) : m + i \in 1..Len(s) /\ s[m + i] = out[i]
  BY DEF Firsts, Continues
<1>1. Len(s) \in Nat /\ Len(out) \in Nat
  BY ListFacts
<1>2. PICK t : t = SubSeq(out, 1, j)
  OBVIOUS
<1>4. IsList(t) /\ Range(t) = {out[i] : i \in 1..j}
  BY <1>2, FirstOfList
<1>5. PICK q \in 0..Len(s) : q = IF m + j <= p THEN p ELSE m + j
  <2>1. m + j \in 0..Len(s)
    <3>1. CASE j = 0
      BY <3>1, <1>1
    <3>2. CASE j # 0
      <4>1. j \in 1..Len(out)
        BY <3>2, <1>1
      <4>2. QED BY <4>1, <1>0, <1>1
    <3>3. QED BY <3>1, <3>2
  <2>2. QED BY <2>1
<1>6. p <= q /\ m + j <= q
  BY <1>1, <1>5
<1>7. {out[i] : i \in 1..j} = {s[m + i] : i \in 1..j}
  <2>1. \A i \in 1..j : i \in 1..Len(out)
    BY <1>1
  <2>2. QED BY <2>1, <1>0
<1>8. {s[i] : i \in 1..p} \cup {s[m + i] : i \in 1..j} = {s[i] : i \in 1..q}
  <2>1. ASSUME NEW i \in 1..q
        PROVE  s[i] \in {s[k] : k \in 1..p} \cup {s[m + k] : k \in 1..j}
    <3>1. CASE i \in 1..p
      BY <3>1
    <3>2. CASE i \notin 1..p
      <4>1. i - m \in 1..j /\ m + (i - m) = i
        BY <3>2, <1>1, <1>5
      <4>2. PICK k \in 1..j : i = m + k
        BY <4>1
      <4>3. QED BY <4>2
    <3>3. QED BY <3>1, <3>2
  <2>2. \A i \in 1..p : i \in 1..q
    BY <1>1, <1>5
  <2>3. \A i \in 1..j : m + i \in 1..q
    BY <1>1, <1>5
  <2>4. QED BY <2>1, <2>2, <2>3
<1>9. IsList(events \o t) /\ Range(events \o t) = Range(events) \cup Range(t)
  BY <1>4, JoinedLists, RangeJoined
<1>10. Range(events \o t) = {s[i] : i \in 1..q}
  BY <1>0, <1>4, <1>7, <1>8, <1>9
<1>11. QED BY <1>2, <1>6, <1>10 DEF MoreOf, Firsts

Connection(open, via, cursor, whole, adapter) ==
    [open |-> open, via |-> via, cursor |-> cursor, whole |-> whole, adapter |-> adapter]

\* A step that brings what a put out, or the first of it
Brings(open, cursor, whole, a, id) ==
    \E j \in 0..Len(a.out) :
        /\ conn'.open <=> (open /\ j = Len(a.out))
        /\ conn'.cursor = cursor /\ conn'.adapter = Cleared(a)
        /\ client'.events = client.events \o SubSeq(a.out, 1, j)
        /\ client'.lastId = IF j < Len(a.out) \/ a.out = <<>> THEN client.lastId ELSE id
        /\ client'.whole <=> (client.whole /\ whole)

LEMMA SendFacts ==
    ASSUME NEW open, NEW via, NEW cursor, NEW whole, NEW a, IsList(a.out),
           NEW next, next = Connection(open, via, cursor, whole, a),
           NEW id, Send(next, id), Inv
    PROVE  Brings(open, cursor, whole, a, id)
<1>1. Len(a.out) \in Nat
  BY ListFacts
<1>2. next.adapter = a /\ next.open = open /\ next.cursor = cursor /\ next.whole = whole
  BY DEF Connection
<1>3. PICK j \in 0..Len(a.out) :
        /\ conn' = [next EXCEPT !.open = open /\ j = Len(a.out), !.adapter = Cleared(a)]
        /\ client' = [Received(a.out, j, id) EXCEPT !.whole = @ /\ whole]
  <2>1. PICK j \in IF opened' < agent.connections THEN 0..Len(next.adapter.out) ELSE {Len(next.adapter.out)} :
          /\ conn' = [next EXCEPT !.open = @ /\ j = Len(next.adapter.out), !.adapter.out = <<>>]
          /\ client' = [Received(next.adapter.out, j, id) EXCEPT !.whole = @ /\ next.whole]
    BY DEF Send
  <2>2. j \in 0..Len(a.out)
    BY <2>1, <1>1, <1>2
  <2>3. conn' = [next EXCEPT !.open = open /\ j = Len(a.out), !.adapter = Cleared(a)]
    <3>1. [next EXCEPT !.open = @ /\ j = Len(next.adapter.out), !.adapter.out = <<>>]
          = [next EXCEPT !.open = next.open /\ j = Len(next.adapter.out),
                         !.adapter = [next.adapter EXCEPT !.out = <<>>]]
      BY DEF Connection
    <3>2. QED BY <3>1, <2>1, <1>2 DEF Cleared
  <2>4. client' = [Received(a.out, j, id) EXCEPT !.whole = @ /\ whole]
    BY <2>1, <1>2
  <2>5. QED BY <2>2, <2>3, <2>4
<1>4. PICK o, d : (o = (open /\ j = Len(a.out))) /\ d = Cleared(a)
  OBVIOUS
<1>5. conn' = Connection(o, via, cursor, whole, d)
  <2>1. conn' = [next EXCEPT !.open = o, !.adapter = d]
    BY <1>3, <1>4
  <2>2. QED BY <2>1 DEF Connection
<1>6. /\ client'.events = client.events \o SubSeq(a.out, 1, j)
      /\ client'.lastId = IF j < Len(a.out) \/ a.out = <<>> THEN client.lastId ELSE id
      /\ client'.whole = (client.whole /\ whole)
  BY <1>2, <1>3 DEF Received
<1>7. conn'.open = o /\ conn'.cursor = cursor /\ conn'.adapter = d
  BY <1>5 DEF Connection
<1>8. QED BY <1>4, <1>6, <1>7 DEF Brings

\* What a call brings is what the stream has next.
LEMMA SendTold ==
    ASSUME Inv, Telling, client.whole, NEW s, s = Sent(log, db.written, status), IsList(s),
           NEW open, NEW via, NEW cursor, NEW whole, NEW a, IsList(a.out),
           NEW next, next = Connection(open, via, cursor, whole, a),
           NEW id \in 0..Len(log) + 1, Send(next, id), id = Len(log) + 1 => db.written,
           NEW m,
           \A p : Reached(s, log, p, client.events, client.lastId, conn.open, conn.cursor)
                     /\ whole => m \in 0..p,
           whole => Continues(s, m, a.out),
           whole /\ open =>
              /\ cursor \in 0..Len(log) /\ Cleared(a) = Cleared(ReadOf(log, cursor))
              /\ Len(StreamOf(log, cursor).out) <= m + Len(a.out),
           whole /\ id \in 0..Len(log) => Len(StreamOf(log, id).out) <= m + Len(a.out)
    PROVE  Telling'
<1>1. UNCHANGED <<log, db, status>>
  BY DEF Send, executor
<1>2. PICK j \in 0..Len(a.out) :
              /\ conn'.open <=> (open /\ j = Len(a.out))
              /\ conn'.cursor = cursor /\ conn'.adapter = Cleared(a)
              /\ client'.events = client.events \o SubSeq(a.out, 1, j)
              /\ client'.lastId = IF j < Len(a.out) \/ a.out = <<>> THEN client.lastId ELSE id
              /\ client'.whole <=> (client.whole /\ whole)
  <2>1. IsList(a.out) /\ next = Connection(open, via, cursor, whole, a) /\ Send(next, id) /\ Inv
    OBVIOUS
  <2>2. Brings(open, cursor, whole, a, id)
    BY <2>1, SendFacts
  <2>3. QED BY <2>2 DEF Brings
<1>3. Len(a.out) \in Nat /\ Len(s) \in Nat /\ Len(log) \in Nat
  BY ListFacts DEF Telling, AreRows
<1>4. AreRows(log') /\ db'.chunks = IF db'.written THEN {ChunkRow(log'[n]) : n \in 1..Len(log')} ELSE {}
  BY <1>1 DEF Telling
<1>5. IsList(client'.events)
  <2>1. IsList(client.events)
    BY DEF Telling
  <2>2. PICK t : t = SubSeq(a.out, 1, j)
    OBVIOUS
  <2>3. IsList(t)
    BY <2>2, FirstOfList
  <2>4. IsList(client.events \o t)
    BY <2>1, <2>3, JoinedLists
  <2>5. QED BY <2>2, <2>4, <1>2
<1>6. client'.lastId = Len(log') + 1 => db'.written
  BY <1>1, <1>2 DEF Telling
<1>7. ASSUME client'.whole
      PROVE  /\ IsList(client'.events)
             /\ conn'.open => conn'.cursor \in 0..Len(log') /\ conn'.adapter = Cleared(ReadOf(log', conn'.cursor))
             /\ \E p : Reached(Sent(log', db'.written, status'), log', p,
                               client'.events, client'.lastId, conn'.open, conn'.cursor)
  <2>1. client.whole /\ whole
    BY <1>2, <1>7
  <2>2. conn'.open => conn'.cursor \in 0..Len(log') /\ conn'.adapter = Cleared(ReadOf(log', conn'.cursor))
    BY <2>1, <1>1, <1>2
  <2>3. PICK p : Reached(s, log, p, client.events, client.lastId, conn.open, conn.cursor)
    BY <2>1 DEF Telling
  <2>4. m \in 0..p /\ p \in 0..Len(s) /\ Range(client.events) = {s[i] : i \in 1..p}
    BY <2>1, <2>3 DEF Reached
  <2>5. PICK q \in 0..Len(s) : /\ p <= q /\ m + j <= q
                               /\ Range(client.events \o SubSeq(a.out, 1, j)) = {s[i] : i \in 1..q}
    <3>1. PICK out, events, e : out = a.out /\ events = client.events /\ e = events \o SubSeq(out, 1, j)
      OBVIOUS
    <3>2. /\ IsList(events) /\ IsList(out) /\ j \in 0..Len(out) /\ Range(events) = Firsts(s, p)
          /\ Continues(s, m, out)
      BY <3>1, <2>1, <2>4 DEF Telling, Firsts, Continues
    <3>3. MoreOf(s, p, m + j, e)
      BY <3>1, <3>2, <2>4, ReceivedMore
    <3>4. QED BY <3>1, <3>3 DEF MoreOf, Firsts
  <2>6. client'.lastId \in 0..Len(log) => Len(StreamOf(log, client'.lastId).out) <= q
    <3>1. CASE j < Len(a.out) \/ a.out = <<>>
      <4>1. client'.lastId = client.lastId
        BY <3>1, <1>2
      <4>2. SUFFICES ASSUME client.lastId \in 0..Len(log) PROVE Len(StreamOf(log, client.lastId).out) <= q
        BY <4>1
      <4>3. Len(StreamOf(log, client.lastId).out) <= p
        BY <4>2, <2>3 DEF Reached
      <4>4. Len(StreamOf(log, client.lastId).out) \in Nat
        <5>1. PICK i : i = client.lastId /\ i \in 0..Len(log)
          BY <4>2
        <5>2. PICK w : Follows(ReadOf(log, i), StreamOf(log, i), w)
          BY <5>1, ReadFollows DEF Telling
        <5>3. IsList(StreamOf(log, i).out)
          BY <5>2 DEF Follows, Twin, IsAdapter
        <5>4. QED BY <5>1, <5>3, ListFacts
      <4>5. QED BY <4>3, <4>4, <2>4, <2>5
    <3>2. CASE ~(j < Len(a.out) \/ a.out = <<>>)
      <4>1. client'.lastId = id /\ j = Len(a.out)
        BY <3>2, <1>2, <1>3
      <4>2. SUFFICES ASSUME id \in 0..Len(log) PROVE Len(StreamOf(log, id).out) <= q
        BY <4>1
      <4>3. Len(StreamOf(log, id).out) <= m + j
        BY <4>1, <4>2, <2>1
      <4>4. Len(StreamOf(log, id).out) \in Nat
        <5>1. PICK i : i = id /\ i \in 0..Len(log)
          BY <4>2
        <5>2. PICK w : Follows(ReadOf(log, i), StreamOf(log, i), w)
          BY <5>1, ReadFollows DEF Telling
        <5>3. IsList(StreamOf(log, i).out)
          BY <5>2 DEF Follows, Twin, IsAdapter
        <5>4. QED BY <5>1, <5>3, ListFacts
      <4>5. QED BY <4>3, <4>4, <2>4, <2>5
    <3>3. QED BY <3>1, <3>2
  <2>7. conn'.open => Len(StreamOf(log, conn'.cursor).out) <= q
    <3>1. SUFFICES ASSUME open, j = Len(a.out) PROVE Len(StreamOf(log, cursor).out) <= q
      BY <1>2
    <3>2. cursor \in 0..Len(log) /\ Len(StreamOf(log, cursor).out) <= m + j
      BY <3>1, <2>1
    <3>3. Len(StreamOf(log, cursor).out) \in Nat
      <4>1. PICK i : i = cursor /\ i \in 0..Len(log)
        BY <3>2
      <4>2. PICK w : Follows(ReadOf(log, i), StreamOf(log, i), w)
        BY <4>1, ReadFollows DEF Telling
      <4>3. IsList(StreamOf(log, i).out)
        BY <4>2 DEF Follows, Twin, IsAdapter
      <4>4. QED BY <4>1, <4>3, ListFacts
    <3>4. QED BY <3>2, <3>3, <2>4, <2>5
  <2>8. Reached(s, log, q, client'.events, client'.lastId, conn'.open, conn'.cursor)
    BY <2>5, <2>6, <2>7, <1>2 DEF Reached
  <2>9. QED BY <2>2, <2>8, <1>1, <1>5
<1>8. QED BY <1>4, <1>6, <1>7 DEF Telling

\* Nothing is claimed of a client that was not given the whole stream.
LEMMA SendUntold ==
    ASSUME Inv, Telling, ~client.whole, NEW next, NEW id \in 0..Len(log) + 1, Send(next, id),
           id = Len(log) + 1 => db.written
    PROVE  Telling'
<1>1. UNCHANGED <<log, db, status>>
  BY DEF Send, executor
<1>2. PICK j : client' = [Received(next.adapter.out, j, id) EXCEPT !.whole = @ /\ next.whole]
  BY DEF Send
<1>3. ~client'.whole /\ client'.lastId \in {client.lastId, id}
  BY <1>2 DEF Received
<1>4. QED BY <1>1, <1>3 DEF Telling

\* Replaying the first chunks from Redis is reading them.
LEMMA ReplayReads == ASSUME NEW n PROVE Replay(n) = ReadOf(log, n)
<1>1. [i \in 1..n |-> RedisEntry(i)] = RowsUpTo(log, n)
  BY DEF RedisEntry, RowsUpTo
<1>2. QED BY <1>1 DEF Replay, ReadOf, Formatted, Start

LEMMA StreamIsList ==
    ASSUME NEW l, AreRows(l), NEW n \in 0..Len(l)
    PROVE  /\ IsList(StreamOf(l, n).out) /\ Len(StreamOf(l, n).out) \in Nat
           /\ IsAdapter(ReadOf(l, n))
<1>1. PICK w : Follows(ReadOf(l, n), StreamOf(l, n), w)
  BY ReadFollows
<1>2. IsList(StreamOf(l, n).out) /\ IsAdapter(ReadOf(l, n))
  BY <1>1 DEF Follows, Twin, IsAdapter
<1>3. PICK s : s = StreamOf(l, n).out
  OBVIOUS
<1>4. Len(s) \in Nat
  BY <1>2, <1>3, ListFacts
<1>5. QED BY <1>2, <1>3, <1>4

LEMMA ClearedTwice ==
    ASSUME NEW a, IsAdapter(a)
    PROVE  Cleared(Cleared(a)) = Cleared(a) /\ Cleared(a).out = <<>>
<1>1. [[a EXCEPT !.out = <<>>] EXCEPT !.out = <<>>] = [a EXCEPT !.out = <<>>]
  OBVIOUS
<1>2. QED BY <1>1, ClearedFacts DEF Cleared

LEMMA SentIsList ==
    ASSUME NEW l, AreRows(l), NEW written, NEW ending
    PROVE  IsList(Sent(l, written, ending)) /\ Len(Sent(l, written, ending)) \in Nat
<1>1. PICK n : n = Len(l) /\ n \in 0..Len(l)
  BY ListFacts DEF AreRows
<1>2. IsList(Sent(l, written, ending))
  BY <1>1, SentBegins DEF Begins
<1>3. PICK s : s = Sent(l, written, ending)
  OBVIOUS
<1>4. QED BY <1>2, <1>3, ListFacts
LEMMA JoinedContinues ==
    ASSUME NEW t, IsList(t), NEW out, IsList(out), NEW s, Begins(t \o out, s)
    PROVE  Continues(s, Len(t), out)
<1>1. PICK u : u = t \o out
  OBVIOUS
<1>2. Len(t) \in Nat /\ Len(out) \in Nat /\ Len(u) = Len(t) + Len(out) /\ \A i \in 1..Len(out) : u[Len(t) + i] = out[i]
  <2>1. Len(t) \in Nat /\ Len(out) \in Nat
    BY ListFacts
  <2>2. Len(t \o out) = Len(t) + Len(out) /\ \A i \in 1..Len(out) : (t \o out)[Len(t) + i] = out[i]
    BY JoinedLists
  <2>3. QED BY <2>1, <2>2, <1>1
<1>3. Begins(u, s)
  BY <1>1
<1>4. Len(s) \in Nat /\ Len(u) <= Len(s) /\ \A i \in 1..Len(u) : s[i] = u[i]
  BY <1>3, ListFacts DEF Begins
<1>5. \A i \in 1..Len(out) : Len(t) + i \in 1..Len(u)
  BY <1>2
<1>6. QED BY <1>2, <1>4, <1>5 DEF Continues

-----------------------------------------------------------------------------
(* Every step tells the client what the stream has next.                    *)

Moved(n, x, y) == [n EXCEPT !.cursor = x, !.adapter = y]

Finished(n, z, x, y) == [n EXCEPT !.open = z, !.cursor = x, !.adapter = y]

LEMMA ConnectionMoves ==
    ASSUME NEW o, NEW v, NEW c, NEW w, NEW d, NEW x, NEW y, NEW n, n = Connection(o, v, c, w, d)
    PROVE  Moved(n, x, y) = Connection(o, v, x, w, y)
<1>1. PICK k : k = [n EXCEPT !.cursor = x]
  OBVIOUS
<1>2. k = Connection(o, v, x, w, d)
  BY <1>1 DEF Connection
<1>3. [k EXCEPT !.adapter = y] = Connection(o, v, x, w, y)
  BY <1>2 DEF Connection
<1>4. [n EXCEPT !.cursor = x, !.adapter = y] = [[n EXCEPT !.cursor = x] EXCEPT !.adapter = y]
  OBVIOUS
<1>5. QED BY <1>1, <1>3, <1>4 DEF Moved

LEMMA ConnectionEnds ==
    ASSUME NEW o, NEW v, NEW c, NEW w, NEW d, NEW x, NEW y, NEW z, NEW n, n = Connection(o, v, c, w, d)
    PROVE  Finished(n, z, x, y) = Connection(z, v, x, w, y)
<1>1. PICK k : k = [n EXCEPT !.open = z]
  OBVIOUS
<1>2. k = Connection(z, v, c, w, d)
  BY <1>1 DEF Connection
<1>3. Moved(k, x, y) = Connection(z, v, x, w, y)
  BY <1>2, ConnectionMoves
<1>4. [n EXCEPT !.open = z, !.cursor = x, !.adapter = y]
      = [[n EXCEPT !.open = z] EXCEPT !.cursor = x, !.adapter = y]
  OBVIOUS
<1>5. QED BY <1>1, <1>3, <1>4 DEF Moved, Finished

LEMMA ConnectKeepsTelling ==
    ASSUME Inv, Telling, NEW via, Connect(via)
    PROVE  Telling'
<1> DEFINE isResume == client.lastId # None
           from     == IF isResume THEN client.lastId ELSE 0
           replayed == IF via = "redis" THEN Min({from, published}) ELSE 0
           a        == Replay(replayed)
           b        == IF isResume THEN Cleared(a) ELSE a
           whole    == (replayed = from)
<1>1. PICK next : next = Connection(TRUE, via, from, whole, b)
  OBVIOUS
<1>2. Send(next, 0)
  BY <1>1 DEF Connect, Connection, Cleared
<1>3. /\ Len(log) \in Nat /\ AreRows(log) /\ 0 \in 0..Len(log) + 1 /\ 0 # Len(log) + 1
      /\ published \in {Len(log), Len(log) - 1}
  BY ListFacts DEF Inv, Buffered, Telling
<1>4. from \in 0..Len(log) + 1
  BY <1>3 DEF Inv, Followed
<1>5. \E r \in 0..Len(log) : a = ReadOf(log, r) /\ (whole => r = from) /\ (from = 0 => r = 0)
  <2>1. Min({from, published}) = IF from <= published THEN from ELSE published
    <3>1. from \in Int /\ published \in Int
      BY <1>3, <1>4
    <3>2. \E x \in {from, published} : \A y \in {from, published} : x <= y
      BY <3>1
    <3>3. Min({from, published}) \in {from, published} /\ \A y \in {from, published} : Min({from, published}) <= y
      BY <3>2 DEF Min
    <3>4. QED BY <3>1, <3>3
  <2>2. replayed \in 0..Len(log) \/ replayed = -1
    BY <1>3, <1>4, <2>1
  <2>3. CASE replayed \in 0..Len(log)
    <3>1. from = 0 => replayed = 0
      BY <1>3, <1>4, <2>1, <2>3
    <3>2. a = ReadOf(log, replayed)
      BY ReplayReads
    <3>3. QED BY <2>3, <3>1, <3>2
  <2>4. CASE replayed = -1
    <3>1. a = ReadOf(log, -1)
      BY <2>4, ReplayReads
    <3>2. RowsUpTo(log, -1) = RowsUpTo(log, 0)
      BY DEF RowsUpTo
    <3>3. a = ReadOf(log, 0)
      BY <3>1, <3>2 DEF ReadOf
    <3>4. ~whole
      BY <2>4, <1>4, <1>3
    <3>5. QED BY <3>3, <3>4, <1>3
  <2>5. QED BY <2>2, <2>3, <2>4
<1>6. PICK r \in 0..Len(log) : a = ReadOf(log, r) /\ (whole => r = from) /\ (from = 0 => r = 0)
  BY <1>5
<1> DEFINE m == IF isResume THEN Len(StreamOf(log, from).out) ELSE 0
<1>7. IsAdapter(a)
  BY <1>3, <1>6, StreamIsList
<1>8. IsAdapter(b) /\ Cleared(b) = Cleared(a) /\ (isResume => b.out = <<>>) /\ IsList(b.out)
  <2>1. IsAdapter(Cleared(a)) /\ Cleared(Cleared(a)) = Cleared(a) /\ Cleared(a).out = <<>>
    BY <1>7, ClearedFacts, ClearedTwice
  <2>2. IsAdapter(b)
    BY <1>7, <2>1
  <2>3. QED BY <2>1, <2>2 DEF IsAdapter
<1>9. CASE ~client.whole
  <2>1. 0 = Len(log) + 1 => db.written
    BY <1>3
  <2>2. QED BY <1>2, <1>3, <1>9, <2>1, SendUntold
<1>10. CASE client.whole
  <2>1. PICK s : s = Sent(log, db.written, status)
    OBVIOUS
  <2>2. IsList(s)
    BY <1>3, <2>1, SentIsList
  <2>3. ASSUME NEW n \in 0..Len(log)
        PROVE  Begins(StreamOf(log, n).out, s) /\ Len(StreamOf(log, n).out) \in Nat
    BY <1>3, <2>1, SentBegins, StreamIsList
  <2>4. whole => from \in 0..Len(log) /\ a = ReadOf(log, from)
    BY <1>6
  <2>5. CASE isResume
    <3>1. b.out = <<>> /\ Len(b.out) = 0 /\ m = Len(StreamOf(log, from).out) /\ from = client.lastId
      <4>1. Len(<<>>) = 0
        BY EmptySeq
      <4>2. QED BY <4>1, <2>5, <1>8
    <3>2. whole => m \in Nat
      BY <2>3, <2>4, <3>1
    <3>3. ASSUME NEW p, Reached(s, log, p, client.events, client.lastId, conn.open, conn.cursor), whole
          PROVE  m \in 0..p
      <4>1. m <= p /\ p \in 0..Len(s)
        BY <3>1, <3>3, <2>4 DEF Reached
      <4>2. QED BY <4>1, <3>2, <3>3
    <3>4. Continues(s, m, b.out)
      BY <3>1 DEF Continues
    <3>5. whole => /\ from \in 0..Len(log) /\ Cleared(b) = Cleared(ReadOf(log, from))
                   /\ Len(StreamOf(log, from).out) <= m + Len(b.out)
      <4>1. SUFFICES ASSUME whole
                     PROVE  /\ from \in 0..Len(log) /\ Cleared(b) = Cleared(ReadOf(log, from))
                            /\ Len(StreamOf(log, from).out) <= m + Len(b.out)
        OBVIOUS
      <4>2. from \in 0..Len(log) /\ a = ReadOf(log, from) /\ m \in Nat
        BY <4>1, <2>4, <3>2
      <4> HIDE DEF whole, b, m, from, a
      <4>3. Cleared(b) = Cleared(ReadOf(log, from))
        BY <4>2, <1>8
      <4>4. QED BY <4>2, <4>3, <3>1
    <3>6. whole => Len(StreamOf(log, 0).out) <= m + Len(b.out)
      <4>1. SUFFICES ASSUME whole PROVE Len(StreamOf(log, 0).out) <= m + Len(b.out)
        OBVIOUS
      <4>2. PICK n : n = from /\ n \in 0..Len(log) /\ 0 \in 0..Len(log) /\ 0 <= n
        BY <2>4, <4>1, <1>3
      <4>3. Begins(StreamOf(log, 0).out, StreamOf(log, n).out)
        BY <4>2, <1>3, StreamsBegin
      <4>4. m \in Nat
        BY <4>1, <3>2
      <4> HIDE DEF whole, b, m, from, a
      <4>5. QED BY <4>2, <4>3, <4>4, <3>1 DEF Begins
    <3>7. PICK w, d, o, f, k : w = whole /\ d = b /\ o = TRUE /\ f = from /\ k = m
      OBVIOUS
    <3> HIDE DEF whole, b, m, from, a
    <3>8. /\ IsList(d.out) /\ next = Connection(o, via, f, w, d)
          /\ 0 \in 0..Len(log) + 1 /\ (0 = Len(log) + 1 => db.written)
          /\ \A p : Reached(s, log, p, client.events, client.lastId, conn.open, conn.cursor) /\ w => k \in 0..p
          /\ w => Continues(s, k, d.out)
          /\ w /\ o => /\ f \in 0..Len(log) /\ Cleared(d) = Cleared(ReadOf(log, f))
                      /\ Len(StreamOf(log, f).out) <= k + Len(d.out)
          /\ w /\ 0 \in 0..Len(log) => Len(StreamOf(log, 0).out) <= k + Len(d.out)
      BY <1>1, <1>3, <1>8, <3>3, <3>4, <3>5, <3>6, <3>7
    <3>9. QED BY <3>8, <1>2, <1>10, <2>1, <2>2, SendTold
  <2>6. CASE ~isResume
    <3>1. from = 0 /\ m = 0 /\ b = a /\ a = ReadOf(log, 0) /\ 0 \in 0..Len(log)
      BY <2>6, <1>6, <1>3
    <3>2. a.out = StreamOf(log, 0).out /\ Begins(a.out, s)
      <4>1. ReadOf(log, 0) = Start /\ StreamOf(log, 0) = Start
        BY ReadNone
      <4>2. QED BY <4>1, <3>1, <2>3
    <3>3. ASSUME NEW p, Reached(s, log, p, client.events, client.lastId, conn.open, conn.cursor)
          PROVE  0 \in 0..p
      BY <3>3, <2>2, ListFacts DEF Reached
    <3>4. Continues(s, 0, a.out)
      <4>1. PICK t : t = a.out
        OBVIOUS
      <4>2. Begins(t, s)
        BY <4>1, <3>2
      <4>3. Len(t) \in Nat /\ Len(s) \in Nat
        BY <4>2, ListFacts DEF Begins
      <4>4. Continues(s, 0, t)
        BY <4>2, <4>3 DEF Continues, Begins
      <4>5. QED BY <4>1, <4>4
    <3>5. PICK d : d = a
      OBVIOUS
    <3>6. Len(StreamOf(log, 0).out) <= 0 + Len(d.out)
      BY <3>1, <3>2, <3>5, <2>3
    <3>7. PICK w, o, f, k, z : w = whole /\ o = TRUE /\ f = 0 /\ k = 0 /\ z = 0
      OBVIOUS
    <3> HIDE DEF whole, b, m, from, a
    <3>8. /\ IsList(d.out) /\ next = Connection(o, via, f, w, d)
          /\ z \in 0..Len(log) + 1 /\ (z = Len(log) + 1 => db.written)
          /\ \A p : Reached(s, log, p, client.events, client.lastId, conn.open, conn.cursor) /\ w => k \in 0..p
          /\ w => Continues(s, k, d.out)
          /\ w /\ o => /\ f \in 0..Len(log) /\ Cleared(d) = Cleared(ReadOf(log, f))
                      /\ Len(StreamOf(log, f).out) <= k + Len(d.out)
          /\ w /\ z \in 0..Len(log) => Len(StreamOf(log, z).out) <= k + Len(d.out)
      BY <1>1, <1>3, <1>8, <3>1, <3>3, <3>4, <3>5, <3>6, <3>7
    <3>9. Send(next, z)
      BY <3>7, <1>2
    <3>10. QED BY <3>8, <3>9, <1>10, <2>1, <2>2, SendTold
  <2>7. QED BY <2>5, <2>6
<1>11. QED BY <1>9, <1>10

LEMMA DeliverChunkKeepsTelling ==
    ASSUME Inv, Telling, DeliverChunk
    PROVE  Telling'
<1> DEFINE n == conn.cursor + 1
           c == IF InRedis(n) THEN RedisEntry(n) ELSE StoredChunk(n)
           a == Format(conn.adapter, c)
<1>1. PICK next : next = Connection(conn.open, conn.via, n, conn.whole, a)
  OBVIOUS
<1>2. Send(next, n) /\ Readable(n) /\ conn.open
  <2>1. conn = Connection(conn.open, conn.via, conn.cursor, conn.whole, conn.adapter)
    BY DEF Inv, Followed, Connection
  <2>2. [conn EXCEPT !.cursor = n, !.adapter = Format(@, c)] = Connection(conn.open, conn.via, n, conn.whole, a)
    <3>1. PICK x, y : x = n /\ y = a
      OBVIOUS
    <3>2. [conn EXCEPT !.cursor = n, !.adapter = Format(@, c)] = [conn EXCEPT !.cursor = x, !.adapter = y]
      <4> HIDE DEF c
      <4>1. [conn EXCEPT !.cursor = n, !.adapter = Format(@, c)]
            = [conn EXCEPT !.cursor = n, !.adapter = Format(conn.adapter, c)]
        BY <2>1 DEF Connection
      <4>2. QED BY <4>1, <3>1
    <3>3. PICK k, h, v, f, w, d : k = conn /\ h = conn.open /\ v = conn.via /\ f = conn.cursor /\ w = conn.whole /\ d = conn.adapter
      OBVIOUS
    <3>5. k = Connection(h, v, f, w, d)
      BY <2>1, <3>3
    <3>6. Moved(k, x, y) = Connection(h, v, x, w, y)
      BY ONLY <3>5, ConnectionMoves
    <3>7. [conn EXCEPT !.cursor = x, !.adapter = y] = Connection(conn.open, conn.via, x, conn.whole, y)
      BY <3>3, <3>6 DEF Moved, Finished
    <3>8. QED BY <3>1, <3>2, <3>7
  <2>3. Send([conn EXCEPT !.cursor = n, !.adapter = Format(@, c)], n) /\ Readable(n) /\ conn.open
    BY DEF DeliverChunk
  <2>4. QED BY <1>1, <2>2, <2>3
<1>3. /\ Len(log) \in Nat /\ AreRows(log) /\ \A i \in 1..Len(log) : log[i].seq = i
      /\ published \in {Len(log), Len(log) - 1} /\ conn.cursor \in 0..Len(log) + 1
  BY ListFacts DEF Inv, Buffered, Telling, Followed
<1>4. n \in 1..Len(log)
  <2>1. CASE InRedis(n)
    BY <2>1, <1>3 DEF InRedis
  <2>2. CASE \E row \in db.chunks : row.seq = n
    BY <2>2, <1>3 DEF Inv, Written
  <2>3. QED BY <1>2, <2>1, <2>2 DEF Readable
<1>5. c = ChunkRow(log[n])
  <2>1. CASE InRedis(n)
    BY <2>1 DEF RedisEntry
  <2>2. CASE ~InRedis(n)
    <3>1. PICK row \in db.chunks : row.seq = n
      BY <2>2, <1>2 DEF Readable
    <3>2. db.chunks = {ChunkRow(log[i]) : i \in 1..Len(log)}
      BY <3>1 DEF Telling
    <3>3. ASSUME NEW d \in db.chunks, d.seq = n
          PROVE  d = ChunkRow(log[n])
      <4>1. PICK i \in 1..Len(log) : d = ChunkRow(log[i])
        BY <3>2
      <4>2. d.seq = log[i].seq
        BY <4>1 DEF ChunkRow
      <4>3. i = n
        BY <4>2, <3>3, <1>3
      <4>4. QED BY <4>1, <4>3
    <3>4. StoredChunk(n) \in db.chunks /\ StoredChunk(n).seq = n
      BY <3>1 DEF StoredChunk
    <3>5. QED BY <2>2, <3>3, <3>4
  <2>3. QED BY <2>1, <2>2
<1>6. CASE ~client.whole
  <2>1. n \in 0..Len(log) + 1 /\ (n = Len(log) + 1 => db.written)
    BY <1>3, <1>4
  <2>2. QED BY <1>2, <1>6, <2>1, SendUntold
<1>7. CASE client.whole
  <2>1. PICK s, u, v : s = Sent(log, db.written, status) /\ u = StreamOf(log, conn.cursor).out /\ v = StreamOf(log, n).out
    OBVIOUS
  <2>2. IsList(s)
    BY <1>3, <2>1, SentIsList
  <2>3. conn.cursor \in 0..Len(log) /\ conn.adapter = Cleared(ReadOf(log, conn.cursor))
    BY <1>2, <1>7 DEF Telling
  <2>4. a = ReadOf(log, n)
    <3>1. PICK d, e : d = ReadOf(log, conn.cursor) /\ e = ChunkRow(log[n])
      OBVIOUS
    <3>2. IsAdapter(d)
      BY <2>3, <3>1, <1>3, StreamIsList
    <3>3. Cleared(Cleared(d)) = Cleared(d)
      BY <3>2, ClearedTwice
    <3>4. Format(Cleared(d), e) = Format(d, e)
      BY <3>3 DEF Format, Cleared
    <3>5. ReadOf(log, n) = Format(ReadOf(log, n - 1), ChunkRow(log[n]))
      <4>1. n \in Nat /\ n > 0
        BY <1>3, <1>4
      <4> HIDE DEF n
      <4>2. QED BY <4>1, ReadNext
    <3>6. n - 1 = conn.cursor
      BY <1>3
    <3>7. QED BY <3>1, <3>4, <3>5, <3>6, <2>3, <1>5
  <2>5. v = u \o a.out /\ IsList(u) /\ IsList(v) /\ IsList(a.out)
    <3>1. n - 1 = conn.cursor
      BY <1>3
    <3>2. PICK k \in 1..Len(log) : k = n
      BY <1>4
    <3>3. /\ StreamOf(log, k).out = StreamOf(log, k - 1).out \o ReadOf(log, k).out
          /\ IsList(StreamOf(log, k).out) /\ IsList(StreamOf(log, k - 1).out) /\ IsList(ReadOf(log, k).out)
      BY <1>3, StreamGrows
    <3>4. QED BY <3>1, <3>2, <3>3, <2>1, <2>4
  <2>6. Begins(v, s)
    <3>1. PICK k \in 0..Len(log) : k = n
      BY <1>3, <1>4
    <3>2. QED BY <3>1, <2>1, <1>3, SentBegins
  <2>7. PICK d, k, j : d = a /\ k = Len(u) /\ j = n
    OBVIOUS
  <2>8. Continues(s, k, d.out)
    <3>1. Begins(u \o d.out, s)
      BY <2>5, <2>6, <2>7
    <3>2. QED BY <2>5, <2>7, <3>1, JoinedContinues
  <2>9. Len(u) \in Nat /\ Len(d.out) \in Nat /\ Len(v) = Len(u) + Len(d.out)
    <3>1. PICK out : out = d.out
      OBVIOUS
    <3>2. IsList(out) /\ v = u \o out
      BY <2>5, <2>7, <3>1
    <3>3. Len(u) \in Nat /\ Len(out) \in Nat /\ Len(u \o out) = Len(u) + Len(out)
      BY <3>2, <2>5, ListFacts, JoinedLists
    <3>4. QED BY <3>1, <3>2, <3>3
  <2>10. ASSUME NEW p, Reached(s, log, p, client.events, client.lastId, conn.open, conn.cursor)
         PROVE  k \in 0..p
    BY <2>10, <2>1, <2>7, <2>9, <1>2, <2>2, ListFacts DEF Reached
  <2>11. Len(StreamOf(log, j).out) <= k + Len(d.out) /\ Cleared(d) = Cleared(ReadOf(log, j)) /\ j \in 0..Len(log)
    <3>1. Len(v) <= k + Len(d.out)
      BY <2>7, <2>9
    <3>2. n \in 0..Len(log)
      BY <1>3, <1>4
    <3> HIDE DEF a, n
    <3>3. QED BY <3>1, <3>2, <2>1, <2>4, <2>7
  <2>12. PICK o, w, via : o = conn.open /\ w = conn.whole /\ via = conn.via
    OBVIOUS
  <2>13. next = Connection(o, via, j, w, d) /\ Send(next, j) /\ IsList(d.out)
    BY <1>1, <1>2, <2>5, <2>7, <2>12
  <2> HIDE DEF a, n
  <2>14. /\ j \in 0..Len(log) + 1 /\ (j = Len(log) + 1 => db.written)
         /\ \A p : Reached(s, log, p, client.events, client.lastId, conn.open, conn.cursor) /\ w => k \in 0..p
         /\ w => Continues(s, k, d.out)
         /\ w /\ o => /\ j \in 0..Len(log) /\ Cleared(d) = Cleared(ReadOf(log, j))
                     /\ Len(StreamOf(log, j).out) <= k + Len(d.out)
         /\ w /\ j \in 0..Len(log) => Len(StreamOf(log, j).out) <= k + Len(d.out)
    BY <1>3, <2>8, <2>10, <2>11
  <2>15. QED BY <2>13, <2>14, <1>7, <2>1, <2>2, SendTold
<1>8. QED BY <1>6, <1>7

LEMMA DeliverEndKeepsTelling ==
    ASSUME Inv, Telling, DeliverEnd
    PROVE  Telling'
<1> DEFINE n == Len(log) + 1
           a == FormatEnd(SetSource(conn.adapter, n), status)
<1>1. PICK next, o : next = Connection(o, conn.via, n, conn.whole, a) /\ o = FALSE
  OBVIOUS
<1>2. Send(next, n) /\ db.written /\ conn.open /\ conn.cursor = Len(log)
  <2>1. conn = Connection(conn.open, conn.via, conn.cursor, conn.whole, conn.adapter)
    BY DEF Inv, Followed, Connection
  <2>2. [conn EXCEPT !.open = FALSE, !.cursor = n, !.adapter = FormatEnd(SetSource(@, n), status)]
        = Connection(o, conn.via, n, conn.whole, a)
    <3>1. PICK x, y : x = n /\ y = a
      OBVIOUS
    <3>2. [conn EXCEPT !.open = FALSE, !.cursor = n, !.adapter = FormatEnd(SetSource(@, n), status)]
          = [conn EXCEPT !.open = o, !.cursor = x, !.adapter = y]
      <4>1. [conn EXCEPT !.open = FALSE, !.cursor = n, !.adapter = FormatEnd(SetSource(@, n), status)]
            = [conn EXCEPT !.open = FALSE, !.cursor = n, !.adapter = FormatEnd(SetSource(conn.adapter, n), status)]
        BY <2>1 DEF Connection
      <4>2. QED BY <4>1, <3>1, <1>1
    <3>3. PICK k, h, v, f, w, d : k = conn /\ h = conn.open /\ v = conn.via /\ f = conn.cursor /\ w = conn.whole /\ d = conn.adapter
      OBVIOUS
    <3>5. k = Connection(h, v, f, w, d)
      BY <2>1, <3>3
    <3>6. Finished(k, o, x, y) = Connection(o, v, x, w, y)
      BY ONLY <3>5, ConnectionEnds
    <3>7. [conn EXCEPT !.open = o, !.cursor = x, !.adapter = y] = Connection(o, conn.via, x, conn.whole, y)
      BY <3>3, <3>6 DEF Moved, Finished
    <3>8. QED BY <3>1, <3>2, <3>7
  <2>3. Send([conn EXCEPT !.open = FALSE, !.cursor = n, !.adapter = FormatEnd(SetSource(@, n), status)], n)
        /\ db.written /\ conn.open /\ conn.cursor = Len(log)
    BY DEF DeliverEnd
  <2>4. QED BY <1>1, <2>2, <2>3
<1>3. Len(log) \in Nat /\ AreRows(log) /\ n \in 0..Len(log) + 1 /\ n \notin 0..Len(log)
  BY ListFacts DEF Inv, Buffered, Telling
<1>4. CASE ~client.whole
  <2>1. n = Len(log) + 1 => db.written
    BY <1>2
  <2>2. QED BY <1>2, <1>3, <1>4, <2>1, SendUntold
<1>5. CASE client.whole
  <2>1. PICK s, u : s = Sent(log, db.written, status) /\ u = StreamOf(log, Len(log)).out
    OBVIOUS
  <2>2. IsList(s) /\ Len(s) \in Nat
    BY <1>3, <2>1, SentIsList
  <2>3. conn.adapter = Cleared(ReadOf(log, Len(log)))
    BY <1>2, <1>5 DEF Telling
  <2>4. s = u \o a.out /\ IsList(u) /\ IsList(a.out)
    <3>1. PICK l : l = log
      OBVIOUS
    <3>2. /\ Complete(l, status) = StreamOf(l, Len(l)).out \o FormatEnd(SetSource(Cleared(ReadOf(l, Len(l))), Len(l) + 1), status).out
          /\ IsList(FormatEnd(SetSource(Cleared(ReadOf(l, Len(l))), Len(l) + 1), status).out)
          /\ IsList(StreamOf(l, Len(l)).out)
      BY <3>1, <1>3, CompleteGrows
    <3>3. QED BY <3>1, <3>2, <2>1, <2>3, <1>2 DEF Sent
  <2>5. PICK d, k, j : d = a /\ k = Len(u) /\ j = n
    OBVIOUS
  <2>6. IsList(s) /\ Begins(s, s)
    <3>1. PICK t : t = s
      OBVIOUS
    <3>2. Begins(t, t)
      BY <2>2, <3>1, JoinedBegins
    <3>3. QED BY <3>1, <3>2, <2>2
  <2>7. Continues(s, k, d.out)
    <3>1. Begins(u \o d.out, s)
      BY <2>4, <2>5, <2>6
    <3>2. QED BY <2>4, <2>5, <3>1, JoinedContinues
  <2>8. Len(u) \in Nat
    BY <2>4, ListFacts
  <2>9. ASSUME NEW p, Reached(s, log, p, client.events, client.lastId, conn.open, conn.cursor)
        PROVE  k \in 0..p
    BY <2>9, <2>1, <2>5, <2>8, <1>2, <2>2 DEF Reached
  <2>10. PICK w, via : w = conn.whole /\ via = conn.via
    OBVIOUS
  <2>11. next = Connection(o, via, j, w, d) /\ Send(next, j) /\ IsList(d.out) /\ o = FALSE
    BY <1>1, <1>2, <2>4, <2>5, <2>10
  <2>12. j \in 0..Len(log) + 1 /\ j \notin 0..Len(log) /\ (j = Len(log) + 1 => db.written)
    BY <1>2, <1>3, <2>5
  <2> HIDE DEF a, n
  <2>13. /\ \A p : Reached(s, log, p, client.events, client.lastId, conn.open, conn.cursor) /\ w => k \in 0..p
         /\ w => Continues(s, k, d.out)
         /\ w /\ o => /\ j \in 0..Len(log) /\ Cleared(d) = Cleared(ReadOf(log, j))
                     /\ Len(StreamOf(log, j).out) <= k + Len(d.out)
         /\ w /\ j \in 0..Len(log) => Len(StreamOf(log, j).out) <= k + Len(d.out)
    BY <2>7, <2>9, <2>11, <2>12
  <2>14. QED BY <2>11, <2>12, <2>13, <1>5, <2>1, <2>2, SendTold
<1>6. QED BY <1>4, <1>5

LEMMA BufferKeepsTelling ==
    ASSUME Inv, Telling, NEW k, Buffers(k), UNCHANGED <<db, conn, client>>
    PROVE  Telling'
<1>1. PICK c : c = Resolved(Normalized(k))
  OBVIOUS
<1>2. PICK l, m : l = log /\ m = log'
  OBVIOUS
<1>3. m = Append(l, c) /\ IsList(l) /\ AreRows(l) /\ status = "running"
  BY <1>1, <1>2 DEF Buffers, Telling, Inv, Buffered
<1>4. /\ IsList(m) /\ Len(l) \in Nat /\ Len(m) = Len(l) + 1
      /\ \A n \in 1..Len(l) : m[n] = l[n]
      /\ m[Len(l) + 1] = c
  BY <1>3, ListFacts, ListWithMore
<1>5. IsRow(ChunkRow(c))
  <2>1. c.seq = Len(log) + 1 /\ c.type = k.type /\ IsList(c.calls)
    BY <1>1, ResolvedMessage
  <2>2. k.type \in {"tasks", "messages", "custom"}
    BY DEF Buffers, Supported
  <2>3. ChunkRow(c).calls = c.calls /\ ChunkRow(c).seq = c.seq /\ ChunkRow(c).type = c.type
    BY DEF ChunkRow
  <2>4. QED BY <2>1, <2>2, <2>3, <1>2, <1>4 DEF IsRow
<1>6. AreRows(m)
  <2>1. ASSUME NEW n \in 1..Len(m)
        PROVE  IsRow(ChunkRow(m[n]))
    <3>1. CASE n \in 1..Len(l)
      BY <3>1, <1>3, <1>4 DEF AreRows
    <3>2. CASE n \notin 1..Len(l)
      <4>1. n = Len(l) + 1
        BY <3>2, <1>4
      <4>2. QED BY <4>1, <1>4, <1>5
    <3>3. QED BY <3>1, <3>2
  <2>2. QED BY <2>1, <1>4 DEF AreRows
<1>7. ~db.written /\ db' = db
  BY <1>3 DEF Inv, Written, Ended
<1>8. /\ client.lastId \in 0..Len(m) => client.lastId \in 0..Len(l)
      /\ client.lastId # Len(m) + 1
  <2>1. client.lastId # None => client.lastId \in 0..Len(l) + 1
    BY <1>2 DEF Inv, Followed
  <2>2. client.lastId # Len(l) + 1
    BY <1>2, <1>7 DEF Telling
  <2>3. None \notin Nat
    BY ConstantsAssumption
  <2>4. client.lastId = None \/ client.lastId \in 0..Len(l)
    BY <2>1, <2>2, <1>4
  <2>5. QED BY <2>3, <2>4, <1>4
<1>9. ASSUME NEW n \in 0..Len(l)
      PROVE  ReadOf(m, n) = ReadOf(l, n) /\ StreamOf(m, n) = StreamOf(l, n)
  <2>1. n \in Nat /\ \A i \in 1..n : m[i] = l[i]
    BY <1>4
  <2>2. QED BY <2>1, RowsAgree
<1>10. ASSUME client.whole
       PROVE  /\ IsList(client.events)
              /\ conn.open => conn.cursor \in 0..Len(m) /\ conn.adapter = Cleared(ReadOf(m, conn.cursor))
              /\ \E p : Reached(Sent(m, db.written, status'), m, p,
                                client.events, client.lastId, conn.open, conn.cursor)
  <2>1. /\ IsList(client.events)
        /\ conn.open => conn.cursor \in 0..Len(l) /\ conn.adapter = Cleared(ReadOf(l, conn.cursor))
        /\ \E p : Reached(Sent(l, db.written, status), l, p,
                          client.events, client.lastId, conn.open, conn.cursor)
    BY <1>2, <1>10 DEF Telling
  <2>2. conn.open => conn.cursor \in 0..Len(m) /\ conn.adapter = Cleared(ReadOf(m, conn.cursor))
    BY <2>1, <1>4, <1>9
  <2>3. PICK s, t : s = StreamOf(l, Len(l)).out /\ t = StreamOf(m, Len(m)).out
    OBVIOUS
  <2>4. Sent(l, db.written, status) = s /\ Sent(m, db.written, status') = t
    BY <1>7, <2>3 DEF Sent
  <2>5. Begins(s, t)
    <3>1. PICK i, j : i = Len(l) /\ j = Len(m)
      OBVIOUS
    <3>2. i \in 0..Len(m) /\ j \in 0..Len(m) /\ i <= j /\ i \in 0..Len(l)
      BY <3>1, <1>4
    <3>3. Begins(StreamOf(m, i).out, StreamOf(m, j).out)
      BY <3>2, <1>6, StreamsBegin
    <3>4. QED BY <3>1, <3>2, <3>3, <2>3, <1>9
  <2>6. PICK p : Reached(s, l, p, client.events, client.lastId, conn.open, conn.cursor)
    BY <2>1, <2>4
  <2>7. PICK events, lastId, open, cursor :
           events = client.events /\ lastId = client.lastId /\ open = conn.open /\ cursor = conn.cursor
    OBVIOUS
  <2>8. /\ Begins(s, t) /\ IsList(l) /\ IsList(m) /\ Len(l) <= Len(m) /\ \A n \in 1..Len(l) : m[n] = l[n]
        /\ lastId \in 0..Len(m) => lastId \in 0..Len(l)
        /\ open => cursor \in 0..Len(l)
        /\ Reached(s, l, p, events, lastId, open, cursor)
    BY <2>1, <2>5, <2>6, <2>7, <1>3, <1>4, <1>8
  <2>9. Reached(t, m, p, events, lastId, open, cursor)
    BY ONLY <2>8, ReachedLater
  <2>10. QED BY <2>1, <2>2, <2>4, <2>7, <2>9
<1>11. db'.chunks = IF db'.written THEN {ChunkRow(log'[n]) : n \in 1..Len(log')} ELSE {}
  BY <1>7 DEF Telling
<1>12. QED BY <1>2, <1>6, <1>7, <1>8, <1>10, <1>11 DEF Telling

\* A step that adds no chunk and stores none
LEMMA TellingRests ==
    ASSUME Telling, UNCHANGED <<log, db, conn, client>>, status' = status \/ ~db.written
    PROVE  Telling'
<1>1. Sent(log', db'.written, status') = Sent(log, db.written, status)
  BY DEF Sent
<1>2. QED BY <1>1 DEF Telling

LEMMA TransferKeepsTelling ==
    ASSUME Inv, Telling, Transfer
    PROVE  Telling'
<1>1. UNCHANGED <<log, status, conn, client>> /\ ~db.written /\ db'.written
  BY DEF Transfer
<1>2. PICK l : l = log
  OBVIOUS
<1>3. AreRows(l) /\ IsList(l) /\ Len(l) \in Nat /\ DOMAIN l = 1..Len(l)
  BY <1>2, ListFacts DEF Telling, AreRows
<1>4. db'.chunks = IF db'.written THEN {ChunkRow(log'[n]) : n \in 1..Len(log')} ELSE {}
  <2>1. db'.chunks = {ChunkRow(log[n]) : n \in DOMAIN log}
    BY DEF Transfer
  <2>2. QED BY <2>1, <1>1, <1>2, <1>3
<1>5. PICK s, t : s = Sent(l, db.written, status) /\ t = Sent(l, db'.written, status)
  OBVIOUS
<1>6. Begins(s, t)
  <2>1. s = StreamOf(l, Len(l)).out /\ t = Complete(l, status)
    BY <1>1, <1>5 DEF Sent
  <2>2. PICK n : n = Len(l) /\ n \in 0..Len(l)
    BY <1>3
  <2>3. PICK w : w = TRUE
    OBVIOUS
  <2>4. Begins(StreamOf(l, n).out, Sent(l, w, status))
    BY <2>2, <1>3, SentBegins
  <2>5. QED BY <2>1, <2>2, <2>3, <2>4 DEF Sent
<1>7. ASSUME client.whole
      PROVE  \E p : Reached(t, l, p, client.events, client.lastId, conn.open, conn.cursor)
  <2>1. PICK p : Reached(s, l, p, client.events, client.lastId, conn.open, conn.cursor)
    BY <1>2, <1>5, <1>7 DEF Telling
  <2>2. PICK events, lastId, open, cursor :
           events = client.events /\ lastId = client.lastId /\ open = conn.open /\ cursor = conn.cursor
    OBVIOUS
  <2>3. open => cursor \in 0..Len(l)
    BY <2>2, <1>2, <1>7 DEF Telling
  <2>4. Reached(s, l, p, events, lastId, open, cursor) /\ Len(l) <= Len(l)
    BY <2>1, <2>2, <1>3
  <2>5. Reached(t, l, p, events, lastId, open, cursor)
    BY ONLY <1>3, <1>6, <2>3, <2>4, ReachedLater
  <2>6. QED BY <2>2, <2>5
<1>8. QED BY <1>1, <1>2, <1>4, <1>5, <1>7 DEF Telling

LEMMA InitTelling == Init => Telling
<1> SUFFICES ASSUME Init PROVE Telling
  OBVIOUS
<1>1. PICK l : l = <<>>
  OBVIOUS
<1>2. l \in Seq({}) /\ Len(l) = 0
  BY <1>1, EmptySeq
<1>3. IsList(l)
  BY <1>2, SeqOfRange DEF IsList
<1>4. Range(l) = {}
  <2>1. Range(l) = {l[i] : i \in 1..Len(l)}
    BY <1>3, ListFacts
  <2>2. QED BY <2>1, <1>2
<1>5. AreRows(l)
  BY <1>2, <1>3 DEF AreRows
<1>6. /\ log = l /\ db.written = FALSE /\ db.chunks = {} /\ client.events = l /\ client.lastId = None
      /\ client.whole = TRUE /\ conn.open = FALSE
  BY <1>1 DEF Init, NoRows, Closed
<1>7. None \notin Nat
  BY ConstantsAssumption
<1>8. Reached(Sent(log, db.written, status), log, 0, client.events, client.lastId, conn.open, conn.cursor)
  <2>1. PICK s : s = Sent(log, db.written, status)
    OBVIOUS
  <2>2. Len(s) \in Nat
    BY <2>1, <1>5, <1>6, SentIsList
  <2>3. client.lastId \notin 0..Len(log)
    BY <1>2, <1>6, <1>7
  <2>4. Range(client.events) = {s[i] : i \in 1..0}
    BY <1>4, <1>6
  <2>5. QED BY <2>1, <2>2, <2>3, <2>4, <1>6 DEF Reached
<1>9. client.lastId # Len(log) + 1
  BY <1>2, <1>6, <1>7
<1>10. QED BY <1>3, <1>5, <1>6, <1>8, <1>9 DEF Telling

LEMMA NextTelling ==
    ASSUME Inv, Telling, [Next]_vars
    PROVE  Telling'
<1>1. ASSUME NEW k \in agent.kinds, Chunk(k) PROVE Telling'
  <2>1. Buffers(k) /\ UNCHANGED <<db, conn, client>>
    BY <1>1 DEF Chunk, Buffer, Buffers
  <2>2. QED BY <2>1, BufferKeepsTelling
<1>2. ASSUME NEW k \in agent.kinds, ChunkUnmergeable(k) PROVE Telling'
  <2>1. Buffers(k) /\ UNCHANGED <<db, conn, client>>
    BY <1>2 DEF ChunkUnmergeable, Buffer, Buffers
  <2>2. QED BY <2>1, BufferKeepsTelling
<1>3. ASSUME NEW k \in agent.kinds, NEW ending \in Ended, ChunkRefused(k, ending) PROVE Telling'
  <2>1. Buffers(k) /\ UNCHANGED <<db, conn, client>>
    BY <1>3 DEF ChunkRefused, Buffer, Buffers
  <2>2. QED BY <2>1, BufferKeepsTelling
<1>4. ASSUME NEW k \in agent.kinds, ChunkIgnored(k) PROVE Telling'
  <2>1. UNCHANGED <<log, db, conn, client>> /\ status' = status
    BY <1>4 DEF ChunkIgnored
  <2>2. QED BY <2>1, TellingRests
<1>5. ASSUME NEW ending \in Ended, Ends(ending) PROVE Telling'
  <2>1. UNCHANGED <<log, db, conn, client>> /\ status = "running"
    BY <1>5 DEF Ends
  <2>2. ~db.written
    BY <2>1 DEF Inv, Written, Ended
  <2>3. QED BY <2>1, <2>2, TellingRests
<1>6. CASE Transfer
  BY <1>6, TransferKeepsTelling
<1>7. ASSUME NEW via \in {"redis", "postgres"}, Connect(via) PROVE Telling'
  BY <1>7, ConnectKeepsTelling
<1>8. CASE DeliverChunk
  BY <1>8, DeliverChunkKeepsTelling
<1>9. CASE DeliverEnd
  BY <1>9, DeliverEndKeepsTelling
<1>10. CASE UNCHANGED vars
  <2>1. UNCHANGED <<log, db, conn, client>> /\ status' = status
    BY <1>10 DEF vars
  <2>2. QED BY <2>1, TellingRests
<1>11. QED BY <1>1, <1>2, <1>3, <1>4, <1>5, <1>6, <1>7, <1>8, <1>9, <1>10 DEF Next

\* What a client has received, over whatever connections, is a beginning of the
\* one stream of the run, which includes every chunk up to its last id.
THEOREM StreamIsTold == Spec => [](Inv /\ Telling)
<1>1. Init => Inv /\ Telling
  BY InitInv, InitTelling
<1>2. Inv /\ Telling /\ [Next]_vars => (Inv /\ Telling)'
  BY NextInv, NextTelling
<1>3. QED BY <1>1, <1>2, PTL DEF Spec

-----------------------------------------------------------------------------
(* What the client can tell of it.                                          *)

\* The whole response: what x has put out, with all items done, and e.
Response(s, x, e) ==
    /\ Good(x) /\ IsAdapter(x) /\ \A i \in 1..Len(x.items) : x.items[i].done
    /\ e.number = x.number /\ e.item = 0 /\ e.kind \in {"completed", "failed"}
    /\ s = Append(x.out, e)

LEMMA CompleteResponse ==
    ASSUME NEW l, AreRows(l), NEW ending
    PROVE  \E x, e : Response(Complete(l, ending), x, e)
<1>1. PICK n : n = Len(l) /\ n \in 0..Len(l) /\ n + 1 \in Nat
  BY ListFacts DEF AreRows
<1>2. PICK a, b : a = ReadOf(l, n) /\ b = StreamOf(l, n)
  OBVIOUS
<1>3. PICK w : Follows(a, b, w)
  BY <1>1, <1>2, ReadFollows
<1>4. PICK m \in Nat : m = n + 1
  BY <1>1
<1>5. PICK x, e : /\ Good(x) /\ IsAdapter(x) /\ \A i \in 1..Len(x.items) : x.items[i].done
                  /\ e.number = x.number /\ e.item = 0 /\ e.kind \in {"completed", "failed"}
                  /\ FormatEnd(SetSource(b, m), ending).out = Append(x.out, e)
  BY <1>3, EndFacts
<1>6. Complete(l, ending) = Append(x.out, e)
  BY <1>1, <1>2, <1>4, <1>5 DEF Complete
<1>7. QED BY <1>5, <1>6 DEF Response

\* A part of the stream, which an end of the response ends
LEMMA SentIsSane ==
    ASSUME NEW l, AreRows(l), NEW written, NEW ending
    PROVE  \/ written /\ \E x, e : Response(Sent(l, written, ending), x, e)
           \/ ~written /\ \E x : Good(x) /\ IsAdapter(x) /\ Sent(l, written, ending) = x.out
<1>1. CASE written
  BY <1>1, CompleteResponse DEF Sent
<1>2. CASE ~written
  <2>1. PICK n : n = Len(l) /\ n \in 0..Len(l)
    BY ListFacts DEF AreRows
  <2>2. PICK a, b : a = ReadOf(l, n) /\ b = StreamOf(l, n)
    OBVIOUS
  <2>3. PICK w : Follows(a, b, w)
    BY <2>1, <2>2, ReadFollows
  <2>4. Good(b) /\ IsAdapter(b)
    BY <2>3 DEF Follows, Twin
  <2>5. Sent(l, written, ending) = b.out
    BY <1>2, <2>1, <2>2 DEF Sent
  <2>6. QED BY <1>2, <2>4, <2>5
<1>3. QED BY <1>1, <1>2

\* One connection brings the complete response.
LEMMA OneConnectionIsComplete == Inv => OneConnection = Complete(log, status)
<1> SUFFICES ASSUME Inv PROVE OneConnection = Complete(log, status)
  OBVIOUS
<1>1. DOMAIN log = 1..Len(log)
  BY ListFacts DEF Inv, Buffered
<1>2. [n \in DOMAIN log |-> RedisEntry(n)] = RowsUpTo(log, Len(log))
  BY <1>1 DEF RedisEntry, RowsUpTo
<1>3. QED BY <1>2 DEF OneConnection, Complete, StreamOf, Streamed, Start

LEMMA GoodKinds ==
    ASSUME NEW x, Good(x), IsAdapter(x), NEW i \in 1..Len(x.out)
    PROVE  x.out[i].kind \in Kinds /\ x.out[i].kind \notin {"completed", "failed"}
<1>1. x.out[i].kind \in Kinds
  BY DEF Good, Sane, Numbered
<1>2. QED BY <1>1 DEF Kinds

\* Who has been told of the end has been told all there is.
LEMMA EndFound ==
    ASSUME Inv, Telling, client.whole, HasEnded,
           NEW s, s = Sent(log, db.written, status), NEW p \in 0..Len(s),
           Range(client.events) = {s[i] : i \in 1..p}
    PROVE  db.written /\ p = Len(s)
<1>1. AreRows(log) /\ IsList(client.events)
  BY DEF Telling
<1>2. Len(s) \in Nat /\ IsList(s)
  BY <1>1, SentIsList
<1>3. PICK i \in 1..p : s[i].kind \in {"completed", "failed"}
  <2>1. PICK l : l = client.events
    OBVIOUS
  <2>2. l # <<>> /\ Last(l).kind \in {"completed", "failed"}
    BY <2>1 DEF HasEnded
  <2>3. Len(l) \in Nat /\ IsList(l) /\ l \in Seq(Range(l)) /\ Range(l) = {l[i] : i \in 1..Len(l)}
    <3>1. IsList(l)
      BY <1>1, <2>1
    <3>2. QED BY <3>1, ListFacts DEF IsList
  <2>4. Len(l) # 0
    BY <2>2, <2>3, EmptySeq
  <2>5. Last(l) = l[Len(l)] /\ Len(l) \in 1..Len(l)
    BY <2>3, <2>4 DEF Last
  <2>6. Last(l) \in {s[i] : i \in 1..p}
    BY <2>1, <2>3, <2>5
  <2>7. QED BY <2>2, <2>6
<1>4. i \in 1..Len(s)
  BY <1>2, <1>3
<1>5. \/ db.written /\ \E x, e : Response(Sent(log, db.written, status), x, e)
      \/ ~db.written /\ \E x : Good(x) /\ IsAdapter(x) /\ Sent(log, db.written, status) = x.out
  BY <1>1, SentIsSane
<1>6. CASE ~db.written
  <2>1. PICK x : Good(x) /\ IsAdapter(x) /\ s = x.out
    BY <1>5, <1>6
  <2>2. QED BY <2>1, <1>3, <1>4, GoodKinds
<1>7. CASE db.written
  <2>1. PICK x, e : Response(s, x, e)
    BY <1>5, <1>7
  <2>2. IsList(x.out) /\ s = Append(x.out, e)
    BY <2>1 DEF Response, IsAdapter
  <2>3. Len(x.out) \in Nat /\ Len(s) = Len(x.out) + 1 /\ \A j \in 1..Len(x.out) : s[j] = x.out[j]
    BY <2>2, ListFacts, ListWithMore
  <2>4. i \notin 1..Len(x.out)
    BY <1>3, <2>1, <2>3, GoodKinds DEF Response
  <2>5. i = Len(s)
    BY <2>3, <2>4, <1>4
  <2>6. i <= p /\ p <= Len(s) /\ p \in Nat
    BY <1>2, <1>3
  <2>7. p = Len(s)
    BY <2>5, <2>6, <1>2
  <2>8. QED BY <2>7, <1>7
<1>8. QED BY <1>6, <1>7

LEMMA CutsFollow == Inv /\ Telling => CutsLoseNothing
<1> SUFFICES ASSUME Inv, Telling, client.whole, ~conn.open, client.events # <<>>
             PROVE  /\ Range(client.events) \subseteq Range(OneConnection)
                    /\ HasEnded => Range(client.events) = Range(OneConnection)
  BY DEF CutsLoseNothing
<1>1. AreRows(log) /\ IsList(log)
  BY DEF Telling, AreRows
<1>2. PICK s, t : s = Sent(log, db.written, status) /\ t = Complete(log, status)
  OBVIOUS
<1>3. Begins(s, t)
  <2>1. PICK n : n = Len(log) /\ n \in 0..Len(log)
    BY <1>1, ListFacts
  <2>2. QED BY <2>1, <1>1, <1>2, SentBegins
<1>4. PICK p : p \in 0..Len(s) /\ Range(client.events) = {s[i] : i \in 1..p}
  BY <1>2 DEF Telling, Reached
<1>5. /\ Len(s) \in Nat /\ Len(t) \in Nat /\ Len(s) <= Len(t) /\ Range(t) = {t[i] : i \in 1..Len(t)}
      /\ \A i \in 1..Len(s) : t[i] = s[i]
  BY <1>3, ListFacts DEF Begins
<1>6. OneConnection = t
  BY <1>2, OneConnectionIsComplete
<1>7. Range(client.events) \subseteq Range(t)
  <2>1. \A i \in 1..p : i \in 1..Len(t) /\ s[i] = t[i]
    BY <1>4, <1>5
  <2>2. QED BY <2>1, <1>4, <1>5
<1>8. ASSUME HasEnded
      PROVE  Range(client.events) = Range(t)
  <2>1. db.written /\ p = Len(s)
    BY <1>2, <1>4, <1>8, EndFound
  <2>2. s = t
    BY <2>1, <1>2 DEF Sent
  <2>3. QED BY <2>1, <2>2, <1>4, <1>5
<1>9. QED BY <1>6, <1>7, <1>8

\* A client whose connections all began with the whole stream has received
\* nothing that one connection would not have brought, and at the end all of it,
\* wherever and however often it was cut off (job_subscription.py).
THEOREM CutsAreHarmless == Spec => []CutsLoseNothing
<1>1. Inv /\ Telling => CutsLoseNothing
  BY CutsFollow
<1>2. QED BY <1>1, StreamIsTold, PTL

-----------------------------------------------------------------------------
(* The items of the response.                                               *)

Rising(s) == \A i, j \in 1..Len(s) : i < j => s[i].number < s[j].number

\* s is what x has put out, and perhaps an end that is no part of an item.
Outlasts(s, x) ==
    /\ Good(x) /\ IsAdapter(x) /\ IsList(s) /\ Len(x.out) <= Len(s)
    /\ \A i \in 1..Len(x.out) : s[i] = x.out[i]
    /\ \A i \in 1..Len(s) : /\ s[i].number \in Nat
                            /\ s[i].item # 0 \/ s[i].kind \in Kinds => i \in 1..Len(x.out)
    /\ Rising(s)

LEMMA GoodNumbers ==
    ASSUME NEW x, Good(x), IsAdapter(x)
    PROVE  /\ IsList(x.out) /\ Len(x.out) \in Nat /\ x.number \in Nat /\ Sane(x.items, x.out, x.number)
           /\ \A i \in 1..Len(x.out) : x.out[i].number \in Nat /\ x.out[i].number < x.number
           /\ \A i, j \in 1..Len(x.out) : i < j => x.out[i].number < x.out[j].number
<1>1. IsList(x.out) /\ x.number \in Nat /\ Sane(x.items, x.out, x.number)
  BY DEF Good, IsAdapter
<1>2. Len(x.out) \in Nat
  BY <1>1, ListFacts
<1>3. QED BY <1>1, <1>2 DEF Sane, Numbered

LEMMA StreamOutlasts ==
    ASSUME NEW x, Good(x), IsAdapter(x)
    PROVE  Outlasts(x.out, x)
<1>1. /\ IsList(x.out) /\ Len(x.out) \in Nat
      /\ \A i \in 1..Len(x.out) : x.out[i].number \in Nat
      /\ \A i, j \in 1..Len(x.out) : i < j => x.out[i].number < x.out[j].number
  BY GoodNumbers
<1>2. Rising(x.out)
  BY <1>1 DEF Rising
<1>3. QED BY <1>1, <1>2 DEF Outlasts

LEMMA ResponseOutlasts ==
    ASSUME NEW s, NEW x, NEW e, Response(s, x, e)
    PROVE  Outlasts(s, x)
<1>1. /\ Good(x) /\ IsAdapter(x) /\ e.number = x.number /\ e.item = 0 /\ e.kind \notin Kinds
      /\ s = Append(x.out, e)
  BY DEF Response, Kinds
<1>2. /\ IsList(x.out) /\ Len(x.out) \in Nat /\ x.number \in Nat
      /\ \A i \in 1..Len(x.out) : x.out[i].number \in Nat /\ x.out[i].number < x.number
      /\ \A i, j \in 1..Len(x.out) : i < j => x.out[i].number < x.out[j].number
  BY <1>1, GoodNumbers
<1>3. /\ IsList(s) /\ Len(s) = Len(x.out) + 1
      /\ \A i \in 1..Len(x.out) : s[i] = x.out[i]
      /\ s[Len(x.out) + 1] = e
  BY <1>1, <1>2, ListWithMore
<1>4. \A i \in 1..Len(s) : i \in 1..Len(x.out) \/ (i = Len(x.out) + 1 /\ s[i] = e)
  BY <1>2, <1>3
<1>5. \A i \in 1..Len(s) :
         /\ s[i].number \in Nat
         /\ s[i].item # 0 \/ s[i].kind \in Kinds => i \in 1..Len(x.out)
  BY <1>1, <1>2, <1>3, <1>4
<1>6. ASSUME NEW i \in 1..Len(s), NEW j \in 1..Len(s), i < j
      PROVE  s[i].number < s[j].number
  <2>1. i \in 1..Len(x.out)
    BY <1>2, <1>3, <1>6
  <2>2. CASE j \in 1..Len(x.out)
    BY <2>1, <2>2, <1>2, <1>3, <1>6
  <2>3. CASE j = Len(x.out) + 1 /\ s[j] = e
    BY <2>1, <2>3, <1>1, <1>2, <1>3
  <2>4. QED BY <1>4, <2>2, <2>3
<1>7. Len(x.out) <= Len(s)
  BY <1>2, <1>3
<1>8. Rising(s)
  BY <1>6 DEF Rising
<1>9. Good(x) /\ IsAdapter(x) /\ IsList(s) /\ \A i \in 1..Len(x.out) : s[i] = x.out[i]
  BY <1>1, <1>3
<1>10. QED BY <1>5, <1>7, <1>8, <1>9 DEF Outlasts

LEMMA SentOutlasts ==
    ASSUME NEW l, AreRows(l), NEW written, NEW ending
    PROVE  \E x : /\ Outlasts(Sent(l, written, ending), x)
                  /\ written => \A i \in 1..Len(x.items) : x.items[i].done
<1>1. PICK s : s = Sent(l, written, ending)
  OBVIOUS
<1>2. CASE written
  <2>1. PICK x, e : Response(s, x, e)
    BY <1>1, <1>2, SentIsSane
  <2>2. Outlasts(s, x)
    BY <2>1, ResponseOutlasts
  <2>3. QED BY <2>1, <2>2, <1>1 DEF Response
<1>3. CASE ~written
  <2>1. PICK x : Good(x) /\ IsAdapter(x) /\ s = x.out
    BY <1>1, <1>3, SentIsSane
  <2>2. QED BY <2>1, <1>1, <1>3, StreamOutlasts
<1>4. QED BY <1>2, <1>3

EventsOf(E, i, k) == {e \in E : e.item = i /\ e.kind = k}

\* The events of one kind among the first p
LEMMA EventsAt ==
    ASSUME NEW s, NEW x, Outlasts(s, x), NEW p \in 0..Len(s), NEW i, NEW k \in Kinds
    PROVE  EventsOf(Firsts(s, p), i, k) = {s[q] : q \in {r \in At(x.out, i, k) : r <= p}}
<1>1. Len(s) \in Nat /\ Len(x.out) \in Nat /\ Len(x.out) <= Len(s)
  BY ListFacts DEF Outlasts, IsAdapter
<1>2. ASSUME NEW q \in 1..p, s[q].item = i, s[q].kind = k
      PROVE  q \in At(x.out, i, k) /\ q <= p
  <2>1. q \in 1..Len(s)
    BY <1>1
  <2>2. q \in 1..Len(x.out) /\ s[q] = x.out[q]
    BY <2>1, <1>2 DEF Outlasts
  <2>3. QED BY <2>2, <1>2 DEF At
<1>3. ASSUME NEW q \in At(x.out, i, k), q <= p
      PROVE  q \in 1..p /\ s[q].item = i /\ s[q].kind = k
  <2>1. q \in 1..Len(x.out) /\ x.out[q].item = i /\ x.out[q].kind = k
    BY DEF At
  <2>2. QED BY <2>1, <1>1, <1>3 DEF Outlasts
<1>4. ASSUME NEW d \in EventsOf(Firsts(s, p), i, k)
      PROVE  d \in {s[q] : q \in {r \in At(x.out, i, k) : r <= p}}
  <2>1. PICK q \in 1..p : d = s[q]
    BY DEF EventsOf, Firsts
  <2>2. QED BY <2>1, <1>2, <1>4 DEF EventsOf
<1>5. ASSUME NEW d \in {s[q] : q \in {r \in At(x.out, i, k) : r <= p}}
      PROVE  d \in EventsOf(Firsts(s, p), i, k)
  <2>1. PICK q \in At(x.out, i, k) : q <= p /\ d = s[q]
    BY <1>5
  <2>2. q \in 1..p /\ d.item = i /\ d.kind = k
    BY <2>1, <1>3
  <2>3. QED BY <2>1, <2>2 DEF EventsOf, Firsts
<1>6. QED BY <1>4, <1>5

\* What of an item was told: it was announced before anything else was.
LEMMA ItemAnnounced ==
    ASSUME NEW s, NEW x, Outlasts(s, x), NEW p \in 0..Len(s), NEW i, i # 0,
           NEW d \in Firsts(s, p), d.item = i
    PROVE  /\ i \in 1..Len(x.items) /\ Told(x.out, x.items[i], i)
           /\ \E a \in Firsts(s, p) : /\ EventsOf(Firsts(s, p), i, "added") = {a}
                                       /\ \A e \in Firsts(s, p) : e.item = i => a.number <= e.number
<1>1. Len(s) \in Nat /\ Len(x.out) \in Nat /\ Len(x.items) \in Nat /\ Sane(x.items, x.out, x.number)
  BY ListFacts DEF Outlasts, IsAdapter, Good
<1>2. ASSUME NEW e \in Firsts(s, p), e.item = i
      PROVE  \E q \in 1..Len(x.out) : e = s[q] /\ q <= p /\ x.out[q] = e
  <2>1. PICK q \in 1..p : e = s[q]
    BY DEF Firsts
  <2>2. q \in 1..Len(s)
    BY <1>1
  <2>3. q \in 1..Len(x.out) /\ s[q] = x.out[q]
    BY <2>1, <2>2, <1>2 DEF Outlasts
  <2>4. QED BY <2>1, <2>3
<1>3. PICK q \in 1..Len(x.out) : d = s[q] /\ q <= p /\ x.out[q] = d
  BY <1>2
<1>4. i \in 1..Len(x.items)
  <2>1. x.out[q].item \in 0..Len(x.items)
    BY <1>1 DEF Sane, Numbered
  <2>2. QED BY <2>1, <1>1, <1>3
<1>5. Told(x.out, x.items[i], i)
  BY <1>1, <1>4 DEF Sane
<1>6. PICK r \in 1..Len(x.out) : At(x.out, i, "added") = {r} /\ \A n \in 1..Len(x.out) : x.out[n].item = i => r <= n
  BY <1>5 DEF Told, Announced
<1>7. r <= q /\ r <= p /\ r \in 1..p
  BY <1>1, <1>3, <1>6
<1>8. s[r] \in Firsts(s, p)
  BY <1>7 DEF Firsts
<1>9. EventsOf(Firsts(s, p), i, "added") = {s[r]}
  <2>1. PICK k \in Kinds : k = "added"
    BY DEF Kinds
  <2>2. EventsOf(Firsts(s, p), i, k) = {s[n] : n \in {m \in At(x.out, i, k) : m <= p}}
    BY EventsAt
  <2>3. {m \in At(x.out, i, k) : m <= p} = {r}
    BY <2>1, <1>6, <1>7
  <2>4. QED BY <2>1, <2>2, <2>3
<1>10. ASSUME NEW e \in Firsts(s, p), e.item = i
       PROVE  s[r].number <= e.number
  <2>1. PICK n \in 1..Len(x.out) : e = s[n] /\ n <= p /\ x.out[n] = e
    BY <1>2, <1>10
  <2>2. r <= n /\ n \in 1..Len(s) /\ r \in 1..Len(s)
    BY <2>1, <1>1, <1>6, <1>10 DEF Outlasts
  <2>3. CASE r = n
    BY <2>1, <2>2, <2>3 DEF Outlasts
  <2>4. CASE r < n
    <3>1. s[r].number < s[n].number /\ s[r].number \in Nat /\ s[n].number \in Nat
      BY <2>2, <2>4 DEF Outlasts, Rising
    <3>2. QED BY <3>1, <2>1
  <2>5. QED BY <2>2, <2>3, <2>4, <1>1
<1>11. QED BY <1>4, <1>5, <1>8, <1>9, <1>10

\* The text of an item ends after all its pieces, and is theirs.
LEMMA ItemTold ==
    ASSUME NEW s, NEW x, Outlasts(s, x), NEW p \in 0..Len(s), NEW i, i \in 1..Len(x.items),
           Told(x.out, x.items[i], i), NEW done \in EventsOf(Firsts(s, p), i, "text_done")
    PROVE  /\ EventsOf(Firsts(s, p), i, "text_done") = {done}
           /\ \A e \in EventsOf(Firsts(s, p), i, "delta") : e.number < done.number
           /\ done.text = TextOfPieces(EventsOf(Firsts(s, p), i, "delta"))
<1>1. Len(s) \in Nat /\ Len(x.out) \in Nat /\ Len(x.out) <= Len(s)
  BY ListFacts DEF Outlasts, IsAdapter
<1>2. PICK t, k : t \in Kinds /\ k \in Kinds /\ t = "text_done" /\ k = "delta"
  BY DEF Kinds
<1>3. /\ EventsOf(Firsts(s, p), i, t) = {s[q] : q \in {r \in At(x.out, i, t) : r <= p}}
      /\ EventsOf(Firsts(s, p), i, k) = {s[q] : q \in {r \in At(x.out, i, k) : r <= p}}
  BY <1>2, EventsAt
<1>4. PICK q \in At(x.out, i, t) : q <= p /\ done = s[q]
  BY <1>2, <1>3
<1>5. Concluded(x.out, x.items[i], i)
  BY <1>2, <1>4 DEF Told
<1>6. PICK d \in 1..Len(x.out) : /\ At(x.out, i, "text_done") = {d}
                                /\ x.out[d].text = x.items[i].text
                                /\ \A n \in At(x.out, i, "delta") : n < d
  BY <1>5 DEF Concluded
<1>7. q = d /\ {r \in At(x.out, i, t) : r <= p} = {d}
  BY <1>2, <1>4, <1>6
<1>8. EventsOf(Firsts(s, p), i, t) = {done}
  BY <1>3, <1>4, <1>7
<1>9. \A n \in At(x.out, i, k) : n \in 1..Len(x.out) /\ n < d /\ n <= p
  <2>1. \A n \in At(x.out, i, k) : n \in 1..Len(x.out) /\ n < d
    BY <1>2, <1>6 DEF At
  <2>2. QED BY <2>1, <1>1, <1>4, <1>7
<1>10. ASSUME NEW e \in EventsOf(Firsts(s, p), i, k)
       PROVE  e.number < done.number
  <2>1. PICK n \in At(x.out, i, k) : e = s[n]
    BY <1>3
  <2>2. n \in 1..Len(s) /\ d \in 1..Len(s) /\ n < d
    BY <2>1, <1>1, <1>9
  <2>3. s[n].number < s[d].number
    BY <2>2 DEF Outlasts, Rising
  <2>4. QED BY <2>1, <2>3, <1>4, <1>7
<1>11. EventsOf(Firsts(s, p), i, k) = Pieces(x.out, i)
  <2>1. {r \in At(x.out, i, k) : r <= p} = At(x.out, i, k)
    BY <1>9
  <2>2. \A n \in At(x.out, i, k) : s[n] = x.out[n]
    BY <1>9 DEF Outlasts
  <2>3. EventsOf(Firsts(s, p), i, k) = {s[n] : n \in At(x.out, i, k)}
    BY <1>3, <2>1
  <2>4. Pieces(x.out, i) = {x.out[n] : n \in At(x.out, i, k)}
    BY <1>2 DEF Pieces
  <2>5. QED BY <2>2, <2>3, <2>4
<1>12. done.text = TextOfPieces(Pieces(x.out, i))
  <2>1. done = x.out[d]
    BY <1>4, <1>6, <1>7 DEF Outlasts
  <2>2. QED BY <2>1, <1>6 DEF Told
<1>13. QED BY <1>2, <1>8, <1>10, <1>11, <1>12

\* At the end every item was concluded once.
LEMMA ItemConcluded ==
    ASSUME NEW s, NEW x, Outlasts(s, x), NEW i, i \in 1..Len(x.items),
           Told(x.out, x.items[i], i), x.items[i].done
    PROVE  Cardinality(EventsOf(Firsts(s, Len(s)), i, "item_done")) = 1
<1>1. Len(s) \in Nat /\ Len(x.out) \in Nat /\ Len(x.out) <= Len(s)
  BY ListFacts DEF Outlasts, IsAdapter
<1>2. PICK k, p : k \in Kinds /\ k = "item_done" /\ p \in 0..Len(s) /\ p = Len(s)
  BY <1>1 DEF Kinds
<1>3. EventsOf(Firsts(s, p), i, k) = {s[q] : q \in {r \in At(x.out, i, k) : r <= p}}
  BY <1>2, EventsAt
<1>4. PICK e \in 1..Len(x.out) : At(x.out, i, "item_done") = {e}
  BY DEF Told, Concluded
<1>5. {r \in At(x.out, i, k) : r <= p} = {e}
  BY <1>1, <1>2, <1>4
<1>6. EventsOf(Firsts(s, p), i, k) = {s[e]}
  BY <1>3, <1>5
<1>7. QED BY <1>2, <1>6, FS_Singleton

LEMMA ItemsFollow == Inv /\ Telling => ItemsCloseOnce
<1> DEFINE E == Range(client.events)
<1> SUFFICES ASSUME Inv, Telling, client.whole, ~conn.open, client.events # <<>>
             PROVE  LET events   == Range(client.events)
                        of(i, k) == {e \in events : e.item = i /\ e.kind = k}
                        items    == {e.item : e \in events} \ {0}
                        text(i)  == TextOfPieces(of(i, "delta"))
                    IN  /\ \A d, e \in events : d.number = e.number => d = e
                        /\ \A i \in items : Cardinality(of(i, "added")) = 1
                        /\ \A d, e \in {f \in events : f.kind = "added"} : d.item < e.item => d.number < e.number
                        /\ \A i \in items : \A d \in of(i, "added"), e \in events :
                                e.item = i => d.number <= e.number
                        /\ \A i \in items : \A done \in of(i, "text_done") :
                                /\ of(i, "text_done") = {done}
                                /\ \A e \in of(i, "delta") : e.number < done.number
                                /\ done.text = text(i)
                        /\ HasEnded => \A i \in items : Cardinality(of(i, "item_done")) = 1
  BY DEF ItemsCloseOnce
<1>1. PICK s : s = Sent(log, db.written, status)
  OBVIOUS
<1>2. PICK p : p \in 0..Len(s) /\ Range(client.events) = {s[i] : i \in 1..p}
  BY <1>1 DEF Telling, Reached
<1>3. PICK x : Outlasts(s, x) /\ (db.written => \A i \in 1..Len(x.items) : x.items[i].done)
  BY <1>1, SentOutlasts DEF Telling
<1>4. /\ Len(s) \in Nat /\ Len(x.out) \in Nat /\ Len(x.out) <= Len(s)
      /\ Sane(x.items, x.out, x.number)
  BY <1>3, ListFacts DEF Outlasts, IsAdapter, Good
<1>5. E = Firsts(s, p)
  BY <1>2 DEF Firsts
<1>6. \A i : \A k : {e \in E : e.item = i /\ e.kind = k} = EventsOf(E, i, k)
  BY DEF EventsOf
<1> DEFINE items == {e.item : e \in E} \ {0}
<1>7. ASSUME NEW d \in E, NEW e \in E, d.number = e.number
      PROVE  d = e
  <2>1. PICK i, j \in 1..p : d = s[i] /\ e = s[j]
    BY <1>2
  <2>2. i \in 1..Len(s) /\ j \in 1..Len(s)
    BY <2>1, <1>2, <1>4
  <2>3. s[i].number \in Nat /\ s[j].number \in Nat /\ s[i].number = s[j].number
    BY <2>1, <2>2, <1>3, <1>7 DEF Outlasts
  <2>4. ~(i < j) /\ ~(j < i)
    BY <2>2, <2>3, <1>3 DEF Outlasts, Rising
  <2>5. QED BY <2>1, <2>2, <2>4
<1>8. ASSUME NEW i \in items
      PROVE  /\ i \in 1..Len(x.items) /\ Told(x.out, x.items[i], i)
             /\ \E a \in E : EventsOf(E, i, "added") = {a} /\ \A e \in E : e.item = i => a.number <= e.number
  <2>1. PICK d \in E : d.item = i /\ i # 0
    BY <1>8
  <2>2. d \in Firsts(s, p) /\ p \in 0..Len(s) /\ Outlasts(s, x)
    BY <2>1, <1>2, <1>3, <1>5
  <2>3. /\ i \in 1..Len(x.items) /\ Told(x.out, x.items[i], i)
        /\ \E a \in Firsts(s, p) : /\ EventsOf(Firsts(s, p), i, "added") = {a}
                                   /\ \A e \in Firsts(s, p) : e.item = i => a.number <= e.number
    BY ONLY <2>1, <2>2, ItemAnnounced
  <2>4. QED BY <2>3, <1>5
<1>9. ASSUME NEW i \in items
      PROVE  Cardinality(EventsOf(E, i, "added")) = 1
  <2>1. PICK a : EventsOf(E, i, "added") = {a}
    BY <1>8, <1>9
  <2>2. QED BY <2>1, FS_Singleton
<1>10. ASSUME NEW d \in E, NEW e \in E, d.kind = "added", e.kind = "added", d.item < e.item
       PROVE  d.number < e.number
  <2>1. PICK i, j \in 1..p : d = s[i] /\ e = s[j]
    BY <1>2
  <2>2. i \in 1..Len(s) /\ j \in 1..Len(s) /\ "added" \in Kinds
    BY <2>1, <1>2, <1>4 DEF Kinds
  <2>3. i \in 1..Len(x.out) /\ j \in 1..Len(x.out)
    BY <2>1, <2>2, <1>3, <1>10 DEF Outlasts
  <2>4. s[i] = x.out[i] /\ s[j] = x.out[j]
    BY <2>3, <1>3 DEF Outlasts
  <2>5. i < j
    BY <2>1, <2>3, <2>4, <1>4, <1>10 DEF Sane, InOrder
  <2>6. QED BY <2>1, <2>2, <2>5, <1>3 DEF Outlasts, Rising
<1>11. ASSUME NEW i \in items, NEW d \in EventsOf(E, i, "added"), NEW e \in E, e.item = i
       PROVE  d.number <= e.number
  <2>1. PICK a : EventsOf(E, i, "added") = {a} /\ \A f \in E : f.item = i => a.number <= f.number
    BY <1>8, <1>11
  <2>2. d = a
    BY <2>1
  <2>3. QED BY <2>1, <2>2, <1>11
<1>12. ASSUME NEW i \in items, NEW done \in EventsOf(E, i, "text_done")
       PROVE  /\ EventsOf(E, i, "text_done") = {done}
              /\ \A e \in EventsOf(E, i, "delta") : e.number < done.number
              /\ done.text = TextOfPieces(EventsOf(E, i, "delta"))
  <2>1. i \in 1..Len(x.items) /\ Told(x.out, x.items[i], i)
    BY <1>8, <1>12
  <2>2. done \in EventsOf(Firsts(s, p), i, "text_done") /\ p \in 0..Len(s) /\ Outlasts(s, x)
    BY <1>2, <1>3, <1>5
  <2>3. /\ EventsOf(Firsts(s, p), i, "text_done") = {done}
        /\ \A e \in EventsOf(Firsts(s, p), i, "delta") : e.number < done.number
        /\ done.text = TextOfPieces(EventsOf(Firsts(s, p), i, "delta"))
    BY ONLY <2>1, <2>2, ItemTold
  <2>4. QED BY <2>3, <1>5
<1>13. ASSUME HasEnded, NEW i \in items
       PROVE  Cardinality(EventsOf(E, i, "item_done")) = 1
  <2>1. db.written /\ p = Len(s)
    BY <1>1, <1>2, <1>13, EndFound
  <2>2. i \in 1..Len(x.items) /\ Told(x.out, x.items[i], i) /\ x.items[i].done
    BY <2>1, <1>3, <1>8, <1>13
  <2>3. Cardinality(EventsOf(Firsts(s, Len(s)), i, "item_done")) = 1
    BY <2>2, <1>3, ItemConcluded
  <2>4. QED BY <2>1, <2>3, <1>5
<1> HIDE DEF E, items
<1>14. /\ \A i \in items : Cardinality({e \in E : e.item = i /\ e.kind = "added"}) = 1
       /\ HasEnded => \A i \in items : Cardinality({e \in E : e.item = i /\ e.kind = "item_done"}) = 1
  BY <1>6, <1>9, <1>13
<1>15. \A i \in items : \A d \in {f \in E : f.item = i /\ f.kind = "added"}, e \in E :
          e.item = i => d.number <= e.number
  BY <1>6, <1>11
<1>16. \A i \in items : \A done \in {f \in E : f.item = i /\ f.kind = "text_done"} :
          /\ {f \in E : f.item = i /\ f.kind = "text_done"} = {done}
          /\ \A e \in {f \in E : f.item = i /\ f.kind = "delta"} : e.number < done.number
          /\ done.text = TextOfPieces({f \in E : f.item = i /\ f.kind = "delta"})
  <2>1. SUFFICES ASSUME NEW i \in items, NEW done \in {f \in E : f.item = i /\ f.kind = "text_done"}
                 PROVE  /\ {f \in E : f.item = i /\ f.kind = "text_done"} = {done}
                        /\ \A e \in {f \in E : f.item = i /\ f.kind = "delta"} : e.number < done.number
                        /\ done.text = TextOfPieces({f \in E : f.item = i /\ f.kind = "delta"})
    OBVIOUS
  <2>2. PICK S, T : S = EventsOf(E, i, "text_done") /\ T = EventsOf(E, i, "delta")
    OBVIOUS
  <2>3. {f \in E : f.item = i /\ f.kind = "text_done"} = S /\ {f \in E : f.item = i /\ f.kind = "delta"} = T
    BY <2>2, <1>6
  <2>4. done \in S
    BY <2>3
  <2>5. S = {done} /\ (\A e \in T : e.number < done.number) /\ done.text = TextOfPieces(T)
    BY <2>2, <2>4, <1>12
  <2>6. QED BY <2>3, <2>5
<1>17. \A d, e \in {f \in E : f.kind = "added"} : d.item < e.item => d.number < e.number
  BY <1>10
<1>18. \A d, e \in E : d.number = e.number => d = e
  BY <1>7
<1>19. QED BY <1>14, <1>15, <1>16, <1>17, <1>18 DEF E, items

\* Wherever a client was cut off, its items are opened in order and once, told
\* of in full before they end, and ended once before the response is
\* (openai_responses_format_adapter.py).
THEOREM ItemsAreWhole == Spec => []ItemsCloseOnce
<1>1. Inv /\ Telling => ItemsCloseOnce
  BY ItemsFollow
<1>2. QED BY <1>1, StreamIsTold, PTL

-----------------------------------------------------------------------------
(* What the orchestrator makes of the same chunks.                          *)

MergedFrom(a, l) == FoldLeft(MergeChunk, a, l)

MergedRows(l) == MergedFrom(<<>>, l)

LEMMA MergeFold ==
    ASSUME NEW a, NEW l, NEW n \in Nat, DOMAIN l = 1..n
    PROVE  \E r : Chain(MergeRule, a, l, n, r) /\ MergedFrom(a, l) = r[n]
<1>1. PICK m, rule : m = l /\ rule = MergeRule
  OBVIOUS
<1> DEFINE f == CHOOSE h : h = [s \in SUBSET (1..n) |->
                                IF s = {} THEN a ELSE MergeChunk(h[s \ {Max(s)}], m[Max(s)])]
<1>2. \A h, s : Step(rule, a, m, h, s) = IF s = {} THEN a ELSE MergeChunk(h[s \ {Max(s)}], m[Max(s)])
  <2>1. rule.kind = "merge"
    BY <1>1 DEF MergeRule
  <2>2. \A x, y : Apply(rule, x, y) = MergeChunk(x, y)
    BY <2>1 DEF Apply
  <2>3. QED BY <2>2 DEF Step
<1>3. PICK h : IsFold(rule, a, m, n, h)
  BY FoldExists
<1>4. h = [s \in SUBSET (1..n) |-> IF s = {} THEN a ELSE MergeChunk(h[s \ {Max(s)}], m[Max(s)])]
  BY <1>2, <1>3 DEF IsFold
<1>5. f = [s \in SUBSET (1..n) |-> IF s = {} THEN a ELSE MergeChunk(f[s \ {Max(s)}], m[Max(s)])]
  BY <1>4
<1>6. MergedFrom(a, l) = f[1..n]
  BY <1>1 DEF MergedFrom, FoldLeft, MapThenFoldSet
<1> HIDE DEF f
<1>7. IsFold(rule, a, m, n, f)
  BY <1>2, <1>5 DEF IsFold
<1>8. PICK r : Chain(rule, a, m, n, r) /\ f[1..n] = r[n]
  BY <1>7, FoldChain
<1>9. Chain(MergeRule, a, l, n, r) /\ MergedFrom(a, l) = r[n]
  BY <1>1, <1>6, <1>8
<1>10. QED BY <1>9

LEMMA MergedNone ==
    ASSUME NEW l, DOMAIN l = 1..0
    PROVE  MergedRows(l) = <<>>
<1>1. PICK a : a = <<>>
  OBVIOUS
<1>2. PICK r : Chain(MergeRule, a, l, 0, r) /\ MergedFrom(a, l) = r[0]
  BY MergeFold
<1>3. QED BY <1>1, <1>2 DEF Chain, MergedRows

LEMMA MergedGrows ==
    ASSUME NEW l, IsList(l), NEW c
    PROVE  MergedRows(Append(l, c)) = MergeChunk(MergedRows(l), c)
<1>1. PICK n : n = Len(l)
  OBVIOUS
<1>2. PICK m : m = Append(l, c)
  OBVIOUS
<1>3. PICK a : a = <<>>
  OBVIOUS
<1>4. /\ n \in Nat /\ n + 1 \in Nat /\ DOMAIN l = 1..n /\ DOMAIN m = 1..(n + 1)
      /\ m[n + 1] = c /\ \A k \in 1..n : m[k] = l[k]
  <2>1. IsList(m) /\ Len(m) = n + 1 /\ m[n + 1] = c /\ \A k \in 1..n : m[k] = l[k]
    BY <1>1, <1>2, ListWithMore
  <2>2. QED BY <2>1, <1>1, ListFacts
<1>5. PICK r : Chain(MergeRule, a, l, n, r) /\ MergedFrom(a, l) = r[n]
  BY <1>4, MergeFold
<1>6. PICK q : Chain(MergeRule, a, m, n + 1, q) /\ MergedFrom(a, m) = q[n + 1]
  BY <1>4, MergeFold
<1>7. Chain(MergeRule, a, m, n, q)
  BY <1>4, <1>6 DEF Chain
<1>8. r[n] = q[n]
  BY <1>4, <1>5, <1>7, ChainsAgree
<1>9. q[n + 1] = Apply(MergeRule, q[n], c)
  <2>1. n + 1 \in 1..(n + 1) /\ (n + 1) - 1 = n
    BY <1>4
  <2>2. q[n + 1] = Apply(MergeRule, q[(n + 1) - 1], m[n + 1])
    BY <2>1, <1>6 DEF Chain
  <2>3. QED BY <2>1, <2>2, <1>4
<1>10. \A x, y : Apply(MergeRule, x, y) = MergeChunk(x, y)
  <2>1. MergeRule.kind = "merge"
    BY DEF MergeRule
  <2>2. QED BY <2>1 DEF Apply
<1>11. QED BY <1>2, <1>3, <1>5, <1>6, <1>8, <1>9, <1>10 DEF MergedRows

\* Chunk c goes to the row of this key.
GoesTo(c, key, rows, next) ==
    /\ DOMAIN next = DOMAIN rows \cup {key}
    /\ \A x \in DOMAIN rows : x # key => next[x] = rows[x]
    /\ key \in DOMAIN rows => /\ next[key].role = rows[key].role
                              /\ next[key].content = rows[key].content \o c.text
                              /\ next[key].first = rows[key].first
    /\ key \notin DOMAIN rows => /\ next[key].role = c.role
                                 /\ next[key].content = c.text
                                 /\ next[key].first = c.number

LEMMA MergeFacts ==
    ASSUME NEW rows, NEW c, c.type = "messages"
    PROVE  GoesTo(c, OrchestratorKey(c), rows, MergeChunk(rows, c))
<1> PICK key, next : key = OrchestratorKey(c) /\ next = MergeChunk(rows, c)
  OBVIOUS
<1>1. \A row : next = Put(rows, key, row) =>
          /\ DOMAIN next = DOMAIN rows \cup {key}
          /\ \A x \in DOMAIN rows : x # key => next[x] = rows[x]
          /\ next[key] = row
  BY DEF Put
<1>2. CASE key \in DOMAIN rows
  <2>1. PICK row : row = [role |-> rows[key].role, content |-> rows[key].content \o c.text,
                          first |-> rows[key].first, last |-> c.number]
    OBVIOUS
  <2>2. next = Put(rows, key, row)
    BY <1>2, <2>1 DEF MergeChunk
  <2>3. /\ row.role = rows[key].role /\ row.content = rows[key].content \o c.text
        /\ row.first = rows[key].first
    BY <2>1
  <2>4. GoesTo(c, key, rows, next)
    BY <1>1, <1>2, <2>2, <2>3 DEF GoesTo
  <2>5. QED BY <2>4
<1>3. CASE key \notin DOMAIN rows
  <2>1. PICK row : row = [role |-> c.role, content |-> c.text, first |-> c.number, last |-> c.number]
    OBVIOUS
  <2>2. next = Put(rows, key, row)
    BY <1>3, <2>1 DEF MergeChunk
  <2>3. row.role = c.role /\ row.content = c.text /\ row.first = c.number
    BY <2>1
  <2>4. GoesTo(c, key, rows, next)
    BY <1>1, <1>3, <2>2, <2>3 DEF GoesTo
  <2>5. QED BY <2>4
<1>4. QED BY <1>2, <1>3

LEMMA CommonRoles == CommonRole("ai") = "ai" /\ \A role \in Role : CommonRole(role) \in Role
BY ConstantsAssumption DEF CommonRole

LEMMA KeyFacts ==
    ASSUME NEW c, c.role \in Role, c.number \in Nat, c.id \notin SyntheticIds
    PROVE  \E id : /\ OrchestratorKey(c) = <<c.ns, id>> /\ id # None
                   /\ c.id # None => id = c.id
                   /\ c.id = None => id \in SyntheticIds
<1>1. CASE c.id = None
  <2>1. PICK id : id = <<"synthetic", c.role, c.number>>
    OBVIOUS
  <2>2. id \in SyntheticIds
    BY <2>1 DEF SyntheticIds
  <2>3. id # None
    BY <2>2, ConstantsAssumption
  <2>4. OrchestratorKey(c) = <<c.ns, id>>
    BY <1>1, <2>1 DEF OrchestratorKey
  <2>5. QED BY <1>1, <2>2, <2>3, <2>4
<1>2. CASE c.id # None
  BY <1>2 DEF OrchestratorKey
<1>3. QED BY <1>1, <1>2

\* The first number of a message, when there is one chunk more.
LEMMA FirstNumber ==
    ASSUME NEW l, IsList(l), NEW d, NEW ns, NEW id,
           NEW S, S = Numbers(l, ns, id), NEW T, T = Numbers(Append(l, d), ns, id)
    PROVE  /\ ~IsOf(d, ns, id) => T = S
           /\ IsOf(d, ns, id) => T # {}
           /\ S # {} => /\ T # {} /\ Min(S) \in 1..Len(l) /\ Min(T) = Min(S)
           /\ S = {} /\ IsOf(d, ns, id) => Min(T) = Len(l) + 1
<1>1. PICK n \in Nat : n = Len(l)
  BY ListFacts
<1>2. T = S \cup (IF IsOf(d, ns, id) THEN {n + 1} ELSE {}) /\ S \in SUBSET (1..n)
  BY <1>1, NumbersGrow
<1>3. S # {} => Min(S) \in S
  BY <1>2, MinIsLeast
<1>4. S # {} => Min(S \cup {n + 1}) = Min(S)
  <2>1. PICK k : k = n + 1
    OBVIOUS
  <2>2. k \in Nat /\ k > 0 /\ S \in SUBSET (1..(k - 1))
    BY <2>1, <1>2
  <2>3. S # {} => Min(S \cup {k}) = Min(S)
    BY <2>2, EarliestIsMin
  <2>4. QED BY <2>1, <2>3
<1>5. Min({n + 1}) = n + 1
  <2>1. {n + 1} \in SUBSET Nat /\ {n + 1} # {}
    BY <1>1
  <2>2. Min({n + 1}) \in {n + 1}
    BY <2>1, MinIsLeast
  <2>3. QED BY <2>2
<1>6. QED BY <1>1, <1>2, <1>3, <1>4, <1>5

Named(id) == id # None /\ id \notin SyntheticIds

\* Of every message with an id, rows have the text, and the role of its first chunk.
NamedTold(rows, l) ==
    \A ns, id : Named(id) =>
        LET S == Numbers(l, ns, id)
        IN  /\ <<ns, id>> \in DOMAIN rows <=> S # {}
            /\ S # {} => /\ rows[<<ns, id>>].role = CommonRole(l[Min(S)].role)
                         /\ rows[<<ns, id>>].content = Texts(l, ns, id)

\* They are numbered otherwise, but in the same order.
OrderTold(rows, l) ==
    \A ns, id, ms, jd : Named(id) /\ Named(jd) =>
        LET S == Numbers(l, ns, id)
            T == Numbers(l, ms, jd)
        IN  S # {} /\ T # {} => (rows[<<ns, id>>].first < rows[<<ms, jd>>].first <=> Min(S) < Min(T))

\* Every row is of some chunks: n of them have been yielded.
RowsKnown(rows, l, n) ==
    \A x \in DOMAIN rows :
        \E ns \in Namespace : \E id :
            /\ x = <<ns, id>> /\ id # None
            /\ rows[x].first \in 1..n
            /\ id \in SyntheticIds => \E m \in 1..Len(l) : /\ l[m].type = "messages" /\ l[m].id = None
                                                           /\ l[m].ns = ns /\ CommonRole(l[m].role) = rows[x].role

\* A chunk of the orchestrator and the one of the log that are the same
SameChunk(c, d) ==
    /\ c.type = d.type /\ c.ns = d.ns /\ c.id = d.id /\ c.role = CommonRole(d.role) /\ c.text = d.text
    /\ c.ns \in Namespace /\ c.role \in Role /\ c.id \notin SyntheticIds /\ c.text \in Seq(Nat)

NoTexts(l) == \A ns, id : Numbers(l, ns, id) = {} => Texts(l, ns, id) = <<>>

LEMMA MergeKeepsNamed ==
    ASSUME NEW l, IsList(l), NEW rows, NamedTold(rows, l), NoTexts(l),
           NEW c, NEW d, SameChunk(c, d), c.type = "messages", c.number \in Nat
    PROVE  NamedTold(MergeChunk(rows, c), Append(l, d))
<1>1. PICK key : key = OrchestratorKey(c)
  OBVIOUS
<1>2. PICK next : next = MergeChunk(rows, c)
  OBVIOUS
<1>3. GoesTo(c, key, rows, next)
  BY <1>1, <1>2, MergeFacts
<1>4. PICK jd : /\ key = <<c.ns, jd>> /\ jd # None
                /\ c.id # None => jd = c.id
                /\ c.id = None => jd \in SyntheticIds
  BY <1>1, KeyFacts DEF SameChunk
<1> SUFFICES ASSUME NEW ns, NEW id, Named(id)
             PROVE  LET T == Numbers(Append(l, d), ns, id)
                    IN  /\ <<ns, id>> \in DOMAIN next <=> T # {}
                        /\ T # {} => /\ next[<<ns, id>>].role = CommonRole(Append(l, d)[Min(T)].role)
                                     /\ next[<<ns, id>>].content = Texts(Append(l, d), ns, id)
  BY <1>2 DEF NamedTold
<1>5. PICK S, T : S = Numbers(l, ns, id) /\ T = Numbers(Append(l, d), ns, id)
  OBVIOUS
<1>6. PICK x : x = <<ns, id>>
  OBVIOUS
<1>7. /\ x \in DOMAIN rows <=> S # {}
      /\ S # {} => rows[x].role = CommonRole(l[Min(S)].role) /\ rows[x].content = Texts(l, ns, id)
  BY <1>5, <1>6 DEF NamedTold
<1>8. /\ ~IsOf(d, ns, id) => T = S
      /\ IsOf(d, ns, id) => T # {}
      /\ S # {} => T # {} /\ Min(S) \in 1..Len(l) /\ Min(T) = Min(S)
      /\ S = {} /\ IsOf(d, ns, id) => Min(T) = Len(l) + 1
  BY <1>5, FirstNumber
<1>9. IsOf(d, ns, id) <=> x = key
  BY <1>4, <1>6 DEF IsOf, SameChunk, Named
<1>10. Texts(Append(l, d), ns, id) = IF IsOf(d, ns, id) THEN Texts(l, ns, id) \o d.text ELSE Texts(l, ns, id)
  BY TextsGrow DEF AddText, IsOf
<1>11. /\ \A i \in 1..Len(l) : Append(l, d)[i] = l[i]
       /\ Append(l, d)[Len(l) + 1] = d
  BY ListWithMore
<1>12. c.text = d.text /\ c.role = CommonRole(d.role) /\ c.text \in Seq(Nat)
  BY DEF SameChunk
<1>13. CASE ~IsOf(d, ns, id)
  <2>1. (x \in DOMAIN next <=> T # {}) /\ (T # {} => next[x] = rows[x])
    BY <1>3, <1>7, <1>8, <1>9, <1>13 DEF GoesTo
  <2>2. T # {} => Append(l, d)[Min(T)] = l[Min(S)]
    BY <1>8, <1>11, <1>13
  <2>3. QED BY <2>1, <2>2, <1>5, <1>6, <1>7, <1>8, <1>10, <1>13
<1>14. CASE IsOf(d, ns, id) /\ S # {}
  <2>1. /\ x \in DOMAIN next /\ T # {} /\ next[x].role = rows[x].role
        /\ next[x].content = rows[x].content \o c.text
    BY <1>3, <1>7, <1>8, <1>9, <1>14 DEF GoesTo
  <2>2. Append(l, d)[Min(T)] = l[Min(S)]
    BY <1>8, <1>11, <1>14
  <2>3. QED BY <2>1, <2>2, <1>5, <1>6, <1>7, <1>10, <1>12, <1>14
<1>15. CASE IsOf(d, ns, id) /\ S = {}
  <2>1. x \in DOMAIN next /\ T # {} /\ next[x].role = c.role /\ next[x].content = c.text
    BY <1>3, <1>7, <1>8, <1>9, <1>15 DEF GoesTo
  <2>2. Append(l, d)[Min(T)] = d
    BY <1>8, <1>11, <1>15
  <2>3. Texts(l, ns, id) = <<>>
    BY <1>5, <1>15 DEF NoTexts
  <2>4. <<>> \o d.text = d.text
    BY <1>12, ConcatEmptySeq
  <2>5. QED BY <2>1, <2>2, <2>3, <2>4, <1>5, <1>6, <1>10, <1>12, <1>15
<1>16. QED BY <1>13, <1>14, <1>15

\* Where the row of a named message stands, before and after.
LEMMA MergeKeepsOrder ==
    ASSUME NEW l, IsList(l), NEW n \in Nat,
           NEW rows, NamedTold(rows, l), OrderTold(rows, l), RowsKnown(rows, l, n),
           NEW c, NEW d, SameChunk(c, d), c.type = "messages", c.number = n + 1
    PROVE  OrderTold(MergeChunk(rows, c), Append(l, d))
<1>1. PICK key : key = OrchestratorKey(c)
  OBVIOUS
<1>2. PICK next : next = MergeChunk(rows, c)
  OBVIOUS
<1>3. GoesTo(c, key, rows, next)
  BY <1>1, <1>2, MergeFacts
<1>4. PICK kd : /\ key = <<c.ns, kd>> /\ kd # None
                /\ c.id # None => kd = c.id
                /\ c.id = None => kd \in SyntheticIds
  <2>1. c.number \in Nat
    OBVIOUS
  <2>2. QED BY <1>1, <2>1, KeyFacts DEF SameChunk
<1>5. Len(l) \in Nat
  BY ListFacts
\* Of one message
<1> DEFINE Place(ns, id, S, T) ==
        /\ T # {} /\ S # {} => /\ next[<<ns, id>>].first = rows[<<ns, id>>].first /\ Min(T) = Min(S)
                               /\ rows[<<ns, id>>].first \in 1..n /\ Min(S) \in 1..Len(l)
        /\ T # {} /\ S = {} => /\ next[<<ns, id>>].first = n + 1 /\ Min(T) = Len(l) + 1
                               /\ <<ns, id>> = key
<1>6. ASSUME NEW ns, NEW id, Named(id), NEW S, NEW T, S = Numbers(l, ns, id), T = Numbers(Append(l, d), ns, id)
      PROVE  Place(ns, id, S, T)
  <2>1. PICK x : x = <<ns, id>>
    OBVIOUS
  <2>2. x \in DOMAIN rows <=> S # {}
    BY <1>6, <2>1 DEF NamedTold
  <2>3. /\ ~IsOf(d, ns, id) => T = S
        /\ S # {} => T # {} /\ Min(S) \in 1..Len(l) /\ Min(T) = Min(S)
        /\ S = {} /\ IsOf(d, ns, id) => Min(T) = Len(l) + 1
    BY <1>6, FirstNumber
  <2>4. IsOf(d, ns, id) <=> x = key
    BY <1>4, <1>6, <2>1 DEF IsOf, SameChunk, Named
  <2>5. x \in DOMAIN rows => rows[x].first \in 1..n
    BY DEF RowsKnown
  <2>6. CASE S # {}
    <3>1. next[x].first = rows[x].first
      BY <1>3, <2>2, <2>6 DEF GoesTo
    <3>2. QED BY <2>1, <2>2, <2>3, <2>5, <2>6, <3>1
  <2>7. CASE S = {}
    <3>1. T # {} => x = key /\ next[x].first = n + 1
      BY <1>3, <2>2, <2>3, <2>4, <2>7 DEF GoesTo
    <3>2. QED BY <2>1, <2>3, <2>4, <2>7, <3>1
  <2>8. QED BY <2>6, <2>7
<1> HIDE DEF Place
<1> SUFFICES ASSUME NEW ns, NEW id, NEW ms, NEW jd, Named(id), Named(jd),
                    Numbers(Append(l, d), ns, id) # {}, Numbers(Append(l, d), ms, jd) # {}
             PROVE  next[<<ns, id>>].first < next[<<ms, jd>>].first
                    <=> Min(Numbers(Append(l, d), ns, id)) < Min(Numbers(Append(l, d), ms, jd))
  BY <1>2 DEF OrderTold
<1>7. PICK S, T : S = Numbers(l, ns, id) /\ T = Numbers(Append(l, d), ns, id)
  OBVIOUS
<1>8. PICK U, V : U = Numbers(l, ms, jd) /\ V = Numbers(Append(l, d), ms, jd)
  OBVIOUS
<1>9. Place(ns, id, S, T) /\ Place(ms, jd, U, V)
  BY <1>6, <1>7, <1>8
<1>10. PICK x, y : x = <<ns, id>> /\ y = <<ms, jd>>
  OBVIOUS
<1>11. /\ T # {} /\ V # {}
       /\ S # {} => /\ next[x].first = rows[x].first /\ Min(T) = Min(S)
                    /\ rows[x].first \in 1..n /\ Min(S) \in 1..Len(l)
       /\ S = {} => next[x].first = n + 1 /\ Min(T) = Len(l) + 1 /\ x = key
       /\ U # {} => /\ next[y].first = rows[y].first /\ Min(V) = Min(U)
                    /\ rows[y].first \in 1..n /\ Min(U) \in 1..Len(l)
       /\ U = {} => next[y].first = n + 1 /\ Min(V) = Len(l) + 1 /\ y = key
  BY <1>7, <1>8, <1>9, <1>10 DEF Place
<1>12. S # {} /\ U # {} => (rows[x].first < rows[y].first <=> Min(S) < Min(U))
  BY <1>7, <1>8, <1>10 DEF OrderTold
<1>13. next[x].first < next[y].first <=> Min(T) < Min(V)
  <2>1. CASE S # {} /\ U # {}
    BY <2>1, <1>11, <1>12
  <2>2. CASE S # {} /\ U = {}
    BY <2>2, <1>11, <1>5
  <2>3. CASE S = {} /\ U # {}
    BY <2>3, <1>11, <1>5
  <2>4. CASE S = {} /\ U = {}
    BY <2>4, <1>11, <1>5
  <2>5. QED BY <2>1, <2>2, <2>3, <2>4
<1>14. QED BY <1>7, <1>8, <1>10, <1>13

LEMMA MergeKeepsKnown ==
    ASSUME NEW l, IsList(l), NEW n \in Nat, NEW rows, RowsKnown(rows, l, n),
           NEW c, NEW d, SameChunk(c, d), c.type = "messages", c.number = n + 1
    PROVE  RowsKnown(MergeChunk(rows, c), Append(l, d), n + 1)
<1>1. PICK key : key = OrchestratorKey(c)
  OBVIOUS
<1>2. PICK next : next = MergeChunk(rows, c)
  OBVIOUS
<1>3. GoesTo(c, key, rows, next)
  BY <1>1, <1>2, MergeFacts
<1>4. PICK kd : /\ key = <<c.ns, kd>> /\ kd # None
                /\ c.id # None => kd = c.id
                /\ c.id = None => kd \in SyntheticIds
  <2>1. c.number \in Nat
    OBVIOUS
  <2>2. QED BY <1>1, <2>1, KeyFacts DEF SameChunk
<1>5. PICK m : m = Append(l, d)
  OBVIOUS
<1>6. /\ Len(l) \in Nat /\ Len(m) = Len(l) + 1
      /\ \A i \in 1..Len(l) : m[i] = l[i]
      /\ m[Len(l) + 1] = d
  BY <1>5, ListFacts, ListWithMore
<1> SUFFICES ASSUME NEW x \in DOMAIN next
             PROVE  \E ns \in Namespace : \E id :
                      /\ x = <<ns, id>> /\ id # None
                      /\ next[x].first \in 1..(n + 1)
                      /\ id \in SyntheticIds => \E i \in 1..Len(m) : /\ m[i].type = "messages" /\ m[i].id = None
                                                                     /\ m[i].ns = ns /\ CommonRole(m[i].role) = next[x].role
  BY <1>2, <1>5 DEF RowsKnown
<1>7. CASE x \in DOMAIN rows
  <2>1. PICK ns \in Namespace : \E id :
            /\ x = <<ns, id>> /\ id # None
            /\ rows[x].first \in 1..n
            /\ id \in SyntheticIds => \E i \in 1..Len(l) : /\ l[i].type = "messages" /\ l[i].id = None
                                                           /\ l[i].ns = ns /\ CommonRole(l[i].role) = rows[x].role
    BY <1>7 DEF RowsKnown
  <2>2. PICK id : /\ x = <<ns, id>> /\ id # None
                  /\ rows[x].first \in 1..n
                  /\ id \in SyntheticIds => \E i \in 1..Len(l) : /\ l[i].type = "messages" /\ l[i].id = None
                                                                 /\ l[i].ns = ns /\ CommonRole(l[i].role) = rows[x].role
    BY <2>1
  <2>3. next[x].first = rows[x].first /\ next[x].role = rows[x].role
    BY <1>3, <1>7 DEF GoesTo
  <2>4. id \in SyntheticIds => \E i \in 1..Len(m) : /\ m[i].type = "messages" /\ m[i].id = None
                                                    /\ m[i].ns = ns /\ CommonRole(m[i].role) = next[x].role
    <3> SUFFICES ASSUME id \in SyntheticIds
                 PROVE  \E i \in 1..Len(m) : /\ m[i].type = "messages" /\ m[i].id = None
                                             /\ m[i].ns = ns /\ CommonRole(m[i].role) = next[x].role
      OBVIOUS
    <3>1. PICK i \in 1..Len(l) : /\ l[i].type = "messages" /\ l[i].id = None
                                 /\ l[i].ns = ns /\ CommonRole(l[i].role) = rows[x].role
      BY <2>2
    <3>2. i \in 1..Len(m) /\ m[i] = l[i]
      BY <1>6
    <3>3. QED BY <2>3, <3>1, <3>2
  <2>5. next[x].first \in 1..(n + 1)
    BY <2>2, <2>3
  <2>6. QED BY <2>2, <2>4, <2>5
<1>8. CASE x \notin DOMAIN rows
  <2>1. x = key /\ next[x].role = c.role /\ next[x].first = n + 1
    BY <1>3, <1>8 DEF GoesTo
  <2>2. c.ns \in Namespace
    BY DEF SameChunk
  <2>3. kd \in SyntheticIds => \E i \in 1..Len(m) : /\ m[i].type = "messages" /\ m[i].id = None
                                                    /\ m[i].ns = c.ns /\ CommonRole(m[i].role) = next[x].role
    <3>1. d.type = "messages" /\ d.ns = c.ns /\ CommonRole(d.role) = c.role /\ d.id = c.id /\ c.id \notin SyntheticIds
      BY DEF SameChunk
    <3>2. Len(l) + 1 \in 1..Len(m)
      BY <1>6
    <3>3. QED BY <1>4, <1>6, <2>1, <3>1, <3>2
  <2>4. next[x].first \in 1..(n + 1)
    BY <2>1
  <2>5. QED BY <1>4, <2>1, <2>2, <2>3, <2>4
<1>9. QED BY <1>7, <1>8

MergedTells(rows, l, n) == NamedTold(rows, l) /\ OrderTold(rows, l) /\ RowsKnown(rows, l, n)

\* A chunk that is no message changes nothing.
LEMMA OtherChunkTells ==
    ASSUME NEW l, IsList(l), NEW n \in Nat, NEW rows, MergedTells(rows, l, n), NEW d, d.type # "messages"
    PROVE  MergedTells(rows, l, n + 1) /\ MergedTells(rows, Append(l, d), n + 1)
<1>1. RowsKnown(rows, l, n + 1)
  BY DEF MergedTells, RowsKnown
<1>2. PICK m : m = Append(l, d)
  OBVIOUS
<1>3. /\ Len(l) \in Nat /\ Len(m) = Len(l) + 1
      /\ \A i \in 1..Len(l) : m[i] = l[i]
  BY <1>2, ListFacts, ListWithMore
<1>4. \A ns, id : Numbers(m, ns, id) = Numbers(l, ns, id) /\ Texts(m, ns, id) = Texts(l, ns, id)
  <2> SUFFICES ASSUME NEW ns, NEW id
               PROVE  Numbers(m, ns, id) = Numbers(l, ns, id) /\ Texts(m, ns, id) = Texts(l, ns, id)
    OBVIOUS
  <2>1. ~IsOf(d, ns, id)
    BY DEF IsOf
  <2>2. Numbers(m, ns, id) = Numbers(l, ns, id)
    BY <1>2, <2>1, NumbersGrow
  <2>3. Texts(m, ns, id) = Texts(l, ns, id)
    BY <1>2, <2>1, TextsGrow DEF AddText, IsOf
  <2>4. QED BY <2>2, <2>3
<1>5. \A ns, id : Numbers(l, ns, id) # {} => m[Min(Numbers(l, ns, id))] = l[Min(Numbers(l, ns, id))]
  <2> SUFFICES ASSUME NEW ns, NEW id, Numbers(l, ns, id) # {}
               PROVE  m[Min(Numbers(l, ns, id))] = l[Min(Numbers(l, ns, id))]
    OBVIOUS
  <2>1. PICK S, T : S = Numbers(l, ns, id) /\ T = Numbers(Append(l, d), ns, id)
    OBVIOUS
  <2>2. Min(S) \in 1..Len(l)
    BY <2>1, FirstNumber
  <2>3. QED BY <1>3, <2>1, <2>2
<1>6. NamedTold(rows, m)
  BY <1>4, <1>5 DEF MergedTells, NamedTold
<1>7. OrderTold(rows, m)
  BY <1>4 DEF MergedTells, OrderTold
<1>8. RowsKnown(rows, m, n + 1)
  <2>1. \A i \in 1..Len(l) : i \in 1..Len(m) /\ m[i] = l[i]
    BY <1>3
  <2>2. QED BY <1>1, <2>1 DEF RowsKnown
<1>9. QED BY <1>1, <1>2, <1>6, <1>7, <1>8 DEF MergedTells

LEMMA MergeTells ==
    ASSUME NEW l, IsList(l), NEW n \in Nat, NEW rows, MergedTells(rows, l, n), NoTexts(l),
           NEW c, NEW d, SameChunk(c, d), c.number = n + 1
    PROVE  MergedTells(MergeChunk(rows, c), Append(l, d), n + 1)
<1>1. CASE c.type = "messages"
  <2>1. c.number \in Nat
    OBVIOUS
  <2>2. NamedTold(MergeChunk(rows, c), Append(l, d))
    BY <1>1, <2>1, MergeKeepsNamed DEF MergedTells
  <2>3. OrderTold(MergeChunk(rows, c), Append(l, d))
    BY <1>1, MergeKeepsOrder DEF MergedTells
  <2>4. RowsKnown(MergeChunk(rows, c), Append(l, d), n + 1)
    BY <1>1, MergeKeepsKnown DEF MergedTells
  <2>5. QED BY <2>2, <2>3, <2>4 DEF MergedTells
<1>2. CASE c.type # "messages"
  <2>1. MergeChunk(rows, c) = rows
    BY <1>2 DEF MergeChunk
  <2>2. d.type # "messages"
    BY <1>2 DEF SameChunk
  <2>3. QED BY <2>1, <2>2, OtherChunkTells
<1>3. QED BY <1>1, <1>2

\* The chunks of a list as the orchestrator keeps them.
ChunkList(s) == [n \in DOMAIN s |-> OrchestratorChunk(s[n], n)]

LEMMA ChunkListGrows ==
    ASSUME NEW s, IsList(s), NEW k
    PROVE  /\ IsList(ChunkList(s))
           /\ ChunkList(Append(s, k)) = Append(ChunkList(s), OrchestratorChunk(k, Len(s) + 1))
<1>1. PICK n \in Nat : n = Len(s) /\ DOMAIN s = 1..n
  BY ListFacts
<1>2. PICK t : t = Append(s, k)
  OBVIOUS
<1>3. /\ IsList(t) /\ Len(t) = n + 1 /\ t[n + 1] = k
      /\ \A i \in 1..n : t[i] = s[i]
  BY <1>1, <1>2, ListWithMore
<1>4. DOMAIN t = 1..(n + 1)
  BY <1>3, ListFacts
<1>5. PICK l, m : l = ChunkList(s) /\ m = ChunkList(t)
  OBVIOUS
<1>6. l = [i \in 1..n |-> OrchestratorChunk(s[i], i)]
  BY <1>1, <1>5 DEF ChunkList
<1>7. m = [i \in 1..(n + 1) |-> OrchestratorChunk(t[i], i)]
  BY <1>4, <1>5 DEF ChunkList
<1>8. IsList(l) /\ Len(l) = n
  <2>1. PICK z : z = l
    OBVIOUS
  <2>2. DOMAIN z = 1..n /\ z = [i \in 1..n |-> z[i]]
    BY <1>6, <2>1
  <2>3. \A i \in 1..n : z[i] \in Range(z)
    BY <2>2 DEF Range
  <2>4. z \in Seq(Range(z)) /\ Len(z) = n
    BY ONLY <2>2, <2>3, n \in Nat
  <2>5. QED BY <2>1, <2>4 DEF IsList
<1>9. IsList(m) /\ Len(m) = n + 1
  <2>1. PICK z, j : z = m /\ j = n + 1
    OBVIOUS
  <2>2. DOMAIN z = 1..j /\ z = [i \in 1..j |-> z[i]] /\ j \in Nat
    BY <1>7, <2>1
  <2>3. \A i \in 1..j : z[i] \in Range(z)
    BY <2>2 DEF Range
  <2>4. z \in Seq(Range(z)) /\ Len(z) = j
    BY ONLY <2>2, <2>3
  <2>5. QED BY <2>1, <2>4 DEF IsList
<1>10. PICK c : c = OrchestratorChunk(k, n + 1)
  OBVIOUS
<1>11. PICK q : q = Append(l, c)
  OBVIOUS
<1>12. /\ IsList(q) /\ Len(q) = n + 1 /\ q[n + 1] = c
       /\ \A i \in 1..n : q[i] = l[i]
  BY <1>8, <1>11, ListWithMore
<1>13. \A i \in 1..(n + 1) : m[i] = q[i]
  <2>1. \A i \in 1..n : m[i] = q[i]
    BY <1>3, <1>6, <1>7, <1>12
  <2>2. m[n + 1] = q[n + 1]
    BY <1>3, <1>7, <1>10, <1>12
  <2>3. \A i \in 1..(n + 1) : i \in 1..n \/ i = n + 1
    OBVIOUS
  <2>4. QED BY <2>1, <2>2, <2>3
<1>14. m = q
  BY <1>9, <1>12, <1>13, SameLists
<1>15. QED BY <1>1, <1>2, <1>5, <1>8, <1>10, <1>11, <1>14

\* The places of the chunks of a type
TypedAt(s, type) == {n \in 1..Len(s) : s[n].type = type}

Count(s, type) == Cardinality(TypedAt(s, type))

LEMMA TypedAtIsFinite ==
    ASSUME NEW s, IsList(s), NEW type
    PROVE  IsFiniteSet(TypedAt(s, type)) /\ Count(s, type) \in Nat
<1>1. PICK n \in Nat : n = Len(s)
  BY ListFacts
<1>2. IsFiniteSet(1..n)
  BY FS_Interval
<1>3. TypedAt(s, type) \in SUBSET (1..n)
  BY <1>1 DEF TypedAt
<1>4. IsFiniteSet(TypedAt(s, type))
  BY <1>2, <1>3, FS_Subset
<1>5. QED BY <1>4, FS_CardinalityType DEF Count

LEMMA CountGrows ==
    ASSUME NEW s, IsList(s), NEW k, NEW type
    PROVE  Count(Append(s, k), type) = IF k.type = type THEN Count(s, type) + 1 ELSE Count(s, type)
<1>1. PICK n \in Nat : n = Len(s)
  BY ListFacts
<1>2. PICK S, T : S = TypedAt(s, type) /\ T = TypedAt(Append(s, k), type)
  OBVIOUS
<1>3. IsFiniteSet(S)
  BY <1>2, TypedAtIsFinite
<1>4. /\ Len(Append(s, k)) = n + 1 /\ Append(s, k)[n + 1] = k
      /\ \A i \in 1..n : Append(s, k)[i] = s[i]
  BY <1>1, ListWithMore
<1>5. T = IF k.type = type THEN S \cup {n + 1} ELSE S
  BY <1>1, <1>2, <1>4 DEF TypedAt
<1>6. n + 1 \notin S
  BY <1>1, <1>2 DEF TypedAt
<1>7. Cardinality(S \cup {n + 1}) = Cardinality(S) + 1
  BY <1>3, <1>6, FS_AddElement
<1>8. QED BY <1>2, <1>5, <1>7 DEF Count

\* The two counts together
LEMMA TwoTypes ==
    ASSUME NEW s, IsList(s), NEW S, S = {n \in DOMAIN s : s[n].type \in {"tasks", "custom"}}
    PROVE  Cardinality(S) = Count(s, "tasks") + Count(s, "custom")
<1>1. PICK T, C : T = TypedAt(s, "tasks") /\ C = TypedAt(s, "custom")
  OBVIOUS
<1>2. IsFiniteSet(T) /\ IsFiniteSet(C)
  BY <1>1, TypedAtIsFinite
<1>3. DOMAIN s = 1..Len(s)
  BY ListFacts
<1>4. S = T \cup C /\ T \cap C = {}
  BY <1>1, <1>3 DEF TypedAt
<1>5. Cardinality(S) = Cardinality(T) + Cardinality(C) - Cardinality({})
  BY <1>2, <1>4, FS_Union
<1>6. Cardinality({}) = 0
  BY FS_EmptySet
<1>7. Cardinality(T) \in Nat /\ Cardinality(C) \in Nat
  BY <1>2, FS_CardinalityType
<1>8. QED BY <1>1, <1>5, <1>6, <1>7 DEF Count

\* What the orchestrator has of the chunks that the executor has buffered.
Compared ==
    /\ MergedTells(MergedRows(ChunkList(raw)), log, Len(raw))
    /\ \A n \in 1..Len(log) : \E m \in 1..Len(raw) : log[n].whole = raw[m].whole
    /\ Count(raw, "tasks") = Count(log, "tasks") /\ Count(raw, "custom") = Count(log, "custom")

LEMMA RawIsList ==
    ASSUME Inv
    PROVE  IsList(raw) /\ IsList(log) /\ Len(raw) \in Nat /\ Len(log) \in Nat
<1>1. IsList(raw)
  BY SeqOfRange DEF Inv, Buffered, IsList
<1>2. QED BY <1>1, ListFacts DEF Inv, Buffered

LEMMA BufferCompares ==
    ASSUME Inv, MessageInv, Compared, NEW k, Buffers(k)
    PROVE  Compared'
<1>1. PICK c : c = Resolved(Normalized(k))
  OBVIOUS
<1>2. PICK n \in Nat : n = Len(raw)
  BY RawIsList
<1>3. IsList(raw) /\ IsList(log) /\ Len(log) \in Nat /\ raw' = Append(raw, k) /\ log' = Append(log, c)
  BY <1>1, RawIsList DEF Buffers
<1>4. /\ c.type = k.type /\ c.ns \in Namespace /\ c.role \in Role /\ c.id \notin SyntheticIds
      /\ c.text \in Seq(Nat)
      /\ c.ns = k.ns /\ c.role = k.role /\ c.id = k.id /\ c.whole = k.whole
      /\ c.text = IF k.said THEN Token(k, n + 1) ELSE <<>>
  BY <1>1, <1>2, ResolvedMessage
<1>5. PICK d : d = OrchestratorChunk(k, n + 1)
  OBVIOUS
<1>6. SameChunk(d, c) /\ d.number = n + 1
  BY <1>4, <1>5, CommonRoles DEF OrchestratorChunk, SameChunk
<1>7. PICK rows : rows = MergedRows(ChunkList(raw))
  OBVIOUS
<1>8. MergedRows(ChunkList(raw')) = MergeChunk(rows, d)
  <2>1. PICK l : l = ChunkList(raw)
    OBVIOUS
  <2>2. IsList(l) /\ ChunkList(raw') = Append(l, d)
    BY <1>2, <1>3, <1>5, <2>1, ChunkListGrows
  <2>3. QED BY <2>1, <2>2, <1>7, MergedGrows
<1>9. NoTexts(log)
  BY DEF NoTexts, MessageInv, MessagesTold, ContentOf
<1>10. MergedTells(rows, log, n)
  BY <1>2, <1>7 DEF Compared
<1>11. MergedTells(MergeChunk(rows, d), Append(log, c), n + 1)
  BY <1>3, <1>6, <1>9, <1>10, MergeTells
<1>12. /\ Len(raw') = n + 1 /\ raw'[n + 1] = k
       /\ \A i \in 1..n : raw'[i] = raw[i]
       /\ Len(log') = Len(log) + 1 /\ log'[Len(log) + 1] = c
       /\ \A i \in 1..Len(log) : log'[i] = log[i]
  BY <1>2, <1>3, ListWithMore
<1>13. ASSUME NEW i \in 1..Len(log') PROVE \E m \in 1..Len(raw') : log'[i].whole = raw'[m].whole
  <2>1. CASE i \in 1..Len(log)
    <3>1. PICK m \in 1..n : log[i].whole = raw[m].whole
      BY <2>1, <1>2 DEF Compared
    <3>2. m \in 1..Len(raw') /\ log'[i].whole = raw'[m].whole
      BY <2>1, <3>1, <1>12
    <3>3. QED BY <3>2
  <2>2. CASE i \notin 1..Len(log)
    <3>1. i = Len(log) + 1
      BY <2>2, <1>3, <1>12
    <3>2. n + 1 \in 1..Len(raw') /\ log'[i].whole = raw'[n + 1].whole
      BY <3>1, <1>4, <1>12
    <3>3. QED BY <3>2
  <2>3. QED BY <2>1, <2>2
<1>14. ASSUME NEW type, Count(raw, type) = Count(log, type)
       PROVE  Count(raw', type) = Count(log', type)
  BY <1>3, <1>4, <1>14, CountGrows
<1>15. Count(raw', "tasks") = Count(log', "tasks") /\ Count(raw', "custom") = Count(log', "custom")
  BY <1>14 DEF Compared
<1>16. MergedTells(MergedRows(ChunkList(raw')), log', Len(raw'))
  BY <1>3, <1>8, <1>11, <1>12
<1>17. QED BY <1>13, <1>15, <1>16 DEF Compared

LEMMA IgnoredCompares ==
    ASSUME Inv, MessageInv, Compared, NEW k, ~Supported(k), raw' = Append(raw, k), UNCHANGED log
    PROVE  Compared'
<1>1. PICK n \in Nat : n = Len(raw)
  BY RawIsList
<1>2. IsList(raw) /\ IsList(log)
  BY RawIsList
<1>3. PICK d : d = OrchestratorChunk(k, n + 1)
  OBVIOUS
<1>4. d.type = k.type /\ k.type \notin {"tasks", "messages", "custom"}
  BY <1>3 DEF OrchestratorChunk, Supported
<1>5. PICK rows : rows = MergedRows(ChunkList(raw))
  OBVIOUS
<1>6. MergedRows(ChunkList(raw')) = rows
  <2>1. PICK l : l = ChunkList(raw)
    OBVIOUS
  <2>2. IsList(l) /\ ChunkList(raw') = Append(l, d)
    BY <1>1, <1>2, <1>3, <2>1, ChunkListGrows
  <2>3. MergedRows(ChunkList(raw')) = MergeChunk(rows, d)
    BY <2>1, <2>2, <1>5, MergedGrows
  <2>4. QED BY <2>3, <1>4 DEF MergeChunk
<1>7. MergedTells(rows, log, n + 1)
  BY <1>1, <1>2, <1>4, <1>5, OtherChunkTells DEF Compared
<1>8. Len(raw') = n + 1 /\ \A i \in 1..n : raw'[i] = raw[i]
  BY <1>1, <1>2, ListWithMore
<1>9. ASSUME NEW i \in 1..Len(log') PROVE \E m \in 1..Len(raw') : log'[i].whole = raw'[m].whole
  <2>1. PICK m \in 1..n : log[i].whole = raw[m].whole
    BY <1>1, <1>9 DEF Compared
  <2>2. m \in 1..Len(raw') /\ log'[i].whole = raw'[m].whole
    BY <2>1, <1>8
  <2>3. QED BY <2>2
<1>10. Count(raw', "tasks") = Count(log', "tasks") /\ Count(raw', "custom") = Count(log', "custom")
  <2>1. \A type \in {"tasks", "custom"} : Count(raw', type) = Count(raw, type)
    BY <1>2, <1>4, CountGrows
  <2>2. QED BY <2>1 DEF Compared
<1>11. QED BY <1>6, <1>7, <1>8, <1>9, <1>10 DEF Compared

-----------------------------------------------------------------------------
(* Messages without an id, of which accumulator and orchestrator think up   *)
(* different ones.                                                          *)

\* The id that was thought up for a message tells its role.
RolesTold ==
    /\ \A x \in Context : merging.active[x] # None => merging.active[x][2] = x[2]
    /\ \A i \in 1..Len(merging.pending) :
          merging.pending[i].id \in SyntheticIds => merging.pending[i].id[2] = merging.pending[i].role

HasNameless(p, ns, role) == \E i \in 1..Len(p) : p[i].ns = ns /\ p[i].role = role /\ p[i].id \in SyntheticIds

\* While no message comes whole, none is refused.
NamelessKept ==
    (\A n \in 1..Len(log) : ~log[n].whole) =>
        \A n \in 1..Len(log) : log[n].type = "messages" /\ log[n].id = None =>
            HasNameless(merging.pending, log[n].ns, log[n].role)

LEMMA SyntheticRole ==
    ASSUME Merging, RolesTold, NEW c, c.ns \in Namespace, c.role \in Role, c.id = None
    PROVE  SyntheticId(c) \in SyntheticIds /\ SyntheticId(c)[2] = c.role
<1>1. PICK x : x = <<c.ns, c.role>>
  OBVIOUS
<1>2. x \in Context /\ x[2] = c.role
  BY <1>1 DEF Context
<1>3. SyntheticId(c) \in SyntheticIds
  BY IdsKeptApart
<1>4. CASE merging.active[x] # None
  <2>1. SyntheticId(c) = merging.active[x]
    BY <1>1, <1>4 DEF SyntheticId
  <2>2. QED BY <2>1, <1>2, <1>3, <1>4 DEF RolesTold
<1>5. CASE merging.active[x] = None
  <2>1. SyntheticId(c) = <<"synthetic", c.role, merging.count[x] + 1>>
    BY <1>1, <1>5 DEF SyntheticId
  <2>2. QED BY <2>1, <1>3
<1>6. QED BY <1>4, <1>5

\* Entries keep what they are.
Kept(p, q) ==
    /\ Len(p) \in Nat /\ Len(q) \in Nat /\ Len(p) <= Len(q)
    /\ \A i \in 1..Len(p) : q[i].ns = p[i].ns /\ q[i].role = p[i].role /\ q[i].id = p[i].id

LEMMA AccumulateKeeps ==
    ASSUME Inv, MessageInv, RolesTold, NEW k, Buffers(k), NEW c, c = Resolved(Normalized(k)),
           c.type = "messages", Accumulate(c)
    PROVE  /\ RolesTold'
           /\ Kept(merging.pending, merging'.pending)
           /\ c.id = None => HasNameless(merging'.pending, c.ns, c.role)
<1>1. /\ c.ns \in Namespace /\ c.role \in Role /\ c.id \notin SyntheticIds
  BY ResolvedMessage
<1>2. Merging
  BY DEF MessageInv
<1>3. /\ \E e : Accumulates(c, e)
      /\ merging'.active = [merging.active EXCEPT ![<<c.ns, c.role>>] = NextActive(c)]
  BY <1>2, AccumulateFacts
<1>4. PICK e : Accumulates(c, e)
  BY <1>3
<1>5. PICK p, q : p = merging.pending /\ q = merging'.pending
  OBVIOUS
<1>6. c.id = None => SyntheticId(c) \in SyntheticIds /\ SyntheticId(c)[2] = c.role
  BY <1>1, <1>2, SyntheticRole
<1>7. c.id # None => SyntheticId(c) = c.id
  BY DEF SyntheticId
<1>8. e.ns = c.ns /\ e.id = SyntheticId(c)
  BY <1>4 DEF Accumulates, TakesIn
<1>9. \A i \in 1..Len(p) : p[i].id \in SyntheticIds => p[i].id[2] = p[i].role
  BY <1>5 DEF RolesTold
<1>10. EntriesOf(log, p) /\ IsList(log) /\ log' = Append(log, c)
  BY <1>2, <1>5 DEF Merging, Inv, Buffered, Buffers
\* The entry of the chunk, and the others
<1>11. /\ Kept(p, q)
       /\ \E i \in 1..Len(q) : q[i] = e
       /\ \A i \in 1..Len(q) : q[i] = e \/ (i \in 1..Len(p) /\ q[i] = p[i])
       /\ c.id = None => e.role = c.role
  <2>1. CASE Opens(log', p, q, e)
    <3>1. /\ Len(q) = Len(p) + 1 /\ Len(p) \in Nat
          /\ \A j \in 1..Len(p) : q[j] = p[j]
          /\ q[Len(q)] = e
      BY <1>10, <2>1, OpeningKeepsEntries
    <3>2. Len(q) \in 1..Len(q)
      BY <3>1
    <3>3. \A i \in 1..Len(q) : i = Len(q) \/ i \in 1..Len(p)
      BY <3>1
    <3>4. e.role = c.role
      <4>1. log'[Len(log')] = c
        BY <1>10, ListWithMore
      <4>2. QED BY <4>1, <2>1 DEF Opens, Opened
    <3>5. QED BY <3>1, <3>2, <3>3, <3>4 DEF Kept
  <2>2. CASE \E i : Extends(log', p, q, e, i)
    <3> PICK i : Extends(log', p, q, e, i)
      BY <2>2
    <3>1. /\ Len(q) = Len(p) /\ Len(p) \in Nat
          /\ \A j \in 1..Len(p) : q[j] = IF j = i THEN e ELSE p[j]
      BY <1>10, ExtendingKeepsEntries
    <3>2. /\ i \in 1..Len(p)
          /\ e.ns = p[i].ns /\ e.id = p[i].id /\ e.role = p[i].role
      BY DEF Extends
    <3>3. c.id = None => e.role = c.role
      BY <1>6, <1>8, <1>9, <3>2
    <3>4. QED BY <3>1, <3>2, <3>3 DEF Kept
  <2>3. QED BY <1>4, <1>5, <2>1, <2>2 DEF Accumulates
<1>12. c.id = None => HasNameless(q, c.ns, c.role)
  BY <1>6, <1>8, <1>11 DEF HasNameless
<1>13. \A i \in 1..Len(q) : q[i].id \in SyntheticIds => q[i].id[2] = q[i].role
  <2>1. e.id \in SyntheticIds => e.id[2] = e.role
    BY <1>1, <1>6, <1>7, <1>8, <1>11
  <2>2. QED BY <2>1, <1>9, <1>11
<1>14. \A x \in Context : merging'.active[x] # None => merging'.active[x][2] = x[2]
  <2> SUFFICES ASSUME NEW x \in Context, merging'.active[x] # None PROVE merging'.active[x][2] = x[2]
    OBVIOUS
  <2>1. merging.active[x] # None => merging.active[x][2] = x[2]
    BY DEF RolesTold
  <2>2. CASE x = <<c.ns, c.role>>
    <3>1. merging'.active[x] = NextActive(c)
      BY <1>2, <1>3, <2>2 DEF Merging
    <3>2. CASE c.id # None
      BY <2>1, <2>2, <3>1, <3>2 DEF NextActive
    <3>3. CASE c.id = None /\ IsStreamClosed(c)
      BY <3>1, <3>3 DEF NextActive
    <3>4. CASE c.id = None /\ ~IsStreamClosed(c)
      <4>1. merging'.active[x] = SyntheticId(c)
        BY <3>1, <3>4 DEF NextActive
      <4>2. x[2] = c.role
        BY <2>2
      <4>3. QED BY <4>1, <4>2, <1>6, <3>4
    <3>5. QED BY <3>2, <3>3, <3>4
  <2>3. CASE x # <<c.ns, c.role>>
    <3>1. merging'.active[x] = merging.active[x]
      BY <1>2, <1>3, <2>3 DEF Merging
    <3>2. QED BY <2>1, <3>1
  <2>4. QED BY <2>2, <2>3
<1>15. RolesTold'
  BY <1>5, <1>13, <1>14 DEF RolesTold
<1>16. QED BY <1>5, <1>11, <1>12, <1>15

\* Without messages that come whole, every chunk can be merged.
LEMMA PiecesAreMergeable ==
    ASSUME Merging, NEW c, ~c.whole, \A n \in 1..Len(log) : ~log[n].whole
    PROVE  Mergeable(c)
<1>1. \/ Entry(c) = 0
      \/ Entry(c) \in 1..Len(merging.pending)
  BY EntryFacts
<1>2. \A i \in 1..Len(merging.pending) : ~merging.pending[i].whole
  BY DEF Merging, EntriesOf, Opened
<1>3. QED BY <1>1, <1>2 DEF Mergeable

LEMMA BufferKeepsRoles ==
    ASSUME Inv, MessageInv, RolesTold, NamelessKept, NEW k, NEW ok, Buffer(k, ok)
    PROVE  RolesTold' /\ NamelessKept'
<1>1. PICK c : c = Resolved(Normalized(k))
  OBVIOUS
<1>2. Buffers(k)
  BY DEF Buffer, Buffers
<1>3. IsList(log) /\ log' = Append(log, c)
  BY <1>1, <1>2 DEF Buffers, Inv, Buffered
<1>4. /\ Len(log) \in Nat /\ Len(log') = Len(log) + 1 /\ log'[Len(log) + 1] = c
      /\ \A n \in 1..Len(log) : log'[n] = log[n]
  BY <1>3, ListFacts, ListWithMore
<1>5. ok <=> (c.type # "messages" \/ Mergeable(c))
  BY <1>1 DEF Buffer
<1>6. PICK p, q : p = merging.pending /\ q = merging'.pending
  OBVIOUS
<1>7. /\ RolesTold'
      /\ Kept(p, q)
      /\ c.type = "messages" /\ c.id = None /\ Mergeable(c) => HasNameless(q, c.ns, c.role)
  <2>1. CASE c.type = "messages" /\ ok
    <3>1. Accumulate(c)
      BY <1>1, <2>1 DEF Buffer
    <3>2. QED BY <1>1, <1>2, <1>6, <2>1, <3>1, AccumulateKeeps
  <2>2. CASE ~ (c.type = "messages" /\ ok)
    <3>1. UNCHANGED merging
      BY <1>1, <2>2 DEF Buffer
    <3>2. RolesTold'
      BY <3>1 DEF RolesTold
    <3>3. Len(p) \in Nat
      BY <1>6, ListFacts DEF MessageInv, Merging, EntriesOf
    <3>4. Kept(p, q)
      BY <3>1, <3>3, <1>6 DEF Kept
    <3>5. QED BY <3>2, <3>4, <1>5, <2>2
  <2>3. QED BY <2>1, <2>2
<1>8. \A ns, role : HasNameless(p, ns, role) => HasNameless(q, ns, role)
  <2> SUFFICES ASSUME NEW ns, NEW role, HasNameless(p, ns, role) PROVE HasNameless(q, ns, role)
    OBVIOUS
  <2>1. PICK i \in 1..Len(p) : p[i].ns = ns /\ p[i].role = role /\ p[i].id \in SyntheticIds
    BY DEF HasNameless
  <2>2. i \in 1..Len(q) /\ q[i].ns = ns /\ q[i].role = role /\ q[i].id \in SyntheticIds
    BY <2>1, <1>7 DEF Kept
  <2>3. QED BY <2>2 DEF HasNameless
<1>9. NamelessKept'
  <2> SUFFICES ASSUME \A n \in 1..Len(log') : ~log'[n].whole,
                      NEW n \in 1..Len(log'), log'[n].type = "messages", log'[n].id = None
               PROVE  HasNameless(q, log'[n].ns, log'[n].role)
    BY <1>6 DEF NamelessKept
  <2>1. \A m \in 1..Len(log) : ~log[m].whole
    BY <1>4
  <2>2. CASE n \in 1..Len(log)
    <3>1. HasNameless(p, log[n].ns, log[n].role)
      BY <2>1, <2>2, <1>4, <1>6 DEF NamelessKept
    <3>2. QED BY <3>1, <2>2, <1>4, <1>8
  <2>3. CASE n \notin 1..Len(log)
    <3>1. n = Len(log) + 1
      BY <2>3, <1>4
    <3>2. log'[n] = c /\ ~c.whole
      BY <3>1, <1>4
    <3>3. Mergeable(c)
      BY <2>1, <3>2, PiecesAreMergeable DEF MessageInv
    <3>4. QED BY <3>2, <3>3, <1>7
  <2>4. QED BY <2>2, <2>3
<1>10. QED BY <1>7, <1>9

ComparedInv == Compared /\ RolesTold /\ NamelessKept

LEMMA InitCompared == Init => ComparedInv
<1> SUFFICES ASSUME Init PROVE ComparedInv
  OBVIOUS
<1>1. raw = <<>> /\ log = <<>> /\ merging.pending = <<>> /\ merging.active = [x \in Context |-> None]
  BY DEF Init
<1>2. \A s : s = <<>> => Len(s) = 0 /\ DOMAIN s = 1..0
  OBVIOUS
<1>3. Len(log) = 0 /\ Len(raw) = 0 /\ DOMAIN raw = 1..0 /\ Len(merging.pending) = 0
  BY <1>1, <1>2
<1>4. DOMAIN ChunkList(raw) = 1..0
  BY <1>3 DEF ChunkList
<1>5. PICK rows : rows = MergedRows(ChunkList(raw))
  OBVIOUS
<1>6. rows = <<>>
  BY <1>4, <1>5, MergedNone
<1>7. DOMAIN rows = {}
  BY <1>2, <1>6
<1>8. \A ns, id : Numbers(log, ns, id) = {}
  BY <1>3 DEF Numbers
<1>9. MergedTells(rows, log, Len(raw))
  BY <1>7, <1>8 DEF MergedTells, NamedTold, OrderTold, RowsKnown
<1>10. Count(raw, "tasks") = Count(log, "tasks") /\ Count(raw, "custom") = Count(log, "custom")
  BY <1>1 DEF Count, TypedAt
<1>11. Compared
  BY <1>3, <1>5, <1>9, <1>10 DEF Compared
<1>12. RolesTold /\ NamelessKept
  BY <1>1, <1>3 DEF RolesTold, NamelessKept
<1>13. QED BY <1>11, <1>12 DEF ComparedInv

LEMMA BufferKeepsCompared ==
    ASSUME Inv, MessageInv, ComparedInv, NEW k, NEW ok, Buffer(k, ok)
    PROVE  ComparedInv'
<1>1. Buffers(k)
  BY DEF Buffer, Buffers
<1>2. Compared'
  BY <1>1, BufferCompares DEF ComparedInv
<1>3. RolesTold' /\ NamelessKept'
  BY BufferKeepsRoles DEF ComparedInv
<1>4. QED BY <1>2, <1>3 DEF ComparedInv

LEMMA ComparedRests ==
    ASSUME ComparedInv, UNCHANGED <<raw, log, merging>>
    PROVE  ComparedInv'
<1>1. RolesTold' /\ NamelessKept'
  BY DEF ComparedInv, RolesTold, NamelessKept
<1>2. MergedRows(ChunkList(raw'))  = MergedRows(ChunkList(raw))
  OBVIOUS
<1>3. Compared'
  BY <1>2 DEF ComparedInv, Compared
<1>4. QED BY <1>1, <1>3 DEF ComparedInv

LEMMA NextCompared ==
    ASSUME Inv, MessageInv, ComparedInv, [Next]_vars
    PROVE  ComparedInv'
<1>1. ASSUME NEW k \in agent.kinds, Chunk(k) PROVE ComparedInv'
  BY <1>1, BufferKeepsCompared DEF Chunk
<1>2. ASSUME NEW k \in agent.kinds, ChunkUnmergeable(k) PROVE ComparedInv'
  BY <1>2, BufferKeepsCompared DEF ChunkUnmergeable
<1>3. ASSUME NEW k \in agent.kinds, ChunkIgnored(k) PROVE ComparedInv'
  <2>1. ~Supported(k) /\ raw' = Append(raw, k) /\ UNCHANGED <<log, merging>>
    BY <1>3 DEF ChunkIgnored
  <2>2. Compared'
    BY <2>1, IgnoredCompares DEF ComparedInv
  <2>3. RolesTold' /\ NamelessKept'
    BY <2>1 DEF ComparedInv, RolesTold, NamelessKept
  <2>4. QED BY <2>2, <2>3 DEF ComparedInv
<1>4. ASSUME NEW k \in agent.kinds, NEW ending \in Ended, ChunkRefused(k, ending) PROVE ComparedInv'
  BY <1>4, BufferKeepsCompared DEF ChunkRefused
<1>5. ASSUME NEW ending \in Ended, Ends(ending) PROVE ComparedInv'
  BY <1>5, ComparedRests DEF Ends
<1>6. CASE Transfer
  BY <1>6, ComparedRests DEF Transfer
<1>7. ASSUME NEW via \in {"redis", "postgres"}, Connect(via) PROVE ComparedInv'
  <2>1. UNCHANGED executor
    BY <1>7 DEF Connect, Send
  <2>2. QED BY <2>1, ComparedRests DEF executor
<1>8. CASE DeliverChunk
  <2>1. UNCHANGED executor
    BY <1>8 DEF DeliverChunk, Send
  <2>2. QED BY <2>1, ComparedRests DEF executor
<1>9. CASE DeliverEnd
  <2>1. UNCHANGED executor
    BY <1>9 DEF DeliverEnd, Send
  <2>2. QED BY <2>1, ComparedRests DEF executor
<1>10. CASE UNCHANGED vars
  BY <1>10, ComparedRests DEF vars
<1>11. QED BY <1>1, <1>2, <1>3, <1>4, <1>5, <1>6, <1>7, <1>8, <1>9, <1>10 DEF Next

\* One more message: whose row it goes to, and the role there.
RowGrows(rows, m, next) ==
    /\ DOMAIN next = DOMAIN rows \cup {KeyOf(m)}
    /\ \A x \in DOMAIN rows : next[x].role = rows[x].role
    /\ KeyOf(m) \notin DOMAIN rows => next[KeyOf(m)].role = m.role

LEMMA UpsertGrows ==
    ASSUME NEW rows, NEW m
    PROVE  RowGrows(rows, m, UpsertMessage(rows, m))
<1>1. PICK key, next : key = KeyOf(m) /\ next = UpsertMessage(rows, m)
  OBVIOUS
<1>2. PICK row : /\ next = Put(rows, key, row)
                 /\ row.role = IF key \in DOMAIN rows THEN rows[key].role ELSE m.role
  <2>1. CASE key \notin DOMAIN rows
    <3>1. PICK row : row = [role |-> m.role, task |-> m.task, content |-> m.content,
                            first |-> m.first, last |-> m.last]
      OBVIOUS
    <3>2. next = Put(rows, key, row)
      BY <1>1, <2>1, <3>1 DEF UpsertMessage, KeyOf
    <3>3. row.role = m.role
      BY <3>1
    <3>4. QED BY <2>1, <3>2, <3>3
  <2>2. CASE key \in DOMAIN rows
    <3>1. PICK old : old = rows[key]
      OBVIOUS
    <3>2. PICK row : row = [role    |-> old.role,
                            task    |-> IF m.task = None THEN old.task ELSE m.task,
                            content |-> IF m.last >= old.last THEN m.content ELSE old.content,
                            first   |-> Min({old.first, m.first}),
                            last    |-> Max({old.last, m.last})]
      OBVIOUS
    <3>3. next = Put(rows, key, row)
      BY <1>1, <2>2, <3>1, <3>2 DEF UpsertMessage, KeyOf
    <3>4. row.role = old.role
      BY <3>2
    <3>5. QED BY <2>2, <3>1, <3>3, <3>4
  <2>3. QED BY <2>1, <2>2
<1>3. /\ DOMAIN next = DOMAIN rows \cup {key}
      /\ \A x \in DOMAIN rows : x # key => next[x] = rows[x]
      /\ next[key] = row
  BY <1>2 DEF Put
<1>4. QED BY <1>1, <1>2, <1>3 DEF RowGrows

\* Every message has a row, and every row the role of one of its messages.
RolesOf(rows, l, k) ==
    /\ \A x \in DOMAIN rows : \E m \in 1..k : KeyOf(l[m]) = x /\ rows[x].role = l[m].role
    /\ \A m \in 1..k : KeyOf(l[m]) \in DOMAIN rows

LEMMA RolesOfRows ==
    ASSUME NEW l, NEW n \in Nat, DOMAIN l = 1..n, NEW rows, rows = FoldLeft(UpsertMessage, <<>>, l)
    PROVE  RolesOf(rows, l, n)
<1>1. PICK r : Chain(MessageRule, <<>>, l, n, r) /\ FoldLeft(UpsertMessage, <<>>, l) = r[n]
  BY MessageFold
<1>2. /\ r[0] = <<>>
      /\ \A k \in 1..n : r[k] = UpsertMessage(r[k - 1], l[k])
      /\ rows = r[n]
  BY <1>1 DEF Chain, Apply, MessageRule
<1> DEFINE Bad == {k \in 0..n : ~RolesOf(r[k], l, k)}
<1>3. RolesOf(r[0], l, 0)
  <2>1. DOMAIN r[0] = {}
    BY <1>2
  <2>2. QED BY <2>1 DEF RolesOf
<1>4. Bad = {}
  <2>1. SUFFICES ASSUME Bad # {} PROVE FALSE
    OBVIOUS
  <2>2. PICK k \in Bad : \A j \in Bad : k <= j
    <3>1. Bad \in SUBSET Nat
      OBVIOUS
    <3>2. QED BY <2>1, <3>1, LeastNumber
  <2>3. k \in 1..n /\ k - 1 \in 0..n /\ k - 1 \notin Bad
    BY <2>2, <1>3
  <2>4. RolesOf(r[k - 1], l, k - 1)
    BY <2>3
  <2>5. PICK old, next : old = r[k - 1] /\ next = r[k]
    OBVIOUS
  <2>6. RowGrows(old, l[k], next)
    BY <1>2, <2>3, <2>5, UpsertGrows
  <2>7. ASSUME NEW x \in DOMAIN next
        PROVE  \E m \in 1..k : KeyOf(l[m]) = x /\ next[x].role = l[m].role
    <3>1. CASE x \in DOMAIN old
      <4>1. PICK m \in 1..(k - 1) : KeyOf(l[m]) = x /\ old[x].role = l[m].role
        BY <2>4, <2>5, <3>1 DEF RolesOf
      <4>2. m \in 1..k /\ next[x].role = l[m].role
        BY <4>1, <3>1, <2>3, <2>6 DEF RowGrows
      <4>3. QED BY <4>1, <4>2
    <3>2. CASE x \notin DOMAIN old
      <4>1. x = KeyOf(l[k]) /\ next[x].role = l[k].role
        BY <3>2, <2>6, <2>7 DEF RowGrows
      <4>2. k \in 1..k
        BY <2>3
      <4>3. QED BY <4>1, <4>2
    <3>3. QED BY <3>1, <3>2
  <2>8. ASSUME NEW m \in 1..k PROVE KeyOf(l[m]) \in DOMAIN next
    <3>1. CASE m = k
      BY <3>1, <2>6 DEF RowGrows
    <3>2. CASE m # k
      <4>1. m \in 1..(k - 1)
        BY <3>2, <2>3
      <4>2. KeyOf(l[m]) \in DOMAIN old
        BY <4>1, <2>4, <2>5 DEF RolesOf
      <4>3. QED BY <4>2, <2>6 DEF RowGrows
    <3>3. QED BY <3>1, <3>2
  <2>9. RolesOf(r[k], l, k)
    BY <2>5, <2>7, <2>8 DEF RolesOf
  <2>10. QED BY <2>2, <2>9
<1>5. RolesOf(r[n], l, n)
  BY <1>4
<1>6. QED BY <1>2, <1>5

\* The row that an entry goes to; with an id that was thought up it has its role.
LEMMA EntryHasRow ==
    ASSUME MessageInv, RolesTold, NEW i \in 1..Len(merging.pending),
           NEW rows, rows = FoldLeft(UpsertMessage, <<>>, MessageList)
    PROVE  LET e == merging.pending[i]
           IN  /\ KeyOf(e) \in DOMAIN rows
               /\ e.id \in SyntheticIds => rows[KeyOf(e)].role = e.role
<1>1. PICK l, p : l = MessageList /\ p = merging.pending
  OBVIOUS
<1>2. /\ Len(streamed) \in Nat /\ Len(p) \in Nat
      /\ Len(l) = Len(streamed) + Len(p)
      /\ DOMAIN l = 1..Len(l)
      /\ \A m \in 1..Len(streamed) : l[m] = streamed[m]
      /\ \A j \in 1..Len(p) : l[Len(streamed) + j] = p[j]
  BY <1>1, ListOfMessages
<1>3. RolesOf(rows, l, Len(l))
  BY <1>1, <1>2, RolesOfRows
<1>4. PICK e : e = p[i]
  OBVIOUS
<1>5. KeyOf(e) \in DOMAIN rows
  <2>1. PICK m : m = Len(streamed) + i
    OBVIOUS
  <2>2. m \in 1..Len(l) /\ l[m] = e
    BY <2>1, <1>1, <1>2, <1>4
  <2>3. QED BY <2>2, <1>3 DEF RolesOf
<1>6. ASSUME e.id \in SyntheticIds PROVE rows[KeyOf(e)].role = e.role
  <2>1. PICK m \in 1..Len(l) : KeyOf(l[m]) = KeyOf(e) /\ rows[KeyOf(e)].role = l[m].role
    BY <1>3, <1>5 DEF RolesOf
  <2>2. l[m].id = e.id
    BY <2>1 DEF KeyOf
  <2>3. \E j \in 1..Len(p) : p[j].id = l[m].id /\ p[j].role = l[m].role
    <3>1. CASE m \in 1..Len(streamed)
      <4>1. l[m] \in Range(streamed)
        <5>1. Range(streamed) = {streamed[j] : j \in 1..Len(streamed)}
          BY ListFacts DEF MessageInv, Merging, StreamedFrom
        <5>2. QED BY <5>1, <3>1, <1>2
      <4>2. PICK j \in 1..Len(p) : Was(p[j], l[m])
        BY <4>1, <1>1 DEF MessageInv, Merging, StreamedFrom
      <4>3. QED BY <4>2 DEF Was
    <3>2. CASE m \notin 1..Len(streamed)
      <4>1. PICK j : j = m - Len(streamed)
        OBVIOUS
      <4>2. j \in 1..Len(p) /\ m = Len(streamed) + j
        BY <4>1, <3>2, <1>2
      <4>3. QED BY <4>2, <1>2
    <3>3. QED BY <3>1, <3>2
  <2>4. PICK j \in 1..Len(p) : p[j].id = l[m].id /\ p[j].role = l[m].role
    BY <2>3
  <2>5. p[j].id[2] = p[j].role /\ p[i].id[2] = p[i].role
    BY <1>1, <1>4, <1>6, <2>2, <2>4 DEF RolesTold
  <2>6. QED BY <2>1, <2>2, <2>4, <2>5, <1>4
<1>7. QED BY <1>1, <1>4, <1>5, <1>6

-----------------------------------------------------------------------------
(* Both have stored the same.                                               *)

\* What both have of a message with an id, and the entry that it was.
Agrees(ns, id, i, merged, rows) ==
    LET e == merging.pending[i]
        x == <<ns, id>>
    IN  /\ Sole(merging.pending, i) /\ e.ns = ns /\ e.id = id
        /\ x \in DOMAIN rows /\ x \in DOMAIN merged
        /\ rows[x].content = e.content /\ rows[x].role = e.role
        /\ merged[x].content = e.content /\ merged[x].role = CommonRole(e.role)
        /\ \E n \in 1..Len(log) : log[n].role = e.role
        /\ e.first = Min(Numbers(log, ns, id)) /\ Numbers(log, ns, id) # {}

InPieces == \A n \in 1..Len(log) : ~log[n].whole

SameRoles == \A n \in 1..Len(log) : CommonRole(log[n].role) = log[n].role

LEMMA NamedAgree ==
    ASSUME Inv, MessageInv, ComparedInv, Ordinary, InPieces,
           NEW ns \in Namespace, NEW id, Named(id), Numbers(log, ns, id) # {},
           NEW merged, merged = MergedRows(ChunkList(raw)),
           NEW rows, rows = FoldLeft(UpsertMessage, <<>>, MessageList)
    PROVE  \E i \in 1..Len(merging.pending) : Agrees(ns, id, i, merged, rows)
<1>1. PICK S : S = Numbers(log, ns, id)
  OBVIOUS
<1>2. DOMAIN log = 1..Len(log) /\ Range(log) = {log[i] : i \in 1..Len(log)} /\ Len(log) \in Nat
  BY ListFacts DEF Inv, Buffered
<1>3. S \in SUBSET (1..Len(log)) /\ S # {} /\ \A n \in S : log[n].id = id
  BY <1>1 DEF Numbers
<1>4. Uniform(log, S)
  <2>1. ChunksOf(ns, id) = S
    BY <1>1, <1>2 DEF ChunksOf, Numbers
  <2>2. id \in {c.id : c \in Range(log)} \ {None}
    BY <1>2, <1>3 DEF Named
  <2>3. Plain(S)
    BY <2>1, <2>2 DEF Ordinary
  <2>4. QED BY <2>3 DEF Plain, Uniform
<1>5. PICK i \in 1..Len(merging.pending) :
          LET e == merging.pending[i]
          IN  Sole(merging.pending, i) /\ Holds(log, ns, id, e) /\ RowIs(rows, <<ns, id>>, e)
  BY <1>1, <1>3, <1>4, PlainMessageIsStored DEF Named
<1>6. PICK e : e = merging.pending[i]
  OBVIOUS
<1>7. Sole(merging.pending, i) /\ Holds(log, ns, id, e) /\ RowIs(rows, <<ns, id>>, e)
  BY <1>5, <1>6
<1>8. Min(S) \in S
  <2>1. S \in SUBSET Nat
    BY <1>2, <1>3
  <2>2. QED BY <2>1, <1>3, MinIsLeast
<1>9. e.ns = ns /\ e.id = id /\ e.first = Min(S) /\ e.content = Texts(log, ns, id)
  BY <1>1, <1>3, <1>7, <1>8 DEF Holds, InPieces
<1>10. log[Min(S)].role = e.role
  BY <1>6, <1>9 DEF MessageInv, Merging, EntriesOf, Opened
<1>11. /\ <<ns, id>> \in DOMAIN merged
       /\ merged[<<ns, id>>].role = CommonRole(log[Min(S)].role)
       /\ merged[<<ns, id>>].content = Texts(log, ns, id)
  BY <1>1, <1>3 DEF ComparedInv, Compared, MergedTells, NamedTold
<1>12. Agrees(ns, id, i, merged, rows)
  <2>1. Min(S) \in 1..Len(log)
    BY <1>3, <1>8
  <2>2. QED BY <2>1, <1>1, <1>3, <1>6, <1>7, <1>9, <1>10, <1>11 DEF Agrees, RowIs
<1>13. QED BY <1>12

\* The rows that the orchestrator keeps
KeepsText(merged, kept) ==
    /\ \A x : x \in DOMAIN kept <=> x \in DOMAIN merged /\ merged[x].content # <<>>
    /\ \A x \in DOMAIN kept : kept[x] = merged[x]

LEMMA KeptRows ==
    ASSUME NEW merged, merged = MergedRows(ChunkList(raw)), NEW kept, kept = OrchestratorRows
    PROVE  KeepsText(merged, kept)
<1>1. merged = FoldLeft(MergeChunk, <<>>, OrchestratorChunks)
  <2>1. OrchestratorChunks = ChunkList(raw)
    BY DEF OrchestratorChunks, ChunkList
  <2>2. QED BY <2>1 DEF MergedRows, MergedFrom
<1>2. PICK S : S = {x \in DOMAIN merged : merged[x].content # <<>>}
  OBVIOUS
<1>3. kept = Restrict(merged, S)
  BY <1>1, <1>2 DEF OrchestratorRows
<1>4. kept = [x \in S |-> merged[x]]
  BY <1>3 DEF Restrict
<1>5. QED BY <1>2, <1>4 DEF KeepsText

\* Every row is of an entry.
LEMMA RowHasEntry ==
    ASSUME MessageInv, NEW rows, rows = FoldLeft(UpsertMessage, <<>>, MessageList), NEW x \in DOMAIN rows
    PROVE  \E j \in 1..Len(merging.pending) : x = KeyOf(merging.pending[j])
<1>1. PICK l, p : l = MessageList /\ p = merging.pending
  OBVIOUS
<1>2. /\ Len(streamed) \in Nat /\ Len(p) \in Nat
      /\ Len(l) = Len(streamed) + Len(p)
      /\ DOMAIN l = 1..Len(l)
      /\ \A m \in 1..Len(streamed) : l[m] = streamed[m]
      /\ \A j \in 1..Len(p) : l[Len(streamed) + j] = p[j]
  BY <1>1, ListOfMessages
<1>3. PICK m \in 1..Len(l) : KeyOf(l[m]) = x
  <2>1. Len(l) \in Nat
    BY <1>2
  <2>2. QED BY <2>1, <1>1, <1>2, RowsAreOfMessages
<1>4. CASE m \in 1..Len(streamed)
  <2>1. l[m] \in Range(streamed)
    <3>1. Range(streamed) = {streamed[j] : j \in 1..Len(streamed)}
      BY ListFacts DEF MessageInv, Merging, StreamedFrom
    <3>2. QED BY <3>1, <1>2, <1>4
  <2>2. PICK j \in 1..Len(p) : Was(p[j], l[m])
    BY <2>1, <1>1 DEF MessageInv, Merging, StreamedFrom
  <2>3. KeyOf(p[j]) = x
    BY <2>2, <1>3 DEF Was, KeyOf
  <2>4. QED BY <2>3, <1>1
<1>5. CASE m \notin 1..Len(streamed)
  <2>1. PICK j : j = m - Len(streamed)
    OBVIOUS
  <2>2. j \in 1..Len(p) /\ m = Len(streamed) + j
    BY <2>1, <1>2, <1>5
  <2>3. KeyOf(p[j]) = x
    BY <2>2, <1>2, <1>3
  <2>4. QED BY <2>2, <2>3, <1>1
<1>6. QED BY <1>4, <1>5

\* An entry with an id that was not thought up is of a message with this id.
LEMMA EntryIsNamed ==
    ASSUME MessageInv, NEW j \in 1..Len(merging.pending), merging.pending[j].id \notin SyntheticIds
    PROVE  /\ Named(merging.pending[j].id)
           /\ Numbers(log, merging.pending[j].ns, merging.pending[j].id) # {}
<1>1. PICK e : e = merging.pending[j]
  OBVIOUS
<1>2. Opened(log, e)
  BY <1>1 DEF MessageInv, Merging, EntriesOf
<1>3. log[e.first].id # None /\ e.id = log[e.first].id
  BY <1>1, <1>2 DEF Opened
<1>4. e.first \in Numbers(log, e.ns, e.id)
  BY <1>2, <1>3 DEF Opened, Numbers
<1>5. Named(e.id)
  BY <1>1, <1>3 DEF Named
<1>6. QED BY <1>1, <1>4, <1>5

\* The answers among some rows
AnswersOf(rows) == {x \in DOMAIN rows : x[1] = Root /\ rows[x].role = "ai"}

AllNamed(rows) == \A x \in AnswersOf(rows) : rows[x].content # <<>> /\ x[2] \in {c.id : c \in Range(log)}

\* Of an answer x: the entry it is
IsAnswerEntry(x, i, merged, rows) ==
    /\ i \in AnswersIn(merging.pending, Len(merging.pending))
    /\ x = KeyOf(merging.pending[i]) /\ x \in AnswersOf(rows)
    /\ Named(x[2]) /\ x = <<Root, x[2]>>
    /\ Agrees(Root, x[2], i, merged, rows)

LEMMA StoredAnswer ==
    ASSUME Inv, MessageInv, ComparedInv, Ordinary, InPieces,
           NEW merged, merged = MergedRows(ChunkList(raw)),
           NEW rows, rows = FoldLeft(UpsertMessage, <<>>, MessageList), AllNamed(rows),
           NEW x \in AnswersOf(rows)
    PROVE  \E i \in 1..Len(merging.pending) : IsAnswerEntry(x, i, merged, rows)
<1>1. PICK p : p = merging.pending
  OBVIOUS
<1>2. PICK j \in 1..Len(p) : x = KeyOf(p[j])
  BY <1>1, RowHasEntry DEF AnswersOf
<1>3. x[1] = p[j].ns /\ x[2] = p[j].id /\ p[j].ns = Root /\ x = <<Root, x[2]>>
  BY <1>2 DEF KeyOf, AnswersOf
<1>4. PICK id : id = x[2]
  OBVIOUS
<1>5. id \notin SyntheticIds
  <2>1. Range(log) = {log[i] : i \in 1..Len(log)}
    BY ListFacts DEF Inv, Buffered
  <2>2. QED BY <2>1, <1>4 DEF AllNamed, MessageInv, MessagesTold
<1>6. Named(id) /\ Numbers(log, Root, id) # {}
  BY <1>1, <1>3, <1>4, <1>5, EntryIsNamed
<1>7. Root \in Namespace
  BY ConstantsAssumption
<1>8. PICK i \in 1..Len(p) : Agrees(Root, id, i, merged, rows)
  BY <1>1, <1>6, <1>7, NamedAgree
<1>9. p[i].ns = Root /\ p[i].id = id /\ rows[<<Root, id>>].role = p[i].role
  BY <1>1, <1>8 DEF Agrees
<1>10. p[i].role = "ai" /\ x = KeyOf(p[i])
  BY <1>3, <1>4, <1>9 DEF AnswersOf, KeyOf
<1>11. i \in AnswersIn(p, Len(p))
  BY <1>9, <1>10 DEF AnswersIn, IsAnswer
<1>12. IsAnswerEntry(x, i, merged, rows)
  BY <1>1, <1>3, <1>4, <1>6, <1>8, <1>10, <1>11 DEF IsAnswerEntry
<1>13. QED BY <1>1, <1>12

\* The answers of the orchestrator are the stored ones.
LEMMA SameAnswers ==
    ASSUME Inv, MessageInv, ComparedInv, Ordinary, InPieces, SameRoles,
           NEW merged, merged = MergedRows(ChunkList(raw)), NEW kept, kept = OrchestratorRows,
           NEW rows, rows = FoldLeft(UpsertMessage, <<>>, MessageList), AllNamed(rows)
    PROVE  AnswersOf(kept) = AnswersOf(rows)
<1>1. KeepsText(merged, kept)
  BY KeptRows
<1>2. ASSUME NEW x \in AnswersOf(rows) PROVE x \in AnswersOf(kept)
  <2>1. PICK i \in 1..Len(merging.pending) : IsAnswerEntry(x, i, merged, rows)
    BY StoredAnswer
  <2>2. /\ x \in DOMAIN merged /\ merged[x].content = rows[x].content /\ merged[x].role = CommonRole(rows[x].role)
    BY <2>1 DEF IsAnswerEntry, Agrees
  <2>3. x \in DOMAIN kept /\ kept[x] = merged[x]
    BY <1>1, <2>2 DEF AllNamed, KeepsText
  <2>4. QED BY <2>2, <2>3, CommonRoles DEF AnswersOf
<1>3. ASSUME NEW x \in AnswersOf(kept) PROVE x \in AnswersOf(rows)
  <2>1. x \in DOMAIN merged /\ x[1] = Root /\ merged[x].role = "ai" /\ merged[x].content # <<>>
    BY <1>1 DEF AnswersOf, KeepsText
  <2>2. RowsKnown(merged, log, Len(raw)) /\ NamedTold(merged, log)
    BY DEF ComparedInv, Compared, MergedTells
  <2>3. PICK ns \in Namespace : \E id :
            /\ x = <<ns, id>> /\ id # None
            /\ id \in SyntheticIds => \E m \in 1..Len(log) : /\ log[m].type = "messages" /\ log[m].id = None
                                                             /\ log[m].ns = ns /\ CommonRole(log[m].role) = merged[x].role
    BY <2>1, <2>2 DEF RowsKnown
  <2>4. PICK id : /\ x = <<ns, id>> /\ id # None
                  /\ id \in SyntheticIds => \E m \in 1..Len(log) : /\ log[m].type = "messages" /\ log[m].id = None
                                                                   /\ log[m].ns = ns /\ CommonRole(log[m].role) = merged[x].role
    BY <2>3
  <2>5. ns = Root
    BY <2>1, <2>4
  <2>6. CASE id \in SyntheticIds
    \* Then the executor has one without an id, too.
    <3>1. PICK m \in 1..Len(log) : /\ log[m].type = "messages" /\ log[m].id = None
                                   /\ log[m].ns = Root /\ log[m].role = "ai"
      BY <2>1, <2>4, <2>5, <2>6 DEF SameRoles
    <3>2. HasNameless(merging.pending, Root, "ai")
      BY <3>1 DEF ComparedInv, NamelessKept, InPieces
    <3>3. PICK i \in 1..Len(merging.pending) :
              /\ merging.pending[i].ns = Root /\ merging.pending[i].role = "ai"
              /\ merging.pending[i].id \in SyntheticIds
      BY <3>2 DEF HasNameless
    <3>4. PICK y : y = KeyOf(merging.pending[i])
      OBVIOUS
    <3>5. y \in DOMAIN rows /\ rows[y].role = "ai"
      BY <3>3, <3>4, EntryHasRow DEF ComparedInv
    <3>6. y[1] = Root /\ y[2] \in SyntheticIds
      BY <3>3, <3>4 DEF KeyOf
    <3>7. y[2] \in {c.id : c \in Range(log)}
      BY <3>5, <3>6 DEF AllNamed, AnswersOf
    <3>8. Range(log) = {log[j] : j \in 1..Len(log)}
      BY ListFacts DEF Inv, Buffered
    <3>9. QED BY <3>6, <3>7, <3>8 DEF MessageInv, MessagesTold
  <2>7. CASE id \notin SyntheticIds
    <3>1. Named(id)
      BY <2>4, <2>7 DEF Named
    <3>2. Numbers(log, ns, id) # {}
      BY <2>1, <2>2, <2>4, <3>1 DEF NamedTold
    <3>3. PICK i \in 1..Len(merging.pending) : Agrees(ns, id, i, merged, rows)
      BY <3>1, <3>2, NamedAgree
    <3>4. x \in DOMAIN rows /\ rows[x].role = merged[x].role
      BY <2>4, <3>3 DEF Agrees, SameRoles
    <3>5. QED BY <2>1, <3>4 DEF AnswersOf
  <2>8. QED BY <2>6, <2>7
<1>4. QED BY <1>2, <1>3

\* The last of them is the one the executor's preview shows.
LEMMA SamePreview ==
    ASSUME Inv, MessageInv, ComparedInv, Ordinary, InPieces, SameRoles,
           NEW rows, rows = FoldLeft(UpsertMessage, <<>>, MessageList), AllNamed(rows)
    PROVE  OrchestratorPreview = IF AnswersOf(rows) = {} THEN {} ELSE {Preview(MessageList)}
<1>1. PICK merged, kept : merged = MergedRows(ChunkList(raw)) /\ kept = OrchestratorRows
  OBVIOUS
<1>2. PICK A : A = AnswersOf(rows)
  OBVIOUS
<1>3. AnswersOf(kept) = A
  BY <1>1, <1>2, SameAnswers
<1>4. PICK shown : shown = {k \in A : \A j \in A : kept[j].first <= kept[k].first}
  OBVIOUS
<1>5. OrchestratorPreview = {kept[k].content : k \in shown}
  <2>1. A = {k \in DOMAIN OrchestratorRows : k[1] = Root /\ OrchestratorRows[k].role = "ai"}
    BY <1>1, <1>3 DEF AnswersOf
  <2>2. QED BY <2>1, <1>1, <1>4 DEF OrchestratorPreview
<1>6. CASE A = {}
  BY <1>2, <1>4, <1>5, <1>6
<1>7. CASE A # {}
  <2>1. PICK p, l : p = merging.pending /\ l = MessageList
    OBVIOUS
  <2>2. ASSUME NEW x \in A
        PROVE  /\ \E i \in 1..Len(p) : IsAnswerEntry(x, i, merged, rows)
               /\ kept[x] = merged[x]
    <3>1. \E i \in 1..Len(p) : IsAnswerEntry(x, i, merged, rows)
      BY <1>1, <1>2, <2>1, <2>2, StoredAnswer
    <3>2. x \in DOMAIN kept
      BY <1>3, <2>2 DEF AnswersOf
    <3>3. QED BY <1>1, <3>1, <3>2, KeptRows DEF KeepsText
  <2>3. PICK B : B = AnswersIn(p, Len(p))
    OBVIOUS
  <2>4. B # {}
    BY <1>7, <2>1, <2>2, <2>3 DEF IsAnswerEntry
  <2>5. PICK z : z = Max(B)
    OBVIOUS
  <2>6. /\ z \in B /\ \A i \in B : i <= z
        /\ LatestAnswer(l, Len(l)) = p[z].content
    BY <2>1, <2>3, <2>4, <2>5, LatestIsLastEntry
  <2>7. z \in 1..Len(p) /\ p[z].ns = Root /\ p[z].role = "ai"
    BY <2>3, <2>6 DEF AnswersIn, IsAnswer
  <2>8. PICK x : x = KeyOf(p[z])
    OBVIOUS
  <2>9. x \in A /\ IsAnswerEntry(x, z, merged, rows)
    <3>1. x \in DOMAIN rows /\ (p[z].id \in SyntheticIds => rows[x].role = "ai")
      BY <2>1, <2>7, <2>8, EntryHasRow DEF ComparedInv
    <3>2. x[1] = Root /\ x[2] = p[z].id /\ x = <<Root, p[z].id>>
      BY <2>7, <2>8 DEF KeyOf
    <3>3. p[z].id \notin SyntheticIds
      <4>1. SUFFICES ASSUME p[z].id \in SyntheticIds PROVE FALSE
        OBVIOUS
      <4>2. x[2] \in {c.id : c \in Range(log)}
        BY <4>1, <3>1, <3>2 DEF AllNamed, AnswersOf
      <4>3. Range(log) = {log[j] : j \in 1..Len(log)}
        BY ListFacts DEF Inv, Buffered
      <4>4. QED BY <4>1, <4>2, <4>3, <3>2 DEF MessageInv, MessagesTold
    <3>4. Named(p[z].id) /\ Numbers(log, Root, p[z].id) # {}
      BY <2>1, <2>7, <3>3, EntryIsNamed
    <3>5. PICK i \in 1..Len(p) : Agrees(Root, p[z].id, i, merged, rows)
      <4>1. Root \in Namespace
        BY ConstantsAssumption
      <4>2. QED BY <4>1, <1>1, <2>1, <3>4, NamedAgree
    <3>6. i = z
      BY <2>1, <2>7, <3>5 DEF Agrees, Sole
    <3>7. x \in AnswersOf(rows)
      BY <2>1, <2>7, <3>1, <3>2, <3>5, <3>6 DEF Agrees, AnswersOf
    <3>8. QED BY <1>2, <2>1, <2>3, <2>6, <2>8, <3>2, <3>4, <3>5, <3>6, <3>7 DEF IsAnswerEntry
  <2>10. OrderTold(merged, log) /\ RowsKnown(merged, log, Len(raw))
    BY <1>1 DEF ComparedInv, Compared, MergedTells
  <2>11. Len(raw) \in Nat
    BY RawIsList
  <2>12. ASSUME NEW y \in A
         PROVE  /\ kept[y].first \in Nat
                /\ kept[y].first <= kept[x].first
                /\ kept[x].first <= kept[y].first => y = x
    <3>1. PICK i \in 1..Len(p) : IsAnswerEntry(y, i, merged, rows)
      BY <2>2, <2>12
    <3>2. i \in B /\ i <= z
      BY <2>1, <2>3, <2>6, <3>1 DEF IsAnswerEntry
    <3>3. PICK id, jd : id = y[2] /\ jd = x[2]
      OBVIOUS
    <3>4. PICK S, T : S = Numbers(log, Root, id) /\ T = Numbers(log, Root, jd)
      OBVIOUS
    <3>5. /\ Named(id) /\ Named(jd) /\ y = <<Root, id>> /\ x = <<Root, jd>>
          /\ y = KeyOf(p[i])
      BY <2>1, <2>9, <3>1, <3>3 DEF IsAnswerEntry
    <3>6. /\ S # {} /\ T # {} /\ p[i].first = Min(S) /\ p[z].first = Min(T)
          /\ y \in DOMAIN merged /\ x \in DOMAIN merged
      BY <2>1, <2>9, <3>1, <3>3, <3>4, <3>5 DEF IsAnswerEntry, Agrees
    <3>7. merged[x].first < merged[y].first <=> p[z].first < p[i].first
      <4>1. merged[<<Root, jd>>].first < merged[<<Root, id>>].first <=> Min(T) < Min(S)
        BY <2>10, <3>4, <3>5, <3>6 DEF OrderTold
      <4>2. QED BY <4>1, <3>5, <3>6
    <3>8. merged[y].first < merged[x].first <=> p[i].first < p[z].first
      <4>1. merged[<<Root, id>>].first < merged[<<Root, jd>>].first <=> Min(S) < Min(T)
        BY <2>10, <3>4, <3>5, <3>6 DEF OrderTold
      <4>2. QED BY <4>1, <3>5, <3>6
    <3>9. merged[x].first \in Nat /\ merged[y].first \in Nat
      <4>1. merged[x].first \in 1..Len(raw) /\ merged[y].first \in 1..Len(raw)
        BY <2>10, <3>6 DEF RowsKnown
      <4>2. QED BY <4>1, <2>11
    <3>10. p[i].first \in Nat /\ p[z].first \in Nat /\ (i < z => p[i].first < p[z].first)
      BY <2>1, <2>7 DEF MessageInv, Merging, EntriesOf, Opened
    <3>11. i = z => y = x
      BY <2>8, <3>5
    <3>12. i < z \/ i = z
      BY <3>2, <2>7
    <3>13. kept[x] = merged[x] /\ kept[y] = merged[y]
      BY <2>2, <2>9, <2>12
    <3>14. CASE i < z
      BY <3>7, <3>8, <3>9, <3>10, <3>13, <3>14
    <3>15. CASE i = z
      BY <3>9, <3>11, <3>13, <3>15
    <3>16. QED BY <3>12, <3>14, <3>15
  <2>13. shown = {x}
    BY <1>4, <2>9, <2>12
  <2>14. kept[x].content = p[z].content
    BY <2>1, <2>2, <2>9 DEF IsAnswerEntry, Agrees
  <2>15. Len(l) \in Nat
    BY <2>1, ListOfMessages
  <2>16. Preview(l) = p[z].content
    BY <2>6, <2>15, PreviewIsLatest
  <2>17. QED BY <1>2, <1>5, <1>7, <2>1, <2>13, <2>14, <2>16
<1>8. QED BY <1>6, <1>7

LEMMA BothFollow == Inv /\ MessageInv /\ ComparedInv => BothStoreTheSame
<1> DEFINE answers == {k \in DOMAIN db.messages : k[1] = Root /\ db.messages[k].role = "ai"}
<1> SUFFICES ASSUME Inv, MessageInv, ComparedInv, db.written, Ordinary, \A k \in Range(raw) : ~k.whole
             PROVE  /\ \A key \in DOMAIN OrchestratorRows :
                          (\E c \in Range(log) : c.id = key[2] /\ c.id # None) =>
                              /\ key \in DOMAIN db.messages
                              /\ db.messages[key].content = OrchestratorRows[key].content
                    /\ Cardinality(OrchestratorEvents.tasks) + Cardinality(OrchestratorEvents.custom)
                          = Cardinality(db.events)
                    /\ /\ \A k \in answers : db.messages[k].content # <<>> /\ k[2] \in {c.id : c \in Range(log)}
                       /\ \A c \in Range(log) : CommonRole(c.role) = c.role
                       => OrchestratorPreview = IF answers = {} THEN {} ELSE {db.preview}
  BY DEF BothStoreTheSame
<1>1. PICK rows, merged, kept : rows = db.messages /\ merged = MergedRows(ChunkList(raw)) /\ kept = OrchestratorRows
  OBVIOUS
<1>2. /\ rows = FoldLeft(UpsertMessage, <<>>, MessageList) /\ db.events = EventRows
      /\ db.preview = Preview(MessageList)
  BY <1>1 DEF MessageInv, Stored
<1>3. Range(raw) = {raw[i] : i \in 1..Len(raw)} /\ Range(log) = {log[i] : i \in 1..Len(log)}
      /\ DOMAIN raw = 1..Len(raw)
  BY RawIsList, ListFacts
<1>4. InPieces
  BY <1>3 DEF ComparedInv, Compared, InPieces
<1>5. answers = AnswersOf(rows)
  BY <1>1 DEF AnswersOf
<1>6. ASSUME NEW key \in DOMAIN kept, NEW c \in Range(log), c.id = key[2], c.id # None
      PROVE  key \in DOMAIN rows /\ rows[key].content = kept[key].content
  <2>1. key \in DOMAIN merged /\ kept[key] = merged[key]
    BY <1>1, <1>6, KeptRows DEF KeepsText
  <2>2. PICK ns \in Namespace : \E id : key = <<ns, id>>
    BY <1>1, <2>1 DEF ComparedInv, Compared, MergedTells, RowsKnown
  <2>3. PICK id : key = <<ns, id>>
    BY <2>2
  <2>4. Named(id)
    BY <1>3, <1>6, <2>3 DEF Named, MessageInv, MessagesTold
  <2>5. Numbers(log, ns, id) # {}
    BY <1>1, <2>1, <2>3, <2>4 DEF ComparedInv, Compared, MergedTells, NamedTold
  <2>6. PICK i \in 1..Len(merging.pending) : Agrees(ns, id, i, merged, rows)
    BY <1>1, <1>2, <1>4, <2>4, <2>5, NamedAgree
  <2>7. QED BY <2>1, <2>3, <2>6 DEF Agrees
<1>7. Cardinality(OrchestratorEvents.tasks) + Cardinality(OrchestratorEvents.custom) = Cardinality(db.events)
  <2>1. Cardinality(EventRows) = Count(log, "tasks") + Count(log, "custom")
    BY RawIsList, TwoTypes DEF EventRows
  <2>2. OrchestratorEvents.tasks = TypedAt(raw, "tasks") /\ OrchestratorEvents.custom = TypedAt(raw, "custom")
    BY <1>3 DEF OrchestratorEvents, TypedAt
  <2>3. QED BY <1>2, <2>1, <2>2 DEF ComparedInv, Compared, Count
<1>8. ASSUME \A k \in answers : db.messages[k].content # <<>> /\ k[2] \in {c.id : c \in Range(log)},
             \A c \in Range(log) : CommonRole(c.role) = c.role
      PROVE  OrchestratorPreview = IF answers = {} THEN {} ELSE {db.preview}
  <2>1. AllNamed(rows)
    BY <1>1, <1>5, <1>8 DEF AllNamed
  <2>2. OrchestratorPreview = IF AnswersOf(rows) = {} THEN {} ELSE {Preview(MessageList)}
    BY <1>2, <1>3, <1>4, <1>8, <2>1, SamePreview DEF SameRoles
  <2>3. QED BY <1>2, <1>5, <2>2
<1>9. QED BY <1>1, <1>6, <1>7, <1>8

\* The orchestrator stores the same texts under the same ids, as many events, and
\* the same preview of the thread as the transfer (chunk_flush_service.py,
\* job_transfer.py), while both merge the same chunks by rules of their own: the
\* one every chunk when it flushes, the other one chunk at a time, by task, and
\* each with other numbers and other ids for what has none.
THEOREM OrchestratorAgrees == Spec => []BothStoreTheSame
<1>1. Init => Inv /\ MessageInv /\ ComparedInv
  BY InitInv, InitMessageInv, InitCompared
<1>2. Inv /\ MessageInv /\ ComparedInv /\ [Next]_vars => (Inv /\ MessageInv /\ ComparedInv)'
  BY NextInv, NextMessageInv, NextCompared
<1>3. Inv /\ MessageInv /\ ComparedInv => BothStoreTheSame
  BY BothFollow
<1>4. QED BY <1>1, <1>2, <1>3, PTL DEF Spec
=============================================================================
