--------------------------- MODULE ChatPageProofs ---------------------------
(***************************************************************************)
(* Proofs about ChatPage: types, and that page and server converge.        *)
(***************************************************************************)
EXTENDS ChatPage, FiniteSetTheorems, FunctionTheorems, SequenceTheorems, WellFoundedInduction,
        TLAPS

-----------------------------------------------------------------------------
(* Sequences of requests, whatever the requests are.                        *)

IsList(s) == s \in Seq(Range(s))

LEMMA ListFacts ==
    ASSUME NEW s, IsList(s)
    PROVE  Len(s) \in Nat /\ DOMAIN s = 1..Len(s)
  BY LenProperties DEF IsList

LEMMA EmptyList == IsList(<<>>) /\ Len(<<>>) = 0
<1>1. <<>> \in Seq({}) /\ Len(<<>>) = 0
  BY EmptySeq
<1>2. QED BY <1>1, SeqOfRange DEF IsList

LEMMA OneList ==
    ASSUME NEW x
    PROVE  IsList(<<x>>) /\ Len(<<x>>) = 1 /\ <<x>>[1] = x
<1>1. <<x>> \in Seq({x})
  OBVIOUS
<1>2. QED BY <1>1, SeqOfRange DEF IsList

\* Where an element of a concatenation comes from.
LEMMA ConcatList ==
    ASSUME NEW s, NEW t, IsList(s), IsList(t)
    PROVE  /\ IsList(s \o t)
           /\ Len(s \o t) = Len(s) + Len(t)
           /\ \A i \in DOMAIN s : i \in DOMAIN (s \o t) /\ (s \o t)[i] = s[i]
           /\ \A j \in DOMAIN t : /\ Len(s) + j \in DOMAIN (s \o t)
                                  /\ (s \o t)[Len(s) + j] = t[j]
           /\ \A i \in DOMAIN (s \o t) :
                 \/ i \in DOMAIN s
                 \/ \E j \in DOMAIN t : i = Len(s) + j
<1> DEFINE S == Range(s) \cup Range(t)
<1>1. s \in Seq(S) /\ t \in Seq(S)
  <2>1. /\ \A i \in 1..Len(s) : s[i] \in S
        /\ \A i \in 1..Len(t) : t[i] \in S
    BY ListFacts DEF Range
  <2>2. s = [i \in 1..Len(s) |-> s[i]] /\ t = [i \in 1..Len(t) |-> t[i]]
    BY ListFacts DEF IsList
  <2>3. QED BY <2>1, <2>2, ListFacts DEF IsList
<1>2. /\ s \o t \in Seq(S)
      /\ Len(s \o t) = Len(s) + Len(t)
      /\ \A i \in 1..Len(s) + Len(t) :
            (s \o t)[i] = IF i <= Len(s) THEN s[i] ELSE t[i - Len(s)]
  BY ONLY <1>1, ConcatProperties, Zenon
<1>3. IsList(s \o t)
  BY <1>2, SeqOfRange DEF IsList
<1>4. DOMAIN (s \o t) = 1..(Len(s) + Len(t))
  BY <1>2, <1>3, ListFacts
<1> HIDE DEF S
<1>5. \A i \in DOMAIN s : i \in DOMAIN (s \o t) /\ (s \o t)[i] = s[i]
  BY <1>2, <1>4, ListFacts
<1>6. ASSUME NEW j \in DOMAIN t
      PROVE  Len(s) + j \in DOMAIN (s \o t) /\ (s \o t)[Len(s) + j] = t[j]
  <2>1. j \in 1..Len(t) /\ Len(s) \in Nat /\ Len(t) \in Nat
    BY ListFacts
  <2>2. Len(s) + j \in 1..Len(s) + Len(t) /\ ~ (Len(s) + j <= Len(s)) /\ (Len(s) + j) - Len(s) = j
    BY <2>1
  <2>3. QED BY <1>2, <1>4, <2>2
<1>7. ASSUME NEW i \in DOMAIN (s \o t), i \notin DOMAIN s
      PROVE  \E j \in DOMAIN t : i = Len(s) + j
  <2>1. i - Len(s) \in DOMAIN t /\ i = Len(s) + (i - Len(s))
    BY <1>4, <1>7, ListFacts
  <2>2. QED BY <2>1
<1>8. QED BY <1>2, <1>3, <1>5, <1>6, <1>7

\* The position, before the k-th element is removed, of what is then the i-th.
Origin(k, i) == IF i < k THEN i ELSE i + 1

LEMMA RemoveAtList ==
    ASSUME NEW s, IsList(s), NEW k \in DOMAIN s
    PROVE  /\ IsList(RemoveAt(s, k))
           /\ Len(RemoveAt(s, k)) = Len(s) - 1
           /\ \A i \in DOMAIN RemoveAt(s, k) :
                 /\ Origin(k, i) \in DOMAIN s \ {k}
                 /\ RemoveAt(s, k)[i] = s[Origin(k, i)]
           /\ \A j \in DOMAIN s \ {k} : \E i \in DOMAIN RemoveAt(s, k) : Origin(k, i) = j
<1>1. Len(s) \in Nat /\ DOMAIN s = 1..Len(s) /\ k \in 1..Len(s)
  BY ListFacts
<1> DEFINE a == SubSeq(s, 1, k - 1)
           b == SubSeq(s, k + 1, Len(s))
<1>2. \A i \in 1..Len(s) : s[i] \in Range(s)
  BY <1>1 DEF Range
<1>3. /\ a \in Seq(Range(s))
      /\ Len(a) = k - 1
      /\ \A i \in 1..(k - 1) : a[i] = s[i]
  <2>1. \A i \in 1..(k - 1) : s[i] \in Range(s)
    BY <1>1, <1>2
  <2>2. QED BY <1>1, <2>1, SubSeqProperties
<1>4. /\ b \in Seq(Range(s))
      /\ Len(b) = Len(s) - k
      /\ \A i \in 1..(Len(s) - k) : b[i] = s[k + i]
  <2>1. \A i \in (k + 1)..Len(s) : s[i] \in Range(s)
    BY <1>1, <1>2
  <2>2. /\ b \in Seq(Range(s))
        /\ Len(b) = IF k + 1 <= Len(s) THEN Len(s) - (k + 1) + 1 ELSE 0
        /\ \A i \in 1..(Len(s) - (k + 1) + 1) : b[i] = s[(k + 1) + i - 1]
    BY <1>1, <2>1, SubSeqProperties
  <2>3. QED BY <1>1, <2>2
<1> DEFINE r == a \o b
<1>5. /\ r \in Seq(Range(s))
      /\ Len(r) = Len(s) - 1
      /\ \A i \in 1..(Len(s) - 1) : r[i] = IF i <= k - 1 THEN a[i] ELSE b[i - (k - 1)]
  <2> HIDE DEF a, b
  <2>1. /\ r \in Seq(Range(s))
        /\ Len(r) = Len(a) + Len(b)
        /\ \A i \in 1..Len(a) + Len(b) : r[i] = IF i <= Len(a) THEN a[i] ELSE b[i - Len(a)]
    BY <1>3, <1>4, ConcatProperties
  <2>2. QED BY <1>1, <1>3, <1>4, <2>1
<1>6. RemoveAt(s, k) = r
  BY DEF RemoveAt
<1> HIDE DEF a, b, r
<1>7. IsList(r)
  BY <1>5, SeqOfRange DEF IsList
<1>8. DOMAIN r = 1..(Len(s) - 1)
  BY <1>5, <1>7, ListFacts
<1>9. ASSUME NEW i \in DOMAIN r
      PROVE  Origin(k, i) \in DOMAIN s \ {k} /\ r[i] = s[Origin(k, i)]
  <2>1. i \in 1..(Len(s) - 1)
    BY <1>8
  <2>2. CASE i < k
    <3>1. i \in 1..(k - 1) /\ i <= k - 1 /\ Origin(k, i) = i /\ i \in DOMAIN s \ {k}
      BY <1>1, <2>1, <2>2 DEF Origin
    <3>2. QED BY <1>3, <1>5, <2>1, <3>1
  <2>3. CASE ~ (i < k)
    <3>1. /\ ~ (i <= k - 1) /\ i - (k - 1) \in 1..(Len(s) - k) /\ k + (i - (k - 1)) = i + 1
          /\ Origin(k, i) = i + 1 /\ i + 1 \in DOMAIN s \ {k}
      BY <1>1, <2>1, <2>3 DEF Origin
    <3>2. QED BY <1>4, <1>5, <2>1, <3>1
  <2>4. QED BY <2>2, <2>3
<1>10. ASSUME NEW j \in DOMAIN s \ {k}
       PROVE  \E i \in DOMAIN r : Origin(k, i) = j
  <2>1. CASE j < k
    <3>1. j \in DOMAIN r /\ Origin(k, j) = j
      BY <1>1, <1>8, <2>1 DEF Origin
    <3>2. QED BY <3>1
  <2>2. CASE ~ (j < k)
    <3>1. j - 1 \in DOMAIN r /\ Origin(k, j - 1) = j
      BY <1>1, <1>8, <2>2 DEF Origin
    <3>2. QED BY <3>1
  <2>3. QED BY <2>1, <2>2
<1>11. QED BY <1>5, <1>6, <1>7, <1>9, <1>10

LEMMA SetToSeqList ==
    ASSUME NEW S, IsFiniteSet(S)
    PROVE  /\ IsList(SetToSeq(S))
           /\ \A i \in DOMAIN SetToSeq(S) : SetToSeq(S)[i] \in S
           /\ \A x \in S : \E i \in DOMAIN SetToSeq(S) : SetToSeq(S)[i] = x
<1> DEFINE n == Cardinality(S)
           s == SetToSeq(S)
<1>1. n \in Nat /\ IsFiniteSet(1..n) /\ Cardinality(1..n) = n
  BY FS_CardinalityType, FS_Interval
<1>2. \E f \in [1..n -> S] : IsInjective(f)
  <2>1. ExistsBijection(1..n, S)
    BY <1>1, FS_SameCardinalityBij
  <2>2. QED BY <2>1 DEF ExistsBijection, Bijection, Injection
<1>3. s \in [1..n -> S] /\ IsInjective(s)
  BY <1>2 DEF SetToSeq
<1> HIDE DEF s, n
<1>4. s \in Injection(1..n, S)
  BY <1>3 DEF Injection
<1>5. s \in Surjection(1..n, S)
  BY <1>1, <1>4, FS_Injection DEF n
<1>6. IsList(s)
  <2>1. s \in Seq(S)
    BY <1>1, <1>3
  <2>2. QED BY <2>1, SeqOfRange DEF IsList
<1>7. QED BY <1>3, <1>5, <1>6 DEF Surjection, s

\* The requests made for each element of a finite set.
LEMMA DropMarkList ==
    ASSUME NEW S, IsFiniteSet(S)
    PROVE  /\ IsList(Requests(DropMark, S))
           /\ \A i \in DOMAIN Requests(DropMark, S) :
                 \E m \in S : Requests(DropMark, S)[i] = DropMark(m)
           /\ \A m \in S : \E i \in DOMAIN Requests(DropMark, S) :
                 Requests(DropMark, S)[i] = DropMark(m)
<1> DEFINE T == {DropMark(x) : x \in S}
           f == [x \in S |-> DropMark(x)]
<1>1. IsFiniteSet(T)
  <2>1. f \in Surjection(S, T)
    BY DEF Surjection
  <2>2. QED BY <2>1, FS_Surjection
<1>2. Requests(DropMark, S) = SetToSeq(T)
  BY DEF Requests
<1>3. \A x : x \in T <=> \E m \in S : x = DropMark(m)
  OBVIOUS
<1> HIDE DEF T
<1>4. /\ IsList(SetToSeq(T))
      /\ \A i \in DOMAIN SetToSeq(T) : SetToSeq(T)[i] \in T
      /\ \A x \in T : \E i \in DOMAIN SetToSeq(T) : SetToSeq(T)[i] = x
  BY ONLY <1>1, SetToSeqList
<1>5. QED BY <1>2, <1>3, <1>4

LEMMA UpsertMarkList ==
    ASSUME NEW S, IsFiniteSet(S)
    PROVE  /\ IsList(Requests(UpsertMark, S))
           /\ \A i \in DOMAIN Requests(UpsertMark, S) :
                 \E m \in S : Requests(UpsertMark, S)[i] = UpsertMark(m)
           /\ \A m \in S : \E i \in DOMAIN Requests(UpsertMark, S) :
                 Requests(UpsertMark, S)[i] = UpsertMark(m)
<1> DEFINE T == {UpsertMark(x) : x \in S}
           f == [x \in S |-> UpsertMark(x)]
<1>1. IsFiniteSet(T)
  <2>1. f \in Surjection(S, T)
    BY DEF Surjection
  <2>2. QED BY <2>1, FS_Surjection
<1>2. Requests(UpsertMark, S) = SetToSeq(T)
  BY DEF Requests
<1>3. \A x : x \in T <=> \E m \in S : x = UpsertMark(m)
  OBVIOUS
<1> HIDE DEF T
<1>4. /\ IsList(SetToSeq(T))
      /\ \A i \in DOMAIN SetToSeq(T) : SetToSeq(T)[i] \in T
      /\ \A x \in T : \E i \in DOMAIN SetToSeq(T) : SetToSeq(T)[i] = x
  BY ONLY <1>1, SetToSeqList
<1>5. QED BY <1>2, <1>3, <1>4

\* What the page registers when it finds the server without any room.
LEMMA UpsertRoomList ==
    ASSUME NEW list, IsFiniteSet(DOMAIN list)
    PROVE  LET q == SetToSeq({UpsertRoom(r, list[r]) : r \in DOMAIN list})
           IN  /\ IsList(q)
               /\ \A i \in DOMAIN q : \E r \in DOMAIN list : q[i] = UpsertRoom(r, list[r])
               /\ \A r \in DOMAIN list : \E i \in DOMAIN q : q[i] = UpsertRoom(r, list[r])
<1> DEFINE T == {UpsertRoom(r, list[r]) : r \in DOMAIN list}
           f == [r \in DOMAIN list |-> UpsertRoom(r, list[r])]
<1>1. IsFiniteSet(T)
  <2>1. f \in Surjection(DOMAIN list, T)
    BY DEF Surjection
  <2>2. QED BY <2>1, FS_Surjection
<1>2. QED BY <1>1, SetToSeqList

-----------------------------------------------------------------------------
(* The room list and the chat_room rows.                                    *)

SameRow(a, b) == a.thread = b.thread /\ a.title = b.title

\* What a write says of its room is so in the list.
Agrees(request, list) ==
    IF request.kind = "room"
    THEN request.room \in DOMAIN list /\ SameRow(request.row, list[request.room])
    ELSE request.room \notin DOMAIN list

About(request, r) == RoomWrite(request) /\ request.room = r

LastAbout(q, i) ==
    /\ RoomWrite(q[i])
    /\ \A j \in DOMAIN q : j > i => ~ About(q[j], q[i].room)

AgreeOn(r, db, list) ==
    /\ r \in DOMAIN db <=> r \in DOMAIN list
    /\ r \in DOMAIN db => SameRow(db[r], list[r])

\* The last write in flight about a room tells what the page has of it; a room
\* without one is on the server as it is on the page.
RoomsInStep(q, db, list) ==
    /\ \A i \in DOMAIN q : LastAbout(q, i) => Agrees(q[i], list)
    /\ \A r \in Thread : (\A i \in DOMAIN q : ~ About(q[i], r)) => AgreeOn(r, db, list)

\* Rooms the page keeps as they are need no write.
LEMMA RoomsPosted ==
    ASSUME NEW q, NEW p, NEW db, NEW list, NEW list2, IsList(q), IsList(p),
           RoomsInStep(q, db, list),
           \A i \in DOMAIN q : RoomWrite(q[i]) => q[i].room \in Thread,
           \A j \in DOMAIN p : RoomWrite(p[j]) => Agrees(p[j], list2),
           \A r \in Thread : (\A j \in DOMAIN p : ~ About(p[j], r)) => AgreeOn(r, list, list2)
    PROVE  RoomsInStep(q \o p, db, list2)
<1> DEFINE s == q \o p
<1>0. /\ \A i \in DOMAIN q : i \in DOMAIN s /\ s[i] = q[i]
      /\ \A j \in DOMAIN p : Len(q) + j \in DOMAIN s /\ s[Len(q) + j] = p[j]
      /\ \A i \in DOMAIN s : i \in DOMAIN q \/ \E j \in DOMAIN p : i = Len(q) + j
  <2>1. IsList(q) /\ IsList(p)
    OBVIOUS
  <2>2. /\ IsList(q \o p)
        /\ Len(q \o p) = Len(q) + Len(p)
        /\ \A i \in DOMAIN q : i \in DOMAIN (q \o p) /\ (q \o p)[i] = q[i]
        /\ \A j \in DOMAIN p : /\ Len(q) + j \in DOMAIN (q \o p)
                               /\ (q \o p)[Len(q) + j] = p[j]
        /\ \A i \in DOMAIN (q \o p) :
              \/ i \in DOMAIN q
              \/ \E j \in DOMAIN p : i = Len(q) + j
    BY ONLY <2>1, ConcatList, Zenon
  <2>3. QED BY ONLY <2>2, Zenon
<1>1. \A i \in DOMAIN q : \A j \in DOMAIN p : Len(q) + j > i
  <2>1. Len(q) \in Nat /\ Len(p) \in Nat /\ DOMAIN q = 1..Len(q) /\ DOMAIN p = 1..Len(p)
    BY ListFacts
  <2>2. QED BY <2>1
<1> HIDE DEF s
<1>2. ASSUME NEW i \in DOMAIN s, LastAbout(s, i)
      PROVE  Agrees(s[i], list2)
  <2>1. CASE \E j \in DOMAIN p : i = Len(q) + j
    BY <1>0, <1>2, <2>1 DEF LastAbout
  <2>2. CASE i \in DOMAIN q
    <3>1. s[i] = q[i] /\ RoomWrite(q[i])
      BY <1>0, <1>2, <2>2 DEF LastAbout
    <3>2. LastAbout(q, i)
      BY <1>0, <1>2, <2>2, <3>1 DEF LastAbout
    <3>3. \A j \in DOMAIN p : ~ About(p[j], q[i].room)
      BY <1>0, <1>1, <1>2, <2>2, <3>1 DEF LastAbout
    <3>4. Agrees(q[i], list) /\ q[i].room \in Thread
      BY <2>2, <3>1, <3>2 DEF RoomsInStep
    <3>5. AgreeOn(q[i].room, list, list2)
      BY <3>3, <3>4
    <3>6. QED BY <3>1, <3>4, <3>5 DEF Agrees, AgreeOn, SameRow
  <2>3. QED BY <1>0, <2>1, <2>2
<1>3. ASSUME NEW r \in Thread, \A i \in DOMAIN s : ~ About(s[i], r)
      PROVE  AgreeOn(r, db, list2)
  <2>1. AgreeOn(r, db, list)
    BY <1>0, <1>3 DEF RoomsInStep
  <2>2. AgreeOn(r, list, list2)
    BY <1>0, <1>3
  <2>3. QED BY <2>1, <2>2 DEF AgreeOn, SameRow
<1>4. QED BY <1>2, <1>3 DEF RoomsInStep, s

\* A write that overtakes none it needs leaves the rooms in step.
LEMMA RoomsDelivered ==
    ASSUME NEW q, NEW k \in DOMAIN q, NEW db, NEW db2, NEW list, IsList(q),
           RoomsInStep(q, db, list),
           RoomWrite(q[k]) => \A j \in 1..(k - 1) : ~ Needs(q[k], q[j]),
           \A r \in Thread : ~ About(q[k], r) => AgreeOn(r, db2, db),
           \A r \in Thread : About(q[k], r) /\ Agrees(q[k], list) => AgreeOn(r, db2, list)
    PROVE  RoomsInStep(RemoveAt(q, k), db2, list)
<1> DEFINE s == RemoveAt(q, k)
<1>0. /\ \A i \in DOMAIN s : Origin(k, i) \in DOMAIN q \ {k} /\ s[i] = q[Origin(k, i)]
      /\ \A j \in DOMAIN q \ {k} : \E i \in DOMAIN s : Origin(k, i) = j
      /\ DOMAIN s \subseteq Nat /\ DOMAIN q \subseteq Nat
      /\ DOMAIN q = 1..Len(q) /\ Len(q) \in Nat
  <2>1. IsList(q) /\ k \in DOMAIN q
    OBVIOUS
  <2>2. /\ IsList(s)
        /\ \A i \in DOMAIN s : Origin(k, i) \in DOMAIN q \ {k} /\ s[i] = q[Origin(k, i)]
        /\ \A j \in DOMAIN q \ {k} : \E i \in DOMAIN s : Origin(k, i) = j
    BY ONLY <2>1, RemoveAtList
  <2>3. /\ DOMAIN q = 1..Len(q) /\ Len(q) \in Nat
        /\ DOMAIN s = 1..Len(s) /\ Len(s) \in Nat
    BY ONLY <2>1, <2>2, ListFacts
  <2> HIDE DEF s
  <2>4. QED BY <2>2, <2>3
<1> HIDE DEF s
<1>1. ASSUME NEW j \in DOMAIN q, RoomWrite(q[k]), RoomWrite(q[j]), q[j].room = q[k].room, j < k
      PROVE  q[j] = q[k]
  <2>1. j \in 1..(k - 1)
    BY <1>0, <1>1
  <2>2. QED BY <1>1, <2>1 DEF Needs
<1>2. ASSUME NEW i \in DOMAIN s, LastAbout(s, i)
      PROVE  Agrees(s[i], list)
  <2>1. PICK j \in DOMAIN q \ {k} : j = Origin(k, i) /\ s[i] = q[j]
    BY <1>0
  <2>2. RoomWrite(q[j])
    BY <1>2, <2>1 DEF LastAbout
  <2>3. ASSUME NEW h \in DOMAIN q \ {k}, h > j PROVE ~ About(q[h], q[j].room)
    <3>1. PICK g \in DOMAIN s : Origin(k, g) = h
      BY <1>0
    <3>2. g > i
      BY <1>0, <2>1, <2>3, <3>1 DEF Origin
    <3>3. s[g] = q[h]
      BY <1>0, <3>1
    <3>4. QED BY <1>2, <2>1, <3>2, <3>3 DEF LastAbout
  <2>4. CASE k > j /\ About(q[k], q[j].room)
    <3>1. q[j] = q[k]
      BY <1>0, <1>1, <2>2, <2>4 DEF About
    <3>2. ASSUME NEW h \in DOMAIN q, h > k PROVE ~ About(q[h], q[k].room)
      <4>1. h \in DOMAIN q \ {k} /\ h > j
        BY <1>0, <2>4, <3>2
      <4>2. QED BY <2>3, <3>1, <4>1
    <3>3. LastAbout(q, k)
      BY <2>4, <3>2 DEF LastAbout, About
    <3>4. QED BY <2>1, <3>1, <3>3 DEF RoomsInStep
  <2>5. CASE ~ (k > j /\ About(q[k], q[j].room))
    <3>1. LastAbout(q, j)
      BY <2>2, <2>3, <2>5 DEF LastAbout
    <3>2. QED BY <2>1, <3>1 DEF RoomsInStep
  <2>6. QED BY <2>4, <2>5
<1>3. ASSUME NEW r \in Thread, \A i \in DOMAIN s : ~ About(s[i], r)
      PROVE  AgreeOn(r, db2, list)
  <2>1. \A j \in DOMAIN q \ {k} : ~ About(q[j], r)
    BY <1>0, <1>3
  <2>2. CASE About(q[k], r)
    <3>1. LastAbout(q, k)
      BY <1>0, <2>1, <2>2 DEF LastAbout, About
    <3>2. QED BY <2>2, <3>1 DEF RoomsInStep
  <2>3. CASE ~ About(q[k], r)
    <3>1. AgreeOn(r, db, list)
      BY <2>1, <2>3 DEF RoomsInStep
    <3>2. QED BY <2>3, <3>1 DEF AgreeOn, SameRow
  <2>4. QED BY <2>2, <2>3
<1>4. QED BY <1>2, <1>3 DEF RoomsInStep, s

-----------------------------------------------------------------------------
(* The bookmark list and the chat_bookmark rows.                            *)

MarkWrite(request) == request.kind \in {"mark", "dropMark"}

MarksIn(q) == {q[i].mark : i \in {j \in DOMAIN q : MarkWrite(q[j])}}

IdsDiffer(S) == \A m, n \in S : m.id = n.id => m = n

\* A bookmark on the page is a row, or will be one; "cut" holds those whose row
\* an edit under way has deleted.
Registered(q, rows, kept, cut) ==
    \A m \in kept : m \in rows \/ (\E i \in DOMAIN q : q[i] = UpsertMark(m)) \/ m \in cut

\* What else is on its way to its place comes before it.
Prevails(q, kept) ==
    \A m \in kept : \A i \in DOMAIN q :
        q[i].kind = "mark" /\ SamePlace(q[i].mark, m) /\ q[i].mark # m =>
            \E j \in DOMAIN q : j > i /\ q[j] = UpsertMark(m)

\* A bookmark that the page no longer has is dropped after it is registered.
Withdrawn(q, kept) ==
    \A i \in DOMAIN q : q[i].kind = "mark" /\ q[i].mark \notin kept =>
        \E j \in DOMAIN q : j > i /\ q[j] = DropMark(q[i].mark)

Leftover(q, rows, kept) ==
    \A n \in rows : n \notin kept => \E j \in DOMAIN q : q[j] = DropMark(n)

\* Nothing in flight takes a bookmark of the page away.
Spared(q, kept) ==
    \A i \in DOMAIN q :
        /\ q[i].kind = "dropMark" => q[i].mark \notin kept
        /\ q[i].kind = "dropRoom" => \A m \in kept : m.room # q[i].room

MarksInStep(q, rows, kept, cut) ==
    /\ Registered(q, rows, kept, cut)
    /\ Prevails(q, kept)
    /\ Withdrawn(q, kept)
    /\ Leftover(q, rows, kept)
    /\ Spared(q, kept)

\* The rows after a write has been applied; a write about a room may be lost.
RowsAfter(request, rows, rows2) ==
    /\ request.kind = "room" => rows2 = rows
    /\ request.kind = "dropRoom" =>
          rows2 = rows \/ rows2 = {m \in rows : m.room # request.room}
    /\ request.kind = "mark" =>
          rows2 = {n \in rows : ~ SamePlace(request.mark, n)} \cup {request.mark}
    /\ request.kind = "dropMark" => rows2 = {n \in rows : n.id # request.mark.id}

Kinds == {"room", "dropRoom", "mark", "dropMark"}

LEMMA MarksDelivered ==
    ASSUME NEW q, NEW k \in DOMAIN q, NEW rows, NEW rows2, NEW kept, NEW cut, IsList(q),
           q[k].kind \in Kinds,
           MarksInStep(q, rows, kept, cut),
           IdsDiffer(kept \cup rows \cup MarksIn(q)),
           MarkWrite(q[k]) => \A j \in 1..(k - 1) : ~ Needs(q[k], q[j]),
           RowsAfter(q[k], rows, rows2)
    PROVE  MarksInStep(RemoveAt(q, k), rows2, kept, cut)
<1> DEFINE s == RemoveAt(q, k)
<1>0. /\ \A i \in DOMAIN s : Origin(k, i) \in DOMAIN q \ {k} /\ s[i] = q[Origin(k, i)]
      /\ \A j \in DOMAIN q \ {k} : \E i \in DOMAIN s : Origin(k, i) = j
      /\ DOMAIN s \subseteq Nat /\ DOMAIN q \subseteq Nat
      /\ DOMAIN q = 1..Len(q) /\ Len(q) \in Nat
  <2>1. IsList(q) /\ k \in DOMAIN q
    OBVIOUS
  <2>2. /\ IsList(s)
        /\ \A i \in DOMAIN s : Origin(k, i) \in DOMAIN q \ {k} /\ s[i] = q[Origin(k, i)]
        /\ \A j \in DOMAIN q \ {k} : \E i \in DOMAIN s : Origin(k, i) = j
    BY ONLY <2>1, RemoveAtList
  <2>3. /\ DOMAIN q = 1..Len(q) /\ Len(q) \in Nat
        /\ DOMAIN s = 1..Len(s) /\ Len(s) \in Nat
    BY ONLY <2>1, <2>2, ListFacts
  <2> HIDE DEF s
  <2>4. QED BY <2>2, <2>3
<1> HIDE DEF s
<1> DEFINE m1 == q[k].mark
<1>1. ASSUME NEW j \in DOMAIN q \ {k}
      PROVE  \E i \in DOMAIN s : s[i] = q[j]
  BY <1>0
<1>2. ASSUME NEW i \in DOMAIN s, NEW j \in DOMAIN q \ {k}, j > Origin(k, i)
      PROVE  \E h \in DOMAIN s : h > i /\ s[h] = q[j]
  <2>1. PICK h \in DOMAIN s : Origin(k, h) = j
    BY <1>0
  <2>2. h > i
    BY <1>0, <1>2, <2>1 DEF Origin
  <2>3. QED BY <1>0, <2>1, <2>2
<1>3. ASSUME MarkWrite(q[k]), NEW j \in DOMAIN q, j < k PROVE ~ Needs(q[k], q[j])
  <2>1. j \in 1..(k - 1)
    BY <1>0, <1>3
  <2>2. QED BY <1>3, <2>1
<1>4. \A j \in DOMAIN q : MarkWrite(q[j]) => q[j].mark \in MarksIn(q)
  BY DEF MarksIn
<1>5. Registered(s, rows2, kept, cut)
  <2> SUFFICES ASSUME NEW m \in kept, m \notin cut, \A i \in DOMAIN s : s[i] # UpsertMark(m)
               PROVE  m \in rows2
    BY DEF Registered
  <2>1. m \in rows \/ q[k] = UpsertMark(m)
    BY <1>1 DEF MarksInStep, Registered
  <2>2. CASE q[k] = UpsertMark(m)
    <3>1. q[k].kind = "mark" /\ q[k].mark = m
      BY <2>2 DEF UpsertMark
    <3>2. QED BY <3>1 DEF RowsAfter
  <2>3. CASE m \in rows /\ q[k].kind = "room"
    BY <2>3 DEF RowsAfter
  <2>4. CASE m \in rows /\ q[k].kind = "dropRoom"
    BY <2>4 DEF RowsAfter, MarksInStep, Spared
  <2>5. CASE m \in rows /\ q[k].kind = "dropMark"
    <3>1. m1 \in MarksIn(q) /\ m1 \notin kept
      BY <1>4, <2>5 DEF MarkWrite, MarksInStep, Spared
    <3>2. m.id # m1.id
      BY <3>1 DEF IdsDiffer
    <3>3. QED BY <2>5, <3>2 DEF RowsAfter
  <2>6. CASE m \in rows /\ q[k].kind = "mark"
    <3>1. CASE SamePlace(m1, m) /\ m1 # m
      <4>1. PICK j \in DOMAIN q : j > k /\ q[j] = UpsertMark(m)
        BY <2>6, <3>1 DEF MarksInStep, Prevails
      <4>2. j \in DOMAIN q \ {k}
        BY <1>0, <4>1
      <4>3. QED BY <1>1, <4>1, <4>2
    <3>2. CASE ~ (SamePlace(m1, m) /\ m1 # m)
      BY <2>6, <3>2 DEF RowsAfter
    <3>3. QED BY <3>1, <3>2
  <2>7. QED BY <2>1, <2>2, <2>3, <2>4, <2>5, <2>6 DEF Kinds
<1>6. Prevails(s, kept)
  <2> SUFFICES ASSUME NEW m \in kept, NEW i \in DOMAIN s,
                      s[i].kind = "mark", SamePlace(s[i].mark, m), s[i].mark # m
               PROVE  \E h \in DOMAIN s : h > i /\ s[h] = UpsertMark(m)
    BY DEF Prevails
  <2>1. PICK g \in DOMAIN q \ {k} : g = Origin(k, i) /\ s[i] = q[g]
    BY <1>0
  <2>2. PICK j \in DOMAIN q : j > g /\ q[j] = UpsertMark(m)
    BY <2>1 DEF MarksInStep, Prevails
  <2>3. j # k
    <3> SUFFICES ASSUME j = k PROVE FALSE
      OBVIOUS
    <3>1. q[k].kind = "mark" /\ q[k].mark = m /\ g < k
      BY <1>0, <2>1, <2>2 DEF UpsertMark
    <3>2. q[g].mark \in MarksIn(q) /\ q[g].mark # m /\ q[g].kind = "mark" /\ SamePlace(m, q[g].mark)
      BY <1>4, <2>1 DEF MarkWrite, SamePlace
    <3>3. m.id # q[g].mark.id
      BY <3>2 DEF IdsDiffer
    <3>4. Needs(q[k], q[g])
      BY <3>1, <3>2, <3>3 DEF Needs, RoomWrite
    <3>5. QED BY <1>3, <3>1, <3>4 DEF MarkWrite
  <2>4. QED BY <1>2, <2>1, <2>2, <2>3
<1>7. Withdrawn(s, kept)
  <2> SUFFICES ASSUME NEW i \in DOMAIN s, s[i].kind = "mark", s[i].mark \notin kept
               PROVE  \E h \in DOMAIN s : h > i /\ s[h] = DropMark(s[i].mark)
    BY DEF Withdrawn
  <2>1. PICK g \in DOMAIN q \ {k} : g = Origin(k, i) /\ s[i] = q[g]
    BY <1>0
  <2>2. PICK j \in DOMAIN q : j > g /\ q[j] = DropMark(q[g].mark)
    BY <2>1 DEF MarksInStep, Withdrawn
  <2>3. j # k
    <3> SUFFICES ASSUME j = k PROVE FALSE
      OBVIOUS
    <3>1. q[k].kind = "dropMark" /\ q[k].mark = q[g].mark /\ g < k
      BY <1>0, <2>1, <2>2 DEF DropMark
    <3>2. Needs(q[k], q[g])
      BY <2>1, <3>1 DEF Needs, RoomWrite
    <3>3. QED BY <1>3, <3>1, <3>2 DEF MarkWrite
  <2>4. QED BY <1>2, <2>1, <2>2, <2>3
<1>8. Leftover(s, rows2, kept)
  <2> SUFFICES ASSUME NEW n \in rows2, n \notin kept
               PROVE  \E h \in DOMAIN s : s[h] = DropMark(n)
    BY DEF Leftover
  <2>1. CASE n \in rows
    <3>1. PICK j \in DOMAIN q : q[j] = DropMark(n)
      BY <2>1 DEF MarksInStep, Leftover
    <3>2. j # k
      BY <3>1 DEF DropMark, RowsAfter
    <3>3. QED BY <1>1, <3>1, <3>2
  <2>2. CASE n \notin rows
    <3>1. q[k].kind = "mark" /\ n = m1
      BY <2>2 DEF RowsAfter, Kinds
    <3>2. PICK j \in DOMAIN q : j > k /\ q[j] = DropMark(n)
      BY <3>1 DEF MarksInStep, Withdrawn
    <3>3. j \in DOMAIN q \ {k}
      BY <1>0, <3>2
    <3>4. QED BY <1>1, <3>2, <3>3
  <2>3. QED BY <2>1, <2>2
<1>9. Spared(s, kept)
  BY <1>0 DEF Spared, MarksInStep
<1>10. QED BY <1>5, <1>6, <1>7, <1>8, <1>9 DEF MarksInStep, s

\* Writes that only take bookmarks away, each of them withdrawn.
LEMMA MarksDropped ==
    ASSUME NEW q, NEW p, NEW rows, NEW kept, NEW kept2, NEW cut, NEW cut2, IsList(q), IsList(p),
           MarksInStep(q, rows, kept, cut),
           kept2 \subseteq kept,
           \A m \in kept2 : m \in cut => m \in cut2,
           \A m \in kept \ kept2 : \E j \in DOMAIN p : p[j] = DropMark(m),
           \A j \in DOMAIN p :
              /\ p[j].kind # "mark"
              /\ p[j].kind = "dropMark" => p[j].mark \notin kept2
              /\ p[j].kind = "dropRoom" => \A m \in kept2 : m.room # p[j].room
    PROVE  MarksInStep(q \o p, rows, kept2, cut2)
<1> DEFINE s == q \o p
<1>0. /\ \A i \in DOMAIN q : i \in DOMAIN s /\ s[i] = q[i]
      /\ \A j \in DOMAIN p : Len(q) + j \in DOMAIN s /\ s[Len(q) + j] = p[j]
      /\ \A i \in DOMAIN s : i \in DOMAIN q \/ \E j \in DOMAIN p : i = Len(q) + j
  <2>1. IsList(q) /\ IsList(p)
    OBVIOUS
  <2>2. /\ IsList(q \o p)
        /\ Len(q \o p) = Len(q) + Len(p)
        /\ \A i \in DOMAIN q : i \in DOMAIN (q \o p) /\ (q \o p)[i] = q[i]
        /\ \A j \in DOMAIN p : /\ Len(q) + j \in DOMAIN (q \o p)
                               /\ (q \o p)[Len(q) + j] = p[j]
        /\ \A i \in DOMAIN (q \o p) :
              \/ i \in DOMAIN q
              \/ \E j \in DOMAIN p : i = Len(q) + j
    BY ONLY <2>1, ConcatList, Zenon
  <2>3. QED BY ONLY <2>2, Zenon
<1>1. \A i \in DOMAIN q : \A j \in DOMAIN p : Len(q) + j > i
  <2>1. Len(q) \in Nat /\ Len(p) \in Nat /\ DOMAIN q = 1..Len(q) /\ DOMAIN p = 1..Len(p)
    BY ListFacts
  <2>2. QED BY <2>1
<1> HIDE DEF s
<1>2. Registered(s, rows, kept2, cut2)
  BY <1>0 DEF Registered, MarksInStep
<1>3. Prevails(s, kept2)
  <2> SUFFICES ASSUME NEW m \in kept2, NEW i \in DOMAIN s,
                      s[i].kind = "mark", SamePlace(s[i].mark, m), s[i].mark # m
               PROVE  \E h \in DOMAIN s : h > i /\ s[h] = UpsertMark(m)
    BY DEF Prevails
  <2>1. i \in DOMAIN q /\ s[i] = q[i]
    BY <1>0
  <2>2. PICK j \in DOMAIN q : j > i /\ q[j] = UpsertMark(m)
    BY <2>1 DEF MarksInStep, Prevails
  <2>3. QED BY <1>0, <2>2
<1>4. Withdrawn(s, kept2)
  <2> SUFFICES ASSUME NEW i \in DOMAIN s, s[i].kind = "mark", s[i].mark \notin kept2
               PROVE  \E h \in DOMAIN s : h > i /\ s[h] = DropMark(s[i].mark)
    BY DEF Withdrawn
  <2>1. i \in DOMAIN q /\ s[i] = q[i]
    BY <1>0
  <2>2. CASE q[i].mark \in kept
    <3>1. PICK j \in DOMAIN p : p[j] = DropMark(q[i].mark)
      BY <2>1, <2>2
    <3>2. Len(q) + j \in DOMAIN s /\ Len(q) + j > i /\ s[Len(q) + j] = DropMark(q[i].mark)
      BY <1>0, <1>1, <2>1, <3>1
    <3>3. QED BY <2>1, <3>2
  <2>3. CASE q[i].mark \notin kept
    <3>1. PICK j \in DOMAIN q : j > i /\ q[j] = DropMark(q[i].mark)
      BY <2>1, <2>3 DEF MarksInStep, Withdrawn
    <3>2. QED BY <1>0, <2>1, <3>1
  <2>4. QED BY <2>2, <2>3
<1>5. Leftover(s, rows, kept2)
  <2> SUFFICES ASSUME NEW n \in rows, n \notin kept2
               PROVE  \E h \in DOMAIN s : s[h] = DropMark(n)
    BY DEF Leftover
  <2>1. CASE n \in kept
    BY <1>0, <2>1
  <2>2. CASE n \notin kept
    <3>1. PICK j \in DOMAIN q : q[j] = DropMark(n)
      BY <2>2 DEF MarksInStep, Leftover
    <3>2. QED BY <1>0, <3>1
  <2>3. QED BY <2>1, <2>2
<1>6. Spared(s, kept2)
  BY <1>0 DEF MarksInStep, Spared
<1>7. QED BY <1>2, <1>3, <1>4, <1>5, <1>6 DEF MarksInStep, s

\* A bookmark of a place that has none.
LEMMA MarkAdded ==
    ASSUME NEW q, NEW rows, NEW kept, NEW cut, NEW cut2, NEW added, IsList(q),
           MarksInStep(q, rows, kept, cut),
           \A m \in kept : m \in cut => m \in cut2,
           added \notin MarksIn(q),
           \A m \in kept : ~ SamePlace(added, m),
           \A i \in DOMAIN q : q[i].kind = "dropRoom" => q[i].room # added.room
    PROVE  MarksInStep(q \o <<UpsertMark(added)>>, rows, kept \cup {added}, cut2)
<1> DEFINE p == <<UpsertMark(added)>>
           s == q \o p
           kept2 == kept \cup {added}
           last == Len(q) + 1
<1>0. /\ Len(q) \in Nat /\ DOMAIN q = 1..Len(q)
      /\ \A i \in DOMAIN q : i \in DOMAIN s /\ s[i] = q[i]
      /\ last \in DOMAIN s /\ s[last] = UpsertMark(added)
      /\ \A i \in DOMAIN s : i \in DOMAIN q \/ i = last
      /\ \A i \in DOMAIN q : last > i
  <2>1. IsList(q) /\ IsList(p) /\ Len(p) = 1 /\ p[1] = UpsertMark(added)
    BY OneList
  <2>2. Len(q) \in Nat /\ DOMAIN q = 1..Len(q) /\ DOMAIN p = 1..1
    BY <2>1, ListFacts
  <2> HIDE DEF p
  <2>3. /\ \A i \in DOMAIN q : i \in DOMAIN s /\ s[i] = q[i]
        /\ \A j \in DOMAIN p : Len(q) + j \in DOMAIN s /\ s[Len(q) + j] = p[j]
        /\ \A i \in DOMAIN s : i \in DOMAIN q \/ \E j \in DOMAIN p : i = Len(q) + j
    <3>1. /\ IsList(q \o p)
          /\ Len(q \o p) = Len(q) + Len(p)
          /\ \A i \in DOMAIN q : i \in DOMAIN (q \o p) /\ (q \o p)[i] = q[i]
          /\ \A j \in DOMAIN p : /\ Len(q) + j \in DOMAIN (q \o p)
                                 /\ (q \o p)[Len(q) + j] = p[j]
          /\ \A i \in DOMAIN (q \o p) :
                \/ i \in DOMAIN q
                \/ \E j \in DOMAIN p : i = Len(q) + j
      BY ONLY <2>1, ConcatList, Zenon
    <3>2. QED BY ONLY <3>1, Zenon
  <2> HIDE DEF s
  <2>4. QED BY <2>1, <2>2, <2>3
<1> HIDE DEF s, p, last
<1>1. UpsertMark(added).kind = "mark" /\ UpsertMark(added).mark = added
  BY DEF UpsertMark
<1>2. Registered(s, rows, kept2, cut2)
  BY <1>0 DEF Registered, MarksInStep
<1>3. Prevails(s, kept2)
  <2> SUFFICES ASSUME NEW m \in kept2, NEW i \in DOMAIN s,
                      s[i].kind = "mark", SamePlace(s[i].mark, m), s[i].mark # m
               PROVE  \E h \in DOMAIN s : h > i /\ s[h] = UpsertMark(m)
    BY DEF Prevails
  <2>1. i \in DOMAIN q /\ s[i] = q[i]
    BY <1>0, <1>1
  <2>2. CASE m = added
    BY <1>0, <2>1, <2>2
  <2>3. CASE m \in kept
    <3>1. PICK j \in DOMAIN q : j > i /\ q[j] = UpsertMark(m)
      BY <2>1, <2>3 DEF MarksInStep, Prevails
    <3>2. QED BY <1>0, <3>1
  <2>4. QED BY <2>2, <2>3
<1>4. Withdrawn(s, kept2)
  <2> SUFFICES ASSUME NEW i \in DOMAIN s, s[i].kind = "mark", s[i].mark \notin kept2
               PROVE  \E h \in DOMAIN s : h > i /\ s[h] = DropMark(s[i].mark)
    BY DEF Withdrawn
  <2>1. i \in DOMAIN q /\ s[i] = q[i]
    BY <1>0, <1>1
  <2>2. PICK j \in DOMAIN q : j > i /\ q[j] = DropMark(q[i].mark)
    BY <2>1 DEF MarksInStep, Withdrawn
  <2>3. QED BY <1>0, <2>1, <2>2
<1>5. Leftover(s, rows, kept2)
  BY <1>0 DEF MarksInStep, Leftover
<1>6. Spared(s, kept2)
  <2>1. \A j \in DOMAIN q : q[j].kind = "dropMark" => q[j].mark \in MarksIn(q)
    BY DEF MarksIn, MarkWrite
  <2>2. QED BY <1>0, <1>1, <2>1 DEF MarksInStep, Spared
<1>7. QED BY <1>2, <1>3, <1>4, <1>5, <1>6 DEF MarksInStep, s, p

\* The bookmarks as the server lists them, and those that only the page has.
LEMMA MarksLoaded ==
    ASSUME NEW q, NEW p, NEW rows, NEW missing, NEW cut, IsList(q), IsList(p),
           \A i \in DOMAIN q : q[i].kind = "room",
           \A j \in DOMAIN p : \E m \in missing : p[j] = UpsertMark(m),
           \A m \in missing : \E j \in DOMAIN p : p[j] = UpsertMark(m),
           \A m, n \in missing : SamePlace(m, n) => m = n,
           \A m \in missing, n \in rows : ~ SamePlace(m, n)
    PROVE  MarksInStep(q \o p, rows, rows \cup missing, cut)
<1> DEFINE s == q \o p
<1>0. /\ \A i \in DOMAIN q : i \in DOMAIN s /\ s[i] = q[i]
      /\ \A j \in DOMAIN p : Len(q) + j \in DOMAIN s /\ s[Len(q) + j] = p[j]
      /\ \A i \in DOMAIN s : i \in DOMAIN q \/ \E j \in DOMAIN p : i = Len(q) + j
  <2>1. IsList(q) /\ IsList(p)
    OBVIOUS
  <2>2. /\ IsList(q \o p)
        /\ Len(q \o p) = Len(q) + Len(p)
        /\ \A i \in DOMAIN q : i \in DOMAIN (q \o p) /\ (q \o p)[i] = q[i]
        /\ \A j \in DOMAIN p : /\ Len(q) + j \in DOMAIN (q \o p)
                               /\ (q \o p)[Len(q) + j] = p[j]
        /\ \A i \in DOMAIN (q \o p) :
              \/ i \in DOMAIN q
              \/ \E j \in DOMAIN p : i = Len(q) + j
    BY ONLY <2>1, ConcatList, Zenon
  <2>3. QED BY ONLY <2>2, Zenon
<1> HIDE DEF s
<1>1. \A m : UpsertMark(m).kind = "mark" /\ UpsertMark(m).mark = m
  BY DEF UpsertMark
<1>2. ASSUME NEW i \in DOMAIN s
      PROVE  \/ s[i].kind = "room"
             \/ \E m \in missing : s[i] = UpsertMark(m) /\ s[i].kind = "mark" /\ s[i].mark = m
  <2>1. CASE i \in DOMAIN q
    BY <1>0, <2>1
  <2>2. CASE i \notin DOMAIN q
    <3>1. PICK j \in DOMAIN p : i = Len(q) + j
      BY <1>0, <2>2
    <3>2. PICK m \in missing : p[j] = UpsertMark(m)
      OBVIOUS
    <3>3. QED BY <1>0, <1>1, <3>1, <3>2
  <2>3. QED BY <2>1, <2>2
<1>3. Registered(s, rows, rows \cup missing, cut)
  BY <1>0 DEF Registered
<1>4. Prevails(s, rows \cup missing)
  <2> SUFFICES ASSUME NEW m \in rows \cup missing, NEW i \in DOMAIN s,
                      s[i].kind = "mark", SamePlace(s[i].mark, m), s[i].mark # m
               PROVE  FALSE
    BY DEF Prevails
  <2>1. s[i].mark \in missing
    BY <1>2
  <2>2. QED BY <2>1
<1>5. Withdrawn(s, rows \cup missing)
  BY <1>2 DEF Withdrawn
<1>6. Leftover(s, rows, rows \cup missing)
  BY DEF Leftover
<1>7. Spared(s, rows \cup missing)
  BY <1>2 DEF Spared
<1>8. QED BY <1>3, <1>4, <1>5, <1>6, <1>7 DEF MarksInStep, s

-----------------------------------------------------------------------------
(* The forms of the variables.                                              *)

UsedNames == [threads : Nat, turns : Nat, sends : Nat, attempts : Nat, marks : Nat,
              changes : Nat, reloads : Nat, faults : Nat]

IsRoom(x) == x = [thread |-> x.thread, title |-> x.title,
                  messages |-> x.messages, restoring |-> x.restoring]

IsEdit(e) ==
    \/ e = NoEdit
    \/ /\ e.phase \in {"asked", "done"}
       /\ e = [phase |-> e.phase, room |-> e.room, thread |-> e.thread, k |-> e.k,
               messages |-> e.messages, left |-> e.left]

UsedInv ==
    /\ used \in UsedNames
    /\ used.threads <= MaxThreads /\ used.turns <= MaxTurns /\ used.marks <= MaxMarks

SentInv ==
    /\ IsList(sent) /\ Len(sent) <= MaxSent
    /\ \A i \in DOMAIN sent : /\ sent[i].kind \in Kinds
                              /\ RoomWrite(sent[i]) => sent[i].room \in 1..used.threads

RoomForms(list) == \A r \in DOMAIN list : IsRoom(list[r])

PageInv ==
    /\ loaded \in [rooms : BOOLEAN, marks : BOOLEAN]
    /\ RoomForms(rooms)
    /\ IsEdit(edit)
    /\ turn # NoTurn \/ edit # NoEdit => loaded.rooms
    /\ loaded.rooms => active \in DOMAIN rooms

GhostInv == harmed \subseteq Misfortune /\ astray \subseteq {"rooms", "marks"}

FiniteInv == IsFiniteSet(marks) /\ IsFiniteSet(marked)

Shape == UsedInv /\ SentInv /\ PageInv /\ GhostInv /\ FiniteInv

\* Who holds which thread: a thread is made for one room and stays with it.
ClaimsOf(db, list, q, e) ==
    {<<db[r].thread, r>> : r \in DOMAIN db} \cup
    {<<list[r].thread, r>> : r \in DOMAIN list} \cup
    {<<q[i].row.thread, q[i].room>> : i \in {j \in DOMAIN q : q[j].kind = "room"}} \cup
    (IF e = NoEdit THEN {} ELSE {<<e.thread, e.room>>})

Claims == ClaimsOf(stored, rooms, sent, edit)

Owned ==
    /\ \A c, d \in Claims : c[1] = d[1] => c[2] = d[2]
    /\ \A c \in Claims : c[1] \in 1..used.threads /\ c[2] \in 1..used.threads

LEMMA OwnedNames ==
    ASSUME Owned
    PROVE  /\ \A r \in DOMAIN stored : r \in 1..used.threads /\ stored[r].thread \in 1..used.threads
           /\ \A r \in DOMAIN rooms : r \in 1..used.threads /\ rooms[r].thread \in 1..used.threads
<1>1. \A r \in DOMAIN stored : <<stored[r].thread, r>> \in Claims
  BY DEF Claims, ClaimsOf
<1>2. \A r \in DOMAIN rooms : <<rooms[r].thread, r>> \in Claims
  BY DEF Claims, ClaimsOf
<1>3. QED BY <1>1, <1>2 DEF Owned

LEMMA FiniteRooms ==
    ASSUME Owned, UsedInv
    PROVE  IsFiniteSet(DOMAIN rooms)
<1>1. used.threads \in Int /\ DOMAIN rooms \in SUBSET (1..used.threads)
  BY OwnedNames DEF UsedInv, UsedNames
<1>2. QED BY <1>1, FS_Interval, FS_Subset

\* The rooms of a list keep their rows while messages come and go.
SameRows(list, list2) ==
    /\ DOMAIN list2 = DOMAIN list
    /\ \A r \in DOMAIN list : IsRoom(list2[r]) /\ SameRow(list2[r], list[r])

LEMMA SameRowsForms ==
    ASSUME NEW list, NEW list2, SameRows(list, list2)
    PROVE  RoomForms(list2) /\ \A r : AgreeOn(r, list, list2)
  BY DEF SameRows, RoomForms, AgreeOn, SameRow

LEMMA OpenedRows ==
    ASSUME NEW list, NEW r, RoomForms(list)
    PROVE  SameRows(list, Opened(list, r))
  BY DEF RoomForms, SameRows, IsRoom, SameRow, Opened

LEMMA MessagesRows ==
    ASSUME NEW list, NEW r, NEW messages, RoomForms(list)
    PROVE  SameRows(list, WithMessages(list, r, messages))
  BY DEF RoomForms, SameRows, IsRoom, SameRow, WithMessages

LEMMA AppendedRows ==
    ASSUME NEW list, NEW r, NEW added, RoomForms(list)
    PROVE  SameRows(list, Appended(list, r, added))
  BY MessagesRows DEF Appended

LEMMA TitledRows ==
    ASSUME NEW list, NEW r \in DOMAIN list, NEW title, RoomForms(list)
    PROVE  LET list2 == [list EXCEPT ![r].title = title]
           IN  /\ DOMAIN list2 = DOMAIN list /\ RoomForms(list2)
               /\ list2[r].thread = list[r].thread /\ list2[r].title = title
               /\ \A x \in DOMAIN list \ {r} : list2[x] = list[x]
  BY DEF RoomForms, IsRoom

LEMMA EmptyRoomForm ==
    ASSUME NEW thread
    PROVE  /\ IsRoom(EmptyRoom(thread))
           /\ EmptyRoom(thread).thread = thread /\ EmptyRoom(thread).title = "new"
  BY DEF IsRoom, EmptyRoom

LEMMA PostForms ==
    ASSUME SentInv, UsedInv, NEW p, IsList(p), Post(p),
           used'.threads \in Nat, used.threads <= used'.threads,
           \A j \in DOMAIN p : /\ p[j].kind \in Kinds
                               /\ RoomWrite(p[j]) => p[j].room \in 1..used'.threads
    PROVE  SentInv'
<1>1. IsList(sent) /\ sent' = sent \o p /\ Len(sent) + Len(p) <= MaxSent
  BY DEF SentInv, Post
<1>2. /\ IsList(sent') /\ Len(sent') <= MaxSent
      /\ \A i \in DOMAIN sent : i \in DOMAIN sent' /\ sent'[i] = sent[i]
      /\ \A j \in DOMAIN p : sent'[Len(sent) + j] = p[j]
      /\ \A i \in DOMAIN sent' : i \in DOMAIN sent \/ \E j \in DOMAIN p : i = Len(sent) + j
  <2>1. /\ IsList(sent \o p)
        /\ Len(sent \o p) = Len(sent) + Len(p)
        /\ \A i \in DOMAIN sent : i \in DOMAIN (sent \o p) /\ (sent \o p)[i] = sent[i]
        /\ \A j \in DOMAIN p : /\ Len(sent) + j \in DOMAIN (sent \o p)
                               /\ (sent \o p)[Len(sent) + j] = p[j]
        /\ \A i \in DOMAIN (sent \o p) :
              \/ i \in DOMAIN sent
              \/ \E j \in DOMAIN p : i = Len(sent) + j
    BY ONLY IsList(p), <1>1, ConcatList, Zenon
  <2>2. QED BY <1>1, <2>1
<1>3. ASSUME NEW i \in DOMAIN sent'
      PROVE  /\ sent'[i].kind \in Kinds
             /\ RoomWrite(sent'[i]) => sent'[i].room \in 1..used'.threads
  <2>1. CASE i \in DOMAIN sent
    <3>1. sent'[i] = sent[i] /\ sent[i].kind \in Kinds
      BY <1>2, <2>1 DEF SentInv
    <3>2. RoomWrite(sent[i]) => sent[i].room \in 1..used.threads
      BY <2>1 DEF SentInv
    <3>3. QED BY <3>1, <3>2 DEF UsedInv, UsedNames
  <2>2. CASE i \notin DOMAIN sent
    BY <1>2, <2>2
  <2>3. QED BY <2>1, <2>2
<1>4. QED BY <1>2, <1>3 DEF SentInv

-----------------------------------------------------------------------------
(* The inductive invariant.                                                 *)

Circulating == marks \cup marked \cup MarksIn(sent)

\* A bookmark is the only one with its id, wherever it is.
MarkNames ==
    /\ IdsDiffer(Circulating)
    /\ \A m \in Circulating : m.id \in 1..used.marks

OnePerPlace(S) == \A m, n \in S : SamePlace(m, n) => m = n

MarkPlaces ==
    /\ OnePerPlace(marks) /\ OnePerPlace(marked)
    /\ \A m \in marked : m.room \in DOMAIN stored

\* A list that holds the rooms the page has, and perhaps others.
Extends(list) ==
    \A r \in Thread : r \in DOMAIN rooms => r \in DOMAIN list /\ SameRow(list[r], rooms[r])

\* Before the list is loaded the server may know of rooms that this browser has no
\* copy of, or that were made meanwhile.
RoomsInv == "rooms" \notin astray =>
    IF loaded.rooms THEN RoomsInStep(sent, stored, rooms)
    ELSE \E list : RoomsInStep(sent, stored, list) /\ Extends(list)

\* The bookmarks that the server deleted with its part of an edit, and the page
\* will drop with its own.
Cut == {m \in marks : edit.phase = "done" /\ m.room = edit.room /\ m.index >= edit.left}

\* A room that is being deleted is not on the page.
RoomsGone(q, known, list) ==
    \A i \in DOMAIN q : q[i].kind = "dropRoom" => known /\ q[i].room \notin DOMAIN list

MarksInv == loaded.marks /\ "marks" \notin astray =>
    /\ MarksInStep(sent, marked, marks, Cut)
    /\ RoomsGone(sent, loaded.rooms, rooms)

Inv == Shape /\ Owned /\ MarkNames /\ MarkPlaces /\ RoomsInv /\ MarksInv

-----------------------------------------------------------------------------
(* What a step of the page does: it posts the writes p, and makes at most    *)
(* one thread, for room x.                                                  *)

NamesStep(x) ==
    /\ UsedInv' /\ used'.marks = used.marks
    /\ \/ used'.threads = used.threads
       \/ used'.threads = Fresh /\ x \in 1..Fresh
    /\ \A r \in DOMAIN rooms' :
          \/ <<rooms'[r].thread, r>> \in Claims
          \/ used'.threads = Fresh /\ rooms'[r].thread = Fresh /\ r = x
    /\ edit' = NoEdit \/ <<edit'.thread, edit'.room>> \in Claims

RoomsStep(p) ==
    /\ \A j \in DOMAIN p : RoomWrite(p[j]) =>
          /\ Agrees(p[j], rooms')
          /\ p[j].room \in DOMAIN rooms \cup DOMAIN rooms'
    /\ \A r \in Thread : (\A j \in DOMAIN p : ~ About(p[j], r)) => AgreeOn(r, rooms, rooms')
    /\ DOMAIN rooms' \subseteq DOMAIN rooms \cup {Fresh}

MarksStep(p) ==
    /\ marks' \subseteq marks
    /\ \A m \in marks \ marks' : \E j \in DOMAIN p : p[j] = DropMark(m)
    /\ \A j \in DOMAIN p :
          /\ p[j].kind \in Kinds \ {"mark"}
          /\ p[j].kind = "dropMark" => p[j].mark \in marks \ marks'
          /\ p[j].kind = "dropRoom" =>
                 loaded.rooms /\ (loaded.marks => \A m \in marks' : m.room # p[j].room)
    /\ loaded.marks /\ "marks" \notin astray' => \A m \in marks' : m \in Cut => m \in Cut'

Posts(p, x) ==
    /\ IsList(p) /\ Post(p)
    /\ UNCHANGED <<stored, marked, loaded>>
    /\ PageInv' /\ GhostInv' /\ astray \subseteq astray'
    /\ loaded.rooms \/ \A j \in DOMAIN p : ~ RoomWrite(p[j])
    /\ NamesStep(x) /\ RoomsStep(p) /\ MarksStep(p)

LEMMA OwnedStep ==
    ASSUME Owned, UsedInv, NEW x,
           \/ Claims' \subseteq Claims /\ used'.threads = used.threads
           \/ /\ Claims' \subseteq Claims \cup {<<Fresh, x>>}
              /\ used'.threads = Fresh /\ x \in 1..Fresh
    PROVE  Owned'
<1>0. used.threads \in Nat /\ Fresh = used.threads + 1
  BY DEF UsedInv, UsedNames, Fresh
<1>1. CASE Claims' \subseteq Claims /\ used'.threads = used.threads
  BY <1>0, <1>1 DEF Owned
<1>2. CASE /\ Claims' \subseteq Claims \cup {<<Fresh, x>>}
           /\ used'.threads = Fresh /\ x \in 1..Fresh
  <2>1. PICK S : S = Claims /\ \A c \in S : c[1] \in 1..used.threads /\ c[2] \in 1..used.threads
    BY DEF Owned
  <2>2. PICK f : f = Fresh /\ f \in Nat /\ f \notin 1..used.threads
    BY <1>0
  <2>3. PICK c0 : c0 = <<f, x>> /\ c0[1] = f /\ c0[2] = x
    <3>1. <<f, x>>[1] = f /\ <<f, x>>[2] = x
      OBVIOUS
    <3>2. QED BY <3>1, Zenon
  <2>4. \A c \in Claims' : c \in S \/ c = c0
    BY <1>2, <2>1, <2>2, <2>3
  <2>5. \A c, d \in Claims' : c[1] = d[1] => c[2] = d[2]
    <3>1. \A c, d \in S : c[1] = d[1] => c[2] = d[2]
      BY <2>1 DEF Owned
    <3>2. QED BY <2>1, <2>2, <2>3, <2>4, <3>1
  <2>6. \A c \in S : c[1] \in 1..Fresh /\ c[2] \in 1..Fresh
    BY <1>0, <2>1
  <2>7. \A c \in Claims' : c[1] \in 1..used'.threads /\ c[2] \in 1..used'.threads
    BY <1>0, <1>2, <2>2, <2>3, <2>4, <2>6
  <2>8. QED BY <2>5, <2>7 DEF Owned
<1>3. QED BY <1>1, <1>2

LEMMA Posted ==
    ASSUME NEW p, IsList(sent), IsList(p), Post(p)
    PROVE  /\ \A i \in DOMAIN sent : i \in DOMAIN sent' /\ sent'[i] = sent[i]
           /\ \A j \in DOMAIN p : Len(sent) + j \in DOMAIN sent' /\ sent'[Len(sent) + j] = p[j]
           /\ \A i \in DOMAIN sent' :
                 \/ i \in DOMAIN sent /\ sent'[i] = sent[i]
                 \/ \E j \in DOMAIN p : sent'[i] = p[j]
<1>1. sent' = sent \o p
  BY DEF Post
<1>2. /\ IsList(sent \o p)
      /\ Len(sent \o p) = Len(sent) + Len(p)
      /\ \A i \in DOMAIN sent : i \in DOMAIN (sent \o p) /\ (sent \o p)[i] = sent[i]
      /\ \A j \in DOMAIN p : /\ Len(sent) + j \in DOMAIN (sent \o p)
                             /\ (sent \o p)[Len(sent) + j] = p[j]
      /\ \A i \in DOMAIN (sent \o p) :
            \/ i \in DOMAIN sent
            \/ \E j \in DOMAIN p : i = Len(sent) + j
  BY ONLY IsList(sent), IsList(p), ConcatList, Zenon
<1>3. QED BY <1>1, <1>2

LEMMA PostedClaims ==
    ASSUME Shape, NEW p, NEW x, IsList(p), Post(p), stored' = stored,
           NamesStep(x), \A j \in DOMAIN p : RoomWrite(p[j]) => Agrees(p[j], rooms')
    PROVE  \/ Claims' \subseteq Claims /\ used'.threads = used.threads
           \/ /\ Claims' \subseteq Claims \cup {<<Fresh, x>>}
              /\ used'.threads = Fresh /\ x \in 1..Fresh
<1> DEFINE Named(c) == c \in Claims \/ (used'.threads = Fresh /\ c = <<Fresh, x>>)
<1>1. \A r \in DOMAIN stored' : Named(<<stored'[r].thread, r>>)
  BY DEF Claims, ClaimsOf
<1>2. \A r \in DOMAIN rooms' : Named(<<rooms'[r].thread, r>>)
  BY DEF NamesStep
<1>3. ASSUME NEW i \in DOMAIN sent', sent'[i].kind = "room"
      PROVE  Named(<<sent'[i].row.thread, sent'[i].room>>)
  <2>1. CASE i \in DOMAIN sent /\ sent'[i] = sent[i]
    BY <1>3, <2>1 DEF Claims, ClaimsOf
  <2>2. CASE \E j \in DOMAIN p : sent'[i] = p[j]
    <3>1. PICK j \in DOMAIN p : sent'[i] = p[j]
      BY <2>2
    <3>2. /\ sent'[i].room \in DOMAIN rooms'
          /\ sent'[i].row.thread = rooms'[sent'[i].room].thread
      BY <1>3, <3>1 DEF RoomWrite, Agrees, SameRow
    <3>3. QED BY <1>2, <3>2
  <2>3. QED BY <2>1, <2>2, Posted DEF Shape, SentInv
<1>4. edit' # NoEdit => Named(<<edit'.thread, edit'.room>>)
  BY DEF NamesStep
<1>5. \A c \in Claims' : Named(c)
  <2> SUFFICES ASSUME NEW c \in Claims' PROVE Named(c)
    OBVIOUS
  <2>1. \/ \E r \in DOMAIN stored' : c = <<stored'[r].thread, r>>
        \/ \E r \in DOMAIN rooms' : c = <<rooms'[r].thread, r>>
        \/ \E i \in DOMAIN sent' : sent'[i].kind = "room" /\ c = <<sent'[i].row.thread, sent'[i].room>>
        \/ edit' # NoEdit /\ c = <<edit'.thread, edit'.room>>
    BY DEF Claims, ClaimsOf
  <2>2. CASE \E r \in DOMAIN stored' : c = <<stored'[r].thread, r>>
    BY <1>1, <2>2
  <2>3. CASE \E r \in DOMAIN rooms' : c = <<rooms'[r].thread, r>>
    BY <1>2, <2>3
  <2>4. CASE \E i \in DOMAIN sent' :
                sent'[i].kind = "room" /\ c = <<sent'[i].row.thread, sent'[i].room>>
    BY <1>3, <2>4
  <2>5. CASE edit' # NoEdit /\ c = <<edit'.thread, edit'.room>>
    BY <1>4, <2>5
  <2>6. QED BY ONLY <2>1, <2>2, <2>3, <2>4, <2>5
<1>6. CASE used'.threads = used.threads
  <2>1. used'.threads # Fresh
    BY <1>6 DEF Shape, UsedInv, UsedNames, Fresh
  <2>2. QED BY <1>5, <1>6, <2>1
<1>7. CASE used'.threads = Fresh /\ x \in 1..Fresh
  <2>1. Claims' \subseteq Claims \cup {<<Fresh, x>>}
    BY <1>5
  <2>2. QED BY <1>7, <2>1
<1>8. QED BY <1>6, <1>7 DEF NamesStep

LEMMA RoomsPostedInv ==
    ASSUME BoundsAssumption, Inv, NEW p, IsList(p), Post(p), RoomsStep(p),
           stored' = stored, loaded'.rooms = loaded.rooms,
           loaded.rooms \/ \A j \in DOMAIN p : ~ RoomWrite(p[j]),
           "rooms" \in astray => "rooms" \in astray'
    PROVE  RoomsInv'
<1>1. IsList(sent)
  BY DEF Inv, Shape, SentInv
<1>2. used.threads \in Nat /\ used.threads <= MaxThreads
  BY DEF Inv, Shape, UsedInv, UsedNames
<1>3. \A i \in DOMAIN sent : RoomWrite(sent[i]) => sent[i].room \in Thread
  BY <1>2 DEF Inv, Shape, SentInv, Thread, BoundsAssumption
<1>4. sent' = sent \o p
  BY DEF Post
<1>5. ASSUME "rooms" \notin astray', loaded.rooms
      PROVE  RoomsInStep(sent', stored', rooms')
  <2>1. RoomsInStep(sent, stored, rooms)
    BY <1>5 DEF Inv, RoomsInv
  <2>2. RoomsInStep(sent \o p, stored, rooms')
    BY <1>1, <1>3, <2>1, RoomsPosted DEF RoomsStep
  <2>3. QED BY <1>4, <2>2
<1>6. ASSUME "rooms" \notin astray', ~ loaded.rooms
      PROVE  \E list : RoomsInStep(sent', stored', list) /\ Extends(list)'
  <2>1. PICK list : RoomsInStep(sent, stored, list) /\ Extends(list)
    BY <1>6 DEF Inv, RoomsInv
  <2>2. \A j \in DOMAIN p : ~ RoomWrite(p[j])
    BY <1>6
  <2>3. \A r \in Thread : AgreeOn(r, list, list) /\ AgreeOn(r, rooms, rooms')
    BY <2>2 DEF RoomsStep, AgreeOn, SameRow, About
  <2>4. RoomsInStep(sent \o p, stored, list)
    BY <1>1, <1>3, <2>1, <2>2, <2>3, RoomsPosted
  <2>5. Extends(list)'
    BY <2>1, <2>3 DEF Extends, AgreeOn, SameRow
  <2>6. QED BY <1>4, <2>4, <2>5
<1>7. QED BY <1>5, <1>6 DEF RoomsInv

LEMMA PostsKeepInv ==
    ASSUME BoundsAssumption, Inv, NEW p, NEW x, Posts(p, x)
    PROVE  Inv'
<1>1. /\ Shape /\ Owned /\ IsList(sent) /\ IsList(p) /\ Post(p) /\ UsedInv
      /\ stored' = stored /\ marked' = marked /\ loaded' = loaded
      /\ \A j \in DOMAIN p : p[j].kind \in Kinds \ {"mark"}
      /\ NamesStep(x) /\ RoomsStep(p) /\ MarksStep(p)
  BY DEF Inv, Posts, Shape, SentInv, MarksStep
<1>2. Owned'
  <2>1. \A j \in DOMAIN p : RoomWrite(p[j]) => Agrees(p[j], rooms')
    BY <1>1 DEF RoomsStep
  <2>2. \/ Claims' \subseteq Claims /\ used'.threads = used.threads
        \/ /\ Claims' \subseteq Claims \cup {<<Fresh, x>>}
           /\ used'.threads = Fresh /\ x \in 1..Fresh
    BY <1>1, <2>1, PostedClaims
  <2>3. QED BY <1>1, <2>2, OwnedStep
<1>3. /\ used.threads \in Nat /\ used'.threads \in Nat /\ used.threads <= used'.threads
      /\ Fresh = used.threads + 1 /\ used.threads <= MaxThreads
  BY <1>1 DEF NamesStep, UsedInv, UsedNames, Fresh
<1>4. DOMAIN rooms \subseteq 1..used.threads /\ DOMAIN rooms' \subseteq 1..used'.threads
  <2>1. \A r \in DOMAIN rooms : <<rooms[r].thread, r>> \in Claims
    BY DEF Claims, ClaimsOf
  <2>2. \A r \in DOMAIN rooms' : <<rooms'[r].thread, r>> \in Claims'
    BY DEF Claims, ClaimsOf
  <2>3. QED BY <1>1, <1>2, <2>1, <2>2 DEF Owned
<1>5. SentInv'
  <2>1. \A j \in DOMAIN p : /\ p[j].kind \in Kinds
                            /\ RoomWrite(p[j]) => p[j].room \in 1..used'.threads
    BY <1>1, <1>3, <1>4 DEF RoomsStep
  <2>2. QED BY <1>1, <1>3, <2>1, PostForms DEF Shape
<1>6. marks' \subseteq marks
  BY <1>1 DEF MarksStep
<1>7. Shape'
  <2>1. FiniteInv'
    BY <1>1, <1>6, FS_Subset DEF Shape, FiniteInv
  <2>2. UsedInv' /\ PageInv' /\ GhostInv'
    BY DEF Posts, NamesStep
  <2>3. QED BY <1>5, <2>1, <2>2 DEF Shape
<1>8. MarkNames'
  <2>1. MarksIn(sent') \subseteq MarksIn(sent) \cup marks
    <3> SUFFICES ASSUME NEW i \in DOMAIN sent', MarkWrite(sent'[i])
                 PROVE  sent'[i].mark \in MarksIn(sent) \cup marks
      BY DEF MarksIn
    <3>1. CASE i \in DOMAIN sent /\ sent'[i] = sent[i]
      BY <3>1 DEF MarksIn
    <3>2. CASE \E j \in DOMAIN p : sent'[i] = p[j]
      BY <3>2 DEF MarkWrite, Posts, MarksStep
    <3>3. QED BY <1>1, <3>1, <3>2, Posted
  <2>2. Circulating' \subseteq Circulating
    BY <1>1, <1>6, <2>1 DEF Circulating
  <2>3. used'.marks = used.marks
    BY <1>1 DEF NamesStep
  <2>4. QED BY <2>2, <2>3 DEF Inv, MarkNames, IdsDiffer
<1>9. MarkPlaces'
  BY <1>1, <1>6 DEF Inv, MarkPlaces, OnePerPlace
<1>10. RoomsInv'
  BY <1>1, RoomsPostedInv DEF Posts
<1>11. MarksInv'
  <2> SUFFICES ASSUME loaded.marks, "marks" \notin astray'
               PROVE  /\ MarksInStep(sent', marked, marks', Cut')
                      /\ RoomsGone(sent', loaded.rooms, rooms')
    BY <1>1 DEF MarksInv
  <2>1. MarksInStep(sent, marked, marks, Cut) /\ RoomsGone(sent, loaded.rooms, rooms)
    BY DEF Inv, MarksInv, Posts
  <2>2. MarksInStep(sent \o p, marked, marks', Cut')
    BY <1>1, <2>1, MarksDropped DEF MarksStep
  <2>3. RoomsGone(sent', loaded.rooms, rooms')
    <3> SUFFICES ASSUME NEW i \in DOMAIN sent', sent'[i].kind = "dropRoom"
                 PROVE  loaded.rooms /\ sent'[i].room \notin DOMAIN rooms'
      BY DEF RoomsGone
    <3>1. CASE i \in DOMAIN sent /\ sent'[i] = sent[i]
      <4>1. loaded.rooms /\ sent[i].room \notin DOMAIN rooms
        BY <2>1, <3>1 DEF RoomsGone
      <4>2. sent[i].room \in 1..used.threads
        BY <3>1, <1>1 DEF Shape, SentInv, RoomWrite
      <4>3. sent[i].room # Fresh
        BY <1>3, <4>2
      <4>4. QED BY <1>1, <3>1, <4>1, <4>3 DEF RoomsStep
    <3>2. CASE \E j \in DOMAIN p : sent'[i] = p[j]
      <4>1. PICK j \in DOMAIN p : sent'[i] = p[j]
        BY <3>2
      <4>2. RoomWrite(p[j]) /\ p[j].kind = "dropRoom" /\ p[j].kind # "room"
        BY <4>1 DEF RoomWrite
      <4>3. Agrees(p[j], rooms') /\ loaded.rooms
        BY <1>1, <4>2 DEF RoomsStep, MarksStep
      <4>4. QED BY <4>1, <4>2, <4>3 DEF Agrees
    <3>3. QED BY <1>1, <3>1, <3>2, Posted
  <2>4. QED BY <1>1, <2>2, <2>3 DEF Post
<1>12. QED BY <1>2, <1>7, <1>8, <1>9, <1>10, <1>11 DEF Inv

\* A step of the page that registers no bookmark.
Posting == \E p, x : Posts(p, x)

LEMMA PostingKeepsInv ==
    ASSUME BoundsAssumption, Inv, Posting
    PROVE  Inv'
<1>1. PICK p, x : Posts(p, x)
  BY DEF Posting
<1>2. QED BY <1>1, PostsKeepInv

\* A step that posts nothing, and changes messages at most.
Quiet ==
    /\ UNCHANGED <<stored, marked, sent, marks, loaded>>
    /\ UsedInv' /\ used'.threads = used.threads /\ used'.marks = used.marks
    /\ PageInv' /\ GhostInv' /\ astray \subseteq astray'
    /\ SameRows(rooms, rooms')
    /\ edit' = NoEdit \/ <<edit'.thread, edit'.room>> \in Claims
    /\ edit' = edit \/ edit.phase # "done" \/ "marks" \in astray'

LEMMA QuietKeepsInv ==
    ASSUME BoundsAssumption, Inv, Quiet
    PROVE  Inv'
<1> DEFINE p == <<>>
<1>1. IsList(p) /\ DOMAIN p = {}
  BY EmptyList, ListFacts
<1>2. Post(p)
  <2>1. IsList(sent) /\ Len(sent) <= MaxSent /\ Len(sent) \in Nat
    BY ListFacts DEF Inv, Shape, SentInv
  <2>2. sent \o p = sent
    <3>1. sent \in Seq(Range(sent))
      BY <2>1 DEF IsList
    <3>2. QED BY <3>1
  <2>3. QED BY <2>1, <2>2, EmptyList DEF Post, Quiet, BoundsAssumption
<1> HIDE DEF p
<1>3. \A r : AgreeOn(r, rooms, rooms')
  BY SameRowsForms DEF Quiet
<1>4. NamesStep(1)
  <2>1. \A r \in DOMAIN rooms : <<rooms[r].thread, r>> \in Claims
    BY DEF Claims, ClaimsOf
  <2>2. \A r \in DOMAIN rooms' : <<rooms'[r].thread, r>> \in Claims
    BY <2>1 DEF Quiet, SameRows, SameRow
  <2>3. QED BY <2>2 DEF NamesStep, Quiet
<1>5. RoomsStep(p)
  <2>1. DOMAIN rooms' = DOMAIN rooms
    BY DEF Quiet, SameRows
  <2>2. QED BY <1>1, <1>3, <2>1 DEF RoomsStep
<1>6. MarksStep(p)
  <2>1. "marks" \notin astray' => \A m \in marks' : m \in Cut => m \in Cut'
    <3>1. CASE edit' = edit
      BY <3>1 DEF Quiet, Cut
    <3>2. CASE edit.phase # "done" \/ "marks" \in astray'
      BY <3>2 DEF Cut
    <3>3. QED BY <3>1, <3>2 DEF Quiet
  <2>2. QED BY <1>1, <2>1 DEF MarksStep, Quiet
<1>7. Posts(p, 1)
  BY <1>1, <1>2, <1>4, <1>5, <1>6 DEF Posts, Quiet
<1>8. QED BY <1>7, PostsKeepInv

LEMMA SameRowsSelf ==
    ASSUME NEW list, RoomForms(list)
    PROVE  SameRows(list, list)
  BY DEF RoomForms, SameRows, SameRow

\* The counters spent by a step that names no thread and no bookmark.
Spent ==
    \/ used' = used
    \/ Used("faults") \/ Used("changes") \/ Used("reloads")
    \/ used' = [used EXCEPT !.faults = @ + 1, !.attempts = @ + 1]
    \/ /\ used.turns < MaxTurns
       /\ \/ used' = [used EXCEPT !.turns = @ + 1, !.attempts = @ + 1]
          \/ used' = [used EXCEPT !.turns = @ + 1, !.attempts = @ + 1, !.sends = @ + 1]

LEMMA SpentForms ==
    ASSUME BoundsAssumption, UsedInv, Spent
    PROVE  UsedInv' /\ used'.threads = used.threads /\ used'.marks = used.marks
<1>1. MaxTurns \in Nat /\ used \in UsedNames
  BY DEF BoundsAssumption, UsedInv
<1>2. CASE used' = used
  BY <1>2 DEF UsedInv
<1>3. CASE Used("faults") \/ Used("changes") \/ Used("reloads")
  BY <1>1, <1>3 DEF UsedInv, UsedNames, Used
<1>4. CASE used' = [used EXCEPT !.faults = @ + 1, !.attempts = @ + 1]
  <2>1. used' = [threads |-> used.threads, turns |-> used.turns, sends |-> used.sends,
              attempts |-> used.attempts + 1, marks |-> used.marks, changes |-> used.changes,
              reloads |-> used.reloads, faults |-> used.faults + 1]
    BY <1>1, <1>4 DEF UsedNames
  <2>2. QED BY <1>1, <2>1 DEF UsedInv, UsedNames
<1>5. CASE /\ used.turns < MaxTurns
           /\ used' = [used EXCEPT !.turns = @ + 1, !.attempts = @ + 1]
  <2>1. used' = [threads |-> used.threads, turns |-> used.turns + 1, sends |-> used.sends,
              attempts |-> used.attempts + 1, marks |-> used.marks, changes |-> used.changes,
              reloads |-> used.reloads, faults |-> used.faults]
    BY <1>1, <1>5 DEF UsedNames
  <2>2. QED BY <1>1, <1>5, <2>1 DEF UsedInv, UsedNames
<1>6. CASE /\ used.turns < MaxTurns
           /\ used' = [used EXCEPT !.turns = @ + 1, !.attempts = @ + 1, !.sends = @ + 1]
  <2>1. used' = [threads |-> used.threads, turns |-> used.turns + 1, sends |-> used.sends + 1,
              attempts |-> used.attempts + 1, marks |-> used.marks, changes |-> used.changes,
              reloads |-> used.reloads, faults |-> used.faults]
    BY <1>1, <1>6 DEF UsedNames
  <2>2. QED BY <1>1, <1>6, <2>1 DEF UsedInv, UsedNames
<1>7. QED BY <1>2, <1>3, <1>4, <1>5, <1>6 DEF Spent

LEMMA NewThread ==
    ASSUME UsedInv, Fresh <= MaxThreads, Used("threads")
    PROVE  UsedInv' /\ used'.threads = Fresh /\ used'.marks = used.marks
  BY DEF UsedInv, UsedNames, Used, Fresh

-----------------------------------------------------------------------------
(* Turns, messages and the first half of an edit: steps without writes.      *)

\* What is left to show of a step that leaves the edit and the room list's rows.
LEMMA QuietStep ==
    ASSUME BoundsAssumption, Inv, Spent,
           UNCHANGED <<stored, marked, sent, marks, loaded, astray, edit>>,
           turn' # NoTurn => loaded.rooms,
           active' = active \/ active' \in DOMAIN rooms,
           SameRows(rooms, rooms'), harmed' \subseteq Misfortune
    PROVE  Quiet
<1>1. UsedInv' /\ used'.threads = used.threads /\ used'.marks = used.marks
  BY SpentForms DEF Inv, Shape
<1>2. RoomForms(rooms')
  BY SameRowsForms
<1>3. PageInv'
  BY <1>2 DEF Inv, Shape, PageInv, SameRows
<1>4. GhostInv'
  BY DEF Inv, Shape, GhostInv
<1>5. edit' = NoEdit \/ <<edit'.thread, edit'.room>> \in Claims
  BY DEF Claims, ClaimsOf
<1>6. QED BY <1>1, <1>3, <1>4, <1>5 DEF Quiet

LEMMA HarmForms ==
    ASSUME Inv, NEW kinds, Harm(kinds), kinds \subseteq Misfortune
    PROVE  harmed' \subseteq Misfortune
  BY DEF Inv, Shape, GhostInv, Harm

LEMMA EndTurnRows ==
    ASSUME Inv, NEW shown, EndTurn(shown)
    PROVE  turn' = NoTurn /\ SameRows(rooms, rooms') /\ harmed' \subseteq Misfortune
<1>1. SameRows(rooms, rooms')
  BY AppendedRows DEF Inv, Shape, PageInv, EndTurn
<1>2. harmed' \subseteq Misfortune
  BY HarmForms DEF EndTurn, Misfortune
<1>3. QED BY <1>1, <1>2 DEF EndTurn

LEMMA OverlapForms ==
    /\ Overlap \cup Early \subseteq Misfortune
    /\ \A r : Reopened(r) \subseteq Misfortune
  BY DEF Overlap, Early, Reopened, Misfortune

LEMMA SwitchRoomQuiet ==
    ASSUME BoundsAssumption, Inv, NEW r \in DOMAIN rooms, SwitchRoom(r)
    PROVE  Quiet
<1>1. SameRows(rooms, rooms')
  BY OpenedRows DEF SwitchRoom, Inv, Shape, PageInv
<1>2. harmed' \subseteq Misfortune
  BY HarmForms, OverlapForms DEF SwitchRoom
<1>3. QED BY <1>1, <1>2, QuietStep DEF SwitchRoom, Spent, server, Idle

LEMMA RetryErrorQuiet ==
    ASSUME BoundsAssumption, Inv, NEW bubble, RetryError(bubble)
    PROVE  Quiet
<1>1. SameRows(rooms, rooms')
  BY MessagesRows DEF RetryError, Inv, Shape, PageInv
<1>2. harmed' \subseteq Misfortune
  BY HarmForms, OverlapForms DEF RetryError, Misfortune
<1>3. Spent
  BY DEF RetryError, StartTurn, Spent
<1>4. QED BY <1>1, <1>2, <1>3, QuietStep DEF RetryError, Idle, server

LEMMA TurnStoresQuiet ==
    ASSUME BoundsAssumption, Inv, StoreQuestion \/ HearToken \/ StoreAnswer
    PROVE  Quiet
<1>1. SameRows(rooms, rooms') /\ UNCHANGED <<edit, used, astray, stored, marked, sent>>
      /\ UNCHANGED <<marks, loaded, active>>
  BY SameRowsSelf DEF Inv, Shape, PageInv, StoreQuestion, HearToken, StoreAnswer, page, server,
                      ghosts
<1>2. loaded.rooms
  <2>1. turn # NoTurn
    <3>1. turn.phase \in {"asking", "answering", "answered"}
      BY DEF StoreQuestion, HearToken, StoreAnswer
    <3>2. QED BY <3>1 DEF NoTurn
  <2>2. QED BY <2>1 DEF Inv, Shape, PageInv
<1>3. harmed' \subseteq Misfortune
  <2>1. CASE StoreQuestion
    BY <2>1, HarmForms DEF StoreQuestion, Misfortune
  <2>2. CASE HearToken \/ StoreAnswer
    BY <2>2 DEF HearToken, StoreAnswer, ghosts, Inv, Shape, GhostInv
  <2>3. QED BY <2>1, <2>2
<1>4. QED BY <1>1, <1>2, <1>3, QuietStep DEF Spent

LEMMA TurnEndsQuiet ==
    ASSUME BoundsAssumption, Inv, CompleteTurn \/ ModelFails \/ StopTurn
    PROVE  Quiet
<1>1. \E shown : EndTurn(shown)
  BY DEF CompleteTurn, ModelFails, StopTurn
<1>2. turn' = NoTurn /\ SameRows(rooms, rooms') /\ harmed' \subseteq Misfortune
  BY <1>1, EndTurnRows
<1>3. /\ UNCHANGED <<edit, astray, stored, marked, sent>>
      /\ UNCHANGED <<marks, loaded, active>> /\ Spent
  BY DEF CompleteTurn, ModelFails, StopTurn, Fault, Spent, server
<1>4. QED BY <1>2, <1>3, QuietStep

LEMMA TurnFailsQuiet ==
    ASSUME BoundsAssumption, Inv, NEW retryable, TurnFails(retryable), turn # NoTurn
    PROVE  Quiet
<1>1. SameRows(rooms, rooms') /\ harmed' \subseteq Misfortune /\ Spent
  <2>1. CASE MayRetry(retryable)
    <3>1. harmed' \subseteq Misfortune
      BY <2>1, HarmForms DEF TurnFails, Misfortune
    <3>2. SameRows(rooms, rooms')
      BY <2>1, SameRowsSelf DEF TurnFails, Inv, Shape, PageInv
    <3>3. QED BY <2>1, <3>1, <3>2 DEF TurnFails, Spent
  <2>2. CASE ~ MayRetry(retryable)
    <3>1. \E shown : EndTurn(shown)
      BY <2>2 DEF TurnFails
    <3>2. QED BY <2>2, <3>1, EndTurnRows DEF TurnFails, Spent
  <2>3. QED BY <2>1, <2>2
<1>2. loaded.rooms
  BY DEF Inv, Shape, PageInv
<1>3. UNCHANGED <<edit, astray, stored, marked, sent>> /\ UNCHANGED <<marks, loaded, active>>
  BY DEF TurnFails, server
<1>4. QED BY <1>1, <1>2, <1>3, QuietStep

LEMMA RestoredRows ==
    ASSUME NEW list, NEW r \in DOMAIN list, NEW m, RoomForms(list)
    PROVE  SameRows(list, [list EXCEPT ![r].restoring = FALSE, ![r].messages = m])
<1> DEFINE one == [list EXCEPT ![r].restoring = FALSE]
           two == [one EXCEPT ![r].messages = m]
<1>1. RoomForms(one) /\ SameRows(list, one)
  <2>1. DOMAIN one = DOMAIN list /\ \A x \in DOMAIN list \ {r} : one[x] = list[x]
    OBVIOUS
  <2>2. one[r] = [list[r] EXCEPT !.restoring = FALSE]
    OBVIOUS
  <2>3. list[r] = [thread |-> list[r].thread, title |-> list[r].title,
                   messages |-> list[r].messages, restoring |-> list[r].restoring]
    BY DEF RoomForms, IsRoom
  <2>4. IsRoom(one[r]) /\ SameRow(one[r], list[r])
    BY <2>2, <2>3 DEF IsRoom, SameRow
  <2>5. SameRows(list, one)
    BY <2>1, <2>4 DEF SameRows, RoomForms, SameRow
  <2>6. QED BY <2>5, SameRowsForms
<1> HIDE DEF one
<1>2. SameRows(one, two)
  BY <1>1 DEF RoomForms, IsRoom, SameRows, SameRow
<1>3. SameRows(list, two)
  BY <1>1, <1>2 DEF SameRows, SameRow
<1>4. two = [list EXCEPT ![r].restoring = FALSE, ![r].messages = m]
  BY DEF one
<1>5. QED BY <1>3, <1>4

LEMMA RestoreQuiet ==
    ASSUME BoundsAssumption, Inv, NEW r, RestoreMessages(r) \/ RestoreFails(r), r \in DOMAIN rooms
    PROVE  Quiet
<1>1. SameRows(rooms, rooms')
  <2>1. RoomForms(rooms)
    BY DEF Inv, Shape, PageInv
  <2>2. PICK m : rooms' = [rooms EXCEPT ![r].restoring = FALSE, ![r].messages = m]
    BY DEF RestoreMessages, RestoreFails
  <2>3. QED BY <2>1, <2>2, RestoredRows
<1>2. UNCHANGED <<edit, astray, stored, marked, sent, turn>> /\ UNCHANGED <<marks, loaded, active>>
  BY DEF RestoreMessages, RestoreFails, server, ghosts
<1>3. Spent
  BY DEF RestoreMessages, RestoreFails, Fault, Spent
<1>4. harmed' \subseteq Misfortune
  <2>1. CASE RestoreMessages(r)
    BY <2>1 DEF RestoreMessages, ghosts, Inv, Shape, GhostInv
  <2>2. CASE RestoreFails(r)
    BY <2>2, HarmForms DEF RestoreFails, Misfortune
  <2>3. QED BY <2>1, <2>2
<1>5. turn' # NoTurn => loaded.rooms
  BY <1>2 DEF Inv, Shape, PageInv
<1>6. QED BY <1>1, <1>2, <1>3, <1>4, <1>5, QuietStep

LEMMA StutterQuiet ==
    ASSUME BoundsAssumption, Inv, UNCHANGED vars
    PROVE  Quiet
<1>1. /\ UNCHANGED <<edit, astray, stored, marked, sent, turn>>
      /\ UNCHANGED <<marks, loaded, active, used, rooms, harmed>>
  BY DEF vars, server, page, ghosts
<1>2. SameRows(rooms, rooms')
  BY <1>1, SameRowsSelf DEF Inv, Shape, PageInv
<1>3. turn' # NoTurn => loaded.rooms
  BY <1>1 DEF Inv, Shape, PageInv
<1>4. QED BY <1>1, <1>2, <1>3, QuietStep DEF Spent, Inv, Shape, GhostInv

\* The first half of an edit is asked of the server, or is given up.
LEMMA SubmitEditQuiet ==
    ASSUME BoundsAssumption, Inv, NEW k, SubmitEdit(k)
    PROVE  Quiet
<1>1. /\ UNCHANGED <<astray, stored, marked, sent, turn>>
      /\ UNCHANGED <<marks, loaded, active, used, rooms>>
  BY DEF SubmitEdit, server, page
<1>2. loaded.rooms /\ turn = NoTurn /\ edit = NoEdit
  BY DEF SubmitEdit, Idle
<1>3. active \in DOMAIN rooms /\ RoomForms(rooms)
  BY <1>2 DEF Inv, Shape, PageInv
<1>4. PICK m, l : edit' = [phase |-> "asked", room |-> active, thread |-> rooms[active].thread,
                           k |-> k, messages |-> m, left |-> l]
  BY DEF SubmitEdit
<1>5. IsEdit(edit')
  BY <1>4 DEF IsEdit
<1>6. <<edit'.thread, edit'.room>> \in Claims
  <2>1. <<rooms[active].thread, active>> \in Claims
    BY <1>3 DEF Claims, ClaimsOf
  <2>2. QED BY <1>4, <2>1
<1>7. GhostInv'
  BY <1>1, HarmForms, OverlapForms DEF SubmitEdit, GhostInv, Inv, Shape
<1>8. PageInv'
  BY <1>1, <1>2, <1>3, <1>5 DEF Inv, Shape, PageInv
<1>9. UsedInv'
  BY <1>1 DEF Inv, Shape, UsedInv
<1>10. SameRows(rooms, rooms')
  BY <1>1, <1>3, SameRowsSelf
<1>11. edit.phase # "done"
  BY <1>2 DEF NoEdit
<1>12. QED BY <1>1, <1>6, <1>7, <1>8, <1>9, <1>10, <1>11 DEF Quiet

LEMMA EditFailsQuiet ==
    ASSUME BoundsAssumption, Inv, EditFails
    PROVE  Quiet
<1>1. /\ UNCHANGED <<stored, marked, sent, turn>> /\ edit' = NoEdit
      /\ UNCHANGED <<marks, loaded, active, rooms>> /\ Spent
  BY DEF EditFails, server, page, Fault, Spent
<1>2. UsedInv' /\ used'.threads = used.threads /\ used'.marks = used.marks
  BY <1>1, SpentForms DEF Inv, Shape
<1>3. SameRows(rooms, rooms')
  BY <1>1, SameRowsSelf DEF Inv, Shape, PageInv
<1>4. PageInv'
  BY <1>1 DEF Inv, Shape, PageInv, IsEdit
<1>5. harmed' \subseteq Misfortune
  BY HarmForms DEF EditFails, Misfortune
<1>6. GhostInv' /\ astray \subseteq astray' /\ (edit.phase = "done" => "marks" \in astray')
  BY <1>5 DEF EditFails, GhostInv, Inv, Shape
<1>7. QED BY <1>1, <1>2, <1>3, <1>4, <1>6 DEF Quiet

-----------------------------------------------------------------------------
(* Steps that post writes.                                                  *)

Holds(q, x) == \E i \in DOMAIN q : q[i] = x

LEMMA HoldsConcat ==
    ASSUME NEW s, NEW t, IsList(s), IsList(t)
    PROVE  IsList(s \o t) /\ \A x : Holds(s \o t, x) <=> Holds(s, x) \/ Holds(t, x)
<1>1. /\ IsList(s \o t)
      /\ Len(s \o t) = Len(s) + Len(t)
      /\ \A i \in DOMAIN s : i \in DOMAIN (s \o t) /\ (s \o t)[i] = s[i]
      /\ \A j \in DOMAIN t : /\ Len(s) + j \in DOMAIN (s \o t)
                             /\ (s \o t)[Len(s) + j] = t[j]
      /\ \A i \in DOMAIN (s \o t) :
            \/ i \in DOMAIN s
            \/ \E j \in DOMAIN t : i = Len(s) + j
  BY ONLY IsList(s), IsList(t), ConcatList, Zenon
<1> DEFINE c == s \o t
<1>2. /\ \A i \in DOMAIN s : i \in DOMAIN c /\ c[i] = s[i]
      /\ \A j \in DOMAIN t : Len(s) + j \in DOMAIN c /\ c[Len(s) + j] = t[j]
      /\ \A i \in DOMAIN c : i \in DOMAIN s \/ \E j \in DOMAIN t : i = Len(s) + j
  BY ONLY <1>1, Zenon
<1> HIDE DEF c
<1>3. \A x : Holds(c, x) <=> Holds(s, x) \/ Holds(t, x)
  BY <1>2 DEF Holds
<1>4. QED BY <1>1, <1>3 DEF c

LEMMA HoldsOne == \A x, y : Holds(<<x>>, y) <=> y = x
  BY OneList, ListFacts DEF Holds

LEMMA HoldsNone == \A x : ~ Holds(<<>>, x)
  BY EmptyList, ListFacts DEF Holds

LEMMA HoldsDrops ==
    ASSUME NEW S, IsFiniteSet(S)
    PROVE  /\ IsList(Requests(DropMark, S))
           /\ \A x : Holds(Requests(DropMark, S), x) <=> \E m \in S : x = DropMark(m)
<1> DEFINE q == Requests(DropMark, S)
<1>1. /\ IsList(q)
      /\ \A i \in DOMAIN q : \E m \in S : q[i] = DropMark(m)
      /\ \A m \in S : \E i \in DOMAIN q : q[i] = DropMark(m)
  BY ONLY IsFiniteSet(S), DropMarkList, Zenon
<1> HIDE DEF q
<1>2. \A x : Holds(q, x) <=> \E m \in S : x = DropMark(m)
  BY <1>1 DEF Holds
<1>3. QED BY <1>1, <1>2 DEF q

LEMMA WriteForms ==
    /\ \A m : DropMark(m).kind = "dropMark" /\ DropMark(m).mark = m /\ ~ RoomWrite(DropMark(m))
    /\ \A m : UpsertMark(m).kind = "mark" /\ UpsertMark(m).mark = m /\ ~ RoomWrite(UpsertMark(m))
    /\ \A r : DropRoom(r).kind = "dropRoom" /\ DropRoom(r).room = r /\ RoomWrite(DropRoom(r))
    /\ \A r, room : LET w == UpsertRoom(r, room)
                    IN  /\ w.kind = "room" /\ w.room = r /\ RoomWrite(w)
                        /\ w.row.thread = room.thread /\ w.row.title = room.title
  BY DEF DropMark, UpsertMark, DropRoom, UpsertRoom, Row, RoomWrite

\* The writes of the page, by what each says.
LEMMA RoomsPosting ==
    ASSUME NEW p,
           \A x : Holds(p, x) /\ RoomWrite(x) =>
               \/ \E r \in DOMAIN rooms' : x = UpsertRoom(r, rooms'[r])
               \/ \E r \in DOMAIN rooms : x = DropRoom(r) /\ r \notin DOMAIN rooms',
           \A r \in Thread : \/ AgreeOn(r, rooms, rooms')
                             \/ \E x : Holds(p, x) /\ About(x, r),
           DOMAIN rooms' \subseteq DOMAIN rooms \cup {Fresh}
    PROVE  RoomsStep(p)
<1>1. ASSUME NEW j \in DOMAIN p, RoomWrite(p[j])
      PROVE  Agrees(p[j], rooms') /\ p[j].room \in DOMAIN rooms \cup DOMAIN rooms'
  <2>1. Holds(p, p[j])
    BY DEF Holds
  <2>2. CASE \E r \in DOMAIN rooms' : p[j] = UpsertRoom(r, rooms'[r])
    <3>1. PICK r \in DOMAIN rooms' : p[j] = UpsertRoom(r, rooms'[r])
      BY <2>2
    <3>2. QED BY <3>1, WriteForms DEF Agrees, SameRow
  <2>3. CASE \E r \in DOMAIN rooms : p[j] = DropRoom(r) /\ r \notin DOMAIN rooms'
    <3>1. PICK r \in DOMAIN rooms : p[j] = DropRoom(r) /\ r \notin DOMAIN rooms'
      BY <2>3
    <3>2. QED BY <3>1, WriteForms DEF Agrees
  <2>4. QED BY <1>1, <2>1, <2>2, <2>3
<1>2. ASSUME NEW r \in Thread, \A j \in DOMAIN p : ~ About(p[j], r)
      PROVE  AgreeOn(r, rooms, rooms')
  BY <1>2 DEF Holds
<1>3. QED BY <1>1, <1>2 DEF RoomsStep

LEMMA MarksPosting ==
    ASSUME NEW p, NEW D, D \subseteq marks, marks' = marks \ D,
           \A x : Holds(p, x) =>
               \/ x.kind = "room"
               \/ \E m \in D : x = DropMark(m)
               \/ /\ x.kind = "dropRoom" /\ loaded.rooms
                  /\ loaded.marks => \A m \in marks' : m.room # x.room,
           \A m \in D : Holds(p, DropMark(m)),
           loaded.marks /\ "marks" \notin astray' => \A m \in marks' : m \in Cut => m \in Cut'
    PROVE  MarksStep(p)
<1>1. ASSUME NEW j \in DOMAIN p
      PROVE  /\ p[j].kind \in Kinds \ {"mark"}
             /\ p[j].kind = "dropMark" => p[j].mark \in marks \ marks'
             /\ p[j].kind = "dropRoom" =>
                    loaded.rooms /\ (loaded.marks => \A m \in marks' : m.room # p[j].room)
  <2>1. Holds(p, p[j])
    BY DEF Holds
  <2>2. CASE p[j].kind = "room"
    BY <2>2 DEF Kinds
  <2>3. CASE \E m \in D : p[j] = DropMark(m)
    BY <2>3, WriteForms DEF Kinds
  <2>4. CASE /\ p[j].kind = "dropRoom" /\ loaded.rooms
             /\ loaded.marks => \A m \in marks' : m.room # p[j].room
    BY <2>4 DEF Kinds
  <2>5. QED BY <2>1, <2>2, <2>3, <2>4
<1>2. QED BY <1>1 DEF MarksStep, Holds

LEMMA NoMarksPosting ==
    ASSUME NEW p, UNCHANGED <<marks, edit>>, \A x : Holds(p, x) => x.kind = "room"
    PROVE  MarksStep(p)
<1>1. \A j \in DOMAIN p : p[j].kind = "room"
  BY DEF Holds
<1>2. \A m \in marks' : m \in Cut => m \in Cut'
  BY DEF Cut
<1>3. QED BY <1>1, <1>2 DEF MarksStep, Kinds

LEMMA NamesKept ==
    ASSUME BoundsAssumption, Inv, Spent, edit' = edit \/ edit' = NoEdit,
           \A r \in DOMAIN rooms' : <<rooms'[r].thread, r>> \in Claims
    PROVE  NamesStep(1)
<1>1. UsedInv' /\ used'.threads = used.threads /\ used'.marks = used.marks
  BY SpentForms DEF Inv, Shape
<1>2. edit' = NoEdit \/ <<edit'.thread, edit'.room>> \in Claims
  BY DEF Claims, ClaimsOf
<1>3. QED BY <1>1, <1>2 DEF NamesStep

LEMMA RoomClaims == \A r \in DOMAIN rooms : <<rooms[r].thread, r>> \in Claims
  BY DEF Claims, ClaimsOf

LEMMA NamesDrawn ==
    ASSUME Inv, Fresh <= MaxThreads, Used("threads"), edit' = edit,
           NEW x \in 1..Fresh,
           \A r \in DOMAIN rooms' : \/ <<rooms'[r].thread, r>> \in Claims
                                    \/ rooms'[r].thread = Fresh /\ r = x
    PROVE  NamesStep(x)
<1>1. UsedInv' /\ used'.threads = Fresh /\ used'.marks = used.marks
  BY NewThread DEF Inv, Shape
<1>2. edit' = NoEdit \/ <<edit'.thread, edit'.room>> \in Claims
  BY DEF Claims, ClaimsOf
<1>3. QED BY <1>1, <1>2 DEF NamesStep

LEMMA FreshName ==
    ASSUME Inv
    PROVE  Fresh \in 1..Fresh /\ Fresh \notin 1..used.threads /\ 1..used.threads \subseteq 1..Fresh
  BY DEF Inv, Shape, UsedInv, UsedNames, Fresh

LEMMA CreateRoomPosts ==
    ASSUME BoundsAssumption, Inv, CreateRoom, loaded.rooms
    PROVE  Posting
<1> DEFINE p == <<UpsertRoom(Fresh, EmptyRoom(Fresh))>>
<1>1. IsList(p) /\ \A x : Holds(p, x) <=> x = UpsertRoom(Fresh, EmptyRoom(Fresh))
  BY OneList, HoldsOne
<1>2. /\ Post(p) /\ UNCHANGED <<stored, marked, loaded, marks, edit, astray, turn, harmed>>
      /\ loaded.rooms /\ active' = Fresh /\ Fresh <= MaxThreads /\ Used("threads")
  BY DEF CreateRoom, server, ghosts
<1>3. /\ DOMAIN rooms' = DOMAIN rooms \cup {Fresh} /\ rooms'[Fresh] = EmptyRoom(Fresh)
      /\ \A r \in DOMAIN rooms \ {Fresh} : rooms'[r] = rooms[r]
  BY DEF CreateRoom, WithRoom
<1> HIDE DEF p
<1>4. NamesStep(Fresh)
  BY <1>2, <1>3, NamesDrawn, FreshName, RoomClaims, EmptyRoomForm
<1>5. RoomsStep(p)
  <2>1. ASSUME NEW r \in Thread, r # Fresh PROVE AgreeOn(r, rooms, rooms')
    BY <1>3, <2>1 DEF AgreeOn, SameRow
  <2>2. About(UpsertRoom(Fresh, EmptyRoom(Fresh)), Fresh)
    BY WriteForms DEF About
  <2>3. QED BY <1>1, <1>3, <2>1, <2>2, RoomsPosting
<1>6. MarksStep(p)
  <2>1. UpsertRoom(Fresh, EmptyRoom(Fresh)).kind = "room"
    BY WriteForms
  <2>2. QED BY <1>1, <1>2, <2>1, NoMarksPosting
<1>7. PageInv' /\ GhostInv'
  BY <1>2, <1>3, EmptyRoomForm DEF Inv, Shape, PageInv, GhostInv, RoomForms
<1>8. Posts(p, Fresh)
  BY <1>1, <1>2, <1>4, <1>5, <1>6, <1>7 DEF Posts
<1>9. QED BY <1>8 DEF Posting

\* A room made before the list is loaded is registered and is not on the page.
LEMMA CreateUnlistedInv ==
    ASSUME BoundsAssumption, Inv, CreateRoom, ~ loaded.rooms
    PROVE  Inv'
<1> DEFINE w == UpsertRoom(Fresh, EmptyRoom(Fresh))
           p == <<w>>
<1>1. /\ Post(p) /\ UNCHANGED <<stored, marked, loaded, marks, edit, astray, turn, harmed>>
      /\ UNCHANGED <<rooms, active>> /\ Fresh <= MaxThreads /\ Used("threads")
  BY DEF CreateRoom, server, ghosts
<1>2. IsList(p) /\ \A j \in DOMAIN p : p[j] = w
  BY OneList
<1>3. Holds(p, w)
  BY HoldsOne
<1>4. /\ w.kind = "room" /\ w.kind \in Kinds /\ w.room = Fresh /\ RoomWrite(w)
      /\ w.row.thread = Fresh /\ w.row.title = "new" /\ ~ MarkWrite(w)
  BY WriteForms, EmptyRoomForm DEF Kinds, MarkWrite
<1> HIDE DEF w, p
<1>5. Shape /\ Owned /\ IsList(sent) /\ UsedInv /\ SentInv
  BY DEF Inv, Shape, SentInv
<1>6. /\ UsedInv' /\ used'.threads = Fresh /\ used'.marks = used.marks
      /\ used.threads \in Nat /\ Fresh = used.threads + 1 /\ used.threads <= MaxThreads
  BY <1>1, <1>5, NewThread DEF UsedInv, UsedNames, Fresh
<1>7. \A i \in DOMAIN sent' : (i \in DOMAIN sent /\ sent'[i] = sent[i]) \/ sent'[i] = w
  BY <1>1, <1>2, <1>5, Posted
<1>8. SentInv'
  <2>1. \A j \in DOMAIN p : p[j].kind \in Kinds /\ p[j].room \in 1..used'.threads
    BY <1>2, <1>4, <1>6
  <2>2. QED BY <1>1, <1>2, <1>5, <1>6, <2>1, PostForms
<1>9. Shape'
  BY <1>1, <1>5, <1>6, <1>8 DEF Shape, PageInv, GhostInv, FiniteInv
<1>10. Owned'
  <2>1. Claims' \subseteq Claims \cup {<<Fresh, Fresh>>}
    BY <1>1, <1>4, <1>7 DEF Claims, ClaimsOf
  <2>2. Fresh \in 1..Fresh
    BY <1>6
  <2>3. QED BY <1>5, <1>6, <2>1, <2>2, OwnedStep
<1>11. MarkNames'
  <2>1. MarksIn(sent') \subseteq MarksIn(sent)
    BY <1>4, <1>7 DEF MarksIn
  <2>2. Circulating' \subseteq Circulating
    BY <1>1, <2>1 DEF Circulating
  <2>3. QED BY <1>6, <2>2 DEF Inv, MarkNames, IdsDiffer
<1>12. MarkPlaces'
  BY <1>1 DEF Inv, MarkPlaces
<1>13. RoomsInv'
  <2> SUFFICES ASSUME "rooms" \notin astray
               PROVE  \E list : RoomsInStep(sent', stored, list) /\ Extends(list)'
    BY <1>1 DEF RoomsInv
  <2>1. PICK list : RoomsInStep(sent, stored, list) /\ Extends(list)
    BY DEF Inv, RoomsInv
  <2>2. PICK list2 : list2 = WithRoom(list, Fresh, EmptyRoom(Fresh))
    OBVIOUS
  <2>3. /\ DOMAIN list2 = DOMAIN list \cup {Fresh} /\ list2[Fresh] = EmptyRoom(Fresh)
        /\ \A r \in DOMAIN list \ {Fresh} : list2[r] = list[r]
    BY <2>2 DEF WithRoom
  <2>4. \A i \in DOMAIN sent : RoomWrite(sent[i]) => sent[i].room \in Thread
    BY <1>5, <1>6 DEF SentInv, Thread, BoundsAssumption
  <2>5. Agrees(w, list2)
    BY <1>4, <2>3, EmptyRoomForm DEF Agrees, SameRow
  <2>6. ASSUME NEW r \in Thread, r # Fresh PROVE AgreeOn(r, list, list2)
    BY <2>3, <2>6 DEF AgreeOn, SameRow
  <2>7. \E j \in DOMAIN p : About(p[j], Fresh)
    BY <1>3, <1>4 DEF Holds, About
  <2>8. RoomsInStep(sent \o p, stored, list2)
    BY <1>2, <1>5, <2>1, <2>4, <2>5, <2>6, <2>7, RoomsPosted
  <2>9. Extends(list2)'
    <3>1. \A r \in DOMAIN rooms : r # Fresh
      BY <1>6, OwnedNames DEF Inv
    <3>2. QED BY <1>1, <2>1, <2>3, <3>1 DEF Extends
  <2>10. QED BY <1>1, <2>8, <2>9 DEF Post
<1>14. MarksInv'
  <2> SUFFICES ASSUME loaded.marks, "marks" \notin astray
               PROVE  /\ MarksInStep(sent', marked, marks, Cut')
                      /\ RoomsGone(sent', loaded.rooms, rooms)
    BY <1>1 DEF MarksInv
  <2>1. MarksInStep(sent, marked, marks, Cut) /\ RoomsGone(sent, loaded.rooms, rooms)
    BY DEF Inv, MarksInv
  <2>2. \A m \in marks : m \in Cut => m \in Cut'
    BY <1>1 DEF Cut
  <2>3. \A m \in marks \ marks : \E j \in DOMAIN p : p[j] = DropMark(m)
    OBVIOUS
  <2>4. MarksInStep(sent \o p, marked, marks, Cut')
    BY <1>2, <1>4, <1>5, <2>1, <2>2, <2>3, MarksDropped
  <2>5. RoomsGone(sent', loaded.rooms, rooms)
    BY <1>4, <1>7, <2>1 DEF RoomsGone
  <2>6. QED BY <1>1, <2>4, <2>5 DEF Post
<1>15. QED BY <1>9, <1>10, <1>11, <1>12, <1>13, <1>14 DEF Inv

LEMMA SendRowPosts ==
    ASSUME BoundsAssumption, Inv, NEW r \in DOMAIN rooms, NEW title, SendRow(r, title)
    PROVE  Posting
<1> DEFINE p == <<UpsertRoom(r, rooms'[r])>>
<1>1. IsList(p) /\ \A x : Holds(p, x) <=> x = UpsertRoom(r, rooms'[r])
  BY OneList, HoldsOne
<1>2. /\ Post(p) /\ UNCHANGED <<stored, marked, loaded, marks, edit, astray, turn, harmed, active>>
      /\ loaded.rooms /\ Used("changes")
  BY DEF SendRow, server, ghosts
<1>3. /\ DOMAIN rooms' = DOMAIN rooms /\ RoomForms(rooms')
      /\ rooms'[r].thread = rooms[r].thread
      /\ \A x \in DOMAIN rooms \ {r} : rooms'[x] = rooms[x]
  BY TitledRows DEF SendRow, Inv, Shape, PageInv
<1> HIDE DEF p
<1>4. NamesStep(1)
  <2>1. \A x \in DOMAIN rooms' : <<rooms'[x].thread, x>> \in Claims
    BY <1>3, RoomClaims
  <2>2. QED BY <1>2, <2>1, NamesKept DEF Spent
<1>5. RoomsStep(p)
  <2>1. ASSUME NEW x \in Thread, x # r PROVE AgreeOn(x, rooms, rooms')
    BY <1>3, <2>1 DEF AgreeOn, SameRow
  <2>2. About(UpsertRoom(r, rooms'[r]), r)
    BY WriteForms DEF About
  <2>3. QED BY <1>1, <1>3, <2>1, <2>2, RoomsPosting
<1>6. MarksStep(p)
  <2>1. UpsertRoom(r, rooms'[r]).kind = "room"
    BY WriteForms
  <2>2. QED BY <1>1, <1>2, <2>1, NoMarksPosting
<1>7. PageInv' /\ GhostInv'
  BY <1>2, <1>3 DEF Inv, Shape, PageInv, GhostInv
<1>8. Posts(p, 1)
  BY <1>1, <1>2, <1>4, <1>5, <1>6, <1>7 DEF Posts
<1>9. QED BY <1>8 DEF Posting

LEMMA ShownFinite ==
    ASSUME Inv
    PROVE  /\ \A r : MarksOf(r) \subseteq marks /\ IsFiniteSet(MarksOf(r))
           /\ \A r : loaded.marks => \A m \in marks \ MarksOf(r) : m.room # r
<1>1. ShownMarks \subseteq marks /\ (loaded.marks => ShownMarks = marks)
  BY DEF ShownMarks
<1>2. \A r : MarksOf(r) \subseteq marks
  BY <1>1 DEF MarksOf
<1>3. \A r : loaded.marks => \A m \in marks \ MarksOf(r) : m.room # r
  BY <1>1 DEF MarksOf
<1>4. IsFiniteSet(marks)
  BY DEF Inv, Shape, FiniteInv
<1>5. QED BY <1>2, <1>3, <1>4, FS_Subset

LEMMA ResetSessionPosts ==
    ASSUME BoundsAssumption, Inv, ResetSession
    PROVE  Posting
<1> DEFINE D == MarksOf(active)
           w == Requests(DropMark, D)
           u == UpsertRoom(active, rooms'[active])
           p == w \o <<u>>
<1>1. /\ Post(p) /\ UNCHANGED <<stored, marked, loaded, edit, astray, turn, active>>
      /\ loaded.rooms /\ Fresh <= MaxThreads /\ Used("threads")
      /\ marks' = marks \ D
  BY DEF ResetSession, server
<1>2. D \subseteq marks /\ IsFiniteSet(D)
  BY ShownFinite
<1> HIDE DEF D, u
<1>3. IsList(w) /\ \A x : Holds(w, x) <=> \E m \in D : x = DropMark(m)
  BY <1>2, HoldsDrops
<1> HIDE DEF w
<1>4. IsList(p) /\ \A x : Holds(p, x) <=> (\E m \in D : x = DropMark(m)) \/ x = u
  <2>1. IsList(<<u>>)
    BY OneList
  <2>2. IsList(p) /\ \A x : Holds(p, x) <=> Holds(w, x) \/ Holds(<<u>>, x)
    BY ONLY <1>3, <2>1, HoldsConcat, Zenon
  <2> HIDE DEF p
  <2>3. QED BY <1>3, <2>2, HoldsOne
<1> HIDE DEF p
<1>5. active \in DOMAIN rooms /\ active \in 1..Fresh
  <2>1. active \in DOMAIN rooms
    BY <1>1 DEF Inv, Shape, PageInv
  <2>2. QED BY <2>1, OwnedNames, FreshName DEF Inv
<1>6. /\ DOMAIN rooms' = DOMAIN rooms /\ RoomForms(rooms')
      /\ rooms'[active].thread = Fresh
      /\ \A x \in DOMAIN rooms \ {active} : rooms'[x] = rooms[x]
  BY <1>5, EmptyRoomForm DEF ResetSession, Inv, Shape, PageInv, RoomForms
<1>7. /\ u.kind = "room" /\ About(u, active)
      /\ u = UpsertRoom(active, rooms'[active])
  BY WriteForms DEF u, About
<1>8. NamesStep(active)
  BY <1>1, <1>5, <1>6, NamesDrawn, RoomClaims
<1>9. RoomsStep(p)
  <2>1. ASSUME NEW x \in Thread, x # active PROVE AgreeOn(x, rooms, rooms')
    BY <1>6, <2>1 DEF AgreeOn, SameRow
  <2>2. QED BY <1>4, <1>5, <1>6, <1>7, <2>1, RoomsPosting, WriteForms
<1>10. MarksStep(p)
  <2>1. \A m \in marks' : m \in Cut => m \in Cut'
    BY <1>1 DEF Cut
  <2>2. QED BY <1>1, <1>2, <1>4, <1>7, <2>1, MarksPosting
<1>11. PageInv' /\ GhostInv'
  <2>1. harmed' \subseteq Misfortune
    BY HarmForms, OverlapForms DEF ResetSession
  <2>2. QED BY <1>1, <1>6, <2>1 DEF Inv, Shape, PageInv, GhostInv
<1>12. Posts(p, active)
  BY <1>1, <1>4, <1>8, <1>9, <1>10, <1>11 DEF Posts
<1>13. QED BY <1>12 DEF Posting

LEMMA DeleteRoomPosts ==
    ASSUME BoundsAssumption, Inv, NEW r \in DOMAIN rooms, DeleteRoom(r)
    PROVE  Posting
<1> DEFINE D == MarksOf(r)
           w == Requests(DropMark, D)
           d == DropRoom(r)
           left == [x \in DOMAIN rooms \ {r} |-> rooms[x]]
           last == DOMAIN left = {}
           u == UpsertRoom(Fresh, rooms'[Fresh])
           v == IF last THEN <<u>> ELSE <<>>
           p == w \o <<d>> \o v
<1>1. /\ Post(p) /\ UNCHANGED <<stored, marked, loaded, edit, astray, turn>>
      /\ loaded.rooms /\ marks' = marks \ D
  BY DEF DeleteRoom, server, Idle
<1>2. D \subseteq marks /\ IsFiniteSet(D) /\ (loaded.marks => \A m \in marks \ D : m.room # r)
  BY ShownFinite
<1>3. /\ last => /\ Fresh <= MaxThreads /\ Used("threads") /\ active' = Fresh
                 /\ rooms' = [x \in {Fresh} |-> EmptyRoom(x)]
      /\ ~ last => /\ active' \in DOMAIN left \cup {active}
                   /\ active = r => active' \in DOMAIN left
                   /\ rooms' = Opened(left, active') /\ used' = used
  BY DEF DeleteRoom
<1>4. RoomForms(left) /\ DOMAIN left = DOMAIN rooms \ {r} /\ \A x \in DOMAIN left : left[x] = rooms[x]
  BY DEF Inv, Shape, PageInv, RoomForms
<1> HIDE DEF D, u, d, left
<1>5. IsList(w) /\ \A x : Holds(w, x) <=> \E m \in D : x = DropMark(m)
  BY <1>2, HoldsDrops
<1>6. IsList(v) /\ \A x : Holds(v, x) <=> last /\ x = u
  BY OneList, EmptyList, HoldsOne, HoldsNone
<1> HIDE DEF w, v, last
<1>7. IsList(p) /\ \A x : Holds(p, x) <=> (\E m \in D : x = DropMark(m)) \/ x = d \/ (last /\ x = u)
  <2> DEFINE wd == w \o <<d>>
  <2>1. IsList(<<d>>)
    BY OneList
  <2>2. IsList(wd) /\ \A x : Holds(wd, x) <=> Holds(w, x) \/ Holds(<<d>>, x)
    BY ONLY <1>5, <2>1, HoldsConcat, Zenon
  <2> HIDE DEF wd
  <2>3. IsList(wd \o v) /\ \A x : Holds(wd \o v, x) <=> Holds(wd, x) \/ Holds(v, x)
    BY ONLY <1>6, <2>2, HoldsConcat, Zenon
  <2>4. wd \o v = p
    BY DEF wd
  <2> HIDE DEF p
  <2>5. QED BY <1>5, <1>6, <2>2, <2>3, <2>4, HoldsOne
<1> HIDE DEF p
<1>8. r \in 1..used.threads /\ r # Fresh
  BY OwnedNames, FreshName DEF Inv
<1>9. /\ RoomForms(rooms') /\ r \notin DOMAIN rooms'
      /\ DOMAIN rooms' \subseteq DOMAIN rooms \cup {Fresh}
      /\ active' \in DOMAIN rooms'
  <2>1. CASE last
    <3>1. DOMAIN rooms' = {Fresh} /\ rooms'[Fresh] = EmptyRoom(Fresh)
      BY <1>3, <2>1
    <3>2. QED BY <1>3, <1>8, <2>1, <3>1, EmptyRoomForm DEF RoomForms
  <2>2. CASE ~ last
    <3>1. SameRows(left, rooms')
      BY <1>3, <1>4, <2>2, OpenedRows
    <3>2. DOMAIN rooms' = DOMAIN rooms \ {r} /\ RoomForms(rooms')
      BY <1>4, <3>1, SameRowsForms DEF SameRows
    <3>3. active \in DOMAIN rooms
      BY <1>1 DEF Inv, Shape, PageInv
    <3>4. QED BY <1>3, <1>4, <2>2, <3>2, <3>3
  <2>3. QED BY <2>1, <2>2
<1>10. /\ d.kind = "dropRoom" /\ d.room = r /\ About(d, r) /\ d = DropRoom(r)
       /\ u.kind = "room" /\ About(u, Fresh) /\ u = UpsertRoom(Fresh, rooms'[Fresh])
  BY WriteForms DEF u, d, About
<1>11. \E x : NamesStep(x)
  <2>1. CASE last
    <3>1. DOMAIN rooms' = {Fresh} /\ rooms'[Fresh].thread = Fresh
      BY <1>3, <2>1, EmptyRoomForm
    <3>2. NamesStep(Fresh)
      BY <1>1, <1>3, <2>1, <3>1, NamesDrawn, FreshName
    <3>3. QED BY <3>2
  <2>2. CASE ~ last
    <3>1. SameRows(left, rooms')
      BY <1>3, <1>4, <2>2, OpenedRows
    <3>2. \A x \in DOMAIN rooms' : <<rooms'[x].thread, x>> \in Claims
      BY <1>4, <3>1, RoomClaims DEF SameRows, SameRow
    <3>3. NamesStep(1)
      BY <1>1, <1>3, <2>2, <3>2, NamesKept DEF Spent
    <3>4. QED BY <3>3
  <2>3. QED BY <2>1, <2>2
<1>12. RoomsStep(p)
  <2>1. ASSUME NEW x \in Thread, x # r, last => x # Fresh
        PROVE  AgreeOn(x, rooms, rooms')
    <3>1. CASE last
      <4>1. DOMAIN rooms' = {Fresh} /\ DOMAIN left = {}
        BY <1>3, <3>1 DEF last
      <4>2. QED BY <1>4, <2>1, <3>1, <4>1 DEF AgreeOn
    <3>2. CASE ~ last
      <4>1. SameRows(left, rooms')
        BY <1>3, <1>4, <3>2, OpenedRows
      <4>2. AgreeOn(x, left, rooms')
        BY <4>1, SameRowsForms
      <4>3. QED BY <1>4, <2>1, <4>2 DEF AgreeOn, SameRow
    <3>3. QED BY <3>1, <3>2
  <2>2. ASSUME NEW x, Holds(p, x), RoomWrite(x)
        PROVE  \/ \E y \in DOMAIN rooms' : x = UpsertRoom(y, rooms'[y])
               \/ \E y \in DOMAIN rooms : x = DropRoom(y) /\ y \notin DOMAIN rooms'
    <3>1. CASE \E m \in D : x = DropMark(m)
      BY <2>2, <3>1, WriteForms
    <3>2. CASE x = d
      BY <1>9, <1>10, <3>2
    <3>3. CASE last /\ x = u
      <4>1. Fresh \in DOMAIN rooms'
        BY <1>3, <3>3
      <4>2. QED BY <1>10, <3>3, <4>1
    <3>4. QED BY <1>7, <2>2, <3>1, <3>2, <3>3
  <2>3. \A x \in Thread : AgreeOn(x, rooms, rooms') \/ \E y : Holds(p, y) /\ About(y, x)
    BY <1>7, <1>10, <2>1
  <2>4. QED BY <1>9, <2>2, <2>3, RoomsPosting
<1>13. MarksStep(p)
  <2>1. \A m \in marks' : m \in Cut => m \in Cut'
    BY <1>1 DEF Cut
  <2>2. loaded.marks => \A m \in marks' : m.room # d.room
    BY <1>1, <1>2, <1>10
  <2>3. \A x : Holds(p, x) =>
           \/ x.kind = "room"
           \/ \E m \in D : x = DropMark(m)
           \/ /\ x.kind = "dropRoom" /\ loaded.rooms
              /\ loaded.marks => \A m \in marks' : m.room # x.room
    BY <1>1, <1>7, <1>10, <2>2
  <2>4. QED BY <1>1, <1>2, <1>7, <2>1, <2>3, MarksPosting
<1>14. PageInv' /\ GhostInv'
  <2>1. harmed' \subseteq Misfortune
    <3>1. PICK kinds : Harm(kinds) /\ kinds \subseteq Misfortune
      BY OverlapForms DEF DeleteRoom
    <3>2. QED BY <3>1, HarmForms
  <2>2. QED BY <1>1, <1>9, <2>1 DEF Inv, Shape, PageInv, GhostInv
<1>15. PICK y : NamesStep(y)
  BY <1>11
<1>16. Posts(p, y)
  BY <1>1, <1>7, <1>15, <1>12, <1>13, <1>14 DEF Posts
<1>17. QED BY <1>16 DEF Posting

\* Asking a question, with writes that concern no room.
LEMMA SendMessagePosts ==
    ASSUME BoundsAssumption, Inv, NEW r, NEW thread, NEW list, NEW w,
           IsList(w), \A x : Holds(w, x) => ~ RoomWrite(x),
           SameRows(rooms, list), SendMessage(r, thread, list, w)
    PROVE  /\ Spent /\ RoomForms(rooms') /\ DOMAIN rooms' = DOMAIN rooms
           /\ \A x \in DOMAIN rooms : rooms'[x].thread = rooms[x].thread
           /\ \E p : /\ IsList(p) /\ Post(p) /\ RoomsStep(p)
                     /\ \A x : Holds(w, x) => Holds(p, x)
                     /\ \A x : Holds(p, x) => Holds(w, x) \/ x.kind = "room"
<1> DEFINE titled == r \in DOMAIN list /\ list[r].title = "new"
           u == UpsertRoom(r, rooms'[r])
           v == IF titled THEN <<u>> ELSE <<>>
           p == w \o v
<1>1. PICK asked : /\ SameRows(list, asked)
                   /\ rooms' = IF titled THEN [asked EXCEPT ![r].title = "named"] ELSE asked
  <2>1. RoomForms(list)
    BY SameRowsForms
  <2>2. QED BY <2>1, AppendedRows DEF SendMessage
<1>2. Post(p) /\ Spent
  BY DEF SendMessage, StartTurn, Spent
<1>3. IsList(v) /\ \A x : Holds(v, x) <=> titled /\ x = u
  BY OneList, EmptyList, HoldsOne, HoldsNone
<1> HIDE DEF v, u
<1>4. IsList(p) /\ \A x : Holds(p, x) <=> Holds(w, x) \/ (titled /\ x = u)
  <2>1. IsList(p) /\ \A x : Holds(p, x) <=> Holds(w, x) \/ Holds(v, x)
    BY ONLY <1>3, IsList(w), HoldsConcat, Zenon
  <2>2. QED BY <1>3, <2>1
<1> HIDE DEF p
<1>5. DOMAIN list = DOMAIN rooms /\ DOMAIN asked = DOMAIN rooms /\ RoomForms(asked)
      /\ \A x \in DOMAIN rooms : SameRow(asked[x], rooms[x])
  BY <1>1, SameRowsForms DEF SameRows, SameRow
<1>6. /\ DOMAIN rooms' = DOMAIN rooms /\ RoomForms(rooms')
      /\ \A x \in DOMAIN rooms : rooms'[x].thread = rooms[x].thread
      /\ \A x \in DOMAIN rooms : (titled /\ x = r) \/ SameRow(rooms'[x], rooms[x])
  <2>1. CASE titled
    <3>1. /\ DOMAIN rooms' = DOMAIN asked /\ RoomForms(rooms')
          /\ rooms'[r].thread = asked[r].thread
          /\ \A x \in DOMAIN asked \ {r} : rooms'[x] = asked[x]
      BY <1>1, <1>5, <2>1, TitledRows
    <3>2. QED BY <1>5, <2>1, <3>1 DEF SameRow
  <2>2. CASE ~ titled
    BY <1>1, <1>5, <2>2 DEF SameRow
  <2>3. QED BY <2>1, <2>2
<1>7. u.kind = "room" /\ About(u, r) /\ u = UpsertRoom(r, rooms'[r])
  BY WriteForms DEF u, About
<1>8. RoomsStep(p)
  <2>1. ASSUME NEW x \in Thread, ~ (titled /\ x = r) PROVE AgreeOn(x, rooms, rooms')
    BY <1>6, <2>1 DEF AgreeOn, SameRow
  <2>2. titled => r \in DOMAIN rooms'
    BY <1>5, <1>6
  <2>3. QED BY <1>4, <1>6, <1>7, <2>1, <2>2, RoomsPosting
<1>9. QED BY <1>2, <1>4, <1>6, <1>7, <1>8

LEMMA SendPosts ==
    ASSUME BoundsAssumption, Inv, Send
    PROVE  Posting
<1>1. SameRows(rooms, rooms)
  BY SameRowsSelf DEF Inv, Shape, PageInv
<1>2. PICK t : SendMessage(active, t, rooms, <<>>)
  BY DEF Send
<1>3. UNCHANGED <<stored, marked, loaded, marks, edit, astray, active>> /\ loaded.rooms
  BY DEF Send, server, Idle
<1>4. /\ Spent /\ RoomForms(rooms') /\ DOMAIN rooms' = DOMAIN rooms
      /\ \A x \in DOMAIN rooms : rooms'[x].thread = rooms[x].thread
      /\ \E p : /\ IsList(p) /\ Post(p) /\ RoomsStep(p)
                /\ \A x : Holds(p, x) => Holds(<<>>, x) \/ x.kind = "room"
  BY <1>1, <1>2, SendMessagePosts, EmptyList, HoldsNone
<1>5. PICK p : IsList(p) /\ Post(p) /\ RoomsStep(p) /\ \A x : Holds(p, x) => x.kind = "room"
  BY <1>4, HoldsNone
<1>6. NamesStep(1)
  <2>1. \A x \in DOMAIN rooms' : <<rooms'[x].thread, x>> \in Claims
    BY <1>4, RoomClaims
  <2>2. QED BY <1>3, <1>4, <2>1, NamesKept
<1>7. MarksStep(p)
  BY <1>3, <1>5, NoMarksPosting
<1>8. PageInv' /\ GhostInv'
  <2>1. harmed' \subseteq Misfortune
    BY HarmForms, OverlapForms DEF Send
  <2>2. QED BY <1>3, <1>4, <2>1 DEF Inv, Shape, PageInv, GhostInv
<1>9. Posts(p, 1)
  BY <1>3, <1>5, <1>6, <1>7, <1>8 DEF Posts
<1>10. QED BY <1>9 DEF Posting

LEMMA FinishEditPosts ==
    ASSUME BoundsAssumption, Inv, FinishEdit
    PROVE  Posting
<1> DEFINE kept == KeptMessages(edit.messages, edit.k)
           D == MarksFrom(edit.room, Cardinality(Answers(kept)))
           w == Requests(DropMark, D)
           list == WithMessages(rooms, edit.room, kept)
<1>1. /\ UNCHANGED <<stored, marked, loaded, active>>
      /\ edit.phase = "done" /\ edit' = NoEdit /\ marks' = marks \ D
      /\ SendMessage(edit.room, edit.thread, list, w)
      /\ astray' = IF Cardinality(Answers(kept)) = edit.left THEN astray ELSE astray \cup {"marks"}
  BY DEF FinishEdit, server
<1>2. loaded.rooms
  <2>1. edit # NoEdit
    BY <1>1 DEF NoEdit
  <2>2. QED BY <2>1 DEF Inv, Shape, PageInv
<1>3. D \subseteq marks /\ IsFiniteSet(D)
  <2>1. D \subseteq MarksOf(edit.room)
    BY DEF MarksFrom
  <2>2. QED BY <2>1, ShownFinite, FS_Subset
<1>4. /\ loaded.marks /\ "marks" \notin astray' => \A m \in marks' : m \in Cut => m \in Cut'
      /\ astray \subseteq astray' /\ (astray \subseteq {"rooms", "marks"} => astray' \subseteq {"rooms", "marks"})
  <2>1. ASSUME loaded.marks, "marks" \notin astray', NEW m \in marks', m \in Cut PROVE FALSE
    <3>1. Cardinality(Answers(kept)) = edit.left
      BY <1>1, <2>1
    <3>2. m \in MarksOf(edit.room) /\ m.index >= edit.left
      BY <1>1, <2>1 DEF Cut, MarksOf, ShownMarks
    <3>3. m \in D
      BY <3>1, <3>2 DEF MarksFrom
    <3>4. QED BY <1>1, <2>1, <3>3
  <2>2. QED BY <1>1, <2>1
<1>5. SameRows(rooms, list)
  BY MessagesRows DEF Inv, Shape, PageInv
<1> HIDE DEF D, list, kept
<1>6. IsList(w) /\ \A x : Holds(w, x) <=> \E m \in D : x = DropMark(m)
  BY <1>3, HoldsDrops
<1> HIDE DEF w
<1>7. \A x : Holds(w, x) => ~ RoomWrite(x)
  BY <1>6, WriteForms
<1>8. /\ Spent /\ RoomForms(rooms') /\ DOMAIN rooms' = DOMAIN rooms
      /\ \A x \in DOMAIN rooms : rooms'[x].thread = rooms[x].thread
      /\ \E p : /\ IsList(p) /\ Post(p) /\ RoomsStep(p)
                /\ \A x : Holds(w, x) => Holds(p, x)
                /\ \A x : Holds(p, x) => Holds(w, x) \/ x.kind = "room"
  BY <1>1, <1>5, <1>6, <1>7, SendMessagePosts
<1>9. PICK p : /\ IsList(p) /\ Post(p) /\ RoomsStep(p)
               /\ \A x : Holds(w, x) => Holds(p, x)
               /\ \A x : Holds(p, x) => Holds(w, x) \/ x.kind = "room"
  BY <1>8
<1>10. NamesStep(1)
  <2>1. \A x \in DOMAIN rooms' : <<rooms'[x].thread, x>> \in Claims
    BY <1>8, RoomClaims
  <2>2. QED BY <1>1, <1>8, <2>1, NamesKept
<1>11. MarksStep(p)
  BY <1>1, <1>3, <1>4, <1>6, <1>9, MarksPosting
<1>12. PageInv' /\ GhostInv'
  <2>1. harmed' \subseteq Misfortune
    BY HarmForms DEF FinishEdit, Misfortune
  <2>2. QED BY <1>1, <1>2, <1>4, <1>8, <2>1 DEF Inv, Shape, PageInv, GhostInv, IsEdit
<1>13. Posts(p, 1)
  BY <1>1, <1>2, <1>4, <1>9, <1>10, <1>11, <1>12 DEF Posts
<1>14. QED BY <1>13 DEF Posting

LEMMA MarksRemoved ==
    ASSUME BoundsAssumption, Inv, NEW D, D \subseteq marks, marks' = marks \ D,
           Post(Requests(DropMark, D)),
           UNCHANGED <<stored, marked, loaded, rooms, active, turn, edit, astray, used>>,
           harmed' \subseteq Misfortune
    PROVE  Posting
<1> DEFINE p == Requests(DropMark, D)
<1>1. IsFiniteSet(D)
  BY FS_Subset DEF Inv, Shape, FiniteInv
<1>2. IsList(p) /\ \A x : Holds(p, x) <=> \E m \in D : x = DropMark(m)
  BY <1>1, HoldsDrops
<1>3. Post(p)
  OBVIOUS
<1> HIDE DEF p
<1>4. NamesStep(1)
  BY NamesKept, RoomClaims DEF Spent
<1>5. RoomsStep(p)
  <2>1. \A r \in Thread : AgreeOn(r, rooms, rooms')
    BY DEF AgreeOn, SameRow
  <2>2. \A x : Holds(p, x) => ~ RoomWrite(x)
    BY <1>2, WriteForms
  <2>3. QED BY <2>1, <2>2, RoomsPosting
<1>6. MarksStep(p)
  <2>1. \A m \in marks' : m \in Cut => m \in Cut'
    BY DEF Cut
  <2>2. QED BY <1>2, <2>1, MarksPosting
<1>7. PageInv' /\ GhostInv'
  BY DEF Inv, Shape, PageInv, GhostInv
<1>8. \A j \in DOMAIN p : ~ RoomWrite(p[j])
  BY <1>2, WriteForms DEF Holds
<1>9. Posts(p, 1)
  BY <1>2, <1>3, <1>4, <1>5, <1>6, <1>7, <1>8 DEF Posts
<1>10. QED BY <1>9 DEF Posting

LEMMA MarkPosted ==
    ASSUME BoundsAssumption, Inv, NEW added, added.id = used.marks + 1, added.room = active,
           used.marks < MaxMarks, Used("marks"), Post(<<UpsertMark(added)>>), loaded.rooms,
           UNCHANGED <<stored, marked, loaded, rooms, active, turn, edit, astray>>,
           harmed' \subseteq Misfortune,
           marks' = IF loaded.marks THEN marks \cup {added} ELSE marks,
           loaded.marks => \A m \in marks : ~ SamePlace(added, m)
    PROVE  Inv'
<1> DEFINE p == <<UpsertMark(added)>>
<1>1. IsList(p) /\ IsList(sent) /\ Shape /\ Owned /\ UsedInv
      /\ \A j \in DOMAIN p : p[j] = UpsertMark(added)
  BY OneList, ListFacts DEF Inv, Shape, SentInv
<1> HIDE DEF p
<1>2. UsedInv' /\ used'.threads = used.threads /\ used'.marks = used.marks + 1
      /\ used.threads \in Nat /\ used.marks \in Nat
  BY <1>1 DEF UsedInv, UsedNames, Used
<1>3. \A j \in DOMAIN p : /\ p[j].kind \in Kinds /\ p[j].kind = "mark"
                          /\ p[j].mark = added /\ ~ RoomWrite(p[j])
  BY <1>1, WriteForms DEF Kinds
<1>4. Post(p)
  BY DEF p
<1>5. SentInv'
  <2>1. SentInv
    BY <1>1 DEF Shape
  <2>2. QED BY <1>1, <1>2, <1>3, <1>4, <2>1, PostForms
<1>6. Shape'
  <2>1. IsFiniteSet(marks) /\ IsFiniteSet(marked)
    BY <1>1 DEF Shape, FiniteInv
  <2>2. IsFiniteSet(marks')
    BY <2>1, FS_AddElement
  <2>3. QED BY <1>1, <1>2, <1>5, <2>1, <2>2 DEF Shape, FiniteInv, PageInv, GhostInv
<1>7. Owned'
  <2>1. \A i \in DOMAIN sent' : sent'[i].kind = "room" => i \in DOMAIN sent /\ sent'[i] = sent[i]
    <3>1. \A i \in DOMAIN sent' :
             \/ i \in DOMAIN sent /\ sent'[i] = sent[i]
             \/ \E j \in DOMAIN p : sent'[i] = p[j]
      BY <1>1, <1>4, Posted
    <3>2. QED BY <1>3, <3>1
  <2>2. Claims' \subseteq Claims
    BY <2>1 DEF Claims, ClaimsOf
  <2>3. QED BY <1>1, <1>2, <2>2, OwnedStep
<1>8. Circulating' \subseteq Circulating \cup {added}
  <2>1. \A i \in DOMAIN sent' :
           \/ i \in DOMAIN sent /\ sent'[i] = sent[i]
           \/ \E j \in DOMAIN p : sent'[i] = p[j]
    BY <1>1, <1>4, Posted
  <2>2. MarksIn(sent') \subseteq MarksIn(sent) \cup {added}
    BY <1>3, <2>1 DEF MarksIn
  <2>3. QED BY <2>2 DEF Circulating
<1>9. \A m \in Circulating : m.id \in 1..used.marks /\ m.id # added.id
  BY <1>2 DEF Inv, MarkNames
<1>10. MarkNames'
  <2>1. \A m \in Circulating' : m.id \in 1..used'.marks
    BY <1>2, <1>8, <1>9
  <2>2. IdsDiffer(Circulating')
    BY <1>8, <1>9 DEF Inv, MarkNames, IdsDiffer
  <2>3. QED BY <2>1, <2>2 DEF MarkNames
<1>11. MarkPlaces'
  BY DEF Inv, MarkPlaces, OnePerPlace, SamePlace
<1>12. RoomsInv'
  <2>1. RoomsStep(p)
    BY <1>3 DEF RoomsStep, AgreeOn, SameRow
  <2>2. QED BY <1>1, <1>4, <2>1, RoomsPostedInv
<1>13. MarksInv'
  <2> SUFFICES ASSUME loaded.marks, "marks" \notin astray
               PROVE  /\ MarksInStep(sent', marked, marks', Cut')
                      /\ RoomsGone(sent', loaded.rooms, rooms)
    BY DEF MarksInv
  <2>1. MarksInStep(sent, marked, marks, Cut) /\ RoomsGone(sent, loaded.rooms, rooms)
    BY DEF Inv, MarksInv
  <2>2. RoomsGone(sent', loaded.rooms, rooms)
    <3>1. \A i \in DOMAIN sent' :
             \/ i \in DOMAIN sent /\ sent'[i] = sent[i]
             \/ \E j \in DOMAIN p : sent'[i] = p[j]
      BY <1>1, <1>4, Posted
    <3>2. QED BY <1>3, <2>1, <3>1 DEF RoomsGone
  <2>3. added \notin MarksIn(sent)
    BY <1>9 DEF Circulating
  <2>4. \A i \in DOMAIN sent : sent[i].kind = "dropRoom" => sent[i].room # added.room
    BY <2>1 DEF RoomsGone, Inv, Shape, PageInv
  <2>5. \A m \in marks : m \in Cut => m \in Cut'
    BY DEF Cut
  <2>6. MarksInStep(sent \o <<UpsertMark(added)>>, marked, marks \cup {added}, Cut')
    BY <1>1, <2>1, <2>3, <2>4, <2>5, MarkAdded
  <2>7. QED BY <2>2, <2>6 DEF Post
<1>14. QED BY <1>6, <1>7, <1>10, <1>11, <1>12, <1>13 DEF Inv

LEMMA ToggleMarkPosts ==
    ASSUME BoundsAssumption, Inv, NEW r, NEW index, ToggleMark(r, index)
    PROVE  Inv'
<1> DEFINE here == {m \in MarksOf(r) : m.index = index}
           shown == rooms[r].messages
           place == CHOOSE i \in Answers(shown) : Index(Answers(shown), i) = index
           added == [id |-> used.marks + 1, room |-> r, index |-> index, by |-> shown[place].by]
<1>1. /\ UNCHANGED <<stored, marked, loaded, rooms, active, turn, edit, astray>>
      /\ here # {} => /\ marks' = marks \ here /\ Post(Requests(DropMark, here)) /\ used' = used
      /\ here = {} => /\ loaded.rooms /\ r = active /\ used.marks < MaxMarks /\ Used("marks")
                      /\ marks' = IF loaded.marks THEN marks \cup {added} ELSE marks
                      /\ Post(<<UpsertMark(added)>>)
  BY DEF ToggleMark, server
<1>2. harmed' \subseteq Misfortune
  BY HarmForms, OverlapForms DEF ToggleMark
<1>3. here \subseteq marks
  BY ShownFinite
<1>4. CASE here # {}
  <2> HIDE DEF here
  <2>1. QED BY <1>1, <1>2, <1>3, <1>4, MarksRemoved, PostingKeepsInv
<1>5. CASE here = {}
  <2>1. added.id = used.marks + 1 /\ added.room = r /\ added.index = index
    OBVIOUS
  <2>2. loaded.marks => \A m \in marks : ~ SamePlace(added, m)
    BY <1>5, <2>1 DEF MarksOf, ShownMarks, SamePlace
  <2> HIDE DEF added, here
  <2>3. QED BY <1>1, <1>2, <1>5, <2>1, <2>2, MarkPosted
<1>6. QED BY <1>4, <1>5

-----------------------------------------------------------------------------
(* The server's steps.                                                      *)

\* Every thread has one room: the bookmarks deleted are the edit's own.
LEMMA TruncateThreadInv ==
    ASSUME BoundsAssumption, Inv, TruncateThread
    PROVE  Inv'
<1>1. PICK n : /\ edit' = [edit EXCEPT !.phase = "done", !.left = n]
               /\ marked' = marked \/ marked' = marked \ CutMarks(edit.thread, n)
  BY DEF TruncateThread
<1>2. /\ edit.phase = "asked"
      /\ UNCHANGED <<stored, sent, turn, used, harmed, astray>>
      /\ UNCHANGED <<rooms, active, marks, loaded>>
  BY DEF TruncateThread, page, ghosts
<1>3. edit # NoEdit /\ edit = [phase |-> edit.phase, room |-> edit.room, thread |-> edit.thread,
                               k |-> edit.k, messages |-> edit.messages, left |-> edit.left]
  BY <1>2 DEF NoEdit, Inv, Shape, PageInv, IsEdit
<1>4. edit' = [phase |-> "done", room |-> edit.room, thread |-> edit.thread,
               k |-> edit.k, messages |-> edit.messages, left |-> n]
  BY <1>1, <1>3
<1>5. /\ edit'.phase = "done" /\ edit'.room = edit.room /\ edit'.thread = edit.thread
      /\ edit'.left = n
  BY <1>4
<1>6. IsEdit(edit') /\ edit' # NoEdit
  <2>1. IsEdit(edit')
    BY <1>4, <1>5 DEF IsEdit
  <2>2. QED BY <1>5, <2>1 DEF NoEdit
<1>7. marked' \subseteq marked
  BY <1>1
<1>8. Shape'
  <2>1. PageInv'
    BY <1>2, <1>3, <1>6 DEF Inv, Shape, PageInv
  <2>2. FiniteInv'
    BY <1>2, <1>7, FS_Subset DEF Inv, Shape, FiniteInv
  <2>3. QED BY <1>2, <2>1, <2>2 DEF Inv, Shape, UsedInv, SentInv, GhostInv
<1>9. Owned'
  <2>1. Claims' = Claims
    BY <1>2, <1>3, <1>5, <1>6 DEF Claims, ClaimsOf
  <2>2. QED BY <1>2, <2>1, OwnedStep DEF Inv, Shape
<1>10. MarkNames'
  <2>1. Circulating' \subseteq Circulating
    BY <1>2, <1>7 DEF Circulating
  <2>2. QED BY <1>2, <2>1 DEF Inv, MarkNames, IdsDiffer
<1>11. MarkPlaces'
  BY <1>2, <1>7 DEF Inv, MarkPlaces, OnePerPlace
<1>12. RoomsInv'
  BY <1>2 DEF Inv, RoomsInv, Extends
<1>13. MarksInv'
  <2> SUFFICES ASSUME loaded.marks, "marks" \notin astray
               PROVE  /\ MarksInStep(sent, marked', marks, Cut')
                      /\ RoomsGone(sent, loaded.rooms, rooms)
    BY <1>2 DEF MarksInv
  <2>1. MarksInStep(sent, marked, marks, Cut) /\ RoomsGone(sent, loaded.rooms, rooms)
    BY DEF Inv, MarksInv
  <2>2. ASSUME NEW m \in marks, m \in marked, m \notin marked' PROVE m \in Cut'
    <3>1. m \in CutMarks(edit.thread, n)
      BY <1>1, <2>2
    <3>2. /\ m.index >= n /\ m.room \in DOMAIN stored /\ stored[m.room].thread = edit.thread
      BY <3>1 DEF CutMarks
    <3>3. <<stored[m.room].thread, m.room>> \in Claims /\ <<edit.thread, edit.room>> \in Claims
      BY <1>3, <3>2 DEF Claims, ClaimsOf
    <3>4. m.room = edit.room
      BY <3>2, <3>3 DEF Inv, Owned
    <3>5. QED BY <1>2, <1>5, <3>2, <3>4 DEF Cut
  <2>3. Cut = {}
    BY <1>2 DEF Cut
  <2>4. Registered(sent, marked', marks, Cut')
    BY <2>1, <2>2, <2>3 DEF MarksInStep, Registered
  <2>5. Leftover(sent, marked', marks)
    BY <1>7, <2>1 DEF MarksInStep, Leftover
  <2>6. QED BY <2>1, <2>4, <2>5 DEF MarksInStep
<1>14. QED BY <1>8, <1>9, <1>10, <1>11, <1>12, <1>13 DEF Inv

LEMMA Removed ==
    ASSUME NEW i \in DOMAIN sent, IsList(sent), sent' = RemoveAt(sent, i)
    PROVE  /\ IsList(sent') /\ Len(sent') = Len(sent) - 1
           /\ \A h \in DOMAIN sent' : \E g \in DOMAIN sent : sent'[h] = sent[g]
<1> DEFINE s == RemoveAt(sent, i)
<1>1. /\ IsList(s)
      /\ Len(s) = Len(sent) - 1
      /\ \A h \in DOMAIN s : /\ Origin(i, h) \in DOMAIN sent \ {i}
                             /\ s[h] = sent[Origin(i, h)]
  BY ONLY IsList(sent), i \in DOMAIN sent, RemoveAtList
<1> HIDE DEF s
<1>2. sent' = s
  BY DEF s
<1>3. QED BY <1>1, <1>2

\* A write leaves the network: it is applied, or lost.
LEMMA SentRemoved ==
    ASSUME BoundsAssumption, Inv, NEW i \in DOMAIN sent, sent' = RemoveAt(sent, i), Spent,
           UNCHANGED <<rooms, active, marks, loaded, turn, edit>>, GhostInv',
           marked' \subseteq marked \cup {m \in {sent[i].mark} : MarkWrite(sent[i])},
           IsFiniteSet(marked'),
           \A r \in DOMAIN stored' :
              \/ r \in DOMAIN stored /\ stored'[r].thread = stored[r].thread
              \/ /\ sent[i].kind = "room" /\ r = sent[i].room
                 /\ stored'[r].thread = sent[i].row.thread
    PROVE  /\ Shape' /\ Owned' /\ MarkNames' /\ OnePerPlace(marks')
           /\ \A h \in DOMAIN sent' : \E g \in DOMAIN sent : sent'[h] = sent[g]
<1>1. /\ IsList(sent') /\ Len(sent') = Len(sent) - 1 /\ Len(sent) \in Nat
      /\ \A h \in DOMAIN sent' : \E g \in DOMAIN sent : sent'[h] = sent[g]
  BY Removed, ListFacts DEF Inv, Shape, SentInv
<1>2. UsedInv' /\ used'.threads = used.threads /\ used'.marks = used.marks
  BY SpentForms DEF Inv, Shape
<1>3. Shape'
  <2>1. SentInv'
    BY <1>1, <1>2 DEF Inv, Shape, SentInv, BoundsAssumption
  <2>2. PageInv' /\ FiniteInv'
    BY DEF Inv, Shape, PageInv, FiniteInv
  <2>3. QED BY <1>2, <2>1, <2>2 DEF Shape
<1>4. Owned'
  <2>1. \A h \in DOMAIN sent' : sent'[h].kind = "room" =>
           <<sent'[h].row.thread, sent'[h].room>> \in Claims
    BY <1>1 DEF Claims, ClaimsOf
  <2>2. \A r \in DOMAIN stored' : <<stored'[r].thread, r>> \in Claims
    BY DEF Claims, ClaimsOf
  <2>3. Claims' \subseteq Claims
    <3> SUFFICES ASSUME NEW c \in Claims' PROVE c \in Claims
      OBVIOUS
    <3>1. \/ \E r \in DOMAIN stored' : c = <<stored'[r].thread, r>>
          \/ \E r \in DOMAIN rooms : c = <<rooms[r].thread, r>>
          \/ \E h \in DOMAIN sent' : sent'[h].kind = "room" /\ c = <<sent'[h].row.thread, sent'[h].room>>
          \/ edit # NoEdit /\ c = <<edit.thread, edit.room>>
      BY DEF Claims, ClaimsOf
    <3>2. edit # NoEdit => <<edit.thread, edit.room>> \in Claims
      BY DEF Claims, ClaimsOf
    <3>3. QED BY <2>1, <2>2, <3>1, <3>2, RoomClaims
  <2>4. QED BY <1>2, <2>3, OwnedStep DEF Inv, Shape
<1>5. MarkNames'
  <2>1. MarksIn(sent') \subseteq MarksIn(sent)
    BY <1>1 DEF MarksIn
  <2>2. \A m \in {sent[i].mark} : MarkWrite(sent[i]) => m \in MarksIn(sent)
    BY DEF MarksIn
  <2>3. Circulating' \subseteq Circulating
    BY <2>1, <2>2 DEF Circulating
  <2>4. QED BY <1>2, <2>3 DEF Inv, MarkNames, IdsDiffer
<1>6. QED BY <1>1, <1>3, <1>4, <1>5 DEF Inv, MarkPlaces

\* A write about a room that overtakes none it needs, or any about a bookmark.
LEMMA DeliverRooms ==
    ASSUME Inv, NEW i \in DOMAIN sent, Deliver(i), "rooms" \notin astray',
           NEW list, RoomsInStep(sent, stored, list)
    PROVE  RoomsInStep(sent', stored', list)
<1>1. PICK q, request : q = sent /\ request = sent[i]
  OBVIOUS
<1>2. /\ Apply(request) /\ sent' = RemoveAt(q, i) /\ IsList(q) /\ request.kind \in Kinds
      /\ RoomWrite(request) => \A j \in 1..(i - 1) : ~ Needs(request, q[j])
  BY <1>1 DEF Deliver, TableOf, Inv, Shape, SentInv
<1>3. /\ request.kind = "room" =>
            /\ DOMAIN stored' = DOMAIN stored \cup {request.room}
            /\ stored'[request.room] = request.row
            /\ \A r \in DOMAIN stored \ {request.room} : stored'[r] = stored[r]
      /\ request.kind = "dropRoom" =>
            /\ DOMAIN stored' = DOMAIN stored \ {request.room}
            /\ \A r \in DOMAIN stored' : stored'[r] = stored[r]
      /\ ~ RoomWrite(request) => stored' = stored
  BY <1>2 DEF Apply, Kinds, PutRoom, Upserted, WithRoom, RemoveRoom, PutMark, RemoveMark, RoomWrite
<1>4. \A r \in Thread : ~ About(request, r) => AgreeOn(r, stored', stored)
  <2>1. CASE RoomWrite(request)
    BY <1>3, <2>1 DEF AgreeOn, SameRow, About, RoomWrite
  <2>2. CASE ~ RoomWrite(request)
    BY <1>3, <2>2 DEF AgreeOn, SameRow
  <2>3. QED BY <2>1, <2>2
<1>5. \A r \in Thread : About(request, r) /\ Agrees(request, list) => AgreeOn(r, stored', list)
  BY <1>2, <1>3 DEF AgreeOn, SameRow, About, RoomWrite, Agrees
<1>6. RoomsInStep(RemoveAt(q, i), stored', list)
  BY <1>1, <1>2, <1>4, <1>5, RoomsDelivered
<1>7. QED BY <1>2, <1>6

LEMMA DeliverInv ==
    ASSUME BoundsAssumption, Inv, NEW i \in DOMAIN sent, Deliver(i)
    PROVE  Inv'
<1> DEFINE request == sent[i]
           overtakes == \E j \in 1..(i - 1) : Needs(request, sent[j])
<1>1. /\ Apply(request) /\ sent' = RemoveAt(sent, i)
      /\ astray' = IF overtakes \/ Refused(request)
                   THEN astray \cup {TableOf(request)} ELSE astray
      /\ UNCHANGED <<rooms, active, marks, loaded, turn, edit, used>>
  BY DEF Deliver, page
<1>2. request.kind \in Kinds /\ IsList(sent) /\ IsFiniteSet(marked)
      /\ (RoomWrite(request) => request.room \in 1..used.threads)
  BY DEF Inv, Shape, SentInv, FiniteInv
<1>3. GhostInv'
  <2>1. harmed' \subseteq Misfortune
    BY HarmForms DEF Deliver, Misfortune
  <2>2. QED BY <1>1, <2>1 DEF GhostInv, Inv, Shape, TableOf
<1> HIDE DEF request, overtakes
<1>4. /\ request.kind = "room" => stored' = Upserted(request.room, request.row) /\ marked' = marked
      /\ request.kind = "dropRoom" => RemoveRoom(request.room)
      /\ request.kind = "mark" => PutMark(request.mark)
      /\ request.kind = "dropMark" => RemoveMark(request.mark)
  BY <1>1, <1>2 DEF Apply, Kinds, PutRoom
<1>5. /\ request.kind = "room" =>
            /\ DOMAIN stored' = DOMAIN stored \cup {request.room}
            /\ stored'[request.room] = request.row
            /\ \A r \in DOMAIN stored \ {request.room} : stored'[r] = stored[r]
      /\ request.kind = "dropRoom" =>
            /\ DOMAIN stored' = DOMAIN stored \ {request.room}
            /\ \A r \in DOMAIN stored' : stored'[r] = stored[r]
      /\ MarkWrite(request) => stored' = stored
  BY <1>4 DEF Upserted, WithRoom, RemoveRoom, PutMark, RemoveMark, MarkWrite
<1>6. ~ Refused(request) => RowsAfter(request, marked, marked')
  BY <1>4 DEF RowsAfter, RemoveRoom, PutMark, RemoveMark, Refused, Marked
<1>7. marked' \subseteq marked \cup {m \in {request.mark} : MarkWrite(request)} /\ IsFiniteSet(marked')
  <2>1. CASE request.kind = "room"
    BY <1>2, <1>4, <2>1
  <2>2. CASE request.kind = "dropRoom"
    BY <1>2, <1>4, <2>2, FS_Subset DEF RemoveRoom
  <2>3. CASE request.kind = "dropMark"
    BY <1>2, <1>4, <2>3, FS_Subset DEF RemoveMark
  <2>4. CASE request.kind = "mark"
    <3>1. marked' = marked \/ marked' = Marked(request.mark)
      BY <1>4, <2>4 DEF PutMark
    <3>2. IsFiniteSet({n \in marked : ~SamePlace(request.mark, n)})
      BY <1>2, FS_Subset
    <3>3. IsFiniteSet(Marked(request.mark))
      BY <3>2, FS_AddElement DEF Marked
    <3>4. QED BY <1>2, <2>4, <3>1, <3>3 DEF Marked, MarkWrite
  <2>5. QED BY <1>2, <2>1, <2>2, <2>3, <2>4 DEF Kinds
<1>8. \A r \in DOMAIN stored' :
         \/ r \in DOMAIN stored /\ stored'[r].thread = stored[r].thread
         \/ /\ request.kind = "room" /\ r = request.room
            /\ stored'[r].thread = request.row.thread
  BY <1>2, <1>5 DEF Kinds, MarkWrite
<1>9. /\ Shape' /\ Owned' /\ MarkNames' /\ OnePerPlace(marks')
      /\ \A h \in DOMAIN sent' : \E g \in DOMAIN sent : sent'[h] = sent[g]
  BY <1>1, <1>3, <1>7, <1>8, SentRemoved DEF Spent, request
<1>10. MarkPlaces'
  <2>1. OnePerPlace(marked) /\ \A m \in marked : m.room \in DOMAIN stored
    BY DEF Inv, MarkPlaces
  <2>2. OnePerPlace(marked')
    BY <1>2, <1>4, <2>1 DEF OnePerPlace, RemoveRoom, RemoveMark, PutMark, Marked, SamePlace, Kinds
  <2>3. \A m \in marked' : m.room \in DOMAIN stored'
    <3>1. CASE request.kind = "room"
      BY <1>4, <1>5, <2>1, <3>1
    <3>2. CASE request.kind = "dropRoom"
      BY <1>4, <1>5, <2>1, <3>2 DEF RemoveRoom
    <3>3. CASE request.kind = "mark"
      BY <1>4, <1>5, <2>1, <3>3 DEF PutMark, Marked, MarkWrite
    <3>4. CASE request.kind = "dropMark"
      BY <1>4, <1>5, <2>1, <3>4 DEF RemoveMark, MarkWrite
    <3>5. QED BY <1>2, <3>1, <3>2, <3>3, <3>4 DEF Kinds
  <2>4. QED BY <1>9, <2>2, <2>3 DEF MarkPlaces
<1>11. RoomsInv'
  <2> SUFFICES ASSUME "rooms" \notin astray'
               PROVE  IF loaded.rooms THEN RoomsInStep(sent', stored', rooms)
                      ELSE \E list : RoomsInStep(sent', stored', list) /\ Extends(list)
    BY <1>1 DEF RoomsInv, Extends
  <2>1. \A list : RoomsInStep(sent, stored, list) => RoomsInStep(sent', stored', list)
    BY DeliverRooms
  <2>2. QED BY <1>1, <2>1 DEF Inv, RoomsInv
<1>12. MarksInv'
  <2> SUFFICES ASSUME loaded.marks, "marks" \notin astray'
               PROVE  /\ MarksInStep(sent', marked', marks, Cut)
                      /\ RoomsGone(sent', loaded.rooms, rooms)
    <3>1. Cut' = Cut
      BY <1>1 DEF Cut
    <3>2. QED BY <1>1, <3>1 DEF MarksInv
  <2>1. MarksInStep(sent, marked, marks, Cut) /\ RoomsGone(sent, loaded.rooms, rooms)
    BY <1>1 DEF Inv, MarksInv
  <2>2. ~ Refused(request) /\ (MarkWrite(request) => ~ overtakes)
    BY <1>1 DEF TableOf, MarkWrite, RoomWrite, Refused
  <2>3. IdsDiffer(marks \cup marked \cup MarksIn(sent))
    BY DEF Inv, MarkNames, Circulating
  <2>4. MarkWrite(request) => \A j \in 1..(i - 1) : ~ Needs(request, sent[j])
    BY <2>2 DEF overtakes
  <2>5. MarksInStep(RemoveAt(sent, i), marked', marks, Cut)
    BY <1>2, <1>6, <2>1, <2>2, <2>3, <2>4, MarksDelivered DEF request
  <2>6. RoomsGone(sent', loaded.rooms, rooms)
    BY <1>9, <2>1 DEF RoomsGone
  <2>7. QED BY <1>1, <2>5, <2>6
<1>13. QED BY <1>9, <1>10, <1>11, <1>12 DEF Inv

LEMMA LoseInv ==
    ASSUME BoundsAssumption, Inv, NEW i \in DOMAIN sent, Lose(i)
    PROVE  Inv'
<1>1. /\ sent' = RemoveAt(sent, i) /\ astray' = astray \cup {TableOf(sent[i])} /\ Spent
      /\ UNCHANGED <<rooms, active, marks, loaded, turn, edit, stored, marked>>
  BY DEF Lose, page, server, Fault, Spent
<1>2. sent[i].kind \in Kinds /\ IsList(sent) /\ IsFiniteSet(marked)
  BY DEF Inv, Shape, SentInv, FiniteInv
<1>3. GhostInv'
  <2>1. harmed' \subseteq Misfortune
    BY HarmForms DEF Lose, Misfortune
  <2>2. QED BY <1>1, <2>1 DEF GhostInv, Inv, Shape, TableOf
<1>4. /\ Shape' /\ Owned' /\ MarkNames' /\ OnePerPlace(marks')
      /\ \A h \in DOMAIN sent' : \E g \in DOMAIN sent : sent'[h] = sent[g]
  BY <1>1, <1>2, <1>3, SentRemoved
<1>5. MarkPlaces'
  BY <1>1 DEF Inv, MarkPlaces
<1>6. RoomsInv'
  <2> SUFFICES ASSUME "rooms" \notin astray'
               PROVE  IF loaded.rooms THEN RoomsInStep(sent', stored, rooms)
                      ELSE \E list : RoomsInStep(sent', stored, list) /\ Extends(list)
    BY <1>1 DEF RoomsInv, Extends
  <2>1. ~ RoomWrite(sent[i]) /\ "rooms" \notin astray
    BY <1>1 DEF TableOf
  <2>2. \A r \in Thread : AgreeOn(r, stored, stored) /\ ~ About(sent[i], r)
    BY <2>1 DEF AgreeOn, SameRow, About
  <2>3. ASSUME NEW list, RoomsInStep(sent, stored, list)
        PROVE  RoomsInStep(RemoveAt(sent, i), stored, list)
    BY <1>2, <2>1, <2>2, <2>3, RoomsDelivered
  <2>4. QED BY <1>1, <2>1, <2>3 DEF Inv, RoomsInv
<1>7. MarksInv'
  <2> SUFFICES ASSUME loaded.marks, "marks" \notin astray'
               PROVE  /\ MarksInStep(sent', marked, marks, Cut)
                      /\ RoomsGone(sent', loaded.rooms, rooms)
    <3>1. Cut' = Cut
      BY <1>1 DEF Cut
    <3>2. QED BY <1>1, <3>1 DEF MarksInv
  <2>1. MarksInStep(sent, marked, marks, Cut) /\ RoomsGone(sent, loaded.rooms, rooms)
    BY <1>1 DEF Inv, MarksInv
  <2>2. RoomWrite(sent[i]) /\ ~ MarkWrite(sent[i])
    BY <1>1 DEF TableOf, MarkWrite, RoomWrite
  <2>3. IdsDiffer(marks \cup marked \cup MarksIn(sent))
    BY DEF Inv, MarkNames, Circulating
  <2>4. RowsAfter(sent[i], marked, marked)
    BY <2>2 DEF RowsAfter, RoomWrite
  <2>5. MarksInStep(RemoveAt(sent, i), marked, marks, Cut)
    BY <1>2, <2>1, <2>2, <2>3, <2>4, MarksDelivered
  <2>6. RoomsGone(sent', loaded.rooms, rooms)
    BY <1>4, <2>1 DEF RoomsGone
  <2>7. QED BY <1>1, <2>5, <2>6
<1>8. QED BY <1>4, <1>5, <1>6, <1>7 DEF Inv

-----------------------------------------------------------------------------
(* Loading the page.                                                        *)

LEMMA RoomExcept ==
    ASSUME NEW x, IsRoom(x), NEW v
    PROVE  /\ [x EXCEPT !.restoring = v] = [thread |-> x.thread, title |-> x.title,
                                            messages |-> x.messages, restoring |-> v]
           /\ [x EXCEPT !.messages = v] = [thread |-> x.thread, title |-> x.title,
                                           messages |-> v, restoring |-> x.restoring]
<1>1. PICK a, b, c, d : x = [thread |-> a, title |-> b, messages |-> c, restoring |-> d]
  BY DEF IsRoom
<1>2. QED BY <1>1

LEMMA CopiedRows ==
    ASSUME NEW list, RoomForms(list)
    PROVE  SameRows(list, [r \in DOMAIN list |-> [list[r] EXCEPT !.restoring = FALSE]])
<1> SUFFICES ASSUME NEW r \in DOMAIN list
             PROVE  LET x == [list[r] EXCEPT !.restoring = FALSE]
                    IN  IsRoom(x) /\ SameRow(x, list[r])
  BY DEF SameRows
<1>1. [list[r] EXCEPT !.restoring = FALSE] =
          [thread |-> list[r].thread, title |-> list[r].title,
           messages |-> list[r].messages, restoring |-> FALSE]
  BY RoomExcept DEF RoomForms
<1>2. QED BY <1>1 DEF IsRoom, SameRow

LEMMA ReloadInv ==
    ASSUME BoundsAssumption, Inv, NEW copies, Reload(copies)
    PROVE  Inv'
<1>1. /\ loaded' = [rooms |-> FALSE, marks |-> FALSE] /\ turn' = NoTurn /\ edit' = NoEdit
      /\ UNCHANGED <<stored, marked, sent, active>> /\ Spent
      /\ marks' = IF copies THEN marks ELSE {}
      /\ astray' \subseteq astray \cup {"marks"}
  BY DEF Reload, server, Spent
<1>2. RoomForms(rooms') /\ \A r \in DOMAIN rooms' : r \in DOMAIN rooms /\ rooms'[r].thread = rooms[r].thread
  <2>1. RoomForms(rooms)
    BY DEF Inv, Shape, PageInv
  <2>2. CASE copies
    <3>1. rooms' = [r \in DOMAIN rooms |-> [rooms[r] EXCEPT !.restoring = FALSE]]
      BY <2>2 DEF Reload
    <3>2. SameRows(rooms, [r \in DOMAIN rooms |-> [rooms[r] EXCEPT !.restoring = FALSE]])
      BY <2>1, CopiedRows
    <3>3. SameRows(rooms, rooms')
      BY <3>1, <3>2
    <3>4. QED BY <3>3, SameRowsForms DEF SameRows, SameRow
  <2>3. CASE ~ copies
    <3>1. DOMAIN rooms' = {}
      <4>1. rooms' = <<>>
        BY <2>3 DEF Reload
      <4>2. QED BY <4>1, EmptyList, ListFacts
    <3>2. QED BY <3>1 DEF RoomForms
  <2>4. QED BY <2>2, <2>3
<1>3. marks' \subseteq marks
  BY <1>1
<1>4. UsedInv' /\ used'.threads = used.threads /\ used'.marks = used.marks
  BY <1>1, SpentForms DEF Inv, Shape
<1>5. harmed' \subseteq Misfortune
  <2>1. harmed \subseteq Misfortune
    BY DEF Inv, Shape, GhostInv
  <2>2. harmed' \subseteq harmed \cup {"answers", "unstored", "halfcut", "stale mark", "mixed"}
    BY DEF Reload
  <2>3. QED BY <2>1, <2>2 DEF Misfortune
<1>6. Shape'
  <2>1. SentInv' /\ GhostInv'
    BY <1>1, <1>4, <1>5 DEF Inv, Shape, SentInv, GhostInv
  <2>2. PageInv'
    BY <1>1, <1>2 DEF PageInv, IsEdit
  <2>3. FiniteInv'
    BY <1>1, <1>3, FS_Subset DEF Inv, Shape, FiniteInv
  <2>4. QED BY <1>4, <2>1, <2>2, <2>3 DEF Shape
<1>7. Owned'
  <2>1. Claims' \subseteq Claims
    BY <1>1, <1>2 DEF Claims, ClaimsOf
  <2>2. QED BY <1>4, <2>1, OwnedStep DEF Inv, Shape
<1>8. MarkNames'
  <2>1. Circulating' \subseteq Circulating
    BY <1>1, <1>3 DEF Circulating
  <2>2. QED BY <1>4, <2>1 DEF Inv, MarkNames, IdsDiffer
<1>9. MarkPlaces'
  BY <1>1, <1>3 DEF Inv, MarkPlaces, OnePerPlace
<1>10. RoomsInv'
  <2> SUFFICES ASSUME "rooms" \notin astray'
               PROVE  \E list : RoomsInStep(sent, stored, list) /\ Extends(list)'
    BY <1>1 DEF RoomsInv
  <2>1. "rooms" \notin astray
    BY DEF Reload
  <2>2. \A r \in DOMAIN rooms' : r \in DOMAIN rooms /\ SameRow(rooms'[r], rooms[r])
    <3>1. CASE copies
      <4>1. RoomForms(rooms)
        BY DEF Inv, Shape, PageInv
      <4>2. rooms' = [r \in DOMAIN rooms |-> [rooms[r] EXCEPT !.restoring = FALSE]]
        BY <3>1 DEF Reload
      <4>3. SameRows(rooms, rooms')
        BY <4>1, <4>2, CopiedRows
      <4>4. QED BY <4>3 DEF SameRows
    <3>2. CASE ~ copies
      <4>1. rooms' = <<>>
        BY <3>2 DEF Reload
      <4>2. DOMAIN rooms' = {}
        BY <4>1, EmptyList, ListFacts
      <4>3. QED BY <4>2
    <3>3. QED BY <3>1, <3>2
  <2>3. PICK list : RoomsInStep(sent, stored, list) /\ Extends(list)
    <3>1. Extends(rooms)
      BY DEF Extends, SameRow
    <3>2. QED BY <2>1, <3>1 DEF Inv, RoomsInv
  <2>4. Extends(list)'
    BY <2>2, <2>3 DEF Extends, SameRow
  <2>5. QED BY <2>3, <2>4
<1>10a. MarksInv'
  BY <1>1 DEF MarksInv
<1>11. QED BY <1>6, <1>7, <1>8, <1>9, <1>10, <1>10a DEF Inv

\* What Show leaves: a list whose rows are those of "list", but for a first room.
LEMMA ShowPosts ==
    ASSUME BoundsAssumption, Inv, NEW list, NEW writes, NEW spent, ~ loaded.rooms,
           Show(list, writes, spent), edit' = edit, RoomForms(list), IsList(writes),
           \A y : Holds(writes, y) => \E r \in DOMAIN list : y = UpsertRoom(r, list[r]),
           \A r \in DOMAIN list : <<list[r].thread, r>> \in Claims,
           spent = used \/ spent = [used EXCEPT !.faults = @ + 1]
    PROVE  /\ RoomForms(rooms') /\ active' \in DOMAIN rooms'
           /\ \E x : NamesStep(x)
           /\ \E p : /\ IsList(p) /\ Post(p)
                     /\ \A y : Holds(p, y) =>
                           \E r \in DOMAIN rooms' : y = UpsertRoom(r, rooms'[r])
                     /\ \A y : Holds(writes, y) => Holds(p, y)
                     /\ \A r \in Thread : \/ AgreeOn(r, list, rooms')
                                          \/ Holds(p, UpsertRoom(r, rooms'[r]))
<1>1. CASE DOMAIN list = {}
  <2> DEFINE p == <<UpsertRoom(Fresh, EmptyRoom(Fresh))>>
  <2>1. /\ Fresh <= MaxThreads /\ rooms' = [r \in {Fresh} |-> EmptyRoom(r)]
        /\ active' = Fresh /\ Post(p) /\ used' = [spent EXCEPT !.threads = Fresh]
    BY <1>1 DEF Show
  <2>2. DOMAIN rooms' = {Fresh} /\ rooms'[Fresh] = EmptyRoom(Fresh)
    BY <2>1
  <2>3. IsList(p) /\ \A y : Holds(p, y) <=> y = UpsertRoom(Fresh, rooms'[Fresh])
    BY <2>2, OneList, HoldsOne
  <2> HIDE DEF p
  <2>4. UsedInv' /\ used'.threads = Fresh /\ used'.marks = used.marks
    <3>1. used \in UsedNames /\ UsedInv /\ Fresh = used.threads + 1
      BY DEF Inv, Shape, UsedInv, Fresh
    <3>2. PICK f \in Nat : used' = [threads |-> Fresh, turns |-> used.turns, sends |-> used.sends,
              attempts |-> used.attempts, marks |-> used.marks, changes |-> used.changes,
              reloads |-> used.reloads, faults |-> f]
      <4>1. spent \in UsedNames /\ spent = [used EXCEPT !.faults = spent.faults]
        BY <3>1 DEF UsedNames
      <4>2. used' = [threads |-> Fresh, turns |-> used.turns, sends |-> used.sends,
              attempts |-> used.attempts, marks |-> used.marks, changes |-> used.changes,
              reloads |-> used.reloads, faults |-> spent.faults]
        BY <2>1, <3>1, <4>1 DEF UsedNames
      <4>3. QED BY <4>1, <4>2 DEF UsedNames
    <3>3. /\ used'.threads = Fresh /\ used'.turns = used.turns /\ used'.marks = used.marks
          /\ used.threads \in Nat
      BY <3>1, <3>2 DEF UsedNames
    <3>4. used' \in UsedNames
      BY <3>1, <3>2 DEF UsedNames
    <3>5. QED BY <2>1, <3>1, <3>3, <3>4 DEF UsedInv
  <2>5. NamesStep(Fresh)
    <3>1. edit' = NoEdit
      BY DEF Inv, Shape, PageInv
    <3>2. QED BY <2>2, <2>4, <3>1, FreshName, EmptyRoomForm DEF NamesStep
  <2>6. \A r \in Thread : AgreeOn(r, list, rooms') \/ Holds(p, UpsertRoom(r, rooms'[r]))
    BY <1>1, <2>2, <2>3 DEF AgreeOn
  <2>7. \A y : ~ Holds(writes, y)
    BY <1>1
  <2>8. RoomForms(rooms')
    BY <2>2, EmptyRoomForm DEF RoomForms
  <2>9. \A y : Holds(p, y) => \E r \in DOMAIN rooms' : y = UpsertRoom(r, rooms'[r])
    BY <2>2, <2>3
  <2>10. QED BY <2>1, <2>2, <2>3, <2>5, <2>6, <2>7, <2>8, <2>9
<1>2. CASE DOMAIN list # {}
  <2>1. active' \in DOMAIN list /\ rooms' = Opened(list, active') /\ Post(writes) /\ used' = spent
    BY <1>2 DEF Show
  <2>2. SameRows(list, rooms')
    BY <2>1, OpenedRows
  <2>3. RoomForms(rooms') /\ \A r : AgreeOn(r, list, rooms')
    BY <2>2, SameRowsForms
  <2>4. DOMAIN rooms' = DOMAIN list
    BY <2>2 DEF SameRows
  <2>5. NamesStep(1)
    <3>1. \A r \in DOMAIN rooms' : <<rooms'[r].thread, r>> \in Claims
      BY <2>2 DEF SameRows, SameRow
    <3>2. Spent
      BY <2>1 DEF Spent, Used
    <3>3. QED BY <3>1, <3>2, NamesKept
  <2>6. \A r \in DOMAIN list : UpsertRoom(r, list[r]) = UpsertRoom(r, rooms'[r])
    BY <2>2 DEF SameRows, SameRow, UpsertRoom, Row
  <2>7. \A y : Holds(writes, y) => \E r \in DOMAIN rooms' : y = UpsertRoom(r, rooms'[r])
    BY <2>4, <2>6
  <2>8. QED BY <2>1, <2>3, <2>4, <2>5, <2>7
<1>3. QED BY <1>1, <1>2

LEMMA RoomsLoaded ==
    ASSUME BoundsAssumption, Inv, ~ loaded.rooms, loaded' = [loaded EXCEPT !.rooms = TRUE],
           UNCHANGED <<stored, marked, marks, turn, edit>>,
           "marks" \in astray => "marks" \in astray', GhostInv',
           RoomForms(rooms'), active' \in DOMAIN rooms', NEW x, NamesStep(x),
           NEW p, IsList(p), Post(p),
           \A y : Holds(p, y) => \E r \in DOMAIN rooms' : y = UpsertRoom(r, rooms'[r]),
           RoomsInv'
    PROVE  Inv'
<1>1. ASSUME NEW j \in DOMAIN p
      PROVE  /\ p[j].kind = "room" /\ p[j].kind \in Kinds
             /\ Agrees(p[j], rooms') /\ p[j].room \in DOMAIN rooms'
  <2>1. PICK r \in DOMAIN rooms' : p[j] = UpsertRoom(r, rooms'[r])
    BY DEF Holds
  <2>2. QED BY <2>1, WriteForms DEF Agrees, SameRow, Kinds
<1>2. /\ Shape /\ IsList(sent) /\ UsedInv /\ Owned
      /\ loaded \in [rooms : BOOLEAN, marks : BOOLEAN] /\ edit = NoEdit
  BY DEF Inv, Shape, SentInv, PageInv
<1>3. \A i \in DOMAIN sent' :
         \/ i \in DOMAIN sent /\ sent'[i] = sent[i]
         \/ \E j \in DOMAIN p : sent'[i] = p[j]
  BY <1>2, Posted
<1>4. Owned'
  <2>1. \/ Claims' \subseteq Claims /\ used'.threads = used.threads
        \/ /\ Claims' \subseteq Claims \cup {<<Fresh, x>>}
           /\ used'.threads = Fresh /\ x \in 1..Fresh
    BY <1>1, <1>2, PostedClaims
  <2>2. QED BY <1>2, <2>1, OwnedStep
<1>5. SentInv'
  <2>1. DOMAIN rooms' \subseteq 1..used'.threads
    <3>1. \A r \in DOMAIN rooms' : <<rooms'[r].thread, r>> \in Claims'
      BY DEF Claims, ClaimsOf
    <3>2. QED BY <1>4, <3>1 DEF Owned
  <2>2. used'.threads \in Nat /\ used.threads <= used'.threads
    BY <1>2 DEF NamesStep, UsedInv, UsedNames, Fresh
  <2>3. SentInv
    BY <1>2 DEF Shape
  <2>4. QED BY <1>1, <1>2, <2>1, <2>2, <2>3, PostForms
<1>6. Shape'
  <2>1. PageInv'
    BY <1>2 DEF PageInv, IsEdit
  <2>2. UsedInv' /\ FiniteInv'
    BY <1>2 DEF NamesStep, Shape, FiniteInv
  <2>3. QED BY <1>5, <2>1, <2>2 DEF Shape
<1>7. MarkNames'
  <2>1. MarksIn(sent') \subseteq MarksIn(sent)
    BY <1>1, <1>3 DEF MarksIn, MarkWrite
  <2>2. Circulating' \subseteq Circulating
    BY <2>1 DEF Circulating
  <2>3. used'.marks = used.marks
    BY DEF NamesStep
  <2>4. QED BY <2>2, <2>3 DEF Inv, MarkNames, IdsDiffer
<1>8. MarkPlaces'
  BY DEF Inv, MarkPlaces
<1>9. MarksInv'
  <2> SUFFICES ASSUME loaded.marks, "marks" \notin astray
               PROVE  /\ MarksInStep(sent', marked, marks, Cut')
                      /\ RoomsGone(sent', TRUE, rooms')
    BY <1>2 DEF MarksInv
  <2>1. MarksInStep(sent, marked, marks, Cut) /\ RoomsGone(sent, loaded.rooms, rooms)
    BY DEF Inv, MarksInv
  <2>2. \A m \in marks : m \in Cut => m \in Cut'
    BY DEF Cut
  <2>3. \A m \in marks \ marks : \E j \in DOMAIN p : p[j] = DropMark(m)
    OBVIOUS
  <2>4. MarksInStep(sent \o p, marked, marks, Cut')
    BY <1>1, <1>2, <2>1, <2>2, <2>3, MarksDropped
  <2>5. RoomsGone(sent', TRUE, rooms')
    BY <1>1, <1>3, <2>1 DEF RoomsGone
  <2>6. QED BY <2>4, <2>5 DEF Post
<1>10. QED BY <1>4, <1>6, <1>7, <1>8, <1>9 DEF Inv

\* Rooms from the server keep the messages this browser has of them.
LEMMA AdoptedWords ==
    /\ DOMAIN Adopted = DOMAIN stored /\ RoomForms(Adopted)
    /\ \A r \in DOMAIN stored :
          /\ Adopted[r].thread = stored[r].thread /\ Adopted[r].title = stored[r].title
          /\ Adopted[r].restoring = FALSE
          /\ Adopted[r].messages = IF r \in DOMAIN rooms THEN rooms[r].messages ELSE Unread
<1>1. DOMAIN Adopted = DOMAIN stored
  BY DEF Adopted
<1>2. ASSUME NEW r \in DOMAIN stored
      PROVE  Adopted[r] = [thread |-> stored[r].thread, title |-> stored[r].title,
                           messages |-> IF r \in DOMAIN rooms THEN rooms[r].messages ELSE Unread,
                           restoring |-> FALSE]
  <2>1. ListedRooms[r] = [thread |-> stored[r].thread, title |-> stored[r].title,
                          messages |-> Unread, restoring |-> FALSE]
    BY DEF ListedRooms
  <2>2. Adopted[r] = IF r \in DOMAIN rooms
                     THEN [ListedRooms[r] EXCEPT !.messages = rooms[r].messages]
                     ELSE ListedRooms[r]
    BY DEF Adopted
  <2>3. PICK l : l = ListedRooms[r]
    OBVIOUS
  <2>4. IsRoom(l)
    BY <2>1, <2>3 DEF IsRoom
  <2>5. [l EXCEPT !.messages = rooms[r].messages] =
            [thread |-> l.thread, title |-> l.title, messages |-> rooms[r].messages,
             restoring |-> l.restoring]
    BY <2>4, RoomExcept
  <2>6. l.thread = stored[r].thread /\ l.title = stored[r].title /\ l.restoring = FALSE
    BY <2>1, <2>3
  <2>7. QED BY <2>1, <2>2, <2>3, <2>5, <2>6
<1>3. QED BY <1>1, <1>2 DEF RoomForms, IsRoom

\* The list that is shown, and the writes that go with it.
LEMMA LoadRoomsShows ==
    ASSUME BoundsAssumption, Inv, LoadRooms
    PROVE  \E list, writes :
              /\ Show(list, writes, used)
              /\ DOMAIN stored = {} => /\ list = rooms
                                       /\ \A r \in DOMAIN rooms : Holds(writes, UpsertRoom(r, rooms[r]))
              /\ DOMAIN stored # {} => list = Adopted
              /\ RoomForms(list) /\ IsList(writes)
              /\ \A y : Holds(writes, y) => \E r \in DOMAIN list : y = UpsertRoom(r, list[r])
              /\ \A r \in DOMAIN list : <<list[r].thread, r>> \in Claims
<1> DEFINE q == SetToSeq({UpsertRoom(r, rooms[r]) : r \in DOMAIN rooms})
<1>1. IF DOMAIN stored = {} THEN Show(rooms, q, used) ELSE Show(Adopted, <<>>, used)
  BY DEF LoadRooms
<1>2. IsList(q) /\ \A y : Holds(q, y) <=> \E r \in DOMAIN rooms : y = UpsertRoom(r, rooms[r])
  <2>1. IsFiniteSet(DOMAIN rooms)
    BY FiniteRooms DEF Inv, Shape
  <2>2. /\ IsList(q)
        /\ \A i \in DOMAIN q : \E r \in DOMAIN rooms : q[i] = UpsertRoom(r, rooms[r])
        /\ \A r \in DOMAIN rooms : \E i \in DOMAIN q : q[i] = UpsertRoom(r, rooms[r])
    BY ONLY <2>1, UpsertRoomList, Zenon
  <2> HIDE DEF q
  <2>3. QED BY <2>2 DEF Holds
<1> HIDE DEF q
<1>3. CASE DOMAIN stored = {}
  BY <1>1, <1>2, <1>3, RoomClaims DEF Inv, Shape, PageInv
<1>4. CASE DOMAIN stored # {}
  <2>1. \A r \in DOMAIN stored : <<stored[r].thread, r>> \in Claims
    BY DEF Claims, ClaimsOf
  <2>2. PICK writes : writes = <<>>
    OBVIOUS
  <2>3. PICK list : list = Adopted
    OBVIOUS
  <2>4. /\ Show(list, writes, used) /\ IsList(writes) /\ \A y : ~ Holds(writes, y)
        /\ RoomForms(list) /\ \A r \in DOMAIN list : <<list[r].thread, r>> \in Claims
    BY <1>1, <1>4, <2>1, <2>2, <2>3, EmptyList, HoldsNone, AdoptedWords
  <2>5. QED BY <1>4, <2>3, <2>4
<1>5. QED BY <1>3, <1>4

LEMMA LoadRoomsInv ==
    ASSUME BoundsAssumption, Inv, LoadRooms
    PROVE  Inv'
<1>1. /\ ~ loaded.rooms /\ loaded' = [loaded EXCEPT !.rooms = TRUE]
      /\ UNCHANGED <<stored, marked, marks, turn, edit>>
      /\ astray' = IF InFlight("rooms") THEN astray \cup {"rooms"} ELSE astray \ {"rooms"}
  BY DEF LoadRooms, server
<1>2. PICK list, writes :
              /\ Show(list, writes, used)
              /\ DOMAIN stored = {} => /\ list = rooms
                                       /\ \A r \in DOMAIN rooms : Holds(writes, UpsertRoom(r, rooms[r]))
              /\ DOMAIN stored # {} => list = Adopted
              /\ RoomForms(list) /\ IsList(writes)
              /\ \A y : Holds(writes, y) => \E r \in DOMAIN list : y = UpsertRoom(r, list[r])
              /\ \A r \in DOMAIN list : <<list[r].thread, r>> \in Claims
  BY LoadRoomsShows
<1>3. DOMAIN stored # {} =>
          DOMAIN list = DOMAIN stored /\ \A r \in DOMAIN stored : SameRow(list[r], stored[r])
  BY <1>2, AdoptedWords DEF SameRow
<1>4. /\ RoomForms(rooms') /\ active' \in DOMAIN rooms'
      /\ \E x : NamesStep(x)
      /\ \E p : /\ IsList(p) /\ Post(p)
                /\ \A y : Holds(p, y) =>
                      \E r \in DOMAIN rooms' : y = UpsertRoom(r, rooms'[r])
                /\ \A y : Holds(writes, y) => Holds(p, y)
                /\ \A r \in Thread : \/ AgreeOn(r, list, rooms')
                                     \/ Holds(p, UpsertRoom(r, rooms'[r]))
  BY <1>1, <1>2, ShowPosts
<1>5. PICK x : NamesStep(x)
  BY <1>4
<1>6. PICK p : /\ IsList(p) /\ Post(p)
               /\ \A y : Holds(p, y) =>
                     \E r \in DOMAIN rooms' : y = UpsertRoom(r, rooms'[r])
               /\ \A y : Holds(writes, y) => Holds(p, y)
               /\ \A r \in Thread : \/ AgreeOn(r, list, rooms')
                                    \/ Holds(p, UpsertRoom(r, rooms'[r]))
  BY <1>4
<1>7. RoomsInv'
  <2>0. loaded'.rooms
    BY <1>1 DEF Inv, Shape, PageInv
  <2> SUFFICES ASSUME "rooms" \notin astray'
               PROVE  RoomsInStep(sent', stored, rooms')
    BY <1>1, <2>0 DEF RoomsInv
  <2>1. \A i \in DOMAIN sent : ~ RoomWrite(sent[i])
    BY <1>1 DEF InFlight, TableOf
  <2>2. IsList(sent)
    BY DEF Inv, Shape, SentInv
  <2>3. RoomsInStep(sent, stored, stored)
    BY <2>1 DEF RoomsInStep, LastAbout, AgreeOn, SameRow
  <2>4. \A j \in DOMAIN p : RoomWrite(p[j]) => Agrees(p[j], rooms')
    <3> SUFFICES ASSUME NEW j \in DOMAIN p PROVE Agrees(p[j], rooms')
      OBVIOUS
    <3>1. PICK r \in DOMAIN rooms' : p[j] = UpsertRoom(r, rooms'[r])
      BY <1>6 DEF Holds
    <3>2. QED BY <3>1, WriteForms DEF Agrees, SameRow
  <2>5. ASSUME NEW r \in Thread, \A j \in DOMAIN p : ~ About(p[j], r)
        PROVE  AgreeOn(r, stored, rooms')
    <3>1. \A room : ~ Holds(p, UpsertRoom(r, room))
      BY <2>5, WriteForms DEF Holds, About
    <3>2. AgreeOn(r, list, rooms')
      BY <1>6, <3>1
    <3>3. CASE DOMAIN stored = {}
      <4>1. r \notin DOMAIN rooms
        BY <1>2, <1>6, <3>1, <3>3
      <4>2. QED BY <1>2, <3>2, <3>3, <4>1 DEF AgreeOn
    <3>4. CASE DOMAIN stored # {}
      BY <1>3, <3>2, <3>4 DEF AgreeOn, SameRow
    <3>5. QED BY <3>3, <3>4
  <2>6. RoomsInStep(sent \o p, stored, rooms')
    BY <1>6, <2>1, <2>2, <2>3, <2>4, <2>5, RoomsPosted
  <2>7. QED BY <1>6, <2>6 DEF Post
<1>8. GhostInv'
  <2>1. harmed' \subseteq Misfortune
    BY HarmForms DEF LoadRooms, Misfortune
  <2>2. QED BY <1>1, <2>1 DEF Inv, Shape, GhostInv
<1>9. "marks" \in astray => "marks" \in astray'
  BY <1>1
<1>10. QED BY <1>1, <1>4, <1>5, <1>6, <1>7, <1>8, <1>9, RoomsLoaded

LEMMA LoadRoomsFailsInv ==
    ASSUME BoundsAssumption, Inv, LoadRoomsFails
    PROVE  Inv'
<1>1. /\ ~ loaded.rooms /\ loaded' = [loaded EXCEPT !.rooms = TRUE]
      /\ UNCHANGED <<stored, marked, marks, turn, edit, harmed>>
      /\ astray' = astray \cup {"rooms"} /\ Show(rooms, <<>>, [used EXCEPT !.faults = @ + 1])
  BY DEF LoadRoomsFails, server
<1>2. RoomForms(rooms) /\ IsList(<<>>) /\ (\A y : ~ Holds(<<>>, y))
  BY EmptyList, HoldsNone DEF Inv, Shape, PageInv
<1>3. PICK spent : spent = [used EXCEPT !.faults = @ + 1] /\ Show(rooms, <<>>, spent)
  BY <1>1
<1>4. /\ RoomForms(rooms') /\ active' \in DOMAIN rooms'
      /\ \E x : NamesStep(x)
      /\ \E p : /\ IsList(p) /\ Post(p)
                /\ \A y : Holds(p, y) =>
                      \E r \in DOMAIN rooms' : y = UpsertRoom(r, rooms'[r])
  <2>1. PICK writes : writes = <<>>
    OBVIOUS
  <2>2. IsList(writes) /\ Show(rooms, writes, spent) /\ \A y : ~ Holds(writes, y)
    BY <1>2, <1>3, <2>1
  <2>3. QED BY <1>1, <1>2, <1>3, <2>2, RoomClaims, ShowPosts
<1>5. RoomsInv' /\ GhostInv'
  BY <1>1 DEF RoomsInv, GhostInv, Inv, Shape
<1>6. QED BY <1>1, <1>4, <1>5, RoomsLoaded

LEMMA LoadMarksFailsInv ==
    ASSUME BoundsAssumption, Inv, LoadMarksFails
    PROVE  Inv'
<1>1. /\ loaded' = [loaded EXCEPT !.marks = TRUE] /\ astray' = astray \cup {"marks"} /\ Spent
      /\ UNCHANGED <<stored, marked, sent, rooms, active, marks, turn, edit>>
      /\ harmed' \subseteq Misfortune
  BY HarmForms DEF LoadMarksFails, server, Fault, Spent, Misfortune
<1>2. UsedInv' /\ used'.threads = used.threads /\ used'.marks = used.marks
  BY <1>1, SpentForms DEF Inv, Shape
<1>3. Shape'
  BY <1>1, <1>2 DEF Inv, Shape, SentInv, PageInv, GhostInv, FiniteInv
<1>4. Owned'
  <2>1. Claims' = Claims
    BY <1>1 DEF Claims, ClaimsOf
  <2>2. QED BY <1>2, <2>1, OwnedStep DEF Inv, Shape
<1>5. MarkNames' /\ MarkPlaces'
  <2>1. Circulating' = Circulating
    BY <1>1 DEF Circulating
  <2>2. QED BY <1>1, <1>2, <2>1 DEF Inv, MarkNames, MarkPlaces
<1>6. RoomsInv'
  BY <1>1 DEF Inv, Shape, PageInv, RoomsInv, Extends
<1>7. MarksInv'
  BY <1>1 DEF MarksInv
<1>8. QED BY <1>3, <1>4, <1>5, <1>6, <1>7 DEF Inv


LEMMA LoadMarksInv ==
    ASSUME BoundsAssumption, Inv, LoadMarks
    PROVE  Inv'
<1> DEFINE missing == {m \in marks : \A n \in marked : ~SamePlace(m, n)}
           early == \E i \in DOMAIN sent : sent[i].kind # "room"
           p == Requests(UpsertMark, missing)
<1>1. /\ ~ loaded.marks /\ loaded' = [loaded EXCEPT !.marks = TRUE]
      /\ marks' = marked \cup missing /\ Post(p)
      /\ astray' = IF early THEN astray \cup {"marks"} ELSE astray \ {"marks"}
      /\ UNCHANGED <<stored, marked, rooms, active, turn, edit, used>>
  BY DEF LoadMarks, server
<1>2. /\ missing \subseteq marks /\ \A m \in missing, n \in marked : ~ SamePlace(m, n)
      /\ IsFiniteSet(marks) /\ IsFiniteSet(marked) /\ IsList(sent) /\ Shape /\ Owned /\ UsedInv
  BY DEF Inv, Shape, FiniteInv, SentInv
<1>3. IsFiniteSet(missing)
  BY <1>2, FS_Subset
<1> HIDE DEF missing
<1>4. /\ IsList(p)
      /\ \A j \in DOMAIN p : \E m \in missing : p[j] = UpsertMark(m)
      /\ \A m \in missing : \E j \in DOMAIN p : p[j] = UpsertMark(m)
  BY ONLY <1>3, UpsertMarkList, Zenon
<1> HIDE DEF p
<1>5. \A j \in DOMAIN p : /\ p[j].kind \in Kinds /\ p[j].kind = "mark"
                          /\ p[j].mark \in missing /\ ~ RoomWrite(p[j])
  BY <1>4, WriteForms DEF Kinds
<1>6. \A i \in DOMAIN sent' :
         \/ i \in DOMAIN sent /\ sent'[i] = sent[i]
         \/ \E j \in DOMAIN p : sent'[i] = p[j]
  BY <1>1, <1>2, <1>4, Posted
<1>7. SentInv'
  <2>1. SentInv /\ used.threads \in Nat
    BY <1>2 DEF Shape, UsedInv, UsedNames
  <2>2. QED BY <1>1, <1>2, <1>4, <1>5, <2>1, PostForms
<1>8. harmed' \subseteq Misfortune
  BY HarmForms DEF LoadMarks, Misfortune
<1>9. Shape'
  <2>1. IsFiniteSet(marks')
    BY <1>1, <1>2, <1>3, FS_Union
  <2>2. PageInv'
    BY <1>1, <1>2 DEF Shape, PageInv
  <2>3. GhostInv'
    BY <1>1, <1>2, <1>8 DEF Shape, GhostInv
  <2>4. QED BY <1>1, <1>2, <1>7, <2>1, <2>2, <2>3 DEF Shape, FiniteInv, UsedInv
<1>10. Owned'
  <2>1. \A i \in DOMAIN sent' : sent'[i].kind = "room" => i \in DOMAIN sent /\ sent'[i] = sent[i]
    BY <1>5, <1>6
  <2>2. Claims' \subseteq Claims
    BY <1>1, <2>1 DEF Claims, ClaimsOf
  <2>3. QED BY <1>1, <1>2, <2>2, OwnedStep
<1>11. MarkNames'
  <2>1. MarksIn(sent') \subseteq MarksIn(sent) \cup missing
    BY <1>5, <1>6 DEF MarksIn
  <2>2. Circulating' \subseteq Circulating
    BY <1>1, <1>2, <2>1 DEF Circulating
  <2>3. QED BY <1>1, <2>2 DEF Inv, MarkNames, IdsDiffer
<1>12. MarkPlaces'
  BY <1>1, <1>2 DEF Inv, MarkPlaces, OnePerPlace, SamePlace
<1>13. RoomsInv'
  <2>1. RoomsStep(p)
    BY <1>1, <1>5 DEF RoomsStep, AgreeOn, SameRow
  <2>2. loaded'.rooms = loaded.rooms /\ ("rooms" \in astray => "rooms" \in astray')
    BY <1>1, <1>2 DEF Shape, PageInv
  <2>3. \A j \in DOMAIN p : ~ RoomWrite(p[j])
    BY <1>5
  <2>4. QED BY <1>1, <1>4, <2>1, <2>2, <2>3, RoomsPostedInv
<1>14. MarksInv'
  <2> SUFFICES ASSUME "marks" \notin astray'
               PROVE  /\ MarksInStep(sent', marked, marks', Cut')
                      /\ RoomsGone(sent', loaded'.rooms, rooms)
    BY <1>1 DEF MarksInv
  <2>1. \A i \in DOMAIN sent : sent[i].kind = "room"
    BY <1>1
  <2>2. \A m, n \in missing : SamePlace(m, n) => m = n
    BY <1>2 DEF Inv, MarkPlaces, OnePerPlace
  <2>3. MarksInStep(sent \o p, marked, marked \cup missing, Cut')
    BY <1>2, <1>4, <2>1, <2>2, MarksLoaded
  <2>4. RoomsGone(sent', loaded'.rooms, rooms)
    BY <1>5, <1>6, <2>1 DEF RoomsGone
  <2>5. QED BY <1>1, <2>3, <2>4 DEF Post
<1>15. QED BY <1>9, <1>10, <1>11, <1>12, <1>13, <1>14 DEF Inv

-----------------------------------------------------------------------------
(* Theorems.                                                                *)

LEMMA InitInv == BoundsAssumption /\ Init => Inv
<1> SUFFICES ASSUME BoundsAssumption, Init PROVE Inv
  OBVIOUS
<1>1. /\ DOMAIN stored = {1} /\ stored[1] = [thread |-> 1, title |-> "new"]
      /\ DOMAIN rooms = {1} /\ rooms[1] = EmptyRoom(1)
      /\ sent = <<>> /\ IsList(sent) /\ Len(sent) = 0 /\ DOMAIN sent = {}
      /\ marks = {} /\ marked = {} /\ edit = NoEdit /\ active = 1
  BY EmptyList, ListFacts DEF Init
<1>2. used \in UsedNames /\ used.threads = 1 /\ used.turns = 0 /\ used.marks = 0
  BY DEF Init, UsedNames
<1>3. MaxThreads \in Nat \ {0} /\ MaxTurns \in Nat /\ MaxMarks \in Nat /\ MaxSent \in Nat
  BY DEF BoundsAssumption
<1>4. Shape
  <2>1. UsedInv
    BY <1>2, <1>3 DEF UsedInv
  <2>2. SentInv
    BY <1>1, <1>3 DEF SentInv
  <2>3. PageInv
    BY <1>1, EmptyRoomForm DEF Init, PageInv, RoomForms, IsEdit
  <2>4. QED BY <1>1, <2>1, <2>2, <2>3, FS_EmptySet DEF Init, Shape, GhostInv, FiniteInv
<1>5. Owned
  <2>1. Claims = {<<1, 1>>}
    BY <1>1, EmptyRoomForm DEF Claims, ClaimsOf
  <2>2. QED BY <1>2, <2>1 DEF Owned
<1>6. MarkNames
  <2>1. Circulating = {}
    BY <1>1 DEF Circulating, MarksIn
  <2>2. QED BY <2>1 DEF MarkNames, IdsDiffer
<1>7. MarkPlaces
  BY <1>1 DEF MarkPlaces, OnePerPlace
<1>8. RoomsInv
  <2>1. \A r \in Thread : AgreeOn(r, stored, rooms)
    BY <1>1, EmptyRoomForm DEF AgreeOn, SameRow
  <2>2. loaded.rooms
    BY DEF Init
  <2>3. QED BY <1>1, <2>1, <2>2 DEF RoomsInv, RoomsInStep
<1>9. MarksInv
  BY <1>1 DEF MarksInv, MarksInStep, Registered, Prevails, Withdrawn, Leftover, Spared, RoomsGone
<1>10. QED BY <1>4, <1>5, <1>6, <1>7, <1>8, <1>9 DEF Inv

LEMMA NextInv == BoundsAssumption /\ Inv /\ [Next]_vars => Inv'
<1> SUFFICES ASSUME BoundsAssumption, Inv, [Next]_vars PROVE Inv'
  OBVIOUS
<1>1. CASE CreateRoom \/ ResetSession \/ Send
  BY <1>1, CreateRoomPosts, CreateUnlistedInv, ResetSessionPosts, SendPosts, PostingKeepsInv
<1>2. CASE \E r \in DOMAIN rooms :
              \/ SwitchRoom(r) \/ DeleteRoom(r)
              \/ RestoreMessages(r) \/ RestoreFails(r)
              \/ RenameRoom(r) \/ SetRoomModel(r)
  <2>1. PICK r \in DOMAIN rooms :
              \/ SwitchRoom(r) \/ DeleteRoom(r)
              \/ RestoreMessages(r) \/ RestoreFails(r)
              \/ RenameRoom(r) \/ SetRoomModel(r)
    BY <1>2
  <2>2. CASE SwitchRoom(r)
    BY <2>2, SwitchRoomQuiet, QuietKeepsInv
  <2>3. CASE DeleteRoom(r)
    BY <2>3, DeleteRoomPosts, PostingKeepsInv
  <2>4. CASE RestoreMessages(r) \/ RestoreFails(r)
    BY <2>4, RestoreQuiet, QuietKeepsInv
  <2>5. CASE RenameRoom(r) \/ SetRoomModel(r)
    <3>1. \E title : SendRow(r, title)
      BY <2>5 DEF RenameRoom, SetRoomModel
    <3>2. QED BY <3>1, SendRowPosts, PostingKeepsInv
  <2>6. QED BY <2>1, <2>2, <2>3, <2>4, <2>5
<1>3. CASE \E i \in DOMAIN Shown : Shown[i].role = "error" /\ RetryError(Shown[i])
  <2>1. PICK bubble : RetryError(bubble)
    BY <1>3
  <2>2. QED BY <2>1, RetryErrorQuiet, QuietKeepsInv
<1>4. CASE \E k \in 0..(MaxTurns - 1) : SubmitEdit(k)
  BY <1>4, SubmitEditQuiet, QuietKeepsInv
<1>5. CASE \/ \E k \in 0..(Cardinality(Answers(Shown)) - 1) : ToggleMark(active, k)
           \/ \E m \in ShownMarks : ToggleMark(m.room, m.index)
  BY <1>5, ToggleMarkPosts
<1>6. CASE StoreQuestion \/ HearToken \/ StoreAnswer
  BY <1>6, TurnStoresQuiet, QuietKeepsInv
<1>7. CASE CompleteTurn \/ ModelFails \/ StopTurn
  BY <1>7, TurnEndsQuiet, QuietKeepsInv
<1>8. CASE BreakConnection \/ \E retryable \in BOOLEAN : RefuseRequest(retryable)
  <2>1. PICK retryable : TurnFails(retryable) /\ turn.phase \in {"asking", "answering", "answered"}
    BY <1>8 DEF BreakConnection, RefuseRequest
  <2>2. turn # NoTurn
    BY <2>1 DEF NoTurn
  <2>3. QED BY <2>1, <2>2, TurnFailsQuiet, QuietKeepsInv
<1>9. CASE TruncateThread
  BY <1>9, TruncateThreadInv
<1>10. CASE FinishEdit
  BY <1>10, FinishEditPosts, PostingKeepsInv
<1>11. CASE EditFails
  BY <1>11, EditFailsQuiet, QuietKeepsInv
<1>12. CASE \E i \in DOMAIN sent : Deliver(i) \/ Lose(i)
  BY <1>12, DeliverInv, LoseInv
<1>13. CASE \E copies \in BOOLEAN : Reload(copies)
  BY <1>13, ReloadInv
<1>14. CASE LoadRooms \/ LoadRoomsFails
  BY <1>14, LoadRoomsInv, LoadRoomsFailsInv
<1>15. CASE LoadMarks \/ LoadMarksFails
  BY <1>15, LoadMarksInv, LoadMarksFailsInv
<1>16. CASE UNCHANGED vars
  BY <1>16, StutterQuiet, QuietKeepsInv
<1>17. QED BY <1>1, <1>2, <1>3, <1>4, <1>5, <1>6, <1>7, <1>8, <1>9, <1>10, <1>11, <1>12,
              <1>13, <1>14, <1>15, <1>16 DEF Next

\* In every behaviour page, server and the writes between them are in step: the
\* last write in flight about a room says what the page has (or, while the list is
\* loading, a list that holds the page's rooms), every bookmark of the page is a row
\* or on its way, and none that it dropped comes back
\* (useRooms.js, useBookmarks.js, room_service.py, bookmark_service.py).
THEOREM PageAndServerInStep == Spec => []Inv
<1>1. Init => Inv
  BY InitInv, BoundsAssumption
<1>2. Inv /\ [Next]_vars => Inv'
  BY NextInv, BoundsAssumption
<1>3. QED BY <1>1, <1>2, PTL DEF Spec

LEMMA InvTypeOK == Inv => TypeOK
<1> SUFFICES ASSUME Inv PROVE TypeOK
  OBVIOUS
<1>1. Shape /\ Owned /\ MarkPlaces
  BY DEF Inv
<1>2. /\ DOMAIN stored \cup DOMAIN rooms \subseteq 1..used.threads
      /\ \A r \in DOMAIN stored : stored[r].thread \in 1..used.threads
  BY <1>1, OwnedNames
<1>3. /\ \A m, n \in marked : SamePlace(m, n) => m = n
      /\ \A m, n \in marks : SamePlace(m, n) => m = n
      /\ \A m \in marked : m.room \in DOMAIN stored
  BY <1>1 DEF MarkPlaces, OnePerPlace
<1>4. /\ turn # NoTurn \/ edit # NoEdit => loaded.rooms
      /\ loaded.rooms => active \in DOMAIN rooms
  BY <1>1 DEF Shape, PageInv
<1>5. /\ harmed \subseteq Misfortune /\ astray \subseteq {"rooms", "marks"}
      /\ used.threads <= MaxThreads /\ used.turns <= MaxTurns
      /\ used.marks <= MaxMarks /\ Len(sent) <= MaxSent
  BY <1>1 DEF Shape, GhostInv, UsedInv, SentInv
<1>6. QED BY <1>2, <1>3, <1>4, <1>5 DEF TypeOK

\* Threads and rooms are drawn from the names made so far, rows obey the unique
\* place and the foreign key of chat_bookmark, a turn runs only on a loaded page.
THEOREM TypesHold == Spec => []TypeOK
BY PageAndServerInStep, InvTypeOK, PTL

LEMMA InvConverges == BoundsAssumption /\ Inv => WritesConverge
<1> SUFFICES ASSUME BoundsAssumption, Inv, Settled, edit = NoEdit, sent = <<>>
             PROVE  /\ "rooms" \notin astray =>
                          /\ DOMAIN stored = DOMAIN rooms
                          /\ \A r \in DOMAIN rooms :
                                /\ stored[r].thread = rooms[r].thread
                                /\ stored[r].title = rooms[r].title
                    /\ "marks" \notin astray => marked = marks
  BY DEF WritesConverge
<1>1. DOMAIN sent = {} /\ loaded.rooms /\ loaded.marks
  BY EmptyList, ListFacts DEF Settled
<1>2. ASSUME "rooms" \notin astray
      PROVE  /\ DOMAIN stored = DOMAIN rooms
             /\ \A r \in DOMAIN rooms : SameRow(stored[r], rooms[r])
  <2>1. \A r \in Thread : AgreeOn(r, stored, rooms)
    BY <1>1, <1>2 DEF Inv, RoomsInv, RoomsInStep
  <2>2. DOMAIN stored \subseteq Thread /\ DOMAIN rooms \subseteq Thread
    <3>1. used.threads \in Nat /\ used.threads <= MaxThreads /\ MaxThreads \in Nat
      BY DEF Inv, Shape, UsedInv, UsedNames, BoundsAssumption
    <3>2. 1..used.threads \subseteq Thread
      BY <3>1 DEF Thread
    <3>3. QED BY <3>2, OwnedNames DEF Inv
  <2>3. QED BY <2>1, <2>2 DEF AgreeOn
<1>3. ASSUME "marks" \notin astray PROVE marked = marks
  <2>1. MarksInStep(sent, marked, marks, Cut)
    BY <1>1, <1>3 DEF Inv, MarksInv
  <2>2. Cut = {}
    BY DEF Cut, NoEdit
  <2>3. marks \subseteq marked
    BY <1>1, <2>1, <2>2 DEF MarksInStep, Registered
  <2>4. marked \subseteq marks
    BY <1>1, <2>1 DEF MarksInStep, Leftover
  <2>5. QED BY <2>3, <2>4
<1>4. QED BY <1>2, <1>3 DEF SameRow

\* With no write in flight the page and the server hold the same rooms and
\* bookmarks, in whatever order the unawaited fetches arrived, unless one was lost,
\* refused or overtook a write it needed since the page last loaded, or was under
\* way when it did: a room made while the list is loading.
THEOREM PageAndServerConverge == Spec => []WritesConverge
<1>1. Inv => WritesConverge
  BY InvConverges, BoundsAssumption
<1>2. QED BY <1>1, PageAndServerInStep, PTL
=============================================================================
