------------------------ MODULE JobSubscriptionProofs ------------------------
(***************************************************************************)
(* What TLAPS proves of JobSubscription, for any number of attempts,       *)
(* chunks, connections and faults, and any length of the stream.           *)
(***************************************************************************)
EXTENDS JobSubscription, FiniteSetTheorems, TLAPS

USE ConstantsAssumption

-----------------------------------------------------------------------------
(* Types *)

LEMMA MaxOfTwo ==
    ASSUME NEW m \in Int, NEW n \in Int
    PROVE  Max({m, n}) \in {m, n} /\ Max({m, n}) >= m /\ Max({m, n}) >= n
<1>1. \E x \in {m, n} : \A y \in {m, n} : x >= y
  OBVIOUS
<1>2. QED BY <1>1 DEF Max

(* A batch of entries is what XREAD returned: it is worked off from the      *)
(* first to the last.                                                        *)
Batches ==
    /\ client.pc = "processing" => client.entry < client.upto
    /\ client.pc # "processing" => client.upto = 0

TypeInv == TypeOK /\ Batches

Entry  == [seq : Nat, attempt : Attempt \union {None}, kind : {"chunk", "__end__"}]
Hash   == [status : Status, lastSeq : Nat, fenced : BOOLEAN]
Ending == [status : Terminal, count : 0..MaxChunk]
Work   == [pc : {"absent", "preparing", "running", "stopped", "ended"}, chunks : 0..MaxChunk]

(* The subscriber, next to a stream with n entries *)
Client(n) ==
    [pc : Connected \union {"away", "closed"}, connects : 0..MaxConnects,
     got : Seq(Event), base : Nat, cursor : Nat, entry : 0..n,
     upto : 0..n, first : BOOLEAN, final : BOOLEAN,
     verdict : {"missing", "fresh", "behind"}, attempt : Attempt \union {None},
     seen : Row]

ProducerType ==
    /\ job \in Row
    /\ meta \in Hash
    /\ log \in Seq(Entry)
    /\ head \in 1..(Len(log) + 1)
    /\ expiring \in BOOLEAN
    /\ task \in [Attempt -> Work]
    /\ ending \subseteq Ending
    /\ faults \in 0..MaxFaults

LEMMA TypeParts == TypeOK <=> ProducerType /\ client \in Client(Len(log))
  BY DEF TypeOK, ProducerType, Client, Entry, Hash, Ending, Work

LEMMA IdleType ==
    ASSUME NEW pc \in Connected \union {"away", "closed"}, NEW c \in 0..MaxConnects,
           NEW got \in Seq(Event), NEW n \in Nat
    PROVE  /\ Idle(pc, c, got) \in Client(n)
           /\ Idle(pc, c, got).pc = pc /\ Idle(pc, c, got).upto = 0
           /\ Idle(pc, c, got).entry = 0 /\ Idle(pc, c, got).first
           /\ Idle(pc, c, got).got = got /\ ~ Idle(pc, c, got).final
           /\ Idle(pc, c, got).cursor = 0 /\ Idle(pc, c, got).connects = c
<1>1. NoRow \in Row
  BY DEF NoRow, Row, Status
<1>2. QED BY <1>1 DEF Idle, Client

LEMMA MovedType ==
    ASSUME NEW n, NEW c \in Client(n), NEW pc \in Connected \union {"away", "closed"},
           NEW entry \in 0..n, NEW upto \in 0..n
    PROVE  /\ [[c EXCEPT !.pc = pc] EXCEPT !.entry = entry, !.first = FALSE,
                                           !.verdict = "missing"] \in Client(n)
           /\ [[c EXCEPT !.pc = pc] EXCEPT !.entry = entry, !.upto = upto] \in Client(n)
           /\ [[c EXCEPT !.pc = pc] EXCEPT !.entry = entry, !.upto = upto,
                                           !.first = FALSE] \in Client(n)
           /\ [c EXCEPT !.pc = pc, !.entry = entry, !.upto = upto,
                        !.first = FALSE] \in Client(n)
<1>1. [c EXCEPT !.pc = pc] \in Client(n)
  BY DEF Client
<1> DEFINE d == [c EXCEPT !.pc = pc]
<1> HIDE DEF d
<1>2. d \in Client(n)
  BY <1>1 DEF d
<1>3. [d EXCEPT !.entry = entry, !.first = FALSE, !.verdict = "missing"] \in Client(n)
  BY <1>2 DEF Client
<1>4. [d EXCEPT !.entry = entry, !.upto = upto] \in Client(n)
  BY <1>2 DEF Client
<1>5. [d EXCEPT !.entry = entry, !.upto = upto, !.first = FALSE] \in Client(n)
  BY <1>2 DEF Client
<1>6. [c EXCEPT !.pc = pc, !.entry = entry, !.upto = upto, !.first = FALSE] \in Client(n)
  BY DEF Client
<1>7. QED BY <1>3, <1>4, <1>5, <1>6 DEF d

LEMMA AddType ==
    ASSUME ProducerType, NEW e \in Entry, Add(e)
    PROVE  /\ log' \in Seq(Entry) /\ Len(log') = Len(log) + 1
           /\ head' \in 1..(Len(log') + 1) /\ head' >= head
           /\ head' = head \/ head' <= Len(log) + 1
           /\ \A i \in 1..Len(log) : log'[i] = log[i]
           /\ log'[Len(log) + 1] = e
<1> DEFINE b == Len(log) + 2 - MaxLength
<1>1. /\ log \in Seq(Entry) /\ Len(log) \in Nat /\ head \in 1..(Len(log) + 1) /\ b \in Int
      /\ b <= Len(log) + 1
  BY DEF ProducerType
<1>2. log' = Append(log, e) /\ head' \in head..Max({head, b})
  BY DEF Add
<1>3. Max({head, b}) \in {head, b}
  <2>1. head \in Int /\ b \in Int
    BY <1>1
  <2>2. QED BY ONLY <2>1, MaxOfTwo, Zenon
<1>4. log' \in Seq(Entry) /\ Len(log') = Len(log) + 1
  BY <1>1, <1>2
<1> HIDE DEF b
<1>5. QED BY <1>1, <1>2, <1>3, <1>4

LEMMA InitType == Init => TypeInv
<1> SUFFICES ASSUME Init PROVE TypeInv
  OBVIOUS
<1>1. log = <<>> /\ Len(log) = 0
  BY DEF Init
<1>2. client = Idle("away", 0, <<>>) /\ "away" \in Connected \union {"away", "closed"}
      /\ 0 \in 0..MaxConnects /\ <<>> \in Seq(Event)
  BY DEF Init
<1>3. client \in Client(Len(log)) /\ client.pc = "away" /\ client.upto = 0
  <2>1. Len(log) \in Nat /\ NoRow \in Row
    BY <1>1 DEF NoRow, Row, Status
  <2>2. QED BY <1>2, <2>1 DEF Idle, Client
<1>4. ProducerType
  <2>1. PICK a \in Attempt :
           task = [x \in Attempt |-> [pc |-> IF x = a THEN "running" ELSE "absent", chunks |-> 0]]
    BY DEF Init
  <2>2. task \in [Attempt -> Work]
    BY <2>1 DEF Work
  <2>3. log \in Seq(Entry)
    BY <1>1
  <2>4. job \in Row /\ meta \in Hash
    BY DEF Init, Row, Status, Hash
  <2>5. head \in 1..(Len(log) + 1) /\ expiring \in BOOLEAN /\ ending \subseteq Ending
        /\ faults \in 0..MaxFaults
    <3>1. head = 1 /\ expiring = FALSE /\ ending = {} /\ faults = 0
      BY DEF Init
    <3>2. Len(log) + 1 = 1
      BY <1>1
    <3>3. head \in 1..(Len(log) + 1)
      BY <3>1, <3>2
    <3>4. faults \in 0..MaxFaults
      BY <3>1
    <3>5. ending \subseteq Ending
      BY <3>1
    <3>6. expiring \in BOOLEAN
      BY <3>1
    <3>7. QED BY <3>3, <3>4, <3>5, <3>6
  <2>6. QED BY <2>2, <2>3, <2>4, <2>5 DEF ProducerType
<1>5. QED BY <1>3, <1>4, TypeParts DEF TypeInv, Batches

(* The steps of the job service *)
LEMMA ProducerStepType ==
    ASSUME TypeInv,
           \/ \E a \in Attempt : PublishChunk(a) \/ Settle(a) \/ FlushFails(a) \/ RetryByAnother(a)
           \/ \E e \in ending : Finalize(e) \/ FinalizeFails(e)
           \/ EndedFromOutside \/ Republish \/ MetaExpires \/ StreamExpires \/ RedisRestarts
    PROVE  TypeInv'
<1>0. ProducerType /\ client \in Client(Len(log)) /\ Batches
  BY TypeParts DEF TypeInv
<1>c. ASSUME ProducerType', UNCHANGED client, Len(log') >= Len(log)
      PROVE  TypeInv'
  <2>1. Len(log) \in Nat /\ Len(log') \in Nat
    BY <1>0, <1>c DEF ProducerType
  <2>2. client' \in Client(Len(log'))
    BY <1>0, <1>c, <2>1 DEF Client
  <2>3. TypeOK'
    BY <1>c, <2>2 DEF TypeOK, ProducerType, Client, Entry, Hash, Ending, Work
  <2>4. QED BY <1>0, <1>c, <2>3 DEF TypeInv, Batches
<1>1. ASSUME NEW a \in Attempt, PublishChunk(a) PROVE TypeInv'
  <2>1. task[a] \in Work /\ task[a].chunks + 1 \in 0..MaxChunk
    BY <1>0, <1>1 DEF ProducerType, PublishChunk, Work
  <2>2. CASE meta.status = "active" /\ ~ meta.fenced
    <3>1. Chunk(a, task[a].chunks + 1) \in Entry
      BY <2>1 DEF Chunk, Entry
    <3>2. Add(Chunk(a, task[a].chunks + 1))
      BY <1>1, <2>2 DEF PublishChunk
    <3>3. log' \in Seq(Entry) /\ Len(log') = Len(log) + 1 /\ head' \in 1..(Len(log') + 1)
      BY <1>0, <3>1, <3>2, AddType
    <3>4. meta' \in Hash /\ task' \in [Attempt -> Work] /\ expiring' \in BOOLEAN
      <4>1. /\ meta' = [meta EXCEPT !.lastSeq = task[a].chunks + 1] /\ expiring' = FALSE
            /\ task' = [task EXCEPT ![a].chunks = task[a].chunks + 1]
        BY <1>1, <2>2 DEF PublishChunk
      <4>2. meta' \in Hash
        BY <1>0, <2>1, <4>1 DEF ProducerType, Hash
      <4>3. task' \in [Attempt -> Work]
        BY <1>0, <2>1, <4>1 DEF ProducerType, Work
      <4>4. QED BY <4>1, <4>2, <4>3
    <3>5. ProducerType'
      BY <1>0, <1>1, <3>3, <3>4 DEF PublishChunk, ProducerType
    <3>6. Len(log) \in Nat
      BY <1>0 DEF ProducerType
    <3>7. QED BY <1>1, <1>c, <3>3, <3>5, <3>6 DEF PublishChunk
  <2>3. CASE ~ (meta.status = "active" /\ ~ meta.fenced)
    <3>1. task' \in [Attempt -> Work]
      BY <1>0, <1>1, <2>1, <2>3 DEF PublishChunk, ProducerType, Work
    <3>2. UNCHANGED <<meta, log, head, expiring>>
      BY <1>1, <2>3 DEF PublishChunk
    <3>3. ProducerType'
      BY <1>0, <1>1, <3>1, <3>2 DEF PublishChunk, ProducerType
    <3>4. Len(log) \in Nat
      BY <1>0 DEF ProducerType
    <3>5. QED BY <1>1, <1>c, <3>2, <3>3, <3>4 DEF PublishChunk
  <2>4. QED BY <2>2, <2>3
<1>2. ASSUME NEW a \in Attempt, Settle(a) PROVE TypeInv'
  <2>1. task' \in [Attempt -> Work] /\ job' \in Row /\ ending' \subseteq Ending
    <3>1. task' \in [Attempt -> Work] /\ task[a].chunks \in 0..MaxChunk
      BY <1>0, <1>2 DEF Settle, ProducerType, Work
    <3>2. job' \in Row
      BY <1>0, <1>2, <3>1 DEF Settle, ProducerType, Row, Status
    <3>3. ending' \subseteq Ending
      BY <1>0, <1>2, <3>1 DEF Settle, ProducerType, Row, Ending
    <3>4. QED BY <3>1, <3>2, <3>3
  <2>2. QED BY <1>0, <1>2, <1>c, <2>1 DEF Settle, ProducerType
<1>3. ASSUME NEW a \in Attempt, FlushFails(a) PROVE TypeInv'
  <2>1. task' \in [Attempt -> Work] /\ job' \in Row /\ ending' \subseteq Ending
    BY <1>0, <1>3 DEF FlushFails, ProducerType, Work, Row, Status, Ending, Terminal
  <2>2. faults' \in 0..MaxFaults
    BY <1>0, <1>3 DEF FlushFails, Fault, ProducerType
  <2>3. QED BY <1>0, <1>3, <1>c, <2>1, <2>2 DEF FlushFails, ProducerType
<1>4. ASSUME NEW a \in Attempt, RetryByAnother(a) PROVE TypeInv'
  <2>1. task' \in [Attempt -> Work] /\ job' \in Row
    BY <1>0, <1>4 DEF RetryByAnother, ResetRow, ProducerType, Work, Row, Status
  <2>2. QED BY <1>0, <1>4, <1>c, <2>1 DEF RetryByAnother, ResetRow, ProducerType
<1>5. ASSUME NEW e \in ending, Finalize(e) PROVE TypeInv'
  <2> DEFINE seq == Max({meta.lastSeq, e.count}) + 1
  <2>1. e \in Ending /\ meta.lastSeq \in Nat /\ e.count \in Nat
    BY <1>0 DEF ProducerType, Hash, Ending
  <2>2. seq \in Nat
    <3>1. meta.lastSeq \in Int /\ e.count \in Int
      BY <2>1
    <3>2. Max({meta.lastSeq, e.count}) \in {meta.lastSeq, e.count}
      BY ONLY <3>1, MaxOfTwo, Zenon
    <3>3. QED BY <2>1, <3>2
  <2> HIDE DEF seq
  <2>3. CASE meta.status \in Terminal
    BY <1>0, <1>5, <1>c, <2>3 DEF Finalize, ProducerType
  <2>4. CASE meta.status \notin Terminal
    <3>1. meta' = [meta EXCEPT !.status = e.status, !.lastSeq = seq] /\ Add(End(seq))
      BY <1>5, <2>4 DEF Finalize, seq
    <3>2. End(seq) \in Entry
      BY <2>2 DEF End, Entry
    <3>3. log' \in Seq(Entry) /\ Len(log') = Len(log) + 1 /\ head' \in 1..(Len(log') + 1)
      BY <1>0, <3>1, <3>2, AddType
    <3>4. meta' \in Hash
      BY <1>0, <2>1, <2>2, <3>1 DEF ProducerType, Hash, Ending, Status
    <3>5. /\ Len(log) \in Nat /\ expiring' = TRUE /\ ending' = ending \ {e}
          /\ UNCHANGED <<job, task, client, faults>>
      <4>1. Len(log) \in Nat
        BY <1>0 DEF ProducerType
      <4>2. QED BY <1>5, <4>1, Zenon DEF Finalize
    <3>6. ProducerType'
      BY <1>0, <3>3, <3>4, <3>5 DEF ProducerType
    <3>7. QED BY <1>c, <3>3, <3>5, <3>6
  <2>5. QED BY <2>3, <2>4
<1>6. ASSUME NEW e \in ending, FinalizeFails(e) PROVE TypeInv'
  BY <1>0, <1>6, <1>c DEF FinalizeFails, Fault, ProducerType
<1>7. CASE EndedFromOutside
  <2>1. job' \in Row /\ ending' \subseteq Ending
    BY <1>0, <1>7 DEF EndedFromOutside, ProducerType, Row, Status, Ending, Terminal
  <2>2. meta' \in Hash /\ task' \in [Attempt -> Work]
    <3>1. meta' \in Hash
      BY <1>0, <1>7 DEF EndedFromOutside, ProducerType, Hash
    <3>2. task' \in [Attempt -> Work]
      <4>1. \A a \in Attempt : task[a] \in Work /\ [task[a] EXCEPT !.pc = "ended"] \in Work
        BY <1>0 DEF ProducerType, Work
      <4>2. CASE UNCHANGED task
        BY <1>0, <4>2 DEF ProducerType
      <4>3. CASE task' = [a \in Attempt |-> IF task[a].pc \in {"running", "stopped"}
                                          THEN [task[a] EXCEPT !.pc = "ended"] ELSE task[a]]
        BY <4>1, <4>3
      <4>4. QED BY <1>7, <4>2, <4>3 DEF EndedFromOutside
    <3>3. QED BY <3>1, <3>2
  <2>3. faults' \in 0..MaxFaults
    BY <1>0, <1>7 DEF EndedFromOutside, Fault, ProducerType
  <2>4. QED BY <1>0, <1>7, <1>c, <2>1, <2>2, <2>3 DEF EndedFromOutside, ProducerType
<1>8. CASE Republish
  <2>1. meta' \in Hash /\ ending' \subseteq Ending
    <3>1. meta' \in Hash
      BY <1>0, <1>8 DEF Republish, ProducerType, Hash
    <3>2. ending' \subseteq Ending
      BY <1>0, <1>8 DEF Republish, ProducerType, Ending, Row
    <3>3. QED BY <3>1, <3>2
  <2>2. QED BY <1>0, <1>8, <1>c, <2>1 DEF Republish, ProducerType
<1>9. CASE MetaExpires
  <2>1. NoMeta \in Hash
    BY DEF NoMeta, Hash, Status
  <2>2. QED BY <1>0, <1>9, <1>c, <2>1 DEF MetaExpires, ProducerType
<1>10. CASE StreamExpires
  BY <1>0, <1>10, <1>c DEF StreamExpires, ProducerType
<1>11. CASE RedisRestarts
  <2>1. NoMeta \in Hash
    BY DEF NoMeta, Hash, Status
  <2>2. QED BY <1>0, <1>11, <1>c, <2>1 DEF RedisRestarts, Fault, ProducerType
<1>12. QED BY <1>1, <1>2, <1>3, <1>4, <1>5, <1>6, <1>7, <1>8, <1>9, <1>10, <1>11

(* The steps of the client and of the call that serves it *)
LEMMA LogTyped ==
    ASSUME ProducerType, NEW i \in 1..Len(log)
    PROVE  log[i] \in Entry
  BY DEF ProducerType

LEMMA StoredType ==
    ASSUME ProducerType, NEW from \in Nat
    PROVE  /\ Stored(from) \in Seq(Event)
           /\ job.count > from => Len(Stored(from)) = job.count - from
           /\ job.count <= from => Len(Stored(from)) = 0
           /\ \A i \in 1..Len(Stored(from)) : Stored(from)[i] = Chunk(job.attempt, from + i)
<1>1. job.count \in Nat /\ job.attempt \in Attempt \union {None}
  BY DEF ProducerType, Row
<1>2. \A i \in 1..(job.count - from) : Chunk(job.attempt, from + i) \in Event
  BY <1>1 DEF Chunk, Event
<1>3. CASE job.count > from
  <2>1. job.count - from \in Nat
    BY <1>1, <1>3
  <2>2. Stored(from) \in Seq(Event) /\ Len(Stored(from)) = job.count - from
    BY <1>2, <2>1 DEF Stored
  <2>3. QED BY <1>1, <1>3, <2>2 DEF Stored
<1>4. CASE job.count <= from
  <2>1. 1..(job.count - from) = {}
    BY <1>1, <1>4
  <2>2. Stored(from) = <<>>
    BY <2>1 DEF Stored
  <2>3. QED BY <1>1, <1>4, <2>2
<1>5. QED BY <1>1, <1>3, <1>4

LEMMA ClientStepType ==
    ASSUME TypeInv, Connect \/ Disconnect \/ Subscription \/ RedisFails
                    \/ \E a \in Attempt : ResetMeta(a)
    PROVE  TypeInv'
<1>0. ProducerType /\ client \in Client(Len(log)) /\ Batches /\ Len(log) \in Nat
  BY TypeParts DEF TypeInv, ProducerType
<1>n. NoRow \in Row
  BY DEF NoRow, Row, Status
<1>c. ASSUME ProducerType', client' \in Client(Len(log')), Batches'
      PROVE  TypeInv'
  BY <1>c DEF TypeInv, TypeOK, ProducerType, Client, Entry, Hash, Ending, Work
<1>s. ASSUME UNCHANGED <<producer, faults>>, client' \in Client(Len(log)), Batches'
      PROVE  TypeInv'
  <2>1. ProducerType' /\ log' = log
    BY <1>0, <1>s DEF producer, ProducerType
  <2>2. QED BY <1>s, <1>c, <2>1
<1>1. CASE Connect
  <2> DEFINE got == IF HasEnd(client.got) THEN <<>> ELSE client.got
  <2>1. got \in Seq(Event) /\ client.connects + 1 \in 0..MaxConnects
    BY <1>0, <1>1 DEF Connect, Client
  <2>2. LastEventId(got) \in Nat /\ Len(got) \in Nat
    <3>1. Len(got) \in Nat
      BY <2>1
    <3>2. CASE got = <<>>
      BY <3>1, <3>2 DEF LastEventId
    <3>3. CASE got # <<>>
      <4>1. Len(got) \in 1..Len(got)
        BY <2>1, <3>3
      <4>2. got[Len(got)] \in Event
        BY <2>1, <4>1
      <4>3. QED BY <3>1, <3>3, <4>2 DEF LastEventId, Event
    <3>4. QED BY <3>2, <3>3
  <2> HIDE DEF got
  <2>3. client' = [Idle(IF IsLost THEN "reviving" ELSE "opening", client.connects + 1, got)
                      EXCEPT !.base = Len(got), !.cursor = LastEventId(got)]
    BY <1>1 DEF Connect, got
  <2>4. client' \in Client(Len(log)) /\ Batches'
    <3> DEFINE idle == Idle(IF IsLost THEN "reviving" ELSE "opening", client.connects + 1, got)
    <3>1. idle \in Client(Len(log)) /\ idle.pc \in {"reviving", "opening"} /\ idle.upto = 0
      BY <1>0, <1>n, <2>1 DEF Idle, Client, Connected, Checking
    <3>2. client' = [idle EXCEPT !.base = Len(got), !.cursor = LastEventId(got)]
      BY <2>3
    <3> HIDE DEF idle
    <3>3. client' \in Client(Len(log))
      BY <2>2, <3>1, <3>2 DEF Client
    <3>4. client'.pc \in {"reviving", "opening"} /\ client'.upto = 0
      BY <3>1, <3>2 DEF Client
    <3>5. QED BY <3>3, <3>4 DEF Batches
  <2>5. QED BY <1>1, <1>s, <2>4 DEF Connect
<1>2. CASE Disconnect
  <2>1. PICK got \in Seq(Event) : client' = Idle("away", client.connects, got)
    <3>1. client.got \in Seq(Event) /\ client.base \in Nat
      BY <1>0 DEF Client
    <3>2. Len(client.got) > client.base => SubSeq(client.got, 1, Len(client.got) - 1) \in Seq(Event)
      BY <3>1
    <3>3. QED BY <1>2, <3>1, <3>2 DEF Disconnect
  <2>2. client' \in Client(Len(log)) /\ Batches'
    BY <1>0, <1>n, <2>1 DEF Idle, Client, Batches
  <2>3. QED BY <1>2, <1>s, <2>2 DEF Disconnect
<1>3. CASE Revive
  <2>1. ASSUME NEW a \in Attempt, ResetRow(a),
               client' = [client EXCEPT !.pc = "preparing", !.attempt = a], UNCHANGED faults
        PROVE  TypeInv'
    <3>1. task' \in [Attempt -> Work] /\ job' \in Row
      <4>1. task' \in [Attempt -> Work]
        BY <1>0, <2>1 DEF ResetRow, ProducerType, Work
      <4>2. job' \in Row
        BY <2>1 DEF ResetRow, Row, Status
      <4>3. QED BY <4>1, <4>2
    <3>2. UNCHANGED <<meta, log, head, expiring, ending>>
      BY <2>1 DEF ResetRow
    <3>3. ProducerType'
      BY <1>0, <2>1, <3>1, <3>2 DEF ProducerType
    <3>4. client' \in Client(Len(log')) /\ Batches'
      <4>1. client' \in Client(Len(log)) /\ log' = log
        BY <1>0, <2>1, <3>2 DEF Client, Connected
      <4>2. client.pc = "reviving"
        BY <1>3 DEF Revive
      <4>3. client'.pc = "preparing" /\ client'.upto = client.upto
        BY <1>0, <2>1 DEF Client
      <4>4. QED BY <1>0, <4>1, <4>2, <4>3 DEF Batches
    <3>5. QED BY <1>c, <3>3, <3>4
  <2>2. CASE client' = [client EXCEPT !.pc = "opening"] /\ UNCHANGED <<producer, faults>>
    <3>1. client' \in Client(Len(log)) /\ Batches'
      BY <1>0, <1>3, <2>2 DEF Revive, Client, Batches, Connected, Checking
    <3>2. QED BY <1>s, <2>2, <3>1
  <2>3. CASE client' = Idle("away", client.connects, client.got) /\ UNCHANGED <<producer, faults>>
    <3>1. client' \in Client(Len(log)) /\ Batches'
      BY <1>0, <1>n, <2>3 DEF Idle, Client, Batches
    <3>2. QED BY <1>s, <2>3, <3>1
  <2>4. QED BY <1>3, <2>1, <2>2, <2>3 DEF Revive
<1>4. ASSUME NEW a \in Attempt, ResetMeta(a) PROVE TypeInv'
  <2>1. UNCHANGED <<log, head, expiring, ending>>
    BY <1>4 DEF ResetMeta
  <2>2. meta' \in Hash
    BY <1>0, <1>4 DEF ResetMeta, ProducerType, Hash, Status
  <2>3. task' \in [Attempt -> Work] /\ job' \in Row
    <3>1. task' \in [Attempt -> Work]
      BY <1>0, <1>4 DEF ResetMeta, ProducerType, Work
    <3>2. job' \in Row
      BY <1>0, <1>4 DEF ResetMeta, ProducerType, Row, Status, Terminal
    <3>3. QED BY <3>1, <3>2
  <2>4. faults' \in 0..MaxFaults
    BY <1>0, <1>4 DEF ResetMeta, Fault, ProducerType
  <2>5. ProducerType'
    BY <1>0, <2>1, <2>2, <2>3, <2>4 DEF ProducerType
  <2>6. client' \in Client(Len(log')) /\ Batches'
    <3>1. CASE client' = client
      BY <1>0, <2>1, <3>1 DEF Batches
    <3>2. CASE client.pc = "preparing" /\ client' = [client EXCEPT !.pc = "opening", !.attempt = None]
      <4>1. client' \in Client(Len(log)) /\ client'.pc = "opening" /\ client'.upto = client.upto
        BY <1>0, <3>2 DEF Client, Connected, Checking
      <4>2. QED BY <1>0, <2>1, <3>2, <4>1 DEF Batches
    <3>3. QED BY <1>4, <3>1, <3>2 DEF ResetMeta
  <2>7. QED BY <1>c, <2>5, <2>6
<1>5. CASE RedisFails
  <2>1. client' \in Client(Len(log)) /\ Batches'
    <3>1. client.pc # "processing"
          /\ client' = [At("polling") EXCEPT !.entry = 0, !.first = FALSE, !.verdict = "missing"]
      BY <1>5 DEF RedisFails, Checking
    <3>2. client' \in Client(Len(log))
      <4>1. "polling" \in Connected /\ 0 \in 0..Len(log)
        BY <1>0 DEF Connected, Polling
      <4>2. QED BY <1>0, <3>1, <4>1, MovedType DEF At
    <3>3. client'.pc = "polling" /\ client'.upto = client.upto
      BY <1>0, <3>1 DEF At, Client
    <3>4. QED BY <1>0, <3>1, <3>2, <3>3 DEF Batches
  <2>2. UNCHANGED producer /\ faults' \in 0..MaxFaults
    BY <1>0, <1>5 DEF RedisFails, Fault, ProducerType
  <2>3. ProducerType' /\ log' = log
    BY <1>0, <2>2 DEF producer, ProducerType
  <2>4. QED BY <1>c, <2>1, <2>3
<1>v. Verdict \in {"missing", "fresh", "behind"}
  BY DEF Verdict
<1>6. CASE PeekMeta
  <2>1. client' \in Client(Len(log)) /\ Batches'
    BY <1>0, <1>6, <1>v DEF PeekMeta, Subscribed, At, Client, Batches, Connected, Checking
  <2>2. QED BY <1>6, <1>s, <2>1 DEF PeekMeta, Subscribed
<1>7. CASE PeekStream
  <2>1. client' \in Client(Len(log)) /\ Batches'
    BY <1>0, <1>7 DEF PeekStream, Subscribed, At, Client, Batches, Connected, Checking, Live
  <2>2. QED BY <1>7, <1>s, <2>1 DEF PeekStream, Subscribed
<1>8. CASE ConfirmMeta
  <2>1. client' \in Client(Len(log)) /\ Batches'
    BY <1>0, <1>8, <1>v DEF ConfirmMeta, Subscribed, At, Client, Batches, Connected, Checking
  <2>2. QED BY <1>8, <1>s, <2>1 DEF ConfirmMeta, Subscribed
<1>9. CASE Recheck
  <2>1. client' \in Client(Len(log)) /\ Batches'
    BY <1>0, <1>9 DEF Recheck, Subscribed, At, Client, Batches, Connected, Polling, Live
  <2>2. QED BY <1>9, <1>s, <2>1 DEF Recheck, Subscribed
<1>10. CASE ReadStream
  <2>1. head - 1 \in 0..Len(log) /\ client.entry \in 0..Len(log)
    BY <1>0 DEF ProducerType, Client
  <2>2. Max({client.entry, head - 1}) \in {client.entry, head - 1}
    <3>1. client.entry \in Int /\ head - 1 \in Int
      BY <2>1
    <3>2. QED BY ONLY <3>1, MaxOfTwo, Zenon
  <2>3. CASE StreamExists /\ client.entry < Len(log)
    <3>1. head - 1 < Len(log)
      BY <1>0, <2>3 DEF StreamExists, ProducerType
    <3>2. client' = [At("processing") EXCEPT !.entry = Max({client.entry, head - 1}), !.upto = Len(log)]
      BY <1>10, <2>3 DEF ReadStream, Subscribed
    <3>3. client' \in Client(Len(log)) /\ Batches'
      <4> DEFINE to == Max({client.entry, head - 1})
      <4>1. to \in 0..Len(log) /\ to < Len(log)
        BY <2>1, <2>2, <2>3, <3>1
      <4>2. client' = [At("processing") EXCEPT !.entry = to, !.upto = Len(log)]
        BY <3>2
      <4> HIDE DEF to
      <4>3. client' \in Client(Len(log))
        <5>1. "processing" \in Connected /\ Len(log) \in 0..Len(log)
          BY <1>0 DEF Connected, Live
        <5>2. QED BY <1>0, <4>1, <4>2, <5>1, MovedType DEF At
      <4>4. client'.pc = "processing" /\ client'.entry = to /\ client'.upto = Len(log)
        BY <1>0, <4>2 DEF At, Client
      <4>5. QED BY <4>1, <4>3, <4>4 DEF Batches
    <3>4. QED BY <1>10, <1>s, <3>3 DEF ReadStream, Subscribed
  <2>4. CASE ~ (StreamExists /\ client.entry < Len(log))
    <3>1. client.pc = "reading" /\ client' = At("waking")
      BY <1>10, <2>4 DEF ReadStream, Subscribed
    <3>2. client' \in Client(Len(log)) /\ Batches'
      BY <1>0, <3>1 DEF At, Client, Batches, Connected, Live
    <3>3. QED BY <1>10, <1>s, <3>2 DEF ReadStream, Subscribed
  <2>5. QED BY <2>3, <2>4
<1>11. CASE ProcessEntry
  <2> DEFINE e    == log[client.entry + 1]
             done == client.entry + 1 = client.upto
             rest == [client EXCEPT !.pc = IF done THEN "reading" ELSE "processing",
                                    !.entry = @ + 1, !.upto = IF done THEN 0 ELSE @,
                                    !.first = FALSE]
             poll == [At("polling") EXCEPT !.entry = 0, !.upto = 0, !.first = FALSE]
  <2>1. client.pc = "processing" /\ client.entry < client.upto
        /\ client.entry + 1 \in 1..Len(log)
    BY <1>0, <1>11 DEF ProcessEntry, Subscribed, Batches, Client
  <2>2. e \in Entry
    BY <1>0, <2>1, LogTyped
  <2>3. rest \in Client(Len(log)) /\ poll \in Client(Len(log))
        /\ rest.pc \in {"reading", "processing"} /\ poll.pc = "polling" /\ poll.upto = 0
        /\ (rest.pc = "reading" => rest.upto = 0)
        /\ (rest.pc = "processing" => rest.entry < rest.upto)
        /\ rest.got = client.got
    <3>1. poll \in Client(Len(log)) /\ poll.pc = "polling" /\ poll.upto = 0
      <4>1. "polling" \in Connected /\ 0 \in 0..Len(log)
        BY <1>0 DEF Connected, Polling
      <4>2. poll \in Client(Len(log))
        BY <1>0, <4>1, MovedType DEF At
      <4>3. QED BY <1>0, <4>2 DEF At, Client
    <3>2. client.entry \in Nat /\ client.upto \in Nat /\ client.upto <= Len(log)
      BY <1>0 DEF Client
    <3>3. rest \in Client(Len(log))
      <4> DEFINE pc    == IF done THEN "reading" ELSE "processing"
                 entry == client.entry + 1
                 upto  == IF done THEN 0 ELSE client.upto
      <4>1. pc \in Connected /\ entry \in 0..Len(log) /\ upto \in 0..Len(log)
        BY <1>0, <2>1, <3>2 DEF Connected, Live
      <4>2. rest = [client EXCEPT !.pc = pc, !.entry = entry, !.upto = upto, !.first = FALSE]
        OBVIOUS
      <4> HIDE DEF rest, pc, entry, upto
      <4>3. QED BY <1>0, <4>1, <4>2, MovedType
    <3>4. /\ rest.pc = IF done THEN "reading" ELSE "processing"
          /\ rest.entry = client.entry + 1 /\ rest.upto = IF done THEN 0 ELSE client.upto
          /\ rest.got = client.got
      BY <1>0 DEF Client
    <3>5. ~ done => client.entry + 1 < client.upto
      BY <2>1, <3>2
    <3>6. QED BY <3>1, <3>3, <3>4, <3>5
  <2>4. \/ client' = poll
        \/ client' = Idle("closed", client.connects, client.got)
        \/ client' = rest
        \/ e.kind = "chunk" /\ client' = [rest EXCEPT !.cursor = e.seq, !.got = Append(@, e)]
    <3>1. e.kind \in {"chunk", "__end__"} /\ e.seq \in Nat /\ client.cursor \in Nat
      BY <1>0, <2>2 DEF Entry, Client
    <3>2. QED BY <1>11, <3>1 DEF ProcessEntry, Subscribed
  <2> HIDE DEF rest, poll, e
  <2>5. CASE client' = poll \/ client' = rest
    <3>1. client' \in Client(Len(log)) /\ Batches'
      BY <2>3, <2>5 DEF Batches
    <3>2. QED BY <1>11, <1>s, <3>1 DEF ProcessEntry, Subscribed
  <2>6. CASE client' = Idle("closed", client.connects, client.got)
    <3>1. client' \in Client(Len(log)) /\ Batches'
      BY <1>0, <1>n, <2>6 DEF Idle, Client, Batches
    <3>2. QED BY <1>11, <1>s, <3>1 DEF ProcessEntry, Subscribed
  <2>7. CASE e.kind = "chunk" /\ client' = [rest EXCEPT !.cursor = e.seq, !.got = Append(@, e)]
    <3>1. e \in Event /\ e.seq \in Nat
      BY <2>2, <2>7 DEF Entry, Event
    <3>2. Append(client.got, e) \in Seq(Event)
      BY <1>0, <3>1 DEF Client
    <3>3. client' = [rest EXCEPT !.cursor = e.seq, !.got = Append(client.got, e)]
      BY <2>3, <2>7
    <3>4. client' \in Client(Len(log)) /\ Batches'
      BY <2>3, <3>1, <3>2, <3>3 DEF Client, Batches
    <3>5. QED BY <1>11, <1>s, <3>4 DEF ProcessEntry, Subscribed
  <2>8. QED BY <2>4, <2>5, <2>6, <2>7
<1>12. CASE AskRow
  <2>1. client' \in Client(Len(log)) /\ Batches'
    BY <1>0, <1>12 DEF AskRow, Subscribed, At, Client, Batches, Connected, Polling, Live
  <2>2. QED BY <1>12, <1>s, <2>1 DEF AskRow, Subscribed
<1>13. CASE AskStream
  <2>1. client' \in Client(Len(log)) /\ Batches'
    BY <1>0, <1>13 DEF AskStream, Subscribed, At, Client, Batches, Connected, Live
  <2>2. QED BY <1>13, <1>s, <2>1 DEF AskStream, Subscribed
<1>14. CASE RecallMeta
  <2>1. client' \in Client(Len(log)) /\ Batches'
    BY <1>0, <1>14, <1>v DEF RecallMeta, Subscribed, At, Client, Batches, Connected, Checking
  <2>2. QED BY <1>14, <1>s, <2>1 DEF RecallMeta, Subscribed
<1>15. CASE PollRow
  <2>1. client' \in Client(Len(log)) /\ Batches'
    BY <1>0, <1>15 DEF PollRow, Subscribed, At, Client, Batches, Connected, Polling, ProducerType
  <2>2. QED BY <1>15, <1>s, <2>1 DEF PollRow, Subscribed
<1>16. CASE Fetch
  <2>1. PICK got \in Seq(Event), cursor \in Nat :
           client' = [[At("polled") EXCEPT !.seen = NoRow] EXCEPT !.cursor = cursor, !.got = got]
    <3> DEFINE more == client.got \o Stored(client.cursor)
               top  == Max({client.cursor, job.count})
               end  == client.seen.count + 1
    <3>1. client.cursor \in Nat /\ job.count \in Nat /\ client.seen.count \in Nat
          /\ client.got \in Seq(Event)
      BY <1>0 DEF Client, ProducerType, Row
    <3>2. top \in Nat
      <4>1. client.cursor \in Int /\ job.count \in Int
        BY <3>1
      <4>2. Max({client.cursor, job.count}) \in {client.cursor, job.count}
        BY ONLY <4>1, MaxOfTwo, Zenon
      <4>3. QED BY <3>1, <4>2
    <3>3. more \in Seq(Event) /\ end \in Nat
      <4>1. Stored(client.cursor) \in Seq(Event)
        BY <1>0, <3>1, StoredType
      <4>2. QED BY <3>1, <4>1
    <3> HIDE DEF more, top, end
    <3>4. CASE client.seen.status \in Terminal /\ end > top
      <4>1. EndEvent(end, client.seen.status) \in Event
        BY <3>3, <3>4 DEF EndEvent, Event
      <4>2. Append(more, EndEvent(end, client.seen.status)) \in Seq(Event)
        BY <3>3, <4>1
      <4>3. client' = [[At("polled") EXCEPT !.seen = NoRow]
                          EXCEPT !.cursor = end, !.got = Append(more, EndEvent(end, client.seen.status))]
        BY <1>16, <3>4 DEF Fetch, Subscribed, more, top, end
      <4>4. QED BY <3>3, <4>2, <4>3
    <3>5. CASE ~ (client.seen.status \in Terminal /\ end > top)
      <4>1. client' = [[At("polled") EXCEPT !.seen = NoRow] EXCEPT !.cursor = top, !.got = more]
        BY <1>16, <3>5 DEF Fetch, Subscribed, more, top, end
      <4>2. QED BY <3>2, <3>3, <4>1
    <3>6. QED BY <3>4, <3>5
  <2>2. client' \in Client(Len(log)) /\ Batches'
    BY <1>0, <1>16, <1>n, <2>1 DEF Fetch, Subscribed, At, Client, Batches, Connected, Polling
  <2>3. QED BY <1>16, <1>s, <2>2 DEF Fetch, Subscribed
<1>17. CASE Polled
  <2>1. \/ client' = Idle("closed", client.connects, client.got)
        \/ client' = [At("polling") EXCEPT !.final = TRUE]
        \/ client' = At("polling")
    BY <1>17 DEF Polled, Subscribed
  <2>2. client' \in Client(Len(log)) /\ Batches'
    BY <1>0, <1>17, <1>n, <2>1 DEF Polled, Subscribed, Idle, At, Client, Batches, Connected, Polling
  <2>3. QED BY <1>17, <1>s, <2>2 DEF Polled, Subscribed
<1>18. QED
  BY <1>1, <1>2, <1>3, <1>4, <1>5, <1>6, <1>7, <1>8, <1>9, <1>10, <1>11, <1>12, <1>13, <1>14,
     <1>15, <1>16, <1>17 DEF Subscription

LEMMA TypeStep == TypeInv /\ [Next]_vars => TypeInv'
<1> SUFFICES ASSUME TypeInv, [Next]_vars PROVE TypeInv'
  OBVIOUS
<1>1. CASE Next
  BY <1>1, ProducerStepType, ClientStepType DEF Next, TaskStep, Environment
<1>2. CASE UNCHANGED vars
  BY <1>2 DEF vars, producer, TypeInv, TypeOK, Batches
<1>3. QED BY <1>1, <1>2

LEMMA TypeHolds == Spec => []TypeInv
  BY InitType, TypeStep, PTL DEF Spec

(* No variable of the job, the stream and the connection leaves its type; in *)
(* particular a reader only ever works on entries it has read.               *)
(* (job_subscription.py)                                                     *)
THEOREM SubscriptionTypeCorrect == Spec => []TypeOK
<1>1. TypeInv => TypeOK
  BY DEF TypeInv
<1>2. QED BY <1>1, TypeHolds, PTL

-----------------------------------------------------------------------------
(* The order of the events *)

Ascending(got) == \A i, j \in 1..Len(got) : i < j => got[i].seq < got[j].seq

UpTo(got, top) == \A i \in 1..Len(got) : got[i].seq <= top

(* The cursor of a connection is at or after everything the client has,      *)
(* which is what the next event is compared with.                            *)
InOrder ==
    /\ Ascending(client.got)
    /\ client.pc \in Connected => UpTo(client.got, client.cursor)

LEMMA EventNumbers ==
    ASSUME NEW got \in Seq(Event)
    PROVE  Len(got) \in Nat /\ \A i \in 1..Len(got) : got[i].seq \in Nat
<1>1. Len(got) \in Nat /\ \A i \in 1..Len(got) : got[i] \in Event
  OBVIOUS
<1>2. \A e \in Event : e.seq \in Nat
  BY DEF Event
<1>3. QED BY <1>1, <1>2

LEMMA AppendAscends ==
    ASSUME NEW got \in Seq(Event), NEW e \in Event, NEW top \in Nat,
           Ascending(got), UpTo(got, top), e.seq > top
    PROVE  Ascending(Append(got, e)) /\ UpTo(Append(got, e), e.seq)
<1>1. e.seq \in Nat /\ Len(got) \in Nat /\ \A i \in 1..Len(got) : got[i].seq \in Nat
  <2>1. e.seq \in Nat
    BY DEF Event
  <2>2. QED BY <2>1, EventNumbers
<1> DEFINE more == Append(got, e)
<1>2. /\ Len(more) = Len(got) + 1 /\ more[Len(got) + 1] = e
      /\ \A i \in 1..Len(got) : more[i] = got[i]
  OBVIOUS
<1> HIDE DEF more
<1>3. \A i \in 1..Len(more) : i \in 1..Len(got) \/ i = Len(got) + 1
  BY <1>1, <1>2
<1>4. Ascending(more)
  BY <1>1, <1>2, <1>3 DEF Ascending, UpTo
<1>5. UpTo(more, e.seq)
  BY <1>1, <1>2, <1>3 DEF UpTo
<1>6. QED BY <1>4, <1>5 DEF more

LEMMA StoredAscends ==
    ASSUME ProducerType, NEW got \in Seq(Event), NEW from \in Nat,
           Ascending(got), UpTo(got, from)
    PROVE  Ascending(got \o Stored(from)) /\ UpTo(got \o Stored(from), Max({from, job.count}))
<1> DEFINE more == got \o Stored(from)
           top  == Max({from, job.count})
<1>1. from \in Int /\ job.count \in Int /\ job.count \in Nat
  BY DEF ProducerType, Row
<1>2. top \in {from, job.count} /\ top >= from /\ top >= job.count
  BY ONLY <1>1, MaxOfTwo, Zenon
<1>3. /\ Stored(from) \in Seq(Event)
      /\ job.count > from => Len(Stored(from)) = job.count - from
      /\ job.count <= from => Len(Stored(from)) = 0
      /\ \A i \in 1..Len(Stored(from)) : Stored(from)[i].seq = from + i
  <2>1. \A i \in 1..Len(Stored(from)) : Chunk(job.attempt, from + i).seq = from + i
    BY DEF Chunk
  <2>2. QED BY <2>1, StoredType
<1>4. Len(got) \in Nat /\ \A i \in 1..Len(got) : got[i].seq \in Nat
  BY EventNumbers
<1> DEFINE n == Len(Stored(from))
<1>5. n \in Nat /\ from + n <= top
  BY <1>1, <1>2, <1>3
<1>6. /\ Len(more) = Len(got) + n
      /\ \A i \in 1..Len(got) : more[i] = got[i]
      /\ \A i \in 1..n : more[Len(got) + i] = Stored(from)[i]
  BY <1>3
<1> HIDE DEF more, top, n
<1>7. \A i \in 1..n : more[Len(got) + i].seq = from + i
  BY <1>3, <1>6 DEF n
<1>8. \A i \in 1..Len(more) :
         \/ i \in 1..Len(got) /\ more[i].seq = got[i].seq
         \/ i > Len(got) /\ i - Len(got) \in 1..n /\ more[i].seq = from + (i - Len(got))
  <2> TAKE i \in 1..Len(more)
  <2>1. CASE i <= Len(got)
    BY <1>4, <1>6, <2>1
  <2>2. CASE i > Len(got)
    <3>1. i - Len(got) \in 1..n /\ Len(got) + (i - Len(got)) = i
      BY <1>4, <1>5, <1>6, <2>2
    <3>2. QED BY <1>7, <2>2, <3>1
  <2>3. QED BY <1>4, <1>6, <2>1, <2>2
<1>9. Ascending(more)
  BY <1>1, <1>4, <1>5, <1>8 DEF Ascending, UpTo
<1>10. UpTo(more, top)
  BY <1>1, <1>2, <1>4, <1>5, <1>8 DEF UpTo
<1>11. QED BY <1>9, <1>10 DEF more, top

LEMMA InitOrder == Init => InOrder
  BY DEF Init, Idle, InOrder, Ascending, UpTo, Connected, Checking, Live, Polling

LEMMA OrderStep == TypeInv /\ InOrder /\ [Next]_vars => InOrder'
<1> SUFFICES ASSUME TypeInv, InOrder, [Next]_vars PROVE InOrder'
  OBVIOUS
<1>0. ProducerType /\ client \in Client(Len(log)) /\ Batches /\ Len(log) \in Nat
  BY TypeParts DEF TypeInv, ProducerType
<1>p. \A pc \in {"away", "closed"} : pc \notin Connected
  BY DEF Connected, Checking, Live, Polling
<1>g. client.got \in Seq(Event) /\ client.cursor \in Nat /\ client.base \in Nat
  BY <1>0 DEF Client
<1>a. ASSUME client'.got = client.got, client'.cursor = client.cursor, client.pc \in Connected
      PROVE  InOrder'
  BY <1>a DEF InOrder, Ascending, UpTo
<1>u. ASSUME UNCHANGED client PROVE InOrder'
  BY <1>u DEF InOrder, Ascending, UpTo
<1>i. ASSUME NEW pc \in {"away", "closed"}, NEW got, client' = Idle(pc, client.connects, got),
             Ascending(got)
      PROVE  InOrder'
  <2>1. client'.got = got /\ client'.pc \notin Connected
    BY <1>i, <1>p DEF Idle
  <2>2. QED BY <1>i, <2>1 DEF InOrder, Ascending
<1>1. CASE Connect
  <2> DEFINE got == IF HasEnd(client.got) THEN <<>> ELSE client.got
  <2>1. client'.got = got /\ client'.cursor = LastEventId(got)
    BY <1>1 DEF Connect, Idle
  <2>2. CASE got = <<>>
    BY <2>1, <2>2 DEF InOrder, Ascending, UpTo
  <2>3. CASE got # <<>>
    <3>1. got = client.got /\ Len(got) \in Nat /\ Len(got) \in 1..Len(got)
      BY <1>g, <2>3
    <3>2. \A i \in 1..Len(got) : got[i].seq \in Nat
      BY <1>g, <3>1, EventNumbers
    <3>3. LastEventId(got) = got[Len(got)].seq
      BY <2>3 DEF LastEventId
    <3> HIDE DEF got
    <3>4. Ascending(got)
      BY <3>1 DEF InOrder
    <3>5. UpTo(got, LastEventId(got))
      BY <3>1, <3>2, <3>3, <3>4 DEF Ascending, UpTo
    <3>6. QED BY <2>1, <3>4, <3>5 DEF InOrder, Ascending, UpTo
  <2>4. QED BY <2>2, <2>3
<1>2. CASE Disconnect
  <2>1. CASE client' = Idle("away", client.connects, client.got)
    BY <1>i, <2>1 DEF InOrder
  <2>2. CASE /\ Len(client.got) > client.base
             /\ client' = Idle("away", client.connects, SubSeq(client.got, 1, Len(client.got) - 1))
    <3> DEFINE got == SubSeq(client.got, 1, Len(client.got) - 1)
    <3>1. Len(client.got) \in Nat /\ Len(client.got) >= 1
      BY <1>g, <2>2
    <3>2. Len(got) = Len(client.got) - 1 /\ \A i \in 1..Len(got) : got[i] = client.got[i]
      BY <1>g, <3>1
    <3> HIDE DEF got
    <3>3. Ascending(got)
      BY <3>1, <3>2 DEF InOrder, Ascending
    <3>4. QED BY <1>i, <2>2, <3>3 DEF got
  <2>3. QED BY <1>2, <2>1, <2>2 DEF Disconnect
<1>3. CASE Revive
  <2>1. client.pc \in Connected
    BY <1>3 DEF Revive, Connected
  <2>2. CASE \/ \E a \in Attempt : client' = [client EXCEPT !.pc = "preparing", !.attempt = a]
             \/ client' = [client EXCEPT !.pc = "opening"]
    <3>1. client'.got = client.got /\ client'.cursor = client.cursor
      BY <1>0, <2>2 DEF Client
    <3>2. QED BY <1>a, <2>1, <3>1
  <2>3. CASE client' = Idle("away", client.connects, client.got)
    BY <1>i, <2>3 DEF InOrder
  <2>4. QED BY <1>3, <2>2, <2>3 DEF Revive
<1>4. ASSUME NEW a \in Attempt, ResetMeta(a) PROVE InOrder'
  <2>1. CASE client' = client
    BY <1>u, <2>1
  <2>2. CASE client.pc = "preparing" /\ client' = [client EXCEPT !.pc = "opening", !.attempt = None]
    <3>1. client'.got = client.got /\ client'.cursor = client.cursor /\ client.pc \in Connected
      BY <1>0, <2>2 DEF Client, Connected
    <3>2. QED BY <1>a, <3>1
  <2>3. QED BY <1>4, <2>1, <2>2 DEF ResetMeta
<1>5. CASE RedisFails \/ PeekMeta \/ PeekStream \/ ConfirmMeta \/ Recheck \/ ReadStream
           \/ AskRow \/ AskStream \/ RecallMeta \/ PollRow
  <2>1. client.pc \in Connected
    BY <1>5 DEF RedisFails, PeekMeta, PeekStream, ConfirmMeta, Recheck, ReadStream, AskRow,
                AskStream, RecallMeta, PollRow, Subscribed, Connected, Checking, Live, Polling
  <2>2. client'.got = client.got /\ client'.cursor = client.cursor
    BY <1>0, <1>5 DEF RedisFails, PeekMeta, PeekStream, ConfirmMeta, Recheck, ReadStream, AskRow,
                      AskStream, RecallMeta, PollRow, Subscribed, At, Client
  <2>3. QED BY <1>a, <2>1, <2>2
<1>6. CASE ProcessEntry
  <2> DEFINE e    == log[client.entry + 1]
             done == client.entry + 1 = client.upto
             rest == [client EXCEPT !.pc = IF done THEN "reading" ELSE "processing",
                                    !.entry = @ + 1, !.upto = IF done THEN 0 ELSE @,
                                    !.first = FALSE]
             poll == [At("polling") EXCEPT !.entry = 0, !.upto = 0, !.first = FALSE]
  <2>1. client.pc = "processing" /\ client.pc \in Connected /\ client.entry + 1 \in 1..Len(log)
    BY <1>0, <1>6 DEF ProcessEntry, Subscribed, Batches, Client, Connected, Live
  <2>2. e \in Entry
    BY <1>0, <2>1, LogTyped
  <2>3. /\ rest.got = client.got /\ rest.cursor = client.cursor
        /\ poll.got = client.got /\ poll.cursor = client.cursor
    BY <1>0 DEF At, Client
  <2>4. \/ client' = poll \/ client' = rest
        \/ client' = Idle("closed", client.connects, client.got)
        \/ /\ e.kind = "chunk" /\ e.seq > client.cursor
           /\ client' = [rest EXCEPT !.cursor = e.seq, !.got = Append(@, e)]
    <3>1. e.kind \in {"chunk", "__end__"} /\ e.seq \in Nat
      BY <2>2 DEF Entry
    <3>2. QED BY <1>6, <1>g, <3>1 DEF ProcessEntry, Subscribed
  <2>6. ASSUME client' = [rest EXCEPT !.cursor = e.seq, !.got = Append(@, e)]
        PROVE  client'.got = Append(client.got, e) /\ client'.cursor = e.seq
    BY <1>0, <2>6 DEF Client
  <2> HIDE DEF rest, poll, e
  <2>7. CASE client' = poll \/ client' = rest
    BY <1>a, <2>1, <2>3, <2>7
  <2>8. CASE client' = Idle("closed", client.connects, client.got)
    BY <1>i, <2>8 DEF InOrder
  <2>9. CASE /\ e.kind = "chunk" /\ e.seq > client.cursor
             /\ client' = [rest EXCEPT !.cursor = e.seq, !.got = Append(@, e)]
    <3>1. e \in Event
      BY <2>2, <2>9 DEF Entry, Event
    <3>2. Ascending(client.got) /\ UpTo(client.got, client.cursor)
      BY <2>1 DEF InOrder
    <3>3. Ascending(Append(client.got, e)) /\ UpTo(Append(client.got, e), e.seq)
      BY <1>g, <2>9, <3>1, <3>2, AppendAscends
    <3>4. QED BY <2>6, <2>9, <3>3 DEF InOrder, Ascending, UpTo
  <2>10. QED BY <2>4, <2>7, <2>8, <2>9
<1>7. CASE Fetch
  <2> DEFINE more == client.got \o Stored(client.cursor)
             top  == Max({client.cursor, job.count})
             end  == client.seen.count + 1
  <2>1. Ascending(client.got) /\ UpTo(client.got, client.cursor)
    <3>1. client.pc \in Connected
      BY <1>7 DEF Fetch, Subscribed, Connected, Polling
    <3>2. QED BY <3>1 DEF InOrder
  <2>2. Ascending(more) /\ UpTo(more, top)
    BY <1>0, <1>g, <2>1, StoredAscends
  <2>3. more \in Seq(Event) /\ end \in Nat /\ top \in Nat
    <3>1. Stored(client.cursor) \in Seq(Event)
      BY <1>0, <1>g, StoredType
    <3>2. job.count \in Nat /\ client.seen.count \in Nat
      BY <1>0 DEF Client, ProducerType, Row
    <3>3. client.cursor \in Int /\ job.count \in Int
      BY <1>g, <3>2
    <3>4. Max({client.cursor, job.count}) \in {client.cursor, job.count}
      BY ONLY <3>3, MaxOfTwo, Zenon
    <3>5. more \in Seq(Event)
      BY <1>g, <3>1
    <3>6. QED BY <1>g, <3>2, <3>4, <3>5
  <2> HIDE DEF more, top, end
  <2>4. CASE client.seen.status \in Terminal /\ end > top
    <3> DEFINE last == EndEvent(end, client.seen.status)
    <3>1. last \in Event /\ last.seq = end
      BY <2>3, <2>4 DEF EndEvent, Event
    <3>2. client'.got = Append(more, last) /\ client'.cursor = last.seq
      <4>1. client' = [[At("polled") EXCEPT !.seen = NoRow]
                          EXCEPT !.cursor = end, !.got = Append(more, last)]
        BY <1>7, <2>4 DEF Fetch, Subscribed, more, top, end
      <4>2. QED BY <1>0, <3>1, <4>1 DEF At, Client
    <3> HIDE DEF last
    <3>3. Ascending(Append(more, last)) /\ UpTo(Append(more, last), last.seq)
      BY <2>2, <2>3, <2>4, <3>1, AppendAscends
    <3>4. QED BY <3>2, <3>3 DEF InOrder, Ascending, UpTo
  <2>5. CASE ~ (client.seen.status \in Terminal /\ end > top)
    <3>1. client' = [[At("polled") EXCEPT !.seen = NoRow] EXCEPT !.cursor = top, !.got = more]
      BY <1>7, <2>5 DEF Fetch, Subscribed, more, top, end
    <3>2. client'.got = more /\ client'.cursor = top
      BY <1>0, <3>1 DEF At, Client
    <3>3. QED BY <2>2, <3>2 DEF InOrder, Ascending, UpTo
  <2>6. QED BY <2>4, <2>5
<1>8. CASE Polled
  <2>1. CASE client' = Idle("closed", client.connects, client.got)
    BY <1>i, <2>1 DEF InOrder
  <2>2. CASE client' = [At("polling") EXCEPT !.final = TRUE] \/ client' = At("polling")
    <3>1. client'.got = client.got /\ client'.cursor = client.cursor
      BY <1>0, <2>2 DEF At, Client
    <3>2. client.pc \in Connected
      BY <1>8 DEF Polled, Subscribed, Connected, Polling
    <3>3. QED BY <1>a, <3>1, <3>2
  <2>3. QED BY <1>8, <2>1, <2>2 DEF Polled, Subscribed
<1>9. CASE \/ \E a \in Attempt : PublishChunk(a) \/ Settle(a) \/ FlushFails(a) \/ RetryByAnother(a)
           \/ \E e \in ending : Finalize(e) \/ FinalizeFails(e)
           \/ EndedFromOutside \/ Republish \/ MetaExpires \/ StreamExpires \/ RedisRestarts
  <2>1. UNCHANGED client
    BY <1>9, Zenon DEF PublishChunk, Settle, FlushFails, RetryByAnother, Finalize, FinalizeFails,
                EndedFromOutside, Republish, MetaExpires, StreamExpires, RedisRestarts
  <2>2. QED BY <1>u, <2>1
<1>10. CASE UNCHANGED vars
  BY <1>10, <1>u DEF vars
<1>11. QED
  BY <1>1, <1>2, <1>3, <1>4, <1>5, <1>6, <1>7, <1>8, <1>9, <1>10
  DEF Next, TaskStep, Subscription, Environment

(* Over all the connections of a session, whatever Redis loses, the ids of   *)
(* the events a client is sent only grow.                                   *)
(* (job_subscription.py: last_processed_sequence_number, progress_dictionary)*)
THEOREM EventsStayInOrder == Spec => []EventsInOrder
<1>1. InOrder => EventsInOrder
  BY DEF InOrder, Ascending, EventsInOrder
<1>2. QED BY <1>1, TypeHolds, InitOrder, OrderStep, PTL DEF Spec

-----------------------------------------------------------------------------
(* Completed is the last word *)

LEMMA CompletedStays ==
    ASSUME [Next]_vars, job.status = "completed"
    PROVE  job' = job
<1>1. job.status \in Terminal /\ job.status # "active" /\ ~ IsLost
  BY DEF Terminal, IsLost
<1>2. ASSUME NEW a \in Attempt, TaskStep(a) PROVE job' = job
  BY <1>1, <1>2 DEF TaskStep, PublishChunk, Settle, ResetMeta
<1>3. CASE \E e \in ending : Finalize(e)
  BY <1>3, Zenon DEF Finalize
<1>4. CASE Republish \/ Connect \/ Disconnect
  BY <1>4 DEF Republish, Connect, Disconnect, producer
<1>5. CASE Subscription
  BY <1>1, <1>5 DEF Subscription, Subscribed, Revive, ResetRow, PeekMeta, PeekStream, ConfirmMeta,
    Recheck, ReadStream, ProcessEntry, AskRow, AskStream, RecallMeta, PollRow, Fetch, Polled, producer
<1>6. CASE Environment
  BY <1>1, <1>6 DEF Environment, FlushFails, RetryByAnother, ResetRow, FinalizeFails,
    EndedFromOutside, MetaExpires, StreamExpires, RedisRestarts, RedisFails, producer
<1>7. CASE UNCHANGED vars
  BY <1>7 DEF vars, producer
<1>8. QED BY <1>2, <1>3, <1>4, <1>5, <1>6, <1>7 DEF Next

EndsWithCompleted(got) ==
    \A i \in 1..Len(got) : got[i].kind = "completed" => i = Len(got)

(* A connection that has sent completed has nothing left to send: its cursor *)
(* is past the chunks of the row, and it has that row in hand.               *)
LastWord ==
    /\ EndsWithCompleted(client.got)
    /\ Completed =>
          /\ job.status = "completed"
          /\ client.pc \in Connected => client.pc \in Polling /\ client.cursor = job.count + 1
    /\ client.pc = "fetching" =>
          (Completed \/ client.seen.status = "completed" => client.seen = job)

LEMMA InitLast == Init => LastWord
  BY DEF Init, Idle, NoRow, LastWord, EndsWithCompleted, Completed

LEMMA LastStep == TypeInv /\ LastWord /\ [Next]_vars => LastWord'
<1> SUFFICES ASSUME TypeInv, LastWord, [Next]_vars PROVE LastWord'
  OBVIOUS
<1>0. ProducerType /\ client \in Client(Len(log)) /\ Batches /\ Len(log) \in Nat
  BY TypeParts DEF TypeInv, ProducerType
<1>p. /\ \A pc \in {"away", "closed"} : pc \notin Connected /\ pc # "fetching"
      /\ Polling \subseteq Connected
  BY DEF Connected, Checking, Live, Polling
<1>g. client.got \in Seq(Event) /\ Len(client.got) \in Nat /\ client.cursor \in Nat
      /\ client.base \in Nat /\ job.count \in Nat /\ client.seen.count \in Nat
  BY <1>0 DEF Client, ProducerType, Row
<1>j. job.status = "completed" => job' = job
  BY CompletedStays
<1>k. ASSUME client'.got = client.got,
             client'.pc \in Connected => client.pc \in Connected /\ client'.cursor = client.cursor,
             client.pc \in Polling => client'.pc \in Polling \union {"away", "closed"},
             client'.pc = "fetching" => client'.seen = job /\ job' = job
      PROVE  LastWord'
  <2>1. Completed' = Completed
    BY <1>k DEF Completed
  <2>2. EndsWithCompleted(client'.got)
    BY <1>k DEF LastWord
  <2>3. Completed => /\ job' = job /\ job.status = "completed"
                     /\ client'.pc \in Connected =>
                           client'.pc \in Polling /\ client'.cursor = job'.count + 1
    BY <1>j, <1>k, <1>p DEF LastWord
  <2>4. QED BY <1>k, <2>1, <2>2, <2>3 DEF LastWord, EndsWithCompleted
<1>u. ASSUME UNCHANGED client PROVE LastWord'
  BY <1>j, <1>u DEF LastWord, EndsWithCompleted, Completed
<1>1. CASE Connect
  <2> DEFINE got == IF HasEnd(client.got) THEN <<>> ELSE client.got
  <2>1. client'.got = got /\ client'.pc # "fetching"
    BY <1>1 DEF Connect, Idle
  <2>2. \A i \in 1..Len(got) : got[i].kind # "completed"
    <3>1. CASE HasEnd(client.got)
      BY <3>1
    <3>2. CASE ~ HasEnd(client.got)
      BY <3>2 DEF HasEnd, Terminal
    <3>3. QED BY <3>1, <3>2
  <2> HIDE DEF got
  <2>3. EndsWithCompleted(client'.got) /\ ~ Completed'
    BY <2>1, <2>2 DEF EndsWithCompleted, Completed
  <2>4. QED BY <2>1, <2>3 DEF LastWord, EndsWithCompleted
<1>2. CASE Disconnect
  <2>1. CASE client' = Idle("away", client.connects, client.got)
    <3>1. client'.got = client.got /\ client'.pc = "away"
      BY <2>1 DEF Idle
    <3>2. QED BY <1>k, <1>p, <3>1
  <2>2. CASE /\ Len(client.got) > client.base
             /\ client' = Idle("away", client.connects, SubSeq(client.got, 1, Len(client.got) - 1))
    <3> DEFINE got == SubSeq(client.got, 1, Len(client.got) - 1)
    <3>1. Len(client.got) >= 1
      BY <1>g, <2>2
    <3>2. Len(got) = Len(client.got) - 1 /\ \A i \in 1..Len(got) : got[i] = client.got[i]
      BY <1>g, <3>1
    <3>3. client'.got = got /\ client'.pc = "away"
      BY <2>2 DEF Idle
    <3> HIDE DEF got
    <3>4. \A i \in 1..Len(got) : got[i].kind # "completed"
      BY <1>g, <3>1, <3>2 DEF LastWord, EndsWithCompleted
    <3>5. EndsWithCompleted(client'.got) /\ ~ Completed' /\ client'.pc # "fetching"
      BY <3>3, <3>4 DEF EndsWithCompleted, Completed
    <3>6. QED BY <3>5 DEF LastWord, EndsWithCompleted
  <2>3. QED BY <1>2, <2>1, <2>2 DEF Disconnect
<1>3. CASE Revive
  <2>1. client.pc \in Connected /\ client.pc \notin Polling
    BY <1>3 DEF Revive, Connected, Polling
  <2>2. CASE \/ \E a \in Attempt : client' = [client EXCEPT !.pc = "preparing", !.attempt = a]
             \/ client' = [client EXCEPT !.pc = "opening"]
    <3>1. client'.got = client.got /\ client'.cursor = client.cursor /\ client'.pc # "fetching"
      BY <1>0, <2>2 DEF Client
    <3>2. QED BY <1>k, <2>1, <3>1
  <2>3. CASE client' = Idle("away", client.connects, client.got)
    <3>1. client'.got = client.got /\ client'.pc = "away"
      BY <2>3 DEF Idle
    <3>2. QED BY <1>k, <1>p, <3>1
  <2>4. QED BY <1>3, <2>2, <2>3 DEF Revive
<1>4. ASSUME NEW a \in Attempt, ResetMeta(a) PROVE LastWord'
  <2>1. CASE client' = client
    BY <1>u, <2>1
  <2>2. CASE client.pc = "preparing" /\ client' = [client EXCEPT !.pc = "opening", !.attempt = None]
    <3>1. client'.got = client.got /\ client'.cursor = client.cursor /\ client'.pc # "fetching"
          /\ client.pc \in Connected /\ client.pc \notin Polling
      BY <1>0, <2>2 DEF Client, Connected, Polling
    <3>2. QED BY <1>k, <3>1
  <2>3. QED BY <1>4, <2>1, <2>2 DEF ResetMeta
<1>5. CASE RedisFails \/ PeekMeta \/ PeekStream \/ ConfirmMeta \/ Recheck \/ ReadStream
           \/ AskRow \/ AskStream \/ RecallMeta
  <2>1. client.pc \in Connected /\ client.pc \notin Polling
    BY <1>5 DEF RedisFails, PeekMeta, PeekStream, ConfirmMeta, Recheck, ReadStream, AskRow,
                AskStream, RecallMeta, Subscribed, Connected, Checking, Live, Polling
  <2>2. client'.got = client.got /\ client'.cursor = client.cursor /\ client'.pc # "fetching"
    BY <1>0, <1>5 DEF RedisFails, PeekMeta, PeekStream, ConfirmMeta, Recheck, ReadStream, AskRow,
                      AskStream, RecallMeta, Subscribed, At, Client
  <2>3. QED BY <1>k, <2>1, <2>2
<1>6. CASE PollRow
  <2>1. client.pc = "polling" /\ job' = job /\ client' = [At("fetching") EXCEPT !.seen = job]
    BY <1>6 DEF PollRow, Subscribed, producer
  <2>2. client'.got = client.got /\ client'.cursor = client.cursor /\ client'.seen = job
        /\ client'.pc = "fetching"
    BY <1>0, <2>1 DEF At, Client
  <2>3. "polling" \in Polling /\ "fetching" \in Polling
    BY DEF Polling
  <2>4. QED BY <1>k, <1>p, <2>1, <2>2, <2>3
<1>7. CASE ProcessEntry
  <2> DEFINE e    == log[client.entry + 1]
             done == client.entry + 1 = client.upto
             rest == [client EXCEPT !.pc = IF done THEN "reading" ELSE "processing",
                                    !.entry = @ + 1, !.upto = IF done THEN 0 ELSE @,
                                    !.first = FALSE]
             poll == [At("polling") EXCEPT !.entry = 0, !.upto = 0, !.first = FALSE]
  <2>1. client.pc = "processing" /\ client.pc \in Connected /\ client.pc \notin Polling
        /\ client.entry + 1 \in 1..Len(log)
    BY <1>0, <1>7 DEF ProcessEntry, Subscribed, Batches, Client, Connected, Live, Polling
  <2>2. e \in Entry
    BY <1>0, <2>1, LogTyped
  <2>3. /\ rest.got = client.got /\ rest.cursor = client.cursor /\ rest.pc # "fetching"
        /\ poll.got = client.got /\ poll.cursor = client.cursor /\ poll.pc # "fetching"
    BY <1>0 DEF At, Client
  <2>4. \/ client' = poll \/ client' = rest
        \/ client' = Idle("closed", client.connects, client.got)
        \/ /\ e.kind = "chunk"
           /\ client' = [rest EXCEPT !.cursor = e.seq, !.got = Append(@, e)]
    <3>1. e.kind \in {"chunk", "__end__"} /\ e.seq \in Nat
      BY <2>2 DEF Entry
    <3>2. QED BY <1>7, <1>g, <3>1 DEF ProcessEntry, Subscribed
  <2>5. ASSUME client' = [rest EXCEPT !.cursor = e.seq, !.got = Append(@, e)]
        PROVE  client'.got = Append(client.got, e) /\ client'.pc # "fetching"
    BY <1>0, <2>5 DEF Client
  <2> HIDE DEF rest, poll, e
  <2>6. CASE client' = poll \/ client' = rest
    BY <1>k, <2>1, <2>3, <2>6
  <2>7. CASE client' = Idle("closed", client.connects, client.got)
    <3>1. client'.got = client.got /\ client'.pc = "closed"
      BY <2>7 DEF Idle
    <3>2. QED BY <1>k, <1>p, <3>1
  <2>8. CASE /\ e.kind = "chunk"
             /\ client' = [rest EXCEPT !.cursor = e.seq, !.got = Append(@, e)]
    <3>1. \A i \in 1..Len(client.got) : client.got[i].kind # "completed"
      BY <2>1 DEF LastWord, Completed
    <3> DEFINE got == Append(client.got, e)
    <3>2. Len(got) = Len(client.got) + 1 /\ got[Len(client.got) + 1] = e
          /\ \A i \in 1..Len(client.got) : got[i] = client.got[i]
      BY <1>g
    <3>3. client'.got = got /\ client'.pc # "fetching"
      BY <2>5, <2>8
    <3> HIDE DEF got
    <3>4. \A i \in 1..Len(got) : got[i].kind # "completed"
      <4> TAKE i \in 1..Len(got)
      <4>1. i \in 1..Len(client.got) \/ i = Len(client.got) + 1
        BY <1>g, <3>2
      <4>2. QED BY <2>8, <3>1, <3>2, <4>1
    <3>5. QED BY <3>3, <3>4 DEF LastWord, EndsWithCompleted, Completed
  <2>9. QED BY <2>4, <2>6, <2>7, <2>8
<1>8. CASE Fetch
  <2> DEFINE kept == Stored(client.cursor)
             more == client.got \o kept
             top  == Max({client.cursor, job.count})
             end  == client.seen.count + 1
  <2>1. client.pc = "fetching" /\ client.pc \in Polling /\ client.pc \in Connected /\ job' = job
    BY <1>8 DEF Fetch, Subscribed, producer, Polling, Connected
  <2>2. top \in {client.cursor, job.count} /\ top >= client.cursor /\ top >= job.count
    <3>1. client.cursor \in Int /\ job.count \in Int
      BY <1>g
    <3>2. QED BY ONLY <3>1, MaxOfTwo, Zenon
  <2>3. /\ kept \in Seq(Event) /\ Len(kept) \in Nat
        /\ job.count <= client.cursor => Len(kept) = 0
        /\ \A i \in 1..Len(kept) : kept[i].kind = "chunk"
    <3>1. kept \in Seq(Event) /\ (job.count <= client.cursor => Len(kept) = 0)
          /\ \A i \in 1..Len(kept) : kept[i] = Chunk(job.attempt, client.cursor + i)
      BY <1>0, <1>g, StoredType
    <3> HIDE DEF kept
    <3>2. \A i \in 1..Len(kept) : kept[i].kind = "chunk"
      <4>1. \A i \in 1..Len(kept) : Chunk(job.attempt, client.cursor + i).kind = "chunk"
        BY DEF Chunk
      <4>2. QED BY <3>1, <4>1
    <3>3. Len(kept) \in Nat
      BY <3>1
    <3>4. QED BY <3>1, <3>2, <3>3
  <2>4. /\ Len(more) = Len(client.got) + Len(kept) /\ more \in Seq(Event)
        /\ \A i \in 1..Len(client.got) : more[i] = client.got[i]
        /\ \A i \in 1..Len(kept) : more[Len(client.got) + i] = kept[i]
    <3> HIDE DEF kept
    <3>1. client.got \in Seq(Event) /\ kept \in Seq(Event)
      BY <1>g, <2>3
    <3>2. QED BY <3>1
  <2>5. \/ client' = [[At("polled") EXCEPT !.seen = NoRow] EXCEPT !.cursor = top, !.got = more]
        \/ /\ end > top /\ client.seen.status \in Terminal
           /\ client' = [[At("polled") EXCEPT !.seen = NoRow]
                            EXCEPT !.cursor = end, !.got = Append(more, EndEvent(end, client.seen.status))]
    BY <1>8 DEF Fetch, Subscribed
  <2>6. client'.pc = "polled" /\ client'.pc \in Polling /\ client'.pc \in Connected
    <3>1. client'.pc = "polled"
      BY <1>0, <2>5 DEF At, Client
    <3>2. QED BY <3>1 DEF Polling, Connected
  <2> HIDE DEF kept, more, top, end
  <2>7. CASE Completed
    <3>1. client.seen = job /\ client.cursor = job.count + 1 /\ job.status = "completed"
      BY <2>1, <2>7 DEF LastWord
    <3>2. Len(kept) = 0 /\ top = client.cursor /\ ~ (end > top)
      BY <1>g, <2>2, <2>3, <3>1 DEF end
    <3>3. more = client.got
      <4>1. Len(more) = Len(client.got)
        BY <1>g, <2>4, <3>2
      <4>2. QED BY <1>g, <2>4, <4>1
    <3>4. client'.got = client.got /\ client'.cursor = client.cursor
      BY <1>0, <2>5, <3>2, <3>3 DEF At, Client
    <3>5. QED BY <1>k, <2>1, <2>6, <3>4
  <2>8. CASE ~ Completed
    <3>1. \A i \in 1..Len(more) : more[i].kind # "completed"
      <4> TAKE i \in 1..Len(more)
      <4>1. CASE i <= Len(client.got)
        BY <1>g, <2>4, <2>8, <4>1 DEF Completed
      <4>2. CASE i > Len(client.got)
        <5>1. i - Len(client.got) \in 1..Len(kept) /\ Len(client.got) + (i - Len(client.got)) = i
          BY <1>g, <2>3, <2>4, <4>2
        <5>2. QED BY <2>3, <2>4, <5>1
      <4>3. QED BY <1>g, <2>4, <4>1, <4>2
    <3>2. CASE client' = [[At("polled") EXCEPT !.seen = NoRow] EXCEPT !.cursor = top, !.got = more]
      <4>1. client'.got = more
        BY <1>0, <3>2 DEF At, Client
      <4>2. QED BY <2>6, <3>1, <4>1 DEF LastWord, EndsWithCompleted, Completed
    <3>3. CASE /\ end > top /\ client.seen.status \in Terminal
               /\ client' = [[At("polled") EXCEPT !.seen = NoRow]
                            EXCEPT !.cursor = end, !.got = Append(more, EndEvent(end, client.seen.status))]
      <4> DEFINE last == EndEvent(end, client.seen.status)
                 got  == Append(more, last)
      <4>1. client'.got = got /\ client'.cursor = end
        BY <1>0, <3>3 DEF At, Client
      <4>2. Len(got) = Len(more) + 1 /\ got[Len(more) + 1] = last /\ Len(more) \in Nat
            /\ \A i \in 1..Len(more) : got[i] = more[i]
        BY <2>4
      <4>3. last.kind = client.seen.status
        BY DEF EndEvent
      <4> HIDE DEF got, last
      <4>4. \A i \in 1..Len(got) : got[i].kind = "completed" =>
               i = Len(got) /\ client.seen.status = "completed"
        <5> TAKE i \in 1..Len(got)
        <5>1. i \in 1..Len(more) \/ i = Len(more) + 1
          BY <4>2
        <5>2. QED BY <3>1, <4>2, <4>3, <5>1
      <4>5. client.seen.status = "completed" => client.seen = job /\ end = job.count + 1
        BY <2>1 DEF LastWord, end
      <4>6. QED BY <2>1, <2>6, <4>1, <4>4, <4>5 DEF LastWord, EndsWithCompleted, Completed
    <3>4. QED BY <2>5, <3>2, <3>3
  <2>9. QED BY <2>7, <2>8
<1>9. CASE Polled
  <2>1. CASE client' = Idle("closed", client.connects, client.got)
    <3>1. client'.got = client.got /\ client'.pc = "closed"
      BY <2>1 DEF Idle
    <3>2. QED BY <1>k, <1>p, <3>1
  <2>2. CASE client' = [At("polling") EXCEPT !.final = TRUE] \/ client' = At("polling")
    <3>1. client'.got = client.got /\ client'.cursor = client.cursor /\ client'.pc = "polling"
      BY <1>0, <2>2 DEF At, Client
    <3>2. client.pc \in Connected /\ client'.pc \in Polling
      BY <1>9, <3>1 DEF Polled, Subscribed, Connected, Polling
    <3>3. QED BY <1>k, <3>1, <3>2
  <2>3. QED BY <1>9, <2>1, <2>2 DEF Polled, Subscribed
<1>10. CASE \/ \E a \in Attempt : PublishChunk(a) \/ Settle(a) \/ FlushFails(a) \/ RetryByAnother(a)
            \/ \E e \in ending : Finalize(e) \/ FinalizeFails(e)
            \/ EndedFromOutside \/ Republish \/ MetaExpires \/ StreamExpires \/ RedisRestarts
  <2>1. UNCHANGED client
    BY <1>10, Zenon DEF PublishChunk, Settle, FlushFails, RetryByAnother, Finalize, FinalizeFails,
                EndedFromOutside, Republish, MetaExpires, StreamExpires, RedisRestarts
  <2>2. QED BY <1>u, <2>1
<1>11. CASE UNCHANGED vars
  BY <1>11, <1>u DEF vars
<1>12. QED
  BY <1>1, <1>2, <1>3, <1>4, <1>5, <1>6, <1>7, <1>8, <1>9, <1>10, <1>11
  DEF Next, TaskStep, Subscription, Environment

(* A client that is told its run completed is told nothing after it, and     *)
(* the run is completed in PostgreSQL: no order of row, chunks and end event *)
(* read by the fallback announces an answer that is not stored.              *)
(* (job_subscription.py: _stream_postgresql_fallback_async)                  *)
THEOREM CompletedIsTheLastWord ==
    Spec => [](Completed => /\ client.got[Len(client.got)].kind = "completed"
                            /\ job.status = "completed")
<1>1. LastWord => (Completed => /\ client.got[Len(client.got)].kind = "completed"
                                /\ job.status = "completed")
  BY DEF LastWord, EndsWithCompleted, Completed
<1>2. QED BY <1>1, TypeHolds, InitLast, LastStep, PTL DEF Spec

-----------------------------------------------------------------------------
(* Of a run that was executed once, and a reader that follows its stream:  *)
(* a completed answer is whole, and a connection closed without an end     *)
(* event belongs to a run whose chunks were lost.                          *)

-----------------------------------------------------------------------------
(* The invariant *)

Begun == {a \in Attempt : task[a].pc # "absent"}

(* The row of a run whose only attempt is a *)
RowOf(a) ==
    /\ task[a].pc \in {"running", "stopped", "ended"}
    /\ job.status # "none"
    /\ job.status = "active" => job.count = 0
    /\ job.count > 0 => task[a].pc = "ended"
    /\ job.count <= task[a].chunks
    /\ job.status = "completed" => task[a].pc = "ended" /\ job.count = task[a].chunks
    /\ task[a].pc = "ended" => job.status \in Terminal
    /\ \A e \in ending : job.status \in Terminal /\ e.count = job.count

(* Its stream: chunk i is entry i, the end comes after the chunks and after  *)
(* the row, and what is gone from Redis under an active hash was trimmed.    *)
StreamOf(a) ==
    /\ \A i \in 1..Len(log) : log[i].kind = "chunk" =>
          log[i].seq = i /\ i <= task[a].chunks
    /\ \A i \in 1..Len(log) : log[i].kind = "__end__" =>
          meta.status # "active" /\ job.status \in Terminal /\ log[i].seq > job.count
    /\ task[a].pc = "running" /\ meta.status = "active" => Len(log) = task[a].chunks
    /\ expiring => meta.status # "active"
    /\ head > Len(log) /\ Len(log) > 0 => meta.status # "active"

(* From entry h on there is no chunk and there will be none. *)
NoChunkFrom(h) ==
    /\ meta.status # "active"
    /\ \A i \in 1..Len(log) : i >= h => log[i].kind = "__end__"

(* What the client has: the first chunks, then perhaps the end *)
AnswerOf(a) ==
    /\ \A i \in 1..Len(client.got) :
          /\ client.got[i].seq = i
          /\ client.got[i].kind = "chunk" => i <= task[a].chunks
          /\ client.got[i].kind # "chunk" =>
                /\ i = Len(client.got) /\ i = job.count + 1
                /\ job.status = client.got[i].kind /\ job.status \in Terminal
    /\ client.pc \in Connected => client.cursor = Len(client.got)
    /\ HasEnd(client.got) => client.pc \in Polling \union {"away", "closed"}

(* What a reader past its first entry can still miss: nothing, or only       *)
(* entries that are not chunks                                              *)
ReaderOf ==
    /\ client.pc \in {"reviving", "preparing"} => client.first
    /\ ~ client.first /\ client.pc \in Live \union Checking =>
          /\ client.entry > 0
          /\ client.entry <= client.cursor \/ NoChunkFrom(client.entry + 1)
    /\ client.pc \in Live /\ (~ client.first \/ client.pc = "processing") =>
          \/ head <= client.entry + 1
          \/ head <= client.upto + 1
          \/ NoChunkFrom(head)
    /\ ~ client.first /\ client.pc \in Checking \union {"recalling"} => NoChunkFrom(head)

(* What the fallback knows of the row *)
PollOf ==
    /\ client.final => client.pc \in Polling /\ job.status \in Terminal
    /\ client.pc = "fetching" /\ client.seen.status \in Terminal => client.seen = job
    /\ client.pc = "fetching" /\ client.final => client.seen.status \in Terminal
    /\ client.pc = "polled" /\ client.final /\ ~ HasEnd(client.got) => job.count < Len(client.got)
    /\ client.pc = "closed" /\ ~ HasEnd(client.got) =>
          job.status \in Terminal /\ job.count < Len(client.got)

Sole(a) == RowOf(a) /\ StreamOf(a) /\ AnswerOf(a) /\ ReaderOf /\ PollOf

AnswerInv ==
    /\ IsFiniteSet(Begun)
    /\ Begun # {}
    /\ \A a \in Attempt : Begun = {a} => Sole(a)

-----------------------------------------------------------------------------
(* The steps of the job service *)

(* What a step of the job service leaves to the reader of a sole attempt *)
Frame(a) ==
    /\ UNCHANGED client
    /\ job.status \in Terminal => job' = job
    /\ task'[a].chunks >= task[a].chunks
    /\ Len(log') >= Len(log)
    /\ \A h \in Nat : NoChunkFrom(h) => NoChunkFrom(h)'
    /\ head' >= head
    /\ \/ head' = head
       \/ NoChunkFrom(head)'
       \/ client.pc \notin Live
       \/ client.first /\ client.upto = 0
       \/ head' <= client.entry + 1
       \/ head' <= client.upto + 1

LEMMA MaxOfThree ==
    ASSUME NEW x \in Int, NEW y \in Int, NEW z \in Int
    PROVE  Max({x, y, z}) \in {x, y, z}
<1>1. \E m \in {x, y, z} : \A k \in {x, y, z} : m >= k
  <2>1. CASE x >= y /\ x >= z
    BY <2>1
  <2>2. CASE y >= x /\ y >= z
    BY <2>2
  <2>3. CASE z >= x /\ z >= y
    BY <2>3
  <2>4. QED BY <2>1, <2>2, <2>3
<1>2. QED BY <1>1 DEF Max

(* A reader that follows the stream loses nothing of it to an added entry. *)
LEMMA AddFollowed ==
    ASSUME TypeInv, MayLag = FALSE, NEW e \in Entry, Add(e)
    PROVE  \/ head' = head
           \/ client.pc \notin Live
           \/ client.first /\ client.upto = 0
           \/ head' <= client.entry + 1
           \/ head' <= client.upto + 1
<1>1. ProducerType /\ client \in Client(Len(log))
  BY TypeParts DEF TypeInv
<1>2. head \in Int /\ client.entry + 1 \in Int /\ client.upto + 1 \in Int
  BY <1>1 DEF ProducerType, Client
<1>3. head' >= head /\ head' \in Int
  BY <1>1, AddType
<1>4. Max({head, client.entry + 1, client.upto + 1}) \in {head, client.entry + 1, client.upto + 1}
  BY ONLY <1>2, MaxOfThree, Zenon
<1>5. \/ client.pc \notin Live
      \/ client.first /\ client.upto = 0
      \/ head' <= Max({head, client.entry + 1, client.upto + 1})
  BY DEF Add
<1>6. QED BY <1>2, <1>3, <1>4, <1>5

LEMMA PublishSole ==
    ASSUME TypeInv, MayLag = FALSE, NEW a \in Attempt, Begun = {a}, RowOf(a), StreamOf(a),
           NEW b \in Attempt, PublishChunk(b)
    PROVE  RowOf(a)' /\ StreamOf(a)' /\ Frame(a)
<1>0. ProducerType /\ client \in Client(Len(log)) /\ Len(log) \in Nat
  BY TypeParts DEF TypeInv, ProducerType
<1>1. b = a /\ task[a].pc = "running"
  BY DEF PublishChunk, Begun
<1>2. task[a] \in Work /\ task[a].chunks \in Nat /\ task \in [Attempt -> Work]
  BY <1>0 DEF ProducerType, Work
<1>3. UNCHANGED <<job, ending, client>>
  BY DEF PublishChunk
<1> DEFINE seq == task[a].chunks + 1
<1>4. CASE meta.status = "active" /\ ~ meta.fenced
  <2>1. /\ Add(Chunk(a, seq)) /\ meta' = [meta EXCEPT !.lastSeq = seq]
        /\ expiring' = FALSE /\ task' = [task EXCEPT ![a].chunks = seq]
    BY <1>1, <1>4 DEF PublishChunk
  <2>2. Chunk(a, seq) \in Entry
    BY <1>2 DEF Chunk, Entry
  <2>3. /\ log' \in Seq(Entry) /\ Len(log') = Len(log) + 1 /\ head' \in 1..(Len(log') + 1)
        /\ head' >= head /\ (head' = head \/ head' <= Len(log) + 1)
        /\ \A i \in 1..Len(log) : log'[i] = log[i]
        /\ log'[Len(log) + 1] = Chunk(a, seq)
    BY <1>0, <2>1, <2>2, AddType
  <2>4. task'[a].pc = "running" /\ task'[a].chunks = seq
    BY <1>1, <1>2, <2>1 DEF Work
  <2>5. meta'.status = "active"
    BY <1>0, <1>4, <2>1 DEF ProducerType, Hash
  <2>6. Len(log) = task[a].chunks /\ \A i \in 1..Len(log) : log[i].kind # "__end__"
    BY <1>1, <1>4 DEF StreamOf
  <2>7. RowOf(a)'
    BY <1>0, <1>1, <1>2, <1>3, <2>4 DEF RowOf, ProducerType, Row
  <2>8. \A i \in 1..Len(log') : i \in 1..Len(log) \/ i = Len(log) + 1
    BY <1>0, <2>3
  <2>9. log'[Len(log) + 1].seq = Len(log) + 1 /\ log'[Len(log) + 1].kind = "chunk"
    BY <2>3, <2>6 DEF Chunk
  <2>10. head <= Len(log) + 1
    BY <1>0 DEF ProducerType
  <2>11. StreamOf(a)'
    <3>1. \A i \in 1..Len(log') : log'[i].kind # "__end__"
      BY <2>3, <2>6, <2>8, <2>9
    <3>2. \A i \in 1..Len(log') : log'[i].kind = "chunk" => log'[i].seq = i /\ i <= task'[a].chunks
      <4> TAKE i \in 1..Len(log')
      <4>1. CASE i \in 1..Len(log)
        BY <1>2, <2>3, <2>4, <4>1 DEF StreamOf
      <4>2. CASE i = Len(log) + 1
        BY <2>4, <2>6, <2>9, <4>2
      <4>3. QED BY <2>8, <4>1, <4>2
    <3>3. Len(log') = task'[a].chunks /\ ~ (head' > Len(log'))
      BY <1>0, <2>3, <2>4, <2>6, <2>10 DEF ProducerType
    <3>4. QED BY <2>1, <3>1, <3>2, <3>3 DEF StreamOf
  <2>12. \A h \in Nat : ~ NoChunkFrom(h)
    BY <1>4 DEF NoChunkFrom
  <2>13. Frame(a)
    <3>1. \/ head' = head
          \/ client.pc \notin Live
          \/ client.first /\ client.upto = 0
          \/ head' <= client.entry + 1
          \/ head' <= client.upto + 1
      BY <2>1, <2>2, AddFollowed, Zenon
    <3>2. task'[a].chunks >= task[a].chunks /\ Len(log') >= Len(log)
      BY <1>0, <1>2, <2>3, <2>4
    <3>3. QED BY <1>3, <2>3, <2>12, <3>1, <3>2 DEF Frame
  <2>14. QED BY <2>7, <2>11, <2>13
<1>5. CASE ~ (meta.status = "active" /\ ~ meta.fenced)
  <2>1. /\ task' = [task EXCEPT ![a] = [pc |-> "stopped", chunks |-> seq]]
        /\ UNCHANGED <<meta, log, head, expiring>>
    BY <1>1, <1>5 DEF PublishChunk
  <2>2. task'[a].pc = "stopped" /\ task'[a].chunks = seq
    BY <1>2, <2>1
  <2>3. RowOf(a)'
    BY <1>0, <1>1, <1>2, <1>3, <2>2 DEF RowOf, ProducerType, Row
  <2>4. StreamOf(a)'
    BY <1>0, <1>2, <1>3, <2>1, <2>2 DEF StreamOf
  <2>5. Frame(a)
    BY <1>0, <1>2, <1>3, <2>1, <2>2 DEF Frame, NoChunkFrom, ProducerType
  <2>6. QED BY <2>3, <2>4, <2>5
<1>6. QED BY <1>4, <1>5

LEMMA SettleSole ==
    ASSUME TypeInv, NEW a \in Attempt, Begun = {a}, RowOf(a), StreamOf(a),
           NEW b \in Attempt, Settle(b) \/ FlushFails(b)
    PROVE  RowOf(a)' /\ StreamOf(a)' /\ Frame(a)
<1>0. ProducerType /\ client \in Client(Len(log)) /\ Len(log) \in Nat
  BY TypeParts DEF TypeInv, ProducerType
<1>1. b = a /\ task[a].pc \in {"running", "stopped"}
  BY DEF Settle, FlushFails, Begun
<1>2. task[a] \in Work /\ task[a].chunks \in Nat /\ task \in [Attempt -> Work]
  BY <1>0 DEF ProducerType, Work
<1>3. /\ UNCHANGED <<meta, log, head, expiring, client>>
      /\ task' = [task EXCEPT ![a].pc = "ended"]
  BY <1>1 DEF Settle, FlushFails
<1>4. task'[a].pc = "ended" /\ task'[a].chunks = task[a].chunks
  BY <1>2, <1>3 DEF Work
<1>5. job.count = 0 /\ job.status # "completed" /\ job.status \in {"active"} \union Terminal
      /\ (job.status = "active" => ending = {}) /\ "active" \notin Terminal
  BY <1>0, <1>1 DEF RowOf, ProducerType, Row, Status, Terminal
<1>6. /\ job'.status \in Terminal
      /\ job.status \in Terminal => job' = job
      /\ job'.count \in 0..task[a].chunks
      /\ job'.status = "completed" => job'.count = task[a].chunks
      /\ \A e \in ending' : e.count = job'.count
  <2>1. CASE FlushFails(b)
    <3>1. /\ job' = IF job.status = "active"
                   THEN [status |-> "failed", attempt |-> None, count |-> 0] ELSE job
          /\ ending' = ending \union {[status |-> "failed", count |-> 0]}
      BY <2>1 DEF FlushFails
    <3>2. job'.count = 0 /\ job'.status \in Terminal /\ job'.status # "completed"
      BY <1>5, <3>1 DEF Terminal
    <3>3. \A e \in ending' : e.count = 0
      BY <1>5, <3>1 DEF RowOf
    <3>4. QED BY <1>2, <1>5, <3>1, <3>2, <3>3
  <2>2. CASE Settle(b) /\ job.status = "active"
    <3>1. PICK status \in Terminal :
             /\ job' = [status |-> status, attempt |-> a, count |-> task[a].chunks]
             /\ ending' = ending \union {[status |-> status, count |-> task[a].chunks]}
      BY <1>1, <1>5, <2>2 DEF Settle
    <3>2. job'.count = task[a].chunks /\ job'.status \in Terminal
      BY <3>1
    <3>3. \A e \in ending' : e.count = task[a].chunks
      BY <1>5, <2>2, <3>1
    <3>4. QED BY <1>2, <1>5, <2>2, <3>2, <3>3
  <2>3. CASE Settle(b) /\ job.status # "active"
    <3>1. job' = job /\ ending' = ending \union {[status |-> job.status, count |-> job.count]}
      BY <1>1, <1>5, <2>3 DEF Settle
    <3>2. \A e \in ending' : e.count = job.count
      BY <3>1 DEF RowOf
    <3>3. QED BY <1>2, <1>5, <2>3, <3>1, <3>2
  <2>4. QED BY <2>1, <2>2, <2>3
<1>7. RowOf(a)'
  <2>1. job'.status # "none" /\ job'.status # "active"
    BY <1>6 DEF Terminal
  <2>2. QED BY <1>2, <1>4, <1>6, <2>1 DEF RowOf
<1>8. StreamOf(a)'
  <2>1. \A i \in 1..Len(log) : log[i].kind = "__end__" => job.status \in Terminal
    BY DEF StreamOf
  <2>2. QED BY <1>0, <1>3, <1>4, <1>6, <2>1 DEF StreamOf
<1>9. Frame(a)
  BY <1>0, <1>2, <1>3, <1>4, <1>6 DEF Frame, NoChunkFrom, ProducerType
<1>10. QED BY <1>7, <1>8, <1>9

LEMMA OutsideSole ==
    ASSUME TypeInv, NEW a \in Attempt, Begun = {a}, RowOf(a), StreamOf(a), EndedFromOutside
    PROVE  RowOf(a)' /\ StreamOf(a)' /\ Frame(a)
<1>0. ProducerType /\ client \in Client(Len(log)) /\ Len(log) \in Nat
  BY TypeParts DEF TypeInv, ProducerType
<1>1. task[a] \in Work /\ task[a].chunks \in Nat /\ task \in [Attempt -> Work]
  BY <1>0 DEF ProducerType, Work
<1>2. /\ job.status = "active" /\ job.status \notin Terminal /\ ending = {}
  BY DEF EndedFromOutside, RowOf, Terminal
<1>3. PICK status \in {"failed", "cancelled"} :
         /\ job' = [status |-> status, attempt |-> None, count |-> 0]
         /\ ending' = ending \union {[status |-> status, count |-> 0]}
  BY DEF EndedFromOutside
<1>4. /\ UNCHANGED <<log, head, expiring, client>>
      /\ meta'.status = meta.status
  BY <1>0 DEF EndedFromOutside, ProducerType, Hash
<1>5. task'[a].pc \in {"running", "stopped", "ended"} /\ task'[a].chunks = task[a].chunks
      /\ (task'[a].pc = "running" => task[a].pc = "running")
  <2>1. CASE UNCHANGED task
    BY <2>1 DEF RowOf
  <2>2. CASE task' = [b \in Attempt |-> IF task[b].pc \in {"running", "stopped"}
                                      THEN [task[b] EXCEPT !.pc = "ended"] ELSE task[b]]
    <3>1. task'[a] = IF task[a].pc \in {"running", "stopped"}
                     THEN [task[a] EXCEPT !.pc = "ended"] ELSE task[a]
      BY <2>2
    <3>2. QED BY <1>1, <3>1 DEF RowOf, Work
  <2>3. QED BY <2>1, <2>2 DEF EndedFromOutside
<1>6. job'.status \in Terminal /\ job'.count = 0 /\ job'.status # "completed"
      /\ job'.status # "none" /\ job'.status # "active"
  BY <1>3 DEF Terminal
<1>7. RowOf(a)'
  <2>1. \A e \in ending' : e.count = 0
    BY <1>2, <1>3
  <2>2. QED BY <1>1, <1>5, <1>6, <2>1 DEF RowOf
<1>8. StreamOf(a)'
  <2>1. \A i \in 1..Len(log) : log[i].kind # "__end__"
    BY <1>2 DEF StreamOf
  <2>2. QED BY <1>0, <1>4, <1>5, <2>1 DEF StreamOf
<1>9. Frame(a)
  BY <1>0, <1>1, <1>2, <1>4, <1>5 DEF Frame, NoChunkFrom, ProducerType
<1>10. QED BY <1>7, <1>8, <1>9

LEMMA FinalizeSole ==
    ASSUME TypeInv, MayLag = FALSE, NEW a \in Attempt, Begun = {a}, RowOf(a), StreamOf(a),
           NEW e \in ending, Finalize(e)
    PROVE  RowOf(a)' /\ StreamOf(a)' /\ Frame(a)
<1>0. ProducerType /\ client \in Client(Len(log)) /\ Len(log) \in Nat
  BY TypeParts DEF TypeInv, ProducerType
<1>1. task[a].chunks \in Nat /\ job.count \in Nat
  BY <1>0 DEF ProducerType, Work, Row
<1>2. ending' = ending \ {e} /\ expiring' = TRUE /\ UNCHANGED <<job, task, client>>
  BY Zenon DEF Finalize
<1>3. job.status \in Terminal /\ e.count = job.count
  BY DEF RowOf
<1>4. RowOf(a)'
  BY <1>2 DEF RowOf
<1>5. CASE meta.status \in Terminal
  <2>1. UNCHANGED <<meta, log, head>> /\ meta.status # "active"
    BY <1>5 DEF Finalize, Terminal
  <2>2. StreamOf(a)'
    BY <1>0, <1>2, <2>1 DEF StreamOf
  <2>3. Frame(a)
    BY <1>0, <1>1, <1>2, <2>1 DEF Frame, NoChunkFrom, ProducerType
  <2>4. QED BY <1>4, <2>2, <2>3
<1>6. CASE meta.status \notin Terminal
  <2> DEFINE seq == Max({meta.lastSeq, e.count}) + 1
  <2>1. meta' = [meta EXCEPT !.status = e.status, !.lastSeq = seq] /\ Add(End(seq))
    BY <1>6 DEF Finalize
  <2>2. seq \in Nat /\ seq > job.count
    <3>1. meta.lastSeq \in Int /\ e.count \in Int /\ meta.lastSeq \in Nat
      BY <1>0, <1>1, <1>3 DEF ProducerType, Hash
    <3>2. /\ Max({meta.lastSeq, e.count}) \in {meta.lastSeq, e.count}
          /\ Max({meta.lastSeq, e.count}) >= e.count
      BY ONLY <3>1, MaxOfTwo, Zenon
    <3>3. QED BY <1>1, <1>3, <3>1, <3>2
  <2> HIDE DEF seq
  <2>3. End(seq) \in Entry /\ End(seq).kind = "__end__" /\ End(seq).seq = seq
    BY <2>2 DEF End, Entry
  <2>4. /\ log' \in Seq(Entry) /\ Len(log') = Len(log) + 1 /\ head' \in 1..(Len(log') + 1)
        /\ head' >= head
        /\ \A i \in 1..Len(log) : log'[i] = log[i]
        /\ log'[Len(log) + 1] = End(seq)
    BY <1>0, <2>1, <2>3, AddType
  <2>5. e.status \in Terminal /\ meta'.status # "active"
    <3>1. e.status \in Terminal
      BY <1>0 DEF ProducerType, Ending
    <3>2. meta'.status = e.status
      BY <1>0, <2>1 DEF ProducerType, Hash
    <3>3. QED BY <3>1, <3>2 DEF Terminal
  <2>6. \A i \in 1..Len(log') : i \in 1..Len(log) \/ i = Len(log) + 1
    BY <1>0, <2>4
  <2>7. StreamOf(a)'
    <3>1. \A i \in 1..Len(log') : log'[i].kind = "chunk" => log'[i].seq = i /\ i <= task[a].chunks
      <4> TAKE i \in 1..Len(log')
      <4>1. CASE i \in 1..Len(log)
        BY <2>4, <4>1 DEF StreamOf
      <4>2. CASE i = Len(log) + 1
        BY <2>3, <2>4, <4>2
      <4>3. QED BY <2>6, <4>1, <4>2
    <3>2. \A i \in 1..Len(log') : log'[i].kind = "__end__" => log'[i].seq > job.count
      <4> TAKE i \in 1..Len(log')
      <4>1. CASE i \in 1..Len(log)
        BY <2>4, <4>1 DEF StreamOf
      <4>2. CASE i = Len(log) + 1
        BY <2>2, <2>3, <2>4, <4>2
      <4>3. QED BY <2>6, <4>1, <4>2
    <3>3. QED BY <1>2, <1>3, <2>5, <3>1, <3>2 DEF StreamOf
  <2>8. \A h \in Nat : NoChunkFrom(h) => NoChunkFrom(h)'
    <3> TAKE h \in Nat
    <3> HAVE NoChunkFrom(h)
    <3>1. \A i \in 1..Len(log') : i >= h => log'[i].kind = "__end__"
      <4> TAKE i \in 1..Len(log')
      <4>1. CASE i \in 1..Len(log)
        BY <2>4, <4>1 DEF NoChunkFrom
      <4>2. CASE i = Len(log) + 1
        BY <2>3, <2>4, <4>2
      <4>3. QED BY <2>6, <4>1, <4>2
    <3>2. QED BY <2>5, <3>1 DEF NoChunkFrom
  <2>9. Frame(a)
    <3>1. \/ head' = head
          \/ client.pc \notin Live
          \/ client.first /\ client.upto = 0
          \/ head' <= client.entry + 1
          \/ head' <= client.upto + 1
      BY <2>1, <2>3, AddFollowed, Zenon
    <3>2. task'[a].chunks >= task[a].chunks /\ Len(log') >= Len(log)
      BY <1>0, <1>1, <1>2, <2>4
    <3>3. QED BY <1>2, <2>4, <2>8, <3>1, <3>2 DEF Frame
  <2>10. QED BY <1>4, <2>7, <2>9
<1>7. QED BY <1>5, <1>6

LEMMA RedisSole ==
    ASSUME TypeInv, NEW a \in Attempt, Begun = {a}, RowOf(a), StreamOf(a),
           \/ \E e \in ending : FinalizeFails(e)
           \/ Republish \/ MetaExpires \/ StreamExpires \/ RedisRestarts
    PROVE  RowOf(a)' /\ StreamOf(a)' /\ Frame(a)
<1>0. ProducerType /\ client \in Client(Len(log)) /\ Len(log) \in Nat /\ head \in 1..(Len(log) + 1)
  BY TypeParts DEF TypeInv, ProducerType
<1>1. task[a].chunks \in Nat
  BY <1>0 DEF ProducerType, Work
<1>2. UNCHANGED <<job, task, log, client>>
  BY Zenon DEF FinalizeFails, Republish, MetaExpires, StreamExpires, RedisRestarts
<1>3. meta'.status = "active" => meta.status = "active"
  BY <1>0 DEF FinalizeFails, Republish, MetaExpires, StreamExpires, RedisRestarts, NoMeta,
              ProducerType, Hash
<1>4. (expiring' => expiring)
  BY <1>0, Zenon DEF FinalizeFails, Republish, MetaExpires, StreamExpires, RedisRestarts
<1>5. head' = head \/ (head' = Len(log) + 1 /\ meta'.status # "active")
  BY DEF FinalizeFails, Republish, MetaExpires, StreamExpires, RedisRestarts, StreamOf, NoMeta
<1>6. \A e \in ending' : job.status \in Terminal /\ e.count = job.count
  BY DEF FinalizeFails, Republish, MetaExpires, StreamExpires, RedisRestarts, RowOf
<1>7. RowOf(a)'
  BY <1>2, <1>6 DEF RowOf
<1>8. StreamOf(a)'
  BY <1>0, <1>2, <1>3, <1>4, <1>5 DEF StreamOf
<1>9. Frame(a)
  <2>1. NoChunkFrom(head)' \/ head' = head
    BY <1>0, <1>2, <1>5 DEF NoChunkFrom
  <2>2. \A h \in Nat : NoChunkFrom(h) => NoChunkFrom(h)'
    BY <1>2, <1>3 DEF NoChunkFrom
  <2>3. head' >= head
    BY <1>0, <1>5
  <2>4. QED BY <1>0, <1>1, <1>2, <2>1, <2>2, <2>3 DEF Frame
<1>10. QED BY <1>7, <1>8, <1>9

(* What the reader and its client have survives a step of the job service. *)
LEMMA FrameKeeps ==
    ASSUME TypeInv, TypeInv', NEW a \in Attempt, AnswerOf(a), ReaderOf, PollOf, Frame(a)
    PROVE  AnswerOf(a)' /\ ReaderOf' /\ PollOf'
<1>0. ProducerType /\ client \in Client(Len(log)) /\ head \in Nat /\ Batches
  BY TypeParts DEF TypeInv, ProducerType
<1>1. head' \in Nat /\ Len(log') \in Nat
  BY DEF TypeInv, TypeOK
<1>2. /\ UNCHANGED client
      /\ job.status \in Terminal => job' = job
      /\ task'[a].chunks >= task[a].chunks
      /\ \A h \in Nat : NoChunkFrom(h) => NoChunkFrom(h)'
      /\ head' >= head
  BY DEF Frame
<1>3. client.entry + 1 \in Nat /\ client.upto \in Nat /\ client.entry \in Nat
      /\ Len(client.got) \in Nat /\ client.got \in Seq(Event)
  BY <1>0 DEF Client
<1>4. AnswerOf(a)'
  <2>1. task[a].chunks \in Nat
    BY <1>0 DEF ProducerType, Work
  <2>2. task'[a].chunks \in Nat
    BY DEF TypeInv, TypeOK
  <2>3. \A i \in 1..Len(client.got) : client.got[i].kind = "chunk" => i <= task'[a].chunks
    BY <1>2, <1>3, <2>1, <2>2 DEF AnswerOf
  <2>4. \A i \in 1..Len(client.got) : client.got[i].kind # "chunk" =>
           /\ i = Len(client.got) /\ i = job'.count + 1
           /\ job'.status = client.got[i].kind /\ job'.status \in Terminal
    BY <1>2 DEF AnswerOf
  <2>5. client'.got = client.got /\ client'.pc = client.pc /\ client'.cursor = client.cursor
    BY <1>2
  <2>6. QED BY <2>3, <2>4, <2>5 DEF AnswerOf
<1>5. NoChunkFrom(head) => NoChunkFrom(head)'
  <2> SUFFICES ASSUME NoChunkFrom(head) PROVE NoChunkFrom(head)'
    OBVIOUS
  <2>1. PICK h \in Nat : h = head
    BY <1>0
  <2>2. NoChunkFrom(h)'
    BY <1>2, <2>1
  <2>3. QED BY <1>0, <1>1, <1>2, <2>1, <2>2 DEF NoChunkFrom
<1>6. NoChunkFrom(client.entry + 1) => NoChunkFrom(client.entry + 1)'
  <2> SUFFICES ASSUME NoChunkFrom(client.entry + 1) PROVE NoChunkFrom(client.entry + 1)'
    OBVIOUS
  <2>1. PICK h \in Nat : h = client.entry + 1
    BY <1>3
  <2>2. NoChunkFrom(h)'
    BY <1>2, <2>1
  <2>3. QED BY <1>2, <2>1, <2>2 DEF NoChunkFrom
<1>7. ReaderOf'
  <2>1. client'.pc \in {"reviving", "preparing"} => client'.first
    BY <1>2 DEF ReaderOf
  <2>2. ~ client'.first /\ client'.pc \in Live \union Checking =>
          /\ client'.entry > 0
          /\ client'.entry <= client'.cursor \/ NoChunkFrom(client.entry + 1)'
    BY <1>2, <1>6 DEF ReaderOf
  <2>3. client.pc \in Live /\ (~ client.first \/ client.pc = "processing") =>
          \/ head' <= client.entry + 1
          \/ head' <= client.upto + 1
          \/ NoChunkFrom(head)'
    <3> SUFFICES ASSUME client.pc \in Live, ~ client.first \/ client.pc = "processing"
                 PROVE  \/ head' <= client.entry + 1
                        \/ head' <= client.upto + 1
                        \/ NoChunkFrom(head)'
      OBVIOUS
    <3>1. \/ head <= client.entry + 1
          \/ head <= client.upto + 1
          \/ NoChunkFrom(head)
      BY DEF ReaderOf
    <3>2. ~ (client.first /\ client.upto = 0)
      BY <1>0, <1>3 DEF Batches
    <3>3. \/ head' = head
          \/ NoChunkFrom(head)'
          \/ head' <= client.entry + 1
          \/ head' <= client.upto + 1
      BY <3>2 DEF Frame
    <3>4. QED BY <1>5, <3>1, <3>3
  <2>4. ~ client.first /\ client.pc \in Checking \union {"recalling"} => NoChunkFrom(head)'
    BY <1>5 DEF ReaderOf
  <2>5. client' = client
    BY <1>2
  <2>6. QED BY <2>1, <2>2, <2>3, <2>4, <2>5 DEF ReaderOf
<1>8. PollOf'
  BY <1>2 DEF PollOf
<1>9. QED BY <1>4, <1>7, <1>8

LEMMA ProducerSole ==
    ASSUME TypeInv, TypeInv', MayLag = FALSE, NEW a \in Attempt, Begun = {a}, Sole(a),
           \/ \E b \in Attempt : PublishChunk(b) \/ Settle(b) \/ FlushFails(b)
           \/ \E e \in ending : Finalize(e) \/ FinalizeFails(e)
           \/ EndedFromOutside \/ Republish \/ MetaExpires \/ StreamExpires \/ RedisRestarts
    PROVE  Sole(a)'
<1>1. RowOf(a)' /\ StreamOf(a)' /\ Frame(a)
  BY PublishSole, SettleSole, FinalizeSole, OutsideSole, RedisSole DEF Sole
<1>2. AnswerOf(a)' /\ ReaderOf' /\ PollOf'
  BY <1>1, FrameKeeps DEF Sole
<1>3. QED BY <1>1, <1>2 DEF Sole

-----------------------------------------------------------------------------
(* The steps of the client and of the call that serves it *)

(* The job service does nothing meanwhile. *)
LEMMA ProducerRests ==
    ASSUME NEW a \in Attempt, RowOf(a), StreamOf(a), UNCHANGED producer
    PROVE  /\ RowOf(a)' /\ StreamOf(a)'
           /\ \A h \in Nat : NoChunkFrom(h)' <=> NoChunkFrom(h)
           /\ NoChunkFrom(head)' <=> NoChunkFrom(head)
           /\ job' = job /\ log' = log /\ head' = head /\ task' = task
<1>1. UNCHANGED <<job, meta, log, head, expiring, task, ending>>
  BY DEF producer
<1>2. QED BY <1>1 DEF RowOf, StreamOf, NoChunkFrom

(* An answer stays one when the connection moves on without an event. *)
LEMMA AnswerStays ==
    ASSUME NEW a \in Attempt, AnswerOf(a), UNCHANGED producer,
           client'.got = client.got,
           client'.pc \in Connected =>
              client.pc \in Connected /\ client'.cursor = client.cursor,
           client.pc \in Polling => client'.pc \in Polling \union {"away", "closed"},
           client.pc \in {"away", "closed"} => client'.pc \in {"away", "closed"}
    PROVE  AnswerOf(a)'
<1>1. job' = job /\ task' = task
  BY DEF producer
<1>2. HasEnd(client'.got) = HasEnd(client.got)
  OBVIOUS
<1>3. QED BY <1>1, <1>2 DEF AnswerOf

(* The row stays known when the connection is neither fetching nor polled    *)
(* and does not end.                                                        *)
LEMMA PollStays ==
    ASSUME PollOf, UNCHANGED producer,
           client'.pc \notin {"fetching", "polled", "closed"},
           client'.final => client'.pc \in Polling /\ client.final
    PROVE  PollOf'
<1>1. job' = job
  BY DEF producer
<1>2. QED BY <1>1 DEF PollOf

LEMMA AwaySole ==
    ASSUME TypeInv, NEW a \in Attempt, Sole(a), UNCHANGED producer,
           NEW pc \in {"away", "closed"}, client' = Idle(pc, client.connects, client.got),
           pc = "closed" /\ ~ HasEnd(client.got) =>
              job.status \in Terminal /\ job.count < Len(client.got)
    PROVE  Sole(a)'
<1>1. RowOf(a)' /\ StreamOf(a)' /\ job' = job
  BY ProducerRests DEF Sole
<1>2. /\ client'.pc = pc /\ client'.got = client.got /\ ~ client'.final /\ client'.first
      /\ pc \notin Connected
  BY DEF Idle, Connected, Checking, Live, Polling
<1>3. AnswerOf(a)'
  BY <1>2, AnswerStays DEF Sole
<1>4. ReaderOf'
  BY <1>2 DEF ReaderOf, Live, Checking
<1>5. PollOf'
  BY <1>1, <1>2 DEF PollOf
<1>6. QED BY <1>1, <1>3, <1>4, <1>5 DEF Sole

LEMMA ConnectSole ==
    ASSUME TypeInv, NEW a \in Attempt, Sole(a), Connect
    PROVE  Sole(a)'
<1>0. client \in Client(Len(log)) /\ client.got \in Seq(Event) /\ Len(client.got) \in Nat
  BY TypeParts DEF TypeInv, Client
<1>1. UNCHANGED producer
  BY DEF Connect
<1>2. RowOf(a)' /\ StreamOf(a)' /\ job' = job /\ task' = task
  BY <1>1, ProducerRests DEF Sole
<1> DEFINE got == IF HasEnd(client.got) THEN <<>> ELSE client.got
<1>3. /\ client'.got = got /\ client'.cursor = LastEventId(got) /\ client'.first
      /\ ~ client'.final /\ client'.pc \in {"reviving", "opening"}
  BY DEF Connect, Idle
<1>4. ~ HasEnd(got) /\ (got = <<>> \/ got = client.got)
  BY DEF HasEnd
<1> HIDE DEF got
<1>5. LastEventId(got) = Len(got)
  <2>1. CASE got = <<>>
    BY <2>1 DEF LastEventId
  <2>2. CASE got = client.got /\ got # <<>>
    <3>1. Len(got) \in 1..Len(got)
      BY <1>0, <2>2
    <3>2. got[Len(got)].seq = Len(got)
      BY <2>2, <3>1 DEF Sole, AnswerOf
    <3>3. QED BY <2>2, <3>2 DEF LastEventId
  <2>3. QED BY <1>4, <2>1, <2>2
<1>6. AnswerOf(a)'
  <2>1. \A i \in 1..Len(got) : got[i].seq = i /\ (got[i].kind = "chunk" => i <= task[a].chunks)
    <3>1. CASE got = <<>>
      BY <3>1
    <3>2. CASE got = client.got
      BY <3>2 DEF Sole, AnswerOf
    <3>3. QED BY <1>4, <3>1, <3>2
  <2>2. \A i \in 1..Len(got) : got[i].kind = "chunk"
    <3>1. CASE got = <<>>
      BY <3>1
    <3>2. CASE got = client.got
      BY <1>4, <3>2 DEF Sole, AnswerOf, HasEnd
    <3>3. QED BY <1>4, <3>1, <3>2
  <2>3. QED BY <1>2, <1>3, <1>4, <1>5, <2>1, <2>2 DEF AnswerOf
<1>7. ReaderOf'
  BY <1>3 DEF ReaderOf, Live
<1>8. PollOf'
  BY <1>3 DEF PollOf
<1>9. QED BY <1>2, <1>6, <1>7, <1>8 DEF Sole

LEMMA DisconnectSole ==
    ASSUME TypeInv, NEW a \in Attempt, Sole(a), Disconnect
    PROVE  Sole(a)'
<1>0. client \in Client(Len(log)) /\ client.got \in Seq(Event) /\ Len(client.got) \in Nat
      /\ client.base \in Nat
  BY TypeParts DEF TypeInv, Client
<1>1. UNCHANGED producer
  BY DEF Disconnect
<1>2. RowOf(a)' /\ StreamOf(a)' /\ job' = job /\ task' = task
  BY <1>1, ProducerRests DEF Sole
<1>3. CASE client' = Idle("away", client.connects, client.got)
  BY <1>1, <1>3, AwaySole
<1>4. CASE /\ Len(client.got) > client.base
           /\ client' = Idle("away", client.connects, SubSeq(client.got, 1, Len(client.got) - 1))
  <2> DEFINE got == SubSeq(client.got, 1, Len(client.got) - 1)
  <2>1. Len(client.got) >= 1
    BY <1>0, <1>4
  <2>2. Len(got) = Len(client.got) - 1 /\ \A i \in 1..Len(got) : got[i] = client.got[i]
    BY <1>0, <2>1
  <2>3. client'.got = got /\ client'.pc = "away" /\ ~ client'.final
        /\ "away" \notin Connected
    BY <1>4 DEF Idle, Connected, Checking, Live, Polling
  <2> HIDE DEF got
  <2>4. \A i \in 1..Len(got) : i \in 1..Len(client.got) /\ i # Len(client.got)
    BY <1>0, <2>1, <2>2
  <2>5. AnswerOf(a)'
    BY <1>2, <2>2, <2>3, <2>4 DEF Sole, AnswerOf
  <2>6. ReaderOf'
    BY <2>3 DEF ReaderOf, Live, Checking
  <2>7. PollOf'
    BY <2>3 DEF PollOf
  <2>8. QED BY <1>2, <2>5, <2>6, <2>7 DEF Sole
<1>5. QED BY <1>3, <1>4 DEF Disconnect

(* A connection moves between the checks and the waits of the stream. *)
LEMMA HopSole ==
    ASSUME TypeInv, NEW a \in Attempt, Sole(a), UNCHANGED producer,
           client'.got = client.got, client'.cursor = client.cursor,
           client'.entry = client.entry, client'.upto = client.upto,
           client'.first = client.first, client'.final = client.final,
           client'.pc \in Checking \union {"reading", "waking", "looking", "recalling"},
           \/ client.pc \in {"reading", "waking", "looking"}
                /\ client'.pc \in {"reading", "waking", "looking"}
           \/ client.pc \in Checking \union {"recalling"}
           \/ client.pc = "looking" /\ client'.pc = "recalling" /\ ~ StreamExists
           \/ client.pc = "reviving"
    PROVE  Sole(a)'
<1>0. ProducerType /\ client \in Client(Len(log)) /\ Len(log) \in Nat /\ client.entry \in 0..Len(log)
      /\ head \in 1..(Len(log) + 1)
  BY TypeParts DEF TypeInv, ProducerType, Client
<1>1. RowOf(a)' /\ StreamOf(a)' /\ (\A h \in Nat : NoChunkFrom(h)' <=> NoChunkFrom(h))
      /\ (NoChunkFrom(head)' <=> NoChunkFrom(head)) /\ job' = job /\ head' = head
  BY ProducerRests DEF Sole
<1>2. client.pc \in Connected /\ client.pc \notin Polling /\ client.pc \notin {"away", "closed"}
      /\ client'.pc \notin {"fetching", "polled", "closed", "reviving", "preparing", "processing"}
  BY DEF Connected, Checking, Live, Polling
<1>3. AnswerOf(a)'
  BY <1>2, AnswerStays DEF Sole
<1>4. ~ client.final
  BY <1>2 DEF Sole, PollOf
<1>5. PollOf'
  BY <1>2, <1>4, PollStays DEF Sole
<1>6. client.pc = "reviving" => client.first
  BY DEF Sole, ReaderOf
<1>7. ~ client.first => client.entry > 0 /\ (client.entry <= client.cursor \/ NoChunkFrom(client.entry + 1))
  <2>1. client.pc # "reviving" => client.pc \in Live \union Checking
    BY DEF Live, Checking
  <2>2. QED BY <1>6, <2>1 DEF Sole, ReaderOf
<1>8. ~ client.first /\ client.pc \in Checking \union {"recalling"} => NoChunkFrom(head)
  BY DEF Sole, ReaderOf
<1>9. ~ client.first /\ client'.pc \in Checking \union {"recalling"} => NoChunkFrom(head)
  <2> SUFFICES ASSUME ~ client.first, client'.pc \in Checking \union {"recalling"}
               PROVE  NoChunkFrom(head)
    OBVIOUS
  <2>1. CASE client.pc \in Checking \union {"recalling"}
    BY <1>8, <2>1
  <2>2. CASE client.pc = "looking" /\ ~ StreamExists
    <3>1. head > Len(log) /\ Len(log) > 0
      BY <1>0, <1>7, <2>2 DEF StreamExists
    <3>2. meta.status # "active"
      BY <3>1 DEF Sole, StreamOf
    <3>3. QED BY <1>0, <3>1, <3>2 DEF NoChunkFrom
  <2>3. CASE client.pc = "reviving"
    BY <1>6, <2>3
  <2>4. QED BY <2>1, <2>2, <2>3 DEF Checking
<1>10. ~ client.first /\ client'.pc \in Live =>
          \/ head <= client.entry + 1 \/ head <= client.upto + 1 \/ NoChunkFrom(head)
  <2> SUFFICES ASSUME ~ client.first
               PROVE  head <= client.entry + 1 \/ head <= client.upto + 1 \/ NoChunkFrom(head)
    OBVIOUS
  <2>1. CASE client.pc \in {"reading", "waking", "looking"}
    BY <2>1 DEF Sole, ReaderOf, Live
  <2>2. CASE client.pc \in Checking \union {"recalling"}
    BY <1>8, <2>2
  <2>3. CASE client.pc = "reviving"
    BY <1>6, <2>3
  <2>4. QED BY <2>1, <2>2, <2>3
<1>11. ReaderOf'
  <2>1. client.entry + 1 \in Nat
    BY <1>0
  <2>2. NoChunkFrom(client.entry + 1)' <=> NoChunkFrom(client.entry + 1)
    <3>1. PICK h \in Nat : h = client.entry + 1
      BY <2>1
    <3>2. NoChunkFrom(h)' <=> NoChunkFrom(h)
      BY <1>1
    <3>3. QED BY <3>1, <3>2 DEF NoChunkFrom
  <2>3. QED BY <1>1, <1>2, <1>7, <1>9, <1>10, <2>2 DEF ReaderOf
<1>12. QED BY <1>1, <1>3, <1>5, <1>11 DEF Sole

(* A connection turns to PostgreSQL. *)
LEMMA TurnSole ==
    ASSUME NEW a \in Attempt, Sole(a), UNCHANGED producer,
           client.pc \in Checking \union Live,
           client'.got = client.got, client'.cursor = client.cursor,
           client'.final = client.final, client'.pc = "polling"
    PROVE  Sole(a)'
<1>1. RowOf(a)' /\ StreamOf(a)'
  BY ProducerRests DEF Sole
<1>2. client.pc \in Connected /\ client.pc \notin Polling /\ client.pc \notin {"away", "closed"}
  BY DEF Connected, Checking, Live, Polling
<1>3. AnswerOf(a)'
  BY <1>2, AnswerStays DEF Sole
<1>4. ~ client.final
  BY <1>2 DEF Sole, PollOf
<1>5. PollOf'
  BY <1>4, PollStays DEF Sole
<1>6. ReaderOf'
  BY DEF ReaderOf, Live, Checking
<1>7. QED BY <1>1, <1>3, <1>5, <1>6 DEF Sole

LEMMA CheckSole ==
    ASSUME TypeInv, NEW a \in Attempt, Sole(a),
           \/ PeekMeta \/ PeekStream \/ ConfirmMeta \/ Recheck
           \/ AskRow \/ AskStream \/ RecallMeta \/ RedisFails
    PROVE  Sole(a)'
<1>0. client \in Client(Len(log))
  BY TypeParts DEF TypeInv
<1>1. UNCHANGED producer
  BY DEF PeekMeta, PeekStream, ConfirmMeta, Recheck, AskRow, AskStream, RecallMeta, RedisFails,
         Subscribed
<1>2. /\ client'.got = client.got /\ client'.cursor = client.cursor
      /\ client'.final = client.final
  BY <1>0 DEF PeekMeta, PeekStream, ConfirmMeta, Recheck, AskRow, AskStream, RecallMeta, RedisFails,
              Subscribed, At, Client
<1>3. client.pc \in Checking \union Live
  BY DEF PeekMeta, PeekStream, ConfirmMeta, Recheck, AskRow, AskStream, RecallMeta, RedisFails,
         Subscribed, Checking, Live
<1>4. CASE client'.pc = "polling"
  BY <1>1, <1>2, <1>3, <1>4, TurnSole
<1>5. CASE client'.pc # "polling"
  <2>1. ~ RedisFails
    BY <1>0, <1>5 DEF RedisFails, At, Client
  <2>2. /\ client'.entry = client.entry /\ client'.upto = client.upto
        /\ client'.first = client.first
    BY <1>0, <2>1 DEF PeekMeta, PeekStream, ConfirmMeta, Recheck, AskRow, AskStream, RecallMeta,
              Subscribed, At, Client
  <2>3. CASE PeekMeta \/ PeekStream \/ ConfirmMeta \/ Recheck \/ RecallMeta
    <3>1. client.pc \in Checking \union {"recalling"}
      BY <2>3 DEF PeekMeta, PeekStream, ConfirmMeta, Recheck, RecallMeta, Subscribed, Checking
    <3>2. client'.pc \in Checking \union {"reading"}
      BY <1>0, <1>5, <2>3 DEF PeekMeta, PeekStream, ConfirmMeta, Recheck, RecallMeta, Subscribed,
                              At, Client, Checking
    <3>3. QED BY <1>1, <1>2, <2>2, <3>1, <3>2, HopSole
  <2>4. CASE AskRow
    <3>1. client.pc = "waking" /\ client'.pc = "looking"
      BY <1>0, <1>5, <2>4 DEF AskRow, Subscribed, At, Client
    <3>2. QED BY <1>1, <1>2, <2>2, <3>1, HopSole
  <2>5. CASE AskStream
    <3>1. client.pc = "looking" /\ client'.pc = IF StreamExists THEN "reading" ELSE "recalling"
      BY <1>0, <2>5 DEF AskStream, Subscribed, At, Client
    <3>2. CASE StreamExists
      BY <1>1, <1>2, <2>2, <3>1, <3>2, HopSole
    <3>3. CASE ~ StreamExists
      BY <1>1, <1>2, <2>2, <3>1, <3>3, HopSole
    <3>4. QED BY <3>2, <3>3
  <2>6. QED BY <2>1, <2>3, <2>4, <2>5
<1>6. QED BY <1>4, <1>5

LEMMA ReviveSole ==
    ASSUME TypeInv, NEW a \in Attempt, Begun = {a}, Begun' = {a}, Sole(a), Revive
    PROVE  Sole(a)'
<1>0. ProducerType /\ client \in Client(Len(log))
  BY TypeParts DEF TypeInv
<1>1. ASSUME NEW b \in Attempt, ResetRow(b) PROVE FALSE
  <2>1. b \notin Begun /\ task'[b].pc = "preparing"
    BY <1>0, <1>1 DEF ResetRow, Begun, ProducerType, Work
  <2>2. b \in Begun'
    BY <2>1 DEF Begun
  <2>3. QED BY <2>1, <2>2
<1>2. UNCHANGED producer /\ client.pc = "reviving"
  BY <1>1 DEF Revive
<1>3. CASE client' = Idle("away", client.connects, client.got)
  BY <1>2, <1>3, AwaySole
<1>4. CASE client' = [client EXCEPT !.pc = "opening"]
  <2>1. /\ client'.got = client.got /\ client'.cursor = client.cursor
        /\ client'.entry = client.entry /\ client'.upto = client.upto
        /\ client'.first = client.first /\ client'.final = client.final
        /\ client'.pc = "opening" /\ "opening" \in Checking
    BY <1>0, <1>4 DEF Client, Checking
  <2>2. QED BY <1>2, <2>1, HopSole
<1>5. QED BY <1>1, <1>3, <1>4 DEF Revive

LEMMA ReadSole ==
    ASSUME TypeInv, NEW a \in Attempt, Sole(a), ReadStream
    PROVE  Sole(a)'
<1>0. /\ ProducerType /\ client \in Client(Len(log)) /\ Batches /\ Len(log) \in Nat
      /\ head \in 1..(Len(log) + 1) /\ client.entry \in 0..Len(log) /\ client.cursor \in Nat
  BY TypeParts DEF TypeInv, ProducerType, Client
<1>1. UNCHANGED producer /\ client.pc = "reading" /\ client.upto = 0
  BY <1>0 DEF ReadStream, Subscribed, Batches
<1>2. CASE ~ (StreamExists /\ client.entry < Len(log))
  <2>1. client' = At("waking")
    BY <1>2 DEF ReadStream, Subscribed
  <2>2. /\ client'.got = client.got /\ client'.cursor = client.cursor
        /\ client'.entry = client.entry /\ client'.upto = client.upto
        /\ client'.first = client.first /\ client'.final = client.final /\ client'.pc = "waking"
    BY <1>0, <2>1 DEF At, Client
  <2>3. QED BY <1>1, <2>2, HopSole
<1>3. CASE StreamExists /\ client.entry < Len(log)
  <2> DEFINE to == Max({client.entry, head - 1})
  <2>1. to \in {client.entry, head - 1} /\ to >= client.entry /\ to >= head - 1
    <3>1. client.entry \in Int /\ head - 1 \in Int
      BY <1>0
    <3>2. QED BY ONLY <3>1, MaxOfTwo, Zenon
  <2>2. client' = [At("processing") EXCEPT !.entry = to, !.upto = Len(log)]
    BY <1>3 DEF ReadStream, Subscribed
  <2> HIDE DEF to
  <2>3. /\ client'.got = client.got /\ client'.cursor = client.cursor
        /\ client'.entry = to /\ client'.upto = Len(log)
        /\ client'.first = client.first /\ client'.final = client.final
        /\ client'.pc = "processing"
    BY <1>0, <2>2 DEF At, Client
  <2>4. RowOf(a)' /\ StreamOf(a)' /\ (\A h \in Nat : NoChunkFrom(h)' <=> NoChunkFrom(h))
        /\ job' = job /\ head' = head
    BY <1>1, ProducerRests DEF Sole
  <2>5. client.pc \in Connected /\ client.pc \notin Polling /\ "reading" \in Live
        /\ "processing" \notin Checking
    BY <1>1 DEF Connected, Checking, Live, Polling
  <2>6. AnswerOf(a)'
    BY <1>1, <2>3, <2>5, AnswerStays DEF Sole
  <2>7. ~ client.final
    BY <2>5 DEF Sole, PollOf
  <2>8. PollOf'
    BY <1>1, <2>3, <2>7, PollStays DEF Sole
  <2>9. PICK t \in Nat : t = to
    BY <1>0, <2>1
  <2>9a. NoChunkFrom(t + 1)' => NoChunkFrom(client.entry + 1)'
    BY <2>3, <2>9 DEF NoChunkFrom
  <2>9b. ~ client.first => t > 0 /\ (t <= client.cursor \/ NoChunkFrom(t + 1)')
    <3> SUFFICES ASSUME ~ client.first PROVE t > 0 /\ (t <= client.cursor \/ NoChunkFrom(t + 1)')
      OBVIOUS
    <3>1. client.entry > 0 /\ (client.entry <= client.cursor \/ NoChunkFrom(client.entry + 1))
      BY <1>1, <2>5 DEF Sole, ReaderOf
    <3>2. head <= client.entry + 1 \/ head <= client.upto + 1 \/ NoChunkFrom(head)
      BY <1>1, <2>5 DEF Sole, ReaderOf
    <3>3. t = client.entry \/ (t + 1 = head /\ t > client.entry)
      BY <1>0, <2>1, <2>9
    <3>4. NoChunkFrom(t + 1)' <=> NoChunkFrom(t + 1)
      BY <2>4
    <3>5. CASE t = client.entry
      BY <3>1, <3>4, <3>5
    <3>6. CASE t + 1 = head /\ t > client.entry
      <4>1. NoChunkFrom(head)
        BY <1>0, <1>1, <3>1, <3>2, <3>6
      <4>2. t > 0
        BY <1>0, <3>6
      <4>3. QED BY <3>4, <3>6, <4>1, <4>2
    <3>7. QED BY <3>3, <3>5, <3>6
  <2>10. head <= to + 1
    BY <1>0, <2>1
  <2>11. ReaderOf'
    <3>1. client'.pc \notin {"reviving", "preparing", "recalling"} /\ client'.pc \notin Checking
      BY <2>3, <2>5
    <3>2. ~ client'.first => client'.entry > 0 /\ (client'.entry <= client'.cursor
                                                    \/ NoChunkFrom(client.entry + 1)')
      BY <2>3, <2>9, <2>9a, <2>9b
    <3>3. head' <= client'.entry + 1
      BY <2>3, <2>4, <2>10
    <3>4. QED BY <2>3, <3>1, <3>2, <3>3 DEF ReaderOf
  <2>12. QED BY <2>4, <2>6, <2>8, <2>11 DEF Sole
<1>4. QED BY <1>2, <1>3

LEMMA ProcessSole ==
    ASSUME TypeInv, NEW a \in Attempt, Sole(a), ProcessEntry
    PROVE  Sole(a)'
<1>0. /\ ProducerType /\ client \in Client(Len(log)) /\ Batches /\ Len(log) \in Nat
      /\ head \in 1..(Len(log) + 1) /\ client.entry \in 0..Len(log) /\ client.cursor \in Nat
      /\ client.upto \in 0..Len(log) /\ client.got \in Seq(Event) /\ Len(client.got) \in Nat
      /\ task[a].chunks \in Nat
  BY TypeParts DEF TypeInv, ProducerType, Client, Work
<1>1. UNCHANGED producer /\ client.pc = "processing"
  BY DEF ProcessEntry, Subscribed
<1>2. client.entry < client.upto /\ client.entry + 1 \in 1..Len(log)
  BY <1>0, <1>1 DEF Batches
<1>3. RowOf(a)' /\ StreamOf(a)' /\ (\A h \in Nat : NoChunkFrom(h)' <=> NoChunkFrom(h))
      /\ (NoChunkFrom(head)' <=> NoChunkFrom(head)) /\ job' = job /\ head' = head /\ task' = task
  BY <1>1, ProducerRests DEF Sole
<1>4. /\ client.pc \in Connected /\ client.pc \in Live /\ client.pc \notin Polling
      /\ client.pc \notin {"away", "closed"}
      /\ \A pc \in {"reading", "processing"} :
            pc \in Connected /\ pc \in Live /\ pc \notin Checking /\ pc \notin Polling
  BY <1>1 DEF Connected, Checking, Live, Polling
<1>5. ~ client.final
  BY <1>4 DEF Sole, PollOf
<1>6. ~ HasEnd(client.got) /\ client.cursor = Len(client.got)
  BY <1>4 DEF Sole, AnswerOf
<1> DEFINE e    == log[client.entry + 1]
           gap  == client.first /\ (e.seq > client.cursor + 1 \/ (client.cursor > 0 /\ e.seq > 1))
           done == client.entry + 1 = client.upto
           rest == [client EXCEPT !.pc = IF done THEN "reading" ELSE "processing",
                                  !.entry = @ + 1, !.upto = IF done THEN 0 ELSE @,
                                  !.first = FALSE]
           poll == [At("polling") EXCEPT !.entry = 0, !.upto = 0, !.first = FALSE]
           more == [rest EXCEPT !.cursor = e.seq, !.got = Append(@, e)]
<1>7. e \in Entry /\ e.seq \in Nat /\ e.kind \in {"chunk", "__end__"}
  <2>1. e \in Entry
    BY <1>0, <1>2, LogTyped
  <2>2. QED BY <2>1 DEF Entry
<1>8. \/ client' = poll
      \/ e.kind = "__end__" /\ e.seq <= client.cursor /\ client' = Idle("closed", client.connects, client.got)
      \/ e.kind = "chunk" /\ e.seq <= client.cursor /\ client' = rest
      \/ e.kind = "chunk" /\ e.seq > client.cursor /\ ~ gap /\ client' = more
  BY <1>0, <1>7 DEF ProcessEntry, Subscribed
<1>9. /\ poll.got = client.got /\ poll.cursor = client.cursor /\ poll.final = client.final
      /\ poll.pc = "polling"
  BY <1>0 DEF At, Client
<1>10. /\ rest.got = client.got /\ rest.cursor = client.cursor /\ rest.final = client.final
       /\ rest.pc \in {"reading", "processing"} /\ rest.entry = client.entry + 1
       /\ rest.upto = (IF done THEN 0 ELSE client.upto) /\ ~ rest.first
  BY <1>0 DEF Client
<1>11. /\ more.got = Append(client.got, e) /\ more.cursor = e.seq /\ more.final = client.final
       /\ more.pc \in {"reading", "processing"} /\ more.entry = client.entry + 1
       /\ more.upto = (IF done THEN 0 ELSE client.upto) /\ ~ more.first
  BY <1>0 DEF Client
<1>12. e.kind = "chunk" => e.seq = client.entry + 1 /\ e.seq <= task[a].chunks
  BY <1>2 DEF Sole, StreamOf
<1>13. e.kind = "__end__" => job.status \in Terminal /\ e.seq > job.count
  BY <1>2 DEF Sole, StreamOf
<1>14. ~ client.first => client.entry <= client.cursor \/ NoChunkFrom(client.entry + 1)
  BY <1>4 DEF Sole, ReaderOf
<1>15. head <= client.entry + 1 \/ head <= client.upto + 1 \/ NoChunkFrom(head)
  BY <1>1, <1>4 DEF Sole, ReaderOf
<1> HIDE DEF e, rest, poll, more
<1>16. CASE client' = poll
  BY <1>1, <1>4, <1>9, <1>16, TurnSole
<1>17. CASE e.kind = "__end__" /\ e.seq <= client.cursor /\ client' = Idle("closed", client.connects, client.got)
  <2>1. job.status \in Terminal /\ job.count < Len(client.got)
    <3>1. job.count \in Nat
      BY <1>0 DEF ProducerType, Row
    <3>2. QED BY <1>0, <1>6, <1>7, <1>13, <1>17, <3>1
  <2>2. QED BY <1>1, <1>17, <2>1, AwaySole
(* What follows a processed entry: the next one, or the next read *)
<1>18. ASSUME client'.entry = client.entry + 1, ~ client'.first,
              client'.upto = (IF done THEN 0 ELSE client.upto),
              client'.pc \in {"reading", "processing"}, client'.final = client.final,
              client'.cursor >= client.entry + 1
       PROVE  ReaderOf' /\ PollOf'
  <2>1. client'.entry > 0 /\ client'.entry <= client'.cursor
    BY <1>0, <1>18
  <2>2. head' <= client'.entry + 1 \/ head' <= client'.upto + 1 \/ NoChunkFrom(head)'
    BY <1>0, <1>3, <1>15, <1>18
  <2>3. ReaderOf'
    BY <1>4, <1>18, <2>1, <2>2 DEF ReaderOf
  <2>4. PollOf'
    BY <1>1, <1>5, <1>18, PollStays DEF Sole
  <2>5. QED BY <2>3, <2>4
<1>19. CASE e.kind = "chunk" /\ e.seq <= client.cursor /\ client' = rest
  <2>1. AnswerOf(a)'
    BY <1>1, <1>4, <1>10, <1>19, AnswerStays DEF Sole
  <2>2. ReaderOf' /\ PollOf'
    BY <1>0, <1>7, <1>10, <1>12, <1>18, <1>19
  <2>3. QED BY <1>3, <2>1, <2>2 DEF Sole
<1>20. CASE e.kind = "chunk" /\ e.seq > client.cursor /\ ~ gap /\ client' = more
  <2>1. e.seq = Len(client.got) + 1
    <3>1. CASE client.first
      BY <1>0, <1>6, <1>7, <1>20, <3>1
    <3>2. CASE ~ client.first
      <4>1. ~ NoChunkFrom(client.entry + 1)
        BY <1>0, <1>2, <1>20 DEF NoChunkFrom, e
      <4>2. QED BY <1>0, <1>6, <1>7, <1>12, <1>14, <1>20, <3>2, <4>1
    <3>3. QED BY <3>1, <3>2
  <2> DEFINE got == Append(client.got, e)
  <2>2. /\ Len(got) = Len(client.got) + 1 /\ got[Len(client.got) + 1] = e
        /\ \A i \in 1..Len(client.got) : got[i] = client.got[i]
    BY <1>0
  <2>3. client'.got = got /\ client'.cursor = Len(got) /\ client'.pc \in {"reading", "processing"}
    BY <1>11, <1>20, <2>1, <2>2
  <2> HIDE DEF got
  <2>4. \A i \in 1..Len(got) : /\ got[i].seq = i
                               /\ got[i].kind = "chunk" /\ i <= task[a].chunks
    <3> TAKE i \in 1..Len(got)
    <3>1. CASE i \in 1..Len(client.got)
      <4>1. client.got[i].kind = "chunk"
        <5>1. client.got[i].kind \in {"chunk"} \union Terminal
          <6>1. client.got[i] \in Event
            BY <1>0, <3>1
          <6>2. QED BY <6>1 DEF Event
        <5>2. QED BY <1>6, <3>1, <5>1 DEF HasEnd
      <4>2. QED BY <2>2, <3>1, <4>1 DEF Sole, AnswerOf
    <3>2. CASE i = Len(client.got) + 1
      BY <1>12, <1>20, <2>1, <2>2, <3>2
    <3>3. QED BY <1>0, <2>2, <3>1, <3>2
  <2>5. AnswerOf(a)'
    <3>1. ~ HasEnd(got)
      BY <2>4 DEF HasEnd, Terminal
    <3>2. QED BY <1>3, <2>3, <2>4, <3>1 DEF AnswerOf
  <2>6. ReaderOf' /\ PollOf'
    BY <1>0, <1>7, <1>11, <1>12, <1>18, <1>20
  <2>7. QED BY <1>3, <2>5, <2>6 DEF Sole
<1>21. QED BY <1>8, <1>16, <1>17, <1>19, <1>20

LEMMA PollRowSole ==
    ASSUME TypeInv, NEW a \in Attempt, Sole(a), PollRow
    PROVE  Sole(a)'
<1>0. client \in Client(Len(log))
  BY TypeParts DEF TypeInv
<1>1. UNCHANGED producer /\ client.pc = "polling" /\ client' = [At("fetching") EXCEPT !.seen = job]
  BY DEF PollRow, Subscribed
<1>2. /\ client'.got = client.got /\ client'.cursor = client.cursor /\ client'.seen = job
      /\ client'.final = client.final /\ client'.pc = "fetching"
  BY <1>0, <1>1 DEF At, Client
<1>3. RowOf(a)' /\ StreamOf(a)' /\ job' = job
  BY <1>1, ProducerRests DEF Sole
<1>4. /\ client.pc \in Connected /\ "fetching" \in Polling
      /\ "fetching" \notin Live /\ "fetching" \notin Checking
  BY <1>1 DEF Connected, Checking, Live, Polling
<1>5. AnswerOf(a)'
  BY <1>1, <1>2, <1>4, AnswerStays DEF Sole
<1>6. ReaderOf'
  BY <1>2, <1>4 DEF ReaderOf
<1>7. PollOf'
  BY <1>2, <1>3, <1>4 DEF PollOf, Sole
<1>8. QED BY <1>3, <1>5, <1>6, <1>7 DEF Sole

LEMMA FetchSole ==
    ASSUME TypeInv, NEW a \in Attempt, Sole(a), Fetch
    PROVE  Sole(a)'
<1>0. /\ ProducerType /\ client \in Client(Len(log)) /\ client.cursor \in Nat /\ job.count \in Nat
      /\ client.got \in Seq(Event) /\ Len(client.got) \in Nat /\ client.seen.count \in Nat
      /\ task[a].chunks \in Nat
  BY TypeParts DEF TypeInv, ProducerType, Client, Row, Work
<1>1. UNCHANGED producer /\ client.pc = "fetching"
  BY DEF Fetch, Subscribed
<1>2. RowOf(a)' /\ StreamOf(a)' /\ job' = job /\ task' = task
  BY <1>1, ProducerRests DEF Sole
<1>3. client.pc \in Connected /\ "fetching" \notin {"away", "closed"}
      /\ "polled" \in Polling /\ "polled" \notin Live /\ "polled" \notin Checking
  BY <1>1 DEF Connected, Checking, Live, Polling
<1>4. client.cursor = Len(client.got) /\ job.count <= task[a].chunks
  BY <1>3 DEF Sole, AnswerOf, RowOf
<1>5. /\ client.seen.status \in Terminal => client.seen = job
      /\ client.final => client.seen.status \in Terminal /\ job.status \in Terminal
  BY <1>1 DEF Sole, PollOf
<1> DEFINE kept == Stored(client.cursor)
           more == client.got \o kept
           top  == Max({client.cursor, job.count})
           end  == client.seen.count + 1
           last == EndEvent(end, client.seen.status)
<1>6. top \in {client.cursor, job.count} /\ top >= client.cursor /\ top >= job.count
  <2>1. client.cursor \in Int /\ job.count \in Int
    BY <1>0
  <2>2. QED BY ONLY <2>1, MaxOfTwo, Zenon
<1>7. /\ kept \in Seq(Event) /\ Len(kept) \in Nat
      /\ (job.count <= client.cursor => Len(kept) = 0)
      /\ (job.count > client.cursor => Len(kept) = job.count - client.cursor)
      /\ \A i \in 1..Len(kept) : kept[i].kind = "chunk" /\ kept[i].seq = client.cursor + i
  <2>1. /\ kept \in Seq(Event)
        /\ (job.count <= client.cursor => Len(kept) = 0)
        /\ (job.count > client.cursor => Len(kept) = job.count - client.cursor)
        /\ \A i \in 1..Len(kept) : kept[i] = Chunk(job.attempt, client.cursor + i)
    BY <1>0, StoredType
  <2> HIDE DEF kept
  <2>2. \A i \in 1..Len(kept) : /\ Chunk(job.attempt, client.cursor + i).kind = "chunk"
                                /\ Chunk(job.attempt, client.cursor + i).seq = client.cursor + i
    BY DEF Chunk
  <2>3. Len(kept) \in Nat
    BY <2>1
  <2>4. \A i \in 1..Len(kept) : kept[i].kind = "chunk" /\ kept[i].seq = client.cursor + i
    BY <2>1, <2>2
  <2>5. QED BY <2>1, <2>3, <2>4
<1>8. /\ Len(more) = Len(client.got) + Len(kept) /\ more \in Seq(Event) /\ Len(more) \in Nat
      /\ \A i \in 1..Len(client.got) : more[i] = client.got[i]
      /\ \A i \in 1..Len(kept) : more[Len(client.got) + i] = kept[i]
  <2> HIDE DEF kept
  <2>1. client.got \in Seq(Event) /\ kept \in Seq(Event)
    BY <1>0, <1>7
  <2>2. QED BY <2>1
<1>9. \/ /\ ~ (client.seen.status \in Terminal /\ end > top)
         /\ client' = [[At("polled") EXCEPT !.seen = NoRow] EXCEPT !.cursor = top, !.got = more]
      \/ /\ client.seen.status \in Terminal /\ end > top
         /\ client' = [[At("polled") EXCEPT !.seen = NoRow]
                          EXCEPT !.cursor = end, !.got = Append(more, last)]
  BY DEF Fetch, Subscribed
<1>10. client'.pc = "polled" /\ client'.final = client.final
  BY <1>0, <1>9 DEF At, Client
<1>11. last.seq = end /\ last.kind = client.seen.status
  BY DEF EndEvent
<1> HIDE DEF kept, more, top, last
<1>12. Len(more) = top
  <2>1. Len(more) = client.cursor + Len(kept)
    BY <1>4, <1>8
  <2>2. CASE job.count <= client.cursor
    <3>1. Len(kept) = 0 /\ top = client.cursor
      BY <1>0, <1>6, <1>7, <2>2
    <3>2. QED BY <1>0, <2>1, <3>1
  <2>3. CASE job.count > client.cursor
    <3>1. Len(kept) = job.count - client.cursor /\ top = job.count
      BY <1>0, <1>6, <1>7, <2>3
    <3>2. QED BY <1>0, <2>1, <3>1
  <2>4. QED BY <1>0, <2>2, <2>3
<1>13. \A i \in 1..Len(more) :
          \/ i \in 1..Len(client.got) /\ more[i] = client.got[i]
          \/ /\ i > Len(client.got) /\ job.count > client.cursor /\ i <= job.count
             /\ more[i].kind = "chunk" /\ more[i].seq = i
  <2> TAKE i \in 1..Len(more)
  <2>1. CASE i <= Len(client.got)
    BY <1>0, <1>8, <2>1
  <2>2. CASE i > Len(client.got)
    <3>1. i - Len(client.got) \in 1..Len(kept) /\ Len(client.got) + (i - Len(client.got)) = i
      BY <1>0, <1>7, <1>8, <2>2
    <3>2. more[i] = kept[i - Len(client.got)] /\ job.count > client.cursor /\ i <= job.count
      <4>1. more[i] = kept[i - Len(client.got)]
        BY <1>8, <3>1
      <4>2. Len(kept) > 0
        BY <1>7, <3>1
      <4>3. job.count > client.cursor
        BY <1>0, <1>7, <4>2
      <4>4. Len(kept) = job.count - client.cursor
        BY <1>7, <4>3
      <4>5. QED BY <1>0, <1>4, <3>1, <4>1, <4>3, <4>4
    <3>3. QED BY <1>0, <1>4, <1>7, <2>2, <3>1, <3>2
  <2>3. QED BY <1>0, <1>8, <2>1, <2>2
(* An end event among them is the last one and after every stored chunk. *)
<1>14. \A i \in 1..Len(client.got) : client.got[i].kind # "chunk" =>
          /\ i = Len(more) /\ i = job.count + 1 /\ job.count < client.cursor
          /\ job.status = client.got[i].kind /\ job.status \in Terminal
  <2> TAKE i \in 1..Len(client.got)
  <2> HAVE client.got[i].kind # "chunk"
  <2>1. i = Len(client.got) /\ i = job.count + 1 /\ job.status = client.got[i].kind
        /\ job.status \in Terminal
    BY DEF Sole, AnswerOf
  <2>2. QED BY <1>0, <1>4, <1>6, <1>12, <2>1
<1>15. \A i \in 1..Len(more) :
          /\ more[i].seq = i
          /\ more[i].kind = "chunk" => i <= task[a].chunks
          /\ more[i].kind # "chunk" =>
                /\ i = Len(more) /\ i = job.count + 1
                /\ job.status = more[i].kind /\ job.status \in Terminal
  <2> TAKE i \in 1..Len(more)
  <2>1. CASE i \in 1..Len(client.got) /\ more[i] = client.got[i]
    BY <1>14, <2>1 DEF Sole, AnswerOf
  <2>2. CASE /\ i <= job.count /\ more[i].kind = "chunk" /\ more[i].seq = i
    BY <1>0, <1>4, <2>2
  <2>3. QED BY <1>13, <2>1, <2>2
<1>16. ReaderOf'
  BY <1>3, <1>10 DEF ReaderOf
<1>17. CASE /\ ~ (client.seen.status \in Terminal /\ end > top)
            /\ client' = [[At("polled") EXCEPT !.seen = NoRow] EXCEPT !.cursor = top, !.got = more]
  <2>1. client'.got = more /\ client'.cursor = top
    BY <1>0, <1>17 DEF At, Client
  <2>2. AnswerOf(a)'
    BY <1>2, <1>3, <1>10, <1>12, <1>15, <2>1 DEF AnswerOf
  <2>3. client.final => job.count < Len(more)
    <3> SUFFICES ASSUME client.final PROVE job.count < Len(more)
      OBVIOUS
    <3>1. client.seen = job /\ ~ (end > top)
      BY <1>5, <1>17
    <3>2. QED BY <1>0, <1>6, <1>12, <3>1
  <2>4. PollOf'
    <3>1. client'.final => job'.status \in Terminal /\ client'.pc \in Polling
      BY <1>2, <1>3, <1>5, <1>10
    <3>2. client'.final => job'.count < Len(client'.got)
      BY <1>2, <1>10, <2>1, <2>3
    <3>3. QED BY <1>10, <3>1, <3>2 DEF PollOf
  <2>5. QED BY <1>2, <1>16, <2>2, <2>4 DEF Sole
<1>18. CASE /\ client.seen.status \in Terminal /\ end > top
            /\ client' = [[At("polled") EXCEPT !.seen = NoRow]
                            EXCEPT !.cursor = end, !.got = Append(more, last)]
  <2> DEFINE got == Append(more, last)
  <2>1. client'.got = got /\ client'.cursor = end
    BY <1>0, <1>18 DEF At, Client
  <2>2. client.seen = job /\ job.status \in Terminal /\ end = job.count + 1
    BY <1>5, <1>18
  <2>3. top = job.count /\ client.cursor <= job.count
    BY <1>0, <1>6, <1>18, <2>2
  <2>4. Len(got) = Len(more) + 1 /\ got[Len(more) + 1] = last
        /\ \A i \in 1..Len(more) : got[i] = more[i]
    BY <1>8
  <2> HIDE DEF got
  <2>5. Len(got) = job.count + 1 /\ Len(more) = job.count
    BY <1>0, <1>12, <2>3, <2>4
  <2>6. \A i \in 1..Len(more) : more[i].kind = "chunk"
    <3> TAKE i \in 1..Len(more)
    <3>1. i # job.count + 1
      BY <1>0, <2>5
    <3>2. QED BY <1>15, <3>1
  <2>7. \A i \in 1..Len(got) :
           /\ got[i].seq = i
           /\ got[i].kind = "chunk" => i <= task[a].chunks
           /\ got[i].kind # "chunk" =>
                 /\ i = Len(got) /\ i = job.count + 1
                 /\ job.status = got[i].kind /\ job.status \in Terminal
    <3> TAKE i \in 1..Len(got)
    <3>1. CASE i \in 1..Len(more)
      BY <1>15, <2>4, <2>6, <3>1
    <3>2. CASE i = Len(more) + 1
      <4>1. got[i].seq = i /\ got[i].kind = job.status /\ i = Len(got) /\ i = job.count + 1
        BY <1>0, <1>11, <2>2, <2>4, <2>5, <3>2
      <4>2. QED BY <2>2, <4>1 DEF Terminal
    <3>3. QED BY <1>8, <2>4, <3>1, <3>2
  <2>8. AnswerOf(a)'
    BY <1>2, <1>3, <1>10, <2>1, <2>2, <2>5, <2>7 DEF AnswerOf
  <2>9. HasEnd(got)
    <3>1. Len(got) \in 1..Len(got) /\ got[Len(got)].kind = job.status
      BY <1>0, <1>11, <2>2, <2>4, <2>5
    <3>2. QED BY <2>2, <3>1 DEF HasEnd
  <2>10. PollOf'
    <3>1. client'.final => job'.status \in Terminal /\ client'.pc \in Polling
      BY <1>2, <1>3, <1>5, <1>10
    <3>2. HasEnd(client'.got)
      BY <2>1, <2>9
    <3>3. QED BY <1>10, <3>1, <3>2 DEF PollOf
  <2>11. QED BY <1>2, <1>16, <2>8, <2>10 DEF Sole
<1>19. QED BY <1>9, <1>17, <1>18

LEMMA PolledSole ==
    ASSUME TypeInv, NEW a \in Attempt, Sole(a), Polled
    PROVE  Sole(a)'
<1>0. client \in Client(Len(log))
  BY TypeParts DEF TypeInv
<1>1. UNCHANGED producer /\ client.pc = "polled"
  BY DEF Polled, Subscribed
<1>2. \/ client.final /\ client' = Idle("closed", client.connects, client.got)
      \/ job.status \in Terminal /\ client' = [At("polling") EXCEPT !.final = TRUE]
      \/ ~ client.final /\ client' = At("polling")
  BY DEF Polled, Subscribed
<1>3. CASE client.final /\ client' = Idle("closed", client.connects, client.got)
  <2>1. ~ HasEnd(client.got) => job.status \in Terminal /\ job.count < Len(client.got)
    BY <1>1, <1>3 DEF Sole, PollOf
  <2>2. QED BY <1>1, <1>3, <2>1, AwaySole
<1>4. CASE \/ job.status \in Terminal /\ client' = [At("polling") EXCEPT !.final = TRUE]
           \/ ~ client.final /\ client' = At("polling")
  <2>1. /\ client'.got = client.got /\ client'.cursor = client.cursor /\ client'.pc = "polling"
        /\ client'.final => job.status \in Terminal
    BY <1>0, <1>4 DEF At, Client
  <2>2. RowOf(a)' /\ StreamOf(a)' /\ job' = job
    BY <1>1, ProducerRests DEF Sole
  <2>3. /\ client.pc \in Connected /\ "polling" \in Polling
        /\ "polling" \notin Live /\ "polling" \notin Checking
    BY <1>1 DEF Connected, Checking, Live, Polling
  <2>4. AnswerOf(a)'
    BY <1>1, <2>1, <2>3, AnswerStays DEF Sole
  <2>5. ReaderOf'
    BY <2>1, <2>3 DEF ReaderOf
  <2>6. PollOf'
    BY <2>1, <2>2, <2>3 DEF PollOf
  <2>7. QED BY <2>2, <2>4, <2>5, <2>6 DEF Sole
<1>5. QED BY <1>2, <1>3, <1>4

-----------------------------------------------------------------------------
(* The invariant holds *)

LEMMA InitAnswer == Init => AnswerInv
<1> SUFFICES ASSUME Init PROVE AnswerInv
  OBVIOUS
<1>1. PICK a \in Attempt :
         task = [b \in Attempt |-> [pc |-> IF b = a THEN "running" ELSE "absent", chunks |-> 0]]
  BY DEF Init
<1>2. Begun = {a}
  BY <1>1 DEF Begun
<1>3. /\ job = [status |-> "active", attempt |-> None, count |-> 0] /\ log = <<>> /\ Len(log) = 0
      /\ ending = {} /\ expiring = FALSE /\ head = 1 /\ task[a].pc = "running" /\ task[a].chunks = 0
  BY <1>1 DEF Init
<1>4. RowOf(a)
  BY <1>3 DEF RowOf, Terminal
<1>5. StreamOf(a)
  BY <1>3 DEF StreamOf
<1>6. /\ client.pc = "away" /\ client.got = <<>> /\ ~ client.final /\ client.first
      /\ "away" \notin Connected
  BY DEF Init, Idle, Connected, Checking, Live, Polling
<1>7. AnswerOf(a) /\ ReaderOf /\ PollOf
  <2>1. AnswerOf(a)
    BY <1>6 DEF AnswerOf, HasEnd
  <2>2. ReaderOf
    BY <1>6 DEF ReaderOf, Live, Checking
  <2>3. PollOf
    BY <1>6 DEF PollOf
  <2>4. QED BY <2>1, <2>2, <2>3
<1>8. IsFiniteSet({a})
  BY FS_Singleton
<1>9. QED BY <1>2, <1>4, <1>5, <1>7, <1>8 DEF AnswerInv, Sole

LEMMA SoleStep ==
    ASSUME TypeInv, TypeInv', MayLag = FALSE, NEW a \in Attempt, Begun = {a}, Begun' = {a},
           Sole(a), [Next]_vars
    PROVE  Sole(a)'
<1>0. ProducerType /\ client \in Client(Len(log))
  BY TypeParts DEF TypeInv
<1>1. ASSUME NEW b \in Attempt, ResetRow(b) PROVE FALSE
  <2>1. b \notin Begun /\ task'[b].pc = "preparing"
    BY <1>0, <1>1 DEF ResetRow, Begun, ProducerType, Work
  <2>2. b \in Begun'
    BY <2>1 DEF Begun
  <2>3. QED BY <2>1, <2>2
<1>2. ASSUME NEW b \in Attempt, ResetMeta(b) PROVE FALSE
  <2>1. b \in Begun /\ task[b].pc = "preparing"
    BY <1>2 DEF ResetMeta, Begun
  <2>2. QED BY <2>1 DEF Sole, RowOf
<1>3. CASE \/ \E b \in Attempt : PublishChunk(b) \/ Settle(b) \/ FlushFails(b)
           \/ \E e \in ending : Finalize(e) \/ FinalizeFails(e)
           \/ EndedFromOutside \/ Republish \/ MetaExpires \/ StreamExpires \/ RedisRestarts
  BY <1>3, ProducerSole
<1>4. CASE \/ PeekMeta \/ PeekStream \/ ConfirmMeta \/ Recheck
           \/ AskRow \/ AskStream \/ RecallMeta \/ RedisFails
  BY <1>4, CheckSole
<1>5. CASE Connect
  BY <1>5, ConnectSole
<1>6. CASE Disconnect
  BY <1>6, DisconnectSole
<1>7. CASE Revive
  BY <1>7, ReviveSole
<1>8. CASE ReadStream
  BY <1>8, ReadSole
<1>9. CASE ProcessEntry
  BY <1>9, ProcessSole
<1>10. CASE PollRow
  BY <1>10, PollRowSole
<1>11. CASE Fetch
  BY <1>11, FetchSole
<1>12. CASE Polled
  BY <1>12, PolledSole
<1>13. CASE UNCHANGED vars
  <2>1. UNCHANGED producer /\ client' = client
    BY <1>13 DEF vars
  <2>2. RowOf(a)' /\ StreamOf(a)' /\ job' = job /\ head' = head /\ task' = task /\ log' = log
    BY <2>1, ProducerRests DEF Sole
  <2>3. meta' = meta
    BY <2>1 DEF producer
  <2>4. AnswerOf(a)' /\ ReaderOf' /\ PollOf'
    BY <2>1, <2>2, <2>3 DEF Sole, AnswerOf, ReaderOf, PollOf, NoChunkFrom
  <2>5. QED BY <2>2, <2>4 DEF Sole
<1>14. ~ \E b \in Attempt : RetryByAnother(b)
  BY <1>1 DEF RetryByAnother
<1>15. QED
  BY <1>2, <1>3, <1>4, <1>5, <1>6, <1>7, <1>8, <1>9, <1>10, <1>11, <1>12, <1>13, <1>14
  DEF Next, TaskStep, Subscription, Environment

(* No attempt is forgotten, and a step begins at most one. *)
LEMMA BegunGrows ==
    ASSUME TypeInv, [Next]_vars
    PROVE  Begun \subseteq Begun' /\ (Begun' = Begun \/ \E b \in Attempt : Begun' = Begun \union {b})
<1>0. task \in [Attempt -> Work]
  BY TypeParts DEF TypeInv, ProducerType
<1>a. ASSUME \A b \in Attempt : (task'[b].pc = "absent") <=> (task[b].pc = "absent")
      PROVE  Begun' = Begun
  BY <1>a DEF Begun
<1>1. ASSUME NEW b \in Attempt,
             PublishChunk(b) \/ Settle(b) \/ FlushFails(b) \/ ResetRow(b) \/ ResetMeta(b)
      PROVE  Begun' = Begun \union {b}
  <2>1. task[b].chunks \in Nat /\ task[b] \in Work
    BY <1>0 DEF Work
  <2>2. /\ \A c \in Attempt : c # b => task'[c] = task[c]
        /\ task'[b].pc \in {"preparing", "running", "stopped", "ended"}
    <3>1. CASE PublishChunk(b)
      BY <1>0, <2>1, <3>1 DEF PublishChunk, Work
    <3>2. CASE Settle(b) \/ FlushFails(b)
      BY <1>0, <2>1, <3>2 DEF Settle, FlushFails, Work
    <3>3. CASE ResetRow(b) \/ ResetMeta(b)
      BY <1>0, <2>1, <3>3 DEF ResetRow, ResetMeta, Work
    <3>4. QED BY <1>1, <3>1, <3>2, <3>3
  <2>3. QED BY <2>2 DEF Begun
<1>2. CASE EndedFromOutside
  <2>1. CASE UNCHANGED task
    BY <1>a, <2>1
  <2>2. CASE task' = [c \in Attempt |-> IF task[c].pc \in {"running", "stopped"}
                                       THEN [task[c] EXCEPT !.pc = "ended"] ELSE task[c]]
    <3>1. \A c \in Attempt : (task'[c].pc = "absent") <=> (task[c].pc = "absent")
      <4> TAKE c \in Attempt
      <4>1. task[c] \in Work
        BY <1>0
      <4>2. task'[c] = IF task[c].pc \in {"running", "stopped"}
                       THEN [task[c] EXCEPT !.pc = "ended"] ELSE task[c]
        BY <2>2
      <4>3. QED BY <4>1, <4>2 DEF Work
    <3>2. QED BY <1>a, <3>1
  <2>3. QED BY <1>2, <2>1, <2>2 DEF EndedFromOutside
<1>3. ASSUME UNCHANGED task PROVE Begun' = Begun
  BY <1>a, <1>3
<1>4. CASE \/ Republish \/ Connect \/ Disconnect \/ MetaExpires \/ StreamExpires \/ RedisRestarts
           \/ RedisFails \/ \E e \in ending : Finalize(e) \/ FinalizeFails(e)
  <2>1. UNCHANGED task
    BY <1>4, Zenon DEF Republish, Connect, Disconnect, MetaExpires, StreamExpires, RedisRestarts,
                       RedisFails, Finalize, FinalizeFails, producer
  <2>2. QED BY <1>3, <2>1
<1>5. CASE Subscription
  <2>1. CASE Revive
    <3>1. UNCHANGED task \/ \E b \in Attempt : ResetRow(b)
      BY <2>1 DEF Revive, producer
    <3>2. QED BY <1>1, <1>3, <3>1
  <2>2. CASE ~ Revive
    <3>1. UNCHANGED task
      BY <1>5, <2>2 DEF Subscription, Subscribed, PeekMeta, PeekStream, ConfirmMeta, Recheck,
         ReadStream, ProcessEntry, AskRow, AskStream, RecallMeta, PollRow, Fetch, Polled, producer
    <3>2. QED BY <1>3, <3>1
  <2>3. QED BY <2>1, <2>2
<1>6. CASE UNCHANGED vars
  BY <1>3, <1>6 DEF vars, producer
<1>7. QED
  BY <1>1, <1>2, <1>4, <1>5, <1>6 DEF Next, TaskStep, Environment, RetryByAnother

LEMMA AnswerStep ==
    ASSUME MayLag = FALSE, TypeInv, TypeInv', AnswerInv, [Next]_vars
    PROVE  AnswerInv'
<1>1. Begun \subseteq Begun' /\ (Begun' = Begun \/ \E b \in Attempt : Begun' = Begun \union {b})
  BY BegunGrows
<1>2. IsFiniteSet(Begun)' /\ (Begun # {})'
  <2>1. \A b \in Attempt : IsFiniteSet(Begun \union {b})
    BY FS_AddElement DEF AnswerInv
  <2>2. IsFiniteSet(Begun')
    BY <1>1, <2>1 DEF AnswerInv
  <2>3. QED BY <1>1, <2>2 DEF AnswerInv
<1>3. ASSUME NEW a \in Attempt, Begun' = {a} PROVE Sole(a)'
  <2>1. Begun = {a}
    BY <1>1, <1>3 DEF AnswerInv
  <2>2. QED BY <1>3, <2>1, SoleStep DEF AnswerInv
<1>4. QED BY <1>2, <1>3 DEF AnswerInv

LEMMA AnswerHolds ==
    ASSUME MayLag = FALSE
    PROVE  Spec => [](TypeInv /\ AnswerInv)
<1>1. Init => TypeInv /\ AnswerInv
  BY InitType, InitAnswer
<1>2. TypeInv /\ AnswerInv /\ [Next]_vars => (TypeInv /\ AnswerInv)'
  BY TypeStep, AnswerStep
<1>3. QED BY <1>1, <1>2, PTL DEF Spec

(* A run that is not retried has one attempt. *)
LEMMA OneAttempt ==
    ASSUME AnswerInv, ~ IsRetried
    PROVE  \E a \in Attempt : Sole(a)
<1>1. PICK a \in Begun : TRUE
  BY DEF AnswerInv
<1>2. a \in Attempt
  BY DEF Begun
<1>3. \A b \in Begun : b = a
  <2> SUFFICES ASSUME NEW b \in Begun, b # a PROVE FALSE
    OBVIOUS
  <2>1. IsFiniteSet({a, b}) /\ Cardinality({a, b}) = 2
    <3>1. IsFiniteSet({a}) /\ Cardinality({a}) = 1
      BY FS_Singleton
    <3>2. b \notin {a} /\ {a} \union {b} = {a, b}
      OBVIOUS
    <3>3. IsFiniteSet({a} \union {b}) /\ Cardinality({a} \union {b}) = Cardinality({a}) + 1
      BY <3>1, <3>2, FS_AddElement
    <3>4. QED BY <3>1, <3>2, <3>3
  <2>2. {a, b} \subseteq Begun /\ IsFiniteSet(Begun)
    BY DEF AnswerInv
  <2>3. Cardinality({a, b}) <= Cardinality(Begun) /\ Cardinality(Begun) \in Nat
    BY <2>2, FS_Subset, FS_CardinalityType
  <2>4. QED BY <2>1, <2>3 DEF IsRetried, Begun
<1>4. Begun = {a}
  BY <1>3
<1>5. QED BY <1>2, <1>4 DEF AnswerInv

(* The chunks of an answer without an end event, and of one with it *)
LEMMA ChunksOfAnswer ==
    ASSUME TypeInv, NEW a \in Attempt, Sole(a)
    PROVE  /\ ~ HasEnd(client.got) => ChunksGot = 1..Len(client.got)
           /\ HasEnd(client.got) => ChunksGot = 1..job.count /\ Len(client.got) = job.count + 1
<1>0. /\ client.got \in Seq(Event) /\ Len(client.got) \in Nat /\ job.count \in Nat
  BY TypeParts DEF TypeInv, ProducerType, Client, Row
<1>1. \A i \in 1..Len(client.got) : client.got[i].kind # "chunk" => client.got[i].kind \in Terminal
  BY DEF Sole, AnswerOf
<1>2. \A i \in 1..Len(client.got) : client.got[i].seq = i
  BY DEF Sole, AnswerOf
<1>3. ChunksGot = {i \in 1..Len(client.got) : client.got[i].kind = "chunk"}
  BY <1>2 DEF ChunksGot
<1>4. CASE ~ HasEnd(client.got)
  BY <1>1, <1>3, <1>4 DEF HasEnd
<1>5. CASE HasEnd(client.got)
  <2>1. PICK i \in 1..Len(client.got) : client.got[i].kind \in Terminal
    BY <1>5 DEF HasEnd
  <2>2. client.got[i].kind # "chunk"
    BY <2>1 DEF Terminal
  <2>3. i = Len(client.got) /\ i = job.count + 1
    BY <2>2 DEF Sole, AnswerOf
  <2>4. \A k \in 1..Len(client.got) : client.got[k].kind = "chunk" <=> k # Len(client.got)
    BY <2>2, <2>3 DEF Sole, AnswerOf
  <2>5. ChunksGot = 1..job.count
    BY <1>0, <1>3, <2>3, <2>4
  <2>6. QED BY <1>5, <2>3, <2>5
<1>6. QED BY <1>4, <1>5

(* Of a run that is executed once, completed comes after every chunk of the  *)
(* answer, in whatever way trimming, expiry, a restart of Redis and the      *)
(* client's reconnections divide them between Redis and PostgreSQL, as long  *)
(* as a connected reader is not overtaken by the trimming; of any run it is  *)
(* the last word.                                                           *)
(* (job_subscription.py: has_cursor_gap, _stream_postgresql_fallback_async)  *)
THEOREM CompletedAnswersAreWhole ==
    ASSUME MayLag = FALSE
    PROVE  Spec => []CompletedAnswerIsWhole
<1>1. TypeInv /\ AnswerInv /\ LastWord => CompletedAnswerIsWhole
  <2> SUFFICES ASSUME TypeInv, AnswerInv, LastWord, Completed PROVE CompletedAnswerIsWhole
    BY DEF CompletedAnswerIsWhole
  <2>1. client.got[Len(client.got)].kind = "completed"
    BY DEF LastWord, EndsWithCompleted, Completed
  <2>2. ASSUME ~ IsRetried PROVE ChunksGot = 1..job.count
    <3>1. HasEnd(client.got)
      BY DEF Completed, HasEnd, Terminal
    <3>2. QED BY <2>2, <3>1, OneAttempt, ChunksOfAnswer
  <2>3. QED BY <2>1, <2>2 DEF CompletedAnswerIsWhole
<1>2. Spec => []LastWord
  BY TypeHolds, InitLast, LastStep, PTL DEF Spec
<1>3. Spec => [](TypeInv /\ AnswerInv)
  BY AnswerHolds
<1>4. QED BY <1>1, <1>2, <1>3, PTL

(* A connection to a run that is executed once is closed without an end      *)
(* event only when the run ended without all the chunks the client was sent. *)
(* (job_subscription.py:156-158)                                             *)
THEOREM SilentClosesMeanLost ==
    ASSUME MayLag = FALSE
    PROVE  Spec => []SilentCloseMeansLost
<1>1. TypeInv /\ AnswerInv => SilentCloseMeansLost
  <2> SUFFICES ASSUME TypeInv, AnswerInv, client.pc = "closed", ~ HasEnd(client.got), ~ IsRetried
               PROVE  /\ job.status \in {"failed", "cancelled"}
                      /\ job.count < Cardinality(ChunksGot)
    BY DEF SilentCloseMeansLost
  <2>1. PICK a \in Attempt : Sole(a)
    BY OneAttempt
  <2>2. ChunksGot = 1..Len(client.got)
    BY <2>1, ChunksOfAnswer
  <2>3. /\ client.got \in Seq(Event) /\ Len(client.got) \in Nat /\ job.count \in Nat
        /\ task[a].chunks \in Nat
    BY TypeParts DEF TypeInv, ProducerType, Client, Row, Work
  <2>4. job.status \in Terminal /\ job.count < Len(client.got)
    BY <2>1 DEF Sole, PollOf
  <2>5. Cardinality(1..Len(client.got)) = Len(client.got)
    <3>1. 1 \in Int /\ Len(client.got) \in Int
      BY <2>3
    <3>2. Cardinality(1..Len(client.got)) = IF 1 > Len(client.got) THEN 0 ELSE Len(client.got) - 1 + 1
      BY <3>1, FS_Interval
    <3>3. QED BY <2>3, <3>2
  <2>6. job.status # "completed"
    <3>1. Len(client.got) \in 1..Len(client.got)
      BY <2>3, <2>4
    <3>2. client.got[Len(client.got)].kind = "chunk"
      BY <2>1, <3>1 DEF Sole, AnswerOf, HasEnd
    <3>3. Len(client.got) <= task[a].chunks
      BY <2>1, <3>1, <3>2 DEF Sole, AnswerOf
    <3>4. QED BY <2>1, <2>3, <2>4, <3>3 DEF Sole, RowOf
  <2>7. QED BY <2>2, <2>4, <2>5, <2>6 DEF Terminal
<1>2. QED BY <1>1, AnswerHolds, PTL
=============================================================================
