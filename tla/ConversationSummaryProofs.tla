---------------------- MODULE ConversationSummaryProofs ----------------------
(***************************************************************************)
(* What TLAPS proves of ConversationSummary, for any number of turns, any  *)
(* length of thread and any Keep and Trigger.                              *)
(***************************************************************************)
EXTENDS ConversationSummary, SequenceTheorems, TLAPS

USE ConstantsAssumption

-----------------------------------------------------------------------------
(* No list is longer than there have been messages. *)
Bounded ==
    /\ Len(thread) <= created
    /\ \A t \in Turn : Len(turn[t].list) <= MaxMessages

TypeInv == TypeOK /\ Bounded

(* What a turn that summarises holds is still the thread's beginning. *)
IsPrefixOfThread(list) ==
    /\ Len(list) <= Len(thread)
    /\ \A i \in 1..Len(list) : list[i] = thread[i]

(* What a request relies on from one await to the next while it summarises: *)
(* its list, as long as no truncation has cut it, and the row it read, as   *)
(* long as that was not torn                                                *)
IsCurrent(r) ==
    /\ r.pc \in Summarising /\ ~ r.torn => IsPrefixOfThread(r.list)
    /\ r.pc \in {"measured", "summarised"} /\ ~ r.torn /\ ~ r.seen.torn =>
          /\ r.seen.count < Boundary(r.list)
          /\ r.seen.summary = {r.list[i].id : i \in 1..r.seen.count}

TurnsAreCurrent == \A t \in Turn : IsCurrent(turn[t])

SummaryInv == TurnsAreCurrent /\ SummaryCoversPrefix

-----------------------------------------------------------------------------
(* Helpers *)

LEMMA BoundaryType ==
    ASSUME NEW list \in Seq(Message)
    PROVE  /\ Boundary(list) \in 0..Len(list)
           /\ Boundary(list) > 0 => Boundary(list) + Keep = Len(list)
  BY DEF Boundary

LEMMA IdsType ==
    ASSUME NEW list \in Seq(Message)
    PROVE  Ids(list) \subseteq 1..MaxMessages
<1>1. ASSUME NEW i \in 1..Len(list) PROVE list[i].id \in 1..MaxMessages
  <2>1. list[i] \in Message
    BY ElementOfSeq
  <2>2. QED BY <2>1 DEF Message
<1>2. QED BY <1>1 DEF Ids

LEMMA IdleType == Idle \in Request /\ Idle.pc = "idle" /\ Idle.list = <<>>
  BY EmptySeq DEF Idle, Request, Room, NoSummary, Summarising

LEMMA Appended ==
    ASSUME TypeInv, NEW human \in BOOLEAN, Append1(human)
    PROVE  /\ thread' \in Seq(Message)
           /\ created' \in 0..MaxMessages
           /\ Len(thread') <= created'
           /\ Len(thread') = Len(thread) + 1
           /\ \A i \in 1..Len(thread) : thread'[i] = thread[i]
<1>1. [id |-> created + 1, human |-> human] \in Message
  BY DEF Append1, TypeInv, TypeOK, Message
<1>2. QED BY <1>1, AppendProperties DEF Append1, TypeInv, TypeOK, Bounded

(* The messages a new summary is made from are those below the boundary. *)
LEMMA FreshType ==
    ASSUME NEW list \in Seq(Message), NEW n \in Nat
    PROVE  {list[i].id : i \in (n + 1)..Boundary(list)} \subseteq 1..MaxMessages
<1>1. ASSUME NEW i \in (n + 1)..Boundary(list) PROVE list[i].id \in 1..MaxMessages
  <2>1. i \in 1..Len(list)
    BY BoundaryType
  <2>2. list[i] \in Message
    BY <2>1, ElementOfSeq
  <2>3. QED BY <2>2 DEF Message
<1>2. QED BY <1>1

-----------------------------------------------------------------------------
(* Types *)

LEMMA TurnStepType ==
    ASSUME TypeInv, NEW t \in Turn, TurnStep(t)
    PROVE  TypeInv'
<1>1. turn[t] \in Request /\ turn[t].list \in Seq(Message) /\ turn[t].seen \in Room
  BY DEF TypeInv, TypeOK, Request
<1>2. CASE Load(t)
  <2>1. PICK pc \in {"loaded", "ready"} :
           turn' = [turn EXCEPT ![t] = [Idle EXCEPT !.pc = pc, !.list = thread]]
    BY <1>2 DEF Load
  <2>2. [Idle EXCEPT !.pc = pc, !.list = thread] \in Request
    BY IdleType DEF Request, Summarising, TypeInv, TypeOK
  <2>3. [Idle EXCEPT !.pc = pc, !.list = thread].list = thread
    BY IdleType DEF Request
  <2>4. Len(thread) <= MaxMessages
    BY DEF TypeInv, TypeOK, Bounded
  <2>5. QED BY <1>2, <2>1, <2>2, <2>3, <2>4 DEF Load, TypeInv, TypeOK, Bounded
<1>3. CASE ReadSummary(t)
  BY <1>1, <1>3 DEF ReadSummary, TypeInv, TypeOK, Bounded, Request, Summarising
<1>4. CASE Summarise(t)
  BY <1>1, <1>4 DEF Summarise, Step, TypeInv, TypeOK, Bounded, Request, Summarising
<1>5. CASE StoreSummary(t)
  <2>1. room' \in Room
    <3>1. turn[t].seen.count \in Nat /\ turn[t].seen.summary \subseteq 1..MaxMessages
      BY <1>1 DEF Room
    <3>2. Boundary(turn[t].list) \in 0..MaxMessages
      BY <1>1, BoundaryType DEF TypeInv, Bounded
    <3>3. (turn[t].torn \/ turn[t].seen.torn) \in BOOLEAN
      OBVIOUS
    <3>4. QED BY <1>1, <1>5, <3>1, <3>2, <3>3, FreshType DEF StoreSummary, Made, Room
  <2>2. QED BY <1>1, <1>5, <2>1 DEF StoreSummary, Step, TypeInv, TypeOK, Bounded, Request
<1>6. CASE SkipSummary(t)
  BY <1>1, <1>6 DEF SkipSummary, Step, TypeInv, TypeOK, Bounded, Request
<1>7. CASE Ask(t)
  BY <1>1, <1>7, Appended DEF Ask, Step, TypeInv, TypeOK, Bounded, Request
<1>8. CASE Think(t)
  <2>1. \A n \in 1..(Len(thread) + 1) : SubSeq(thread, n, Len(thread)) \in Seq(Message)
    BY SubSeqProperties, ElementOfSeq DEF TypeInv, TypeOK
  <2>2. Boundary(thread) + 1 \in 1..(Len(thread) + 1)
    BY BoundaryType DEF TypeInv, TypeOK
  <2>3. turn'[t].known \subseteq 1..MaxMessages
    <3>1. Ids(thread) \subseteq 1..MaxMessages
      BY IdsType DEF TypeInv, TypeOK
    <3>2. Ids(SubSeq(thread, Boundary(thread) + 1, Len(thread))) \subseteq 1..MaxMessages
      BY <2>1, <2>2, IdsType
    <3>3. room.summary \subseteq 1..MaxMessages
      BY DEF TypeInv, TypeOK, Room
    <3>4. QED BY <1>1, <1>8, <3>1, <3>2, <3>3 DEF Think, TypeInv, TypeOK, Request
  <2>4. QED BY <1>1, <1>8, <2>3 DEF Think, TypeInv, TypeOK, Bounded, Request
<1>9. CASE Reply(t)
  <2>1. turn'[t] \in Request /\ Len(turn'[t].list) <= MaxMessages
    <3>1. CASE turn' = [turn EXCEPT ![t] = Idle]
      BY <3>1, IdleType, EmptySeq DEF TypeInv, TypeOK
    <3>2. CASE turn' = [turn EXCEPT ![t].pc = "asking", ![t].known = {}]
      BY <1>1, <3>2 DEF TypeInv, TypeOK, Bounded, Request
    <3>3. QED BY <1>9, <3>1, <3>2 DEF Reply
  <2>2. QED BY <1>9, <2>1, Appended DEF Reply, TypeInv, TypeOK, Bounded
<1>10. CASE ReplyFails(t)
  BY <1>10, IdleType, EmptySeq DEF ReplyFails, TypeInv, TypeOK, Bounded
<1>11. CASE Stop(t)
  BY <1>1, <1>11 DEF Stop, TypeInv, TypeOK, Bounded, Request
<1>12. CASE StoppedTurnEnds(t)
  BY <1>12, IdleType, EmptySeq DEF StoppedTurnEnds, TypeInv, TypeOK, Bounded
<1>13. QED BY <1>2, <1>3, <1>4, <1>5, <1>6, <1>7, <1>8, <1>9, <1>10, <1>11, <1>12 DEF TurnStep

LEMMA RemovedType ==
    ASSUME TypeInv, RemoveMessages
    PROVE  TypeInv'
<1>1. PICK i \in 1..Len(thread) :
         /\ thread' = SubSeq(thread, 1, i - 1)
         /\ room' = [room EXCEPT !.torn = @ \/ (room.count > 0 /\ room.count + Keep >= i)]
         /\ turn' = [t \in Turn |->
                       [turn[t] EXCEPT !.torn = @ \/ (/\ turn[t].pc \in Summarising
                                                     /\ Len(turn[t].list) >= i)]]
  BY DEF RemoveMessages
<1>2. thread' \in Seq(Message) /\ Len(thread') <= Len(thread)
  BY <1>1, SubSeqProperties, ElementOfSeq DEF TypeInv, TypeOK
<1>3. room' \in Room
  BY <1>1 DEF TypeInv, TypeOK, Room
<1>4. ASSUME NEW t \in Turn
      PROVE  turn'[t] \in Request /\ turn'[t].list = turn[t].list
  BY <1>1 DEF TypeInv, TypeOK, Request
<1>5. turn' \in [Turn -> Request]
  BY <1>1, <1>4
<1>6. created' = created /\ faults' = faults /\ cut' = "removed"
  BY DEF RemoveMessages
<1>7. Len(thread') \in Nat /\ Len(thread) \in Nat
  BY <1>2 DEF TypeInv, TypeOK
<1>8. QED BY <1>2, <1>3, <1>4, <1>5, <1>6, <1>7 DEF TypeInv, TypeOK, Bounded

LEMMA TypeInvariance == Spec => []TypeInv
<1>1. Init => TypeInv
  BY IdleType, EmptySeq DEF Init, TypeInv, TypeOK, Bounded, Room, NoSummary
<1>2. TypeInv /\ [Next]_vars => TypeInv'
  <2> SUFFICES ASSUME TypeInv, [Next]_vars PROVE TypeInv'
    OBVIOUS
  <2>1. ASSUME NEW t \in Turn, TurnStep(t) PROVE TypeInv'
    BY <2>1, TurnStepType
  <2>2. CASE RemoveMessages
    BY <2>2, RemovedType
  <2>3. CASE ClearSummary
    BY <2>3 DEF ClearSummary, TypeInv, TypeOK, Bounded, Room, NoSummary
  <2>4. CASE TruncationFails
    BY <2>4 DEF TruncationFails, TypeInv, TypeOK, Bounded
  <2>5. CASE UNCHANGED vars
    BY <2>5 DEF vars, TypeInv, TypeOK, Bounded
  <2>6. QED BY <2>1, <2>2, <2>3, <2>4, <2>5 DEF Next
<1>3. QED BY <1>1, <1>2, PTL DEF Spec

(* No variable leaves its type: in particular the stored count never exceeds *)
(* the messages there have been (older_boundary is a length).               *)
THEOREM SummaryTypeCorrect == Spec => []TypeOK
<1>1. TypeInv => TypeOK
  BY DEF TypeInv
<1>2. QED BY <1>1, TypeInvariance, PTL

-----------------------------------------------------------------------------
(* The summary *)

(* A summary of the first messages stays one when the thread grows. *)
LEMMA GrowthKeeps ==
    ASSUME TypeInv, NEW human \in BOOLEAN, Append1(human), UNCHANGED room,
           SummaryCoversPrefix
    PROVE  SummaryCoversPrefix'
<1> SUFFICES ASSUME ~ room.torn
             PROVE  /\ room.count > 0 => room.count + Keep <= Len(thread')
                    /\ room.summary = {thread'[i].id : i \in 1..room.count}
  BY DEF SummaryCoversPrefix
<1>1. room.count \in Nat /\ room.count <= Len(thread)
  BY DEF SummaryCoversPrefix, TypeInv, TypeOK, Room
<1>2. \A i \in 1..room.count : thread'[i] = thread[i]
  BY <1>1, Appended DEF TypeInv, TypeOK
<1>3. {thread'[i].id : i \in 1..room.count} = {thread[i].id : i \in 1..room.count}
  BY <1>2
<1>4. room.count > 0 => room.count + Keep <= Len(thread')
  BY Appended DEF SummaryCoversPrefix, TypeInv, TypeOK, Room
<1>5. QED BY <1>3, <1>4 DEF SummaryCoversPrefix

(* Steps that leave the thread alone *)
LEMMA OthersKeepTurns ==
    ASSUME TypeInv, TurnsAreCurrent, NEW t \in Turn, NEW r \in Request,
           turn' = [turn EXCEPT ![t] = r], UNCHANGED thread, IsCurrent(r)
    PROVE  TurnsAreCurrent'
<1>1. IsCurrent(r)'
  BY DEF IsCurrent, IsPrefixOfThread, Boundary
<1>2. ASSUME NEW u \in Turn, u # t PROVE IsCurrent(turn[u])'
  BY <1>2 DEF TurnsAreCurrent, IsCurrent, IsPrefixOfThread, Boundary, TypeInv, TypeOK
<1>3. turn'[t] = r
  BY DEF TypeInv, TypeOK
<1>4. IsCurrent(turn[t])'
  BY <1>1, <1>3 DEF IsCurrent
<1>5. QED BY <1>2, <1>4 DEF TurnsAreCurrent

(* When the thread grows, what a turn holds is still its beginning. *)
LEMMA GrowthKeepsTurns ==
    ASSUME TypeInv, TurnsAreCurrent, NEW human \in BOOLEAN, Append1(human),
           NEW t \in Turn, NEW r \in Request, r.pc \notin Summarising,
           turn' = [turn EXCEPT ![t] = r]
    PROVE  TurnsAreCurrent'
<1>1. ASSUME NEW u \in Turn, u # t PROVE IsCurrent(turn[u])'
  <2>1. turn'[u] = turn[u] /\ IsCurrent(turn[u])
    BY <1>1 DEF TurnsAreCurrent, TypeInv, TypeOK
  <2>2. Len(turn[u].list) \in Nat /\ Len(thread) \in Nat
    BY DEF TypeInv, TypeOK, Request
  <2>3. IsPrefixOfThread(turn[u].list) => IsPrefixOfThread(turn[u].list)'
    BY <2>1, <2>2, Appended DEF IsPrefixOfThread
  <2>4. QED BY <2>1, <2>3 DEF IsCurrent, Boundary
<1>2. turn'[t] = r
  BY DEF TypeInv, TypeOK
<1>3. IsCurrent(turn[t])'
  BY <1>2 DEF IsCurrent, Summarising
<1>4. QED BY <1>1, <1>3 DEF TurnsAreCurrent

(* What StoreSummary writes is the summary of the first messages, if what it *)
(* was made from is not torn.                                               *)
LEMMA StoredCovers ==
    ASSUME TypeInv, TurnsAreCurrent, NEW t \in Turn, StoreSummary(t)
    PROVE  SummaryCoversPrefix'
<1> DEFINE list == turn[t].list
           seen == turn[t].seen
           b    == Boundary(list)
<1> SUFFICES ASSUME ~ room'.torn PROVE SummaryCoversPrefix'
  BY DEF SummaryCoversPrefix
<1>1. list \in Seq(Message) /\ seen.count \in Nat /\ Len(thread) \in Nat
  BY DEF TypeInv, TypeOK, Request, Room
<1>2. /\ IsPrefixOfThread(list)
      /\ seen.count < b
      /\ seen.summary = {list[i].id : i \in 1..seen.count}
  <2>1. turn[t].pc = "summarised" /\ ~ turn[t].torn /\ ~ turn[t].seen.torn
    BY DEF StoreSummary, Made, TypeInv, TypeOK, Request, Room
  <2>2. IsCurrent(turn[t])
    BY DEF TurnsAreCurrent
  <2>3. QED BY <2>1, <2>2 DEF IsCurrent, Summarising
<1>3. b \in 0..Len(list) /\ b + Keep = Len(list)
  BY <1>1, <1>2, BoundaryType
<1>4. /\ room'.count = b
      /\ room'.summary = seen.summary \union {list[i].id : i \in (seen.count + 1)..b}
      /\ thread' = thread
  BY DEF StoreSummary, Made
<1>5. 1..b = (1..seen.count) \union ((seen.count + 1)..b)
  BY <1>1, <1>2, <1>3
<1>6. room'.summary = {list[i].id : i \in 1..b}
  <2> HIDE DEF list, seen, b
  <2>1. room'.summary = {list[i].id : i \in 1..seen.count}
                           \union {list[i].id : i \in (seen.count + 1)..b}
    BY <1>2, <1>4
  <2>2. QED BY ONLY <1>5, <2>1
<1>7. \A i \in 1..b : list[i] = thread[i]
  BY <1>1, <1>2, <1>3 DEF IsPrefixOfThread
<1>8. {list[i].id : i \in 1..b} = {thread[i].id : i \in 1..b}
  BY <1>7
<1>9. b + Keep <= Len(thread)
  BY <1>2, <1>3 DEF IsPrefixOfThread
<1>10. QED BY <1>4, <1>6, <1>8, <1>9 DEF SummaryCoversPrefix

LEMMA TurnStepKeepsSummary ==
    ASSUME TypeInv, SummaryInv, NEW t \in Turn, TurnStep(t)
    PROVE  SummaryInv'
<1>1. /\ TurnsAreCurrent
      /\ SummaryCoversPrefix
      /\ turn[t] \in Request
      /\ turn[t].list \in Seq(Message)
      /\ turn[t].seen \in Room
      /\ IsCurrent(turn[t])
  BY DEF SummaryInv, TypeInv, TypeOK, Request, TurnsAreCurrent
<1>2. CASE Load(t)
  <2>1. PICK pc \in {"loaded", "ready"} :
           turn' = [turn EXCEPT ![t] = [Idle EXCEPT !.pc = pc, !.list = thread]]
    BY <1>2 DEF Load
  <2> DEFINE r == [Idle EXCEPT !.pc = pc, !.list = thread]
  <2>2. r \in Request /\ r.pc = pc /\ r.list = thread
    BY IdleType DEF Request, Summarising, TypeInv, TypeOK
  <2>3. IsPrefixOfThread(thread)
    BY DEF IsPrefixOfThread, TypeInv, TypeOK
  <2>4. turn' = [turn EXCEPT ![t] = r] /\ UNCHANGED <<thread, room>>
    BY <1>2, <2>1 DEF Load
  <2>5. TurnsAreCurrent'
    <3> HIDE DEF r
    <3>1. IsCurrent(r)
      BY <2>2, <2>3 DEF IsCurrent
    <3>2. QED BY <1>1, <2>2, <2>4, <3>1, OthersKeepTurns
  <2>6. QED BY <1>1, <2>4, <2>5 DEF SummaryCoversPrefix, SummaryInv
<1>3. CASE ReadSummary(t)
  <2> DEFINE r == [turn[t] EXCEPT !.seen = room,
                                  !.pc = IF room.count < Boundary(turn[t].list)
                                         THEN "measured" ELSE "ready"]
  <2>1. /\ turn' = [turn EXCEPT ![t] = r]
        /\ UNCHANGED <<thread, room>>
        /\ turn[t].pc \in Summarising
    BY <1>3 DEF ReadSummary, TypeInv, TypeOK, Summarising
  <2>2. /\ r \in Request
        /\ r.list = turn[t].list
        /\ r.torn = turn[t].torn
        /\ r.seen = room
        /\ r.pc \in {"measured", "summarised"} => room.count < Boundary(r.list)
    BY <1>1 DEF Request, Summarising, TypeInv, TypeOK
  <2>3. ASSUME room.count < Boundary(turn[t].list), ~ turn[t].torn, ~ room.torn
        PROVE  room.summary = {turn[t].list[i].id : i \in 1..room.count}
    <3>1. room.count \in Nat /\ Boundary(turn[t].list) \in 0..Len(turn[t].list)
      BY <1>1, BoundaryType DEF TypeInv, TypeOK, Room
    <3>2. \A i \in 1..room.count : turn[t].list[i] = thread[i]
      BY <1>1, <2>1, <2>3, <3>1 DEF IsCurrent, IsPrefixOfThread, TypeInv, TypeOK
    <3>3. {turn[t].list[i].id : i \in 1..room.count} = {thread[i].id : i \in 1..room.count}
      BY <3>2
    <3>4. QED BY <1>1, <2>3, <3>3 DEF SummaryCoversPrefix
  <2>4. TurnsAreCurrent'
    <3> HIDE DEF r
    <3>1. IsCurrent(r)
      BY <1>1, <2>1, <2>2, <2>3 DEF IsCurrent
    <3>2. QED BY <1>1, <2>1, <2>2, <3>1, OthersKeepTurns
  <2>5. QED BY <1>1, <2>1, <2>4 DEF SummaryCoversPrefix, SummaryInv
<1>4. CASE Summarise(t)
  <2> DEFINE r == [turn[t] EXCEPT !.pc = "summarised"]
  <2>1. /\ turn' = [turn EXCEPT ![t] = r]
        /\ UNCHANGED <<thread, room>>
        /\ turn[t].pc = "measured"
    BY <1>4 DEF Summarise, Step, TypeInv, TypeOK
  <2>2. /\ r \in Request
        /\ r.list = turn[t].list
        /\ r.torn = turn[t].torn
        /\ r.seen = turn[t].seen
    BY <1>1 DEF Request, Summarising
  <2>3. TurnsAreCurrent'
    <3> HIDE DEF r
    <3>1. IsCurrent(r)
      BY <1>1, <2>1, <2>2 DEF IsCurrent, Summarising
    <3>2. QED BY <1>1, <2>1, <2>2, <3>1, OthersKeepTurns
  <2>4. QED BY <1>1, <2>1, <2>3 DEF SummaryCoversPrefix, SummaryInv
<1>5. ASSUME NEW r \in Request, r.pc \notin Summarising,
             turn' = [turn EXCEPT ![t] = r], UNCHANGED thread
      PROVE  TurnsAreCurrent'
  <2>1. IsCurrent(r)
    BY <1>5 DEF IsCurrent, Summarising
  <2>2. QED BY <1>1, <1>5, <2>1, OthersKeepTurns
<1>6. CASE StoreSummary(t)
  <2>1. [turn[t] EXCEPT !.pc = "ready"] \in Request
    BY <1>1 DEF Request
  <2>2. TurnsAreCurrent'
    BY <1>1, <1>5, <1>6, <2>1 DEF StoreSummary, Step, TypeInv, TypeOK, Summarising, Request
  <2>3. QED BY <1>1, <1>6, <2>2, StoredCovers DEF SummaryInv
<1>7. CASE SkipSummary(t)
  <2>1. [turn[t] EXCEPT !.pc = "ready"] \in Request
    BY <1>1 DEF Request
  <2>2. TurnsAreCurrent'
    BY <1>1, <1>5, <1>7, <2>1 DEF SkipSummary, Step, TypeInv, TypeOK, Summarising, Request
  <2>3. QED BY <1>1, <1>7, <2>2 DEF SkipSummary, SummaryCoversPrefix, SummaryInv
<1>8. CASE Ask(t)
  <2>1. /\ [turn[t] EXCEPT !.pc = "asking"] \in Request
        /\ [turn[t] EXCEPT !.pc = "asking"].pc \notin Summarising
        /\ turn' = [turn EXCEPT ![t] = [turn[t] EXCEPT !.pc = "asking"]]
    BY <1>1, <1>8 DEF Ask, Step, TypeInv, TypeOK, Summarising, Request
  <2>2. TurnsAreCurrent'
    BY <1>1, <1>8, <2>1, GrowthKeepsTurns DEF Ask
  <2>3. QED BY <1>1, <1>8, <2>2, GrowthKeeps DEF Ask, SummaryInv
<1>9. CASE Think(t)
  <2>1. turn'[t] \in Request /\ turn'[t].pc = "thought"
    <3>1. turn' \in [Turn -> Request]
      BY <1>9, TurnStepType DEF TurnStep, TypeInv, TypeOK
    <3>2. turn'[t].pc = "thought"
      BY <1>1, <1>9 DEF Think, TypeInv, TypeOK, Request
    <3>3. QED BY <3>1, <3>2
  <2>2. turn' = [turn EXCEPT ![t] = turn'[t]]
    BY <1>9 DEF Think, TypeInv, TypeOK
  <2>3. TurnsAreCurrent'
    BY <1>5, <1>9, <2>1, <2>2 DEF Think, Summarising
  <2>4. QED BY <1>1, <1>9, <2>3 DEF Think, SummaryCoversPrefix, SummaryInv
<1>10. CASE Reply(t)
  <2>1. PICK r \in Request : r.pc \notin Summarising /\ turn' = [turn EXCEPT ![t] = r]
    <3>1. CASE turn' = [turn EXCEPT ![t] = Idle]
      BY <3>1, IdleType DEF Summarising
    <3>2. CASE turn' = [turn EXCEPT ![t].pc = "asking", ![t].known = {}]
      <4>1. [turn[t] EXCEPT !.pc = "asking", !.known = {}] \in Request
        BY <1>1 DEF Request
      <4>2. QED BY <1>1, <3>2, <4>1 DEF Summarising, Request, TypeInv, TypeOK
    <3>3. QED BY <1>10, <3>1, <3>2 DEF Reply
  <2>2. TurnsAreCurrent'
    BY <1>1, <1>10, <2>1, GrowthKeepsTurns DEF Reply
  <2>3. QED BY <1>1, <1>10, <2>2, GrowthKeeps DEF Reply, SummaryInv
<1>11. CASE ReplyFails(t)
  BY <1>1, <1>5, <1>11, IdleType DEF ReplyFails, SummaryCoversPrefix, Summarising, SummaryInv
<1>12. CASE Stop(t)
  <2> DEFINE r == [turn[t] EXCEPT !.stopped = TRUE]
  <2>1. /\ turn' = [turn EXCEPT ![t] = r]
        /\ UNCHANGED <<thread, room>>
    BY <1>12 DEF Stop, TypeInv, TypeOK
  <2>2. /\ r \in Request
        /\ r.pc = turn[t].pc
        /\ r.list = turn[t].list
        /\ r.torn = turn[t].torn
        /\ r.seen = turn[t].seen
    BY <1>1 DEF Request
  <2>3. TurnsAreCurrent'
    <3> HIDE DEF r
    <3>1. IsCurrent(r)
      BY <1>1, <2>2 DEF IsCurrent
    <3>2. QED BY <1>1, <2>1, <2>2, <3>1, OthersKeepTurns
  <2>4. QED BY <1>1, <2>1, <2>3 DEF SummaryCoversPrefix, SummaryInv
<1>13. CASE StoppedTurnEnds(t)
  BY <1>1, <1>5, <1>13, IdleType DEF StoppedTurnEnds, SummaryCoversPrefix, Summarising, SummaryInv
<1>14. QED
  BY <1>2, <1>3, <1>4, <1>6, <1>7, <1>8, <1>9, <1>10, <1>11, <1>12, <1>13 DEF TurnStep

(* What a truncation cuts of a summary, or of a list, it marks as torn. *)
LEMMA CutKeepsSummary ==
    ASSUME TypeInv, SummaryInv, RemoveMessages
    PROVE  SummaryInv'
<1>1. PICK i \in 1..Len(thread) :
         /\ thread' = SubSeq(thread, 1, i - 1)
         /\ room' = [room EXCEPT !.torn = @ \/ (room.count > 0 /\ room.count + Keep >= i)]
         /\ turn' = [t \in Turn |->
                       [turn[t] EXCEPT !.torn = @ \/ (/\ turn[t].pc \in Summarising
                                                     /\ Len(turn[t].list) >= i)]]
  BY DEF RemoveMessages
<1>2. /\ thread' \in Seq(Message)
      /\ Len(thread) \in Nat
      /\ Len(thread') = i - 1
      /\ \A j \in 1..(i - 1) : thread'[j] = thread[j]
  BY <1>1, SubSeqProperties, ElementOfSeq DEF TypeInv, TypeOK
<1>3. ASSUME NEW t \in Turn PROVE IsCurrent(turn[t])'
  <2>1. /\ turn[t] \in Request
        /\ turn[t].torn \in BOOLEAN
        /\ Len(turn[t].list) \in Nat
        /\ IsCurrent(turn[t])
    BY DEF TypeInv, TypeOK, Request, SummaryInv, TurnsAreCurrent
  <2>2. /\ turn'[t].pc = turn[t].pc
        /\ turn'[t].list = turn[t].list
        /\ turn'[t].seen = turn[t].seen
    BY <1>1, <2>1 DEF Request
  <2>5. ASSUME ~ turn'[t].torn
        PROVE  ~ turn[t].torn /\ (turn[t].pc \in Summarising => Len(turn[t].list) < i)
    <3> DEFINE hit == turn[t].pc \in Summarising /\ Len(turn[t].list) >= i
    <3>1. turn'[t] = [turn[t] EXCEPT !.torn = turn[t].torn \/ hit]
      BY <1>1, <2>1
    <3>2. turn'[t].torn = (turn[t].torn \/ hit)
      <4> HIDE DEF hit
      <4> QED BY <2>1, <3>1 DEF Request
    <3>3. ~ turn[t].torn /\ ~ hit
      BY <2>5, <3>2
    <3>4. QED BY <2>1, <3>3
  <2>3. ASSUME turn[t].pc \in Summarising, ~ turn'[t].torn
        PROVE  IsPrefixOfThread(turn[t].list)'
    <3>1. Len(turn[t].list) < i /\ IsPrefixOfThread(turn[t].list)
      BY <2>1, <2>3, <2>5 DEF IsCurrent
    <3>2. QED BY <1>2, <2>1, <2>2, <3>1 DEF IsPrefixOfThread
  <2>4. QED BY <2>1, <2>2, <2>3, <2>5 DEF IsCurrent, Boundary
<1>4. SummaryCoversPrefix'
  <2> SUFFICES ASSUME ~ room'.torn
               PROVE  /\ room'.count > 0 => room'.count + Keep <= Len(thread')
                      /\ room'.summary = {thread'[j].id : j \in 1..room'.count}
    BY DEF SummaryCoversPrefix
  <2>1. room.count \in Nat
    BY DEF TypeInv, TypeOK, Room
  <2>2. /\ room'.count = room.count
        /\ room'.summary = room.summary
        /\ ~ (room.torn \/ (room.count > 0 /\ room.count + Keep >= i))
    BY <1>1 DEF TypeInv, TypeOK, Room
  <2>7. ~ room.torn /\ (room.count > 0 => room.count + Keep < i)
    BY <2>1, <2>2
  <2>3. \A j \in 1..room.count : thread'[j] = thread[j]
    BY <1>2, <2>1, <2>7
  <2>4. {thread'[j].id : j \in 1..room.count} = {thread[j].id : j \in 1..room.count}
    BY <2>3
  <2>5. room.summary = {thread[j].id : j \in 1..room.count}
    BY <2>7 DEF SummaryInv, SummaryCoversPrefix
  <2>6. QED BY <1>2, <2>1, <2>2, <2>4, <2>5, <2>7
<1>5. QED BY <1>3, <1>4 DEF SummaryInv, TurnsAreCurrent

(* However many turns summarise at the same time and overwrite each other's *)
(* summary, and whenever a truncation comes, the row's summary is that of   *)
(* exactly the first summarized_message_count messages, unless a truncation *)
(* has cut what it was made from.  (conversation_summarizer.py:60-86)       *)
THEOREM SummaryIsKept == Spec => []SummaryCoversPrefix
<1>1. Init => SummaryInv
  BY IdleType, EmptySeq DEF Init, SummaryInv, TurnsAreCurrent, IsCurrent, Summarising,
     SummaryCoversPrefix, NoSummary
<1>2. TypeInv /\ SummaryInv /\ [Next]_vars => SummaryInv'
  <2> SUFFICES ASSUME TypeInv, SummaryInv, [Next]_vars PROVE SummaryInv'
    OBVIOUS
  <2>1. ASSUME NEW t \in Turn, TurnStep(t) PROVE SummaryInv'
    BY <2>1, TurnStepKeepsSummary
  <2>2. CASE RemoveMessages
    BY <2>2, CutKeepsSummary
  <2>3. ASSUME UNCHANGED <<thread, turn>> PROVE TurnsAreCurrent'
    BY <2>3 DEF SummaryInv, TurnsAreCurrent, IsCurrent, IsPrefixOfThread, Boundary
  <2>4. CASE ClearSummary
    BY <2>3, <2>4 DEF ClearSummary, SummaryInv, SummaryCoversPrefix, NoSummary
  <2>5. CASE TruncationFails
    BY <2>3, <2>5 DEF TruncationFails, SummaryInv, SummaryCoversPrefix
  <2>6. CASE UNCHANGED vars
    BY <2>3, <2>6 DEF vars, SummaryInv, SummaryCoversPrefix
  <2>7. QED BY <2>1, <2>2, <2>4, <2>5, <2>6 DEF Next
<1>3. SummaryInv => SummaryCoversPrefix
  BY DEF SummaryInv
<1>4. QED BY <1>1, <1>2, <1>3, TypeInvariance, PTL DEF Spec

=============================================================================
