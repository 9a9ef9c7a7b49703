-------------------------- MODULE ThreadRunsProofs --------------------------
(***************************************************************************)
(* What TLAPS proves of ThreadRuns, for any number of requests, threads,   *)
(* users and keys, any number of chunks and any faults.                    *)
(***************************************************************************)
EXTENDS ThreadRuns, TLAPS

-----------------------------------------------------------------------------
RequestStep(r) == Admission(r) \/ Submission(r) \/ Execution(r) \/ Streaming(r) \/ Crash(r)

(* Where a request of either kind can be, and until when it has no row *)
PlacedAt(r) ==
    /\ req[r].pc \in {"key", "lock", "blocked", "asked"} => IsJob(r) /\ KeyOf(r) # None
    /\ req[r].pc \in {"violated", "failing", "lookup", "meta", "unstarted"} => IsJob(r)
    /\ req[r].pc \in {"streaming", "clearing", "flush", "delete"} => ~ IsJob(r)
    /\ req[r].pc \in {"new", "key", "lock", "blocked", "asked", "begin", "insert",
                      "streaming", "clearing", "flush"} => job[r].status = "none"
    /\ req[r].pc \in {"upsert", "question"} => (IsJob(r) <=> job[r].status # "none")
    /\ req[r].pc \in {"meta", "unstarted", "delete"} => job[r].status # "none"
    /\ req[r].pc = "insert" => req[r].turn > 0
    /\ ~ IsJob(r) /\ req[r].pc \in {"flush", "begin", "insert", "delete"} => req[r].finished
    /\ buffer[r] <= req[r].streamed
    /\ r \in task => job[r].status # "none"

Placed == \A r \in Request : PlacedAt(r)

LEMMA PcNames ==
    /\ \A pc \in {"new", "key", "lock", "blocked", "asked", "begin", "insert", "violated",
                  "failing", "lookup", "upsert", "question", "meta", "unstarted"} : pc \in Pc
    /\ \A pc \in {"streaming", "clearing", "flush", "delete", "answered"} : pc \in Pc
  BY DEF Pc, Inserting, Flushing

LEMMA OrderType ==
    ASSUME TypeOK, NEW r \in Request
    PROVE  /\ ThreadOf(r) \in Thread
           /\ UserOf(r) \in User
           /\ KeyOf(r) \in Key \union {None}
           /\ IsJob(r) \in BOOLEAN
           /\ ~ IsJob(r) => KeyOf(r) = None
           /\ None \notin Request \union Key \union User
  BY ConstantsAssumption DEF TypeOK, Order, ThreadOf, UserOf, KeyOf, IsJob

LEMMA AnswerType ==
    ASSUME TypeOK, NEW r \in Request, NEW found \in SUBSET Request, AnswerDuplicate(r, found)
    PROVE  req' \in [Request -> Handler]
<1>1. PICK s \in Request \union {None} :
         req' = [req EXCEPT ![r] = [req[r] EXCEPT !.pc = "answered", !.told = s]]
  BY DEF AnswerDuplicate, Visible, TypeOK
<1>2. [req[r] EXCEPT !.pc = "answered", !.told = s] \in Handler
  BY PcNames DEF TypeOK, Handler
<1>3. QED BY <1>1, <1>2 DEF TypeOK

LEMMA InsertRowType ==
    ASSUME TypeOK, NEW r \in Request, InsertRow(r), req[r].turn > 0
    PROVE  /\ job' \in [Request -> Row]
           /\ \A s \in Request : job'[s].status # "none" => job'[s].turn > 0
           /\ job'[r].status = "pending" /\ job'[r].turn = req[r].turn
  BY ConstantsAssumption DEF InsertRow, TypeOK, Handler, Row, Active

LEMMA FailRowType ==
    ASSUME TypeOK, NEW r \in Request, FailRow(r)
    PROVE  /\ job' \in [Request -> Row]
           /\ \A s \in Request : job'[s].status # "none" => job'[s].turn > 0
  BY DEF FailRow, TypeOK, Row, Active, Ended

LEMMA TransferType ==
    ASSUME TypeOK, NEW r \in Request, NEW status \in Ended, NEW chunks \in 0..MaxChunk,
           Transfer(r, status, chunks)
    PROVE  /\ job' \in [Request -> Row]
           /\ \A s \in Request : job'[s].status # "none" => job'[s].turn > 0
           /\ (job'[r].status = "none") <=> (job[r].status = "none")
           /\ chat' \in [Thread -> ThreadRow]
<1>1. ThreadOf(r) \in Thread
  BY OrderType
<1>2. CASE job[r].status \in Active
  <2>1. job' = [job EXCEPT ![r].status = status, ![r].chunks = chunks]
    BY <1>2 DEF Transfer
  <2>2. /\ job' \in [Request -> Row]
        /\ \A s \in Request : job'[s].status # "none" => job'[s].turn > 0
        /\ (job'[r].status = "none") <=> (job[r].status = "none")
    BY <1>2, <2>1 DEF TypeOK, Row, Active, Ended
  <2>3. chat' \in [Thread -> ThreadRow]
    BY <1>1, <1>2 DEF Transfer, TypeOK, ThreadRow, Ended
  <2>4. QED BY <2>2, <2>3
<1>3. CASE job[r].status \notin Active
  BY <1>3 DEF Transfer, TypeOK
<1>4. QED BY <1>2, <1>3

LEMMA CommitRunType ==
    ASSUME TypeOK, NEW r \in Request, CommitRun(r), req[r].turn > 0
    PROVE  /\ job' \in [Request -> Row]
           /\ \A s \in Request : job'[s].status # "none" => job'[s].turn > 0
           /\ chat' \in [Thread -> ThreadRow]
<1>1. ThreadOf(r) \in Thread
  BY OrderType
<1>2. /\ job' \in [Request -> Row]
      /\ \A s \in Request : job'[s].status # "none" => job'[s].turn > 0
  BY DEF CommitRun, TypeOK, Handler, Row, Ended
<1>3. chat' \in [Thread -> ThreadRow]
  BY <1>1 DEF CommitRun, TypeOK, ThreadRow, Ended
<1>4. QED BY <1>2, <1>3

LEMMA HandlerStep ==
    ASSUME TypeOK, Placed, NEW r \in Request, RequestStep(r), LastTurn(ThreadOf(r)) \in Nat
    PROVE  req' \in [Request -> Handler]
<1>0. /\ req[r] \in Handler /\ KeyOf(r) \in Key \union {None} /\ MaxChunk \in Nat
      /\ IsJob(r) \in BOOLEAN
      /\ req \in [Request -> Handler] /\ keyLock \in [Key -> Request \union {None}]
      /\ buffer \in [Request -> 0..MaxChunk]
  BY OrderType, ConstantsAssumption DEF TypeOK
<1> USE <1>0, PcNames DEF Handler
<1>1. CASE CheckOwner(r)
  BY <1>1 DEF CheckOwner, Step
<1>2. CASE CheckKey(r)
  BY <1>2 DEF CheckKey, AnswerDuplicate, Visible, WithKey, Stored
<1>3. CASE AcquireLock(r)
  BY <1>3 DEF AcquireLock, Step
<1>4. CASE ReadLock(r)
  <2>1. keyLock[KeyOf(r)] \in Request \union {None}
    BY <1>4 DEF ReadLock, Placed, PlacedAt
  <2>2. QED BY <1>4, <2>1 DEF ReadLock
<1>5. CASE AnswerBlocked(r)
  BY <1>5, AnswerType DEF AnswerBlocked, Stored
<1>6. CASE AdmissionFails(r)
  BY <1>6 DEF AdmissionFails, Fault
<1>7. CASE TakeTurn(r)
  BY <1>7 DEF TakeTurn, Refused
<1>8. CASE InsertJob(r)
  BY <1>8 DEF InsertJob, InsertRow, Step, Unlock
<1>9. CASE InsertJobFails(r)
  BY <1>9 DEF InsertJobFails, InsertRow, Unlock, Caught, Uncaught, Holds, Fault
<1>10. CASE UpsertThread(r)
  BY <1>10 DEF UpsertThread, ShowPending, Step
<1>11. CASE InsertQuestion(r)
  BY <1>11 DEF InsertQuestion, Step
<1>12. CASE BookkeepingFails(r)
  BY <1>12 DEF BookkeepingFails, ShowPending, Caught, Uncaught, Holds, Fault
<1>13. CASE StartTask(r)
  BY <1>13 DEF StartTask, Step
<1>14. CASE MetaFails(r)
  BY <1>14 DEF MetaFails, Step, Fault
<1>15. CASE FailUnstarted(r)
  BY <1>15 DEF FailUnstarted, FailRow, Uncaught, Holds, Step, Fault
<1>16. CASE GiveUp(r)
  BY <1>16 DEF GiveUp, Release, Holds, Step, Fault
<1>17. CASE LookUp(r)
  BY <1>17, AnswerType DEF LookUp, WithKey, Stored
<1>18. CASE TaskEnds(r)
  BY <1>18 DEF TaskEnds, Transfer
<1>19. CASE TaskFails(r)
  BY <1>19 DEF TaskFails, FailRow, Fault
<1>20. CASE Reap(r)
  BY <1>20 DEF Reap, Transfer
<1>21. CASE Retry(r)
  BY <1>21 DEF Retry
<1>22. CASE StreamChunk(r)
  BY <1>22 DEF StreamChunk
<1>23. CASE FinishStream(r)
  BY <1>23 DEF FinishStream
<1>24. CASE StreamFails(r)
  BY <1>24 DEF StreamFails, Step
<1>25. CASE Leave(r)
  BY <1>25 DEF Leave
<1>26. CASE ClearBuffer(r)
  BY <1>26 DEF ClearBuffer, Step, Fault
<1>27. CASE ReadBuffer(r)
  BY <1>27 DEF ReadBuffer
<1>28. CASE StoreRun(r)
  BY <1>28 DEF StoreRun, CommitRun, Step, Unlock
<1>29. CASE FlushFails(r)
  BY <1>29 DEF FlushFails, CommitRun, Unlock, Fault
<1>30. CASE DeleteBuffer(r)
  BY <1>30 DEF DeleteBuffer, Step
<1>31. CASE ExpireBuffer(r)
  BY <1>31 DEF ExpireBuffer, Fault
<1>32. CASE Crash(r)
  BY <1>32 DEF Crash, Holds, Fault
<1>33. QED
  BY <1>1, <1>2, <1>3, <1>4, <1>5, <1>6, <1>7, <1>8, <1>9, <1>10, <1>11, <1>12, <1>13,
     <1>14, <1>15, <1>16, <1>17, <1>18, <1>19, <1>20, <1>21, <1>22, <1>23, <1>24,
     <1>25, <1>26, <1>27, <1>28, <1>29, <1>30, <1>31, <1>32
  DEF Admission, Submission, Execution, Streaming, RequestStep

LEMMA Locality ==
    ASSUME TypeOK, NEW r \in Request, RequestStep(r)
    PROVE  /\ order' = order
           /\ \A s \in Request \ {r} :
                 /\ req'[s] = req[s]
                 /\ job'[s] = job[s]
                 /\ buffer'[s] = buffer[s]
                 /\ s \in task' <=> s \in task
<1> USE DEF TypeOK
<1>1. CASE CheckOwner(r)
  BY <1>1 DEF CheckOwner, Step
<1>2. CASE CheckKey(r)
  BY <1>2 DEF CheckKey, AnswerDuplicate, Visible, WithKey, Stored
<1>3. CASE AcquireLock(r)
  BY <1>3 DEF AcquireLock, Step
<1>4. CASE ReadLock(r)
  BY <1>4 DEF ReadLock
<1>5. CASE AnswerBlocked(r)
  BY <1>5 DEF AnswerBlocked, AnswerDuplicate, Visible, Stored
<1>6. CASE AdmissionFails(r)
  BY <1>6 DEF AdmissionFails, Fault
<1>7. CASE TakeTurn(r)
  BY <1>7 DEF TakeTurn, Refused
<1>8. CASE InsertJob(r)
  BY <1>8 DEF InsertJob, InsertRow, Step, Unlock
<1>9. CASE InsertJobFails(r)
  BY <1>9 DEF InsertJobFails, InsertRow, Unlock, Caught, Uncaught, Holds, Fault
<1>10. CASE UpsertThread(r)
  BY <1>10 DEF UpsertThread, ShowPending, Step
<1>11. CASE InsertQuestion(r)
  BY <1>11 DEF InsertQuestion, Step
<1>12. CASE BookkeepingFails(r)
  BY <1>12 DEF BookkeepingFails, ShowPending, Caught, Uncaught, Holds, Fault
<1>13. CASE StartTask(r)
  BY <1>13 DEF StartTask, Step
<1>14. CASE MetaFails(r)
  BY <1>14 DEF MetaFails, Step, Fault
<1>15. CASE FailUnstarted(r)
  BY <1>15 DEF FailUnstarted, FailRow, Uncaught, Holds, Step, Fault
<1>16. CASE GiveUp(r)
  BY <1>16 DEF GiveUp, Release, Holds, Step, Fault
<1>17. CASE LookUp(r)
  BY <1>17 DEF LookUp, AnswerDuplicate, Visible, WithKey, Stored
<1>18. CASE TaskEnds(r)
  BY <1>18 DEF TaskEnds, Transfer
<1>19. CASE TaskFails(r)
  BY <1>19 DEF TaskFails, FailRow, Fault
<1>20. CASE Reap(r)
  BY <1>20 DEF Reap, Transfer
<1>21. CASE Retry(r)
  BY <1>21 DEF Retry
<1>22. CASE StreamChunk(r)
  BY <1>22 DEF StreamChunk
<1>23. CASE FinishStream(r)
  BY <1>23 DEF FinishStream
<1>24. CASE StreamFails(r)
  BY <1>24 DEF StreamFails, Step
<1>25. CASE Leave(r)
  BY <1>25 DEF Leave
<1>26. CASE ClearBuffer(r)
  BY <1>26 DEF ClearBuffer, Step, Fault
<1>27. CASE ReadBuffer(r)
  BY <1>27 DEF ReadBuffer
<1>28. CASE StoreRun(r)
  BY <1>28 DEF StoreRun, CommitRun, Step, Unlock
<1>29. CASE FlushFails(r)
  BY <1>29 DEF FlushFails, CommitRun, Unlock, Fault
<1>30. CASE DeleteBuffer(r)
  BY <1>30 DEF DeleteBuffer, Step
<1>31. CASE ExpireBuffer(r)
  BY <1>31 DEF ExpireBuffer, Fault
<1>32. CASE Crash(r)
  BY <1>32 DEF Crash, Holds, Fault
<1>33. QED
  BY <1>1, <1>2, <1>3, <1>4, <1>5, <1>6, <1>7, <1>8, <1>9, <1>10, <1>11, <1>12, <1>13,
     <1>14, <1>15, <1>16, <1>17, <1>18, <1>19, <1>20, <1>21, <1>22, <1>23, <1>24,
     <1>25, <1>26, <1>27, <1>28, <1>29, <1>30, <1>31, <1>32
  DEF Admission, Submission, Execution, Streaming, RequestStep

LEMMA RowStep ==
    ASSUME TypeOK, Placed, NEW r \in Request, RequestStep(r), req' \in [Request -> Handler]
    PROVE  TypeOK'
<1>0. /\ ThreadOf(r) \in Thread /\ UserOf(r) \in User
      /\ KeyOf(r) \in Key \union {None} /\ IsJob(r) \in BOOLEAN
      /\ MaxChunk \in Nat /\ MaxFaults \in Nat
      /\ req[r].turn \in Nat /\ req[r].read \in 0..MaxChunk
      /\ req[r].pc = "insert" => req[r].turn > 0
  BY OrderType, ConstantsAssumption DEF TypeOK, Handler, Placed, PlacedAt
<1>t. /\ order \in Mix
      /\ job \in [Request -> Row] /\ task \subseteq Request
      /\ \A s \in Request : job[s].status # "none" => job[s].turn > 0
      /\ chat \in [Thread -> ThreadRow]
      /\ advisory \in [Thread -> Request \union {None}]
      /\ keyLock \in [Key -> Request \union {None}]
      /\ buffer \in [Request -> 0..MaxChunk] /\ faults \in 0..MaxFaults
  BY DEF TypeOK
<1> SUFFICES
      /\ order' \in Mix
      /\ job' \in [Request -> Row] /\ task' \subseteq Request
      /\ \A s \in Request : job'[s].status # "none" => job'[s].turn > 0
      /\ chat' \in [Thread -> ThreadRow]
      /\ advisory' \in [Thread -> Request \union {None}]
      /\ keyLock' \in [Key -> Request \union {None}]
      /\ buffer' \in [Request -> 0..MaxChunk] /\ faults' \in 0..MaxFaults
  BY DEF TypeOK
<1> USE <1>0, <1>t DEF Row, ThreadRow, Active, Ended
<1>1. CASE CheckOwner(r)
  BY <1>1 DEF CheckOwner, Step
<1>2. CASE CheckKey(r)
  BY <1>2 DEF CheckKey, AnswerDuplicate, Visible, WithKey, Stored
<1>3. CASE AcquireLock(r)
  BY <1>3 DEF AcquireLock, Step
<1>4. CASE ReadLock(r)
  BY <1>4 DEF ReadLock
<1>5. CASE AnswerBlocked(r)
  BY <1>5 DEF AnswerBlocked, AnswerDuplicate, Visible, Stored
<1>6. CASE AdmissionFails(r)
  BY <1>6 DEF AdmissionFails, Fault
<1>7. CASE TakeTurn(r)
  BY <1>7 DEF TakeTurn, Refused
<1>8. CASE InsertJob(r)
  BY <1>8, InsertRowType DEF InsertJob, Step, Unlock
<1>9. CASE InsertJobFails(r)
  BY <1>9, InsertRowType DEF InsertJobFails, Unlock, Fault
<1>10. CASE UpsertThread(r)
  BY <1>10 DEF UpsertThread, ShowPending, Step
<1>11. CASE InsertQuestion(r)
  BY <1>11 DEF InsertQuestion, Step
<1>12. CASE BookkeepingFails(r)
  BY <1>12 DEF BookkeepingFails, ShowPending, Caught, Uncaught, Holds, Fault
<1>13. CASE StartTask(r)
  BY <1>13 DEF StartTask, Step
<1>14. CASE MetaFails(r)
  BY <1>14 DEF MetaFails, Step, Fault
<1>15. CASE FailUnstarted(r)
  BY <1>15, FailRowType DEF FailUnstarted, Fault
<1>16. CASE GiveUp(r)
  BY <1>16 DEF GiveUp, Release, Holds, Step, Fault
<1>17. CASE LookUp(r)
  BY <1>17 DEF LookUp, AnswerDuplicate, Visible, WithKey, Stored
<1>18. CASE TaskEnds(r)
  BY <1>18, TransferType DEF TaskEnds, Ended
<1>19. CASE TaskFails(r)
  BY <1>19, FailRowType DEF TaskFails, Fault
<1>20. CASE Reap(r)
  BY <1>20, TransferType DEF Reap, Ended
<1>21. CASE Retry(r)
  BY <1>21 DEF Retry
<1>22. CASE StreamChunk(r)
  <2>1. req[r].streamed \in 0..MaxChunk /\ buffer[r] \in 0..MaxChunk
    BY DEF TypeOK, Handler
  <2>2. buffer[r] + 1 \in 0..MaxChunk
    BY <1>22, <2>1 DEF StreamChunk, Placed, PlacedAt
  <2>3. QED BY <1>22, <2>2 DEF StreamChunk
<1>23. CASE FinishStream(r)
  BY <1>23 DEF FinishStream
<1>24. CASE StreamFails(r)
  BY <1>24 DEF StreamFails, Step
<1>25. CASE Leave(r)
  BY <1>25 DEF Leave
<1>26. CASE ClearBuffer(r)
  BY <1>26 DEF ClearBuffer, Step, Fault
<1>27. CASE ReadBuffer(r)
  BY <1>27 DEF ReadBuffer
<1>28. CASE StoreRun(r)
  BY <1>28, CommitRunType DEF StoreRun, Step, Unlock
<1>29. CASE FlushFails(r)
  BY <1>29, CommitRunType DEF FlushFails, Unlock, Fault
<1>30. CASE DeleteBuffer(r)
  BY <1>30 DEF DeleteBuffer, Step
<1>31. CASE ExpireBuffer(r)
  BY <1>31 DEF ExpireBuffer, Fault
<1>32. CASE Crash(r)
  BY <1>32 DEF Crash, Holds, Fault
<1>33. QED
  BY <1>1, <1>2, <1>3, <1>4, <1>5, <1>6, <1>7, <1>8, <1>9, <1>10, <1>11, <1>12, <1>13,
     <1>14, <1>15, <1>16, <1>17, <1>18, <1>19, <1>20, <1>21, <1>22, <1>23, <1>24,
     <1>25, <1>26, <1>27, <1>28, <1>29, <1>30, <1>31, <1>32
  DEF Admission, Submission, Execution, Streaming, RequestStep

LEMMA PlacedStep ==
    ASSUME TypeOK, Placed, NEW r \in Request, RequestStep(r), LastTurn(ThreadOf(r)) \in Nat
    PROVE  Placed'
<1>0. /\ KeyOf(r) = KeyOf(r)' /\ IsJob(r) = IsJob(r)'
  BY Locality DEF KeyOf, IsJob
<1>h. /\ req \in [Request -> Handler] /\ req[r] \in Handler
      /\ job \in [Request -> Row] /\ job[r] \in Row
  BY DEF TypeOK
<1>b. buffer \in [Request -> 0..MaxChunk] /\ MaxChunk \in Nat
  BY ConstantsAssumption DEF TypeOK
<1> SUFFICES PlacedAt(r)'
  BY Locality DEF Placed, PlacedAt, KeyOf, IsJob
<1> HIDE DEF TypeOK
<1>p. PlacedAt(r)
  BY DEF Placed
<1> USE <1>0, <1>h, <1>p, <1>b DEF PlacedAt, Handler, Row, Active, Ended
<1>1. CASE CheckOwner(r)
  <2>1. job' = job /\ buffer' = buffer /\ task' = task
        /\ job[r].status = "none"
    BY <1>1 DEF CheckOwner, Step
  <2>2. \/ req'[r].pc = "answered"
        \/ req'[r].pc = "upsert" /\ ~ IsJob(r)
        \/ req'[r].pc = "begin" /\ IsJob(r)
        \/ req'[r].pc = "key" /\ IsJob(r) /\ KeyOf(r) # None
    BY <1>1 DEF CheckOwner, Step
  <2>3. req'[r].streamed = req[r].streamed
    BY <1>1 DEF CheckOwner, Step
  <2>4. QED BY <2>1, <2>2, <2>3
<1>2. CASE CheckKey(r)
  BY <1>2 DEF CheckKey, AnswerDuplicate, Visible, WithKey, Stored
<1>3. CASE AcquireLock(r)
  BY <1>3 DEF AcquireLock, Step
<1>4. CASE ReadLock(r)
  BY <1>4 DEF ReadLock
<1>5. CASE AnswerBlocked(r)
  BY <1>5 DEF AnswerBlocked, AnswerDuplicate, Visible, Stored
<1>6. CASE AdmissionFails(r)
  BY <1>6 DEF AdmissionFails, Fault
<1>7. CASE TakeTurn(r)
  BY <1>7 DEF TakeTurn, Refused
<1>8. CASE InsertJob(r)
  BY <1>8 DEF InsertJob, InsertRow, Step, Unlock
<1>9. CASE InsertJobFails(r)
  BY <1>9 DEF InsertJobFails, InsertRow, Unlock, Caught, Uncaught, Holds, Fault
<1>10. CASE UpsertThread(r)
  BY <1>10 DEF UpsertThread, ShowPending, Step
<1>11. CASE InsertQuestion(r)
  BY <1>11 DEF InsertQuestion, Step
<1>12. CASE BookkeepingFails(r)
  BY <1>12 DEF BookkeepingFails, ShowPending, Caught, Uncaught, Holds, Fault
<1>13. CASE StartTask(r)
  BY <1>13 DEF StartTask, Step
<1>14. CASE MetaFails(r)
  BY <1>14 DEF MetaFails, Step, Fault
<1>15. CASE FailUnstarted(r)
  BY <1>15 DEF FailUnstarted, FailRow, Uncaught, Holds, Step, Fault
<1>16. CASE GiveUp(r)
  BY <1>16 DEF GiveUp, Release, Holds, Step, Fault
<1>17. CASE LookUp(r)
  BY <1>17 DEF LookUp, AnswerDuplicate, Visible, WithKey, Stored
<1>18. CASE TaskEnds(r)
  BY <1>18, TransferType DEF TaskEnds
<1>19. CASE TaskFails(r)
  BY <1>19 DEF TaskFails, FailRow, Fault
<1>20. CASE Reap(r)
  BY <1>20, TransferType DEF Reap
<1>21. CASE Retry(r)
  BY <1>21 DEF Retry
<1>22. CASE StreamChunk(r)
  BY <1>22 DEF StreamChunk
<1>23. CASE FinishStream(r)
  BY <1>23 DEF FinishStream
<1>24. CASE StreamFails(r)
  BY <1>24 DEF StreamFails, Step
<1>25. CASE Leave(r)
  <2>1. CASE req[r].finished
    <3>1. req'[r].pc = req[r].pc /\ req'[r].turn = req[r].turn /\ req'[r].finished
          /\ req'[r].streamed = req[r].streamed
      BY <1>25, <2>1 DEF Leave
    <3>2. job' = job /\ buffer' = buffer /\ task' = task
      BY <1>25 DEF Leave
    <3>3. QED BY <3>1, <3>2
  <2>2. CASE ~ req[r].finished
    <3>1. req'[r].pc = "clearing" /\ req'[r].streamed = req[r].streamed
      BY <1>25, <2>2 DEF Leave
    <3>2. job' = job /\ buffer' = buffer /\ task' = task /\ req[r].pc = "streaming"
      BY <1>25, <2>2 DEF Leave, Flushing
    <3>3. QED BY <3>1, <3>2
  <2>3. QED BY <2>1, <2>2
<1>26. CASE ClearBuffer(r)
  BY <1>26 DEF ClearBuffer, Step, Fault
<1>27. CASE ReadBuffer(r)
  BY <1>27 DEF ReadBuffer
<1>28. CASE StoreRun(r)
  BY <1>28 DEF StoreRun, CommitRun, Step, Unlock
<1>29. CASE FlushFails(r)
  BY <1>29 DEF FlushFails, CommitRun, Unlock, Fault
<1>30. CASE DeleteBuffer(r)
  BY <1>30 DEF DeleteBuffer, Step
<1>31. CASE ExpireBuffer(r)
  BY <1>31 DEF ExpireBuffer, Fault
<1>32. CASE Crash(r)
  BY <1>32 DEF Crash, Holds, Fault
<1>33. QED
  BY <1>1, <1>2, <1>3, <1>4, <1>5, <1>6, <1>7, <1>8, <1>9, <1>10, <1>11, <1>12, <1>13,
     <1>14, <1>15, <1>16, <1>17, <1>18, <1>19, <1>20, <1>21, <1>22, <1>23, <1>24,
     <1>25, <1>26, <1>27, <1>28, <1>29, <1>30, <1>31, <1>32
  DEF Admission, Submission, Execution, Streaming, RequestStep
-----------------------------------------------------------------------------
(* Numbering and ownership *)

(* What the holder of a thread's advisory lock has read is still so. *)
InsertersAreCurrent ==
    \A t \in Thread, r \in Request : ThreadOf(r) = t /\ req[r].pc = "insert" =>
        /\ advisory[t] = r
        /\ Turns(t) = 1..(req[r].turn - 1)
        /\ \A s \in Runs(t) : UserOf(s) = UserOf(r)

NumberedFromOne == \A t \in Thread : \E m \in Nat : Turns(t) = 1..m

NoNumberTwice ==
    \A r, s \in Stored : ThreadOf(r) = ThreadOf(s) /\ job[r].turn = job[s].turn => r = s

RunInv == NumberedFromOne /\ NoNumberTwice /\ RunsOfOneOwner /\ InsertersAreCurrent

TypeInv == TypeOK /\ Placed /\ RunInv

(* A step of request r leaves its row stored or not, with its number, or it  *)
(* commits the number it has read.                                           *)
SameRow(r) ==
    /\ (job'[r].status = "none") <=> (job[r].status = "none")
    /\ job'[r].turn = job[r].turn

NewRow(r) ==
    /\ job[r].status = "none" /\ job'[r].status # "none"
    /\ job'[r].turn = req[r].turn
    /\ req'[r].pc # "insert"

LEMMA RowKinds ==
    ASSUME TypeOK, Placed, NEW r \in Request, RequestStep(r)
    PROVE  \/ SameRow(r)
           \/ req[r].pc = "insert" /\ NewRow(r)
<1>h. /\ job \in [Request -> Row] /\ job[r] \in Row
      /\ req \in [Request -> Handler] /\ req[r] \in Handler
      /\ req[r].pc = "insert" => job[r].status = "none"
  BY DEF TypeOK, Placed, PlacedAt
<1> USE <1>h DEF Row, Handler, Active, Ended, SameRow, NewRow
<1>1. CASE CheckOwner(r)
  BY <1>1 DEF CheckOwner, Step
<1>2. CASE CheckKey(r)
  BY <1>2 DEF CheckKey, AnswerDuplicate, Visible, WithKey, Stored
<1>3. CASE AcquireLock(r)
  BY <1>3 DEF AcquireLock, Step
<1>4. CASE ReadLock(r)
  BY <1>4 DEF ReadLock
<1>5. CASE AnswerBlocked(r)
  BY <1>5 DEF AnswerBlocked, AnswerDuplicate, Visible, Stored
<1>6. CASE AdmissionFails(r)
  BY <1>6 DEF AdmissionFails, Fault
<1>7. CASE TakeTurn(r)
  BY <1>7 DEF TakeTurn, Refused
<1>8. CASE InsertJob(r)
  BY <1>8 DEF InsertJob, InsertRow, Step, Unlock
<1>9. CASE InsertJobFails(r)
  BY <1>9 DEF InsertJobFails, InsertRow, Unlock, Caught, Uncaught, Holds, Fault
<1>10. CASE UpsertThread(r)
  BY <1>10 DEF UpsertThread, ShowPending, Step
<1>11. CASE InsertQuestion(r)
  BY <1>11 DEF InsertQuestion, Step
<1>12. CASE BookkeepingFails(r)
  BY <1>12 DEF BookkeepingFails, ShowPending, Caught, Uncaught, Holds, Fault
<1>13. CASE StartTask(r)
  BY <1>13 DEF StartTask, Step
<1>14. CASE MetaFails(r)
  BY <1>14 DEF MetaFails, Step, Fault
<1>15. CASE FailUnstarted(r)
  BY <1>15 DEF FailUnstarted, FailRow, Uncaught, Holds, Step, Fault
<1>16. CASE GiveUp(r)
  BY <1>16 DEF GiveUp, Release, Holds, Step, Fault
<1>17. CASE LookUp(r)
  BY <1>17 DEF LookUp, AnswerDuplicate, Visible, WithKey, Stored
<1>18. CASE TaskEnds(r)
  BY <1>18 DEF TaskEnds, Transfer
<1>19. CASE TaskFails(r)
  BY <1>19 DEF TaskFails, FailRow, Fault
<1>20. CASE Reap(r)
  BY <1>20 DEF Reap, Transfer
<1>21. CASE Retry(r)
  BY <1>21 DEF Retry
<1>22. CASE StreamChunk(r)
  BY <1>22 DEF StreamChunk
<1>23. CASE FinishStream(r)
  BY <1>23 DEF FinishStream
<1>24. CASE StreamFails(r)
  BY <1>24 DEF StreamFails, Step
<1>25. CASE Leave(r)
  BY <1>25 DEF Leave
<1>26. CASE ClearBuffer(r)
  BY <1>26 DEF ClearBuffer, Step, Fault
<1>27. CASE ReadBuffer(r)
  BY <1>27 DEF ReadBuffer
<1>28. CASE StoreRun(r)
  BY <1>28 DEF StoreRun, CommitRun, Step, Unlock
<1>29. CASE FlushFails(r)
  BY <1>29 DEF FlushFails, CommitRun, Unlock, Fault
<1>30. CASE DeleteBuffer(r)
  BY <1>30 DEF DeleteBuffer, Step
<1>31. CASE ExpireBuffer(r)
  BY <1>31 DEF ExpireBuffer, Fault
<1>32. CASE Crash(r)
  BY <1>32 DEF Crash, Holds, Fault
<1>33. QED
  BY <1>1, <1>2, <1>3, <1>4, <1>5, <1>6, <1>7, <1>8, <1>9, <1>10, <1>11, <1>12, <1>13,
     <1>14, <1>15, <1>16, <1>17, <1>18, <1>19, <1>20, <1>21, <1>22, <1>23, <1>24,
     <1>25, <1>26, <1>27, <1>28, <1>29, <1>30, <1>31, <1>32
  DEF Admission, Submission, Execution, Streaming, RequestStep

LEMMA AdvisorySteps ==
    ASSUME TypeOK, Placed, NEW r \in Request, RequestStep(r)
    PROVE  /\ req'[r].pc = "insert" =>
                 \/ TakeTurn(r)
                 \/ /\ req[r].pc = "insert" /\ req'[r].turn = req[r].turn
                    /\ advisory' = advisory
           /\ \A t \in Thread : advisory'[t] # advisory[t] =>
                 \/ advisory[t] = r
                 \/ t = ThreadOf(r) /\ (req[r].pc = "insert" \/ advisory[t] = None)
<1>h. /\ req \in [Request -> Handler] /\ req[r] \in Handler
      /\ advisory \in [Thread -> Request \union {None}] /\ ThreadOf(r) \in Thread
      /\ req[r].pc = "insert" => r \notin task
  BY OrderType DEF TypeOK, Placed, PlacedAt
<1> USE <1>h DEF Handler
<1>1. CASE CheckOwner(r)
  BY <1>1 DEF CheckOwner, Step
<1>2. CASE CheckKey(r)
  BY <1>2 DEF CheckKey, AnswerDuplicate, Visible, WithKey, Stored
<1>3. CASE AcquireLock(r)
  BY <1>3 DEF AcquireLock, Step
<1>4. CASE ReadLock(r)
  BY <1>4 DEF ReadLock
<1>5. CASE AnswerBlocked(r)
  BY <1>5 DEF AnswerBlocked, AnswerDuplicate, Visible, Stored
<1>6. CASE AdmissionFails(r)
  BY <1>6 DEF AdmissionFails, Fault
<1>7. CASE TakeTurn(r)
  BY <1>7 DEF TakeTurn
<1>8. CASE InsertJob(r)
  BY <1>8 DEF InsertJob, InsertRow, Step, Unlock
<1>9. CASE InsertJobFails(r)
  BY <1>9 DEF InsertJobFails, InsertRow, Unlock, Caught, Uncaught, Holds, Fault
<1>10. CASE UpsertThread(r)
  BY <1>10 DEF UpsertThread, ShowPending, Step
<1>11. CASE InsertQuestion(r)
  BY <1>11 DEF InsertQuestion, Step
<1>12. CASE BookkeepingFails(r)
  BY <1>12 DEF BookkeepingFails, ShowPending, Caught, Uncaught, Holds, Fault
<1>13. CASE StartTask(r)
  BY <1>13 DEF StartTask, Step
<1>14. CASE MetaFails(r)
  BY <1>14 DEF MetaFails, Step, Fault
<1>15. CASE FailUnstarted(r)
  BY <1>15 DEF FailUnstarted, FailRow, Uncaught, Holds, Step, Fault
<1>16. CASE GiveUp(r)
  BY <1>16 DEF GiveUp, Release, Holds, Step, Fault
<1>17. CASE LookUp(r)
  BY <1>17 DEF LookUp, AnswerDuplicate, Visible, WithKey, Stored
<1>18. CASE TaskEnds(r)
  BY <1>18 DEF TaskEnds, Transfer
<1>19. CASE TaskFails(r)
  BY <1>19 DEF TaskFails, FailRow, Fault
<1>20. CASE Reap(r)
  BY <1>20 DEF Reap, Transfer
<1>21. CASE Retry(r)
  BY <1>21 DEF Retry
<1>22. CASE StreamChunk(r)
  BY <1>22 DEF StreamChunk
<1>23. CASE FinishStream(r)
  BY <1>23 DEF FinishStream
<1>24. CASE StreamFails(r)
  BY <1>24 DEF StreamFails, Step
<1>25. CASE Leave(r)
  BY <1>25 DEF Leave
<1>26. CASE ClearBuffer(r)
  BY <1>26 DEF ClearBuffer, Step, Fault
<1>27. CASE ReadBuffer(r)
  BY <1>27 DEF ReadBuffer
<1>28. CASE StoreRun(r)
  BY <1>28 DEF StoreRun, CommitRun, Step, Unlock
<1>29. CASE FlushFails(r)
  BY <1>29 DEF FlushFails, CommitRun, Unlock, Fault
<1>30. CASE DeleteBuffer(r)
  BY <1>30 DEF DeleteBuffer, Step
<1>31. CASE ExpireBuffer(r)
  BY <1>31 DEF ExpireBuffer, Fault
<1>32. CASE Crash(r)
  BY <1>32 DEF Crash, Holds, Fault
<1>33. QED
  BY <1>1, <1>2, <1>3, <1>4, <1>5, <1>6, <1>7, <1>8, <1>9, <1>10, <1>11, <1>12, <1>13,
     <1>14, <1>15, <1>16, <1>17, <1>18, <1>19, <1>20, <1>21, <1>22, <1>23, <1>24,
     <1>25, <1>26, <1>27, <1>28, <1>29, <1>30, <1>31, <1>32
  DEF Admission, Submission, Execution, Streaming, RequestStep

(* MAX(turn_number) of turns that have no holes *)
LEMMA LastTurnOfNumbered ==
    ASSUME NEW t \in Thread, NEW m \in Nat, Turns(t) = 1..m
    PROVE  LastTurn(t) = m
<1>1. m \in Turns(t) \union {0} /\ \A k \in Turns(t) : k <= m
  OBVIOUS
<1>2. ASSUME NEW n \in Turns(t) \union {0}, \A k \in Turns(t) : k <= n
      PROVE  n = m
  BY <1>2
<1>3. LastTurn(t) \in Turns(t) \union {0} /\ \A k \in Turns(t) : k <= LastTurn(t)
  BY <1>1 DEF LastTurn
<1>4. QED BY <1>2, <1>3

LEMMA LastTurnType ==
    ASSUME NumberedFromOne, NEW t \in Thread
    PROVE  LastTurn(t) \in Nat
  BY LastTurnOfNumbered DEF NumberedFromOne

LEMMA SameRows ==
    ASSUME TypeOK, NEW r \in Request, RequestStep(r), SameRow(r)
    PROVE  /\ Stored' = Stored
           /\ \A t \in Thread : Runs(t)' = Runs(t) /\ Turns(t)' = Turns(t)
           /\ \A s \in Request : job'[s].turn = job[s].turn
           /\ \A s \in Request : ThreadOf(s)' = ThreadOf(s) /\ UserOf(s)' = UserOf(s)
<1>1. \A s \in Request : /\ (job'[s].status = "none") <=> (job[s].status = "none")
                         /\ job'[s].turn = job[s].turn
  BY Locality DEF SameRow
<1>2. order' = order
  BY Locality
<1>3. Stored' = Stored
  BY <1>1 DEF Stored
<1>4. ASSUME NEW t \in Thread PROVE Runs(t)' = Runs(t) /\ Turns(t)' = Turns(t)
  <2>1. Runs(t)' = Runs(t) /\ Runs(t) \subseteq Request
    BY <1>2, <1>3 DEF Runs, ThreadOf, Stored
  <2>2. QED BY <1>1, <2>1 DEF Turns
<1>5. QED BY <1>1, <1>2, <1>3, <1>4 DEF ThreadOf, UserOf

LEMMA OneMoreRow ==
    ASSUME TypeOK, NEW r \in Request, RequestStep(r), NewRow(r)
    PROVE  /\ Stored' = Stored \union {r} /\ r \notin Stored
           /\ \A t \in Thread :
                 IF t = ThreadOf(r)
                 THEN Runs(t)' = Runs(t) \union {r} /\ Turns(t)' = Turns(t) \union {req[r].turn}
                 ELSE Runs(t)' = Runs(t) /\ Turns(t)' = Turns(t)
           /\ \A s \in Stored : job'[s].turn = job[s].turn
           /\ \A s \in Request : ThreadOf(s)' = ThreadOf(s) /\ UserOf(s)' = UserOf(s)
<1>1. \A s \in Request \ {r} : job'[s] = job[s]
  BY Locality
<1>2. order' = order
  BY Locality
<1>3. Stored' = Stored \union {r} /\ r \notin Stored /\ Stored \subseteq Request
  BY <1>1 DEF Stored, NewRow
<1>4. \A t : Runs(t)' = IF t = ThreadOf(r) THEN Runs(t) \union {r} ELSE Runs(t)
  BY <1>2, <1>3 DEF Runs, ThreadOf
<1>5. \A s \in Stored : job'[s].turn = job[s].turn
  BY <1>1, <1>3
<1>6. \A t : Runs(t) \subseteq Stored
  BY DEF Runs
<1>7. ASSUME NEW t \in Thread
      PROVE  Turns(t)' = IF t = ThreadOf(r) THEN Turns(t) \union {req[r].turn} ELSE Turns(t)
  <2>1. \A s \in Runs(t) : job'[s].turn = job[s].turn
    BY <1>5, <1>6
  <2>2. Turns(t)' = {job'[s].turn : s \in Runs(t)'}
    BY DEF Turns
  <2>3. job'[r].turn = req[r].turn
    BY DEF NewRow
  <2>4. QED BY <1>4, <2>1, <2>2, <2>3 DEF Turns
<1>8. QED BY <1>2, <1>3, <1>4, <1>5, <1>7 DEF ThreadOf, UserOf

-----------------------------------------------------------------------------
(* A step preserves the numbering. *)

(* Nobody's step takes the lock from another request that is inserting. *)
LEMMA LockIsKept ==
    ASSUME TypeInv, NEW r \in Request, RequestStep(r),
           NEW t \in Thread, NEW s \in Request \ {r}, ThreadOf(s) = t, req'[s].pc = "insert"
    PROVE  /\ req[s].pc = "insert" /\ req'[s].turn = req[s].turn
           /\ advisory[t] = s /\ advisory'[t] = s
<1>1. req'[s] = req[s]
  BY Locality DEF TypeInv
<1>2. advisory[t] = s
  BY <1>1 DEF TypeInv, RunInv, InsertersAreCurrent
<1>3. s # None
  BY ConstantsAssumption
<1>4. ~ (t = ThreadOf(r) /\ req[r].pc = "insert")
  BY <1>2 DEF TypeInv, RunInv, InsertersAreCurrent
<1>5. advisory'[t] = advisory[t]
  BY <1>2, <1>3, <1>4, AdvisorySteps DEF TypeInv
<1>6. QED BY <1>1, <1>2, <1>5

LEMMA OldRows ==
    ASSUME TypeInv, NEW r \in Request, RequestStep(r), SameRow(r)
    PROVE  RunInv'
<1>1. NumberedFromOne' /\ NoNumberTwice' /\ RunsOfOneOwner'
  BY SameRows DEF TypeInv, RunInv, NumberedFromOne, NoNumberTwice, RunsOfOneOwner, Stored
<1>2. ASSUME NEW t \in Thread, NEW s \in Request, ThreadOf(s)' = t, req'[s].pc = "insert"
      PROVE  /\ advisory'[t] = s
             /\ Turns(t) = 1..(req'[s].turn - 1)
             /\ \A q \in Runs(t) : UserOf(q) = UserOf(s)
  <2>0. ThreadOf(s) = t
    BY <1>2, SameRows DEF TypeInv
  <2>1. CASE s # r
    <3>1. /\ req[s].pc = "insert" /\ req'[s].turn = req[s].turn
          /\ advisory'[t] = s
      BY <1>2, <2>0, <2>1, LockIsKept
    <3>2. QED BY <2>0, <3>1 DEF TypeInv, RunInv, InsertersAreCurrent
  <2>2. CASE s = r /\ TakeTurn(r)
    <3>1. /\ MayOwn(t, UserOf(r)) /\ req'[r].turn = LastTurn(t) + 1
          /\ advisory'[t] = r
      BY <1>2, <2>0, <2>2, PcNames DEF TakeTurn, Refused, TypeInv, TypeOK, Handler
    <3>2. PICK m \in Nat : Turns(t) = 1..m
      BY DEF TypeInv, RunInv, NumberedFromOne
    <3>3. Turns(t) = 1..(req'[r].turn - 1)
      BY <3>1, <3>2, LastTurnOfNumbered
    <3>4. \A q \in Runs(t) : UserOf(q) = UserOf(r)
      BY <3>1 DEF MayOwn, Runs, TypeInv, RunInv, RunsOfOneOwner
    <3>5. QED BY <2>2, <3>1, <3>3, <3>4
  <2>3. CASE s = r /\ req[r].pc = "insert" /\ req'[r].turn = req[r].turn /\ advisory' = advisory
    BY <2>0, <2>3 DEF TypeInv, RunInv, InsertersAreCurrent
  <2>4. QED BY <1>2, <2>1, <2>2, <2>3, AdvisorySteps DEF TypeInv
<1>3. InsertersAreCurrent'
  BY <1>2, SameRows DEF TypeInv, InsertersAreCurrent, Runs, Stored
<1>4. QED BY <1>1, <1>3 DEF RunInv

LEMMA NewRows ==
    ASSUME TypeInv, NEW r \in Request, RequestStep(r), req[r].pc = "insert", NewRow(r)
    PROVE  RunInv'
<1> DEFINE u == ThreadOf(r)
           k == req[r].turn
<1>0. /\ u \in Thread /\ k \in Nat \ {0}
      /\ advisory[u] = r /\ Turns(u) = 1..(k - 1)
      /\ \A s \in Runs(u) : UserOf(s) = UserOf(r)
  <2>1. u \in Thread
    BY OrderType DEF TypeInv
  <2>2. k \in Nat \ {0}
    BY DEF TypeInv, TypeOK, Handler, Placed, PlacedAt
  <2>3. QED BY <2>1, <2>2 DEF TypeInv, RunInv, InsertersAreCurrent
<1>1. NumberedFromOne'
  <2>1. ASSUME NEW t \in Thread PROVE \E m \in Nat : Turns(t)' = 1..m
    <3>1. CASE t = u
      <4>1. Turns(t)' = (1..(k - 1)) \union {k}
        BY <1>0, <3>1, OneMoreRow DEF TypeInv
      <4>2. (1..(k - 1)) \union {k} = 1..k
        BY <1>0
      <4>3. QED BY <1>0, <4>1, <4>2
    <3>2. CASE t # u
      BY <3>2, OneMoreRow DEF TypeInv, RunInv, NumberedFromOne
    <3>3. QED BY <3>1, <3>2
  <2>2. QED BY <2>1 DEF NumberedFromOne
<1>2. NoNumberTwice'
  <2>1. \A s \in Stored : ThreadOf(s) = u => job[s].turn # k
    <3>1. ASSUME NEW s \in Stored, ThreadOf(s) = u PROVE job[s].turn \in 1..(k - 1)
      BY <1>0, <3>1 DEF Turns, Runs
    <3>2. QED BY <1>0, <3>1
  <2>2. /\ Stored' = Stored \union {r} /\ r \notin Stored
        /\ \A s \in Stored : job'[s].turn = job[s].turn
        /\ \A s \in Request : ThreadOf(s)' = ThreadOf(s)
        /\ job'[r].turn = k /\ Stored \subseteq Request
    BY OneMoreRow DEF TypeInv, NewRow, Stored
  <2>3. QED BY <2>1, <2>2 DEF TypeInv, RunInv, NoNumberTwice
<1>3. RunsOfOneOwner'
  <2>1. \A s \in Stored : ThreadOf(s) = u => UserOf(s) = UserOf(r)
    BY <1>0 DEF Runs
  <2>2. QED BY <2>1, OneMoreRow DEF TypeInv, RunInv, RunsOfOneOwner, Stored
<1>4. InsertersAreCurrent'
  <2>1. ASSUME NEW t \in Thread, NEW s \in Request, ThreadOf(s)' = t, req'[s].pc = "insert"
        PROVE  /\ advisory'[t] = s
               /\ Turns(t)' = 1..(req'[s].turn - 1)
               /\ \A q \in Runs(t)' : UserOf(q)' = UserOf(s)'
    <3>0. ThreadOf(s) = t /\ s # r
      BY <2>1, OneMoreRow DEF TypeInv, NewRow
    <3>1. /\ req[s].pc = "insert" /\ req'[s].turn = req[s].turn
          /\ advisory[t] = s /\ advisory'[t] = s
      BY <2>1, <3>0, LockIsKept
    <3>2. t # u
      BY <1>0, <3>0, <3>1
    <3>3. Turns(t)' = Turns(t) /\ Runs(t)' = Runs(t) /\ Runs(t) \subseteq Request
      BY <3>2, OneMoreRow DEF TypeInv, Runs, Stored
    <3>4. QED BY <3>0, <3>1, <3>3, OneMoreRow DEF TypeInv, RunInv, InsertersAreCurrent
  <2>2. QED BY <2>1 DEF InsertersAreCurrent
<1>5. QED BY <1>1, <1>2, <1>3, <1>4 DEF RunInv

(* The key's lock expires. *)
LEMMA ExpireLockStep ==
    ASSUME TypeInv, NEW k \in Key, ExpireLock(k)
    PROVE  TypeInv'
<1>1. TypeOK'
  BY ConstantsAssumption DEF TypeInv, TypeOK, ExpireLock, Fault
<1>2. UNCHANGED <<order, req, job, task, advisory, buffer>>
  BY DEF ExpireLock
<1>3. Placed'
  BY <1>2 DEF TypeInv, Placed, PlacedAt, IsJob, KeyOf
<1>4. RunInv'
  BY <1>2 DEF TypeInv, RunInv, NumberedFromOne, NoNumberTwice, RunsOfOneOwner,
              InsertersAreCurrent, Turns, Runs, Stored, ThreadOf, UserOf
<1>5. QED BY <1>1, <1>3, <1>4 DEF TypeInv

LEMMA InvInit ==
    ASSUME Init
    PROVE  TypeInv
<1>1. TypeOK
  BY ConstantsAssumption, PcNames DEF Init, TypeOK, New, Handler, Row, ThreadRow
<1>2. Placed
  <2>1. ASSUME NEW r \in Request
        PROVE  /\ req[r].pc = "new" /\ req[r].streamed = 0
               /\ job[r].status = "none" /\ buffer[r] = 0 /\ r \notin task
    BY DEF Init, New
  <2>2. ASSUME NEW r \in Request PROVE PlacedAt(r)
    BY <2>1 DEF PlacedAt
  <2>3. QED BY <2>2 DEF Placed
<1>3. Stored = {} /\ \A t \in Thread : Runs(t) = {} /\ Turns(t) = {}
  BY DEF Init, Stored, Runs, Turns
<1>4. RunInv
  <2>1. NumberedFromOne
    <3>1. {} = 1..0
      OBVIOUS
    <3>2. QED BY <1>3, <3>1 DEF NumberedFromOne
  <2>2. QED BY <1>3, <2>1 DEF RunInv, NoNumberTwice, RunsOfOneOwner, InsertersAreCurrent, Init, New
<1>5. QED BY <1>1, <1>2, <1>4 DEF TypeInv

LEMMA InvStep ==
    ASSUME TypeInv, [Next]_vars
    PROVE  TypeInv'
<1>1. ASSUME NEW r \in Request, RequestStep(r)
      PROVE  TypeInv'
  <2>1. LastTurn(ThreadOf(r)) \in Nat
    BY OrderType, LastTurnType DEF TypeInv, RunInv
  <2>2. TypeOK'
    BY <1>1, <2>1, HandlerStep, RowStep DEF TypeInv
  <2>3. Placed'
    BY <1>1, <2>1, PlacedStep DEF TypeInv
  <2>4. RunInv'
    BY <1>1, RowKinds, OldRows, NewRows DEF TypeInv
  <2>5. QED BY <2>2, <2>3, <2>4 DEF TypeInv
<1>2. CASE UNCHANGED vars
  <2>1. TypeOK'
    BY <1>2 DEF TypeInv, TypeOK, vars
  <2>2. Placed'
    BY <1>2 DEF TypeInv, Placed, PlacedAt, IsJob, KeyOf, vars
  <2>3. RunInv'
    BY <1>2 DEF TypeInv, RunInv, NumberedFromOne, NoNumberTwice, RunsOfOneOwner,
                InsertersAreCurrent, Turns, Runs, Stored, ThreadOf, UserOf, vars
  <2>4. QED BY <2>1, <2>2, <2>3 DEF TypeInv
<1>3. QED BY <1>1, <1>2, ExpireLockStep DEF Next, RequestStep

-----------------------------------------------------------------------------
LEMMA InvHolds == Spec => []TypeInv
<1>1. Init => TypeInv
  BY InvInit
<1>2. TypeInv /\ [Next]_vars => TypeInv'
  BY InvStep
<1>3. QED BY <1>1, <1>2, PTL DEF Spec

(* No variable leaves its type; in particular MAX(turn_number) always exists. *)
THEOREM RunsTypeCorrect == Spec => []TypeOK
<1>1. TypeInv => TypeOK
  BY DEF TypeInv
<1>2. QED BY <1>1, InvHolds, PTL

(* The runs of a thread are numbered from 1 without holes or repetitions.     *)
(* (job_repository.py: pg_advisory_xact_lock, MAX(turn_number) + 1)           *)
THEOREM TurnNumbersAreDense == Spec => []TurnsAreDense
<1>1. ASSUME TypeInv PROVE TurnsAreDense
  <2>1. ASSUME NEW r \in Stored PROVE 1..job[r].turn \subseteq Turns(ThreadOf(r))
    <3>1. r \in Request /\ ThreadOf(r) \in Thread
      BY <1>1, OrderType DEF Stored, TypeInv
    <3>2. PICK m \in Nat : Turns(ThreadOf(r)) = 1..m
      BY <1>1, <3>1 DEF TypeInv, RunInv, NumberedFromOne
    <3>3. job[r].turn \in 1..m
      BY <3>1, <3>2 DEF Turns, Runs
    <3>4. QED BY <3>2, <3>3
  <2>2. QED BY <1>1, <2>1 DEF TurnsAreDense, TypeInv, RunInv, NoNumberTwice
<1>2. QED BY <1>1, InvHolds, PTL

(* All runs of a thread belong to one user.  (job_repository.py: the owner is *)
(* looked up again under the advisory lock)                                   *)
THEOREM RunsHaveOneOwner == Spec => []RunsOfOneOwner
<1>1. TypeInv => RunsOfOneOwner
  BY DEF TypeInv, RunInv
<1>2. QED BY <1>1, InvHolds, PTL

-----------------------------------------------------------------------------
(* Streams *)

(* What a streamed run has in the buffer, in the flush and in its row *)
StreamAt(r) ==
    ~ IsJob(r) =>
        /\ job[r].status \in {"none", "completed"}
        /\ req[r].pc \in {"new", "upsert", "question", "streaming", "clearing"} =>
              ~ req[r].finished
        /\ ~ req[r].expired =>
              /\ req[r].pc \in {"new", "upsert", "question", "streaming", "flush", "begin",
                                "insert"} => buffer[r] = req[r].streamed
              /\ req[r].pc \in {"begin", "insert"} => req[r].read = req[r].streamed
              /\ req[r].finished /\ job[r].status = "none" => buffer[r] = req[r].streamed
              /\ job[r].status # "none" => job[r].chunks = req[r].streamed

StreamsAreKept == \A r \in Request : StreamAt(r)

LEMMA StreamStep ==
    ASSUME TypeInv, StreamsAreKept, NEW r \in Request, RequestStep(r)
    PROVE  StreamsAreKept'
<1>0. /\ IsJob(r) = IsJob(r)'
      /\ req \in [Request -> Handler] /\ req[r] \in Handler
      /\ job \in [Request -> Row] /\ job[r] \in Row
      /\ buffer \in [Request -> 0..MaxChunk] /\ MaxChunk \in Nat
      /\ PlacedAt(r)
  BY Locality, ConstantsAssumption DEF IsJob, TypeInv, TypeOK, Placed
<1>1. CASE IsJob(r)
  BY <1>0, <1>1, Locality DEF StreamsAreKept, StreamAt, IsJob, TypeInv
<1>2. CASE ~ IsJob(r)
  <2> SUFFICES StreamAt(r)'
    BY Locality DEF StreamsAreKept, StreamAt, IsJob, TypeInv
  <2>s. StreamAt(r)
    BY DEF StreamsAreKept
  <2> USE <1>0, <1>2, <2>s DEF StreamAt, PlacedAt, Handler, Row, Active, Ended
  <2>1. CASE CheckOwner(r)
    BY <2>1 DEF CheckOwner, Step
  <2>2. CASE CheckKey(r)
    BY <2>2 DEF CheckKey, AnswerDuplicate, Visible, WithKey, Stored
  <2>3. CASE AcquireLock(r)
    BY <2>3 DEF AcquireLock, Step
  <2>4. CASE ReadLock(r)
    BY <2>4 DEF ReadLock
  <2>5. CASE AnswerBlocked(r)
    BY <2>5 DEF AnswerBlocked, AnswerDuplicate, Visible, Stored
  <2>6. CASE AdmissionFails(r)
    BY <2>6 DEF AdmissionFails, Fault
  <2>7. CASE TakeTurn(r)
    BY <2>7 DEF TakeTurn, Refused
  <2>8. CASE InsertJob(r)
    BY <2>8 DEF InsertJob, InsertRow, Step, Unlock
  <2>9. CASE InsertJobFails(r)
    BY <2>9 DEF InsertJobFails, InsertRow, Unlock, Caught, Uncaught, Holds, Fault
  <2>10. CASE UpsertThread(r)
    BY <2>10 DEF UpsertThread, ShowPending, Step
  <2>11. CASE InsertQuestion(r)
    BY <2>11 DEF InsertQuestion, Step
  <2>12. CASE BookkeepingFails(r)
    BY <2>12 DEF BookkeepingFails, ShowPending, Caught, Uncaught, Holds, Fault
  <2>13. CASE StartTask(r)
    BY <2>13 DEF StartTask, Step
  <2>14. CASE MetaFails(r)
    BY <2>14 DEF MetaFails, Step, Fault
  <2>15. CASE FailUnstarted(r)
    BY <2>15 DEF FailUnstarted, FailRow, Uncaught, Holds, Step, Fault
  <2>16. CASE GiveUp(r)
    BY <2>16 DEF GiveUp, Release, Holds, Step, Fault
  <2>17. CASE LookUp(r)
    BY <2>17 DEF LookUp, AnswerDuplicate, Visible, WithKey, Stored
  <2>18. CASE TaskEnds(r)
    BY <2>18 DEF TaskEnds, Transfer
  <2>19. CASE TaskFails(r)
    BY <2>19 DEF TaskFails, FailRow, Fault
  <2>20. CASE Reap(r)
    BY <2>20 DEF Reap, Transfer
  <2>21. CASE Retry(r)
    BY <2>21 DEF Retry
  <2>22. CASE StreamChunk(r)
    BY <2>22 DEF StreamChunk
  <2>23. CASE FinishStream(r)
    BY <2>23 DEF FinishStream
  <2>24. CASE StreamFails(r)
    BY <2>24 DEF StreamFails, Step
  <2>25. CASE Leave(r)
    BY <2>25 DEF Leave
  <2>26. CASE ClearBuffer(r)
    BY <2>26 DEF ClearBuffer, Step, Fault
  <2>27. CASE ReadBuffer(r)
    BY <2>27 DEF ReadBuffer
  <2>28. CASE StoreRun(r)
    BY <2>28 DEF StoreRun, CommitRun, Step, Unlock
  <2>29. CASE FlushFails(r)
    BY <2>29 DEF FlushFails, CommitRun, Unlock, Fault
  <2>30. CASE DeleteBuffer(r)
    BY <2>30 DEF DeleteBuffer, Step
  <2>31. CASE ExpireBuffer(r)
    BY <2>31 DEF ExpireBuffer, Fault
  <2>32. CASE Crash(r)
    BY <2>32 DEF Crash, Holds, Fault
  <2>33. QED
    BY <2>1, <2>2, <2>3, <2>4, <2>5, <2>6, <2>7, <2>8, <2>9, <2>10, <2>11, <2>12,
       <2>13, <2>14, <2>15, <2>16, <2>17, <2>18, <2>19, <2>20, <2>21, <2>22, <2>23,
       <2>24, <2>25, <2>26, <2>27, <2>28, <2>29, <2>30, <2>31, <2>32
    DEF Admission, Submission, Execution, Streaming, RequestStep
<1>3. QED BY <1>1, <1>2

LEMMA StreamsInit == Init => StreamsAreKept
BY OrderType DEF Init, StreamsAreKept, StreamAt, New

(* A stream that has ended without an error is in its stored run or still in  *)
(* the buffer, and a stored run holds all its chunks.                         *)
(* (orchestrator_api_router.py: asyncio.shield, is_stream_finished;           *)
(* chunk_flush_service.py: the buffer is deleted after the commit)            *)
THEOREM StreamsAreStored == Spec => []FinishedStreamIsKept
<1>1. TypeInv /\ StreamsAreKept /\ [Next]_vars => StreamsAreKept'
  <2> SUFFICES ASSUME TypeInv, StreamsAreKept, [Next]_vars
               PROVE  StreamsAreKept'
    OBVIOUS
  <2>1. CASE \E r \in Request : RequestStep(r)
    BY <2>1, StreamStep
  <2>2. CASE \E k \in Key : ExpireLock(k)
    BY <2>2 DEF ExpireLock, StreamsAreKept, StreamAt, IsJob
  <2>3. CASE UNCHANGED vars
    BY <2>3 DEF vars, StreamsAreKept, StreamAt, IsJob
  <2>4. QED BY <2>1, <2>2, <2>3 DEF Next, RequestStep
<1>2. StreamsAreKept => FinishedStreamIsKept
  BY DEF StreamsAreKept, StreamAt, FinishedStreamIsKept
<1>3. QED BY <1>1, <1>2, StreamsInit, InvHolds, PTL DEF Spec

-----------------------------------------------------------------------------
(* Locks and duplicates *)

(* Who holds the lock of a key *)
LockAt(k) ==
    LET r == keyLock[k]
    IN  r # None =>
            /\ KeyOf(r) = k
            /\ \/ req[r].pc \in Inserting \union {"violated", "failing"}
               \/ job[r].status # "none"
               \/ req[r].leaks

LocksAreHeld == \A k \in Key : LockAt(k)

(* What a request has been told *)
ToldAt(r) ==
    LET s == req[r].told
    IN  s # None =>
            /\ req[r].pc \in {"asked", "answered"}
            /\ KeyOf(s) = KeyOf(r)
            /\ req[r].pc = "answered" => s \in Stored /\ UserOf(s) = UserOf(r)

ToldAreOwn == \A r \in Request : ToldAt(r)

(* The lock of a key changes hands only by a step of who takes or leaves it. *)
LEMMA LockStep ==
    ASSUME TypeInv, LocksAreHeld, NEW r \in Request, RequestStep(r),
           NEW k \in Key, keyLock'[k] # None
    PROVE  \/ keyLock'[k] = keyLock[k] /\ keyLock[k] # r
           \/ /\ keyLock'[k] = r /\ KeyOf(r) = k
              /\ \/ req'[r].pc \in Inserting \union {"violated", "failing"}
                 \/ job'[r].status # "none"
                 \/ req'[r].leaks
<1>0. /\ req \in [Request -> Handler] /\ req[r] \in Handler
      /\ job \in [Request -> Row] /\ job[r] \in Row
      /\ keyLock \in [Key -> Request \union {None}]
      /\ None \notin Request \union Key \union User
      /\ KeyOf(r) \in Key \union {None} /\ IsJob(r) \in BOOLEAN
      /\ ~ IsJob(r) => KeyOf(r) = None
      /\ PlacedAt(r) /\ LockAt(k)
  BY OrderType DEF TypeInv, TypeOK, Placed, LocksAreHeld
<1>h. \/ SameRow(r)
      \/ req[r].pc = "insert" /\ NewRow(r)
  BY RowKinds DEF TypeInv
<1> USE <1>0, <1>h DEF LockAt, PlacedAt, Handler, Inserting, SameRow, NewRow
<1>1. CASE CheckOwner(r)
  BY <1>1 DEF CheckOwner, Step
<1>2. CASE CheckKey(r)
  BY <1>2 DEF CheckKey, AnswerDuplicate, Visible, WithKey, Stored
<1>3. CASE AcquireLock(r)
  BY <1>3 DEF AcquireLock, Step
<1>4. CASE ReadLock(r)
  BY <1>4 DEF ReadLock
<1>5. CASE AnswerBlocked(r)
  BY <1>5 DEF AnswerBlocked, AnswerDuplicate, Visible, Stored
<1>6. CASE AdmissionFails(r)
  BY <1>6 DEF AdmissionFails, Fault
<1>7. CASE TakeTurn(r)
  BY <1>7 DEF TakeTurn, Refused
<1>8. CASE InsertJob(r)
  BY <1>8 DEF InsertJob, InsertRow, Step, Unlock
<1>9. CASE InsertJobFails(r)
  BY <1>9 DEF InsertJobFails, InsertRow, Unlock, Caught, Uncaught, Holds, Fault
<1>10. CASE UpsertThread(r)
  BY <1>10 DEF UpsertThread, ShowPending, Step
<1>11. CASE InsertQuestion(r)
  BY <1>11 DEF InsertQuestion, Step
<1>12. CASE BookkeepingFails(r)
  BY <1>12 DEF BookkeepingFails, ShowPending, Caught, Uncaught, Holds, Fault
<1>13. CASE StartTask(r)
  BY <1>13 DEF StartTask, Step
<1>14. CASE MetaFails(r)
  BY <1>14 DEF MetaFails, Step, Fault
<1>15. CASE FailUnstarted(r)
  BY <1>15 DEF FailUnstarted, FailRow, Uncaught, Holds, Step, Fault
<1>16. CASE GiveUp(r)
  BY <1>16 DEF GiveUp, Release, Holds, Step, Fault
<1>17. CASE LookUp(r)
  BY <1>17 DEF LookUp, AnswerDuplicate, Visible, WithKey, Stored
<1>18. CASE TaskEnds(r)
  BY <1>18 DEF TaskEnds, Transfer
<1>19. CASE TaskFails(r)
  BY <1>19 DEF TaskFails, FailRow, Fault
<1>20. CASE Reap(r)
  BY <1>20 DEF Reap, Transfer
<1>21. CASE Retry(r)
  BY <1>21 DEF Retry
<1>22. CASE StreamChunk(r)
  BY <1>22 DEF StreamChunk
<1>23. CASE FinishStream(r)
  BY <1>23 DEF FinishStream
<1>24. CASE StreamFails(r)
  BY <1>24 DEF StreamFails, Step
<1>25. CASE Leave(r)
  BY <1>25 DEF Leave
<1>26. CASE ClearBuffer(r)
  BY <1>26 DEF ClearBuffer, Step, Fault
<1>27. CASE ReadBuffer(r)
  BY <1>27 DEF ReadBuffer
<1>28. CASE StoreRun(r)
  BY <1>28 DEF StoreRun, CommitRun, Step, Unlock
<1>29. CASE FlushFails(r)
  BY <1>29 DEF FlushFails, CommitRun, Unlock, Fault
<1>30. CASE DeleteBuffer(r)
  BY <1>30 DEF DeleteBuffer, Step
<1>31. CASE ExpireBuffer(r)
  BY <1>31 DEF ExpireBuffer, Fault
<1>32. CASE Crash(r)
  BY <1>32 DEF Crash, Holds, Fault
<1>33. QED
  BY <1>1, <1>2, <1>3, <1>4, <1>5, <1>6, <1>7, <1>8, <1>9, <1>10, <1>11,
     <1>12, <1>13, <1>14, <1>15, <1>16, <1>17, <1>18, <1>19, <1>20, <1>21,
     <1>22, <1>23, <1>24, <1>25, <1>26, <1>27, <1>28, <1>29, <1>30, <1>31,
     <1>32
  DEF Admission, Submission, Execution, Streaming, RequestStep

LEMMA LocksStep ==
    ASSUME TypeInv, LocksAreHeld, NEW r \in Request, RequestStep(r)
    PROVE  LocksAreHeld'
<1>1. ASSUME NEW k \in Key, keyLock'[k] # None PROVE LockAt(k)'
  <2>1. keyLock \in [Key -> Request \union {None}] /\ order' = order /\ LockAt(k)
    BY Locality DEF TypeInv, TypeOK, LocksAreHeld
  <2>2. CASE keyLock'[k] = keyLock[k] /\ keyLock[k] # r
    <3>1. /\ keyLock[k] \in Request \ {r}
          /\ req'[keyLock[k]] = req[keyLock[k]] /\ job'[keyLock[k]] = job[keyLock[k]]
      BY <1>1, <2>1, <2>2, Locality DEF TypeInv
    <3>2. QED BY <1>1, <2>1, <2>2, <3>1 DEF LockAt, KeyOf
  <2>3. CASE /\ keyLock'[k] = r /\ KeyOf(r) = k
             /\ \/ req'[r].pc \in Inserting \union {"violated", "failing"}
                \/ job'[r].status # "none"
                \/ req'[r].leaks
    BY <2>1, <2>3 DEF LockAt, KeyOf
  <2>4. QED BY <1>1, <2>2, <2>3, LockStep
<1>2. QED BY <1>1 DEF LocksAreHeld, LockAt

LEMMA StoredStep ==
    ASSUME TypeInv, NEW r \in Request, RequestStep(r)
    PROVE  Stored \subseteq Stored'
<1>1. /\ SameRow(r) \/ (req[r].pc = "insert" /\ NewRow(r))
      /\ \A s \in Request \ {r} : job'[s] = job[s]
  BY RowKinds, Locality DEF TypeInv
<1>2. QED BY <1>1 DEF Stored, SameRow, NewRow

(* An answer names a stored run of that user, from candidates of that key. *)
LEMMA AnswerIsOwn ==
    ASSUME TypeOK, NEW r \in Request, NEW found \in SUBSET Stored, AnswerDuplicate(r, found),
           \A s \in found : KeyOf(s) = KeyOf(r)
    PROVE  /\ req'[r].pc = "answered"
           /\ req'[r].told # None =>
                 /\ req'[r].told \in Stored
                 /\ UserOf(req'[r].told) = UserOf(r)
                 /\ KeyOf(req'[r].told) = KeyOf(r)
  BY DEF AnswerDuplicate, Visible, TypeOK, Handler

LEMMA ToldStep ==
    ASSUME TypeInv, LocksAreHeld, ToldAreOwn, NEW r \in Request, RequestStep(r)
    PROVE  ToldAreOwn'
<1>0. /\ TypeOK /\ req \in [Request -> Handler] /\ req[r] \in Handler
      /\ keyLock \in [Key -> Request \union {None}]
      /\ None \notin Request \union Key \union User
      /\ KeyOf(r) \in Key \union {None}
      /\ PlacedAt(r) /\ ToldAt(r) /\ order' = order
      /\ Stored \subseteq Stored'
  BY OrderType, Locality, StoredStep DEF TypeInv, TypeOK, Placed, ToldAreOwn
<1>1. ASSUME NEW s \in Request \ {r} PROVE ToldAt(s)'
  <2>1. req'[s] = req[s] /\ ToldAt(s)
    BY <1>1, Locality DEF TypeInv, ToldAreOwn
  <2>2. QED BY <1>0, <2>1 DEF ToldAt, KeyOf, UserOf
<1>2. ToldAt(r)'
  <2> SUFFICES req'[r].told # None =>
                   \/ /\ req'[r].told = req[r].told /\ req'[r].pc = req[r].pc
                   \/ /\ req'[r].pc = "asked" /\ KeyOf(req'[r].told) = KeyOf(r)
                   \/ /\ req'[r].pc = "answered" /\ KeyOf(req'[r].told) = KeyOf(r)
                      /\ req'[r].told \in Stored /\ UserOf(req'[r].told) = UserOf(r)
    BY <1>0 DEF ToldAt, KeyOf, UserOf
  <2> USE <1>0 DEF ToldAt, PlacedAt, Handler
  <2>1. CASE CheckOwner(r)
    BY <2>1 DEF CheckOwner, Step
  <2>2. CASE CheckKey(r)
    <3>1. WithKey(KeyOf(r)) \subseteq Stored /\ \A s \in WithKey(KeyOf(r)) : KeyOf(s) = KeyOf(r)
      BY DEF WithKey
    <3>2. QED BY <2>2, <3>1, AnswerIsOwn DEF CheckKey
  <2>3. CASE AcquireLock(r)
    BY <2>3 DEF AcquireLock, Step
  <2>4. CASE ReadLock(r)
    BY <2>4 DEF ReadLock, LocksAreHeld, LockAt
  <2>5. CASE AnswerBlocked(r)
    <3>1. \A s \in {req[r].told} \intersect Stored : s # None /\ KeyOf(s) = KeyOf(r)
      BY DEF Stored
    <3>2. QED BY <2>5, <3>1, AnswerIsOwn DEF AnswerBlocked
  <2>6. CASE AdmissionFails(r)
    BY <2>6 DEF AdmissionFails, Fault
  <2>7. CASE TakeTurn(r)
    BY <2>7 DEF TakeTurn, Refused
  <2>8. CASE InsertJob(r)
    BY <2>8 DEF InsertJob, InsertRow, Step, Unlock
  <2>9. CASE InsertJobFails(r)
    BY <2>9 DEF InsertJobFails, InsertRow, Unlock, Caught, Uncaught, Holds, Fault
  <2>10. CASE UpsertThread(r)
    BY <2>10 DEF UpsertThread, ShowPending, Step
  <2>11. CASE InsertQuestion(r)
    BY <2>11 DEF InsertQuestion, Step
  <2>12. CASE BookkeepingFails(r)
    BY <2>12 DEF BookkeepingFails, ShowPending, Caught, Uncaught, Holds, Fault
  <2>13. CASE StartTask(r)
    BY <2>13 DEF StartTask, Step
  <2>14. CASE MetaFails(r)
    BY <2>14 DEF MetaFails, Step, Fault
  <2>15. CASE FailUnstarted(r)
    BY <2>15 DEF FailUnstarted, FailRow, Uncaught, Holds, Step, Fault
  <2>16. CASE GiveUp(r)
    BY <2>16 DEF GiveUp, Release, Holds, Step, Fault
  <2>17. CASE LookUp(r)
    <3> DEFINE found == IF KeyOf(r) = None THEN {} ELSE WithKey(KeyOf(r))
    <3>1. found \subseteq Stored /\ \A s \in found : KeyOf(s) = KeyOf(r)
      BY DEF WithKey
    <3>2. AnswerDuplicate(r, found)
      BY <2>17 DEF LookUp
    <3> HIDE DEF found
    <3>3. QED BY <3>1, <3>2, AnswerIsOwn
  <2>18. CASE TaskEnds(r)
    BY <2>18 DEF TaskEnds, Transfer
  <2>19. CASE TaskFails(r)
    BY <2>19 DEF TaskFails, FailRow, Fault
  <2>20. CASE Reap(r)
    BY <2>20 DEF Reap, Transfer
  <2>21. CASE Retry(r)
    BY <2>21 DEF Retry
  <2>22. CASE StreamChunk(r)
    BY <2>22 DEF StreamChunk
  <2>23. CASE FinishStream(r)
    BY <2>23 DEF FinishStream
  <2>24. CASE StreamFails(r)
    BY <2>24 DEF StreamFails, Step
  <2>25. CASE Leave(r)
    BY <2>25 DEF Leave, Flushing
  <2>26. CASE ClearBuffer(r)
    BY <2>26 DEF ClearBuffer, Step, Fault
  <2>27. CASE ReadBuffer(r)
    BY <2>27 DEF ReadBuffer
  <2>28. CASE StoreRun(r)
    BY <2>28 DEF StoreRun, CommitRun, Step, Unlock
  <2>29. CASE FlushFails(r)
    BY <2>29 DEF FlushFails, CommitRun, Unlock, Fault
  <2>30. CASE DeleteBuffer(r)
    BY <2>30 DEF DeleteBuffer, Step
  <2>31. CASE ExpireBuffer(r)
    BY <2>31 DEF ExpireBuffer, Fault
  <2>32. CASE Crash(r)
    BY <2>32 DEF Crash, Holds, Fault
  <2>33. QED
    BY <2>1, <2>2, <2>3, <2>4, <2>5, <2>6, <2>7, <2>8, <2>9, <2>10, <2>11,
       <2>12, <2>13, <2>14, <2>15, <2>16, <2>17, <2>18, <2>19, <2>20, <2>21,
       <2>22, <2>23, <2>24, <2>25, <2>26, <2>27, <2>28, <2>29, <2>30, <2>31,
       <2>32
    DEF Admission, Submission, Execution, Streaming, RequestStep
<1>3. QED BY <1>1, <1>2 DEF ToldAreOwn

LEMMA KeysInit == Init => LocksAreHeld /\ ToldAreOwn
BY DEF Init, New, LocksAreHeld, LockAt, ToldAreOwn, ToldAt

LEMMA KeysHold == Spec => [](TypeInv /\ LocksAreHeld /\ ToldAreOwn)
<1>1. TypeInv /\ LocksAreHeld /\ ToldAreOwn /\ [Next]_vars => LocksAreHeld' /\ ToldAreOwn'
  <2> SUFFICES ASSUME TypeInv, LocksAreHeld, ToldAreOwn, [Next]_vars
               PROVE  LocksAreHeld' /\ ToldAreOwn'
    OBVIOUS
  <2>1. CASE \E r \in Request : RequestStep(r)
    BY <2>1, LocksStep, ToldStep
  <2>2. ASSUME NEW k \in Key, ExpireLock(k)
        PROVE  LocksAreHeld' /\ ToldAreOwn'
    <3>1. /\ UNCHANGED <<order, req, job>>
          /\ \A l \in Key : keyLock'[l] \in {keyLock[l], None}
      BY <2>2 DEF ExpireLock, TypeInv, TypeOK
    <3>2. LocksAreHeld'
      BY <3>1 DEF LocksAreHeld, LockAt, KeyOf
    <3>3. ToldAreOwn'
      BY <3>1 DEF ToldAreOwn, ToldAt, Stored, KeyOf, UserOf
    <3>4. QED BY <3>2, <3>3
  <2>3. CASE UNCHANGED vars
    BY <2>3 DEF vars, LocksAreHeld, LockAt, ToldAreOwn, ToldAt, Stored, KeyOf, UserOf
  <2>4. QED BY <2>1, <2>2, <2>3 DEF Next, RequestStep
<1>2. QED BY <1>1, KeysInit, InvHolds, PTL DEF Spec

(* A key is locked by a request that is still being admitted or has stored    *)
(* its run, or whose process was kept from releasing it.  (job_manager.py:    *)
(* release_lock_async in the except clauses)                                  *)
THEOREM LocksAreInUse == Spec => []LocksAreUsed
<1>1. LocksAreHeld => LocksAreUsed
  BY DEF LocksAreHeld, LockAt, LocksAreUsed
<1>2. QED BY <1>1, KeysHold, PTL

(* A duplicate is told a stored run of its own user and key, or nothing.      *)
(* (job_manager.py: visible_run_id)                                           *)
THEOREM DuplicatesAreOfOneUser == Spec => []DuplicatesAreOwn
<1>1. ToldAreOwn => DuplicatesAreOwn
  BY DEF ToldAreOwn, ToldAt, DuplicatesAreOwn
<1>2. QED BY <1>1, KeysHold, PTL

-----------------------------------------------------------------------------
(* llm_thread *)

(* What the row of a thread shows of its latest run *)
ShownAt(t) ==
    LET latest == chat[t].run
    IN  latest # None =>
            /\ ThreadOf(latest) = t
            /\ UserOf(latest) = chat[t].user
            /\ chat[t].status \in {"completed", "cancelled"} =>
                   job[latest].status = chat[t].status

ThreadsAreTrue == \A t \in Thread : ShownAt(t)

LEMMA ShownStep ==
    ASSUME TypeInv, ThreadsAreTrue, NEW r \in Request, RequestStep(r), NEW t \in Thread
    PROVE  ShownAt(t)'
<1>0. /\ order' = order
      /\ req \in [Request -> Handler] /\ req[r] \in Handler
      /\ job \in [Request -> Row] /\ job[r] \in Row
      /\ chat \in [Thread -> ThreadRow] /\ chat[t] \in ThreadRow
      /\ None \notin Request \union Key \union User
      /\ ThreadOf(r) \in Thread /\ UserOf(r) \in User
      /\ PlacedAt(r) /\ ShownAt(t)
      /\ \A s \in Request \ {r} : job'[s] = job[s]
  BY OrderType, Locality DEF TypeInv, TypeOK, Placed, ThreadsAreTrue
<1>1. ThreadOf(r)' = ThreadOf(r) /\ UserOf(r)' = UserOf(r)
  BY <1>0 DEF ThreadOf, UserOf
<1>2. SUFFICES chat'[t].run # None =>
                  /\ ThreadOf(chat'[t].run) = t
                  /\ UserOf(chat'[t].run) = chat'[t].user
                  /\ chat'[t].status \in {"completed", "cancelled"} =>
                         job'[chat'[t].run].status = chat'[t].status
  BY <1>0 DEF ShownAt, ThreadOf, UserOf
<1>3. ASSUME ShowPending(r)
      PROVE  \/ chat'[t] = chat[t]
             \/ /\ t = ThreadOf(r)
                /\ chat'[t] = [user |-> UserOf(r), run |-> r, status |-> "pending"]
  BY <1>0, <1>3 DEF ShowPending
<1>4. ASSUME req[r].pc = "insert", CommitRun(r)
      PROVE  /\ job'[r].status = "completed"
             /\ \/ chat'[t] = chat[t]
                \/ /\ t = ThreadOf(r) /\ chat'[t].run = r /\ chat'[t].user = UserOf(r)
                   /\ chat'[t].status = "completed"
  BY <1>0, <1>4 DEF CommitRun, ThreadRow, Row
<1> USE <1>0 DEF ShownAt, PlacedAt, Handler, Row, ThreadRow, Active, Ended
<1>5. CASE CheckOwner(r)
  BY <1>5 DEF CheckOwner, Step
<1>6. CASE CheckKey(r)
  BY <1>6 DEF CheckKey, AnswerDuplicate, Visible, WithKey, Stored
<1>7. CASE AcquireLock(r)
  BY <1>7 DEF AcquireLock, Step
<1>8. CASE ReadLock(r)
  BY <1>8 DEF ReadLock
<1>9. CASE AnswerBlocked(r)
  BY <1>9 DEF AnswerBlocked, AnswerDuplicate, Visible, Stored
<1>10. CASE AdmissionFails(r)
  BY <1>10 DEF AdmissionFails, Fault
<1>11. CASE TakeTurn(r)
  BY <1>11 DEF TakeTurn, Refused
<1>12. CASE InsertJob(r)
  BY <1>12 DEF InsertJob, InsertRow, Step, Unlock
<1>13. CASE InsertJobFails(r)
  BY <1>13 DEF InsertJobFails, InsertRow, Unlock, Caught, Uncaught, Holds, Fault
<1>14. CASE UpsertThread(r)
  BY <1>3, <1>14 DEF UpsertThread, Step
<1>15. CASE InsertQuestion(r)
  BY <1>15 DEF InsertQuestion, Step
<1>16. CASE BookkeepingFails(r)
  BY <1>3, <1>16 DEF BookkeepingFails, Caught, Uncaught, Holds, Fault
<1>17. CASE StartTask(r)
  BY <1>17 DEF StartTask, Step
<1>18. CASE MetaFails(r)
  BY <1>18 DEF MetaFails, Step, Fault
<1>19. CASE FailUnstarted(r)
  BY <1>19 DEF FailUnstarted, FailRow, Uncaught, Holds, Step, Fault
<1>20. CASE GiveUp(r)
  BY <1>20 DEF GiveUp, Release, Holds, Step, Fault
<1>21. CASE LookUp(r)
  BY <1>21 DEF LookUp, AnswerDuplicate, Visible, WithKey, Stored
<1>22. CASE TaskEnds(r)
  BY <1>22 DEF TaskEnds, Transfer
<1>23. CASE TaskFails(r)
  BY <1>23 DEF TaskFails, FailRow, Fault
<1>24. CASE Reap(r)
  BY <1>24 DEF Reap, Transfer
<1>25. CASE Retry(r)
  BY <1>25 DEF Retry
<1>26. CASE StreamChunk(r)
  BY <1>26 DEF StreamChunk
<1>27. CASE FinishStream(r)
  BY <1>27 DEF FinishStream
<1>28. CASE StreamFails(r)
  BY <1>28 DEF StreamFails, Step
<1>29. CASE Leave(r)
  BY <1>29 DEF Leave
<1>30. CASE ClearBuffer(r)
  BY <1>30 DEF ClearBuffer, Step, Fault
<1>31. CASE ReadBuffer(r)
  BY <1>31 DEF ReadBuffer
<1>32. CASE StoreRun(r)
  BY <1>4, <1>32 DEF StoreRun, Step
<1>33. CASE FlushFails(r)
  BY <1>4, <1>33 DEF FlushFails
<1>34. CASE DeleteBuffer(r)
  BY <1>34 DEF DeleteBuffer, Step
<1>35. CASE ExpireBuffer(r)
  BY <1>35 DEF ExpireBuffer, Fault
<1>36. CASE Crash(r)
  BY <1>36 DEF Crash, Holds, Fault
<1>37. QED
  BY <1>5, <1>6, <1>7, <1>8, <1>9, <1>10, <1>11, <1>12, <1>13, <1>14, <1>15,
     <1>16, <1>17, <1>18, <1>19, <1>20, <1>21, <1>22, <1>23, <1>24, <1>25,
     <1>26, <1>27, <1>28, <1>29, <1>30, <1>31, <1>32, <1>33, <1>34, <1>35,
     <1>36
  DEF Admission, Submission, Execution, Streaming, RequestStep

(* The row of a thread shows its user a run of that user, and completed or    *)
(* cancelled only if that run has ended so.  (chat_thread_repository.py,      *)
(* job_transfer.py: is_active)                                                *)
THEOREM ThreadsShowTrueEndings == Spec => []ThreadShowsTrueEnding
<1>1. Init => ThreadsAreTrue
  BY DEF Init, ThreadsAreTrue, ShownAt
<1>2. TypeInv /\ ThreadsAreTrue /\ [Next]_vars => ThreadsAreTrue'
  <2> SUFFICES ASSUME TypeInv, ThreadsAreTrue, [Next]_vars
               PROVE  ThreadsAreTrue'
    OBVIOUS
  <2>1. CASE \E r \in Request : RequestStep(r)
    BY <2>1, ShownStep DEF ThreadsAreTrue
  <2>2. CASE \E k \in Key : ExpireLock(k)
    BY <2>2 DEF ExpireLock, ThreadsAreTrue, ShownAt, ThreadOf, UserOf
  <2>3. CASE UNCHANGED vars
    BY <2>3 DEF vars, ThreadsAreTrue, ShownAt, ThreadOf, UserOf
  <2>4. QED BY <2>1, <2>2, <2>3 DEF Next, RequestStep
<1>3. ThreadsAreTrue => ThreadShowsTrueEnding
  BY DEF ThreadsAreTrue, ShownAt, ThreadShowsTrueEnding
<1>4. QED BY <1>1, <1>2, <1>3, InvHolds, PTL DEF Spec
=============================================================================
