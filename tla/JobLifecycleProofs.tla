-------------------------- MODULE JobLifecycleProofs --------------------------
(***************************************************************************)
(* What TLAPS proves of JobLifecycle, for any number of attempts,          *)
(* processes and calls, any length of output and any number of faults.     *)
(***************************************************************************)
EXTENDS JobLifecycle, FiniteSetTheorems, TLAPS

USE ConstantsAssumption

-----------------------------------------------------------------------------
(* Chunk rows are always finitely many, which their count needs. *)
FiniteRows == IsFiniteSet(chunkRow)

(* A call runs in a process, and one that cancels a task has one. *)
TaskHeld ==
    \A c \in Caller :
        /\ caller[c].pc = "requesting" => caller[c].process \in Process
        /\ caller[c].pc \in {"cancelling", "joining"} => caller[c].task \in Attempt

TypeInv == TypeOK /\ FiniteRows /\ TaskHeld

LEMMA ChunksOfFinite ==
    ASSUME TypeOK, NEW o \in Owner
    PROVE  /\ IsFiniteSet(ChunksOf(o))
           /\ ChunksOf(o) \subseteq Attempt \X (1..MaxChunk)
<1>1. CASE o \in Attempt
  <2>1. executor[o].chunks \in 0..MaxChunk
    BY <1>1 DEF TypeOK, Task
  <2>2. IsFiniteSet(1..executor[o].chunks)
    BY <2>1, FS_Interval
  <2>3. IsFiniteSet({o})
    BY FS_Singleton
  <2>4. ChunksOf(o) = {o} \X (1..executor[o].chunks)
    BY <1>1 DEF ChunksOf
  <2>5. IsFiniteSet(ChunksOf(o))
    <3>1. IsFiniteSet({o} \X (1..executor[o].chunks))
      BY ONLY <2>2, <2>3, FS_Product, Zenon
    <3>2. QED BY <2>4, <3>1
  <2>6. ChunksOf(o) \subseteq Attempt \X (1..MaxChunk)
    BY <1>1, <2>1, <2>4
  <2>7. QED BY <2>5, <2>6
<1>2. CASE o \notin Attempt
  BY <1>2, FS_EmptySet DEF ChunksOf
<1>3. QED BY <1>1, <1>2

LEMMA InsertedFinite ==
    ASSUME NEW rows, NEW new, IsFiniteSet(rows), IsFiniteSet(new)
    PROVE  IsFiniteSet(Inserted(rows, new)) /\ Cardinality(Inserted(rows, new)) \in Nat
<1>1. IsFiniteSet({r \in new : \A old \in rows : old[2] # r[2]})
  BY FS_Subset
<1>2. IsFiniteSet(Inserted(rows, new))
  BY <1>1, FS_Union DEF Inserted
<1>3. QED BY <1>2, FS_CardinalityType

-----------------------------------------------------------------------------
(* The type of every helper's effect. *)

LEMMA GotoType ==
    ASSUME NEW a \in Attempt, NEW pc \in ExecutorPc,
           executor \in [Attempt -> Task], Goto(a, pc)
    PROVE  executor' \in [Attempt -> Task]
BY DEF Task, Goto

LEMMA BeginType ==
    ASSUME NEW S, NEW a \in Attempt, NEW pc \in ExecutorPc, NEW p \in S,
           NEW tasks \in [Attempt -> [pc : ExecutorPc, process : S,
                                      chunks : 0..MaxChunk, outcome : Outcome]]
    PROVE  [tasks EXCEPT ![a].pc = pc, ![a].process = p] \in
               [Attempt -> [pc : ExecutorPc, process : S,
                            chunks : 0..MaxChunk, outcome : Outcome]]
OBVIOUS

LEMMA StartTransferType ==
    ASSUME NEW o \in Owner, NEW status \in Status,
           transfer \in [Owner -> TransferCall], StartTransfer(o, status)
    PROVE  transfer' \in [Owner -> TransferCall]
BY DEF TransferCall, StartTransfer, TransferPc

LEMMA EndTransferType ==
    ASSUME NEW o \in Owner, transfer \in [Owner -> TransferCall], EndTransfer(o)
    PROVE  transfer' \in [Owner -> TransferCall]
BY DEF TransferCall, EndTransfer, NoTransfer, TransferPc, Status

LEMMA StepType ==
    ASSUME NEW o \in Owner, NEW pc \in TransferPc,
           transfer \in [Owner -> TransferCall], Step(o, pc)
    PROVE  transfer' \in [Owner -> TransferCall]
BY DEF TransferCall, Step

LEMMA FinalStatusType ==
    ASSUME NEW outcome \in {"skipped"} \union Terminal
    PROVE  FinalStatus(outcome) \in Terminal /\ FinalStatus(outcome) \in Status
BY DEF FinalStatus, Terminal, Status

LEMMA UnwindType ==
    ASSUME NEW a \in Attempt, NEW outcome \in {"skipped"} \union Terminal,
           executor \in [Attempt -> Task], transfer \in [Owner -> TransferCall],
           Unwind(a, outcome)
    PROVE  executor' \in [Attempt -> Task] /\ transfer' \in [Owner -> TransferCall]
<1>1. outcome \in Outcome
  BY DEF Outcome
<1>2. "finishing" \in ExecutorPc /\ "flushing" \in ExecutorPc
  BY DEF ExecutorPc
<1>3. a \in Owner
  BY DEF Owner
<1>4. CASE executor[a].pc \in Beating
  BY <1>1, <1>2, <1>4 DEF Unwind, Task
<1>5. CASE executor[a].pc \notin Beating
  <2>1. executor' \in [Attempt -> Task]
    BY <1>1, <1>2, <1>5 DEF Unwind, Task
  <2>2. transfer' \in [Owner -> TransferCall]
    BY <1>3, <1>5, StartTransferType, FinalStatusType DEF Unwind
  <2>3. QED BY <2>1, <2>2
<1>6. QED BY <1>4, <1>5

LEMMA FinishedType ==
    ASSUME NEW row \in JobRow, NEW status \in Status, NEW count \in Nat
    PROVE  Finished(row, status, count) \in JobRow
BY DEF Finished, JobRow

LEMMA TaskEndedType ==
    ASSUME NEW a \in Attempt, TypeOK, TaskEnded(a)
    PROVE  /\ executor' \in [Attempt -> Task]
           /\ taskDictionary' \in [Process -> Attempt \union {None}]
           /\ cancelReason' \in [Process -> Reason]
<1>1. "done" \in ExecutorPc
  BY DEF ExecutorPc
<1>2. executor' \in [Attempt -> Task]
  BY <1>1, GotoType DEF TaskEnded, TypeOK
<1>3. taskDictionary' \in [Process -> Attempt \union {None}]
  BY DEF TaskEnded, TypeOK
<1>4. cancelReason' \in [Process -> Reason]
  BY DEF TaskEnded, TypeOK, Reason
<1>5. QED BY <1>2, <1>3, <1>4

LEMMA FaultType ==
    ASSUME NEW kind, faults \in Faults, Fault(kind)
    PROVE  faults' \in Faults
BY DEF Fault, Faults

(* What a transfer carries to its transaction is the ending of a job. *)
LEMMA OutcomeOfType ==
    ASSUME NEW reason
    PROVE  OutcomeOf(reason) \in {"cancelled", "failed"} /\ OutcomeOf(reason) \in Terminal
BY DEF OutcomeOf, Terminal

(* The program counters and statuses the actions assign are declared ones. *)
LEMMA ExecutorPcs ==
    /\ "absent" \in ExecutorPc /\ "retrying" \in ExecutorPc /\ "inserting" \in ExecutorPc
    /\ "preparing" \in ExecutorPc /\ "unprepared" \in ExecutorPc /\ "created" \in ExecutorPc
    /\ "marking" \in ExecutorPc /\ "starting" \in ExecutorPc /\ "refused" \in ExecutorPc
    /\ "streaming" \in ExecutorPc /\ "publishing" \in ExecutorPc /\ "rejected" \in ExecutorPc
    /\ "finishing" \in ExecutorPc /\ "flushing" \in ExecutorPc /\ "done" \in ExecutorPc
BY DEF ExecutorPc, Trying, Beating

LEMMA TransferPcs ==
    /\ "idle" \in TransferPc /\ "commit" \in TransferPc /\ "statusOnly" \in TransferPc
    /\ "reread" \in TransferPc /\ "publish" \in TransferPc /\ "done" \in TransferPc
BY DEF TransferPc

LEMMA Statuses ==
    /\ "none" \in Status /\ "pending" \in Status /\ "running" \in Status
    /\ "completed" \in Status /\ "failed" \in Status /\ "cancelled" \in Status
BY DEF Status, Active, Terminal

LEMMA Endings ==
    /\ "completed" \in Terminal /\ "failed" \in Terminal /\ "cancelled" \in Terminal
BY DEF Terminal

LEMMA Reasons ==
    /\ "none" \in Reason /\ "cancelled" \in Reason /\ "client_disconnected" \in Reason
    /\ "heartbeat_expired" \in Reason /\ "shutdown" \in Reason
BY DEF Reason

LEMMA CallerPcs ==
    /\ "idle" \in CallerPc /\ "requesting" \in CallerPc /\ "asking" \in CallerPc
    /\ "cancelling" \in CallerPc /\ "joining" \in CallerPc /\ "ensuring" \in CallerPc
    /\ "settling" \in CallerPc /\ "returned" \in CallerPc /\ "raised" \in CallerPc
BY DEF CallerPc

LEMMA ReaperPcs ==
    /\ "scanning" \in ReaperPc /\ "fencing" \in ReaperPc /\ "reaping" \in ReaperPc
    /\ "listing" \in ReaperPc /\ "checking" \in ReaperPc /\ "filling" \in ReaperPc
    /\ "ended" \in ReaperPc
BY DEF ReaperPc

LEMMA CallerGotoType ==
    ASSUME NEW c \in Caller, NEW pc \in CallerPc,
           caller \in [Caller -> Call], CallerGoto(c, pc)
    PROVE  caller' \in [Caller -> Call]
BY DEF Call, CallerGoto

LEMMA NoCallType ==
    ASSUME NEW pc \in CallerPc, NEW seen \in SUBSET Attempt
    PROVE  NoCall(pc, seen) \in Call
BY Reasons DEF NoCall, Call

LEMMA ReaperGotoType ==
    ASSUME NEW p \in Process, NEW pc \in ReaperPc,
           reaper \in [Process -> ReaperPc], ReaperGoto(p, pc)
    PROVE  reaper' \in [Process -> ReaperPc]
BY DEF ReaperGoto

LEMMA AskType ==
    ASSUME NEW S, NEW T, NEW c \in Caller, NEW pc \in CallerPc, NEW task \in T,
           NEW calls \in [Caller -> [pc : CallerPc, process : S, reason : Reason,
                                     task : T, seen : SUBSET Attempt]]
    PROVE  [calls EXCEPT ![c].pc = pc, ![c].task = task] \in
               [Caller -> [pc : CallerPc, process : S, reason : Reason,
                           task : T, seen : SUBSET Attempt]]
OBVIOUS

LEMMA PendingRow ==
    [status |-> "pending", chunkCount |-> 0, stale |-> FALSE] \in JobRow
BY Statuses DEF JobRow

LEMMA CommitEffectType ==
    ASSUME TypeOK, FiniteRows, NEW o \in Owner, CommitEffect(o)
    PROVE  job' \in JobRow /\ chunkRow' \subseteq Attempt \X (1..MaxChunk)
<1>1. CASE job.status \in Active
  <2>1. chunkRow' = Inserted(chunkRow, ChunksOf(o))
    BY <1>1 DEF CommitEffect
  <2>2. Cardinality(chunkRow') \in Nat
    BY <2>1, ChunksOfFinite, InsertedFinite DEF FiniteRows
  <2>3. job' \in JobRow
    BY <1>1, <2>2, FinishedType DEF CommitEffect, TypeOK, TransferCall
  <2>4. chunkRow' \subseteq Attempt \X (1..MaxChunk)
    BY <2>1, ChunksOfFinite DEF Inserted, TypeOK
  <2>5. QED BY <2>3, <2>4
<1>2. CASE job.status \notin Active
  BY <1>2 DEF CommitEffect, TypeOK
<1>3. QED BY <1>1, <1>2

LEMMA TypeStep ==
    ASSUME TypeInv, [Next]_vars
    PROVE  TypeOK'
<1> USE DEF TypeInv
<1>1. ASSUME NEW a \in Attempt, StoreUserMessages(a)
     PROVE  TypeOK'
  <2>1. executor' \in [Attempt -> Task]
    BY <1>1, GotoType, ExecutorPcs DEF StoreUserMessages, TypeOK
  <2>2. faults' \in Faults
    BY <1>1, FaultType DEF StoreUserMessages, TypeOK
  <2>3. QED BY <1>1, <2>1, <2>2 DEF StoreUserMessages, TypeOK, localVars
<1>2. ASSUME NEW a \in Attempt, RetryReset(a)
     PROVE  TypeOK'
  <2>1. executor' \in [Attempt -> Task]
    BY <1>2, GotoType, ExecutorPcs DEF RetryReset, TypeOK, Task
  <2>2. job' \in JobRow
    BY <1>2, Statuses, PendingRow DEF RetryReset, TypeOK
  <2>3. QED BY <1>2, <2>1, <2>2 DEF RetryReset, TypeOK, localVars
<1>3. ASSUME NEW a \in Attempt, InitializeMeta(a)
     PROVE  TypeOK'
  <2>1. executor' \in [Attempt -> Task]
    BY <1>3, GotoType, ExecutorPcs DEF InitializeMeta, TypeOK
  <2>2. meta' \in MetaHash
    BY <1>3, Statuses, Reasons DEF InitializeMeta, TypeOK, MetaHash
  <2>3. taskDictionary' \in [Process -> Attempt \union {None}]
    BY <1>3 DEF InitializeMeta, TypeOK
  <2>4. QED BY <1>3, <2>1, <2>2, <2>3 DEF InitializeMeta, TypeOK, localVars
<1>4. ASSUME NEW a \in Attempt, InitializeMetaFails(a)
     PROVE  TypeOK'
  <2>1. executor' \in [Attempt -> Task]
    BY <1>4, GotoType, ExecutorPcs DEF InitializeMetaFails, TypeOK
  <2>2. faults' \in Faults
    BY <1>4, FaultType DEF InitializeMetaFails, TypeOK
  <2>3. QED BY <1>4, <2>1, <2>2 DEF InitializeMetaFails, TypeOK, localVars
<1>5. ASSUME NEW a \in Attempt, GiveUpAttempt(a)
     PROVE  TypeOK'
  <2>1. executor' \in [Attempt -> Task]
    BY <1>5, GotoType, ExecutorPcs DEF GiveUpAttempt, TypeOK
  <2>2. job' \in JobRow
    BY <1>5, FinishedType, Statuses DEF GiveUpAttempt, TypeOK
  <2>3. faults' \in Faults
    BY <1>5, FaultType DEF GiveUpAttempt, TypeOK
  <2>4. QED BY <1>5, <2>1, <2>2, <2>3 DEF GiveUpAttempt, TypeOK, localVars
<1>6. ASSUME NEW a \in Attempt, FirstStep(a)
     PROVE  TypeOK'
  <2>1. executor' \in [Attempt -> Task]
    BY <1>6, GotoType, ExecutorPcs DEF FirstStep, TypeOK
  <2>2. QED BY <1>6, <2>1 DEF FirstStep, TypeOK, localVars
<1>7. ASSUME NEW a \in Attempt, MarkRunning(a)
     PROVE  TypeOK'
  <2>1. executor' \in [Attempt -> Task] /\ transfer' \in [Owner -> TransferCall]
    BY <1>7, GotoType, ExecutorPcs, UnwindType DEF MarkRunning, TypeOK
  <2>2. job' \in JobRow
    BY <1>7, Statuses DEF MarkRunning, TypeOK, JobRow
  <2>3. QED BY <1>7, <2>1, <2>2 DEF MarkRunning, TypeOK, localVars
<1>8. ASSUME NEW a \in Attempt, StartMeta(a)
     PROVE  TypeOK'
  <2>1. executor' \in [Attempt -> Task]
    BY <1>8, GotoType, ExecutorPcs DEF StartMeta, TypeOK
  <2>2. meta' \in MetaHash
    BY <1>8, Statuses DEF StartMeta, TypeOK, MetaHash
  <2>3. QED BY <1>8, <2>1, <2>2 DEF StartMeta, TypeOK, localVars
<1>9. ASSUME NEW a \in Attempt, BufferChunk(a)
     PROVE  TypeOK'
  <2>1. executor' \in [Attempt -> Task]
    BY <1>9, ExecutorPcs DEF BufferChunk, TypeOK, Task
  <2>2. QED BY <1>9, <2>1 DEF BufferChunk, TypeOK, localVars
<1>10. ASSUME NEW a \in Attempt, PublishChunk(a)
     PROVE  TypeOK'
  <2>1. executor' \in [Attempt -> Task]
    BY <1>10, GotoType, ExecutorPcs DEF PublishChunk, TypeOK
  <2>2. meta' \in MetaHash
    BY <1>10 DEF PublishChunk, TypeOK, MetaHash
  <2>3. QED BY <1>10, <2>1, <2>2 DEF PublishChunk, TypeOK, localVars
<1>11. ASSUME NEW a \in Attempt, ReadReason(a)
     PROVE  TypeOK'
  <2>1. executor' \in [Attempt -> Task] /\ transfer' \in [Owner -> TransferCall]
    BY <1>11, UnwindType, OutcomeOfType DEF ReadReason, TypeOK
  <2>2. QED BY <1>11, <2>1 DEF ReadReason, TypeOK, localVars
<1>12. ASSUME NEW a \in Attempt, StreamEnds(a)
     PROVE  TypeOK'
  <2>1. executor' \in [Attempt -> Task] /\ transfer' \in [Owner -> TransferCall]
    BY <1>12, UnwindType, Endings DEF StreamEnds, TypeOK
  <2>2. QED BY <1>12, <2>1 DEF StreamEnds, TypeOK, localVars
<1>13. ASSUME NEW a \in Attempt, ExecutionFails(a)
     PROVE  TypeOK'
  <2>1. executor' \in [Attempt -> Task] /\ transfer' \in [Owner -> TransferCall]
    BY <1>13, UnwindType, Endings DEF ExecutionFails, TypeOK
  <2>2. QED BY <1>13, <2>1 DEF ExecutionFails, TypeOK, localVars
<1>14. ASSUME NEW a \in Attempt, Heartbeat(a)
     PROVE  TypeOK'
  <2>1. executor' \in [Attempt -> Task] /\ transfer' \in [Owner -> TransferCall]
    BY <1>14, UnwindType, OutcomeOfType DEF Heartbeat, BeatRefusal, TypeOK
  <2>2. meta' \in MetaHash
    BY <1>14 DEF Heartbeat, TypeOK, MetaHash
  <2>3. QED BY <1>14, <2>1, <2>2 DEF Heartbeat, TypeOK, localVars
<1>15. ASSUME NEW a \in Attempt, Flush(a)
     PROVE  TypeOK'
  <2>1. executor' \in [Attempt -> Task]
    BY <1>15, GotoType, ExecutorPcs DEF Flush, TypeOK
  <2>2. a \in Owner /\ FinalStatus(executor[a].outcome) \in Status
    BY Statuses DEF Owner, TypeOK, Task, Outcome, FinalStatus, Terminal
  <2>3. transfer' \in [Owner -> TransferCall]
    BY <1>15, <2>2, StartTransferType DEF Flush, TypeOK
  <2>4. QED BY <1>15, <2>1, <2>2, <2>3 DEF Flush, TypeOK, localVars
<1>16. ASSUME NEW a \in Attempt, TaskEnds(a)
     PROVE  TypeOK'
  <2>1. executor' \in [Attempt -> Task]
    BY <1>16, TaskEndedType DEF TaskEnds, TypeOK
  <2>2. taskDictionary' \in [Process -> Attempt \union {None}]
    BY <1>16, TaskEndedType DEF TaskEnds, TypeOK
  <2>3. cancelReason' \in [Process -> Reason]
    BY <1>16, TaskEndedType DEF TaskEnds, TypeOK
  <2>4. transfer' \in [Owner -> TransferCall]
    BY <1>16, EndTransferType DEF TaskEnds, TypeOK, Owner
  <2>5. QED BY <1>16, <2>1, <2>2, <2>3, <2>4 DEF TaskEnds, TypeOK, localVars
<1>17. ASSUME NEW o \in Owner, Commit(o)
     PROVE  TypeOK'
  <2>1. job' \in JobRow /\ chunkRow' \subseteq Attempt \X (1..MaxChunk)
    BY <1>17, CommitEffectType, Statuses DEF Commit, TypeOK
  <2>2. transfer' \in [Owner -> TransferCall]
    BY <1>17, StepType, TransferPcs DEF Commit, TypeOK
  <2>3. QED BY <1>17, <2>1, <2>2 DEF Commit, TypeOK, localVars
<1>18. ASSUME NEW o \in Owner, CommitFails(o)
     PROVE  TypeOK'
  <2>1. job' \in JobRow /\ chunkRow' \subseteq Attempt \X (1..MaxChunk)
    BY <1>18, CommitEffectType DEF CommitFails, TypeOK
  <2>2. transfer' \in [Owner -> TransferCall]
    BY <1>18, StepType, TransferPcs DEF CommitFails, TypeOK
  <2>3. faults' \in Faults
    BY <1>18, FaultType DEF CommitFails, TypeOK
  <2>4. QED BY <1>18, <2>1, <2>2, <2>3 DEF CommitFails, TypeOK, localVars
<1>19. ASSUME NEW o \in Owner, FlushStatusOnly(o)
     PROVE  TypeOK'
  <2>1. job' \in JobRow
    BY <1>19, FinishedType, Statuses DEF FlushStatusOnly, TypeOK
  <2>2. transfer' \in [Owner -> TransferCall]
    BY <1>19, TransferPcs, Statuses DEF FlushStatusOnly, TypeOK, TransferCall
  <2>3. faults' \in Faults
    BY <1>19, FaultType DEF FlushStatusOnly, TypeOK
  <2>4. QED BY <1>19, <2>1, <2>2, <2>3 DEF FlushStatusOnly, TypeOK, localVars
<1>20. ASSUME NEW o \in Owner, Reread(o)
     PROVE  TypeOK'
  <2>1. Step(o, "done") => transfer' \in [Owner -> TransferCall]
    BY StepType, TransferPcs DEF TypeOK
  <2>2. transfer' \in [Owner -> TransferCall]
    BY <1>20, <2>1, TransferPcs DEF Reread, TypeOK, TransferCall, JobRow
  <2>3. faults' \in Faults
    BY <1>20, FaultType DEF Reread, TypeOK
  <2>4. QED BY <1>20, <2>1, <2>2, <2>3 DEF Reread, TypeOK, localVars
<1>21. ASSUME NEW o \in Owner, PublishTerminal(o)
     PROVE  TypeOK'
  <2>1. meta' \in MetaHash
    BY <1>21 DEF PublishTerminal, TypeOK, MetaHash, TransferCall
  <2>2. transfer' \in [Owner -> TransferCall]
    BY <1>21, StepType, TransferPcs DEF PublishTerminal, TypeOK
  <2>3. faults' \in Faults
    BY <1>21, FaultType DEF PublishTerminal, TypeOK
  <2>4. QED BY <1>21, <2>1, <2>2, <2>3 DEF PublishTerminal, TypeOK, localVars
<1>22. ASSUME NEW c \in Caller, SetLocalReason(c)
     PROVE  TypeOK'
  <2>1. taskDictionary[caller[c].process] \in Attempt \union {None}
    BY <1>22 DEF SetLocalReason, TypeOK, TaskHeld
  <2>2. caller' \in [Caller -> Call]
    BY <1>22, <2>1, CallerPcs, AskType DEF SetLocalReason, TypeOK, Call
  <2>3. cancelReason' \in [Process -> Reason]
    BY <1>22 DEF SetLocalReason, TypeOK, Call
  <2>4. QED BY <1>22, <2>1, <2>2, <2>3 DEF SetLocalReason, TypeOK, localVars
<1>23. ASSUME NEW c \in Caller, AskRedis(c)
     PROVE  TypeOK'
  <2>1. caller' \in [Caller -> Call]
    BY <1>23, CallerGotoType, CallerPcs DEF AskRedis, TypeOK
  <2>2. meta' \in MetaHash
    BY <1>23 DEF AskRedis, TypeOK, MetaHash, Call
  <2>3. cancelReason' \in [Process -> Reason]
    BY <1>23, Reasons DEF AskRedis, TypeOK
  <2>4. faults' \in Faults
    BY <1>23, FaultType DEF AskRedis, TypeOK
  <2>5. QED BY <1>23, <2>1, <2>2, <2>3, <2>4 DEF AskRedis, TypeOK, localVars
<1>24. ASSUME NEW c \in Caller, CancelTask(c)
     PROVE  TypeOK'
  <2>1. caller' \in [Caller -> Call]
    BY <1>24, CallerGotoType, CallerPcs DEF CancelTask, TypeOK
  <2>2. caller[c].task \in Attempt
    BY <1>24 DEF CancelTask, TaskHeld
  <2>3. CASE TaskEnded(caller[c].task) /\ UNCHANGED transfer
    BY <1>24, <2>1, <2>2, <2>3, TaskEndedType DEF CancelTask, TypeOK
  <2>4. CASE /\ Unwind(caller[c].task, OutcomeOf(cancelReason[executor[caller[c].task].process]))
            /\ UNCHANGED localVars
    BY <1>24, <2>1, <2>2, <2>4, UnwindType, OutcomeOfType DEF CancelTask, TypeOK, localVars
  <2>5. CASE UNCHANGED <<executor, transfer, localVars>>
    BY <1>24, <2>1, <2>5 DEF CancelTask, TypeOK, localVars
  <2>6. QED BY <1>24, <2>3, <2>4, <2>5 DEF CancelTask
<1>25. ASSUME NEW c \in Caller, JoinTask(c)
     PROVE  TypeOK'
  <2>1. caller' \in [Caller -> Call]
    BY <1>25, CallerGotoType, CallerPcs DEF JoinTask, TypeOK
  <2>2. QED BY <1>25, <2>1 DEF JoinTask, TypeOK, localVars
<1>26. ASSUME NEW c \in Caller, EnsureTerminal(c)
     PROVE  TypeOK'
  <2>1. Begun \in SUBSET Attempt
    BY DEF Begun
  <2>2. caller' \in [Caller -> Call]
    BY <1>26, <2>1, NoCallType, CallerPcs DEF EnsureTerminal, TypeOK, Call
  <2>3. transfer' \in [Owner -> TransferCall]
    BY <1>26, StartTransferType, OutcomeOfType, Statuses DEF EnsureTerminal, TypeOK, Owner, OutcomeOf
  <2>4. faults' \in Faults
    BY <1>26, FaultType DEF EnsureTerminal, TypeOK
  <2>5. QED BY <1>26, <2>2, <2>3, <2>4 DEF EnsureTerminal, TypeOK, localVars
<1>27. ASSUME NEW c \in Caller, CallReturns(c)
     PROVE  TypeOK'
  <2>1. caller' \in [Caller -> Call]
    BY <1>27, NoCallType, CallerPcs DEF CallReturns, TypeOK, Call
  <2>2. transfer' \in [Owner -> TransferCall]
    BY <1>27, EndTransferType DEF CallReturns, TypeOK, Owner
  <2>3. QED BY <1>27, <2>1, <2>2 DEF CallReturns, TypeOK, localVars
<1>28. ASSUME NEW p \in Process, ScanMeta(p)
     PROVE  TypeOK'
  <2>1. reaper' \in [Process -> ReaperPc]
    BY <1>28, ReaperGotoType, ReaperPcs DEF ScanMeta, TypeOK
  <2>2. QED BY <1>28, <2>1 DEF ScanMeta, TypeOK, localVars
<1>29. ASSUME NEW p \in Process, FenceMeta(p)
     PROVE  TypeOK'
  <2>1. reaper' \in [Process -> ReaperPc]
    BY <1>29, ReaperGotoType, ReaperPcs DEF FenceMeta, TypeOK
  <2>2. meta' \in MetaHash
    BY <1>29, Reasons DEF FenceMeta, TypeOK, MetaHash
  <2>3. transfer' \in [Owner -> TransferCall]
    BY <1>29, StartTransferType, Statuses DEF FenceMeta, TypeOK, Owner
  <2>4. QED BY <1>29, <2>1, <2>2, <2>3 DEF FenceMeta, TypeOK, localVars
<1>30. ASSUME NEW p \in Process, ReapEnds(p)
     PROVE  TypeOK'
  <2>1. reaper' \in [Process -> ReaperPc]
    BY <1>30, ReaperGotoType, ReaperPcs DEF ReapEnds, TypeOK
  <2>2. transfer' \in [Owner -> TransferCall]
    BY <1>30, EndTransferType DEF ReapEnds, TypeOK, Owner
  <2>3. QED BY <1>30, <2>1, <2>2 DEF ReapEnds, TypeOK, localVars
<1>31. ASSUME NEW p \in Process, ListStaleRows(p)
     PROVE  TypeOK'
  <2>1. reaper' \in [Process -> ReaperPc]
    BY <1>31, ReaperGotoType, ReaperPcs DEF ListStaleRows, TypeOK
  <2>2. QED BY <1>31, <2>1 DEF ListStaleRows, TypeOK, localVars
<1>32. ASSUME NEW p \in Process, CheckGap(p)
     PROVE  TypeOK'
  <2>1. reaper' \in [Process -> ReaperPc]
    BY <1>32, ReaperGotoType, ReaperPcs DEF CheckGap, TypeOK
  <2>2. transfer' \in [Owner -> TransferCall]
    BY <1>32, StartTransferType, Statuses DEF CheckGap, TypeOK, Owner
  <2>3. QED BY <1>32, <2>1, <2>2 DEF CheckGap, TypeOK, localVars
<1>33. ASSUME NEW p \in Process, ReaperFails(p)
     PROVE  TypeOK'
  <2>1. reaper' \in [Process -> ReaperPc]
    BY <1>33, ReaperGotoType, ReaperPcs DEF ReaperFails, TypeOK
  <2>2. meta' \in MetaHash
    BY <1>33, Reasons DEF ReaperFails, TypeOK, MetaHash
  <2>3. faults' \in Faults
    BY <1>33, FaultType DEF ReaperFails, TypeOK
  <2>4. QED BY <1>33, <2>1, <2>2, <2>3 DEF ReaperFails, TypeOK, localVars
<1>44. ASSUME NEW p \in Process, ReaperDies(p)
     PROVE  TypeOK'
  <2>1. reaper' \in [Process -> ReaperPc]
    BY <1>44, ReaperGotoType, ReaperPcs DEF ReaperDies, TypeOK
  <2>2. transfer' \in [Owner -> TransferCall]
    BY <1>44, EndTransferType DEF ReaperDies, TypeOK, Owner
  <2>3. faults' \in Faults
    BY <1>44, FaultType DEF ReaperDies, TypeOK
  <2>4. QED BY <1>44, <2>1, <2>2, <2>3 DEF ReaperDies, TypeOK, localVars
<1>34. ASSUME NEW p \in Process, NEW a \in Attempt, Submit(p, a)
     PROVE  TypeOK'
  <2>1. executor' \in [Attempt -> Task]
    BY <1>34, ExecutorPcs, BeginType DEF Submit, TypeOK, Task
  <2>2. job' \in JobRow
    BY <1>34, Statuses DEF Submit, TypeOK, JobRow
  <2>3. QED BY <1>34, <2>1, <2>2 DEF Submit, TypeOK, localVars
<1>35. ASSUME NEW p \in Process, NEW a \in Attempt, RetryCheck(p, a)
     PROVE  TypeOK'
  <2>1. executor' \in [Attempt -> Task]
    BY <1>35, ExecutorPcs, BeginType DEF RetryCheck, TypeOK, Task
  <2>2. QED BY <1>35, <2>1 DEF RetryCheck, TypeOK, localVars
<1>36. ASSUME NEW p \in Process, NEW c \in Caller, NEW reason \in {"cancelled", "client_disconnected"}, RequestCancel(c, p, reason)
     PROVE  TypeOK'
  <2>1. caller' \in [Caller -> Call]
    BY <1>36, CallerPcs, Reasons DEF RequestCancel, TypeOK, Call
  <2>2. QED BY <1>36, <2>1 DEF RequestCancel, TypeOK, localVars
<1>37. ASSUME NEW p \in Process, NEW c \in Caller, RequestShutdown(c, p)
     PROVE  TypeOK'
  <2>1. caller' \in [Caller -> Call]
    BY <1>37, CallerPcs, Reasons DEF RequestShutdown, TypeOK, Call
  <2>2. cancelReason' \in [Process -> Reason]
    BY <1>37, Reasons DEF RequestShutdown, TypeOK
  <2>3. QED BY <1>37, <2>1, <2>2 DEF RequestShutdown, TypeOK, localVars
<1>38. CASE HeartbeatLapses
  <2>1. meta' \in MetaHash
    BY <1>38 DEF HeartbeatLapses, TypeOK, MetaHash
  <2>2. QED BY <1>38, <2>1 DEF HeartbeatLapses, TypeOK, localVars
<1>39. CASE RowLapses
  <2>1. job' \in JobRow
    BY <1>39 DEF RowLapses, TypeOK, JobRow
  <2>2. QED BY <1>39, <2>1 DEF RowLapses, TypeOK, localVars
<1>40. CASE MetaExpires
  <2>1. meta' \in MetaHash
    BY <1>40, Statuses, Reasons DEF MetaExpires, TypeOK, MetaHash, NoMeta
  <2>2. faults' \in Faults
    BY <1>40, FaultType DEF MetaExpires, TypeOK
  <2>3. QED BY <1>40, <2>1, <2>2 DEF MetaExpires, TypeOK, localVars
<1>41. ASSUME NEW p \in Process, Crash(p)
     PROVE  TypeOK'
  <2>1. executor' \in [Attempt -> Task]
    BY <1>41, ExecutorPcs DEF Crash, TypeOK, Task
  <2>2. transfer' \in [Owner -> TransferCall]
    BY <1>41, TransferPcs, Statuses DEF Crash, TypeOK, TransferCall, NoTransfer
  <2>3. caller' \in [Caller -> Call]
    BY <1>41, NoCallType, CallerPcs DEF Crash, TypeOK
  <2>4. taskDictionary' \in [Process -> Attempt \union {None}]
    BY <1>41 DEF Crash, TypeOK
  <2>5. cancelReason' \in [Process -> Reason]
    BY <1>41, Reasons DEF Crash, TypeOK
  <2>6. reaper' \in [Process -> ReaperPc]
    BY <1>41, ReaperPcs DEF Crash, TypeOK
  <2>7. faults' \in Faults
    BY <1>41, FaultType DEF Crash, TypeOK
  <2>8. QED BY <1>41, <2>1, <2>2, <2>3, <2>4, <2>5, <2>6, <2>7 DEF Crash, TypeOK, localVars
<1>42. CASE UNCHANGED vars
  BY <1>42 DEF vars, TypeOK
<1>43. QED
  BY <1>1, <1>2, <1>3, <1>4, <1>5, <1>6, <1>7, <1>8, <1>9, <1>10, <1>11,
     <1>12, <1>13, <1>14, <1>15, <1>16, <1>17, <1>18, <1>19, <1>20, <1>21,
     <1>22, <1>23, <1>24, <1>25, <1>26, <1>27, <1>28, <1>29, <1>30, <1>31,
     <1>32, <1>33, <1>44, <1>34, <1>35, <1>36, <1>37, <1>38, <1>39, <1>40, <1>41,
     <1>42, ConstantsAssumption DEF Next, SubmissionStep, TaskStep,
     TransferStep, CallerStep, ReaperStep, Demand, Cancel, Disconnect, Environment,
     ConstantsAssumption

-----------------------------------------------------------------------------
(* Who writes PostgreSQL: every other step leaves the row, but for its age, *)
(* and the chunk rows alone.                                                *)

RowKept == /\ job'.status = job.status
           /\ job'.chunkCount = job.chunkCount
           /\ UNCHANGED chunkRow

RowWritten ==
    \/ \E p \in Process, a \in Attempt : Submit(p, a)
    \/ \E a \in Attempt : RetryReset(a) \/ GiveUpAttempt(a) \/ MarkRunning(a)
    \/ \E o \in Owner : Commit(o) \/ CommitFails(o) \/ FlushStatusOnly(o)

LEMMA RowWriters ==
    ASSUME TypeOK, [Next]_vars
    PROVE  RowKept \/ RowWritten
<1>1. ASSUME NEW a \in Attempt, SubmissionStep(a) \/ TaskStep(a) \/ Heartbeat(a)
      PROVE  RowKept \/ RowWritten
  BY <1>1 DEF SubmissionStep, TaskStep, RowKept, RowWritten, StoreUserMessages, InitializeMeta,
     InitializeMetaFails, FirstStep, StartMeta, BufferChunk, PublishChunk, ReadReason,
     StreamEnds, ExecutionFails, Flush, TaskEnds, Heartbeat
<1>2. ASSUME NEW o \in Owner, TransferStep(o)
      PROVE  RowKept \/ RowWritten
  BY <1>2 DEF TransferStep, RowKept, RowWritten, Reread, PublishTerminal
<1>3. ASSUME NEW c \in Caller, CallerStep(c)
      PROVE  RowKept \/ RowWritten
  BY <1>3 DEF CallerStep, RowKept, SetLocalReason, AskRedis, CancelTask, JoinTask,
     EnsureTerminal, CallReturns
<1>4. ASSUME NEW p \in ReaperProcess, ReaperStep(p)
      PROVE  RowKept \/ RowWritten
  BY <1>4 DEF ReaperStep, RowKept, ScanMeta, FenceMeta, ReapEnds, ListStaleRows, CheckGap,
     ReaperFails, ReaperDies
<1>5. ASSUME NEW p \in Process, Demand(p)
      PROVE  RowKept \/ RowWritten
  BY <1>5 DEF Demand, RowKept, RowWritten, RetryCheck, Cancel, Disconnect, RequestCancel, RequestShutdown
<1>6. CASE Environment
  <2>1. CASE RowLapses
    BY <2>1 DEF RowLapses, RowKept, TypeOK, JobRow
  <2>2. QED BY <1>6, <2>1 DEF Environment, RowKept, HeartbeatLapses, MetaExpires, Crash
<1>7. CASE UNCHANGED vars
  BY <1>7 DEF vars, RowKept
<1>8. QED BY <1>1, <1>2, <1>3, <1>4, <1>5, <1>6, <1>7 DEF Next

LEMMA FiniteRowsStep ==
    ASSUME TypeInv, [Next]_vars
    PROVE  FiniteRows'
<1> USE DEF TypeInv
<1>1. ASSUME NEW o \in Owner, CommitEffect(o)
      PROVE  FiniteRows'
  BY <1>1, ChunksOfFinite, InsertedFinite DEF CommitEffect, FiniteRows
<1>2. UNCHANGED chunkRow \/ \E o \in Owner : CommitEffect(o)
  BY RowWriters DEF RowKept, RowWritten, Submit, RetryReset, GiveUpAttempt, MarkRunning, Commit,
     CommitFails, FlushStatusOnly
<1>3. QED BY <1>1, <1>2 DEF FiniteRows

(* Who moves a call. *)
LEMMA CallWriters ==
    ASSUME TypeOK, [Next]_vars
    PROVE  \/ UNCHANGED caller
           \/ \E c \in Caller : CallerStep(c)
           \/ \E p \in Process, c \in Caller : RequestShutdown(c, p)
           \/ \E p \in Process, c \in Caller, reason \in {"cancelled", "client_disconnected"} :
                  RequestCancel(c, p, reason)
           \/ \E p \in Process : Crash(p)
<1>1. ASSUME NEW a \in Attempt, SubmissionStep(a) \/ TaskStep(a) \/ Heartbeat(a)
      PROVE  UNCHANGED caller
  BY <1>1 DEF SubmissionStep, TaskStep, StoreUserMessages, RetryReset, GiveUpAttempt,
     MarkRunning, InitializeMeta, InitializeMetaFails, FirstStep, StartMeta, BufferChunk,
     PublishChunk, ReadReason, StreamEnds, ExecutionFails, Flush, TaskEnds, Heartbeat
<1>2. ASSUME NEW o \in Owner, TransferStep(o)
      PROVE  UNCHANGED caller
  BY <1>2 DEF TransferStep, Commit, CommitFails, FlushStatusOnly, Reread, PublishTerminal
<1>3. ASSUME NEW p \in ReaperProcess, ReaperStep(p)
      PROVE  UNCHANGED caller
  BY <1>3 DEF ReaperStep, ScanMeta, FenceMeta, ReapEnds, ListStaleRows, CheckGap, ReaperFails, ReaperDies
<1>4. QED BY <1>1, <1>2, <1>3
      DEF Next, Demand, Cancel, Disconnect, Environment, Submit, RetryCheck, HeartbeatLapses, RowLapses,
          MetaExpires, vars

LEMMA TaskHeldStep ==
    ASSUME TypeInv, [Next]_vars
    PROVE  TaskHeld'
<1> USE DEF TypeInv, TaskHeld, TypeOK
<1>1. ASSUME NEW c \in Caller, CallerStep(c)
      PROVE  TaskHeld'
  BY <1>1 DEF CallerStep, Call, CallerGoto, NoCall, SetLocalReason, AskRedis, CancelTask,
     JoinTask, EnsureTerminal, CallReturns
<1>2. ASSUME NEW p \in Process, NEW c \in Caller, RequestShutdown(c, p)
      PROVE  TaskHeld'
  BY <1>2 DEF RequestShutdown, Call
<1>3. ASSUME NEW p \in Process, NEW c \in Caller,
             NEW reason \in {"cancelled", "client_disconnected"}, RequestCancel(c, p, reason)
      PROVE  TaskHeld'
  BY <1>3 DEF RequestCancel, Call
<1>4. ASSUME NEW p \in Process, Crash(p)
      PROVE  TaskHeld'
  BY <1>4 DEF Crash, NoCall
<1>5. QED BY <1>1, <1>2, <1>3, <1>4, CallWriters

LEMMA TypeInvariance == Spec => []TypeInv
<1>1. Init => TypeInv
  <2> SUFFICES ASSUME Init PROVE TypeInv
    OBVIOUS
  <2> USE ExecutorPcs, TransferPcs, CallerPcs, ReaperPcs, Statuses, Reasons DEF Init
  <2>1. job \in JobRow /\ meta \in MetaHash
    BY DEF JobRow, MetaHash, NoMeta
  <2>2. executor \in [Attempt -> Task]
    BY ConstantsAssumption DEF ConstantsAssumption, Task, Outcome
  <2>3. transfer \in [Owner -> TransferCall]
    BY DEF TransferCall, NoTransfer
  <2>4. caller \in [Caller -> Call]
    BY NoCallType
  <2>5. FiniteRows /\ TaskHeld
    BY FS_EmptySet DEF FiniteRows, TaskHeld, NoCall
  <2>6. faults \in Faults
    BY ConstantsAssumption DEF ConstantsAssumption, Faults
  <2>7. QED BY <2>1, <2>2, <2>3, <2>4, <2>5, <2>6, ConstantsAssumption
        DEF TypeInv, TypeOK, ConstantsAssumption
<1>2. TypeInv /\ [Next]_vars => TypeInv'
  BY TypeStep, FiniteRowsStep, TaskHeldStep DEF TypeInv
<1>3. QED BY <1>1, <1>2, PTL DEF Spec

(* The variables keep their types: no task, call, transfer or reaper is     *)
(* ever where its code has no such place, whatever crashes and overtakes.   *)
THEOREM TypeCorrect == Spec => []TypeOK
<1>1. TypeInv => TypeOK
  BY DEF TypeInv
<1>2. QED BY <1>1, TypeInvariance, PTL

-----------------------------------------------------------------------------
(* Redis and PostgreSQL. *)

(* A completed or cancelled row is never touched again. *)
LEMMA EndingIsFinal ==
    ASSUME TypeOK, [Next]_vars, job.status \in {"completed", "cancelled"}
    PROVE  RowKept
<1>1. ASSUME NEW o \in Owner, CommitEffect(o)
      PROVE  RowKept
  BY <1>1 DEF CommitEffect, RowKept, Active
<1>2. QED BY <1>1, RowWriters
      DEF RowKept, RowWritten, Submit, RetryReset, GiveUpAttempt, MarkRunning, Commit,
          CommitFails, FlushStatusOnly, Finished, Active

(* A transfer starts to publish what the row says, or a failure. *)
LEMMA PublicationBegins ==
    ASSUME TypeOK, [Next]_vars, NEW o \in Owner, transfer'[o].pc = "publish"
    PROVE  transfer'[o] = transfer[o] \/ transfer'[o].status \in {job'.status, "failed"}
<1> USE DEF TypeOK
<1>1. ASSUME NEW x \in Owner, NEW status \in Status, StartTransfer(x, status)
      PROVE  transfer'[o] = transfer[o]
  BY <1>1 DEF StartTransfer, TransferCall
<1>2. ASSUME NEW x \in Owner, EndTransfer(x)
      PROVE  transfer'[o] = transfer[o]
  BY <1>2 DEF EndTransfer, NoTransfer, TransferCall
<1>3. ASSUME NEW x \in Owner, NEW pc \in TransferPc \ {"publish"}, Step(x, pc)
      PROVE  transfer'[o] = transfer[o]
  BY <1>3 DEF Step, TransferCall
<1>4. ASSUME NEW a \in Attempt, NEW outcome, Unwind(a, outcome)
      PROVE  transfer'[o] = transfer[o]
  BY <1>4 DEF Unwind, StartTransfer, Owner, TransferCall
<1>5. ASSUME NEW x \in Owner, TransferStep(x)
      PROVE  transfer'[o] = transfer[o] \/ transfer'[o].status \in {job'.status, "failed"}
  <2>1. CASE Commit(x)
    BY <2>1 DEF Commit, CommitEffect, Finished, Step, TransferCall
  <2>2. CASE CommitFails(x)
    BY <2>2 DEF CommitFails, Step, TransferCall
  <2>3. CASE FlushStatusOnly(x)
    BY <2>3 DEF FlushStatusOnly, TransferCall
  <2>4. CASE Reread(x)
    BY <2>4 DEF Reread, Step, TransferCall
  <2>5. CASE PublishTerminal(x)
    BY <2>5 DEF PublishTerminal, Step, TransferCall
  <2>6. QED BY <1>5, <2>1, <2>2, <2>3, <2>4, <2>5 DEF TransferStep
<1>6. ASSUME NEW a \in Attempt, SubmissionStep(a) \/ TaskStep(a) \/ Heartbeat(a)
      PROVE  transfer'[o] = transfer[o]
  BY <1>2, <1>4, <1>6
     DEF SubmissionStep, TaskStep, StoreUserMessages, RetryReset, GiveUpAttempt,
         MarkRunning, InitializeMeta, InitializeMetaFails, FirstStep, StartMeta, BufferChunk,
         PublishChunk, ReadReason, StreamEnds, ExecutionFails, Flush, StartTransfer, TransferCall,
         TaskEnds, Heartbeat, Owner
<1>7. ASSUME NEW c \in Caller, CallerStep(c)
      PROVE  transfer'[o] = transfer[o]
  <2>1. CASE CancelTask(c)
    BY <1>7, <2>1 DEF CancelTask, Unwind, StartTransfer, TransferCall
  <2>2. QED BY <1>2, <1>7, <2>1
        DEF CallerStep, SetLocalReason, AskRedis, JoinTask, EnsureTerminal, StartTransfer,
            TransferCall, CallReturns, Owner
<1>8. ASSUME NEW p \in ReaperProcess, ReaperStep(p)
      PROVE  transfer'[o] = transfer[o]
  BY <1>2, <1>8, ConstantsAssumption
     DEF ReaperStep, ScanMeta, FenceMeta, StartTransfer, TransferCall, ReapEnds, ListStaleRows,
         CheckGap, ReaperFails, ReaperDies, Owner, ConstantsAssumption
<1>9. CASE Environment
  BY <1>9 DEF Environment, HeartbeatLapses, RowLapses, MetaExpires, Crash, NoTransfer
<1>10. CASE \E p \in Process : Demand(p)
  BY <1>10 DEF Demand, Submit, RetryCheck, Cancel, Disconnect, RequestCancel, RequestShutdown
<1>11. CASE UNCHANGED vars
  BY <1>11 DEF vars
<1>12. QED BY <1>5, <1>6, <1>7, <1>8, <1>9, <1>10, <1>11 DEF Next

(* The hash takes an ending from a transfer that publishes it. *)
LEMMA HashTakesEnding ==
    ASSUME TypeOK, [Next]_vars, meta'.status \in {"completed", "cancelled"}
    PROVE  \/ meta'.status = meta.status
           \/ \E o \in Owner : transfer[o].pc = "publish" /\ meta'.status = transfer[o].status
<1> USE DEF TypeOK, MetaHash
<1>1. ASSUME NEW a \in Attempt, SubmissionStep(a) \/ TaskStep(a) \/ Heartbeat(a)
      PROVE  meta'.status = meta.status
  <2>1. CASE InitializeMeta(a) \/ StartMeta(a)
    <3>1. CASE InitializeMeta(a)
      BY <3>1 DEF InitializeMeta
    <3>2. CASE StartMeta(a)
      <4>1. meta'.status \in {meta.status, "running"}
        BY <3>2 DEF StartMeta
      <4>2. QED BY <4>1
    <3>3. QED BY <2>1, <3>1, <3>2
  <2>2. CASE PublishChunk(a) \/ Heartbeat(a)
    BY <2>2 DEF PublishChunk, Heartbeat
  <2>3. QED BY <1>1, <2>1, <2>2
        DEF SubmissionStep, TaskStep, StoreUserMessages, RetryReset, GiveUpAttempt, MarkRunning,
            InitializeMetaFails, FirstStep, BufferChunk, ReadReason, StreamEnds, ExecutionFails,
            Flush, TaskEnds
<1>2. ASSUME NEW o \in Owner, TransferStep(o)
      PROVE  meta'.status = meta.status \/ (transfer[o].pc = "publish" /\ meta'.status = transfer[o].status)
  BY <1>2 DEF TransferStep, Commit, CommitFails, FlushStatusOnly, Reread, PublishTerminal
<1>3. ASSUME NEW c \in Caller, CallerStep(c)
      PROVE  meta'.status = meta.status
  BY <1>3 DEF CallerStep, SetLocalReason, AskRedis, CancelTask, JoinTask, EnsureTerminal, CallReturns
<1>4. ASSUME NEW p \in ReaperProcess, ReaperStep(p)
      PROVE  meta'.status = meta.status
  BY <1>4 DEF ReaperStep, ScanMeta, FenceMeta, ReapEnds, ListStaleRows, CheckGap, ReaperFails, ReaperDies
<1>5. CASE Environment
  BY <1>5 DEF Environment, HeartbeatLapses, RowLapses, MetaExpires, NoMeta, Crash
<1>6. CASE \E p \in Process : Demand(p)
  BY <1>6 DEF Demand, Submit, RetryCheck, Cancel, Disconnect, RequestCancel, RequestShutdown
<1>7. CASE UNCHANGED vars
  BY <1>7 DEF vars
<1>8. QED BY <1>1, <1>2, <1>3, <1>4, <1>5, <1>6, <1>7 DEF Next

(* Neither a late publication nor a lost race makes Redis claim a completed *)
(* or a cancelled job that PostgreSQL does not have.                        *)
THEOREM EndingsAreTrue == Spec => []PublishedEndingsAreTrue
<1>1. Init => PublishedEndingsAreTrue
  BY DEF Init, PublishedEndingsAreTrue, Claims, NoMeta, NoTransfer
<1>2. TypeInv /\ PublishedEndingsAreTrue /\ [Next]_vars => PublishedEndingsAreTrue'
  <2> SUFFICES ASSUME TypeInv, PublishedEndingsAreTrue, [Next]_vars,
                      NEW s \in {"completed", "cancelled"}, s \in Claims'
               PROVE  job'.status = s
    BY DEF PublishedEndingsAreTrue
  <2> USE DEF TypeInv
  <2>1. s \in Claims => job'.status = s
    BY EndingIsFinal DEF PublishedEndingsAreTrue, RowKept
  <2>2. CASE meta'.status = s
    BY <2>1, <2>2, HashTakesEnding DEF Claims
  <2>3. CASE \E o \in Owner : transfer'[o].pc = "publish" /\ transfer'[o].status = s
    BY <2>1, <2>3, PublicationBegins DEF Claims
  <2>4. QED BY <2>2, <2>3 DEF Claims
<1>3. QED BY <1>1, <1>2, TypeInvariance, PTL DEF Spec

-----------------------------------------------------------------------------
(* The chunk rows.  What an attempt has buffered is fixed once its task has *)
(* handed it to a transfer, so that the rows the transfer stores are, and   *)
(* stay, the chunks of that attempt.                                        *)

Settled(a) == executor[a].pc \in {"flushing", "done"}

(* A task that unwinds has an outcome. *)
Unwound == \A a \in Attempt : executor[a].pc = "finishing" => executor[a].outcome # "none"

(* A transfer of an attempt carries the buffers of a settled task, and only *)
(* such a transfer can complete the job.                                    *)
TransfersOfSettled ==
    /\ \A a \in Attempt : transfer[a].pc # "idle" => Settled(a)
    /\ \A a \in Attempt : transfer[a].pc = "commit" =>
                             transfer[a].status = FinalStatus(executor[a].outcome)
    /\ \A o \in Owner : transfer[o].pc = "commit" => transfer[o].status \in Terminal
    /\ \A o \in Owner \ Attempt : transfer[o].pc = "commit" => transfer[o].status # "completed"

RowsSettled ==
    /\ job.status \notin Terminal => chunkRow = {}
    /\ job.chunkCount = Cardinality(chunkRow)
    /\ chunkRow # {} => \E a \in Attempt : Settled(a) /\ chunkRow = ChunksOf(a)
    /\ job.status = "completed" =>
          \E a \in Attempt : /\ Settled(a)
                            /\ FinalStatus(executor[a].outcome) = "completed"
                            /\ chunkRow = ChunksOf(a)

RowInv == Unwound /\ TransfersOfSettled /\ RowsSettled

(* A settled task keeps its chunks and its outcome. *)
LEMMA SettledStays ==
    ASSUME TypeInv, [Next]_vars, NEW a \in Attempt, Settled(a)
    PROVE  /\ Settled(a)'
           /\ executor'[a].chunks = executor[a].chunks
           /\ executor'[a].outcome = executor[a].outcome
<1> DEFINE Kept == /\ Settled(a)'
                   /\ executor'[a].chunks = executor[a].chunks
                   /\ executor'[a].outcome = executor[a].outcome
<1> USE DEF TypeInv, TypeOK, Settled
<1>1. ASSUME UNCHANGED executor PROVE Kept
  BY <1>1
<1>2. ASSUME NEW b \in Attempt, TaskEnded(b) PROVE Kept
  BY <1>2 DEF TaskEnded, Goto, Task
<1>3. ASSUME NEW b \in Attempt, NEW outcome, executor[b].pc \notin {"flushing", "done"},
             Unwind(b, outcome)
      PROVE  Kept
  BY <1>3 DEF Unwind, Task
<1>4. ASSUME NEW b \in Attempt, NEW pc, executor[b].pc \notin {"flushing", "done"}, Goto(b, pc)
      PROVE  Kept
  BY <1>4 DEF Goto, Task
<1>5. ASSUME NEW b \in Attempt, SubmissionStep(b)
      PROVE  Kept
  <2>1. CASE RetryReset(b)
    BY <2>1, <1>4 DEF RetryReset, Task
  <2>2. QED BY <1>4, <1>5, <2>1
        DEF SubmissionStep, StoreUserMessages, InitializeMeta, InitializeMetaFails, GiveUpAttempt
<1>6. ASSUME NEW b \in Attempt, TaskStep(b) \/ Heartbeat(b)
      PROVE  Kept
  <2>1. CASE BufferChunk(b)
    BY <2>1 DEF BufferChunk, Task
  <2>2. CASE FirstStep(b) \/ StartMeta(b) \/ PublishChunk(b) \/ Flush(b)
    BY <1>4, <2>2 DEF FirstStep, StartMeta, PublishChunk, Flush
  <2>3. CASE MarkRunning(b) \/ ReadReason(b) \/ StreamEnds(b) \/ ExecutionFails(b) \/ Heartbeat(b)
    BY <1>1, <1>3, <1>4, <2>3
       DEF MarkRunning, ReadReason, StreamEnds, ExecutionFails, Heartbeat, Trying, Beating
  <2>4. CASE TaskEnds(b)
    BY <1>2, <2>4 DEF TaskEnds
  <2>5. QED BY <1>6, <2>1, <2>2, <2>3, <2>4 DEF TaskStep
<1>7. ASSUME NEW o \in Owner, TransferStep(o)
      PROVE  Kept
  BY <1>1, <1>7 DEF TransferStep, Commit, CommitFails, FlushStatusOnly, Reread, PublishTerminal
<1>8. ASSUME NEW c \in Caller, CallerStep(c)
      PROVE  Kept
  <2>1. CASE CancelTask(c)
    <3>1. caller[c].task \in Attempt
      BY <2>1 DEF CancelTask, TaskHeld
    <3>2. QED BY <1>1, <1>2, <1>3, <2>1, <3>1 DEF CancelTask, Trying, Beating
  <2>2. QED BY <1>1, <1>8, <2>1
        DEF CallerStep, SetLocalReason, AskRedis, JoinTask, EnsureTerminal, CallReturns
<1>9. ASSUME NEW p \in ReaperProcess, ReaperStep(p)
      PROVE  Kept
  BY <1>1, <1>9 DEF ReaperStep, ScanMeta, FenceMeta, ReapEnds, ListStaleRows, CheckGap, ReaperFails, ReaperDies
<1>10. ASSUME NEW p \in Process, Demand(p)
       PROVE  Kept
  <2>1. ASSUME NEW b \in Attempt, Submit(p, b) \/ RetryCheck(p, b)
        PROVE  Kept
    BY <2>1 DEF Submit, RetryCheck, Task
  <2>2. QED BY <1>1, <1>10, <2>1 DEF Demand, Cancel, Disconnect, RequestCancel, RequestShutdown
<1>11. CASE Environment
  <2>1. ASSUME NEW p \in Process, Crash(p)
        PROVE  Kept
    BY <2>1 DEF Crash, Task
  <2>2. QED BY <1>1, <1>11, <2>1 DEF Environment, HeartbeatLapses, RowLapses, MetaExpires
<1>12. CASE UNCHANGED vars
  BY <1>1, <1>12 DEF vars
<1>13. QED BY <1>5, <1>6, <1>7, <1>8, <1>9, <1>10, <1>11, <1>12 DEF Next

LEMMA SettledChunks ==
    ASSUME TypeInv, [Next]_vars, NEW a \in Attempt, Settled(a)
    PROVE  ChunksOf(a)' = ChunksOf(a)
BY SettledStays DEF ChunksOf

LEMMA UnwoundStep ==
    ASSUME TypeInv, Unwound, [Next]_vars
    PROVE  Unwound'
<1> USE DEF TypeInv, TypeOK, Unwound
<1>1. ASSUME UNCHANGED executor PROVE Unwound'
  BY <1>1
<1>2. ASSUME NEW a \in Attempt, NEW pc \in ExecutorPc \ {"finishing"}, Goto(a, pc)
      PROVE  Unwound'
  BY <1>2 DEF Goto, Task
<1>3. ASSUME NEW a \in Attempt, NEW outcome, outcome # "none", Unwind(a, outcome)
      PROVE  Unwound'
  BY <1>3 DEF Unwind, Task
<1>4. ASSUME NEW a \in Attempt, SubmissionStep(a)
      PROVE  Unwound'
  <2>1. CASE RetryReset(a)
    BY <1>2, <2>1, ExecutorPcs DEF RetryReset, Task
  <2>2. QED BY <1>2, <1>4, <2>1, ExecutorPcs
        DEF SubmissionStep, StoreUserMessages, InitializeMeta, InitializeMetaFails, GiveUpAttempt
<1>5. ASSUME NEW a \in Attempt, TaskStep(a) \/ Heartbeat(a)
      PROVE  Unwound'
  <2>1. CASE BufferChunk(a)
    BY <2>1 DEF BufferChunk, Task
  <2>2. CASE FirstStep(a) \/ StartMeta(a) \/ PublishChunk(a) \/ Flush(a) \/ TaskEnds(a)
    BY <1>2, <2>2, ExecutorPcs DEF FirstStep, StartMeta, PublishChunk, Flush, TaskEnds, TaskEnded
  <2>3. CASE MarkRunning(a) \/ ReadReason(a) \/ StreamEnds(a) \/ ExecutionFails(a) \/ Heartbeat(a)
    BY <1>1, <1>2, <1>3, <2>3, ExecutorPcs
       DEF MarkRunning, ReadReason, StreamEnds, ExecutionFails, Heartbeat, OutcomeOf
  <2>4. QED BY <1>5, <2>1, <2>2, <2>3 DEF TaskStep
<1>6. ASSUME NEW o \in Owner, TransferStep(o)
      PROVE  Unwound'
  BY <1>1, <1>6 DEF TransferStep, Commit, CommitFails, FlushStatusOnly, Reread, PublishTerminal
<1>7. ASSUME NEW c \in Caller, CallerStep(c)
      PROVE  Unwound'
  <2>1. CASE CancelTask(c)
    <3>1. caller[c].task \in Attempt
      BY <2>1 DEF CancelTask, TaskHeld
    <3>2. QED BY <1>1, <1>2, <1>3, <2>1, <3>1, ExecutorPcs DEF CancelTask, TaskEnded, OutcomeOf
  <2>2. QED BY <1>1, <1>7, <2>1
        DEF CallerStep, SetLocalReason, AskRedis, JoinTask, EnsureTerminal, CallReturns
<1>8. ASSUME NEW p \in ReaperProcess, ReaperStep(p)
      PROVE  Unwound'
  BY <1>1, <1>8 DEF ReaperStep, ScanMeta, FenceMeta, ReapEnds, ListStaleRows, CheckGap, ReaperFails, ReaperDies
<1>9. ASSUME NEW p \in Process, Demand(p)
      PROVE  Unwound'
  <2>1. ASSUME NEW a \in Attempt, Submit(p, a) \/ RetryCheck(p, a)
        PROVE  Unwound'
    BY <2>1 DEF Submit, RetryCheck, Task
  <2>2. QED BY <1>1, <1>9, <2>1 DEF Demand, Cancel, Disconnect, RequestCancel, RequestShutdown
<1>10. CASE Environment
  <2>1. ASSUME NEW p \in Process, Crash(p)
        PROVE  Unwound'
    BY <2>1 DEF Crash, Task
  <2>2. QED BY <1>1, <1>10, <2>1 DEF Environment, HeartbeatLapses, RowLapses, MetaExpires
<1>11. CASE UNCHANGED vars
  BY <1>1, <1>11 DEF vars
<1>12. QED BY <1>4, <1>5, <1>6, <1>7, <1>8, <1>9, <1>10, <1>11 DEF Next

(* What a step does to the transfer of an owner: nothing, or it begins one  *)
(* with an ending of its own, or it moves one on, or it drops it.           *)
Begins(o) ==
    /\ transfer'[o].pc = "commit"
    /\ transfer'[o].status \in Terminal
    /\ o \in Attempt => Settled(o)' /\ transfer'[o].status = FinalStatus(executor'[o].outcome)
    /\ o \notin Attempt => transfer'[o].status # "completed"

MovesOn(o) ==
    /\ transfer'[o].pc # "commit"
    /\ transfer'[o].pc # "idle" => transfer[o].pc # "idle"

LEMMA UnwindBegins ==
    ASSUME TypeInv, NEW a \in Attempt, NEW outcome \in {"skipped"} \union Terminal,
           NEW o \in Owner, Unwind(a, outcome)
    PROVE  transfer'[o] = transfer[o] \/ Begins(o)
<1> USE DEF TypeInv, TypeOK
<1>1. CASE o = a /\ executor[a].pc \notin Beating
  <2>1. transfer'[o] = [pc |-> "commit", status |-> FinalStatus(outcome)]
    BY <1>1 DEF Unwind, StartTransfer
  <2>2. executor'[a].pc = "flushing" /\ executor'[a].outcome = outcome
    BY <1>1 DEF Unwind, Task
  <2>3. QED BY <1>1, <2>1, <2>2, FinalStatusType DEF Begins, Settled
<1>2. CASE o # a \/ executor[a].pc \in Beating
  BY <1>2 DEF Unwind, StartTransfer
<1>3. QED BY <1>1, <1>2

LEMMA TransferWriters ==
    ASSUME TypeInv, Unwound, [Next]_vars, NEW o \in Owner
    PROVE  transfer'[o] = transfer[o] \/ Begins(o) \/ MovesOn(o)
<1> DEFINE Goal == transfer'[o] = transfer[o] \/ Begins(o) \/ MovesOn(o)
<1> USE DEF TypeInv, TypeOK
<1>1. ASSUME NEW x \in Owner \ Attempt, NEW status \in {"failed", "cancelled"}, StartTransfer(x, status)
      PROVE  Goal
  BY <1>1, Endings DEF StartTransfer, Begins
<1>2. ASSUME NEW x \in Owner, EndTransfer(x)
      PROVE  Goal
  BY <1>2 DEF EndTransfer, NoTransfer, MovesOn
<1>3. ASSUME NEW x \in Owner, TransferStep(x)
      PROVE  Goal
  <2>1. ASSUME NEW pc \in {"statusOnly", "reread", "publish", "done"},
               transfer[x].pc # "idle", Step(x, pc)
        PROVE  Goal
    BY <2>1 DEF Step, MovesOn, TransferCall
  <2>2. CASE FlushStatusOnly(x)
    BY <2>2 DEF FlushStatusOnly, MovesOn
  <2>3. CASE Reread(x)
    BY <2>1, <2>3 DEF Reread, MovesOn
  <2>4. QED BY <1>3, <2>1, <2>2, <2>3 DEF TransferStep, Commit, CommitFails, PublishTerminal
<1>4. ASSUME NEW a \in Attempt, TaskStep(a) \/ Heartbeat(a)
      PROVE  Goal
  <2>1. CASE Flush(a)
    <3>1. transfer'[a] = [pc |-> "commit", status |-> FinalStatus(executor[a].outcome)]
      BY <2>1 DEF Flush, StartTransfer, Owner
    <3>2. executor'[a].pc = "flushing" /\ executor'[a].outcome = executor[a].outcome
      BY <2>1 DEF Flush, Goto, Task
    <3>3. CASE o = a
      <4>1. executor[a].outcome \in {"skipped"} \union Terminal
        <5>1. executor[a].outcome \in Outcome
          BY DEF Task
        <5>2. executor[a].outcome # "none"
          BY <2>1 DEF Flush, Unwound
        <5>3. QED BY ONLY <5>1, <5>2 DEF Outcome
      <4>2. /\ transfer'[a].pc = "commit"
            /\ transfer'[a].status = FinalStatus(executor'[a].outcome)
            /\ transfer'[a].status \in Terminal
        <5>1. FinalStatus(executor[a].outcome) \in Terminal
          BY ONLY <4>1, FinalStatusType
        <5>2. QED BY <3>1, <3>2, <5>1
      <4>3. QED BY <3>2, <3>3, <4>2 DEF Begins, Settled
    <3>4. CASE o # a
      BY <2>1, <3>4 DEF Flush, StartTransfer
    <3>5. QED BY <3>3, <3>4
  <2>2. CASE MarkRunning(a) \/ ReadReason(a) \/ StreamEnds(a) \/ ExecutionFails(a) \/ Heartbeat(a)
    BY <2>2, UnwindBegins, OutcomeOfType, Endings
       DEF MarkRunning, ReadReason, StreamEnds, ExecutionFails, Heartbeat
  <2>3. CASE TaskEnds(a)
    BY <1>2, <2>3 DEF TaskEnds, Owner
  <2>4. QED BY <1>4, <2>1, <2>2, <2>3
        DEF TaskStep, FirstStep, StartMeta, BufferChunk, PublishChunk
<1>5. ASSUME NEW a \in Attempt, SubmissionStep(a)
      PROVE  Goal
  BY <1>5 DEF SubmissionStep, StoreUserMessages, RetryReset, InitializeMeta,
     InitializeMetaFails, GiveUpAttempt
<1>6. ASSUME NEW c \in Caller, CallerStep(c)
      PROVE  Goal
  <2>1. CASE CancelTask(c)
    <3>1. caller[c].task \in Attempt
      BY <2>1 DEF CancelTask, TaskHeld
    <3>2. QED BY <2>1, <3>1, UnwindBegins, OutcomeOfType DEF CancelTask
  <2>2. CASE EnsureTerminal(c)
    BY <1>1, <2>2, OutcomeOfType, ConstantsAssumption
       DEF EnsureTerminal, Owner, ConstantsAssumption
  <2>3. QED BY <1>2, <1>6, <2>1, <2>2
        DEF CallerStep, SetLocalReason, AskRedis, JoinTask, CallReturns, Owner
<1>7. ASSUME NEW p \in ReaperProcess, ReaperStep(p)
      PROVE  Goal
  <2>1. p \in Owner \ Attempt
    BY <1>7, ConstantsAssumption DEF Owner, ConstantsAssumption
  <2>2. QED BY <1>1, <1>2, <1>7, <2>1
        DEF ReaperStep, ScanMeta, FenceMeta, ReapEnds, ListStaleRows, CheckGap, ReaperFails, ReaperDies
<1>8. CASE Environment
  BY <1>8 DEF Environment, HeartbeatLapses, RowLapses, MetaExpires, Crash, NoTransfer, MovesOn
<1>9. CASE \E p \in Process : Demand(p)
  BY <1>9 DEF Demand, Submit, RetryCheck, Cancel, Disconnect, RequestCancel, RequestShutdown
<1>10. CASE UNCHANGED vars
  BY <1>10 DEF vars
<1>11. QED BY <1>3, <1>4, <1>5, <1>6, <1>7, <1>8, <1>9, <1>10 DEF Next

LEMMA TransfersOfSettledStep ==
    ASSUME TypeInv, Unwound, TransfersOfSettled, [Next]_vars
    PROVE  TransfersOfSettled'
<1> SUFFICES ASSUME NEW o \in Owner
             PROVE  /\ o \in Attempt /\ transfer'[o].pc # "idle" => Settled(o)'
                    /\ o \in Attempt /\ transfer'[o].pc = "commit" =>
                          transfer'[o].status = FinalStatus(executor'[o].outcome)
                    /\ transfer'[o].pc = "commit" => transfer'[o].status \in Terminal
                    /\ o \notin Attempt /\ transfer'[o].pc = "commit" =>
                          transfer'[o].status # "completed"
  BY DEF TransfersOfSettled, Owner
<1>1. CASE transfer'[o] = transfer[o]
  BY <1>1, SettledStays DEF TransfersOfSettled
<1>2. CASE Begins(o)
  BY <1>2 DEF Begins
<1>3. CASE MovesOn(o)
  BY <1>3, SettledStays DEF MovesOn, TransfersOfSettled
<1>4. QED BY <1>1, <1>2, <1>3, TransferWriters

(* The transaction of a transfer that finds the row active stores exactly   *)
(* the chunks it was given, with the status it was given.                   *)
LEMMA CommitRows ==
    ASSUME TypeInv, RowInv, NEW o \in Owner, CommitEffect(o), job.status \in Active
    PROVE  /\ chunkRow' = ChunksOf(o)
           /\ job'.status = transfer[o].status
           /\ job'.chunkCount = Cardinality(chunkRow')
<1>1. chunkRow = {}
  BY DEF RowInv, RowsSettled, Active, Terminal
<1>2. chunkRow' = Inserted({}, ChunksOf(o))
  BY <1>1 DEF CommitEffect
<1>3. Inserted({}, ChunksOf(o)) = ChunksOf(o)
  BY DEF Inserted
<1>4. QED BY <1>2, <1>3 DEF CommitEffect, Finished

LEMMA CommitSettles ==
    ASSUME TypeInv, RowInv, [Next]_vars, NEW o \in Owner, transfer[o].pc = "commit",
           CommitEffect(o)
    PROVE  RowsSettled'
<1>1. CASE job.status \in Active
  <2>1. job'.status \in Terminal /\ job'.chunkCount = Cardinality(chunkRow')
    BY <1>1, CommitRows DEF RowInv, TransfersOfSettled
  <2>2. CASE o \in Attempt
    <3>1. Settled(o) /\ transfer[o].status = FinalStatus(executor[o].outcome)
      BY <2>2 DEF RowInv, TransfersOfSettled
    <3>2. /\ Settled(o)'
          /\ chunkRow' = ChunksOf(o)'
          /\ job'.status = FinalStatus(executor'[o].outcome)
      BY <1>1, <2>2, <3>1, CommitRows, SettledStays, SettledChunks
    <3>3. QED BY <2>1, <2>2, <3>2 DEF RowsSettled
  <2>3. CASE o \notin Attempt
    <3>1. chunkRow' = {} /\ job'.status # "completed"
      BY <1>1, <2>3, CommitRows DEF ChunksOf, RowInv, TransfersOfSettled
    <3>2. QED BY <2>1, <3>1 DEF RowsSettled
  <2>4. QED BY <2>2, <2>3
<1>2. CASE job.status \notin Active
  <2>1. UNCHANGED <<job, chunkRow>>
    BY <1>2 DEF CommitEffect
  <2>2. QED BY <2>1, SettledStays, SettledChunks DEF RowInv, RowsSettled
<1>3. QED BY <1>1, <1>2

LEMMA RowsSettledStep ==
    ASSUME TypeInv, RowInv, [Next]_vars
    PROVE  RowsSettled'
<1>1. CASE RowKept
  BY <1>1, SettledStays, SettledChunks DEF RowInv, RowsSettled, RowKept
<1>2. ASSUME job'.status \notin {"completed"}, UNCHANGED chunkRow, chunkRow = {}, job'.chunkCount = 0
      PROVE  RowsSettled'
  BY <1>2, FS_EmptySet DEF RowsSettled
<1>3. ASSUME NEW o \in Owner, Commit(o) \/ CommitFails(o)
      PROVE  RowsSettled'
  <2>1. CASE CommitEffect(o)
    BY <1>3, <2>1, CommitSettles DEF Commit, CommitFails
  <2>2. CASE UNCHANGED <<job, chunkRow>>
    BY <1>1, <2>2 DEF RowKept
  <2>3. QED BY <1>3, <2>1, <2>2 DEF Commit, CommitFails
<1>4. ASSUME job' = Finished(job, "failed", 0), UNCHANGED chunkRow
      PROVE  RowsSettled'
  <2>1. CASE job.status \in Active
    BY <1>2, <1>4, <2>1 DEF Finished, RowInv, RowsSettled, Active, Terminal
  <2>2. CASE job.status \notin Active
    BY <1>1, <1>4, <2>2 DEF Finished, RowKept
  <2>3. QED BY <2>1, <2>2
<1>5. ASSUME NEW o \in Owner, FlushStatusOnly(o)
      PROVE  RowsSettled'
  BY <1>1, <1>4, <1>5 DEF FlushStatusOnly, RowKept
<1>6. ASSUME NEW a \in Attempt, RetryReset(a) \/ GiveUpAttempt(a) \/ MarkRunning(a)
      PROVE  RowsSettled'
  <2>1. CASE RetryReset(a)
    BY <1>1, <1>2, <2>1 DEF RetryReset, RowKept
  <2>2. CASE GiveUpAttempt(a)
    BY <1>1, <1>4, <2>2 DEF GiveUpAttempt, RowKept
  <2>3. CASE MarkRunning(a)
    <3>1. CASE job.status = "pending"
      <4>1. job'.status = "running" /\ job'.chunkCount = job.chunkCount /\ UNCHANGED chunkRow
        BY <2>3, <3>1 DEF MarkRunning, TypeInv, TypeOK, JobRow
      <4>2. chunkRow = {} /\ job.chunkCount = 0
        BY <3>1, FS_EmptySet DEF RowInv, RowsSettled, Terminal
      <4>3. QED BY <1>2, <4>1, <4>2
    <3>2. CASE job.status # "pending"
      BY <1>1, <2>3, <3>2 DEF MarkRunning, RowKept
    <3>3. QED BY <3>1, <3>2
  <2>4. QED BY <1>6, <2>1, <2>2, <2>3
<1>7. ASSUME NEW p \in Process, NEW a \in Attempt, Submit(p, a)
      PROVE  RowsSettled'
  BY <1>2, <1>7 DEF Submit, RowInv, RowsSettled, Terminal
<1>8. QED BY <1>1, <1>3, <1>5, <1>6, <1>7, RowWriters DEF RowWritten, TypeInv

LEMMA RowInvariance == Spec => [](TypeInv /\ RowInv)
<1>1. Init => RowInv
  BY FS_EmptySet DEF Init, RowInv, Unwound, TransfersOfSettled, RowsSettled, NoTransfer, Terminal, Owner
<1>2. TypeInv /\ TypeInv' /\ RowInv /\ [Next]_vars => RowInv'
  BY UnwoundStep, TransfersOfSettledStep, RowsSettledStep DEF RowInv
<1>3. QED BY <1>1, <1>2, TypeInvariance, PTL DEF Spec

(* The stored chunks are those of one attempt, and an active job has none:  *)
(* no interleaving of flushes, retries and reapers mixes two attempts.      *)
THEOREM RowsAreOfOneAttempt == Spec => []RowsOfOneAttempt
<1>1. RowInv => RowsOfOneAttempt
  BY DEF RowInv, RowsSettled, RowsOfOneAttempt
<1>2. QED BY <1>1, RowInvariance, PTL

(* Completed jobs are whole. *)
THEOREM CompletedAreWhole == Spec => []CompletedIsWhole
<1>1. RowInv => CompletedIsWhole
  BY DEF RowInv, RowsSettled, CompletedIsWhole
<1>2. QED BY <1>1, RowInvariance, PTL

-----------------------------------------------------------------------------
(* The refinement of JobRecord. *)

LEMMA CommitRefines ==
    ASSUME TypeInv, RowInv, NEW o \in Owner, transfer[o].pc = "commit", CommitEffect(o)
    PROVE  Record!Settle \/ UNCHANGED <<job, chunkRow>>
<1>1. CASE job.status \in Active
  <2>1. /\ chunkRow = {}
        /\ job'.status \in Terminal
        /\ chunkRow' = ChunksOf(o)
    BY <1>1, CommitRows DEF RowInv, RowsSettled, TransfersOfSettled, Active, Terminal
  <2>2. ChunksOf(o) \in Record!Answer \union {{}}
    <3>1. CASE o \in Attempt
      <4>1. executor[o].chunks \in 0..MaxChunk
        BY <3>1 DEF TypeInv, TypeOK, Task
      <4>2. ChunksOf(o) = Record!ChunksOf(o, executor[o].chunks)
        BY <3>1 DEF ChunksOf, Record!ChunksOf
      <4>3. QED BY <3>1, <4>1, <4>2 DEF Record!Answer
    <3>2. CASE o \notin Attempt
      BY <3>2 DEF ChunksOf
    <3>3. QED BY <3>1, <3>2
  <2>3. QED BY <1>1, <2>1, <2>2 DEF Record!Settle, Record!Active, Record!Terminal, Active, Terminal
<1>2. CASE job.status \notin Active
  BY <1>2 DEF CommitEffect
<1>3. QED BY <1>1, <1>2

LEMMA RecordStep ==
    ASSUME TypeInv, RowInv, [Next]_vars
    PROVE  [Record!Next]_(Record!vars)
<1> DEFINE Goal == [Record!Next]_(Record!vars)
<1>1. CASE RowKept
  BY <1>1 DEF RowKept, Record!vars
<1>2. ASSUME NEW p \in Process, NEW a \in Attempt, Submit(p, a)
      PROVE  Goal
  BY <1>2 DEF Submit, Record!Next, Record!Submit
<1>3. ASSUME NEW a \in Attempt, RetryReset(a)
      PROVE  Goal
  BY <1>3 DEF RetryReset, Record!Next, Record!Reopen, Record!vars
<1>4. ASSUME NEW a \in Attempt, MarkRunning(a)
      PROVE  Goal
  BY <1>4 DEF MarkRunning, Record!Next, Record!Run, Record!vars, TypeInv, TypeOK, JobRow
<1>5. ASSUME job' = Finished(job, "failed", 0), UNCHANGED chunkRow
      PROVE  Goal
  BY <1>5 DEF Finished, Record!Next, Record!Settle, Record!vars, Record!Active, Record!Terminal,
     RowInv, RowsSettled, Active, Terminal
<1>6. ASSUME NEW a \in Attempt, GiveUpAttempt(a)
      PROVE  Goal
  BY <1>5, <1>6 DEF GiveUpAttempt, Record!vars
<1>7. ASSUME NEW o \in Owner, Commit(o) \/ CommitFails(o) \/ FlushStatusOnly(o)
      PROVE  Goal
  <2>1. CASE FlushStatusOnly(o)
    BY <1>5, <2>1 DEF FlushStatusOnly, Record!vars
  <2>2. CASE Commit(o) \/ CommitFails(o)
    BY <2>2, CommitRefines DEF Commit, CommitFails, Record!Next, Record!vars
  <2>3. QED BY <1>7, <2>1, <2>2
<1>8. QED BY <1>1, <1>2, <1>3, <1>4, <1>6, <1>7, RowWriters DEF RowWritten, TypeInv

(* Whatever the processes, the reaper and the retries do to it, the row and *)
(* its chunks keep the promise of JobRecord.                                *)
THEOREM RecordIsKept == Spec => RecordPromise
<1>1. Init => Record!Init
  BY DEF Init, Record!Init
<1>2. QED BY <1>1, RecordStep, RowInvariance, PTL DEF Spec, RecordPromise, Record!Spec

-----------------------------------------------------------------------------
(* Cancellation. *)

(* An attempt that has begun stays begun: RetryReset gives up only attempts *)
(* that have not.                                                           *)
LEMMA BegunGrows ==
    ASSUME TypeInv, [Next]_vars
    PROVE  Begun \subseteq Begun'
<1> USE DEF TypeInv, TypeOK, Begun
<1>1. ASSUME UNCHANGED executor PROVE Begun \subseteq Begun'
  BY <1>1
<1>2. ASSUME NEW a \in Attempt, NEW pc, pc \notin {"absent", "retrying"}, Goto(a, pc)
      PROVE  Begun \subseteq Begun'
  BY <1>2 DEF Goto, Task
<1>3. ASSUME NEW a \in Attempt, NEW outcome, Unwind(a, outcome)
      PROVE  Begun \subseteq Begun'
  BY <1>3 DEF Unwind, Task
<1>4. ASSUME NEW a \in Attempt, SubmissionStep(a)
      PROVE  Begun \subseteq Begun'
  <2>1. CASE RetryReset(a)
    BY <2>1 DEF RetryReset, Goto, Task
  <2>2. QED BY <1>2, <1>4, <2>1
        DEF SubmissionStep, StoreUserMessages, InitializeMeta, InitializeMetaFails, GiveUpAttempt
<1>5. ASSUME NEW a \in Attempt, TaskStep(a) \/ Heartbeat(a)
      PROVE  Begun \subseteq Begun'
  <2>1. CASE BufferChunk(a)
    BY <2>1 DEF BufferChunk, Task
  <2>2. CASE FirstStep(a) \/ StartMeta(a) \/ PublishChunk(a) \/ Flush(a) \/ TaskEnds(a)
    BY <1>2, <2>2 DEF FirstStep, StartMeta, PublishChunk, Flush, TaskEnds, TaskEnded
  <2>3. CASE MarkRunning(a) \/ ReadReason(a) \/ StreamEnds(a) \/ ExecutionFails(a) \/ Heartbeat(a)
    BY <1>1, <1>2, <1>3, <2>3 DEF MarkRunning, ReadReason, StreamEnds, ExecutionFails, Heartbeat
  <2>4. QED BY <1>5, <2>1, <2>2, <2>3 DEF TaskStep
<1>6. ASSUME NEW o \in Owner, TransferStep(o)
      PROVE  Begun \subseteq Begun'
  BY <1>1, <1>6 DEF TransferStep, Commit, CommitFails, FlushStatusOnly, Reread, PublishTerminal
<1>7. ASSUME NEW c \in Caller, CallerStep(c)
      PROVE  Begun \subseteq Begun'
  <2>1. CASE CancelTask(c)
    <3>1. caller[c].task \in Attempt
      BY <2>1 DEF CancelTask, TaskHeld
    <3>2. QED BY <1>1, <1>2, <1>3, <2>1, <3>1 DEF CancelTask, TaskEnded
  <2>2. QED BY <1>1, <1>7, <2>1
        DEF CallerStep, SetLocalReason, AskRedis, JoinTask, EnsureTerminal, CallReturns
<1>8. ASSUME NEW p \in ReaperProcess, ReaperStep(p)
      PROVE  Begun \subseteq Begun'
  BY <1>1, <1>8 DEF ReaperStep, ScanMeta, FenceMeta, ReapEnds, ListStaleRows, CheckGap, ReaperFails, ReaperDies
<1>9. ASSUME NEW p \in Process, Demand(p)
      PROVE  Begun \subseteq Begun'
  <2>1. ASSUME NEW a \in Attempt, Submit(p, a) \/ RetryCheck(p, a)
        PROVE  Begun \subseteq Begun'
    BY <2>1 DEF Submit, RetryCheck, Task
  <2>2. QED BY <1>1, <1>9, <2>1 DEF Demand, Cancel, Disconnect, RequestCancel, RequestShutdown
<1>10. CASE Environment
  <2>1. ASSUME NEW p \in Process, Crash(p)
        PROVE  Begun \subseteq Begun'
    BY <2>1 DEF Crash, Task
  <2>2. QED BY <1>1, <1>10, <2>1 DEF Environment, HeartbeatLapses, RowLapses, MetaExpires
<1>11. CASE UNCHANGED vars
  BY <1>1, <1>11 DEF vars
<1>12. QED BY <1>4, <1>5, <1>6, <1>7, <1>8, <1>9, <1>10, <1>11 DEF Next

(* Only a new attempt makes a job active. *)
LEMMA ActiveByAttempt ==
    ASSUME TypeInv, RowInv, [Next]_vars, job.status \notin Active, job'.status \in Active
    PROVE  \E a \in Attempt : a \notin Begun /\ a \in Begun'
<1> USE DEF TypeInv, TypeOK
<1>1. ASSUME NEW p \in Process, NEW a \in Attempt, Submit(p, a)
      PROVE  a \notin Begun /\ a \in Begun'
  BY <1>1 DEF Submit, Begun, Task
<1>2. ASSUME NEW a \in Attempt, RetryReset(a)
      PROVE  a \notin Begun /\ a \in Begun'
  BY <1>2 DEF RetryReset, Goto, Begun, Task
<1>3. ~ RowKept
  BY DEF RowKept
<1>4. ASSUME NEW a \in Attempt, GiveUpAttempt(a) \/ MarkRunning(a)
      PROVE  FALSE
  BY <1>4 DEF GiveUpAttempt, MarkRunning, Finished, Active
<1>5. ASSUME NEW o \in Owner, Commit(o) \/ CommitFails(o) \/ FlushStatusOnly(o)
      PROVE  FALSE
  BY <1>5 DEF Commit, CommitFails, CommitEffect, FlushStatusOnly, Finished
<1>6. QED BY <1>1, <1>2, <1>3, <1>4, <1>5, RowWriters DEF RowWritten

(* A transfer that is past its transaction. *)
Late == {"reread", "publish", "done"}

LEMMA TransactionPassed ==
    ASSUME TypeInv, [Next]_vars, NEW c \in Caller, transfer'[c].pc \in Late,
           transfer[c].pc \notin Late
    PROVE  Commit(c) \/ (transfer[c].pc = "statusOnly" /\ FlushStatusOnly(c))
<1> DEFINE Goal == Commit(c) \/ (transfer[c].pc = "statusOnly" /\ FlushStatusOnly(c))
<1> USE DEF TypeInv, TypeOK, Late
<1>1. c \in Owner
  BY DEF Owner
<1>2. transfer'[c].pc = transfer[c].pc => Goal
  OBVIOUS
<1>3. ASSUME NEW o \in Owner, NEW status, StartTransfer(o, status) PROVE Goal
  BY <1>1, <1>2, <1>3 DEF StartTransfer
<1>4. ASSUME NEW o \in Owner, EndTransfer(o) PROVE Goal
  BY <1>1, <1>2, <1>4 DEF EndTransfer, NoTransfer
<1>5. ASSUME NEW a \in Attempt, NEW outcome, Unwind(a, outcome) PROVE Goal
  BY <1>2, <1>3, <1>5 DEF Unwind, Owner
<1>6. ASSUME NEW o \in Owner, TransferStep(o) PROVE Goal
  <2>1. CASE Commit(o)
    BY <1>1, <1>2, <2>1 DEF Commit, Step, TransferCall
  <2>2. CASE CommitFails(o)
    BY <1>1, <1>2, <2>2 DEF CommitFails, Step, TransferCall
  <2>3. CASE FlushStatusOnly(o)
    BY <1>1, <1>2, <2>3 DEF FlushStatusOnly, TransferCall
  <2>4. CASE Reread(o)
    BY <1>1, <1>2, <2>4 DEF Reread, Step, TransferCall
  <2>5. CASE PublishTerminal(o)
    BY <1>1, <1>2, <2>5 DEF PublishTerminal, Step, TransferCall
  <2>6. QED BY <1>6, <2>1, <2>2, <2>3, <2>4, <2>5 DEF TransferStep
<1>7. ASSUME NEW a \in Attempt, SubmissionStep(a) \/ TaskStep(a) \/ Heartbeat(a) PROVE Goal
  BY <1>2, <1>3, <1>4, <1>5, <1>7
     DEF SubmissionStep, TaskStep, StoreUserMessages, RetryReset, GiveUpAttempt, MarkRunning,
         InitializeMeta, InitializeMetaFails, FirstStep, StartMeta, BufferChunk, PublishChunk,
         ReadReason, StreamEnds, ExecutionFails, Flush, TaskEnds, Heartbeat, Owner
<1>8. ASSUME NEW d \in Caller, CallerStep(d) PROVE Goal
  <2>1. CASE CancelTask(d)
    <3>1. caller[d].task \in Attempt
      BY <2>1 DEF CancelTask, TaskHeld
    <3>2. QED BY <1>2, <1>5, <2>1, <3>1 DEF CancelTask
  <2>2. QED BY <1>2, <1>3, <1>4, <1>8, <2>1
        DEF CallerStep, SetLocalReason, AskRedis, JoinTask, EnsureTerminal, CallReturns, Owner
<1>9. ASSUME NEW p \in ReaperProcess, ReaperStep(p) PROVE Goal
  BY <1>2, <1>3, <1>4, <1>9, ConstantsAssumption
     DEF ReaperStep, ScanMeta, FenceMeta, ReapEnds, ListStaleRows, CheckGap, ReaperFails, ReaperDies, Owner,
         ConstantsAssumption
<1>10. CASE Environment
  BY <1>1, <1>2, <1>10
     DEF Environment, HeartbeatLapses, RowLapses, MetaExpires, Crash, NoTransfer
<1>11. CASE \E p \in Process : Demand(p)
  BY <1>2, <1>11 DEF Demand, Submit, RetryCheck, Cancel, Disconnect, RequestCancel, RequestShutdown
<1>12. CASE UNCHANGED vars
  BY <1>2, <1>12 DEF vars
<1>13. QED BY <1>6, <1>7, <1>8, <1>9, <1>10, <1>11, <1>12 DEF Next

LEMMA FaultKind ==
    ASSUME NEW kind, Fault(kind)
    PROVE  kind \in faults'.kinds /\ faults.kinds \subseteq faults'.kinds
BY DEF Fault

LEMMA KindsGrow ==
    ASSUME [Next]_vars
    PROVE  faults.kinds \subseteq faults'.kinds
<1>1. ASSUME NEW a \in Attempt, SubmissionStep(a) \/ TaskStep(a) \/ Heartbeat(a)
      PROVE  faults.kinds \subseteq faults'.kinds
  BY <1>1, FaultKind
     DEF SubmissionStep, TaskStep, StoreUserMessages, RetryReset, GiveUpAttempt, MarkRunning,
         InitializeMeta, InitializeMetaFails, FirstStep, StartMeta, BufferChunk, PublishChunk,
         ReadReason, StreamEnds, ExecutionFails, Flush, TaskEnds, Heartbeat
<1>2. ASSUME NEW o \in Owner, TransferStep(o) PROVE faults.kinds \subseteq faults'.kinds
  BY <1>2, FaultKind
     DEF TransferStep, Commit, CommitFails, FlushStatusOnly, Reread, PublishTerminal
<1>3. ASSUME NEW c \in Caller, CallerStep(c) PROVE faults.kinds \subseteq faults'.kinds
  BY <1>3, FaultKind
     DEF CallerStep, SetLocalReason, AskRedis, CancelTask, JoinTask, EnsureTerminal, CallReturns
<1>4. ASSUME NEW p \in ReaperProcess, ReaperStep(p) PROVE faults.kinds \subseteq faults'.kinds
  BY <1>4, FaultKind
     DEF ReaperStep, ScanMeta, FenceMeta, ReapEnds, ListStaleRows, CheckGap, ReaperFails, ReaperDies
<1>5. CASE Environment
  BY <1>5, FaultKind DEF Environment, HeartbeatLapses, RowLapses, MetaExpires, Crash
<1>6. CASE \E p \in Process : Demand(p)
  BY <1>6 DEF Demand, Submit, RetryCheck, Cancel, Disconnect, RequestCancel, RequestShutdown
<1>7. CASE UNCHANGED vars
  BY <1>7 DEF vars
<1>8. QED BY <1>1, <1>2, <1>3, <1>4, <1>5, <1>6, <1>7 DEF Next

(* Without a failure of PostgreSQL no transfer falls back to its status.    *)
NoStatusOnly ==
    "postgres" \notin faults.kinds => \A c \in Caller : transfer[c].pc # "statusOnly"

(* What a call has seen has begun; while no other attempt begins, the job   *)
(* is not active once the call's own transaction has passed.                *)
CallInv ==
    \A c \in Caller :
        caller[c].pc \in {"settling", "returned"} =>
            /\ caller[c].seen \subseteq Begun
            /\ /\ "postgres" \notin faults.kinds
               /\ Begun \subseteq caller[c].seen
               /\ caller[c].pc = "returned" \/ transfer[c].pc \in Late
               => job.status \notin Active

LEMMA NoStatusOnlyStep ==
    ASSUME TypeInv, NoStatusOnly, [Next]_vars
    PROVE  NoStatusOnly'
<1> SUFFICES ASSUME "postgres" \notin faults'.kinds, NEW c \in Caller,
                    transfer[c].pc # "statusOnly", transfer'[c].pc = "statusOnly"
             PROVE  FALSE
  BY KindsGrow DEF NoStatusOnly
<1> USE DEF TypeInv, TypeOK
<1>1. c \in Owner /\ transfer'[c] # transfer[c]
  BY DEF Owner
<1>2. ASSUME NEW o \in Owner, NEW status, StartTransfer(o, status) PROVE FALSE
  BY <1>1, <1>2 DEF StartTransfer
<1>3. ASSUME NEW o \in Owner, EndTransfer(o) PROVE FALSE
  BY <1>1, <1>3 DEF EndTransfer, NoTransfer
<1>4. ASSUME NEW o \in Owner, TransferStep(o) PROVE FALSE
  <2>1. CASE Commit(o)
    BY <1>1, <2>1 DEF Commit, Step, TransferCall
  <2>2. CASE CommitFails(o)
    BY <2>2, FaultKind DEF CommitFails
  <2>3. CASE FlushStatusOnly(o)
    BY <1>1, <2>3 DEF FlushStatusOnly
  <2>4. CASE Reread(o)
    BY <1>1, <2>4 DEF Reread, Step, TransferCall
  <2>5. CASE PublishTerminal(o)
    BY <1>1, <2>5 DEF PublishTerminal, Step, TransferCall
  <2>6. QED BY <1>4, <2>1, <2>2, <2>3, <2>4, <2>5 DEF TransferStep
<1>5. ASSUME NEW a \in Attempt, NEW outcome, Unwind(a, outcome) PROVE FALSE
  BY <1>1, <1>2, <1>5 DEF Unwind, Owner
<1>6. ASSUME NEW a \in Attempt, SubmissionStep(a) \/ TaskStep(a) \/ Heartbeat(a) PROVE FALSE
  BY <1>1, <1>2, <1>3, <1>5, <1>6
     DEF SubmissionStep, TaskStep, StoreUserMessages, RetryReset, GiveUpAttempt, MarkRunning,
         InitializeMeta, InitializeMetaFails, FirstStep, StartMeta, BufferChunk, PublishChunk,
         ReadReason, StreamEnds, ExecutionFails, Flush, TaskEnds, Heartbeat, Owner
<1>7. ASSUME NEW d \in Caller, CallerStep(d) PROVE FALSE
  <2>1. CASE CancelTask(d)
    <3>1. caller[d].task \in Attempt
      BY <2>1 DEF CancelTask, TaskHeld
    <3>2. QED BY <1>1, <1>5, <2>1, <3>1 DEF CancelTask
  <2>2. QED BY <1>1, <1>2, <1>3, <1>7, <2>1
        DEF CallerStep, SetLocalReason, AskRedis, JoinTask, EnsureTerminal, CallReturns, Owner
<1>8. ASSUME NEW p \in ReaperProcess, ReaperStep(p) PROVE FALSE
  BY <1>1, <1>2, <1>3, <1>8, ConstantsAssumption
     DEF ReaperStep, ScanMeta, FenceMeta, ReapEnds, ListStaleRows, CheckGap, ReaperFails, ReaperDies, Owner,
         ConstantsAssumption
<1>9. CASE Environment
  BY <1>1, <1>9 DEF Environment, HeartbeatLapses, RowLapses, MetaExpires, Crash, NoTransfer
<1>10. CASE \E p \in Process : Demand(p)
  BY <1>1, <1>10 DEF Demand, Submit, RetryCheck, Cancel, Disconnect, RequestCancel, RequestShutdown
<1>11. CASE UNCHANGED vars
  BY <1>1, <1>11 DEF vars
<1>12. QED BY <1>4, <1>6, <1>7, <1>8, <1>9, <1>10, <1>11 DEF Next

(* A call is about to return or has returned because it was, or because it  *)
(* has just looked at the row or at its transfer.                           *)
LEMMA CallEnds ==
    ASSUME TypeInv, [Next]_vars, NEW c \in Caller, caller'[c].pc \in {"settling", "returned"}
    PROVE  caller'[c] = caller[c] \/ EnsureTerminal(c) \/ CallReturns(c)
<1> USE DEF TypeInv, TypeOK
<1>1. ASSUME NEW d \in Caller, CallerStep(d)
      PROVE  caller'[c] = caller[c] \/ EnsureTerminal(c) \/ CallReturns(c)
  BY <1>1 DEF CallerStep, CallerGoto, SetLocalReason, AskRedis, CancelTask, JoinTask,
     EnsureTerminal, CallReturns, Call
<1>2. ASSUME NEW p \in Process, NEW d \in Caller, RequestShutdown(d, p)
      PROVE  caller'[c] = caller[c]
  BY <1>2 DEF RequestShutdown
<1>3. ASSUME NEW p \in Process, NEW d \in Caller,
             NEW reason \in {"cancelled", "client_disconnected"}, RequestCancel(d, p, reason)
      PROVE  caller'[c] = caller[c]
  BY <1>3 DEF RequestCancel
<1>4. ASSUME NEW p \in Process, Crash(p)
      PROVE  caller'[c] = caller[c]
  BY <1>4 DEF Crash, NoCall
<1>5. QED BY <1>1, <1>2, <1>3, <1>4, CallWriters

LEMMA CallInvStep ==
    ASSUME TypeInv, RowInv, NoStatusOnly, CallInv, [Next]_vars
    PROVE  CallInv'
<1> SUFFICES ASSUME NEW c \in Caller, caller'[c].pc \in {"settling", "returned"}
             PROVE  /\ caller'[c].seen \subseteq Begun'
                    /\ /\ "postgres" \notin faults'.kinds
                       /\ Begun' \subseteq caller'[c].seen
                       /\ caller'[c].pc = "returned" \/ transfer'[c].pc \in Late
                       => job'.status \notin Active
  BY DEF CallInv
<1>1. CASE caller'[c] = caller[c]
  <2>1. caller[c].seen \subseteq Begun /\ Begun \subseteq Begun'
    BY <1>1, BegunGrows DEF CallInv
  <2>2. ASSUME "postgres" \notin faults'.kinds, Begun' \subseteq caller[c].seen,
               caller[c].pc = "returned" \/ transfer'[c].pc \in Late
        PROVE  job'.status \notin Active
    <3>1. Begun' = Begun /\ "postgres" \notin faults.kinds
      BY <2>1, <2>2, KindsGrow
    <3>2. CASE job.status \notin Active
      BY <3>1, <3>2, ActiveByAttempt
    <3>3. CASE job.status \in Active
      <4>1. transfer[c].pc \notin Late /\ transfer'[c].pc \in Late
        BY <1>1, <2>1, <2>2, <3>1, <3>3 DEF CallInv
      <4>2. Commit(c)
        BY <3>1, <4>1, TransactionPassed DEF NoStatusOnly
      <4>3. job'.status = transfer[c].status /\ transfer[c].status \in Terminal
        BY <3>3, <4>2, CommitRows DEF Commit, RowInv, TransfersOfSettled, Owner
      <4>4. QED BY <4>3 DEF Terminal, Active
    <3>4. QED BY <3>2, <3>3
  <2>3. QED BY <1>1, <2>1, <2>2
<1>2. CASE EnsureTerminal(c)
  <2>1. caller'[c].seen = Begun /\ Begun' = Begun
    BY <1>2 DEF EnsureTerminal, NoCall, Begun, TypeInv, TypeOK, Call
  <2>2. CASE caller'[c].pc = "settling"
    <3>1. transfer'[c].pc = "commit"
      BY <1>2, <2>2 DEF EnsureTerminal, NoCall, StartTransfer, Owner, TypeInv, TypeOK, Call
    <3>2. QED BY <2>1, <2>2, <3>1 DEF Late
  <2>3. CASE caller'[c].pc = "returned"
    <3>1. job'.status \notin Active
      BY <1>2, <2>3 DEF EnsureTerminal, NoCall, TypeInv, TypeOK, Call
    <3>2. QED BY <2>1, <3>1
  <2>4. QED BY <2>2, <2>3
<1>3. CASE CallReturns(c)
  <2>1. /\ caller[c].pc = "settling"
        /\ transfer[c].pc \in Late
        /\ caller'[c].seen = caller[c].seen
        /\ Begun' = Begun
        /\ job' = job
    BY <1>3 DEF CallReturns, NoCall, Begun, Late, TypeInv, TypeOK
  <2>2. QED BY <2>1, KindsGrow DEF CallInv
<1>4. QED BY <1>1, <1>2, <1>3, CallEnds

(* No cancel, disconnect or shutdown call returns over an active job that   *)
(* was not started again, unless PostgreSQL failed it.                      *)
THEOREM CancellationSettles == Spec => []CancelSettles
<1>1. Init => NoStatusOnly /\ CallInv
  BY DEF Init, NoStatusOnly, CallInv, NoTransfer, NoCall, Owner
<1>2. TypeInv /\ RowInv /\ NoStatusOnly /\ CallInv /\ [Next]_vars => (NoStatusOnly /\ CallInv)'
  BY NoStatusOnlyStep, CallInvStep DEF RowInv
<1>3. CallInv => CancelSettles
  BY DEF CallInv, CancelSettles
<1>4. QED BY <1>1, <1>2, <1>3, RowInvariance, PTL DEF Spec

=============================================================================
