----------------------------- MODULE JobLifecycle -----------------------------
(***************************************************************************)
(* The life of one LLM job (one run_id) in the job service of              *)
(* backend/app/llm/job: the llm_job row and its chunk rows in PostgreSQL,  *)
(* the job:{run}:meta hash in Redis, and everything that moves them from   *)
(* several server processes at once - the submission and the retries of a  *)
(* lost job (job_manager.py), the execution task of every attempt and its  *)
(* heartbeat (job_executor.py), the transfer that ends a job               *)
(* (job_transfer.py), cancel / client-disconnect / shutdown calls          *)
(* (job_manager.py) and the reaper of every process (job_reaper.py).       *)
(*                                                                         *)
(* A step is what happens between two awaits, or one PostgreSQL            *)
(* transaction, or one Redis script: whatever can interleave does.  Time   *)
(* is abstracted to two flags: a heartbeat_at (meta.stale) and an          *)
(* updated_at (job.stale) older than heartbeat_expire_second_count.        *)
(***************************************************************************)
EXTENDS Naturals, FiniteSets

CONSTANTS
    Attempt,      \* execution attempts of the run: its submission and its retries
    Process,      \* server processes, each with its JobManager
    ReaperProcess, \* those of them whose reaper runs
    Caller,       \* cancel, disconnect and shutdown calls, each made at most once
    MaxChunk,     \* bound: chunks one attempt can produce
    MaxFaults,    \* bound: how often the environment misbehaves
    FaultKinds,   \* which faults it is capable of
    None          \* no attempt, no process

ASSUME ConstantsAssumption ==
    /\ ReaperProcess \subseteq Process
    /\ MaxChunk \in Nat
    /\ MaxFaults \in Nat
    /\ FaultKinds \subseteq {"crash", "redis", "postgres"}
    /\ None \notin Attempt \union Process
    /\ Attempt \intersect Caller = {}
    /\ Attempt \intersect Process = {}
    /\ Caller \intersect Process = {}

VARIABLES
    job,              \* llm_job row: status, chunk_count, is updated_at old
    chunkRow,         \* llm_job_chunk rows, as pairs <<attempt, seq>>
    meta,             \* Redis hash: status, cancel_reason once requested, is heartbeat_at old
    executor,         \* execution task of every attempt
    taskDictionary,   \* JobManager._task_dictionary of every process, at this run_id
    cancelReason,     \* JobManager._cancel_reason_dictionary, at this run_id
    transfer,         \* JobTransfer.transfer_async call in progress for every owner
    caller,           \* cancel_async, fail_client_disconnected_async, shutdown_async calls
    reaper,           \* JobReaper loop of every process
    faults            \* how many faults have happened, and of which kinds

vars == <<job, chunkRow, meta, executor, taskDictionary, cancelReason,
          transfer, caller, reaper, faults>>

localVars == <<taskDictionary, cancelReason>>

-----------------------------------------------------------------------------
Active   == {"pending", "running"}
Terminal == {"completed", "failed", "cancelled"}
Status   == {"none"} \union Active \union Terminal

Reason == {"none", "cancelled", "client_disconnected", "heartbeat_expired", "shutdown"}

(* Whoever can have a transfer_async call of its own in progress. *)
Owner == Attempt \union Caller \union Process

(* Where execute_async can be, inside its try block: with a heartbeat task  *)
(* (after the start script accepted it) and before there is one.            *)
Beating == {"streaming", "publishing", "rejected"}
Trying  == {"marking", "starting", "refused"} \union Beating

ExecutorPc == {"absent", "retrying", "inserting", "preparing", "unprepared",
               "created", "finishing", "flushing", "done"} \union Trying
Outcome    == {"none", "skipped"} \union Terminal
TransferPc == {"idle", "commit", "statusOnly", "reread", "publish", "done"}
CallerPc   == {"idle", "requesting", "asking", "cancelling", "joining",
               "ensuring", "settling", "returned", "raised"}
ReaperPc   == {"scanning", "fencing", "reaping", "listing", "checking", "filling", "ended"}

JobRow       == [status : Status, chunkCount : Nat, stale : BOOLEAN]
MetaHash     == [status : Status, reason : Reason, stale : BOOLEAN]
Task         == [pc : ExecutorPc, process : Process \union {None},
                 chunks : 0..MaxChunk, outcome : Outcome]
TransferCall == [pc : TransferPc, status : Status]
Call         == [pc : CallerPc, process : Process \union {None}, reason : Reason,
                 task : Attempt \union {None}, seen : SUBSET Attempt]
Faults       == [count : 0..MaxFaults, kinds : SUBSET FaultKinds]

TypeOK ==
    /\ job \in JobRow
    /\ chunkRow \subseteq Attempt \X (1..MaxChunk)
    /\ meta \in MetaHash
    /\ executor \in [Attempt -> Task]
    /\ taskDictionary \in [Process -> Attempt \union {None}]
    /\ cancelReason \in [Process -> Reason]
    /\ transfer \in [Owner -> TransferCall]
    /\ caller \in [Caller -> Call]
    /\ reaper \in [Process -> ReaperPc]
    /\ faults \in Faults

NoMeta     == [status |-> "none", reason |-> "none", stale |-> FALSE]
NoTransfer == [pc |-> "idle", status |-> "none"]
NoCall(pc, seen) ==
    [pc |-> pc, process |-> None, reason |-> "none", task |-> None, seen |-> seen]

Init ==
    /\ job = [status |-> "none", chunkCount |-> 0, stale |-> FALSE]
    /\ chunkRow = {}
    /\ meta = NoMeta
    /\ executor = [a \in Attempt |-> [pc |-> "absent", process |-> None,
                                      chunks |-> 0, outcome |-> "none"]]
    /\ taskDictionary = [p \in Process |-> None]
    /\ cancelReason = [p \in Process |-> "none"]
    /\ transfer = [o \in Owner |-> NoTransfer]
    /\ caller = [c \in Caller |-> NoCall("idle", {})]
    /\ reaper = [p \in Process |-> "scanning"]
    /\ faults = [count |-> 0, kinds |-> {}]

Fault(kind) ==
    /\ kind \in FaultKinds
    /\ faults.count < MaxFaults
    /\ faults' = [count |-> faults.count + 1, kinds |-> faults.kinds \union {kind}]

-----------------------------------------------------------------------------
(* Mutant: no WHERE on the status. *)
FinishedAnyRow(row, status, count) ==
    [status |-> status, chunkCount |-> count, stale |-> FALSE]

(* The row.  _update_job_finished writes only an active row: WHERE status  *)
(* IN ('pending', 'running').                                              *)

Finished(row, status, count) ==
    IF row.status \in Active
    THEN [status |-> status, chunkCount |-> count, stale |-> FALSE]
    ELSE row

(* ON CONFLICT (run_id, seq) DO NOTHING *)
Inserted(rows, new) == rows \union {r \in new : \A old \in rows : old[2] # r[2]}

(* Redis scripts read the hash as: *)
MetaAccepts == meta.status \in Active /\ meta.reason = "none"

Goto(a, pc) == executor' = [executor EXCEPT ![a].pc = pc]

-----------------------------------------------------------------------------
(* The birth of an attempt: submit_async and retry_lost_job_async. *)

(* insert_job_async, the first of three transactions of a submission *)
Submit(p, a) ==
    /\ job.status = "none"
    /\ executor[a].pc = "absent"
    /\ job' = [status |-> "pending", chunkCount |-> 0, stale |-> FALSE]
    /\ executor' = [executor EXCEPT ![a].pc = "inserting", ![a].process = p]
    /\ UNCHANGED <<chunkRow, meta, localVars, transfer, caller, reaper, faults>>

(* upsert_thread_on_submit_async and insert_user_message_list_async; when   *)
(* one of them fails the call raises and the pending row stays behind.      *)
StoreUserMessages(a) ==
    /\ executor[a].pc = "inserting"
    /\ \/ Goto(a, "preparing") /\ UNCHANGED faults
       \/ Goto(a, "done") /\ Fault("postgres")
    /\ UNCHANGED <<job, chunkRow, meta, localVars, transfer, caller, reaper>>

(* is_lost_job on the row just read, and no task of this run here *)
RetryCheck(p, a) ==
    /\ executor[a].pc = "absent"
    /\ job.status = "failed"
    /\ job.chunkCount = 0
    /\ taskDictionary[p] = None
    /\ executor' = [executor EXCEPT ![a].pc = "retrying", ![a].process = p]
    /\ UNCHANGED <<job, chunkRow, meta, localVars, transfer, caller, reaper, faults>>

(* reset_job_for_retry_async, one UPDATE with its own conditions *)
RetryReset(a) ==
    /\ executor[a].pc = "retrying"
    /\ IF job.status = "failed" /\ job.chunkCount = 0 /\ chunkRow = {}
       THEN /\ job' = [status |-> "pending", chunkCount |-> 0, stale |-> FALSE]
            /\ Goto(a, "preparing")
       ELSE /\ executor' = [executor EXCEPT ![a].pc = "absent", ![a].process = None]
            /\ UNCHANGED job
    /\ UNCHANGED <<chunkRow, meta, localVars, transfer, caller, reaper, faults>>

(* The pending hash is written over whatever was there; create_task *)
InitializeMeta(a) ==
    /\ executor[a].pc = "preparing"
    /\ meta' = [status |-> "pending", reason |-> "none", stale |-> FALSE]
    /\ Goto(a, "created")
    /\ taskDictionary' = [taskDictionary EXCEPT ![executor[a].process] = a]
    /\ UNCHANGED <<job, chunkRow, cancelReason, transfer, caller, reaper, faults>>

InitializeMetaFails(a) ==
    /\ executor[a].pc = "preparing"
    /\ Fault("redis")
    /\ Goto(a, "unprepared")
    /\ UNCHANGED <<job, chunkRow, meta, localVars, transfer, caller, reaper>>

(* "REDIS INITIALIZATION FAILED" *)
GiveUpAttempt(a) ==
    /\ executor[a].pc = "unprepared"
    /\ \/ job' = Finished(job, "failed", 0) /\ UNCHANGED faults
       \/ UNCHANGED job /\ Fault("postgres")
    /\ Goto(a, "done")
    /\ UNCHANGED <<chunkRow, meta, localVars, transfer, caller, reaper>>

-----------------------------------------------------------------------------
(* execute_async *)

(* Mutant: the reason of the cancellation is taken for the job status. *)
OutcomeOfAsReason(reason) == reason

OutcomeOf(reason) == IF reason = "cancelled" THEN "cancelled" ELSE "failed"

(* execute_async starts from COMPLETED and returns early when the row could *)
(* not be marked running: it then transfers COMPLETED without having run.   *)
FinalStatus(outcome) == IF outcome = "skipped" THEN "completed" ELSE outcome

StartTransfer(o, status) ==
    transfer' = [transfer EXCEPT ![o] = [pc |-> "commit", status |-> status]]

EndTransfer(o) == transfer' = [transfer EXCEPT ![o] = NoTransfer]

(* The except clauses and the start of the finally clause: with a heartbeat *)
(* task the task first awaits its end, without one it transfers at once.    *)
Unwind(a, outcome) ==
    IF executor[a].pc \in Beating
    THEN /\ executor' = [executor EXCEPT ![a].pc = "finishing", ![a].outcome = outcome]
         /\ UNCHANGED transfer
    ELSE /\ executor' = [executor EXCEPT ![a].pc = "flushing", ![a].outcome = outcome]
         /\ StartTransfer(a, FinalStatus(outcome))

(* The done callback _remove_finished_task pops whatever stands there. *)
TaskEnded(a) ==
    /\ Goto(a, "done")
    /\ taskDictionary' = [taskDictionary EXCEPT ![executor[a].process] = None]
    /\ cancelReason' = [cancelReason EXCEPT ![executor[a].process] = "none"]

FirstStep(a) ==
    /\ executor[a].pc = "created"
    /\ Goto(a, "marking")
    /\ UNCHANGED <<job, chunkRow, meta, localVars, transfer, caller, reaper, faults>>

(* update_job_running_async: pending -> running, or an early return *)
MarkRunning(a) ==
    /\ executor[a].pc = "marking"
    /\ IF job.status = "pending"
       THEN /\ job' = [job EXCEPT !.status = "running", !.stale = FALSE]
            /\ Goto(a, "starting")
            /\ UNCHANGED transfer
       ELSE /\ Unwind(a, "skipped")
            /\ UNCHANGED job
    /\ UNCHANGED <<chunkRow, meta, localVars, caller, reaper, faults>>

(* START_JOB_SCRIPT; on success the heartbeat task starts *)
StartMeta(a) ==
    /\ executor[a].pc = "starting"
    /\ IF meta.status = "pending" /\ meta.reason = "none"
       THEN /\ meta' = [meta EXCEPT !.status = "running", !.stale = FALSE]
            /\ Goto(a, "streaming")
       ELSE /\ Goto(a, "refused")
            /\ UNCHANGED meta
    /\ UNCHANGED <<job, chunkRow, localVars, transfer, caller, reaper, faults>>

(* The agent yields a chunk: it is buffered before it is published. *)
BufferChunk(a) ==
    /\ executor[a].pc = "streaming"
    /\ executor[a].chunks < MaxChunk
    /\ executor' = [executor EXCEPT ![a].pc = "publishing", ![a].chunks = @ + 1]
    /\ UNCHANGED <<job, chunkRow, meta, localVars, transfer, caller, reaper, faults>>

(* ADD_ACTIVE_JOB_STREAM_SCRIPT, which also refreshes heartbeat_at *)
PublishChunk(a) ==
    /\ executor[a].pc = "publishing"
    /\ IF MetaAccepts
       THEN /\ meta' = [meta EXCEPT !.stale = FALSE]
            /\ Goto(a, "streaming")
       ELSE /\ Goto(a, "rejected")
            /\ UNCHANGED meta
    /\ UNCHANGED <<job, chunkRow, localVars, transfer, caller, reaper, faults>>

(* _get_distributed_cancellation_reason_async, a read of its own after the  *)
(* script refused; "or 'cancelled'" when the hash has become active again.  *)
DistributedReason ==
    CASE meta.reason # "none"                              -> meta.reason
      [] meta.reason = "none" /\ meta.status \notin Active -> "heartbeat_expired"
      [] meta.reason = "none" /\ meta.status \in Active    -> "cancelled"

ReadReason(a) ==
    /\ executor[a].pc \in {"refused", "rejected"}
    /\ Unwind(a, OutcomeOf(DistributedReason))
    /\ UNCHANGED <<job, chunkRow, meta, localVars, caller, reaper, faults>>

StreamEnds(a) ==
    /\ executor[a].pc = "streaming"
    /\ Unwind(a, "completed")
    /\ UNCHANGED <<job, chunkRow, meta, localVars, caller, reaper, faults>>

(* TimeoutError, or any exception of the model, PostgreSQL or Redis *)
ExecutionFails(a) ==
    /\ executor[a].pc \in Trying
    /\ Unwind(a, "failed")
    /\ UNCHANGED <<job, chunkRow, meta, localVars, caller, reaper, faults>>

(* HEARTBEAT_JOB_SCRIPT's reason for refusing a beat *)
BeatRefusal == IF meta.reason # "none" THEN meta.reason ELSE "heartbeat_expired"

(* _heartbeat_async: a refusal cancels the execution task *)
Heartbeat(a) ==
    /\ executor[a].pc \in Beating
    /\ IF MetaAccepts
       THEN /\ meta' = [meta EXCEPT !.stale = FALSE]
            /\ UNCHANGED <<executor, transfer>>
       ELSE /\ Unwind(a, OutcomeOf(BeatRefusal))
            /\ UNCHANGED meta
    /\ UNCHANGED <<job, chunkRow, localVars, caller, reaper, faults>>

(* The heartbeat task has ended: shield(transfer_async(...)) *)
Flush(a) ==
    /\ executor[a].pc = "finishing"
    /\ Goto(a, "flushing")
    /\ StartTransfer(a, FinalStatus(executor[a].outcome))
    /\ UNCHANGED <<job, chunkRow, meta, localVars, caller, reaper, faults>>

TaskEnds(a) ==
    /\ executor[a].pc = "flushing"
    /\ transfer[a].pc = "done"
    /\ TaskEnded(a)
    /\ EndTransfer(a)
    /\ UNCHANGED <<job, chunkRow, meta, caller, reaper, faults>>

-----------------------------------------------------------------------------
(* transfer_async.  Only an execution task passes chunks to it. *)

ChunksOf(o) == IF o \in Attempt THEN {o} \X (1..executor[o].chunks) ELSE {}

Step(o, pc) == transfer' = [transfer EXCEPT ![o].pc = pc]

(* Mutant: the chunks are inserted whether or not the row is still active. *)
CommitEffectUnlocked(o) ==
    /\ chunkRow' = Inserted(chunkRow, ChunksOf(o))
    /\ job' = Finished(job, transfer[o].status, Cardinality(chunkRow'))

(* One transaction under SELECT ... FOR UPDATE: all chunk rows and the      *)
(* final status, or nothing when the row is no longer active.               *)
CommitEffect(o) ==
    IF job.status \in Active
    THEN /\ chunkRow' = Inserted(chunkRow, ChunksOf(o))
         /\ job' = Finished(job, transfer[o].status, Cardinality(chunkRow'))
    ELSE UNCHANGED <<job, chunkRow>>

Commit(o) ==
    /\ transfer[o].pc = "commit"
    /\ CommitEffect(o)
    /\ Step(o, IF job.status \in Active THEN "publish" ELSE "reread")
    /\ UNCHANGED <<meta, executor, localVars, caller, reaper, faults>>

(* The transaction raises: it was rolled back, or only its answer was lost. *)
CommitFails(o) ==
    /\ transfer[o].pc = "commit"
    /\ Fault("postgres")
    /\ CommitEffect(o) \/ UNCHANGED <<job, chunkRow>>
    /\ Step(o, "statusOnly")
    /\ UNCHANGED <<meta, executor, localVars, caller, reaper>>

(* Mutant: the status the task ended with is written, without its chunks. *)
FlushStatusOnlyAsEnded(o) ==
    /\ transfer[o].pc = "statusOnly"
    /\ job' = Finished(job, transfer[o].status, 0)
    /\ Step(o, "publish")
    /\ UNCHANGED <<chunkRow, meta, executor, localVars, caller, reaper, faults>>

(* _flush_status_only_async swallows its own failure; FAILED is published. *)
FlushStatusOnly(o) ==
    /\ transfer[o].pc = "statusOnly"
    /\ \/ job' = Finished(job, "failed", 0) /\ UNCHANGED faults
       \/ UNCHANGED job /\ Fault("postgres")
    /\ transfer' = [transfer EXCEPT ![o] = [pc |-> "publish", status |-> "failed"]]
    /\ UNCHANGED <<chunkRow, meta, executor, localVars, caller, reaper>>

(* Mutant: a transfer that lost publishes its own status all the same. *)
RereadOwnStatus(o) ==
    /\ transfer[o].pc = "reread"
    /\ Step(o, "publish")
    /\ UNCHANGED <<job, chunkRow, meta, executor, localVars, caller, reaper, faults>>

(* Mutant: a transfer that lost has nothing left to do. *)
RereadNothing(o) ==
    /\ transfer[o].pc = "reread"
    /\ Step(o, "done")
    /\ UNCHANGED <<job, chunkRow, meta, executor, localVars, caller, reaper, faults>>

(* Someone else ended the job: take over the status PostgreSQL has. *)
Reread(o) ==
    /\ transfer[o].pc = "reread"
    /\ \/ /\ job.status \in Terminal
          /\ transfer' = [transfer EXCEPT ![o] = [pc |-> "publish", status |-> job.status]]
          /\ UNCHANGED faults
       \/ /\ job.status \notin Terminal
          /\ Step(o, "done")
          /\ UNCHANGED faults
       \/ /\ Fault("postgres")
          /\ Step(o, "done")
    /\ UNCHANGED <<job, chunkRow, meta, executor, localVars, caller, reaper>>

(* FINALIZE_JOB_STREAM_SCRIPT: a terminal hash is left alone; RedisError is *)
(* swallowed.                                                               *)
PublishTerminal(o) ==
    /\ transfer[o].pc = "publish"
    /\ \/ /\ meta' = IF meta.status \in Terminal THEN meta
                     ELSE [meta EXCEPT !.status = transfer[o].status]
          /\ UNCHANGED faults
       \/ UNCHANGED meta /\ Fault("redis")
    /\ Step(o, "done")
    /\ UNCHANGED <<job, chunkRow, executor, localVars, caller, reaper>>

-----------------------------------------------------------------------------
(* cancel_async, fail_client_disconnected_async, shutdown_async *)

Begun == {a \in Attempt : executor[a].pc \notin {"absent", "retrying"}}

CallerGoto(c, pc) == caller' = [caller EXCEPT ![c].pc = pc]

(* get_job_async: a terminal row is answered as it is, a terminal hash has   *)
(* the row read again, any other hash stands for the row and is as active.  *)
FoundActive == job.status \in Active

RequestCancel(c, p, reason) ==
    /\ caller[c].pc = "idle"
    /\ FoundActive
    /\ caller' = [caller EXCEPT ![c] = [pc |-> "requesting", process |-> p,
                                        reason |-> reason, task |-> None, seen |-> {}]]
    /\ UNCHANGED <<job, chunkRow, meta, executor, localVars, transfer, reaper, faults>>

(* DELETE /llm/jobs/{run}, and a reader of POST /llm/chat who goes away *)
Cancel(c, p)     == RequestCancel(c, p, "cancelled")
Disconnect(c, p) == RequestCancel(c, p, "client_disconnected")

(* The task is looked up and the local reason set before Redis is asked. *)
SetLocalReason(c) ==
    LET p == caller[c].process IN
    /\ caller[c].pc = "requesting"
    /\ caller' = [caller EXCEPT ![c].pc = "asking", ![c].task = taskDictionary[p]]
    /\ cancelReason' = [cancelReason EXCEPT ![p] = caller[c].reason]
    /\ UNCHANGED <<job, chunkRow, meta, executor, taskDictionary, transfer, reaper, faults>>

(* shutdown_async: the same without Redis, for every task of the process *)
RequestShutdown(c, p) ==
    /\ caller[c].pc = "idle"
    /\ taskDictionary[p] # None
    /\ caller' = [caller EXCEPT ![c] = [pc |-> "cancelling", process |-> p, reason |-> "shutdown",
                                        task |-> taskDictionary[p], seen |-> {}]]
    /\ cancelReason' = [cancelReason EXCEPT ![p] = "shutdown"]
    /\ UNCHANGED <<job, chunkRow, meta, executor, taskDictionary, transfer, reaper, faults>>

(* REQUEST_JOB_CANCELLATION_SCRIPT.  Refused or unreachable, it raises       *)
(* RedisError: without a local task the job is then ended from here.  The   *)
(* bounded polling of _wait_for_terminal_async is time passing.             *)
AskRedis(c) ==
    LET hasTask == caller[c].task # None IN
    /\ caller[c].pc = "asking"
    /\ \/ /\ meta.status \in Active
          /\ meta' = [meta EXCEPT !.reason = caller[c].reason]
          /\ UNCHANGED <<cancelReason, faults>>
       \/ /\ \/ meta.status \notin Active /\ UNCHANGED faults
             \/ Fault("redis")
          /\ cancelReason' = IF hasTask THEN cancelReason
                             ELSE [cancelReason EXCEPT ![caller[c].process] = "none"]
          /\ UNCHANGED meta
    /\ CallerGoto(c, IF hasTask THEN "cancelling" ELSE "ensuring")
    /\ UNCHANGED <<job, chunkRow, executor, taskDictionary, transfer, reaper>>

(* execution_task.cancel(), as delivered: a task that never ran does not    *)
(* reach its finally clause, one that awaits its heartbeat swallows the     *)
(* cancellation, one that awaits the shielded transfer ends without it.     *)
CancelTask(c) ==
    LET a == caller[c].task
        p == executor[a].process IN
    /\ caller[c].pc = "cancelling"
    /\ CallerGoto(c, "joining")
    /\ \/ /\ executor[a].pc \in {"created", "flushing"}
          /\ TaskEnded(a)
          /\ UNCHANGED transfer
       \/ /\ executor[a].pc \in Trying
          /\ Unwind(a, OutcomeOf(cancelReason[p]))
          /\ UNCHANGED localVars
       \/ /\ executor[a].pc \in {"finishing", "done"}
          /\ UNCHANGED <<executor, transfer, localVars>>
    /\ UNCHANGED <<job, chunkRow, meta, reaper, faults>>

(* Mutant: the task has ended, so the job must have. *)
JoinTaskAndReturn(c) ==
    /\ caller[c].pc = "joining"
    /\ executor[caller[c].task].pc = "done"
    /\ caller' = [caller EXCEPT ![c] = NoCall("returned", Begun)]
    /\ UNCHANGED <<job, chunkRow, meta, executor, localVars, transfer, reaper, faults>>

JoinTask(c) ==
    /\ caller[c].pc = "joining"
    /\ executor[caller[c].task].pc = "done"
    /\ CallerGoto(c, "ensuring")
    /\ UNCHANGED <<job, chunkRow, meta, executor, localVars, transfer, reaper, faults>>

(* _ensure_terminal_async *)
EnsureTerminal(c) ==
    /\ caller[c].pc = "ensuring"
    /\ \/ /\ job.status \in Active
          /\ caller' = [caller EXCEPT ![c].pc = "settling", ![c].seen = Begun]
          /\ StartTransfer(c, OutcomeOf(caller[c].reason))
          /\ UNCHANGED faults
       \/ /\ job.status \notin Active
          /\ caller' = [caller EXCEPT ![c] = NoCall("returned", Begun)]
          /\ UNCHANGED <<transfer, faults>>
       \/ /\ Fault("postgres")
          /\ caller' = [caller EXCEPT ![c] = NoCall("raised", {})]
          /\ UNCHANGED transfer
    /\ UNCHANGED <<job, chunkRow, meta, executor, localVars, reaper>>

CallReturns(c) ==
    /\ caller[c].pc = "settling"
    /\ transfer[c].pc = "done"
    /\ caller' = [caller EXCEPT ![c] = NoCall("returned", @.seen)]
    /\ EndTransfer(c)
    /\ UNCHANGED <<job, chunkRow, meta, executor, localVars, reaper, faults>>

-----------------------------------------------------------------------------
(* reap_once_async: the scan of the meta keys, then the gap between the     *)
(* active rows and them.                                                    *)

ReaperGoto(p, pc) == reaper' = [reaper EXCEPT ![p] = pc]

(* _reap_job_async up to its decision *)
ScanMeta(p) ==
    /\ reaper[p] = "scanning"
    /\ ReaperGoto(p, IF meta.status \in Active /\ meta.stale THEN "fencing" ELSE "listing")
    /\ UNCHANGED <<job, chunkRow, meta, executor, localVars, transfer, caller, faults>>

(* HSET without a condition: the hash may have been replaced or expired. *)
FenceMeta(p) ==
    /\ reaper[p] = "fencing"
    /\ meta' = [meta EXCEPT !.reason = "heartbeat_expired"]
    /\ StartTransfer(p, "failed")
    /\ ReaperGoto(p, "reaping")
    /\ UNCHANGED <<job, chunkRow, executor, localVars, caller, faults>>

ReapEnds(p) ==
    /\ reaper[p] \in {"reaping", "filling"}
    /\ transfer[p].pc = "done"
    /\ ReaperGoto(p, IF reaper[p] = "reaping" THEN "listing" ELSE "scanning")
    /\ EndTransfer(p)
    /\ UNCHANGED <<job, chunkRow, meta, executor, localVars, caller, faults>>

(* _reap_active_gap_async: get_stale_active_job_list_async *)
ListStaleRows(p) ==
    /\ reaper[p] = "listing"
    /\ ReaperGoto(p, IF job.status \in Active /\ job.stale THEN "checking" ELSE "scanning")
    /\ UNCHANGED <<job, chunkRow, meta, executor, localVars, transfer, caller, faults>>

(* Mutant: a missing hash is left to the scan of the hashes. *)
CheckGapOfHashes(p) ==
    /\ reaper[p] = "checking"
    /\ IF meta.status \in Active \union {"none"}
       THEN /\ ReaperGoto(p, "scanning")
            /\ UNCHANGED transfer
       ELSE /\ ReaperGoto(p, "filling")
            /\ StartTransfer(p, "failed")
    /\ UNCHANGED <<job, chunkRow, meta, executor, localVars, caller, faults>>

(* _is_valid_active_meta, on a hash read after the list *)
CheckGap(p) ==
    /\ reaper[p] = "checking"
    /\ IF meta.status \in Active
       THEN /\ ReaperGoto(p, "scanning")
            /\ UNCHANGED transfer
       ELSE /\ ReaperGoto(p, "filling")
            /\ StartTransfer(p, "failed")
    /\ UNCHANGED <<job, chunkRow, meta, executor, localVars, caller, faults>>

(* An error that is caught ends the work on this key, or this pass; the HSET *)
(* of the fence may have taken effect.                                      *)
ReaperFails(p) ==
    /\ \/ /\ reaper[p] = "scanning"
          /\ ReaperGoto(p, "listing")
          /\ UNCHANGED meta
          /\ Fault("redis")
       \/ /\ reaper[p] = "fencing"
          /\ ReaperGoto(p, "listing")
          /\ meta' \in {meta, [meta EXCEPT !.reason = "heartbeat_expired"]}
          /\ Fault("redis")
       \/ /\ reaper[p] = "listing"
          /\ ReaperGoto(p, "scanning")
          /\ UNCHANGED meta
          /\ Fault("postgres")
       \/ /\ reaper[p] = "checking"
          /\ ReaperGoto(p, "scanning")
          /\ UNCHANGED meta
          /\ Fault("redis")
    /\ UNCHANGED <<job, chunkRow, executor, localVars, transfer, caller>>

(* No connection: pool.acquire raises OSError, InterfaceError or            *)
(* TimeoutError, which _run_async does not catch, from the list of stale    *)
(* rows or from the reread of a transfer.  Its task ends, and nothing but a *)
(* restart of the process starts another.                                   *)
ReaperDies(p) ==
    /\ \/ reaper[p] = "listing"
       \/ reaper[p] \in {"reaping", "filling"} /\ transfer[p].pc = "reread"
    /\ ReaperGoto(p, "ended")
    /\ EndTransfer(p)
    /\ Fault("postgres")
    /\ UNCHANGED <<job, chunkRow, meta, executor, localVars, caller>>

-----------------------------------------------------------------------------
(* The environment *)

(* More than heartbeat_expire_second_count since heartbeat_at / updated_at *)
HeartbeatLapses ==
    /\ meta.status \in Active
    /\ meta' = [meta EXCEPT !.stale = TRUE]
    /\ UNCHANGED <<job, chunkRow, executor, localVars, transfer, caller, reaper, faults>>

RowLapses ==
    /\ job.status \in Active
    /\ job' = [job EXCEPT !.stale = TRUE]
    /\ UNCHANGED <<chunkRow, meta, executor, localVars, transfer, caller, reaper, faults>>

(* The grace TTL of a finalized hash; an active one is lost only with Redis *)
(* itself, its safety TTL is longer than any execution.                     *)
MetaExpires ==
    /\ \/ meta.status \in Terminal /\ UNCHANGED faults
       \/ meta.status \in Active /\ Fault("redis")
    /\ meta' = NoMeta
    /\ UNCHANGED <<job, chunkRow, executor, localVars, transfer, caller, reaper>>

RunsAt(o, p) ==
    \/ o \in Attempt /\ executor[o].process = p
    \/ o \in Caller /\ caller[o].process = p
    \/ o = p

(* A process dies with its tasks, calls and dictionaries, and is restarted. *)
Crash(p) ==
    /\ Fault("crash")
    /\ executor' = [a \in Attempt |-> IF executor[a].process = p
                                      THEN [executor[a] EXCEPT !.pc = "done"] ELSE executor[a]]
    /\ transfer' = [o \in Owner |-> IF RunsAt(o, p) THEN NoTransfer ELSE transfer[o]]
    /\ caller' = [c \in Caller |-> IF caller[c].process = p THEN NoCall("raised", {})
                                                            ELSE caller[c]]
    /\ taskDictionary' = [taskDictionary EXCEPT ![p] = None]
    /\ cancelReason' = [cancelReason EXCEPT ![p] = "none"]
    /\ reaper' = [reaper EXCEPT ![p] = "scanning"]
    /\ UNCHANGED <<job, chunkRow, meta>>

-----------------------------------------------------------------------------
SubmissionStep(a) ==
    \/ StoreUserMessages(a)
    \/ RetryReset(a)
    \/ InitializeMeta(a)
    \/ InitializeMetaFails(a)
    \/ GiveUpAttempt(a)

TaskStep(a) ==
    \/ FirstStep(a)
    \/ MarkRunning(a)
    \/ StartMeta(a)
    \/ BufferChunk(a)
    \/ PublishChunk(a)
    \/ ReadReason(a)
    \/ StreamEnds(a)
    \/ ExecutionFails(a)
    \/ Flush(a)
    \/ TaskEnds(a)

TransferStep(o) ==
    \/ Commit(o)
    \/ CommitFails(o)
    \/ FlushStatusOnly(o)
    \/ Reread(o)
    \/ PublishTerminal(o)

CallerStep(c) ==
    \/ SetLocalReason(c)
    \/ AskRedis(c)
    \/ CancelTask(c)
    \/ JoinTask(c)
    \/ EnsureTerminal(c)
    \/ CallReturns(c)

ReaperStep(p) ==
    \/ ScanMeta(p)
    \/ FenceMeta(p)
    \/ ReapEnds(p)
    \/ ListStaleRows(p)
    \/ CheckGap(p)
    \/ ReaperFails(p)
    \/ ReaperDies(p)

(* What users and operators do, when they like. *)
Demand(p) ==
    \/ \E a \in Attempt : Submit(p, a) \/ RetryCheck(p, a)
    \/ \E c \in Caller : Cancel(c, p) \/ Disconnect(c, p) \/ RequestShutdown(c, p)

Environment ==
    \/ HeartbeatLapses
    \/ RowLapses
    \/ MetaExpires
    \/ \E p \in Process : Crash(p)

Next ==
    \/ \E a \in Attempt : SubmissionStep(a) \/ TaskStep(a) \/ Heartbeat(a)
    \/ \E o \in Owner : TransferStep(o)
    \/ \E c \in Caller : CallerStep(c)
    \/ \E p \in ReaperProcess : ReaperStep(p)
    \/ \E p \in Process : Demand(p)
    \/ Environment

Spec == Init /\ [][Next]_vars

(* A heartbeat nobody refreshes any more does grow old. *)
QuietLapse ==
    /\ \A a \in Attempt : executor[a].pc \notin Beating
    /\ HeartbeatLapses

(* Event loops run what is ready, a model stream ends or times out, the     *)
(* reaper loop of a process goes on while its task is alive, and clocks     *)
(* advance.  Nobody has to submit, retry or cancel, no heartbeat has to be  *)
(* on time, no fault has to happen.                                         *)
Fairness ==
    /\ \A a \in Attempt : WF_vars(SubmissionStep(a)) /\ WF_vars(TaskStep(a))
    /\ \A o \in Owner : WF_vars(TransferStep(o))
    /\ \A c \in Caller : WF_vars(CallerStep(c))
    /\ \A p \in ReaperProcess : WF_vars(ReaperStep(p))
    /\ WF_vars(QuietLapse)
    /\ WF_vars(RowLapses)

FairSpec == Spec /\ Fairness

-----------------------------------------------------------------------------
(* Whatever is stored was stored by one attempt, whole: the chunks of two   *)
(* attempts never mix, none is missing, and an active row has none, so that *)
(* a retry starts from an empty one.  (job_transfer.py: one transaction     *)
(* under the row lock; job_repository.py: reset_job_for_retry_async)        *)
RowsOfOneAttempt ==
    /\ job.status \notin Terminal => chunkRow = {}
    /\ job.chunkCount = Cardinality(chunkRow)
    /\ chunkRow # {} => \E a \in Attempt : chunkRow = ChunksOf(a)

(* A completed job holds the whole output of an attempt that meant to       *)
(* complete it; a late, stale or losing transfer never completes it with    *)
(* less.  (job_executor.py: the buffers handed to the shielded transfer)    *)
CompletedIsWhole ==
    job.status = "completed" =>
        \E a \in Attempt : /\ FinalStatus(executor[a].outcome) = "completed"
                          /\ chunkRow = ChunksOf(a)

(* "실행이 성공하면 JobTransfer 가 상태를 completed 로 갱신한다": a completed job   *)
(* is one whose execution succeeded.  (job_manager.py:296)                  *)
CompletedMeansExecuted ==
    job.status = "completed" =>
        \E a \in Attempt : executor[a].outcome = "completed" /\ chunkRow = ChunksOf(a)

(* Redis never claims an ending PostgreSQL does not have: a hash, or a      *)
(* transfer about to write one, that says completed or cancelled says what  *)
(* the row says, whatever retried, lost or late transfers are around.       *)
(* (job_transfer.py: publish only after the commit or after the reread)     *)
Claims == {meta.status} \union {transfer[o].status : o \in {x \in Owner : transfer[x].pc = "publish"}}

PublishedEndingsAreTrue ==
    \A s \in {"completed", "cancelled"} : s \in Claims => job.status = s

(* cancel_async, fail_client_disconnected_async and shutdown_async leave no *)
(* active job behind: once such a call has returned, the row is active only *)
(* if the lost job was started again since - whichever process runs the     *)
(* task, whatever Redis does, whether the task had begun, was unwinding or  *)
(* was already flushing.  A failure of PostgreSQL voids it.                 *)
CancelSettles ==
    \A c \in Caller :
        /\ caller[c].pc = "returned"
        /\ job.status \in Active
        /\ "postgres" \notin faults.kinds
        => ~ (Begun \subseteq caller[c].seen)

(* The row and its chunks keep the promise of JobRecord. *)
Record == INSTANCE JobRecord WITH status <- job.status, rows <- chunkRow

RecordPromise == Record!Spec

(* From some point on there is a reaper: one process that has not lost its   *)
(* own to an outage, or that is restarted after it.                         *)
ReaperStays == <>[](\E p \in ReaperProcess : reaper[p] # "ended")

(* Every job that is submitted or retried ends, in PostgreSQL, although     *)
(* processes crash, Redis loses the hash, flushes fail and passes of the    *)
(* reaper do: what no task ends the reaper does.  It takes a reaper that is *)
(* left: an outage of PostgreSQL in the wrong moment ends its task for      *)
(* good, and the job of a crashed process then stays active for ever.       *)
(* (job_reaper.py)                                                          *)
EveryJobEnds == ReaperStays => (job.status \in Active ~> job.status \in Terminal)

(* A hash that still says active over a row that has ended is corrected, as *)
(* long as there is a reaper:                                               *)
(* "reaper가 heartbeat 만료 meta를 다시 발견하면 PostgreSQL terminal 상태로     *)
(* 재발행한다" (job_transfer.py, where a failed publication is swallowed)     *)
StaleMeta == job.status \in Terminal /\ meta.status \in Active

MetaIsCorrected == ReaperStays => (StaleMeta ~> ~ StaleMeta)

=============================================================================
