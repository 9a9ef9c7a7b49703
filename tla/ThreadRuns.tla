----------------------------- MODULE ThreadRuns -----------------------------
(***************************************************************************)
(* The runs of a thread.  A request either submits a job                   *)
(* (job_manager.py, submit_async) or is streamed by the orchestrator and   *)
(* stored when it has ended (orchestrator_api_router.py,                   *)
(* chunk_flush_service.py).  Both take their turn number under the         *)
(* advisory lock of the thread, both keep llm_thread up to date, and       *)
(* nothing but PostgreSQL and Redis stands between two of them: every      *)
(* request is served by a process of its own.                              *)
(*                                                                         *)
(* How a job that has a task gets from pending to its end is JobLifecycle; *)
(* here a task just ends, once or again after a retry.                     *)
(***************************************************************************)
EXTENDS Naturals

CONSTANTS
    Request,     \* requests, each with the run_id it generates
    Thread,      \* thread_id
    User,        \* user_id
    Key,         \* idempotency keys
    Mix,         \* which requests may come together: functions from Request to Order
    None,        \* no key, no lock, no run
    MaxChunk,    \* bound: chunks of a run
    FaultKinds,  \* which faults may happen: postgres, redis, crash, expiry
    MaxFaults    \* bound: faults

Order == [kind : {"job", "stream"}, thread : Thread, user : User, key : Key \union {None}]

ASSUME ConstantsAssumption ==
    /\ None \notin Request \union Key \union User
    /\ Mix \subseteq [Request -> Order]
    /\ \A m \in Mix, r \in Request : m[r].kind = "stream" => m[r].key = None
    /\ MaxChunk \in Nat
    /\ FaultKinds \subseteq {"postgres", "redis", "crash", "expiry"}
    /\ MaxFaults \in Nat

VARIABLES
    order,     \* what each request asks for
    req,       \* every handler, await by await
    job,       \* llm_job: one row per run
    task,      \* runs with an execution task
    chat,      \* llm_thread
    advisory,  \* pg_advisory_xact_lock of each thread
    keyLock,   \* inflight:{key} in Redis
    buffer,    \* chunk_list of each streamed run in Redis
    faults     \* how many faults there have been

vars == <<order, req, job, task, chat, advisory, keyLock, buffer, faults>>

-----------------------------------------------------------------------------
Active == {"pending"}  \* or running, which no index and no action here tells apart
Ended  == {"completed", "failed", "cancelled"}

(* Between taking the key's lock and either having a task or giving up *)
Inserting == {"begin", "insert", "upsert", "question", "meta", "unstarted"}
Flushing  == {"flush", "begin", "insert", "delete"}

Pc == {"new", "key", "lock", "blocked", "asked", "violated", "failing", "lookup",
       "streaming", "clearing", "answered"} \union Inserting \union Flushing

Handler == [pc       : Pc,
            told     : Request \union {None},  \* a run read from the lock, then the run in a 409
            turn     : Nat,                    \* the turn number the transaction has read
            streamed : 0..MaxChunk,            \* chunks appended and sent
            read     : 0..MaxChunk,            \* chunks the flush has read
            finished : BOOLEAN,                \* is_stream_finished
            leaks    : BOOLEAN,                \* it ended without releasing its lock
            expired  : BOOLEAN]                \* Redis has lost its buffer

Row == [status : {"none"} \union Active \union Ended, turn : Nat, chunks : 0..MaxChunk]

ThreadRow == [user : User \union {None}, run : Request \union {None},
              status : {"none", "pending"} \union Ended]

TypeOK ==
    /\ order \in Mix
    /\ req \in [Request -> Handler]
    /\ job \in [Request -> Row]
    /\ \A r \in Request : job[r].status # "none" => job[r].turn > 0
    /\ task \subseteq Request
    /\ chat \in [Thread -> ThreadRow]
    /\ advisory \in [Thread -> Request \union {None}]
    /\ keyLock \in [Key -> Request \union {None}]
    /\ buffer \in [Request -> 0..MaxChunk]
    /\ faults \in 0..MaxFaults

ThreadOf(r) == order[r].thread
UserOf(r)   == order[r].user
KeyOf(r)    == order[r].key
IsJob(r)    == order[r].kind = "job"

Stored  == {r \in Request : job[r].status # "none"}
Runs(t) == {r \in Stored : ThreadOf(r) = t}

New == [pc |-> "new", told |-> None, turn |-> 0, streamed |-> 0, read |-> 0,
        finished |-> FALSE, leaks |-> FALSE, expired |-> FALSE]

Init ==
    /\ order \in Mix
    /\ req = [r \in Request |-> New]
    /\ job = [r \in Request |-> [status |-> "none", turn |-> 0, chunks |-> 0]]
    /\ task = {}
    /\ chat = [t \in Thread |-> [user |-> None, run |-> None, status |-> "none"]]
    /\ advisory = [t \in Thread |-> None]
    /\ keyLock = [k \in Key |-> None]
    /\ buffer = [r \in Request |-> 0]
    /\ faults = 0

Step(r, from, to) ==
    /\ req[r].pc = from
    /\ req' = [req EXCEPT ![r].pc = to]

Fault(kind) ==
    /\ kind \in FaultKinds
    /\ faults < MaxFaults
    /\ faults' = faults + 1

-----------------------------------------------------------------------------
(* Admission of a submitted job: submit_async up to its transaction *)

(* get_thread_owner_user_id_async: the user of the first row by created_at,  *)
(* a time each process takes before it waits for the lock, so not a          *)
(* particular one of the rows                                                *)
MayOwn(t, u) == Runs(t) = {} \/ \E r \in Runs(t) : UserOf(r) = u
MayNotOwn(t, u) == \E r \in Runs(t) : UserOf(r) # u

(* The first look at the owner, in submit_async and in                       *)
(* _assert_thread_owner_async alike                                          *)
CheckOwner(r) ==
    /\ \/ /\ MayOwn(ThreadOf(r), UserOf(r))
          /\ Step(r, "new", IF ~ IsJob(r) THEN "upsert"
                            ELSE IF KeyOf(r) = None THEN "begin" ELSE "key")
       \/ /\ MayNotOwn(ThreadOf(r), UserOf(r))
          /\ Step(r, "new", "answered")
    /\ UNCHANGED <<order, job, task, chat, advisory, keyLock, buffer, faults>>

(* A stored run of that key, if there is one: the unique index allows one    *)
WithKey(k) == {r \in Stored : KeyOf(r) = k}

(* Mutant: the caller is told the run whoever it belongs to. *)
VisibleToAll(r, found) == found

(* existing_run_id, or UNKNOWN for somebody else's *)
Visible(r, found) == {s \in found : UserOf(s) = UserOf(r)}

AnswerDuplicate(r, found) ==
    \E s \in Visible(r, found) \union (IF Visible(r, found) = {} THEN {None} ELSE {}) :
        req' = [req EXCEPT ![r].pc = "answered", ![r].told = s]

(* get_job_by_idempotency_key_async before the lock *)
CheckKey(r) ==
    /\ req[r].pc = "key"
    /\ IF WithKey(KeyOf(r)) = {}
       THEN req' = [req EXCEPT ![r].pc = "lock"]
       ELSE AnswerDuplicate(r, WithKey(KeyOf(r)))
    /\ UNCHANGED <<order, job, task, chat, advisory, keyLock, buffer, faults>>

(* acquire_lock_async: SET NX EX *)
AcquireLock(r) ==
    /\ \/ /\ Step(r, "lock", "begin")
          /\ keyLock[KeyOf(r)] = None
          /\ keyLock' = [keyLock EXCEPT ![KeyOf(r)] = r]
       \/ /\ Step(r, "lock", "blocked")
          /\ keyLock[KeyOf(r)] # None
          /\ UNCHANGED keyLock
    /\ UNCHANGED <<order, job, task, chat, advisory, buffer, faults>>

(* get_string_async(lock_key) *)
ReadLock(r) ==
    /\ req[r].pc = "blocked"
    /\ req' = [req EXCEPT ![r].pc = "asked", ![r].told = keyLock[KeyOf(r)]]
    /\ UNCHANGED <<order, job, task, chat, advisory, keyLock, buffer, faults>>

(* get_job_async of the run that held the lock *)
AnswerBlocked(r) ==
    /\ req[r].pc = "asked"
    /\ AnswerDuplicate(r, {req[r].told} \intersect Stored)
    /\ UNCHANGED <<order, job, task, chat, advisory, keyLock, buffer, faults>>

(* A command outside the transaction raises: 500.  No lock is held that this *)
(* request knows of; a SET whose answer is lost leaves it all the same.      *)
AdmissionFails(r) ==
    /\ \/ /\ req[r].pc \in {"new", "key", "asked", "lookup"}
          /\ Fault("postgres")
          /\ req' = [req EXCEPT ![r].pc = "answered", ![r].told = None]
          /\ UNCHANGED keyLock
       \/ /\ req[r].pc = "blocked"
          /\ Fault("redis")
          /\ req' = [req EXCEPT ![r].pc = "answered"]
          /\ UNCHANGED keyLock
       \/ /\ req[r].pc = "lock"
          /\ Fault("redis")
          /\ \/ /\ req' = [req EXCEPT ![r].pc = "answered"]
                /\ UNCHANGED keyLock
             \/ /\ keyLock[KeyOf(r)] = None
                /\ req' = [req EXCEPT ![r].pc = "answered", ![r].leaks = TRUE]
                /\ keyLock' = [keyLock EXCEPT ![KeyOf(r)] = r]
    /\ UNCHANGED <<order, job, task, chat, advisory, buffer>>

(* idempotency_lock_ttl_second_count has passed; Redis has lost it *)
ExpireLock(k) ==
    /\ Fault("expiry")
    /\ keyLock[k] # None
    /\ keyLock' = [keyLock EXCEPT ![k] = None]
    /\ UNCHANGED <<order, req, job, task, chat, advisory, buffer>>

-----------------------------------------------------------------------------
(* The numbering of turns: insert_job_async and                             *)
(* _insert_completed_job_with_connection_async *)

Turns(t) == {job[r].turn : r \in Runs(t)}

(* COALESCE(MAX(turn_number), 0) *)
LastTurn(t) == CHOOSE n \in Turns(t) \union {0} : \A m \in Turns(t) : m <= n

(* What a refused transaction leaves: submit_async releases the key's lock,  *)
(* the orchestrator keeps the buffer                                         *)
Refused(r) == IF IsJob(r) THEN "failing" ELSE "answered"

(* Mutant: no pg_advisory_xact_lock. *)
TakeTurnUnlocked(r) ==
    /\ req[r].pc = "begin"
    /\ \/ /\ MayOwn(ThreadOf(r), UserOf(r))
          /\ req' = [req EXCEPT ![r].pc = "insert", ![r].turn = LastTurn(ThreadOf(r)) + 1]
          /\ UNCHANGED advisory
       \/ /\ MayNotOwn(ThreadOf(r), UserOf(r))
          /\ req' = [req EXCEPT ![r].pc = Refused(r)]
          /\ UNCHANGED advisory
    /\ UNCHANGED <<order, job, task, chat, keyLock, buffer, faults>>

(* Mutant: the owner is only looked up before the transaction. *)
TakeTurnUnowned(r) ==
    /\ req[r].pc = "begin"
    /\ advisory[ThreadOf(r)] = None
    /\ req' = [req EXCEPT ![r].pc = "insert", ![r].turn = LastTurn(ThreadOf(r)) + 1]
    /\ advisory' = [advisory EXCEPT ![ThreadOf(r)] = r]
    /\ UNCHANGED <<order, job, task, chat, keyLock, buffer, faults>>

(* pg_advisory_xact_lock, the owner again, MAX(turn_number) + 1.  A ValueError *)
(* rolls back and with that unlocks.                                           *)
TakeTurn(r) ==
    /\ req[r].pc = "begin"
    /\ advisory[ThreadOf(r)] = None
    /\ \/ /\ MayOwn(ThreadOf(r), UserOf(r))
          /\ req' = [req EXCEPT ![r].pc = "insert", ![r].turn = LastTurn(ThreadOf(r)) + 1]
          /\ advisory' = [advisory EXCEPT ![ThreadOf(r)] = r]
       \/ /\ MayNotOwn(ThreadOf(r), UserOf(r))
          /\ req' = [req EXCEPT ![r].pc = Refused(r)]
          /\ UNCHANGED advisory
    /\ UNCHANGED <<order, job, task, chat, keyLock, buffer, faults>>

Unlock(t) == advisory' = [advisory EXCEPT ![t] = None]

(* uq_llm_job_thread_active, uq_llm_job_idempotency *)
OthersActive(r) == {s \in Runs(ThreadOf(r)) \ {r} : job[s].status \in Active}

Violates(r) == OthersActive(r) # {} \/ (KeyOf(r) # None /\ WithKey(KeyOf(r)) # {})

InsertRow(r) ==
    job' = [job EXCEPT ![r] = [status |-> "pending", turn |-> req[r].turn, chunks |-> 0]]

(* INSERT and COMMIT of insert_job_async *)
InsertJob(r) ==
    /\ IsJob(r)
    /\ \/ /\ ~ Violates(r)
          /\ InsertRow(r)
          /\ Step(r, "insert", "upsert")
       \/ /\ Violates(r)
          /\ Step(r, "insert", "violated")
          /\ UNCHANGED job
    /\ Unlock(ThreadOf(r))
    /\ UNCHANGED <<order, task, chat, keyLock, buffer, faults>>

(* That transaction fails, or only its answer is lost.  A PostgresError is    *)
(* caught, what a broken connection raises (OSError, InterfaceError) is not.  *)
Holds(r) == KeyOf(r) # None /\ keyLock[KeyOf(r)] = r

Caught(r) == req' = [req EXCEPT ![r].pc = "failing"]
Uncaught(r) == req' = [req EXCEPT ![r].pc = "answered", ![r].leaks = Holds(r)]

InsertJobFails(r) ==
    /\ IsJob(r)
    /\ Fault("postgres")
    /\ \/ /\ req[r].pc = "begin"
          /\ UNCHANGED <<job, advisory>>
       \/ /\ req[r].pc = "insert"
          /\ Unlock(ThreadOf(r))
          /\ UNCHANGED job \/ (~ Violates(r) /\ InsertRow(r))
    /\ Caught(r) \/ Uncaught(r)
    /\ UNCHANGED <<order, task, chat, keyLock, buffer>>

-----------------------------------------------------------------------------
(* llm_thread and the rest of a submission *)

(* Mutant: ON CONFLICT DO UPDATE without its WHERE. *)
ShowPendingToAll(r) ==
    LET t == ThreadOf(r)
    IN  chat' = [chat EXCEPT ![t].run = r, ![t].status = "pending",
                             ![t].user = IF @ = None THEN UserOf(r) ELSE @]

(* upsert_thread_on_submit_async: another user's row is left alone *)
ShowPending(r) ==
    LET t == ThreadOf(r)
    IN  IF chat[t].user \in {None, UserOf(r)}
        THEN chat' = [chat EXCEPT ![t] = [user |-> UserOf(r), run |-> r, status |-> "pending"]]
        ELSE UNCHANGED chat

UpsertThread(r) ==
    /\ Step(r, "upsert", "question")
    /\ ShowPending(r)
    /\ UNCHANGED <<order, job, task, advisory, keyLock, buffer, faults>>

(* insert_user_message_list_async; the orchestrator's insert_message_async *)
InsertQuestion(r) ==
    /\ Step(r, "question", IF IsJob(r) THEN "meta" ELSE "streaming")
    /\ UNCHANGED <<order, job, task, chat, advisory, keyLock, buffer, faults>>

(* Either of the two fails, or only its answer is lost.  The row of a job is  *)
(* not taken back. *)
BookkeepingFails(r) ==
    /\ req[r].pc \in {"upsert", "question"}
    /\ Fault("postgres")
    /\ UNCHANGED chat \/ (req[r].pc = "upsert" /\ ShowPending(r))
    /\ Uncaught(r) \/ (IsJob(r) /\ Caught(r))
    /\ UNCHANGED <<order, job, task, advisory, keyLock, buffer>>

(* The hash is written, the task created, the request answered 202. *)
StartTask(r) ==
    /\ Step(r, "meta", "answered")
    /\ task' = task \union {r}
    /\ UNCHANGED <<order, job, chat, advisory, keyLock, buffer, faults>>

MetaFails(r) ==
    /\ Step(r, "meta", "unstarted")
    /\ Fault("redis")
    /\ UNCHANGED <<order, job, task, chat, advisory, keyLock, buffer>>

(* WHERE status IN ('pending', 'running') *)
FailRow(r) ==
    job' = [job EXCEPT ![r].status = IF @ \in Active THEN "failed" ELSE @]

(* "REDIS INITIALIZATION FAILED": the status only, not the thread *)
FailUnstarted(r) ==
    /\ \/ /\ Step(r, "unstarted", "failing")
          /\ FailRow(r)
          /\ UNCHANGED faults
       \/ /\ req[r].pc = "unstarted"
          /\ Fault("postgres")
          /\ Uncaught(r)
          /\ UNCHANGED job
    /\ UNCHANGED <<order, task, chat, advisory, keyLock, buffer>>

(* Mutant: a failed submission keeps the lock until it expires. *)
ReleaseNothing(r) == UNCHANGED keyLock

(* release_lock_async: deletes the lock if it is still this request's *)
Release(r) ==
    IF Holds(r)
    THEN keyLock' = [keyLock EXCEPT ![KeyOf(r)] = None]
    ELSE UNCHANGED keyLock

(* The except clauses of submit_async; a RedisError in them is ignored *)
GiveUp(r) ==
    /\ \/ /\ Step(r, "violated", "lookup") \/ Step(r, "failing", "answered")
          /\ Release(r)
          /\ UNCHANGED faults
       \/ /\ Fault("redis")
          /\ \/ /\ req[r].pc = "violated"
                /\ req' = [req EXCEPT ![r].pc = "lookup", ![r].leaks = Holds(r)]
             \/ /\ req[r].pc = "failing"
                /\ req' = [req EXCEPT ![r].pc = "answered", ![r].leaks = Holds(r)]
          /\ UNCHANGED keyLock
    /\ UNCHANGED <<order, job, task, chat, advisory, buffer>>

(* A 409 after a UniqueViolation, whichever of the indexes raised it *)
LookUp(r) ==
    /\ req[r].pc = "lookup"
    /\ AnswerDuplicate(r, IF KeyOf(r) = None THEN {} ELSE WithKey(KeyOf(r)))
    /\ UNCHANGED <<order, job, task, chat, advisory, keyLock, buffer, faults>>

-----------------------------------------------------------------------------
(* The end of a job *)

(* Mutant: the thread is updated by a transfer that found the row ended. *)
TransferAlways(r, status, chunks) ==
    LET t == ThreadOf(r)
    IN
    /\ job' = [job EXCEPT ![r] = IF @.status \in Active
                                 THEN [@ EXCEPT !.status = status, !.chunks = chunks] ELSE @]
    /\ chat' = IF chat[t].user = UserOf(r)
               THEN [chat EXCEPT ![t].run = r, ![t].status = status]
               ELSE chat

(* The transaction of transfer_async with update_thread_on_finish_async *)
Transfer(r, status, chunks) ==
    LET t == ThreadOf(r)
    IN  IF job[r].status \in Active
        THEN /\ job' = [job EXCEPT ![r].status = status, ![r].chunks = chunks]
             /\ chat' = IF chat[t].user = UserOf(r)
                        THEN [chat EXCEPT ![t].run = r, ![t].status = status]
                        ELSE chat
        ELSE UNCHANGED <<job, chat>>

(* The chunks of a job are only ever asked for when it has failed. *)
TaskEnds(r) ==
    /\ r \in task
    /\ task' = task \ {r}
    /\ \E status \in Ended, chunks \in 0..MaxChunk :
          /\ status # "failed" => chunks = MaxChunk
          /\ Transfer(r, status, chunks)
    /\ UNCHANGED <<order, req, advisory, keyLock, buffer, faults>>

(* _flush_status_only_async, and the failed HSET of a retry: the status only, *)
(* not the thread; or not even that *)
TaskFails(r) ==
    /\ r \in task
    /\ task' = task \ {r}
    /\ Fault("postgres") \/ Fault("redis")
    /\ FailRow(r) \/ UNCHANGED job
    /\ UNCHANGED <<order, req, chat, advisory, keyLock, buffer>>

(* A reaper, in any process, at any time *)
Reap(r) ==
    /\ job[r].status \in Active
    /\ Transfer(r, "failed", 0)
    /\ UNCHANGED <<order, req, task, advisory, keyLock, buffer, faults>>

(* Mutant: reset_job_for_retry_async resets turn_number among the counters. *)
RetryFromScratch(r) ==
    /\ IsJob(r)
    /\ job[r].status = "failed"
    /\ job[r].chunks = 0
    /\ OthersActive(r) = {}
    /\ job' = [job EXCEPT ![r] = [status |-> "pending", turn |-> 0, chunks |-> 0]]
    /\ task' = task \union {r}
    /\ UNCHANGED <<order, req, chat, advisory, keyLock, buffer, faults>>

(* retry_lost_job_async.  If another run of the thread is active the UPDATE   *)
(* violates uq_llm_job_thread_active and nothing has happened. *)
Retry(r) ==
    /\ IsJob(r)
    /\ job[r].status = "failed"
    /\ job[r].chunks = 0
    /\ OthersActive(r) = {}
    /\ job' = [job EXCEPT ![r].status = "pending"]
    /\ task' = task \union {r}
    /\ UNCHANGED <<order, req, chat, advisory, keyLock, buffer, faults>>

-----------------------------------------------------------------------------
(* A run streamed by the orchestrator *)

(* append_chunk_async and the SSE event *)
StreamChunk(r) ==
    /\ req[r].pc = "streaming"
    /\ req[r].streamed < MaxChunk
    /\ buffer' = [buffer EXCEPT ![r] = @ + 1]
    /\ req' = [req EXCEPT ![r].streamed = @ + 1]
    /\ UNCHANGED <<order, job, task, chat, advisory, keyLock, faults>>

(* is_stream_finished = True *)
FinishStream(r) ==
    /\ req[r].pc = "streaming"
    /\ req' = [req EXCEPT ![r].pc = "flush", ![r].finished = TRUE]
    /\ UNCHANGED <<order, job, task, chat, advisory, keyLock, buffer, faults>>

(* The graph raises, or Redis does. *)
StreamFails(r) ==
    /\ Step(r, "streaming", "clearing")
    /\ UNCHANGED <<order, job, task, chat, advisory, keyLock, buffer, faults>>

(* Mutant: the finally clause deletes the buffer in any case. *)
LeaveAndClear(r) ==
    /\ ~ IsJob(r)
    /\ req[r].pc \in {"streaming"} \union Flushing
    /\ req' = [req EXCEPT ![r].pc = IF @ = "streaming" THEN "clearing" ELSE @]
    /\ buffer' = [buffer EXCEPT ![r] = 0]
    /\ UNCHANGED <<order, job, task, chat, advisory, keyLock, faults>>

(* The client disconnects.  asyncio.shield lets a flush go on, and            *)
(* is_stream_finished keeps the finally clause from its buffer. *)
Leave(r) ==
    /\ ~ IsJob(r)
    /\ req[r].pc \in {"streaming"} \union Flushing
    /\ req' = [req EXCEPT ![r].pc = IF req[r].finished THEN @ ELSE "clearing"]
    /\ UNCHANGED <<order, job, task, chat, advisory, keyLock, buffer, faults>>

(* delete_buffer_async, shielded, of a stream that did not finish *)
ClearBuffer(r) ==
    /\ Step(r, "clearing", "answered")
    /\ \/ buffer' = [buffer EXCEPT ![r] = 0] /\ UNCHANGED faults
       \/ Fault("redis") /\ UNCHANGED buffer
    /\ UNCHANGED <<order, job, task, chat, advisory, keyLock>>

(* get_chunk_dictionary_list_async *)
ReadBuffer(r) ==
    /\ req[r].pc = "flush"
    /\ req' = [req EXCEPT ![r].pc = "begin", ![r].read = buffer[r]]
    /\ UNCHANGED <<order, job, task, chat, advisory, keyLock, buffer, faults>>

(* What the transaction of flush_buffer_to_postgres_async writes, from the     *)
(* INSERT of insert_completed_job_async to update_thread_on_finish_async *)
CommitRun(r) ==
    LET t == ThreadOf(r)
    IN
    /\ job' = [job EXCEPT ![r] = [status |-> "completed", turn |-> req[r].turn,
                                  chunks |-> req[r].read]]
    /\ chat' = IF chat[t].user = UserOf(r)
               THEN [chat EXCEPT ![t].run = r, ![t].status = "completed"]
               ELSE chat

StoreRun(r) ==
    /\ ~ IsJob(r)
    /\ Step(r, "insert", "delete")
    /\ CommitRun(r)
    /\ Unlock(ThreadOf(r))
    /\ UNCHANGED <<order, task, keyLock, buffer, faults>>

(* The flush fails where it is, before its commit or with only the answer lost; *)
(* the buffer is left to its TTL. *)
FlushFails(r) ==
    /\ ~ IsJob(r)
    /\ req[r].pc \in Flushing
    /\ Fault(IF req[r].pc \in {"flush", "delete"} THEN "redis" ELSE "postgres")
    /\ req' = [req EXCEPT ![r].pc = "answered"]
    /\ IF req[r].pc = "insert"
       THEN Unlock(ThreadOf(r)) /\ (CommitRun(r) \/ UNCHANGED <<job, chat>>)
       ELSE UNCHANGED <<job, chat, advisory>>
    /\ UNCHANGED <<order, task, keyLock, buffer>>

DeleteBuffer(r) ==
    /\ Step(r, "delete", "answered")
    /\ buffer' = [buffer EXCEPT ![r] = 0]
    /\ UNCHANGED <<order, job, task, chat, advisory, keyLock, faults>>

(* buffer_ttl_second_count has passed; Redis has lost it *)
ExpireBuffer(r) ==
    /\ Fault("expiry")
    /\ buffer[r] > 0
    /\ buffer' = [buffer EXCEPT ![r] = 0]
    /\ req' = [req EXCEPT ![r].expired = TRUE]
    /\ UNCHANGED <<order, job, task, chat, advisory, keyLock>>

-----------------------------------------------------------------------------
(* The process of a run dies, with its handler and its task. *)
Crash(r) ==
    /\ Fault("crash")
    /\ \/ /\ req[r].pc # "answered"
          /\ req' = [req EXCEPT ![r].pc = "answered", ![r].told = None,
                                ![r].leaks = @ \/ Holds(r)]
       \/ /\ r \in task
          /\ UNCHANGED req
    /\ task' = task \ {r}
    /\ advisory' = [t \in Thread |-> IF advisory[t] = r THEN None ELSE advisory[t]]
    /\ UNCHANGED <<order, job, chat, keyLock, buffer>>

Admission(r) ==
    \/ CheckOwner(r)
    \/ CheckKey(r)
    \/ AcquireLock(r)
    \/ ReadLock(r)
    \/ AnswerBlocked(r)
    \/ AdmissionFails(r)

Submission(r) ==
    \/ TakeTurn(r)
    \/ InsertJob(r)
    \/ InsertJobFails(r)
    \/ UpsertThread(r)
    \/ InsertQuestion(r)
    \/ BookkeepingFails(r)
    \/ StartTask(r)
    \/ MetaFails(r)
    \/ FailUnstarted(r)
    \/ GiveUp(r)
    \/ LookUp(r)

Execution(r) ==
    \/ TaskEnds(r)
    \/ TaskFails(r)
    \/ Reap(r)
    \/ Retry(r)

Streaming(r) ==
    \/ StreamChunk(r)
    \/ FinishStream(r)
    \/ StreamFails(r)
    \/ Leave(r)
    \/ ClearBuffer(r)
    \/ ReadBuffer(r)
    \/ StoreRun(r)
    \/ FlushFails(r)
    \/ DeleteBuffer(r)
    \/ ExpireBuffer(r)

Next ==
    \/ \E r \in Request : Admission(r) \/ Submission(r) \/ Execution(r)
                         \/ Streaming(r) \/ Crash(r)
    \/ \E k \in Key : ExpireLock(k)

Spec == Init /\ [][Next]_vars

-----------------------------------------------------------------------------
(* The runs of a thread are numbered 1, 2, 3 without a hole and without a      *)
(* number given twice, though submitted jobs and streamed runs number          *)
(* themselves by MAX(turn_number) + 1 in different processes, and any of them  *)
(* may be refused by an index, rolled back or die between reading the number   *)
(* and storing it.  (job_repository.py: pg_advisory_xact_lock)                 *)
TurnsAreDense ==
    /\ \A r, s \in Stored :
          ThreadOf(r) = ThreadOf(s) /\ job[r].turn = job[s].turn => r = s
    /\ \A r \in Stored : 1..job[r].turn \subseteq Turns(ThreadOf(r))

(* All runs of a thread belong to one user, though every request finds no      *)
(* owner while the thread is new.  (job_repository.py: the owner is looked up  *)
(* again under the advisory lock)                                              *)
RunsOfOneOwner ==
    \A r, s \in Stored : ThreadOf(r) = ThreadOf(s) => UserOf(r) = UserOf(s)

(* The row of a thread shows its user a run of that user, and an ending other  *)
(* than failed only if the run really ended like that, though the row is       *)
(* written by submissions, transfers of any age and flushes that know nothing  *)
(* of each other.  (chat_thread_repository.py, job_transfer.py: is_active)     *)
ThreadShowsTrueEnding ==
    \A t \in Thread :
        LET latest == chat[t].run
        IN  latest # None =>
                /\ UserOf(latest) = chat[t].user
                /\ chat[t].status \in {"completed", "cancelled"} =>
                       job[latest].status = chat[t].status

(* A key is locked by a request that is still being admitted or has stored its *)
(* run, however the admission ended: otherwise every repetition of the request *)
(* would be called a duplicate of nothing for an hour.  Only a crash, Redis    *)
(* refusing the release or an exception that no clause catches leave a lock.   *)
(* (job_manager.py: release_lock_async in the except clauses)                  *)
LocksAreUsed ==
    \A k \in Key :
        LET r == keyLock[k]
        IN  r # None =>
                \/ req[r].pc \in Inserting \union {"violated", "failing"}
                \/ job[r].status # "none"
                \/ req[r].leaks

(* A request answered as a duplicate is told a stored run of its own user and  *)
(* key, though the run comes from a lock that may have changed hands since.    *)
(* (job_manager.py: visible_run_id)                                            *)
DuplicatesAreOwn ==
    \A r \in Request :
        LET s == req[r].told
        IN  req[r].pc = "answered" /\ s # None =>
                s \in Stored /\ UserOf(s) = UserOf(r) /\ KeyOf(s) = KeyOf(r)

(* Once a stream has ended without an error its chunks are in the stored run   *)
(* or still in the buffer, whatever the client, PostgreSQL or the process do   *)
(* during the flush, and a stored run holds all of them; unless Redis itself   *)
(* has dropped the buffer, which the flush cannot notice.                      *)
(* (orchestrator_api_router.py: asyncio.shield, is_stream_finished;            *)
(* chunk_flush_service.py: the buffer is deleted after the commit)             *)
FinishedStreamIsKept ==
    \A r \in Request : ~ IsJob(r) /\ ~ req[r].expired =>
        /\ req[r].finished => job[r].status # "none" \/ buffer[r] = req[r].streamed
        /\ job[r].status # "none" => job[r].chunks = req[r].streamed
=============================================================================
