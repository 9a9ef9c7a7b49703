--------------------------- MODULE JobSubscription ---------------------------
(***************************************************************************)
(* What a client of GET /llm/jobs/{run}/stream is sent                     *)
(* (job_subscription.py): the live entries of the Redis stream             *)
(* job:{run}:stream while it can be trusted, the stored chunks of          *)
(* PostgreSQL when it cannot, and one end event, across disconnections it  *)
(* recovers from with Last-Event-ID.                                       *)
(*                                                                         *)
(* The producing side is the job service of JobLifecycle seen from a       *)
(* reader: its interleavings are checked there, and its theorem            *)
(* RowsAreOfOneAttempt is why the stored chunks are an attempt and a       *)
(* count.  The subscription itself is modelled await by await.             *)
(***************************************************************************)
EXTENDS Naturals, Sequences, FiniteSets, FiniteSetsExt

CONSTANTS
    Attempt,      \* execution attempts of the run: its submission and its retries
    MaxChunk,     \* bound: chunks one attempt can produce
    MaxLength,    \* redis_stream_maximum_length
    MaxConnects,  \* bound: connections the client makes
    MaxFaults,    \* bound: interruptions from outside and failures of Redis
    MayLag,       \* can a connected reader fall behind a trimmed stream?
    None          \* no attempt

ASSUME ConstantsAssumption ==
    /\ MaxChunk \in Nat
    /\ MaxLength \in Nat \ {0}
    /\ MaxConnects \in Nat
    /\ MaxFaults \in Nat
    /\ MayLag \in BOOLEAN
    /\ None \notin Attempt

VARIABLES
    job,       \* llm_job row: status, attempt and count of the stored chunks
    meta,      \* Redis hash: status, last_seq, cancel_requested
    log,       \* every entry added to the Redis stream; an entry id is an index
    head,      \* index of the oldest entry the stream still has
    expiring,  \* is the stream on its grace TTL?
    task,      \* the execution of every attempt
    ending,    \* transfers between their commit and _publish_terminal_async
    client,    \* the client, and the subscribe_async call that serves it
    faults     \* how many faults have happened

producer == <<job, meta, log, head, expiring, task, ending>>
vars     == <<producer, client, faults>>

-----------------------------------------------------------------------------
Terminal == {"completed", "failed", "cancelled"}
Status   == {"none", "active"} \union Terminal

Chunk(a, seq) == [seq |-> seq, attempt |-> a, kind |-> "chunk"]
End(seq)      == [seq |-> seq, attempt |-> None, kind |-> "__end__"]
EndEvent(seq, status) == [seq |-> seq, attempt |-> None, kind |-> status]

Row   == [status : Status, attempt : Attempt \union {None}, count : 0..MaxChunk]
Event == [seq : Nat, attempt : Attempt \union {None}, kind : {"chunk"} \union Terminal]

Live      == {"reading", "processing", "waking", "looking", "recalling"}
Checking  == {"opening", "peeking", "confirming", "rechecking"}
Polling   == {"polling", "fetching", "polled"}
Connected == {"reviving", "preparing"} \union Checking \union Live \union Polling

TypeOK ==
    /\ job \in Row
    /\ meta \in [status : Status, lastSeq : Nat, fenced : BOOLEAN]
    /\ log \in Seq([seq : Nat, attempt : Attempt \union {None}, kind : {"chunk", "__end__"}])
    /\ head \in 1..(Len(log) + 1)
    /\ expiring \in BOOLEAN
    /\ task \in [Attempt -> [pc : {"absent", "preparing", "running", "stopped", "ended"},
                             chunks : 0..MaxChunk]]
    /\ ending \subseteq [status : Terminal, count : 0..MaxChunk]
    /\ client \in [pc : Connected \union {"away", "closed"}, connects : 0..MaxConnects,
                   got : Seq(Event), base : Nat, cursor : Nat, entry : 0..Len(log),
                   upto : 0..Len(log), first : BOOLEAN, final : BOOLEAN,
                   verdict : {"missing", "fresh", "behind"}, attempt : Attempt \union {None},
                   seen : Row]
    /\ faults \in 0..MaxFaults

NoMeta == [status |-> "none", lastSeq |-> 0, fenced |-> FALSE]
NoRow  == [status |-> "none", attempt |-> None, count |-> 0]

Idle(pc, connects, got) ==
    [pc |-> pc, connects |-> connects, got |-> got, base |-> 0, cursor |-> 0, entry |-> 0,
     upto |-> 0, first |-> TRUE, final |-> FALSE, verdict |-> "missing", attempt |-> None,
     seen |-> NoRow]

(* A job has been submitted and its first attempt is about to run. *)
Init ==
    /\ job = [status |-> "active", attempt |-> None, count |-> 0]
    /\ meta = [status |-> "active", lastSeq |-> 0, fenced |-> FALSE]
    /\ log = <<>>
    /\ head = 1
    /\ expiring = FALSE
    /\ \E a \in Attempt :
          task = [b \in Attempt |-> [pc |-> IF b = a THEN "running" ELSE "absent", chunks |-> 0]]
    /\ ending = {}
    /\ client = Idle("away", 0, <<>>)
    /\ faults = 0

Fault ==
    /\ faults < MaxFaults
    /\ faults' = faults + 1

StreamExists == head <= Len(log)

(* XADD MAXLEN ~: what is over the limit goes now or later.  Unless MayLag,  *)
(* a reader follows the stream closely enough to lose nothing to it.        *)
Add(e) ==
    /\ log' = Append(log, e)
    /\ head' \in head..Max({head, Len(log) + 2 - MaxLength})
    /\ \/ MayLag
       \/ client.pc \notin Live
       \/ client.first /\ client.upto = 0
       \/ head' <= Max({head, client.entry + 1, client.upto + 1})

-----------------------------------------------------------------------------
(* The job service *)

(* A chunk is buffered, then published if the hash still accepts it. *)
PublishChunk(a) ==
    LET seq == task[a].chunks + 1 IN
    /\ task[a].pc = "running"
    /\ seq <= MaxChunk
    /\ IF meta.status = "active" /\ ~ meta.fenced
       THEN /\ Add(Chunk(a, seq))
            /\ meta' = [meta EXCEPT !.lastSeq = seq]
            /\ expiring' = FALSE
            /\ task' = [task EXCEPT ![a].chunks = seq]
       ELSE /\ task' = [task EXCEPT ![a] = [pc |-> "stopped", chunks |-> seq]]
            /\ UNCHANGED <<meta, log, head, expiring>>
    /\ UNCHANGED <<job, ending, client, faults>>

(* Mutant: one more chunk is counted than was buffered. *)
SettleOneMore(a) ==
    /\ task[a].pc = "running"
    /\ task' = [task EXCEPT ![a].pc = "ended"]
    /\ job' = [status |-> "completed", attempt |-> a, count |-> task[a].chunks + 1]
    /\ UNCHANGED <<meta, log, head, expiring, ending, client, faults>>

(* The transaction of transfer_async; one that finds the job ended takes     *)
(* over its ending.                                                         *)
Settle(a) ==
    /\ task[a].pc \in {"running", "stopped"}
    /\ task' = [task EXCEPT ![a].pc = "ended"]
    /\ \/ /\ job.status = "active"
          /\ \E status \in Terminal :
                /\ task[a].pc = "stopped" => status # "completed"
                /\ job' = [status |-> status, attempt |-> a, count |-> task[a].chunks]
                /\ ending' = ending \union {[status |-> status, count |-> task[a].chunks]}
       \/ /\ job.status \in Terminal
          /\ ending' = ending \union {[status |-> job.status, count |-> job.count]}
          /\ UNCHANGED job
    /\ UNCHANGED <<meta, log, head, expiring, client, faults>>

(* "CHUNK FLUSH FAILED": the status only, and FAILED for Redis in any case *)
FlushFails(a) ==
    /\ task[a].pc \in {"running", "stopped"}
    /\ Fault
    /\ task' = [task EXCEPT ![a].pc = "ended"]
    /\ job' = IF job.status = "active"
              THEN [status |-> "failed", attempt |-> None, count |-> 0] ELSE job
    /\ ending' = ending \union {[status |-> "failed", count |-> 0]}
    /\ UNCHANGED <<meta, log, head, expiring, client>>

(* A reaper or a cancel call ends the job without its chunks; the process   *)
(* of the task may be dead or not.                                          *)
EndedFromOutside ==
    /\ job.status = "active"
    /\ Fault
    /\ \E status \in {"failed", "cancelled"} :
          /\ job' = [status |-> status, attempt |-> None, count |-> 0]
          /\ ending' = ending \union {[status |-> status, count |-> 0]}
    /\ meta' = IF meta.status = "active" THEN [meta EXCEPT !.fenced = TRUE] ELSE meta
    /\ \/ UNCHANGED task
       \/ task' = [a \in Attempt |-> IF task[a].pc \in {"running", "stopped"}
                                     THEN [task[a] EXCEPT !.pc = "ended"] ELSE task[a]]
    /\ UNCHANGED <<log, head, expiring, client>>

(* FINALIZE_JOB_STREAM_SCRIPT *)
Finalize(e) ==
    LET seq == Max({meta.lastSeq, e.count}) + 1 IN
    /\ e \in ending
    /\ ending' = ending \ {e}
    /\ expiring' = TRUE
    /\ IF meta.status \in Terminal
       THEN UNCHANGED <<meta, log, head>>
       ELSE /\ meta' = [meta EXCEPT !.status = e.status, !.lastSeq = seq]
            /\ Add(End(seq))
    /\ UNCHANGED <<job, task, client, faults>>

(* except RedisError: pass *)
FinalizeFails(e) ==
    /\ e \in ending
    /\ Fault
    /\ ending' = ending \ {e}
    /\ UNCHANGED <<job, meta, log, head, expiring, task, client>>

(* The reaper meets an expired hash of a job that has ended. *)
Republish ==
    /\ job.status \in Terminal
    /\ meta.status = "active"
    /\ ending = {}
    /\ meta' = [meta EXCEPT !.fenced = TRUE]
    /\ ending' = {[status |-> job.status, count |-> job.count]}
    /\ UNCHANGED <<job, log, head, expiring, task, client, faults>>

IsLost == job.status = "failed" /\ job.count = 0

(* retry_lost_job_async: the row first, then the hash.  HSET leaves last_seq *)
(* as it was, and nothing touches the stream.                               *)
ResetRow(a) ==
    /\ IsLost
    /\ task[a].pc = "absent"
    /\ job' = [status |-> "active", attempt |-> None, count |-> 0]
    /\ task' = [task EXCEPT ![a].pc = "preparing"]
    /\ UNCHANGED <<meta, log, head, expiring, ending>>

RetryByAnother(a) ==
    /\ ResetRow(a)
    /\ UNCHANGED <<client, faults>>

ResetMeta(a) ==
    /\ task[a].pc = "preparing"
    /\ \/ /\ meta' = [meta EXCEPT !.status = "active", !.fenced = FALSE]
          /\ task' = [task EXCEPT ![a].pc = "running"]
          /\ UNCHANGED <<job, faults>>
       \/ /\ Fault
          /\ job' = IF job.status = "active"
                    THEN [status |-> "failed", attempt |-> None, count |-> 0] ELSE job
          /\ task' = [task EXCEPT ![a].pc = "ended"]
          /\ UNCHANGED meta
    /\ client' = IF client.pc = "preparing" /\ client.attempt = a
                 THEN [client EXCEPT !.pc = "opening", !.attempt = None] ELSE client
    /\ UNCHANGED <<log, head, expiring, ending>>

(* The grace TTLs of hash and stream, which a retry lifts only from the hash *)
MetaExpires ==
    /\ meta.status \in Terminal
    /\ meta' = NoMeta
    /\ UNCHANGED <<job, log, head, expiring, task, ending, client, faults>>

StreamExpires ==
    /\ StreamExists
    /\ expiring
    /\ head' = Len(log) + 1
    /\ UNCHANGED <<job, meta, log, expiring, task, ending, client, faults>>

RedisRestarts ==
    /\ Fault
    /\ meta' = NoMeta
    /\ head' = Len(log) + 1
    /\ UNCHANGED <<job, log, expiring, task, ending, client>>

-----------------------------------------------------------------------------
(* The client *)

HasEnd(got) == \E i \in 1..Len(got) : got[i].kind \in Terminal

LastEventId(got) == IF got = <<>> THEN 0 ELSE got[Len(got)].seq

(* stream_job_async, on the row just read.  Without an end event the client  *)
(* resumes; after one, it asks for the stream from the start.               *)
Connect ==
    LET got == IF HasEnd(client.got) THEN <<>> ELSE client.got IN
    /\ client.pc \in {"away", "closed"}
    /\ client.connects < MaxConnects
    /\ client' = [Idle(IF IsLost THEN "reviving" ELSE "opening", client.connects + 1, got)
                    EXCEPT !.base = Len(got), !.cursor = LastEventId(got)]
    /\ UNCHANGED <<producer, faults>>

(* retry_lost_job_async, for this client *)
Revive ==
    /\ client.pc = "reviving"
    /\ \/ \E a \in Attempt :
             /\ ResetRow(a)
             /\ client' = [client EXCEPT !.pc = "preparing", !.attempt = a]
       \/ /\ ~ IsLost \/ \E a \in Attempt : task[a].pc \in {"running", "stopped"}
          /\ client' = [client EXCEPT !.pc = "opening"]
          /\ UNCHANGED producer
       \/ /\ \A a \in Attempt : task[a].pc # "absent"   \* bound: no attempt is left
          /\ client' = Idle("away", client.connects, client.got)
          /\ UNCHANGED producer
    /\ UNCHANGED faults

(* The network drops the connection, and perhaps the event just sent. *)
Disconnect ==
    /\ client.pc \in Connected
    /\ \/ client' = Idle("away", client.connects, client.got)
       \/ /\ Len(client.got) > client.base
          /\ client' = Idle("away", client.connects, SubSeq(client.got, 1, Len(client.got) - 1))
    /\ UNCHANGED <<producer, faults>>

Subscribed(pc, next) ==
    /\ client.pc = pc
    /\ client' = next
    /\ UNCHANGED <<producer, faults>>

At(pc) == [client EXCEPT !.pc = pc]

(* What _should_fallback_for_missing_stream_async makes of a hash. *)
Verdict ==
    CASE meta.status = "active" /\ meta.lastSeq = 0 -> "fresh"
      [] meta.status = "active" /\ meta.lastSeq > 0 -> "behind"
      [] OTHER                                      -> "missing"

PeekMeta   == Subscribed("opening", [At("peeking") EXCEPT !.verdict = Verdict])
PeekStream == Subscribed("peeking", At(IF StreamExists THEN "reading" ELSE "confirming"))

ConfirmMeta ==
    Subscribed("confirming",
        [At("rechecking") EXCEPT !.verdict = IF meta.status = "none" THEN @ ELSE Verdict])

Recheck ==
    Subscribed("rechecking",
        [At(IF StreamExists \/ client.verdict = "fresh" THEN "reading" ELSE "polling")
            EXCEPT !.verdict = "missing"])

(* XREAD from the last entry id: everything there is, or a timeout *)
ReadStream ==
    Subscribed("reading",
        IF StreamExists /\ client.entry < Len(log)
        THEN [At("processing") EXCEPT !.entry = Max({client.entry, head - 1}), !.upto = Len(log)]
        ELSE At("waking"))

(* Mutant: an entry is taken whatever the stream has lost before it. *)
ProcessEntryWithoutGapCheck ==
    LET e    == log[client.entry + 1]
        done == client.entry + 1 = client.upto
        rest == [client EXCEPT !.pc = IF done THEN "reading" ELSE "processing",
                               !.entry = @ + 1, !.upto = IF done THEN 0 ELSE @, !.first = FALSE]
        poll == [At("polling") EXCEPT !.entry = 0, !.upto = 0, !.first = FALSE]
    IN
    Subscribed("processing",
        CASE e.seq <= client.cursor /\ e.kind = "__end__"    -> Idle("closed", client.connects, client.got)
          [] e.seq <= client.cursor /\ e.kind # "__end__"    -> rest
          [] e.seq > client.cursor /\ e.kind = "__end__"     -> poll
          [] OTHER -> [rest EXCEPT !.cursor = e.seq,
                                   !.got = Append(@, [e EXCEPT !.kind = "chunk"])])

(* One entry of the batch.  The first one of a connection tells whether the  *)
(* stream still continues what the client has: has_cursor_gap,              *)
(* has_trimmed_prefix.                                                      *)
ProcessEntry ==
    LET e    == log[client.entry + 1]
        gap  == client.first /\ (e.seq > client.cursor + 1 \/ (client.cursor > 0 /\ e.seq > 1))
        done == client.entry + 1 = client.upto
        rest == [client EXCEPT !.pc = IF done THEN "reading" ELSE "processing",
                               !.entry = @ + 1, !.upto = IF done THEN 0 ELSE @, !.first = FALSE]
        poll == [At("polling") EXCEPT !.entry = 0, !.upto = 0, !.first = FALSE]
    IN
    Subscribed("processing",
        CASE gap                                             -> poll
          [] ~ gap /\ e.seq <= client.cursor /\ e.kind = "__end__" ->
                Idle("closed", client.connects, client.got)
          [] ~ gap /\ e.seq <= client.cursor /\ e.kind = "chunk"   -> rest
          [] ~ gap /\ e.seq > client.cursor /\ e.kind = "__end__"  -> poll
          [] OTHER -> [rest EXCEPT !.cursor = e.seq, !.got = Append(@, e)])

(* After a timeout: has the job ended in PostgreSQL, is the stream there? *)
AskRow     == Subscribed("waking", At(IF job.status \in Terminal THEN "polling" ELSE "looking"))
AskStream  == Subscribed("looking", At(IF StreamExists THEN "reading" ELSE "recalling"))
RecallMeta == Subscribed("recalling", [At("confirming") EXCEPT !.verdict = Verdict])

(* except RedisError: from here on PostgreSQL *)
RedisFails ==
    /\ client.pc \in Checking \union (Live \ {"processing", "waking"})
    /\ Fault
    /\ client' = [At("polling") EXCEPT !.entry = 0, !.first = FALSE, !.verdict = "missing"]
    /\ UNCHANGED producer

(* _stream_postgresql_fallback_async: the row, then the chunks after the     *)
(* cursor, then the end event of the row read first.                        *)
PollRow == Subscribed("polling", [At("fetching") EXCEPT !.seen = job])

Stored(from) == [i \in 1..(job.count - from) |-> Chunk(job.attempt, from + i)]

(* Mutant: every stored chunk is sent, whatever the client has. *)
FetchEverything ==
    LET got    == client.got \o Stored(0)
        cursor == Max({client.cursor, job.count})
        end    == client.seen.count + 1
        fetched == [At("polled") EXCEPT !.seen = NoRow]
    IN
    Subscribed("fetching",
        IF client.seen.status \in Terminal /\ end > cursor
        THEN [fetched EXCEPT !.cursor = end, !.got = Append(got, EndEvent(end, client.seen.status))]
        ELSE [fetched EXCEPT !.cursor = cursor, !.got = got])

(* Mutant: the end event takes the number of the last chunk. *)
FetchEndAtLast ==
    LET got    == client.got \o Stored(client.cursor)
        cursor == Max({client.cursor, job.count})
        end    == client.seen.count
        fetched == [At("polled") EXCEPT !.seen = NoRow]
    IN
    Subscribed("fetching",
        IF client.seen.status \in Terminal /\ end > cursor
        THEN [fetched EXCEPT !.cursor = end, !.got = Append(got, EndEvent(end, client.seen.status))]
        ELSE [fetched EXCEPT !.cursor = cursor, !.got = got])

Fetch ==
    LET got    == client.got \o Stored(client.cursor)
        cursor == Max({client.cursor, job.count})
        end    == client.seen.count + 1
        fetched == [At("polled") EXCEPT !.seen = NoRow]
    IN
    Subscribed("fetching",
        IF client.seen.status \in Terminal /\ end > cursor
        THEN [fetched EXCEPT !.cursor = end, !.got = Append(got, EndEvent(end, client.seen.status))]
        ELSE [fetched EXCEPT !.cursor = cursor, !.got = got])

(* Mutant: the hash is asked whether the job has ended. *)
PolledByMeta ==
    Subscribed("polled",
        CASE client.final                             -> Idle("closed", client.connects, client.got)
          [] ~ client.final /\ meta.status \in Terminal -> [At("polling") EXCEPT !.final = TRUE]
          [] OTHER                                    -> At("polling"))

(* _stream_postgresql_until_terminal_async: once the row is seen ended, one  *)
(* more pass is the last.                                                   *)
Polled ==
    Subscribed("polled",
        CASE client.final                              -> Idle("closed", client.connects, client.got)
          [] ~ client.final /\ job.status \in Terminal -> [At("polling") EXCEPT !.final = TRUE]
          [] OTHER                                     -> At("polling"))

-----------------------------------------------------------------------------
TaskStep(a) == PublishChunk(a) \/ Settle(a) \/ ResetMeta(a)

Subscription ==
    \/ Revive
    \/ PeekMeta
    \/ PeekStream
    \/ ConfirmMeta
    \/ Recheck
    \/ ReadStream
    \/ ProcessEntry
    \/ AskRow
    \/ AskStream
    \/ RecallMeta
    \/ PollRow
    \/ Fetch
    \/ Polled

Environment ==
    \/ \E a \in Attempt : FlushFails(a) \/ RetryByAnother(a)
    \/ \E e \in ending : FinalizeFails(e)
    \/ EndedFromOutside
    \/ MetaExpires
    \/ StreamExpires
    \/ RedisRestarts
    \/ RedisFails

Next ==
    \/ \E a \in Attempt : TaskStep(a)
    \/ \E e \in ending : Finalize(e)
    \/ Republish
    \/ Connect
    \/ Disconnect
    \/ Subscription
    \/ Environment

Spec == Init /\ [][Next]_vars

(* Attempts go on, event loops serve the connection they have.  Nobody has   *)
(* to connect, retry or stay, no fault and no expiry has to happen; not even *)
(* the publication of the end has to succeed.                               *)
FairSpec ==
    /\ Spec
    /\ \A a \in Attempt : WF_vars(TaskStep(a))
    /\ WF_vars(Subscription)

-----------------------------------------------------------------------------
(* Over all the connections of a session, the event ids a client is sent    *)
(* only grow: no chunk is delivered twice although it moves between Redis    *)
(* and PostgreSQL and resumes with the last id it received.                 *)
(* (job_subscription.py: last_processed_sequence_number, progress_dictionary) *)
EventsInOrder ==
    \A i, j \in 1..Len(client.got) : i < j => client.got[i].seq < client.got[j].seq

ChunksGot == {client.got[i].seq : i \in {k \in 1..Len(client.got) : client.got[k].kind = "chunk"}}

IsRetried == Cardinality({a \in Attempt : task[a].pc # "absent"}) > 1

Completed == \E i \in 1..Len(client.got) : client.got[i].kind = "completed"

(* Completed is the last word, and of a run that was not retried it comes    *)
(* after every chunk of the answer: whatever was trimmed, expired or lost in *)
(* Redis was made up for from PostgreSQL.                                   *)
(* (job_subscription.py: has_cursor_gap, _stream_postgresql_fallback_async)  *)
CompletedAnswerIsWhole ==
    Completed =>
        /\ client.got[Len(client.got)].kind = "completed"
        /\ ~ IsRetried => ChunksGot = 1..job.count

(* The service closes a connection without an end event only when the run    *)
(* lost the very chunks the client has seen: the end event of a lost run is  *)
(* number 1, which those chunks have used up.  (job_subscription.py:156-158) *)
SilentCloseMeansLost ==
    client.pc = "closed" /\ ~ HasEnd(client.got) /\ ~ IsRetried =>
        /\ job.status \in {"failed", "cancelled"}
        /\ job.count < Cardinality(ChunksGot)

(* No connection is served for ever: once the job ends its client is told,   *)
(* although Redis may lose the end of the stream, the hash or both.         *)
ConnectionsEnd == client.pc \in Connected ~> client.pc \notin Connected

(* "청크가 유실된 실패 작업이면 저장된 원본 질문으로 모델을 재호출해 복구한 뒤       *)
(* 실시간으로 스트리밍한다": a client whose session tells of one ending, and of a  *)
(* completed one, was sent the answer that ending is about.                 *)
(* (llm_api_router.py:149)                                                  *)
RecoveredAnswerIsStreamed ==
    Completed /\ (\A i \in 1..Len(client.got) : client.got[i].kind \notin Terminal \ {"completed"})
        => {client.got[i] : i \in 1..(Len(client.got) - 1)}
               = {Chunk(job.attempt, s) : s \in 1..job.count}
=============================================================================
