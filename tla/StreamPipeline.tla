--------------------------- MODULE StreamPipeline ---------------------------
(***************************************************************************)
(* What becomes of the chunks that an agent yields during one run:         *)
(* execute_async numbers them, links them to tasks and merges them into    *)
(* messages (stream_pipeline/), the transfer writes them as the rows of    *)
(* four tables, and a subscriber receives them as an OpenAI Responses      *)
(* stream, perhaps over several connections.  The orchestrator merges the  *)
(* same chunks by rules of its own (chunk_flush_service.py).               *)
(*                                                                         *)
(* Which process does this, and when it may not, is JobLifecycle; how a    *)
(* reader finds its place in Redis and PostgreSQL is JobSubscription.      *)
(***************************************************************************)
EXTENDS ResponsesAdapter

CONSTANTS
    Root,      \* the namespace of the agent itself
    Agent      \* what agents may yield: which kinds of chunks, at most how many
               \* of them, and at most how many connections read them

(* The ids that the accumulator makes; a model gives none like them *)
SyntheticIds == {"synthetic"} \X Role \X Nat

ASSUME ConstantsAssumption ==
    /\ Root \in Namespace
    /\ "ai" \in Role
    /\ Multiplier \in Nat \ {0}
    /\ None \notin Nat \union SyntheticIds
    /\ \A g \in Agent : /\ g.chunks \in Nat /\ g.connections \in Nat
                        /\ \A k \in g.kinds : /\ k.ns \in Namespace /\ k.role \in Role
                                              /\ k.id \notin SyntheticIds
                                              /\ k.calls \in Seq(Range(k.calls))
    /\ IncludeEvents \in BOOLEAN

VARIABLES
    agent,     \* the agent of this run
    raw,       \* what it has yielded
    log,       \* chunk_list: the chunks, normalized and linked
    running,   \* _active_task_id_set_dictionary
    merging,   \* the message accumulator
    streamed,  \* streamed_message_list
    status,    \* of the job
    published, \* how many chunks Redis has
    db,        \* the rows of the run
    conn,      \* the connection of the subscriber, and its adapter
    client,    \* what it has received, over all connections
    opened     \* how many connections there have been

vars == <<agent, raw, log, running, merging, streamed, status, published, db, conn, client, opened>>

executor == <<agent, raw, log, running, merging, streamed, status, published, db>>

Ended == {"completed", "failed", "cancelled"}

Closed    == [open |-> FALSE, via |-> "redis", cursor |-> 0, whole |-> TRUE, adapter |-> NewAdapter]
NoRows    == [written |-> FALSE, chunks |-> {}, messages |-> <<>>, tasks |-> <<>>, events |-> {},
              answer |-> <<>>, preview |-> <<>>]

Init ==
    /\ agent \in Agent
    /\ raw = <<>> /\ log = <<>> /\ streamed = <<>>
    /\ running = [ns \in Namespace |-> {}]
    /\ merging = [pending |-> <<>>, active |-> [x \in Context |-> None], count |-> [x \in Context |-> 0]]
    /\ status = "running"
    /\ published = 0
    /\ db = NoRows
    /\ conn = Closed
    /\ client = [events |-> <<>>, lastId |-> None, whole |-> TRUE]
    /\ opened = 0

-----------------------------------------------------------------------------
(* The normalizer *)

(* The text of the n-th chunk; a message that comes whole is always the same *)
Token(k, n) == IF k.whole THEN <<0>> ELSE <<n>>

(* serialize_value of a message: its id, role and content, what it has of    *)
(* tool calls, and the signs that it ends                                    *)
Serialized(k, token) ==
    [id     |-> k.id,
     role   |-> k.role,
     text   |-> IF k.said THEN token ELSE <<>>,
     calls  |-> [i \in DOMAIN k.calls |-> [index |-> k.calls[i].index, id |-> k.calls[i].id, args |-> token]],
     last   |-> k.last,
     finish |-> k.finish]

(* normalize: a chunk of another type takes no number *)
Supported(k) == k.type \in {"tasks", "messages", "custom"}

(* Mutant: every chunk does *)
NextNumberOfAny == Len(raw) + 1

NextNumber == Len(log) + 1

(* What the event of a task carries tells how the task is doing: both        *)
(* _get_task_status ask in this order                                        *)
TaskStatus(k) ==
    LET signs == <<"interrupts", "error", "result">>
        first == SelectInSeq(signs, LAMBDA sign : sign \in k.data)
    IN  CASE k.type # "tasks"              -> "unknown"
          [] k.type = "tasks" /\ first = 0 -> "running"
          [] k.type = "tasks" /\ first # 0 -> <<"interrupted", "failed", "completed">>[first]

(* The chunk as it is numbered; its own data may name a task, the metadata   *)
(* of a message the tasks of its checkpoint namespace, from the outermost    *)
Normalized(k) ==
    LET message == Serialized(k, Token(k, Len(raw) + 1))
    IN  [seq |-> NextNumber, type |-> k.type, ns |-> k.ns, named |-> k.task, path |-> k.path,
         task |-> None, link |-> None, state |-> TaskStatus(k), whole |-> k.whole,
         id |-> message.id, role |-> message.role, text |-> message.text, calls |-> message.calls,
         last |-> message.last, finish |-> message.finish]

-----------------------------------------------------------------------------
(* The correlation resolver *)

(* Mutant: only a completed task stops running *)
RemainingUncompleted(c) ==
    IF c.type # "tasks" \/ c.task = None
    THEN running
    ELSE [running EXCEPT ![c.ns] = IF c.state # "completed" THEN @ \union {c.task} ELSE @ \ {c.task}]

Remaining(c) ==
    IF c.type # "tasks" \/ c.task = None
    THEN running
    ELSE [running EXCEPT ![c.ns] = IF c.state = "running" THEN @ \union {c.task} ELSE @ \ {c.task}]

Linked(c, task, link) == [c EXCEPT !.task = task, !.link = IF task = None THEN "unassigned" ELSE link]

(* The task that the last segment of the checkpoint namespace names *)
CheckpointTask(c) == IF c.path = <<>> THEN None ELSE Last(c.path)

(* A custom chunk that names no task belongs to the only one that is running *)
ResolvedCustom(c) ==
    IF c.named = None /\ Cardinality(running[c.ns]) = 1
    THEN Linked(c, CHOOSE t \in running[c.ns] : TRUE, "inferred")
    ELSE Linked(c, c.named, "explicit")

(* A message without a checkpoint namespace may be linked as "namespace",    *)
(* which is also without a task                                              *)
Resolved(c) ==
    CASE c.type = "tasks"    -> Linked(c, c.named, "explicit")
      [] c.type = "messages" -> Linked(c, CheckpointTask(c), "metadata")
      [] c.type = "custom"   -> ResolvedCustom(c)

-----------------------------------------------------------------------------
(* The message accumulator *)

SyntheticId(c) ==
    LET x == <<c.ns, c.role>>
    IN  CASE c.id # None                                -> c.id
          [] c.id = None /\ merging.active[x] # None    -> merging.active[x]
          [] c.id = None /\ merging.active[x] = None    -> <<"synthetic", c.role, merging.count[x] + 1>>

IsStreamClosed(c) == c.whole \/ c.role = "tool" \/ c.last

(* Mutant: the namespace is no part of the key *)
EntryOfAnyNamespace(c) == SelectInSeq(merging.pending, LAMBDA e : e.key = c.task /\ e.id = SyntheticId(c))

Entry(c) == SelectInSeq(merging.pending, LAMBDA e : /\ e.ns = c.ns
                                                    /\ e.key = c.task
                                                    /\ e.id = SyntheticId(c))

(* A message that came whole is not continued: it may only come again *)
Mergeable(c) ==
    LET e == merging.pending[Entry(c)]
    IN  \/ Entry(c) = 0
        \/ ~e.whole /\ ~c.whole
        \/ e.whole /\ c.whole /\ e.content = c.text /\ e.role = c.role

Merged(c) ==
    LET i == Entry(c)
    IN  IF i = 0
        THEN Append(merging.pending,
                    [ns |-> c.ns, key |-> c.task, task |-> c.task, id |-> SyntheticId(c), role |-> c.role,
                     whole |-> c.whole, content |-> c.text, first |-> c.seq, last |-> c.seq])
        ELSE [merging.pending EXCEPT ![i].content = IF c.whole THEN @ ELSE @ \o c.text,
                                     ![i].last = c.seq]

(* An id of the accumulator's own is given up when the merged message is     *)
(* closed; chunk_position of a sum of chunks is that of the last one         *)
Accumulate(c) ==
    LET x    == <<c.ns, c.role>>
        next == Merged(c)
        i    == IF Entry(c) = 0 THEN Len(next) ELSE Entry(c)
    IN  /\ merging' = [merging EXCEPT
              !.pending   = next,
              !.count[x]  = IF c.id = None /\ merging.active[x] = None THEN @ + 1 ELSE @,
              !.active[x] = CASE c.id # None                         -> @
                              [] c.id = None /\ IsStreamClosed(c)    -> None
                              [] c.id = None /\ ~IsStreamClosed(c)   -> SyntheticId(c)]
        /\ streamed' = Append(streamed, next[i])

-----------------------------------------------------------------------------
(* The execution *)

(* _buffer_chunk of the next chunk, which fails when it cannot be merged *)
Buffer(k, ok) ==
    LET c == Resolved(Normalized(k))
    IN  /\ status = "running" /\ Len(raw) < agent.chunks
        /\ k \in agent.kinds /\ Supported(k)
        /\ raw' = Append(raw, k)
        /\ log' = Append(log, c)
        /\ running' = Remaining(c)
        /\ ok <=> (c.type # "messages" \/ Mergeable(c))
        /\ IF c.type = "messages" /\ ok THEN Accumulate(c) ELSE UNCHANGED <<merging, streamed>>

Chunk(k) ==
    /\ Buffer(k, TRUE)
    /\ published' = published + 1
    /\ UNCHANGED <<agent, status, db, conn, client, opened>>

(* Redis refuses a chunk of a run that is to be cancelled or has ended *)
ChunkRefused(k, ending) ==
    /\ ending \in {"failed", "cancelled"}
    /\ Buffer(k, TRUE)
    /\ status' = ending
    /\ UNCHANGED <<agent, published, db, conn, client, opened>>

(* accumulate raises ValueError: the chunk is buffered and not published *)
ChunkUnmergeable(k) ==
    /\ Buffer(k, FALSE)
    /\ status' = "failed"
    /\ UNCHANGED <<agent, published, db, conn, client, opened>>

ChunkIgnored(k) ==
    /\ status = "running" /\ Len(raw) < agent.chunks
    /\ k \in agent.kinds /\ ~Supported(k)
    /\ raw' = Append(raw, k)
    /\ UNCHANGED <<agent, log, running, merging, streamed, status, published, db, conn, client, opened>>

Ends(ending) ==
    /\ status = "running"
    /\ ending \in Ended
    /\ status' = ending
    /\ UNCHANGED <<agent, raw, log, running, merging, streamed, published, db, conn, client, opened>>

-----------------------------------------------------------------------------
(* The transfer, one transaction *)

Put(rows, key, row) == [x \in DOMAIN rows \union {key} |-> IF x = key THEN row ELSE rows[x]]

(* Mutant: the last start is kept instead of the first *)
UpsertTaskLastStart(rows, c) ==
    LET isRunning == c.state = "running"
    IN  Put(rows, c.task, [status    |-> c.state,
                           started   |-> IF isRunning THEN c.seq
                                         ELSE IF c.task \in DOMAIN rows THEN rows[c.task].started ELSE None,
                           completed |-> IF ~isRunning THEN c.seq
                                         ELSE IF c.task \in DOMAIN rows THEN rows[c.task].completed ELSE None])

UpsertTask(rows, c) ==
    LET isRunning == c.state = "running"
        new == [status |-> c.state, started |-> IF isRunning THEN c.seq ELSE None,
                completed |-> IF isRunning THEN None ELSE c.seq]
        old == rows[c.task]
    IN  IF c.task \notin DOMAIN rows
        THEN Put(rows, c.task, new)
        ELSE Put(rows, c.task, [status    |-> new.status,
                                started   |-> IF old.started = None THEN new.started ELSE old.started,
                                completed |-> IF new.completed = None THEN old.completed ELSE new.completed])

IsProjected(c) == c.type = "tasks" /\ c.task # None

MarkUnfinished(rows, ending) ==
    [t \in DOMAIN rows |-> IF rows[t].status = "running"
                           THEN [rows[t] EXCEPT !.status = IF ending = "cancelled" THEN "cancelled"
                                                                                   ELSE "incomplete"]
                           ELSE rows[t]]

ProjectTask(rows, c) == IF IsProjected(c) THEN UpsertTask(rows, c) ELSE rows

TaskRows(ending) == MarkUnfinished(FoldLeft(ProjectTask, <<>>, log), ending)

(* ON CONFLICT (run_id, ns_path, message_id): the task is no part of the key *)
UpsertMessage(rows, m) ==
    LET key == <<m.ns, m.id>>
        new == [role |-> m.role, task |-> m.task, content |-> m.content, first |-> m.first, last |-> m.last]
        old == rows[key]
    IN  IF key \notin DOMAIN rows
        THEN Put(rows, key, new)
        ELSE Put(rows, key, [role    |-> old.role,
                             task    |-> IF new.task = None THEN old.task ELSE new.task,
                             content |-> IF new.last >= old.last THEN new.content ELSE old.content,
                             first   |-> Min({old.first, new.first}),
                             last    |-> Max({old.last, new.last})])

(* flush_all: every message again, in the order of seq_first *)
FlushAll == merging.pending

MessageList == streamed \o FlushAll

IsAnswer(m) == m.role = "ai" /\ m.ns = Root

(* Mutant: ON CONFLICT DO NOTHING *)
UpsertAnswerOnce(content, m) == IF IsAnswer(m) /\ content = <<>> THEN m.content ELSE content

(* ON CONFLICT (run_id, seq) DO NOTHING: a row per chunk that is no message *)
EventRows == {n \in DOMAIN log : log[n].type \in {"tasks", "custom"}}

(* The row of a chunk, and likewise its entry in Redis, has the serialized   *)
(* data and no message object any more                                       *)
ChunkRow(c) == [seq |-> c.seq, type |-> c.type, ns |-> c.ns, task |-> c.task, link |-> c.link, id |-> c.id,
                role |-> c.role, text |-> c.text, calls |-> c.calls, finish |-> c.finish]

(* Message 1000 of the run in llm_thread_message: every root answer in turn *)
UpsertAnswer(content, m) == IF IsAnswer(m) THEN m.content ELSE content

Preview(messages) ==
    LET i == SelectLastInSeq(messages, IsAnswer) IN IF i = 0 THEN <<>> ELSE messages[i].content

Transfer ==
    /\ status \in Ended /\ ~db.written
    /\ db' = [written  |-> TRUE,
              chunks   |-> {ChunkRow(log[n]) : n \in DOMAIN log},
              messages |-> FoldLeft(UpsertMessage, <<>>, MessageList),
              tasks    |-> TaskRows(status),
              events   |-> EventRows,
              answer   |-> FoldLeft(UpsertAnswer, <<>>, MessageList),
              preview  |-> Preview(MessageList)]
    /\ UNCHANGED <<agent, raw, log, running, merging, streamed, status, published, conn, client, opened>>

(* get_last_root_ai_message_async: what the next turn is told of this one *)
LastRootAiMessage ==
    LET roots == {k \in DOMAIN db.messages : k[1] = Root /\ db.messages[k].role = "ai"}
    IN  {k \in roots : \A j \in roots : db.messages[j].last <= db.messages[k].last}

-----------------------------------------------------------------------------
(* The orchestrator's rules for the same chunks *)

(* _create_role: the normalizer also knows function and chat messages *)
CommonRole(role) == IF role \in {"human", "tool", "system"} THEN role ELSE "ai"

(* create_chunk_dictionary keeps this much of the n-th chunk.  It joins the  *)
(* parts of a namespace with | where the normalizer has /: the same names.   *)
OrchestratorChunk(k, n) ==
    [number |-> n, type |-> k.type, ns |-> k.ns, id |-> k.id, role |-> CommonRole(k.role),
     text |-> IF k.said THEN Token(k, n) ELSE <<>>]

OrchestratorChunks == [n \in DOMAIN raw |-> OrchestratorChunk(raw[n], n)]

(* Mutant: messages of different namespaces are not told apart *)
OrchestratorKeyById(c) == <<Root, IF c.id = None THEN <<"synthetic", c.role, c.number>> ELSE c.id>>

OrchestratorKey(c) == <<c.ns, IF c.id = None THEN <<"synthetic", c.role, c.number>> ELSE c.id>>

(* Messages by namespace and id, the text of every chunk appended; a chunk   *)
(* without an id is a message of its own                                     *)
MergeChunk(rows, c) ==
    LET key == OrchestratorKey(c)
        new == [role |-> c.role, content |-> c.text, first |-> c.number, last |-> c.number]
        old == rows[key]
    IN  CASE c.type # "messages" -> rows
          [] c.type = "messages" /\ key \notin DOMAIN rows -> Put(rows, key, new)
          [] c.type = "messages" /\ key \in DOMAIN rows    ->
                Put(rows, key, [role |-> old.role, content |-> old.content \o new.content,
                                first |-> old.first, last |-> new.last])

(* An empty message is none *)
OrchestratorRows ==
    LET rows == FoldLeft(MergeChunk, <<>>, OrchestratorChunks)
    IN  Restrict(rows, {k \in DOMAIN rows : rows[k].content # <<>>})

(* aggregated_event: the chunks of tasks and custom chunks, all of them *)
OrchestratorEvents ==
    LET of(type) == {n \in DOMAIN raw : raw[n].type = type} IN [tasks |-> of("tasks"), custom |-> of("custom")]

(* The thread shows the last answer that is not empty, by its first chunk *)
OrchestratorPreview ==
    LET answers == {k \in DOMAIN OrchestratorRows : k[1] = Root /\ OrchestratorRows[k].role = "ai"}
        shown   == {k \in answers : \A j \in answers : OrchestratorRows[j].first <= OrchestratorRows[k].first}
    IN  {OrchestratorRows[k].content : k \in shown}

-----------------------------------------------------------------------------
(* The subscription *)

(* The n-th chunk as a reader finds it in Redis, or in PostgreSQL *)
RedisEntry(n)  == ChunkRow(log[n])
StoredChunk(n) == CHOOSE row \in db.chunks : row.seq = n

Format(a, c) == FormatChunk([a EXCEPT !.out = <<>>], c)

Replay(n) == FoldLeft(Format, FormatStart(NewAdapter), [i \in 1..n |-> RedisEntry(i)])

(* Mutant: the id comes with the first event of a chunk *)
ReceivedIdFirst(out, j, id) == [events |-> client.events \o SubSeq(out, 1, j),
                                lastId |-> IF j = 0 THEN client.lastId ELSE id,
                                whole  |-> client.whole]

(* Only the last event of a chunk has an id *)
Received(out, j, id) == [events |-> client.events \o SubSeq(out, 1, j),
                         lastId |-> IF j < Len(out) \/ out = <<>> THEN client.lastId ELSE id,
                         whole  |-> client.whole]

(* The client receives the events of the adapter, or the first j of them and *)
(* the connection is lost, as long as it may still open another              *)
Send(next, id) ==
    LET out == next.adapter.out
    IN  \E j \in IF opened' < agent.connections THEN 0..Len(out) ELSE {Len(out)} :
            /\ conn' = [next EXCEPT !.open = @ /\ j = Len(out), !.adapter.out = <<>>]
            /\ client' = [Received(out, j, id) EXCEPT !.whole = @ /\ next.whole]
            /\ UNCHANGED executor

HasEnded == client.events # <<>> /\ Last(client.events).kind \in {"completed", "failed"}

(* A new connection.  From Redis the adapter is given every chunk before the *)
(* last id; from PostgreSQL only the later ones are read                     *)
Connect(via) ==
    LET isResume == client.lastId # None
        from     == IF isResume THEN client.lastId ELSE 0
        replayed == IF via = "redis" THEN Min({from, published}) ELSE 0
        a        == Replay(replayed)
    IN  /\ ~conn.open /\ ~HasEnded /\ opened < agent.connections
        /\ opened' = opened + 1
        /\ Send([open |-> TRUE, via |-> via, cursor |-> from, whole |-> replayed = from,
                 adapter |-> IF isResume THEN [a EXCEPT !.out = <<>>] ELSE a], 0)

InRedis(n) == conn.via = "redis" /\ n <= published

(* Redis has the chunk, or PostgreSQL has it when Redis has no more *)
Readable(n) == InRedis(n) \/ \E row \in db.chunks : row.seq = n

DeliverChunk ==
    LET n == conn.cursor + 1
        c == IF InRedis(n) THEN RedisEntry(n) ELSE StoredChunk(n)
    IN  /\ conn.open /\ Readable(n)
        /\ UNCHANGED opened
        /\ Send([conn EXCEPT !.cursor = n, !.adapter = Format(@, c)], n)

DeliverEnd ==
    LET n == Len(log) + 1
    IN  /\ conn.open /\ db.written /\ conn.cursor = Len(log)
        /\ UNCHANGED opened
        /\ Send([conn EXCEPT !.open = FALSE, !.cursor = n,
                             !.adapter = FormatEnd(SetSource(@, n), status)], n)

Next ==
    \/ \E k \in agent.kinds : Chunk(k)
    \/ \E k \in agent.kinds : ChunkUnmergeable(k)
    \/ \E k \in agent.kinds : ChunkIgnored(k)
    \/ \E k \in agent.kinds, ending \in Ended : ChunkRefused(k, ending)
    \/ \E ending \in Ended : Ends(ending)
    \/ Transfer
    \/ \E via \in {"redis", "postgres"} : Connect(via)
    \/ DeliverChunk
    \/ DeliverEnd

Spec == Init /\ [][Next]_vars

-----------------------------------------------------------------------------
(* Every part of the run keeps its shape: chunks are numbered as they were   *)
(* buffered, at most the last of them is not published, and rows exist only  *)
(* for a run that has ended.                                                 *)
TypeOK ==
    /\ agent \in Agent
    /\ raw \in Seq(agent.kinds) /\ Len(raw) <= agent.chunks
    /\ \A n \in DOMAIN log : log[n].seq = n
    /\ running \in [Namespace -> SUBSET {c.task : c \in Range(log)}]
    /\ status \in Ended \union {"running"}
    /\ published \in {Len(log), Len(log) - 1} /\ (status = "running" => published = Len(log))
    /\ db.written => status \in Ended
    /\ conn.cursor \in 0..Len(log) + 1
    /\ opened \in 0..agent.connections

(* The numbers of the chunks of a message, as the reader of the stream can   *)
(* tell them, and their text                                                 *)
ChunksOf(ns, id) == {n \in DOMAIN log : log[n].type = "messages" /\ log[n].ns = ns /\ log[n].id = id}

AddText(ns, id, text, c) == IF c.type = "messages" /\ c.ns = ns /\ c.id = id THEN text \o c.text ELSE text

TextOf(ns, id) == FoldLeft(LAMBDA text, c : AddText(ns, id, text, c), <<>>, log)

(* No two tasks send chunks of one message, no message comes both in pieces  *)
(* and whole, and one that comes whole again is the same                     *)
Plain(numbers) ==
    \A m, n \in numbers : /\ log[m].task = log[n].task
                          /\ log[m].whole = log[n].whole
                          /\ log[m].whole => log[m].text = log[n].text /\ log[m].role = log[n].role

Ordinary == \A ns \in Namespace, id \in {c.id : c \in Range(log)} \ {None} : Plain(ChunksOf(ns, id))

(* Every message with an id is stored once, with the text of all its chunks  *)
(* in their order and the numbers of the first and the last of them          *)
(* (message_accumulator.py, job_message_repository.py), although it is       *)
(* written once per chunk and again at the end, and messages of other        *)
(* namespaces and tasks come in between.                                     *)
RowsAreTheirChunks ==
    db.written =>
        \A ns \in Namespace, id \in {c.id : c \in Range(log)} \ {None} :
            LET numbers == ChunksOf(ns, id)
                row     == db.messages[<<ns, id>>]
            IN  numbers # {} /\ Plain(numbers) =>
                    /\ <<ns, id>> \in DOMAIN db.messages
                    /\ row.first = Min(numbers) /\ row.last = Max(numbers)
                    /\ row.content = IF log[row.first].whole THEN log[row.first].text ELSE TextOf(ns, id)
                    /\ db.events \cap numbers = {}

(* A stored task tells how its last event ended it, or that it was cut off   *)
(* by a run that was cancelled or ended otherwise; it started with its first *)
(* running event and was completed by its last other one                     *)
(* (task_projector.py, job_task_repository.py).                              *)
TaskRowsTellEnding ==
    db.written =>
        \A t \in {c.task : c \in {d \in Range(log) : IsProjected(d)}} :
            LET own     == {n \in DOMAIN log : IsProjected(log[n]) /\ log[n].task = t}
                starts  == {n \in own : log[n].state = "running"}
                endings == own \ starts
                lastly  == log[Max(own)].state
                row     == db.tasks[t]
            IN  /\ row.status = CASE lastly # "running"                           -> lastly
                                  [] lastly = "running" /\ status = "cancelled" -> "cancelled"
                                  [] lastly = "running" /\ status # "cancelled" -> "incomplete"
                /\ row.started = IF starts = {} THEN None ELSE Min(starts)
                /\ row.completed = IF endings = {} THEN None ELSE Max(endings)

(* A custom chunk without a task is linked to one only if no other task of   *)
(* its namespace was running at the time, as the stored events show          *)
(* (_resolve_custom_chunk).                                                  *)
InferredTaskWasAlone ==
    \A n \in DOMAIN log :
        log[n].link = "inferred" =>
            {t \in {c.task : c \in Range(log)} :
                LET before == {m \in 1..n : IsProjected(log[m]) /\ log[m].task = t /\ log[m].ns = log[n].ns}
                IN  before # {} /\ log[Max(before)].state = "running"} = {log[n].task}

(* While root answers do not overlap, and no two tasks share a message, the  *)
(* message shown for the run, the preview of the thread and the message the  *)
(* next turn is given are one and the same (job_transfer.py,                 *)
(* get_last_root_ai_message_async).                                          *)
Overlap(k, j) ==
    LET a == db.messages[k]
        b == db.messages[j]
    IN  a.first <= b.last /\ b.first <= a.last

Unshared == \A d, e \in Range(merging.pending) : d.ns = e.ns /\ d.id = e.id => d.key = e.key

AnswersAgree ==
    LET roots == {k \in DOMAIN db.messages : k[1] = Root /\ db.messages[k].role = "ai"}
    IN  db.written /\ Unshared /\ (\A k, j \in roots : k # j => ~Overlap(k, j)) =>
            /\ db.answer = db.preview
            /\ \A k \in LastRootAiMessage : db.messages[k].content = db.answer

(* A client whose connections all began with the whole stream, in Redis or   *)
(* from the start, has received nothing that one connection would not have   *)
(* brought, and at the end nothing is missing: the ids are on the last event *)
(* of each chunk only, a new connection replays the chunks before silently,  *)
(* and chunks that only PostgreSQL has follow (job_subscription.py).         *)
OneConnection ==
    LET a == FoldLeft(FormatChunk, FormatStart(NewAdapter), [n \in DOMAIN log |-> RedisEntry(n)])
    IN  FormatEnd(SetSource(a, Len(log) + 1), status).out

CutsLoseNothing ==
    client.whole /\ ~conn.open /\ client.events # <<>> =>
        /\ Range(client.events) \subseteq Range(OneConnection)
        /\ HasEnded => Range(client.events) = Range(OneConnection)

(* The text of the pieces in a set, in the order of their numbers *)
Latest(pieces) == CHOOSE e \in pieces : \A d \in pieces : d.number <= e.number

TextOfPieces(pieces) == MapThenFoldSet(LAMBDA e, text : text \o e.text, <<>>, LAMBDA e : e, Latest, pieces)

(* For such a client no number stands for two events; items are opened in    *)
(* the order of their indexes, each once; it is told every piece of an item  *)
(* between its opening and its end, and the text at the end is that of the   *)
(* pieces; and every item has ended, once, before the response does          *)
(* (openai_responses_format_adapter.py).                                     *)
ItemsCloseOnce ==
    LET events   == Range(client.events)
        of(i, k) == {e \in events : e.item = i /\ e.kind = k}
        items    == {e.item : e \in events} \ {0}
        text(i)  == TextOfPieces(of(i, "delta"))
    IN  client.whole /\ ~conn.open /\ client.events # <<>> =>
            /\ \A d, e \in events : d.number = e.number => d = e
            /\ \A i \in items : Cardinality(of(i, "added")) = 1
            /\ \A d, e \in {f \in events : f.kind = "added"} : d.item < e.item => d.number < e.number
            /\ \A i \in items : \A d \in of(i, "added"), e \in events :
                    e.item = i => d.number <= e.number
            /\ \A i \in items : \A done \in of(i, "text_done") :
                    /\ of(i, "text_done") = {done}
                    /\ \A e \in of(i, "delta") : e.number < done.number
                    /\ done.text = text(i)
            /\ HasEnded => \A i \in items : Cardinality(of(i, "item_done")) = 1

(* What a client was shown of a message and what is stored of it is the same *)
(* text, although adapter and accumulator merge chunks independently; if     *)
(* the model names either all messages of a role or none, and ends each only *)
(* once and with both of its signs.                                          *)
Regular ==
    /\ Ordinary
    /\ \A c, d \in {e \in Range(log) : e.type = "messages"} :
          /\ IsComplete(c) = IsStreamClosed(c)
          /\ <<c.ns, c.role>> = <<d.ns, d.role>> => (c.id = None) = (d.id = None)
          /\ c.id = d.id /\ c.id # None /\ c.ns = d.ns /\ IsComplete(c) => d.seq <= c.seq

ShownIsStored ==
    HasEnded /\ client.whole /\ Regular =>
        \A key \in {k \in DOMAIN db.messages : db.messages[k].content # <<>>} :
            LET i == Find(conn.adapter, key, None)
            IN  i # 0 /\ conn.adapter.items[i].text = db.messages[key].content

(* The orchestrator would have stored the same texts under the same ids,     *)
(* whatever its chunks were numbered, the same events, and the same preview  *)
(* when no answer stays empty, all have ids, and no message has a role that  *)
(* the orchestrator takes for ai (chunk_flush_service.py).                   *)
BothStoreTheSame ==
    LET answers == {k \in DOMAIN db.messages : k[1] = Root /\ db.messages[k].role = "ai"}
    IN  db.written /\ Ordinary /\ (\A k \in Range(raw) : ~k.whole) =>
            /\ \A key \in DOMAIN OrchestratorRows :
                  (\E c \in Range(log) : c.id = key[2] /\ c.id # None) =>
                      /\ key \in DOMAIN db.messages
                      /\ db.messages[key].content = OrchestratorRows[key].content
            /\ Cardinality(OrchestratorEvents.tasks) + Cardinality(OrchestratorEvents.custom) = Cardinality(db.events)
            /\ /\ \A k \in answers : db.messages[k].content # <<>> /\ k[2] \in {c.id : c \in Range(log)}
               /\ \A c \in Range(log) : CommonRole(c.role) = c.role
               => OrchestratorPreview = IF answers = {} THEN {} ELSE {db.preview}
=============================================================================
