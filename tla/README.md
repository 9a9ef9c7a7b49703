# Orchestrator-v2: verification project

TLA+ modules that model the backend of Orchestrator-v2, the TLC configurations that check them on
small instances, and proofs, checked by TLAPS, of the properties that matter most for every value of
the constants. `PROJECT.json` maps every definition to the source lines it models and lists the runs,
the mutants that show each property can fail, the findings, the hazards and the theorems.

## 1. The system

Orchestrator-v2 serves LLM agents. Two ways into it exist side by side:

- the **job service** (`src/backend/app/llm`): a request is stored as an `llm_job` row, executed by an
  asyncio task in one of several server processes, its chunks published to a Redis stream, and stored in
  PostgreSQL in one transaction at the end; any process can serve a subscriber, cancel the job, or reap
  it when its heartbeat stops;
- the **chat server and the orchestrator** (`src/backend/server.py`, `app/monitor`, `app/orchestrator`):
  a turn runs a LangGraph graph inside the request that asked for it; the thread lives in LangGraph
  checkpoints; chunks are buffered in Redis and flushed when the turn ends.

The React application (`src/frontend`) talks to both. PostgreSQL is the truth everywhere; Redis is a
buffer that may lose anything at any time.

### Components

| Component | State it keeps | Operations | What makes it correct |
|---|---|---|---|
| Job lifecycle (`app/llm/job`: manager, executor, transfer, reaper; `job_repository`, `redis_stream_client`) | `llm_job` row and chunk rows; hash `job:{run}:meta`; per process: task dictionary, cancel reasons | submit, retry a lost job, execute, heartbeat, transfer, cancel / client gone / shutdown, reap | one attempt's chunks or none; what Redis says ended has ended that way; a cancel leaves no active job; every job ends |
| Job subscription (`job_subscription.py`) | Redis stream; per connection: last stream id, cursor, first-entry flag | open, read, fall back to PostgreSQL, resume with `Last-Event-ID` | ids only grow; a completed answer is whole; every connection ends |
| Conversation summary (`app/llm/compression`, `thread_service.py`) | LangGraph messages; `chat_room.summary` and `summarized_message_count` | summarise before a turn, show summary and window to the model, truncate | the summary is that of exactly the first count messages; nothing cut is remembered; nothing kept is forgotten |
| Job submission (`submit_async`, `chat_thread_repository`, `thread_message_repository`) | thread rows, idempotency keys and locks, turn numbers | submit with a key, duplicate, second run of a thread | one active run per thread, dense unique turn numbers, a key answers with its own job |
| Orchestrator stream (`app/orchestrator`) | Redis chunk list per turn, orchestrator rows | stream, flush, clean up | the buffer is deleted only after what it holds is stored |
| Checkpoint retention (`checkpoint_retention_service.py`) | checkpoint, blob and write tables | purge idle threads, prune old checkpoints and orphan blobs | what remains can be read, the newest stay, what a dead batch leaves is found by the next |
| Stream pipeline (`app/llm/stream_pipeline`, detail repositories) | running tasks, partial messages, usage sums; rows of messages, tasks, events, answer | normalise, correlate, accumulate, project, upsert | a row is made of its own chunks, in order; the three answers to "what did it say" agree |
| Format adapters (`app/llm/format_adapter`) | open output items (OpenAI) | project, replay, complete | every opened item is closed once; reconnecting loses nothing |
| Authentication (`auth_service`, token helper, renewal middleware) | signed tokens with an expiry | sign in, renew in the last part of the lifetime | a token is renewed before it dies, never after |
| Rooms, bookmarks, thread reading (`app/monitor`) | `chat_room` and `chat_bookmark` rows | upsert, delete, read and cut a thread | see the browser |
| Chat queries | - | read | single SQL statements |
| Browser (`useRooms`, `useChatStream`, `useBookmarks`, `App.jsx`) | rooms and messages, bookmarks, one streamed turn; copies in localStorage | send, stop, retry, edit, bookmark, reset, reload | page and model remember the same conversation; a bookmark leads to its answer; the optimistic state converges |
| Images, agents, model factories, HTTP assembly, legacy pages | none of their own | conversions and wiring | out of scope, see section 7 |

### How they interact

`submit_async` inserts the row, stores the user's message, writes the meta hash and starts a task. The
task marks the row running, starts the hash by a Lua script, and for each chunk of the agent first
appends it to its buffers and then runs a script that publishes it only while the hash is active and no
cancellation is requested. Whatever ends it, its `finally` clause hands the buffers to `JobTransfer`,
shielded from cancellation: lock the row, store everything and the final status if the row is still
active, then publish the ending to Redis. A cancel call writes the reason into the hash, cancels a local
task, and in any case ends by ensuring that the row is terminal. The reaper of every process fences
hashes whose heartbeat is old and ends their jobs, then looks for stale active rows without a valid
hash. A subscriber reads hash, stream and row at different moments of all this.

A chat turn reads the thread, lets the summariser bring `chat_room.summary` up to date, then runs the
graph, whose middleware reads the summary again before every model call. A truncation cuts the
checkpoint, then the bookmarks, then the summary, in three transactions.

The page changes its own lists first and sends every write of a room or bookmark as a fetch it does not
wait for; only a truncation and the reading of a thread are awaited. Once a day a batch deletes
checkpoints, by plain SQL and from a process of its own, under whatever turns are running.

### What is hard

Several processes end the same job; a task is cancelled at any await, before its first step and inside
its `finally` clause; a transaction's answer is lost after its commit; Redis is unreachable, loses a
hash, trims a stream; a process dies between row and hash or between commit and publication; a retry
opens a job that another process believes finished; a reader combines three stale reads; two moments of
a turn compute the same boundary of a growing list; a batch deletes blobs it selected a statement earlier;
chunks of several messages, tasks and namespaces interleave, some without a name; page and server count
the same messages separately. `PROJECT.json` lists each as a hazard at the line where it bites, with the
properties that cover it or the reason why none does.

## 2. Modules

| Module | Models | Extends / instantiates |
|---|---|---|
| `JobRecord` | abstract: what the job row and its chunk rows promise to a reader of PostgreSQL | - |
| `JobLifecycle` | one `run_id` in several processes, await by await | instantiates `JobRecord` as a refinement |
| `JobLifecycleProofs` | six theorems about it | `JobLifecycle`, `TLAPS` |
| `JobSubscription` | one client's connections to `/llm/jobs/{run}/stream` over a reduced job service | - |
| `JobSubscriptionProofs` | five theorems about it | `JobSubscription`, `TLAPS` |
| `ConversationSummary` | thread, summary row, turns that summarise, truncation | - |
| `ConversationSummaryProofs` | two theorems about it | `ConversationSummary`, `TLAPS` |
| `ThreadRuns` | the requests for a thread, submitted or streamed: keys and locks, turn numbers, `llm_thread`, the orchestrator's buffer | - |
| `ThreadRunsProofs` | seven theorems about it | `ThreadRuns`, `TLAPS` |
| `ResponsesAdapter` | the OpenAI Responses adapter: chunks in, events out, as operators on a record | - |
| `StreamPipeline` | the chunks of one execution: pipeline, rows of the transfer, the subscriber's events, the orchestrator's merge | extends `ResponsesAdapter` |
| `StreamPipelineProofs` | eleven theorems about it | `StreamPipeline`, `TLAPS` |
| `CheckpointRetention` | the retention batch next to the turns that write checkpoints | - |
| `CheckpointRetentionProofs` | four theorems about it | `CheckpointRetention`, `TLAPS` |
| `ChatPage` | one user's page, the fetches it sends, and the three stores of the server | - |
| `ChatPageProofs` | three theorems about it: page and server | `ChatPage`, `TLAPS` |
| `ChatPageConversations` | four theorems about it: page and history | `ChatPageProofs` |
| `MC` + a component's name | for TLC: symmetry sets, which requests or chunks come together, bounds on the state space | that component |

A step is what happens between two awaits, one PostgreSQL transaction, or one Redis script. The modules
keep the names of the code where they can: `CommitEffect` is the transaction of `transfer_async`,
`StartMeta` is `START_JOB_SCRIPT`, and so on. Definitions whose comment begins with "Mutant" are not part
of the model: each is a plausible wrong version of the definition that follows it, used to show that the
properties can fail.

### JobLifecycle

`job` and `chunkRow` are the rows, `meta` the hash, `executor[a]` the task of attempt `a` with its
buffered chunks and the status it is about to transfer, `transfer[o]` a `transfer_async` call of a task,
a cancel call or a reaper, `caller[c]` a cancel, disconnect or shutdown call, `reaper[p]` the loop of a
process. `taskDictionary` and `cancelReason` are the two dictionaries of `JobManager` at this run. Time is
two flags, "heartbeat is old" and "row is old", that the environment may raise whenever the hash or row is
active; so a reaper may strike however alive the task is, which covers every choice of the timeouts.
Cancellation of a task is delivered according to where it stands: before the first step the coroutine
never runs, so neither does its `finally`; awaiting the heartbeat it is swallowed; awaiting the shielded
transfer the task ends while the transfer goes on; anywhere else the except clauses run.

Faults are enabled by `FaultKinds`: *postgres* (a transaction raises, rolled back or with only its answer
lost; a status-only write that fails too), *redis* (a command raises, or the hash is lost), *crash* (a
process dies with its tasks, calls and dictionaries). `ExecutionFails` (a timeout or an exception of the
model) is not a fault: it can always happen. The reaper catches five kinds of exceptions at
`job_reaper.py:102` and `110`. `ReaperFails` is one of them: this hash, or this pass, is given up and the loop
goes on. `ReaperDies` is another: what `pool.acquire` raises in an outage (`OSError`, `InterfaceError`,
`TimeoutError`), from the scan of stale rows or from the read at the end of a transfer, ends the reaper's
task, and nothing in the process starts it again.

### JobSubscription

`log` is every entry ever added to the stream and `head` the oldest left (trimming and expiry move
`head`), `client` the client with the events it got and the `subscribe_async` call serving it: one action
per await of `subscribe_async`, `_should_fallback_for_missing_stream_async` and the two PostgreSQL
generators. The job service is reduced to what a reader can tell apart: a transfer is one commit and one
later publication; theorem `RowsAreOfOneAttempt` of `JobLifecycle` is why the stored chunks are an
attempt and a count. The client disconnects at any time, perhaps losing the last event, and connects
again with its last id.

### ConversationSummary

A summary is the set of messages it was made from. A turn loads the thread, reads the summary row, has
the model write a new summary, stores it, adds the question, and is shown summary and window before every
model call; tool calls make it ask again. The token threshold is abstracted into the message threshold
(it only decides whether a turn summarises). Every message has text. `Stop` is a browser that goes away
while the handler summarises: the handler is not cancelled, so the row is still written; the response it
then starts ends at once. A truncation cuts the thread (`RemoveMessages`) and later clears the row
(`ClearSummary`) or fails to (`TruncationFails`); a stopped turn may be anywhere in its summarising when it
cuts, and a new question may be asked before it has cleared. A truncation that finds nothing to cut returns
before it clears the summary, so it changes nothing.

`torn` is an auxiliary variable, read by no guard: it marks a row whose summary stands for a message that a
truncation has taken, or is within `Keep` messages of one, until the row is cleared; a turn whose list
was cut while it summarises; and the row that such a turn, or one that has read a torn row, stores. These are
the summaries the code cannot keep true and does not try to.

### ThreadRuns

A request is a job submission (`submit_async`) or an orchestrator stream (`stream_orchestrator_async`
and its generator), each in a process of its own: only PostgreSQL and Redis stand between two of them.
`req[r]` is its handler, `pc` being the await it stands at; `job[r]` its `llm_job` row, `chat[t]` the row
of `llm_thread`, `advisory[t]` the advisory lock, `keyLock[k]` the `inflight:{key}` lock, `buffer[r]` the
chunk list in Redis. A submission goes from *new* through *key* and *lock* to *begin* (`TakeTurn`: lock,
owner, `MAX + 1`), *insert* (`InsertJob`), *upsert* and *question* (the two bookkeeping transactions),
*meta* and its task; *violated*, *failing*, *lookup* and *unstarted* are its except clauses; *blocked*
and *asked* answer a held lock. A stream goes through *upsert* and *question*, *streaming*, and then
*flush*, *begin*, *insert*, *delete*, or *clearing*. The two kinds share `TakeTurn`, `ShowPending` and
the bookkeeping, as they share the repositories.

What is merged: "running" with "pending" (no index and no action here tells them apart); all tasks of a
run into membership of `task`, a task's way to its end being `JobLifecycle`; a transfer and its thread
update into one transaction, as in the code. A reaper may strike whenever a row is active. The owner's
row is the first by `created_at`, which a process takes before it waits for the lock, so `MayOwn` and
`MayNotOwn` let any row of the thread be the first.

Faults: *postgres* (before or after the commit; caught as `PostgresError`, or uncaught as what a broken
connection raises), *redis* (a `SET` may have happened all the same), *crash*, *expiry* (a lock or a
buffer lapses). Two flags name what the code cannot help: `leaks`, an admission that ended without
having been able to release its lock, and `expired`, a buffer Redis has dropped. `LocksAreUsed` and
`FinishedStreamIsKept` exempt exactly these; a release missing from an except
clause violates the former, as its mutant shows.

### StreamPipeline and ResponsesAdapter

One execution: `raw` is what the agent has yielded and `log` the same chunks numbered and linked to tasks
(`chunk_list`); `running` is the resolver's dictionary, `merging` and `streamed` the accumulator and what
it has returned. `Buffer` is `_buffer_chunk`: normalise, resolve, accumulate; `Chunk` publishes as well,
`ChunkRefused` is a chunk Redis does not take any more, `ChunkUnmergeable` one the accumulator raises
over, `ChunkIgnored` one of another type. `Transfer` writes `db` by the upserts of the repositories, each
a fold over what it is given: the streamed messages and, once more, `flush_all`. `ResponsesAdapter` is
the adapter as a record and one operator per method; `FormatChunk` is `project`, `FormatEnd` completes or
fails the response. `Connect`, `DeliverChunk` and `DeliverEnd` are a subscription as far as the adapter
goes: replayed chunks before the last id, then chunks from Redis or PostgreSQL, cut after any event.

A chunk goes through the normalizer (`Serialized`, `Normalized`: which of the library's types are numbered,
what of a message is kept, which data key says how a task is doing) and the resolver (`Resolved`: a task
names itself, a message has the task of its checkpoint namespace's last segment, a custom chunk without one
may be inferred). `ChunkRow` is what a reader finds of it afterwards, in Redis or PostgreSQL alike.

An agent (`Agent`) is a set of chunks it may yield, a number of them, and a number of connections. The
text of a chunk is its own number, so a text is the sequence of the chunks it was made of. `OrchestratorRows`
is what `chunk_flush_service.py` would have made of the same chunks, by its own rules, one of which is about
roles: it knows human, tool and system messages and takes everything else for ai (`CommonRole`), while the
normalizer also knows function and chat messages. So a chat message is an answer to the orchestrator's
preview and none to the job's; `BothStoreTheSame` compares previews while no message has such a role, and
texts whatever the roles are.

What the code does and the properties therefore leave out: a connection that resumes from PostgreSQL
is given later chunks only and continues with an adapter that has no open item (`client.whole`); chunks
of one message that come from two tasks are two entries of the accumulator and one row, the later one, and a
message that comes whole twice with two texts keeps the first (`Plain`); of root answers that overlap or are
shared by two tasks (`Unshared`), the row of the thread and the job's last message can differ;
chunks without an id are merged by accumulator and adapter but not by the orchestrator. Token usage,
which `job_executor.py` adds up over every returned snapshot of a message and again over `flush_all`, is
not modelled, nor is the completion of partial JSON arguments of tool calls.

### CheckpointRetention

`checkpoints`, `blobs` and `writes` are the rows of the three tables LangGraph keeps; a blob belongs to
thread, namespace, channel and version, and a checkpoint names one version of every channel. A turn
(`LoadCheckpoint`, `PutCheckpoint`, `PutWrites`, `EndTurn`) is the external saver: it remembers the
checkpoint it builds on and stores, in a transaction, new blobs and a checkpoint that names them and the
old versions of the rest. The batch is one action per SQL statement: `ListIdleThreads`, then bounded
deletions table by table, then `SelectExcess`, `DeleteWrites`, `DeleteCheckpoints` until nothing is in
excess, then `SelectOrphans`, `DeleteBlobs`. `BatchFails` is a statement that raises or a process that
dies. Versions are a number with a random suffix; the suffix is a mark, unique per checkpoint.

Two variables name what the service does not protect, and `RemainingAreReadable` excepts exactly that.
`overtaken` are the threads in which a turn has stored something while a purge was deleting them, or after
one had left no checkpoint. `revived` is about prunes. A turn holds the versions of the checkpoint
it began with. If another turn of the thread stores `Keep` newer ones, the prune may delete that checkpoint
under it, and with it the last mention of an old version; the orphan selection, a minimum over the remaining
checkpoints, does not see what a running turn holds. When the turn then names the old version again, its
blob may be selected or gone, and the new checkpoint cannot be read. The comment at
`checkpoint_retention_service.py:60` says this cannot happen; the code does it. `revived` has those values,
and no others: a turn that carries on what some checkpoint still names is covered, wherever the batch stands.

### ChatPage

The server is `history` (the messages of each thread's checkpoint), `stored` (`chat_room`) and `marked`
(`chat_bookmark`); the page is `rooms`, `active`, `marks` and the two flags `loaded`; `turn` is the call
of `executeStreamTurnAsync`, `edit` that of `onSubmitEdit` waiting for its truncation; `sent` are the
writes in flight, delivered in any order (`Deliver`) or lost (`Lose`). One action is one handler of the
page, one handler of the server, or one answer arriving. A turn goes from *asking* (nothing stored)
through *answering* (the graph's first checkpoint holds the question) to *answered*, independently of
what the page has heard; it ends by completing, by the model's failure, by being stopped, by a broken or
refused request, after which it may be asked again, or with the page. `Reload(TRUE)` loads the page in
the same browser, with its copies in localStorage, `Reload(FALSE)` in another one.

The page and the server identify messages by counting: an edit by the questions before it, a bookmark
by the answers before it. What they count diverges when a question was never stored, was stored twice,
when an answer is shown in part or stored unseen, and so on. The code does not prevent this, so each
property says which of these misfortunes (`harmed`) it survives, and the interesting part is what is
*not* in its list: shown answers survive unstored questions, failed and stopped turns; cuts survive
repeated questions and questions asked again after later ones (`late`: a retry button of an older bubble);
bookmarks survive all of these, since they count answers only. A page load in another browser cures what
only the page had wrong (`Cured`). `astray` are the tables that a write has missed since the
page last read them; a page load heals them. One of these cases is a room that is made while the list
of rooms is still loading: nothing keeps the user from it (the button is never disabled), its row is stored,
and the list that arrives replaces the page's (`useRooms.js:102`), so the room is gone until the next load.

Simplifications: an answer is one message with text; the server notices a disconnect before the page
sends its next request; a truncation is one step (its three transactions are in `ConversationSummary`);
memos of bookmarks are left out; one page at a time, and so no two streams of one thread. Four bounds leave
out steps that the handlers allow: one edit at a time and one turn at a time (`SubmitEdit` waits for
the edit before it and `FinishEdit` for a turn begun meanwhile, where `onSubmitEdit` has no guards); a
room is restored once (`restoringThreadIdRef` knows only the last thread, so going back and forth asks
twice); a room made before the list has come is not used until then. What leads there (sending, switching,
resetting or deleting while an edit or a restore waits) is in the model, as `overlap`, which no property
about messages survives. A reset may be confirmed at any time: only its modal is closed while a turn runs.

## 3. Runs

| Run | Instance | Question and answer |
|---|---|---|
| `lifecycle_faults` | 2 attempts, 2 processes (1 reaps), 1 chunk, 1 call, 1 fault of any kind | Is what is stored whole and of one attempt, is what Redis claims true, does a cancel, disconnect or shutdown call leave no active job, does the row implement `JobRecord`? Yes. |
| `lifecycle_live` | 2 attempts, 1 process that reaps, 2 faults of any kind, of which one meets the reaper, `FairSpec` | While a reaper lives, does every job end, is every stale hash corrected? Yes. |
| `lifecycle_skipped` | 2 attempts, 2 processes, no fault | Is a completed job one whose execution succeeded? No: finding 1. |
| `subscription` | 2 attempts, 2 chunks, stream of 1, 2 connections, 2 faults, `FairSpec` | Are ids increasing, completed answers whole, silent closings only over lost jobs, connections finite, also while the run is executed again? Yes. |
| `subscription_recovered` | 2 attempts, 1 chunk, stream of 2, 1 connection, 1 fault | Is a client that recovers a lost job sent the recovered answer? No: finding 2. |
| `summary_kept` | 2 turns, 6 messages, keep 2, trigger 2, 1 failed truncation | Is the stored summary that of the first messages, as long as no truncation has torn it? Yes. |
| `summary_forgotten` | 1 turn, 7 messages, no fault | Is the model shown the whole thread, one way or the other? No: finding 3. |
| `summary_stale` | 1 turn, 7 messages, 1 failed truncation | Is the model never shown what was cut? No: finding 4. |
| `thread_runs` | 3 requests, 1 thread, 2 users, 1 key, streams of 1 chunk, 1 fault of any kind | Are runs numbered densely and of one owner, does the thread show true endings, is every lock in use, every duplicate one's own, every finished stream kept? Yes. |
| `stream` | 9 agents: up to 7 kinds of chunks, up to 5 chunks, up to 2 connections | Are rows made of their chunks, tasks of their events, answers in agreement; is every item opened and closed once, nothing lost between connections, the same shown, stored, and stored by the orchestrator? Yes. |
| `retention` | 1 thread, 2 namespaces, 2 channels, 2 turns, 3 checkpoints, keep 1, chunks of 1, 1 dead batch | Can every checkpoint be read (but for revived values), every leftover be found, do the newest stay? Yes. |
| `chat_page` | 2 threads, 3 turns with 1 retry, 2 bookmarks, 2 writes in flight, 2 page loads, 4 events in all | Do conversation, memory, bookmarks and tables survive what they say they survive? Yes. |

**Bounds.** Two attempts are a submission and one retry, or two retries that race for the same lost job
after a failed first one: with two, an old task, transfer or reaper can already meet a newer attempt,
which is what every ordering hazard needs. Two processes, one with a reaper, separate "the task is here"
from "the task is elsewhere"; a reaper on the other process meets the task only through PostgreSQL and
Redis, so a second reaper is a second transfer, of which tasks already give several. One chunk
tells an answer with chunks from a lost one and an attempt's rows from another's; `lifecycle_live` has
none, which makes every failed job a lost one, so it can always be retried, and a second fault that
happens as a reaper dies or after it (`FaultsAboutReaper`), so that the reaper ends and the process that had
it crashes, in either order. A call is made while the job
is active with one attempt at work, and from then on no heartbeat lapses and PostgreSQL is up
(`CallsWithoutReaper`): calls that meet a reaper, or an execution that begins twice, are left to the
theorem `CancellationSettles`. One fault per behaviour is
enough for every single failure, at every point; combinations are left to the theorems, whose number of
faults is arbitrary. In the subscription, two chunks and a stream of length one let the stream be trimmed
in the middle of an answer, two connections let a client resume on either side of the gap; once the run is executed a second time
it has one chunk and one fault (`Small`), and before that every behaviour is complete. In the
conversation, six messages with a window of two are at least two summaries in a row, with a truncation
between them or under one of them; one truncation is under way at a time, and it cuts while no turn streams,
as the page sees to (a turn that only summarises for a client that has gone does not stream). Of requests, three are one that has stored its run and two that race for the next number;
threads share nothing but the key's index, so one thread is enough. `Mixes` leaves out only mixes in which
the same submission comes more than once without a stream: the owner may submit with the key, once or
(next to a stream) repeatedly, and without it; the other user tries the thread with the same key; up to
three streams run. The agents of the stream are repertoires, each for one sort of interleaving: tasks and
remarks of unknown origin; two messages in two namespaces and tasks; messages without ids, whole ones and
tool messages; fragments of tool calls; chat messages beside answers. Four or five chunks are two messages cut into each other, or a
task that starts, fails and starts again; two connections are a replay. In the retention, three checkpoints with
two channels and one to keep are a version shared by an old and a new checkpoint, which is what an orphan
must be told from, and chunks of one row put a turn between any two deletions. A page's events (turns,
rooms, changes, bookmarks, page loads, faults) are counted together: four are, for example, a turn that
fails and is repeated, an edit that cuts it and a reload; the steps of a turn, retries, deliveries and deletions come on
top. Bookmark clicks and deliveries are explored before and after a turn only (`TurnsUndisturbed`):
they change nothing that its steps read, nor the other way round. A page load gets its bookmarks first.
The properties about messages were also simulated with three threads, more turns and more faults than the
run's; that is how flaws of their first versions were found that the run's bounds hide (section 4).

**Symmetry** is used on requests of any kind (their mixes are closed under it), on attempts, calls and
processes of the same kind, and on threads, namespaces, channels and turns of the retention, in safety
runs only; `subscription` and `lifecycle_live`, the liveness runs, use none. `subscription` does have a
state constraint beside its liveness property, which TLC warns of: what it cuts are continuations of
runs executed twice, and a behaviour that is cut is not one that fails to end. `ConnectionsEnd` is
therefore shown for all behaviours with one execution and for those with two inside the constraint.

**Deadlock** is checked in `lifecycle_skipped`. It is switched off where a system really stops:
`lifecycle_faults` and `lifecycle_live` (no reaper left, and nobody retries), `thread_runs` (every request answered), the
subscription runs and `stream` (no connection left), the summary runs (a thread at its last message),
`retention` (no checkpoint left to store) and `chat_page` (bounds spent).

**Fairness.** `JobLifecycle` assumes weak fairness of: the steps of a submission, of a task and of a
transfer (the event loop runs what is ready; a model stream ends or hits `asyncio.timeout`), calls, the
reaper loop as long as its task lives, and the growing old of a heartbeat that nobody refreshes and of an
active row. Nobody has to submit, retry or cancel; no heartbeat has to be on time; no fault and no expiry
has to happen. Liveness needs a reaper: a crashed process is restarted at once in the model, with a new
reaper task, but a task that an error has ended stays ended. `EveryJobEnds` and `MetaIsCorrected` therefore
begin with `ReaperStays`: from some point on, some process has a reaper task. The code does not see to
that; where it fails, the jobs of a process that dies stay active until some process is started again.
`JobSubscription` assumes weak fairness of the attempts' steps and of the subscription's awaits only: not
even the publication of the ending has to succeed.

## 4. What is proved

All theorems are about `Spec`, for any sets of attempts, processes and calls, any number of chunks and
any number and kind of faults, from `ConstantsAssumption` alone unless stated.

`JobLifecycleProofs`:

- `TypeCorrect`: `Spec => []TypeOK`.
- `RowsAreOfOneAttempt`: chunk rows are those of one attempt, none while the job is active.
- `CompletedAreWhole`: a completed job holds the whole output of an attempt.
- `EndingsAreTrue`: Redis, or a transfer about to publish, claims completed or cancelled only when the
  row says so.
- `RecordIsKept`: `Spec => RecordPromise`, the refinement of `JobRecord`, step by step.
- `CancellationSettles`: `Spec => []CancelSettles`; a failure of PostgreSQL voids the claim, no other does.

The argument. `TypeInv` adds to `TypeOK` that the chunk rows are finite (their count needs it) and that a
call that cancels a task has a task. `RowInv` is the strengthening for the rows: `Unwound` (a task
that awaits its heartbeat's end has decided its outcome), `TransfersOfSettled` (only a task that will
buffer nothing more has a transfer; it carries that task's final status, and nobody else's carries
completed) and `RowsSettled` (an active row has no chunks, a row with chunks holds the buffers of a
settled task). The properties alone are not inductive: to know that a commit stores a *whole* answer one
must know that the task whose buffers it stores has stopped growing them, which is a fact about the
task and not about the row. `SettledStays` says it keeps them, `TransferWriters` where transfers come
from, `CommitRows` what a commit may do to the row; they also give the refinement, where a commit is
`Settle`, a retry's `UPDATE` is `Reopen`, and everything else runs or stutters. `EndingsAreTrue` is its own
invariant, given types. `CancelSettles` needs two more invariants: `NoStatusOnly` (until PostgreSQL fails no
transfer takes the status-only path) and `CallInv` (a call past its check either saw the attempts that
exist now, or one began since).

`ConversationSummaryProofs`:

- `SummaryTypeCorrect`: `Spec => []TypeOK`; the stored count never exceeds the messages there have been.
- `SummaryIsKept`: `Spec => []SummaryCoversPrefix`. The invariant is `SummaryInv`: the list a summarising
  turn has loaded is still the thread's beginning, unless a truncation has cut it, and the summary it has
  read that of the beginning of its list, unless the row was torn then (`IsCurrent`). That makes lost updates
  harmless: whichever turn writes last, its pair is right or torn. What must be shown of a truncation is that
  it marks every row and every list that it reaches into (`torn`), whatever turns stand at.

`ThreadRunsProofs`:

- `RunsTypeCorrect`: `Spec => []TypeOK`.
- `TurnNumbersAreDense`: `Spec => []TurnsAreDense`.
- `RunsHaveOneOwner`: `Spec => []RunsOfOneOwner`.
- `StreamsAreStored`: `Spec => []FinishedStreamIsKept`.
- `LocksAreInUse`: `Spec => []LocksAreUsed`.
- `DuplicatesAreOfOneUser`: `Spec => []DuplicatesAreOwn`.
- `ThreadsShowTrueEndings`: `Spec => []ThreadShowsTrueEnding`.

The first three need one invariant. `Placed` says where either kind of request can be and until when it
has no row; `NumberedFromOne` that the numbers of a thread are `1..m`; `InsertersAreCurrent` that a
transaction which has read its number holds the thread's advisory lock and that what it has read (the
numbers `1..turn - 1`, rows of its own user) is still so. Density is not inductive without the last: it is
the lock, held from the reading to the commit, that makes `MAX + 1` a number nobody else can take.
`RowKinds` reduces the 32 actions to two sorts, those that leave a row's number alone and those that
commit the number read, so that `OldRows` and `NewRows` argue about numbering once. `StreamsAreKept`
follows a stream from its first chunk to its row. `LocksAreHeld` adds that a lock is that of its holder's
key, without which a duplicate could be told a run of another key; `ToldAreOwn` follows a run from the
lock it was read from to the answer. `ThreadsAreTrue` adds that a thread shows a run of its own: a
transfer of any run could otherwise disturb any thread.

`CheckpointRetentionProofs`:

- `RetentionTypeCorrect`: `Spec => []TypeOK`.
- `CheckpointsStayReadable`: `Spec => []RemainingAreReadable`.
- `LeftoversStayFound`: `Spec => []LeftoversAreFound`.
- `NewestStay`: `Spec => [][...]_vars`, the action property `NewestAreKept`.

One invariant serves all four. `TurnsRemember`: a checkpoint id names one row, and what a turn remembers
of its base is that row's. `OrphansStayOrphans`: a blob selected for deletion is named by no checkpoint
of an undisturbed thread, unless the value was revived; it stays so because a new checkpoint names versions
stored with it, versions that another checkpoint names, which the selection has spared, or `Unnamed` ones. This is why the order matters: checkpoints are pruned before orphans are
selected, and a minimum over the *remaining* checkpoints cannot fall. `PurgedSoFar` and `LeftoversAreFound`
follow the tables through a purge: what reappears behind it was written by a turn. `ExcessStaysExcess`: the
selected rows each have `Keep` newer ones that are not selected; `SelectionSpares` finds them
for a chunk of the ranking in any order, since above the newest selected row of a namespace nothing is.

`JobSubscriptionProofs`, for any number of attempts, chunks, connections and faults:

- `SubscriptionTypeCorrect`: `Spec => []TypeOK`; with it, that a batch is worked off before the next read.
- `EventsStayInOrder`: `Spec => []EventsInOrder`, because the cursor of a connection is at or after
  everything its client has (`InOrder`), in whatever order its sources answer.
- `CompletedIsTheLastWord`: a client that is told completed is told nothing after it, and the row says
  the same. `LastWord`: the connection that said it polls, with its cursor past the row's chunks.

And, the only two theorems of the project with an assumption beside `ConstantsAssumption`,
`MayLag = FALSE` (section 6):

- `CompletedAnswersAreWhole`: `Spec => []CompletedAnswerIsWhole`.
- `SilentClosesMeanLost`: `Spec => []SilentCloseMeansLost`.

`AnswerInv` is about a run with one attempt, in five parts. `RowOf`: the row counts chunks the attempt
has produced, all of them when it is completed. `StreamOf`: entry `i` of the stream is chunk `i`, and an
end entry comes after the row has ended and after its chunks. `AnswerOf`: the client has chunks 1, 2, 3
and perhaps the end, and the cursor is their number. `ReaderOf` is the core: past its first entry, where
the gap check no longer looks, a reader can only miss entries that are not chunks, since a stream that
disappears under it has an ended hash and one that is trimmed does not overtake it. `PollOf`: once the
row is seen ended, what the fallback holds of it is the row. Every step of the job service keeps
`Frame`, and `FrameKeeps` carries the reader's three parts over any such step; the client's steps leave
the job service alone.

`StreamPipelineProofs`, for any agents, chunks, namespaces, and numbers of connections:

- `PipelineInStep`: `Spec => []Inv`, and `TypesHold`: `Spec => []TypeOK`.
- `InferencesAreSafe`: `Spec => []InferredTaskWasAlone`.
- `TaskRowsAreTrue`: `Spec => []TaskRowsTellEnding`.
- `MessagesInStep`: `Spec => [](Inv /\ MessageInv)`.
- `MessageRowsAreTrue`: `Spec => []RowsAreTheirChunks`.
- `AnswersAreOne`: `Spec => []AnswersAgree`.
- `StreamIsTold`: `Spec => [](Inv /\ Telling)`.
- `CutsAreHarmless`: `Spec => []CutsLoseNothing`; `ItemsAreWhole`: `Spec => []ItemsCloseOnce`.
- `OrchestratorAgrees`: `Spec => []BothStoreTheSame`.

`Inv` has five parts: the chunks are numbered as buffered (`Buffered`), rows are the folds over them
(`Written`), a connection is somewhere in them (`Followed`), the resolver's set of running tasks is what the
last event of every task in the list says (`RunningTold`), and so each inference was made over the only
running task (`Inferred`). `MessageInv` is about the accumulator: every entry was opened by the first chunk
of its message and has the text of all of them if they belong together (`Merging`, `MessagesTold`), and what
was streamed is, chunk by chunk, an earlier state of the same entry (`Stored`), in the order in which
chunks came. From that `MessageRowsAreTrue` needs that the upsert's last state wins although every state is
written in turn (`RowOfMessage`), and `AnswersAreOne` that entries stand in the order of their first chunks,
so that without overlap the last pending root answer is the one with the greatest last chunk.

What a fold over a list computes would need induction over data. The proofs do without: `FoldLeft` is a
recursive function, whose existence on the finite subsets of `1..n` is shown first; it gives a chain of
values, one per chunk, each the rule applied to the one before; and whatever holds along a chain is argued by
its *least counterexample*, `<` being well-founded on the natural numbers, so no theorem with an operator
parameter is instantiated. Tasks, messages, texts and answers are four rules of the same lemmas, and so are
the loops of the adapter over items, calls and chunks.

The adapter theorems compare two adapters: the one that formats the whole list for one connection that is
never lost, which keeps all it puts out, and the one of the connection at hand, which was made by replaying
chunks silently and is emptied whenever it has sent. They are `Twin`: alike in every field but `out`, of which
the first has some text before the other's. Every method keeps that (`FollowsOpen`, `FollowsExtend`,
`FollowsClose`, up to `FollowsChunk`), since no method reads `out`. So what is sent of chunk n, after whatever was lost, is what
the one stream has there, and `Telling` follows: a client whose connections began whole has received the first p
events of that stream (`Reached`), and p covers every chunk up to its last id and up to the cursor of an open
connection. The id is on the last event of a chunk, so events of a chunk that was cut in the middle are sent
again, with the same numbers; that is why the properties speak of the set of what was received.
`ItemsAreWhole` needs in addition what one stream looks like: `Sane` relates the items of an adapter to what it has
put out, item by item (announced once, in the order of the indexes, its deltas in between and adding up to its text,
concluded once when done), with numbers that rise; every method keeps that too, and `FormatEnd` leaves no
item open because `CloseAll` meets the key of every item there is.

`OrchestratorAgrees` compares the accumulator with the orchestrator's merge, a fold over the same chunks by a rule of
its own. `ComparedInv` says what both have in common: the rows merged so far have, for every message with an id, its text and the
role of its first chunk (`NamedTold`), they stand in the order of first chunks (`OrderTold`), although the
orchestrator counts also the chunks the pipeline does not number, and each belongs to a message there is
(`RowsKnown`). Roles are those of the log put through `CommonRole`; with the previews' premise (`SameRoles`) they are the same. An id the accumulator thought up tells its role (`RolesTold`), and while nothing comes whole every
nameless message has an entry (`NamelessKept`); so where every answer of the transfer has an id from the model,
the orchestrator has no answer without one either, and the last of the entries is the greatest of the first chunks.

`ChatPageProofs`, for any numbers of threads, turns, bookmarks, writes and misfortunes:

- `PageAndServerInStep`: `Spec => []Inv`, and `TypesHold`: `Spec => []TypeOK`.
- `PageAndServerConverge`: `Spec => []WritesConverge`.

Convergence speaks of a moment with nothing in flight. The invariant says what is in flight until then:
the last write about a room that has not arrived says what the page has, or, before the list of rooms has come,
what some list says that has every room of the page and perhaps others (`RoomsInv`); every bookmark of the
page is a row or on its way, and one the page has dropped is no row unless its deletion is on its way
(`MarksInv`). It needs that names are never used twice, on the page, on the server and in between
(`Owned`, `MarkNames`, `MarkPlaces`): a deletion that arrives late could otherwise hit another bookmark of
the same place. The truncation of an edit is the delicate step, since the server cuts its bookmarks
before the page has heard of it; `Cut` names those. All other misfortunes put the table into `astray`.

`ChatPageConversations`, on top of it:

- `ConversationsInStep`: `Spec => [](Inv /\ TalkInv)`.
- `AnswersAreKept`: `Spec => []ShownAnswersAreKept`; `CutsAreForgotten`: `Spec => []CutMessagesAreForgotten`.

Page and server never compare messages: each counts, and cuts at its own position. `TalkInv` therefore
compares the list of a room with the log of its thread by the numbers of questions before a message. Under
the misfortunes a property survives, every whole answer of the page stands in the log with no more
questions before it than on the page (`Shows`), or every message of the log belongs to a question of the
page with no fewer before it (`Remembers`), or both have the same answers in the same order
(`SameAnswers`); a truncation by the same count then takes no more, or no less, from the one than from
the other. An edit makes the two differ for as long as the page waits: `Seen` is what the page will show
after its half of the edit, and a running turn adds what the page is still to be told (`Told`).

- `BookmarksLead`: `Spec => []BookmarksLeadToTheirAnswers`.

A bookmark is a room and a number of answers, and page, table and network each hold some. `MarkTalk` is
about those there will be once everything has arrived (`Lasts`: of the page, of the table and on their way,
less those whose deletion is). As long as the misfortunes of this property have not happened, each of them
leads to its answer in what its room shows or, in a room that is not read yet, in the history it will be
read from (`Leading`); a page that has read its bookmarks has all of them, no deletion overtakes its
registration, and nothing the page holds is being deleted (`MarksLast`). Whoever cuts answers must then
drop every bookmark behind the cut, also one another browser put there. Reading a room replaces what is
shown by the history, where the bookmark leads to the same answer by `SameAnswers` of `TalkInv`. A new
browser has no rooms at all until the server's list arrives, so `Leading` would be empty just when it
matters: `Recoverable` says instead that some list of rooms, which the table will agree with when the writes
in flight are done, leads every lasting bookmark to its answer.

Each invariant was checked by TLC on the instances above (`Recoverable` with nothing in flight). Attempts to prove led to corrections of
model and properties: CASE arms that overlapped were made exclusive; `RowsAreTheirChunks` was false of
messages that come whole and differ; `AnswersAgree` of chunks without an id that two tasks share
a role for. TLC had not met these because no agent of the instance sends them. In `ChatPage`, shown answers
did not survive a question asked again after later ones (hence `late`), and bookmarks did not survive an
edit after which page and server keep different numbers of answers, rooms adopted while a write of theirs
was missed or in flight, nor a list of bookmarks that could not be read: each takes more events than the
instance has, and is now among the misfortunes that the action records.

What stays with TLC. Liveness (`EveryJobEnds`, `MetaIsCorrected`, `ConnectionsEnd`) is out of the proof
system's reach. `ShownIsStored` is not a theorem for every agent that `ConstantsAssumption` allows: if a
message without an id is under way in pieces and one comes whole with its finish sign, the accumulator
refuses it, which fails the run, but the chunk is in the list, and the adapter appends its text
and ends the item. No agent of the instance yields that, and whether a model may is nothing the
code tells. Nor do two tasks of one namespace send chunks without an id: the accumulator would keep an entry
for each, of which only one becomes the row. The property is about what TLC explores.

## 5. Findings

1. **A refused execution completes a retried job** (`lifecycle_skipped`). `execute_async` begins with
   `job_status = COMPLETED`; if `update_job_running_async` refuses, it returns through the `finally`
   clause and transfers COMPLETED with nothing. On an ended row this is harmless. But if the row was
   ended by a reaper and a retry on another process has opened it again between the two, the empty
   transfer completes it; a completed row can never be retried. It is why `CompletedIsWhole` speaks of
   `FinalStatus(outcome)` and not of the outcome.
2. **A recovered answer may not be streamed** (`subscription_recovered`). A retry rewrites the hash and
   leaves the stream of the lost attempt; both attempts number chunks from 1, so the client is sent the
   old chunks and drops the new ones, then gets the new attempt's completed event.
3. **Messages fall between summary and window** (`summary_forgotten`). The boundary is computed before
   the question is added and the window after it; one message per turn, and one more per message a tool
   call adds, reaches the model in neither.
4. **A model may be told what was cut** (`summary_stale`). A truncation cuts the checkpoint, then the
   bookmarks, then clears the summary. A question asked in between, which the page allows, is answered with
   the summary of what was removed; when clearing fails, so are all later ones.

Not findings of a run, but what the models made explicit and the code does: an outage can end a reaper's
task for good (`ReaperDies`); a turn whose checkpoint a prune takes can store one that cannot be read
(`revived`); a summary may be made of messages that are being cut (`torn`); a room made while the list loads
disappears from the page (`CreateRoom`); function and chat messages are answers to the orchestrator only
(`CommonRole`). The properties say where they stop because of these.

## 6. Assumptions to keep in mind

- `MayLag = FALSE`: a connected reader is never 10000 entries behind a trimmed stream. With `TRUE`
  `CompletedAnswerIsWhole` fails, since the gap check looks at the first entry of a connection only.
- `None` is no number and no id that the accumulator makes, and a model never gives an id that looks like
  one of those (`SyntheticIds`): `ConstantsAssumption` of `StreamPipeline`. The code's are
  `synthetic-{role}-{n}`.
- `ReaperStays`, in the two liveness properties of the lifecycle only: from some point on there is a reaper.
- Torn summaries and revived values are outside `SummaryCoversPrefix` and `RemainingAreReadable` (section 2).
- `"ai"` is one of the roles (`ConstantsAssumption` of `StreamPipeline`).
- One browser tab per thread. The guards of `App.jsx` keep a truncation from cutting under a streaming
  turn; they do not keep a question from being asked while a truncation is under way.
- One SSE event per chunk. The adapters turn a chunk into any number of events; the sequence number,
  which is what the subscription reasons about, is the chunk's.
- One retention batch at a time, and a cutoff at least a day old, so that no turn has stood between two
  super-steps since before it. A thread that wakes up while it is purged loses blobs of its new
  checkpoints: the code does not guard against that, and the properties speak of other threads.
- In the chat page, a user who sends, resets, deletes or bookmarks while an edit or a restore is under
  way acts on messages that are about to be replaced (`overlap`). The code lets him; no property survives it.
- A commit and the answer to it are one step where no fault intervenes; a lost answer is a fault.
- What `llm_thread.latest_status` shows may be older than the run: a status-only ending leaves it at
  pending, a retry at failed. `ThreadShowsTrueEnding` speaks of completed and cancelled only.
- A request task that is itself cancelled while it awaits inside `cancel_async` is not modelled, nor is a
  hash without a status, which the reaper's `HSET` would leave of a hash that expired at that instant.

## 7. Not modelled

Image conversion and upload, agent and model factories, prompts, token counting, hashing and signing,
rendering, speech, themes, and SQL text: no shared state, or conversions no property here is about.
Chat queries, debug views and the model catalogue read only. The renewal of a token is one comparison of
two times inside one request. Memos of bookmarks (their edits roll back over one another when
one fails), the reading of an orchestrator thread's history, and the creation of the checkpoint schema
at start-up are left out of otherwise modelled components. Legacy pages, fake graphs and compiled
leftovers are not part of the service.

## 8. Plan

Done, in this order: `JobRecord`, `JobLifecycle` with its proofs, `JobSubscription` (proofs last),
`ConversationSummary` with its proofs, `ThreadRuns` with its proofs, `StreamPipeline` with
`ResponsesAdapter`, `CheckpointRetention` with its proofs, `ChatPage`, then the proofs about `ChatPage` and
`StreamPipeline`. Next:

1. A premise for `ShownIsStored` that says which whole messages may follow pieces, and its proof.
2. An abstract specification of a thread as a register of runs, numbered in the order of their storing
   and one active at a time, and the refinement by `ThreadRuns`.
3. Memos of bookmarks, and the renewal of tokens.
