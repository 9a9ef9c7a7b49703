------------------------- MODULE CheckpointRetention -------------------------
(* The retention batch of the LangGraph checkpoints next to the turns that    *)
(* write them: checkpoint_retention_service.py, run by                        *)
(* checkpoint_retention_batch.py as a process of its own, once a day.  Every   *)
(* statement is a transaction, and turns move between any two of them.        *)
(*                                                                            *)
(* Turns are external (the saver of langgraph-checkpoint-postgres): a turn    *)
(* loads the newest checkpoint of its thread and namespace; each super-step   *)
(* then stores, in one transaction, a blob for every channel it updated and a *)
(* checkpoint that names one version of every channel.                        *)
EXTENDS Naturals, FiniteSets

CONSTANTS
    Thread,         \* thread_id
    Namespace,      \* checkpoint_ns
    Channel,        \* channels of the graph's state
    Turn,           \* turns and truncations that write checkpoints
    Keep,           \* keep_checkpoint_count
    ChunkSize,      \* delete_chunk_size
    MaxCheckpoint,  \* bound: checkpoints ever stored
    MaxFaults,      \* bound: batches that die
    None            \* no thread

(* __init__ refuses smaller ones. *)
ASSUME ConstantsAssumption ==
    /\ Keep \in Nat \ {0}
    /\ ChunkSize \in Nat \ {0}
    /\ MaxCheckpoint \in Nat
    /\ MaxFaults \in Nat
    /\ None \notin Thread \union Namespace

VARIABLES
    checkpoints,  \* rows of checkpoints: key and channel_versions
    blobs,        \* rows of checkpoint_blobs
    writes,       \* rows of checkpoint_writes; one stands for all of a checkpoint
    clock,        \* how many checkpoints there have been; checkpoint_id (uuid6) and ts follow it
    turn,         \* every turn
    batch,        \* the run of the batch in progress, and the next one after it
    half,         \* threads of a purge that died
    overtaken,    \* threads written to by a turn while they were deleted, or after
    revived,      \* auxiliary: values a turn has named when no checkpoint did any more
    faults        \* how many batches have died

vars == <<checkpoints, blobs, writes, clock, turn, batch, half, overtaken, revived, faults>>

(* A version string is a number and a random part, compared in this order;    *)
(* the mark of a version, unlike that of any other, stands for the latter.    *)
Version == [number: Nat, mark: Nat]
NoVersion == [number |-> 0, mark |-> 0]
Below(v, w) == v.number < w.number \/ (v.number = w.number /\ v.mark < w.mark)

Checkpoint == [thread: Thread, ns: Namespace, id: Nat, versions: [Channel -> Version]]
Blob == [thread: Thread, ns: Namespace, channel: Channel, version: Version]
Key == [thread: Thread, ns: Namespace, id: Nat]

PurgeStages == {"writes", "blobs", "checkpoints"}
Stages == PurgeStages \union
          {"ready", "excess", "excess_writes", "excess_checkpoints", "orphans", "orphan_blobs"}

(* No variable leaves its type; in particular a batch only ever deletes what  *)
(* a statement of its own has selected, and no checkpoint is newer than the   *)
(* clock.                                                                     *)
TypeOK ==
    /\ checkpoints \subseteq Checkpoint
    /\ blobs \subseteq Blob
    /\ writes \subseteq Key
    /\ clock \in 0..MaxCheckpoint
    /\ \A k \in checkpoints : k.id \in 1..clock
    /\ \A o \in blobs : o.version.mark \in 1..clock
    /\ turn \in [Turn -> [pc: {"idle", "loaded", "running"}, thread: Thread \union {None},
                          ns: Namespace \union {None}, base: 0..clock, versions: [Channel -> Version]]]
    /\ batch \in [pc: Stages, threads: SUBSET Thread, excess: SUBSET Key, orphans: SUBSET Blob]
    /\ half \subseteq Thread
    /\ overtaken \subseteq Thread
    /\ revived \subseteq Blob
    /\ faults \in 0..MaxFaults

NoVersions == [c \in Channel |-> NoVersion]
NoTurn == [pc |-> "idle", thread |-> None, ns |-> None, base |-> 0, versions |-> NoVersions]
Waiting == [pc |-> "ready", threads |-> {}, excess |-> {}, orphans |-> {}]

Init ==
    /\ checkpoints = {}
    /\ blobs = {}
    /\ writes = {}
    /\ clock = 0
    /\ turn = [x \in Turn |-> NoTurn]
    /\ batch = Waiting
    /\ half = {}
    /\ overtaken = {}
    /\ revived = {}
    /\ faults = 0

-------------------------------------------------------------------------------
(* Rows                                                                       *)

(* The partition of the ranking and of the minimum: thread_id, checkpoint_ns. *)
SameSpace(r, s) == r.thread = s.thread /\ r.ns = s.ns

KeyOf(k) == [thread |-> k.thread, ns |-> k.ns, id |-> k.id]

Newer(k) == {l \in checkpoints : SameSpace(l, k) /\ l.id > k.id}

(* Mutants: rows instead of their keys; ranked over all namespaces.           *)
ExcessRows == {l \in checkpoints : Cardinality(Newer(l)) >= Keep}
ExcessOfThread ==
    {KeyOf(k) : k \in {l \in checkpoints :
        Cardinality({m \in checkpoints : m.thread = l.thread /\ m.id > l.id}) >= Keep}}

(* SELECT_EXCESS_CHECKPOINT_SQL without its LIMIT: recency_rank > keep.       *)
Excess == {KeyOf(k) : k \in {l \in checkpoints : Cardinality(Newer(l)) >= Keep}}

(* SELECT_ORPHAN_BLOB_SQL without its LIMIT: below the minimum version that   *)
(* the remaining checkpoints name for the channel.  The join drops channels   *)
(* that none of them names.                                                   *)
Naming(o) == {k \in checkpoints : SameSpace(k, o) /\ k.versions[o.channel] # NoVersion}

(* Mutant: below the maximum.                                                 *)
OrphansOfNewest == {o \in blobs : \E k \in Naming(o) : Below(o.version, k.versions[o.channel])}

Orphans == {o \in blobs : Naming(o) # {} /\ \A k \in Naming(o) : Below(o.version, k.versions[o.channel])}

(* SELECT_IDLE_THREAD_SQL: the newest ts, over all namespaces, is older than  *)
(* the cutoff.                                                                *)
IdleThreads(cutoff) ==
    {t \in Thread : /\ \E k \in checkpoints : k.thread = t
                    /\ \A k \in checkpoints : k.thread = t => k.id < cutoff}

(* What one statement with a LIMIT takes of the rows that match.              *)
IsChunk(D, rows) ==
    /\ D \subseteq rows
    /\ Cardinality(D) <= ChunkSize
    /\ D = rows \/ Cardinality(D) = ChunkSize

RowsOf(rows, threads) == {r \in rows : r.thread \in threads}

(* Is the batch deleting this thread?                                         *)
Listed(t) == batch.pc \in PurgeStages /\ t \in batch.threads

-------------------------------------------------------------------------------
(* Turns                                                                      *)

(* A write that lands on a thread that a purge is deleting, or of which one   *)
(* has left no checkpoint.                                                    *)
Overtakes(x) ==
    \/ Listed(turn[x].thread)
    \/ turn[x].base # 0 /\ RowsOf(checkpoints, {turn[x].thread}) = {}
Mark(x) == overtaken' = IF Overtakes(x) THEN overtaken \union {turn[x].thread} ELSE overtaken

(* aget_tuple at the start of a turn.                                         *)
LoadCheckpoint(x, t, n) ==
    /\ turn[x].pc = "idle"
    /\ LET rows == {k \in checkpoints : k.thread = t /\ k.ns = n}
       IN  \/ /\ rows = {}
              /\ turn' = [turn EXCEPT ![x] = [pc |-> "loaded", thread |-> t, ns |-> n,
                                                base |-> 0, versions |-> NoVersions]]
           \/ \E k \in rows :
                /\ \A l \in rows : l.id <= k.id
                /\ turn' = [turn EXCEPT ![x] = [pc |-> "loaded", thread |-> t, ns |-> n,
                                                base |-> k.id, versions |-> k.versions]]
    /\ UNCHANGED <<checkpoints, blobs, writes, clock, batch, half, overtaken, revived, faults>>

(* aput after a super-step that updated some channels: they all get the number *)
(* after the highest that the turn knows.                                      *)
Updates == (SUBSET Channel) \ {{}}

IsHighest(c, versions) == \A d \in Channel : versions[d].number <= versions[c].number

Value(k, c) == [thread |-> k.thread, ns |-> k.ns, channel |-> c, version |-> k.versions[c]]

(* The values a turn carries on that no checkpoint names: the batch has        *)
(* deleted those that did, and may have deleted, or selected, their blobs.     *)
Unnamed(x) ==
    {o \in {Value(turn[x], c) : c \in Channel} :
        /\ o.version # NoVersion
        /\ \A k \in checkpoints : Value(k, o.channel) # o}

PutCheckpoint(x, updated, highest) ==
    /\ turn[x].pc # "idle"
    /\ clock < MaxCheckpoint
    /\ IsHighest(highest, turn[x].versions)
    /\ LET t == turn[x].thread
           n == turn[x].ns
           v == [number |-> turn[x].versions[highest].number + 1, mark |-> clock + 1]
           versions == [c \in Channel |-> IF c \in updated THEN v ELSE turn[x].versions[c]]
       IN  /\ blobs' = blobs \union {[thread |-> t, ns |-> n, channel |-> c, version |-> v] : c \in updated}
           /\ checkpoints' = checkpoints \union {[thread |-> t, ns |-> n, id |-> clock + 1, versions |-> versions]}
           /\ turn' = [turn EXCEPT ![x] = [pc |-> "running", thread |-> t, ns |-> n,
                                           base |-> clock + 1, versions |-> versions]]
    /\ clock' = clock + 1
    /\ revived' = revived \union {o \in Unnamed(x) : o.channel \notin updated}
    /\ Mark(x)
    /\ UNCHANGED <<writes, batch, half, faults>>

(* aput_writes: what the tasks of the super-step in progress produced, stored *)
(* under the checkpoint the step started from.  The first of a turn is that   *)
(* of its input.                                                              *)
PutWrites(x) ==
    /\ turn[x].pc = "running"
    /\ writes' = writes \union {[thread |-> turn[x].thread, ns |-> turn[x].ns, id |-> turn[x].base]}
    /\ Mark(x)
    /\ UNCHANGED <<checkpoints, blobs, clock, turn, batch, half, revived, faults>>

EndTurn(x) ==
    /\ turn[x].pc = "running"
    /\ turn' = [turn EXCEPT ![x] = NoTurn]
    /\ UNCHANGED <<checkpoints, blobs, writes, clock, batch, half, overtaken, revived, faults>>

-------------------------------------------------------------------------------
(* purge_idle_threads_async                                                   *)

(* The cutoff is at least a day ago: no turn has been between two of its      *)
(* super-steps since before it.                                               *)
ListIdleThreads(cutoff) ==
    /\ batch.pc = "ready"
    /\ \A x \in Turn : turn[x].pc = "running" => cutoff <= turn[x].base
    /\ batch' = [batch EXCEPT !.pc = "writes", !.threads = IdleThreads(cutoff)]
    /\ UNCHANGED <<checkpoints, blobs, writes, clock, turn, half, overtaken, revived, faults>>

(* Mutant: the blobs left to the prune.                                       *)
NextStageWithoutBlobs(table) == "checkpoints"

(* The tables in the order of their deletion.                                 *)
NextStage(table) == IF table = "writes" THEN "blobs" ELSE "checkpoints"

(* One bounded DELETE; a full chunk may have left rows behind.                *)
PurgeAs(D, rows, table) ==
    /\ batch.pc = table
    /\ IsChunk(D, rows)
    /\ batch' = IF Cardinality(D) = ChunkSize THEN batch
                ELSE IF table = "checkpoints" THEN [Waiting EXCEPT !.pc = "excess"]
                ELSE [batch EXCEPT !.pc = NextStage(table)]

PurgeWrites(D) ==
    /\ PurgeAs(D, RowsOf(writes, batch.threads), "writes")
    /\ writes' = writes \ D
    /\ UNCHANGED <<checkpoints, blobs, clock, turn, half, overtaken, revived, faults>>

PurgeBlobs(D) ==
    /\ PurgeAs(D, RowsOf(blobs, batch.threads), "blobs")
    /\ blobs' = blobs \ D
    /\ UNCHANGED <<checkpoints, writes, clock, turn, half, overtaken, revived, faults>>

(* A thread of which nothing is left starts afresh.                           *)
Vanished(t, rows) == RowsOf(rows, {t}) = {} /\ RowsOf(blobs, {t}) = {} /\ RowsOf(writes, {t}) = {}

PurgeCheckpoints(D) ==
    /\ PurgeAs(D, RowsOf(checkpoints, batch.threads), "checkpoints")
    /\ checkpoints' = checkpoints \ D
    /\ half' = {t \in half : ~ Vanished(t, checkpoints \ D)}
    /\ overtaken' = {t \in overtaken : ~ Vanished(t, checkpoints \ D)}
    /\ UNCHANGED <<blobs, writes, clock, turn, revived, faults>>

-------------------------------------------------------------------------------
(* prune_excess_checkpoints_async                                             *)

SelectExcess(D) ==
    /\ batch.pc = "excess"
    /\ IsChunk(D, Excess)
    /\ batch' = [batch EXCEPT !.pc = IF D = {} THEN "orphans" ELSE "excess_writes", !.excess = D]
    /\ UNCHANGED <<checkpoints, blobs, writes, clock, turn, half, overtaken, revived, faults>>

DeleteWrites ==
    /\ batch.pc = "excess_writes"
    /\ writes' = writes \ batch.excess
    /\ batch' = [batch EXCEPT !.pc = "excess_checkpoints"]
    /\ UNCHANGED <<checkpoints, blobs, clock, turn, half, overtaken, revived, faults>>

DeleteCheckpoints ==
    /\ batch.pc = "excess_checkpoints"
    /\ checkpoints' = {k \in checkpoints : KeyOf(k) \notin batch.excess}
    /\ batch' = [batch EXCEPT !.pc = "excess", !.excess = {}]
    /\ UNCHANGED <<blobs, writes, clock, turn, half, overtaken, revived, faults>>

SelectOrphans(D) ==
    /\ batch.pc = "orphans"
    /\ IsChunk(D, Orphans)
    /\ batch' = [batch EXCEPT !.pc = IF D = {} THEN "ready" ELSE "orphan_blobs", !.orphans = D]
    /\ UNCHANGED <<checkpoints, blobs, writes, clock, turn, half, overtaken, revived, faults>>

DeleteBlobs ==
    /\ batch.pc = "orphan_blobs"
    /\ blobs' = blobs \ batch.orphans
    /\ batch' = [batch EXCEPT !.pc = "orphans", !.orphans = {}]
    /\ UNCHANGED <<checkpoints, writes, clock, turn, half, overtaken, revived, faults>>

(* A statement raises, or the process dies: the batch ends with exit code 1.  *)
BatchFails ==
    /\ faults < MaxFaults
    /\ batch.pc # "ready"
    /\ half' = IF batch.pc \in PurgeStages THEN half \union batch.threads ELSE half
    /\ batch' = Waiting
    /\ faults' = faults + 1
    /\ UNCHANGED <<checkpoints, blobs, writes, clock, turn, overtaken, revived>>

-------------------------------------------------------------------------------
TurnStep(x) ==
    \/ \E t \in Thread, n \in Namespace : LoadCheckpoint(x, t, n)
    \/ \E updated \in Updates, highest \in Channel : PutCheckpoint(x, updated, highest)
    \/ PutWrites(x)
    \/ EndTurn(x)

BatchStep ==
    \/ \E cutoff \in 0..clock + 1 : ListIdleThreads(cutoff)
    \/ \E D \in SUBSET writes : PurgeWrites(D)
    \/ \E D \in SUBSET blobs : PurgeBlobs(D)
    \/ \E D \in SUBSET checkpoints : PurgeCheckpoints(D)
    \/ \E D \in SUBSET Excess : SelectExcess(D)
    \/ DeleteWrites
    \/ DeleteCheckpoints
    \/ \E D \in SUBSET Orphans : SelectOrphans(D)
    \/ DeleteBlobs
    \/ BatchFails

Next == (\E x \in Turn : TurnStep(x)) \/ BatchStep

Spec == Init /\ [][Next]_vars

-------------------------------------------------------------------------------
(* Threads that no purge is deleting, has left half deleted, or has deleted   *)
(* under a turn.                                                              *)
Undisturbed(t) == t \notin half \union overtaken /\ ~ Listed(t)

(* Every remaining checkpoint finds the value of each of its channels: what a *)
(* prune takes for an orphan is named by no checkpoint, nor by one that a     *)
(* turn stores before the blob is deleted.  Outside of this are               *)
(* - the threads a purge has disturbed, which the service does not protect;   *)
(* - the values a turn carries on from a checkpoint that the batch has        *)
(*   deleted under it and names again when no other checkpoint does.  The     *)
(*   minimum of SELECT_ORPHAN_BLOB_SQL does not see what a running turn       *)
(*   holds, so their blobs may be gone, and their checkpoint unreadable:      *)
(*   it takes Keep newer checkpoints of another turn of the same thread.      *)
(* A turn that carries on what some checkpoint still names, and any turn whose *)
(* base is there, is covered.                                                 *)
RemainingAreReadable ==
    \A k \in checkpoints : Undisturbed(k.thread) =>
        \A c \in Channel : k.versions[c] # NoVersion => Value(k, c) \in blobs \union revived

(* Blobs and writes of a thread never outlive its checkpoints, by which       *)
(* SELECT_IDLE_THREAD_SQL would find them: a purge that dies between two      *)
(* statements can be taken up by the next batch.  (A turn that writes while   *)
(* the purge deletes can leave rows that no batch ever finds.)                *)
LeftoversAreFound ==
    \A r \in blobs \union writes :
        r.thread \in overtaken \/ \E k \in checkpoints : k.thread = r.thread

(* A checkpoint only goes when its thread is purged, or when Keep newer ones  *)
(* of its namespace are there to resume from: nothing that turns do between   *)
(* the selection and the deletion brings it back into the newest.             *)
NewestAreKept ==
    [][\A k \in checkpoints \ checkpoints' :
           Listed(k.thread) \/ Cardinality(Newer(k) \intersect checkpoints') >= Keep]_vars
=============================================================================
