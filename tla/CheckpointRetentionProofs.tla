---------------------- MODULE CheckpointRetentionProofs ----------------------
(***************************************************************************)
(* What TLAPS proves of CheckpointRetention, for any number of threads,    *)
(* namespaces, channels, turns and failures, and any Keep and ChunkSize.   *)
(***************************************************************************)
EXTENDS CheckpointRetention, FiniteSetTheorems, WellFoundedInduction, TLAPS

USE ConstantsAssumption

-----------------------------------------------------------------------------
(* A turn that is under way knows its thread, and a running one the          *)
(* checkpoint it has stored.                                                 *)
TurnsRemember ==
    \A x \in Turn : turn[x].pc # "idle" =>
        /\ turn[x].thread \in Thread /\ turn[x].ns \in Namespace
        /\ turn[x].pc = "running" => turn[x].base # 0

(* A selected blob stays unnamed until it is deleted, or is revived. *)
OrphansStayOrphans ==
    /\ batch.orphans # {} => batch.pc = "orphan_blobs"
    /\ \A o \in batch.orphans : o.version.mark \in 1..clock
    /\ \A o \in batch.orphans, k \in checkpoints : Value(k, o.channel) = o => o \in revived

(* What the purge has done so far: rows of the tables behind it have been *)
(* written since, by a turn.                                              *)
PurgedSoFar ==
    /\ batch.pc \in {"blobs", "checkpoints"} =>
          \A w \in writes : w.thread \in batch.threads => w.thread \in overtaken
    /\ batch.pc = "checkpoints" =>
          \A o \in blobs : o.thread \in batch.threads => o.thread \in overtaken

(* The newer rows of a namespace that the selection in progress leaves. *)
Spared(e) == {k \in checkpoints : SameSpace(k, e) /\ k.id > e.id /\ KeyOf(k) \notin batch.excess}

ExcessStaysExcess ==
    /\ IsFiniteSet(checkpoints)
    /\ batch.excess # {} => batch.pc \in {"excess_writes", "excess_checkpoints"}
    /\ \A e \in batch.excess : Cardinality(Spared(e)) >= Keep

IInv ==
    /\ TypeOK
    /\ TurnsRemember
    /\ OrphansStayOrphans
    /\ RemainingAreReadable
    /\ PurgedSoFar
    /\ ExcessStaysExcess
    /\ LeftoversAreFound

-----------------------------------------------------------------------------
(* Types *)

TurnRecord == [pc: {"idle", "loaded", "running"}, thread: Thread \union {None},
               ns: Namespace \union {None}, base: 0..clock, versions: [Channel -> Version]]

LEMMA NothingType ==
    /\ NoVersions \in [Channel -> Version]
    /\ \A c \in Channel : NoVersions[c] = NoVersion
    /\ Waiting \in [pc: Stages, threads: SUBSET Thread, excess: SUBSET Key, orphans: SUBSET Blob]
  BY DEF NoVersions, NoVersion, Version, Waiting, Stages, PurgeStages

LEMMA KeyType ==
    ASSUME NEW k \in Checkpoint
    PROVE  /\ KeyOf(k) \in Key
           /\ KeyOf(k).thread = k.thread /\ KeyOf(k).ns = k.ns /\ KeyOf(k).id = k.id
  BY DEF Checkpoint, Key, KeyOf

LEMMA InitType == Init => TypeOK
  BY NothingType DEF Init, TypeOK, NoTurn, Waiting

(* The rows a turn stores for a super-step. *)
NextVersion(x, highest) == [number |-> turn[x].versions[highest].number + 1, mark |-> clock + 1]
NextVersions(x, updated, highest) ==
    [c \in Channel |-> IF c \in updated THEN NextVersion(x, highest) ELSE turn[x].versions[c]]
NextBlobs(x, updated, highest) ==
    {[thread |-> turn[x].thread, ns |-> turn[x].ns, channel |-> c, version |-> NextVersion(x, highest)]
        : c \in updated}
NextCheckpoint(x, updated, highest) ==
    [thread |-> turn[x].thread, ns |-> turn[x].ns, id |-> clock + 1,
     versions |-> NextVersions(x, updated, highest)]
NextTurn(x, updated, highest) ==
    [pc |-> "running", thread |-> turn[x].thread, ns |-> turn[x].ns, base |-> clock + 1,
     versions |-> NextVersions(x, updated, highest)]

LEMMA PutIsAs ==
    ASSUME NEW x \in Turn, NEW updated \in Updates, NEW highest \in Channel,
           PutCheckpoint(x, updated, highest)
    PROVE  /\ blobs' = blobs \union NextBlobs(x, updated, highest)
           /\ checkpoints' = checkpoints \union {NextCheckpoint(x, updated, highest)}
           /\ turn' = [turn EXCEPT ![x] = NextTurn(x, updated, highest)]
           /\ clock' = clock + 1
  BY DEF PutCheckpoint, NextBlobs, NextCheckpoint, NextTurn, NextVersions, NextVersion

LEMMA PutType ==
    ASSUME TypeOK, TurnsRemember, NEW x \in Turn, NEW updated \in Updates,
           NEW highest \in Channel, PutCheckpoint(x, updated, highest)
    PROVE  /\ NextVersion(x, highest) \in Version
           /\ NextVersion(x, highest) # NoVersion
           /\ NextVersions(x, updated, highest) \in [Channel -> Version]
           /\ NextBlobs(x, updated, highest) \subseteq Blob
           /\ NextCheckpoint(x, updated, highest) \in Checkpoint
           /\ NextTurn(x, updated, highest) \in TurnRecord'
           /\ clock' \in 0..MaxCheckpoint
           /\ overtaken' \subseteq Thread
           /\ revived' \subseteq Blob
<1>1. turn[x] \in TurnRecord /\ clock \in Nat /\ turn[x].versions \in [Channel -> Version]
  BY DEF TypeOK, TurnRecord
<1>2. turn[x].thread \in Thread /\ turn[x].ns \in Namespace
  BY DEF TurnsRemember, PutCheckpoint
<1>3. NextVersion(x, highest) \in Version /\ NextVersion(x, highest) # NoVersion
  BY <1>1 DEF NextVersion, Version, NoVersion
<1>4. NextVersions(x, updated, highest) \in [Channel -> Version]
  BY <1>1, <1>3 DEF NextVersions
<1>5. clock' \in 0..MaxCheckpoint /\ clock' = clock + 1
  BY <1>1 DEF PutCheckpoint, TypeOK
<1>6. NextBlobs(x, updated, highest) \subseteq Blob
  BY <1>2, <1>3 DEF NextBlobs, Blob, Updates
<1>7. NextCheckpoint(x, updated, highest) \in Checkpoint
  BY <1>1, <1>2, <1>4 DEF NextCheckpoint, Checkpoint
<1>8. NextTurn(x, updated, highest) \in TurnRecord'
  BY <1>1, <1>2, <1>4, <1>5 DEF NextTurn, TurnRecord
<1>9. overtaken' \subseteq Thread
  BY <1>2 DEF PutCheckpoint, Mark, TypeOK
<1>10. revived' \subseteq Blob
  <2>1. \A c \in Channel : Value(turn[x], c) \in Blob
    BY <1>1, <1>2 DEF Value, Blob
  <2>2. Unnamed(x) \subseteq Blob
    BY <2>1 DEF Unnamed
  <2>3. QED BY <2>2 DEF PutCheckpoint, TypeOK
<1>11. QED BY <1>3, <1>4, <1>5, <1>6, <1>7, <1>8, <1>9, <1>10

LEMMA TurnStepType ==
    ASSUME TypeOK, TurnsRemember, NEW x \in Turn, TurnStep(x)
    PROVE  TypeOK'
<1>1. ASSUME NEW t \in Thread, NEW n \in Namespace, LoadCheckpoint(x, t, n)
      PROVE  TypeOK'
  <2>1. PICK r \in TurnRecord : turn' = [turn EXCEPT ![x] = r]
    <3>1. [pc |-> "loaded", thread |-> t, ns |-> n, base |-> 0, versions |-> NoVersions] \in TurnRecord
      BY NothingType DEF TurnRecord, TypeOK
    <3>2. ASSUME NEW k \in checkpoints
          PROVE  [pc |-> "loaded", thread |-> t, ns |-> n, base |-> k.id, versions |-> k.versions]
                    \in TurnRecord
      BY DEF TurnRecord, TypeOK, Checkpoint
    <3>3. QED BY <1>1, <3>1, <3>2 DEF LoadCheckpoint
  <2>2. turn' \in [Turn -> TurnRecord]
    BY <2>1 DEF TypeOK, TurnRecord
  <2>3. QED BY <1>1, <2>2 DEF LoadCheckpoint, TypeOK, TurnRecord
<1>2. ASSUME NEW updated \in Updates, NEW highest \in Channel,
             PutCheckpoint(x, updated, highest)
      PROVE  TypeOK'
  <2>1. checkpoints' \subseteq Checkpoint /\ blobs' \subseteq Blob
    BY <1>2, PutIsAs, PutType DEF TypeOK
  <2>2. clock' = clock + 1 /\ clock \in Nat
    BY <1>2, PutIsAs DEF TypeOK
  <2>3. \A k \in checkpoints' : k.id \in 1..clock'
    <3>1. NextCheckpoint(x, updated, highest).id = clock + 1
      BY DEF NextCheckpoint
    <3>2. QED BY <1>2, <2>2, <3>1, PutIsAs DEF TypeOK
  <2>4. \A o \in blobs' : o.version.mark \in 1..clock'
    <3>1. \A o \in NextBlobs(x, updated, highest) : o.version.mark = clock + 1
      BY DEF NextBlobs, NextVersion
    <3>2. QED BY <1>2, <2>2, <3>1, PutIsAs DEF TypeOK
  <2>5. turn' \in [Turn -> TurnRecord']
    <3>1. TurnRecord \subseteq TurnRecord'
      BY <2>2 DEF TurnRecord
    <3>2. turn \in [Turn -> TurnRecord']
      BY <3>1 DEF TypeOK, TurnRecord
    <3>3. QED BY <1>2, <3>2, PutIsAs, PutType
  <2>6. clock' \in 0..MaxCheckpoint /\ overtaken' \subseteq Thread /\ revived' \subseteq Blob
    BY <1>2, PutType
  <2>7. writes' = writes /\ batch' = batch /\ half' = half /\ faults' = faults
    BY <1>2 DEF PutCheckpoint
  <2>8. QED BY <2>1, <2>3, <2>4, <2>5, <2>6, <2>7 DEF TypeOK, TurnRecord
<1>3. CASE PutWrites(x)
  <2>1. turn[x] \in TurnRecord /\ turn[x].thread \in Thread /\ turn[x].ns \in Namespace
    BY <1>3 DEF TypeOK, TurnRecord, TurnsRemember, PutWrites
  <2>2. [thread |-> turn[x].thread, ns |-> turn[x].ns, id |-> turn[x].base] \in Key
    BY <2>1 DEF Key, TurnRecord, TypeOK
  <2>3. writes' \subseteq Key /\ overtaken' \subseteq Thread
    BY <1>3, <2>1, <2>2 DEF PutWrites, Mark, TypeOK
  <2>4. QED BY <1>3, <2>3 DEF PutWrites, TypeOK
<1>4. CASE EndTurn(x)
  <2>1. NoTurn \in TurnRecord
    BY NothingType DEF NoTurn, TurnRecord, TypeOK
  <2>2. turn' \in [Turn -> TurnRecord]
    BY <1>4, <2>1 DEF EndTurn, TypeOK, TurnRecord
  <2>3. QED BY <1>4, <2>2 DEF EndTurn, TypeOK, TurnRecord
<1>5. QED BY <1>1, <1>2, <1>3, <1>4 DEF TurnStep

LEMMA BatchStepType ==
    ASSUME TypeOK, BatchStep
    PROVE  TypeOK'
<1>1. \A k \in checkpoints : k \in Checkpoint /\ KeyOf(k) \in Key
  BY KeyType DEF TypeOK
<1>2. ASSUME NEW cutoff \in 0..clock + 1, ListIdleThreads(cutoff)
      PROVE  TypeOK'
  <2>1. IdleThreads(cutoff) \subseteq Thread
    BY DEF IdleThreads
  <2>2. QED BY <1>2, <2>1 DEF ListIdleThreads, TypeOK, Stages, PurgeStages
<1>3. ASSUME NEW D, NEW rows, NEW table \in PurgeStages, PurgeAs(D, rows, table)
      PROVE  batch' \in [pc: Stages, threads: SUBSET Thread, excess: SUBSET Key, orphans: SUBSET Blob]
  BY <1>3, NothingType DEF PurgeAs, TypeOK, NextStage, Stages, PurgeStages, Waiting
<1>4. ASSUME NEW D \in SUBSET writes, PurgeWrites(D)
      PROVE  TypeOK'
  BY <1>3, <1>4 DEF PurgeWrites, PurgeStages, TypeOK
<1>5. ASSUME NEW D \in SUBSET blobs, PurgeBlobs(D)
      PROVE  TypeOK'
  BY <1>3, <1>5 DEF PurgeBlobs, PurgeStages, TypeOK
<1>6. ASSUME NEW D \in SUBSET checkpoints, PurgeCheckpoints(D)
      PROVE  TypeOK'
  BY <1>3, <1>6 DEF PurgeCheckpoints, PurgeStages, TypeOK
<1>7. ASSUME NEW D \in SUBSET Excess, SelectExcess(D)
      PROVE  TypeOK'
  <2>1. D \subseteq Key
    BY <1>1 DEF Excess
  <2>2. QED BY <1>7, <2>1 DEF SelectExcess, TypeOK, Stages
<1>8. CASE DeleteWrites
  BY <1>8 DEF DeleteWrites, TypeOK, Stages
<1>9. CASE DeleteCheckpoints
  BY <1>9 DEF DeleteCheckpoints, TypeOK, Stages
<1>10. ASSUME NEW D \in SUBSET Orphans, SelectOrphans(D)
       PROVE  TypeOK'
  <2>1. D \subseteq Blob
    BY DEF Orphans, TypeOK
  <2>2. QED BY <1>10, <2>1 DEF SelectOrphans, TypeOK, Stages
<1>11. CASE DeleteBlobs
  BY <1>11 DEF DeleteBlobs, TypeOK, Stages
<1>12. CASE BatchFails
  BY <1>12, NothingType DEF BatchFails, TypeOK
<1>13. QED
  BY <1>2, <1>4, <1>5, <1>6, <1>7, <1>8, <1>9, <1>10, <1>11, <1>12 DEF BatchStep

-----------------------------------------------------------------------------
(* What a turn remembers *)

LEMMA TurnsRememberKept ==
    ASSUME TypeOK, TurnsRemember, [Next]_vars
    PROVE  TurnsRemember'
<1>1. CASE turn' = turn
  BY <1>1 DEF TurnsRemember
<1>2. ASSUME NEW x \in Turn, NEW r, turn' = [turn EXCEPT ![x] = r],
             r.pc # "idle" => /\ r.thread \in Thread /\ r.ns \in Namespace
                              /\ r.pc = "running" => r.base # 0
      PROVE  TurnsRemember'
  BY <1>2 DEF TurnsRemember, TypeOK
<1>3. ASSUME NEW x \in Turn, NEW t \in Thread, NEW n \in Namespace, LoadCheckpoint(x, t, n)
      PROVE  TurnsRemember'
  BY <1>2, <1>3 DEF LoadCheckpoint
<1>4. ASSUME NEW x \in Turn, NEW updated \in Updates, NEW highest \in Channel,
             PutCheckpoint(x, updated, highest)
      PROVE  TurnsRemember'
  <2>1. turn' = [turn EXCEPT ![x] = NextTurn(x, updated, highest)] /\ turn[x].pc # "idle"
    BY <1>4, PutIsAs DEF PutCheckpoint
  <2>2. NextTurn(x, updated, highest).base # 0
    BY DEF NextTurn, TypeOK
  <2>3. /\ NextTurn(x, updated, highest).thread \in Thread
        /\ NextTurn(x, updated, highest).ns \in Namespace
    BY <2>1 DEF NextTurn, TurnsRemember
  <2>4. QED BY <1>2, <2>1, <2>2, <2>3
<1>5. ASSUME NEW x \in Turn, EndTurn(x)
      PROVE  TurnsRemember'
  BY <1>2, <1>5 DEF EndTurn, NoTurn
<1>6. QED
  BY <1>1, <1>3, <1>4, <1>5 DEF Next, vars, TurnStep, PutWrites,
        BatchStep, ListIdleThreads, PurgeWrites, PurgeBlobs, PurgeCheckpoints, SelectExcess,
        DeleteWrites, DeleteCheckpoints, SelectOrphans, DeleteBlobs, BatchFails

-----------------------------------------------------------------------------
(* Reading the checkpoints *)

(* The values a new checkpoint names are stored with it, or named by another *)
(* checkpoint, or revived.                                                   *)
LEMMA NewCheckpointNames ==
    ASSUME NEW x \in Turn, NEW updated \in Updates, NEW highest \in Channel,
           PutCheckpoint(x, updated, highest),
           NEW new, new = NextCheckpoint(x, updated, highest),
           NEW c \in Channel, new.versions[c] # NoVersion
    PROVE  \/ Value(new, c) \in blobs' /\ new.versions[c].mark = clock + 1
           \/ Value(new, c) \in revived'
           \/ \E k \in checkpoints : Value(k, c) = Value(new, c)
<1>1. /\ new.thread = turn[x].thread /\ new.ns = turn[x].ns
      /\ new.versions[c] = IF c \in updated THEN NextVersion(x, highest) ELSE turn[x].versions[c]
  BY DEF NextCheckpoint, NextVersions
<1>2. CASE c \in updated
  <2>1. new.versions[c] = NextVersion(x, highest) /\ new.versions[c].mark = clock + 1
    BY <1>1, <1>2 DEF NextVersion
  <2>2. Value(new, c) \in NextBlobs(x, updated, highest)
    BY <1>1, <1>2, <2>1 DEF NextBlobs, Value
  <2>3. QED BY <2>1, <2>2, PutIsAs
<1>3. CASE c \notin updated
  <2>1. Value(turn[x], c) = Value(new, c)
    BY <1>1, <1>3 DEF Value
  <2>2. Value(new, c).version # NoVersion /\ Value(new, c).channel = c
    BY DEF Value
  <2>3. ASSUME \A k \in checkpoints : Value(k, c) # Value(new, c)
        PROVE  Value(new, c) \in revived'
    <3>1. Value(new, c) \in Unnamed(x)
      BY <2>1, <2>2, <2>3 DEF Unnamed
    <3>2. QED BY <1>3, <2>2, <3>1 DEF PutCheckpoint
  <2>4. QED BY <2>3
<1>4. QED BY <1>2, <1>3

(* Nothing makes a thread undisturbed but the end of its purge, which leaves *)
(* no checkpoint of it.                                                      *)
LEMMA UndisturbedBefore ==
    ASSUME TypeOK, [Next]_vars, NEW k \in checkpoints', k \in checkpoints, Undisturbed(k.thread)'
    PROVE  Undisturbed(k.thread)
<1> DEFINE t == k.thread
<1>1. CASE UNCHANGED vars
  BY <1>1 DEF vars, Undisturbed, Listed
<1>2. ASSUME half' = half, overtaken \subseteq overtaken',
             batch' = batch \/ batch.pc \notin PurgeStages \/
                (batch'.pc \in PurgeStages /\ batch'.threads = batch.threads)
      PROVE  Undisturbed(t)
  BY <1>2 DEF Undisturbed, Listed
<1>3. ASSUME NEW x \in Turn, TurnStep(x)
      PROVE  Undisturbed(t)
  BY <1>2, <1>3 DEF TurnStep, LoadCheckpoint, PutCheckpoint, PutWrites, EndTurn, Mark
<1>4. ASSUME NEW D, NEW rows, NEW table \in {"writes", "blobs"}, PurgeAs(D, rows, table),
             half' = half, overtaken' = overtaken
      PROVE  Undisturbed(t)
  <2>1. batch' = batch \/ batch' = [batch EXCEPT !.pc = NextStage(table)]
    BY <1>4 DEF PurgeAs
  <2>2. batch'.pc \in PurgeStages /\ batch'.threads = batch.threads
    BY <1>4, <2>1 DEF PurgeAs, PurgeStages, NextStage, TypeOK
  <2>3. QED BY <1>2, <1>4, <2>2
<1>5. ASSUME NEW D \in SUBSET checkpoints, PurgeCheckpoints(D)
      PROVE  Undisturbed(t)
  <2>1. k \in checkpoints \ D
    BY <1>5 DEF PurgeCheckpoints
  <2>2. ~ Vanished(t, checkpoints \ D)
    BY <2>1 DEF Vanished, RowsOf
  <2>3. t \notin half \union overtaken
    BY <1>5, <2>2 DEF PurgeCheckpoints, Undisturbed
  <2>4. CASE Cardinality(D) = ChunkSize
    BY <1>5, <2>3, <2>4 DEF PurgeCheckpoints, PurgeAs, Undisturbed, Listed
  <2>5. CASE Cardinality(D) # ChunkSize
    <3>1. D = RowsOf(checkpoints, batch.threads)
      BY <1>5, <2>5 DEF PurgeCheckpoints, PurgeAs, IsChunk
    <3>2. t \notin batch.threads
      BY <2>1, <3>1 DEF RowsOf
    <3>3. QED BY <2>3, <3>2 DEF Undisturbed, Listed
  <2>6. QED BY <2>4, <2>5
<1>6. CASE BatchFails
  BY <1>6 DEF BatchFails, Undisturbed, Listed
<1>7. CASE BatchStep
  <2>1. ASSUME NEW cutoff \in 0..clock + 1, ListIdleThreads(cutoff)
        PROVE  Undisturbed(t)
    BY <1>2, <2>1 DEF ListIdleThreads, PurgeStages
  <2>2. ASSUME NEW D \in SUBSET writes, PurgeWrites(D)
        PROVE  Undisturbed(t)
    BY <1>4, <2>2 DEF PurgeWrites
  <2>3. ASSUME NEW D \in SUBSET blobs, PurgeBlobs(D)
        PROVE  Undisturbed(t)
    BY <1>4, <2>3 DEF PurgeBlobs
  <2>4. CASE \/ \E D \in SUBSET Excess : SelectExcess(D)
             \/ DeleteWrites
             \/ DeleteCheckpoints
             \/ \E D \in SUBSET Orphans : SelectOrphans(D)
             \/ DeleteBlobs
    BY <1>2, <2>4 DEF SelectExcess, DeleteWrites, DeleteCheckpoints, SelectOrphans, DeleteBlobs,
          PurgeStages
  <2>5. QED BY <1>5, <1>6, <1>7, <2>1, <2>2, <2>3, <2>4 DEF BatchStep
<1>8. QED BY <1>1, <1>3, <1>7 DEF Next

LEMMA RevivedGrows ==
    ASSUME [Next]_vars
    PROVE  revived \subseteq revived'
  BY DEF Next, vars, TurnStep, LoadCheckpoint, PutCheckpoint, PutWrites, EndTurn,
        BatchStep, ListIdleThreads, PurgeWrites, PurgeBlobs, PurgeCheckpoints, SelectExcess, DeleteWrites,
        DeleteCheckpoints, SelectOrphans, DeleteBlobs, BatchFails

LEMMA RemainingAreReadableKept ==
    ASSUME TypeOK, TurnsRemember, OrphansStayOrphans, RemainingAreReadable, [Next]_vars
    PROVE  RemainingAreReadable'
<1>1. ASSUME NEW k \in checkpoints, k \in checkpoints', Undisturbed(k.thread)',
             NEW c \in Channel, k.versions[c] # NoVersion
      PROVE  Value(k, c) \in blobs' \union revived'
  <2>1. Undisturbed(k.thread) /\ Value(k, c) \in blobs \union revived
    BY <1>1, UndisturbedBefore DEF RemainingAreReadable
  <2> SUFFICES ASSUME Value(k, c) \in blobs, Value(k, c) \notin revived
               PROVE  Value(k, c) \in blobs'
    BY <2>1, RevivedGrows
  <2>2. ASSUME NEW D \in SUBSET blobs, PurgeBlobs(D)
        PROVE  Value(k, c) \in blobs'
    <3>1. D \subseteq RowsOf(blobs, batch.threads) /\ batch.pc = "blobs"
      BY <2>2 DEF PurgeBlobs, PurgeAs, IsChunk
    <3>2. k.thread \notin batch.threads
      BY <2>1, <3>1 DEF Undisturbed, Listed, PurgeStages
    <3>3. Value(k, c) \notin D
      BY <3>1, <3>2 DEF RowsOf, Value
    <3>4. QED BY <2>2, <3>3 DEF PurgeBlobs
  <2>3. ASSUME DeleteBlobs
        PROVE  Value(k, c) \in blobs'
    <3>1. Value(k, c).channel = c
      BY DEF Value
    <3>2. Value(k, c) \notin batch.orphans
      BY <3>1 DEF OrphansStayOrphans
    <3>3. QED BY <2>3, <3>2 DEF DeleteBlobs
  <2>4. QED
    BY <2>2, <2>3 DEF Next, vars, TurnStep, LoadCheckpoint, PutCheckpoint, PutWrites, EndTurn,
          BatchStep, ListIdleThreads, PurgeWrites, PurgeCheckpoints, SelectExcess, DeleteWrites,
          DeleteCheckpoints, SelectOrphans, BatchFails
<1>2. ASSUME NEW x \in Turn, NEW updated \in Updates, NEW highest \in Channel,
             PutCheckpoint(x, updated, highest)
      PROVE  RemainingAreReadable'
  <2>0. PICK new : new = NextCheckpoint(x, updated, highest)
    OBVIOUS
  <2>1. checkpoints' = checkpoints \union {new}
    BY <1>2, <2>0, PutIsAs
  <2>2. ASSUME Undisturbed(new.thread)', NEW c \in Channel, new.versions[c] # NoVersion
        PROVE  Value(new, c) \in blobs' \union revived'
    <3>1. half' = half /\ batch' = batch /\ overtaken \subseteq overtaken' /\ blobs \subseteq blobs'
      BY <1>2 DEF PutCheckpoint, Mark
    <3>2. Undisturbed(new.thread)
      BY <2>2, <3>1 DEF Undisturbed, Listed
    <3>3. ASSUME NEW k \in checkpoints, Value(k, c) = Value(new, c)
          PROVE  Value(new, c) \in blobs' \union revived'
      <4>1. k.thread = new.thread /\ k.versions[c] = new.versions[c]
        BY <3>3 DEF Value
      <4>2. Value(k, c) \in blobs \union revived
        BY <2>2, <3>2, <4>1 DEF RemainingAreReadable
      <4>3. QED BY <3>1, <3>3, <4>2, RevivedGrows
    <3>4. QED BY <1>2, <2>0, <2>2, <3>3, NewCheckpointNames
  <2>3. QED BY <1>1, <2>1, <2>2 DEF RemainingAreReadable
<1>3. CASE checkpoints' \subseteq checkpoints
  BY <1>1, <1>3 DEF RemainingAreReadable
<1>4. QED
  BY <1>2, <1>3 DEF Next, vars, TurnStep, LoadCheckpoint, PutWrites, EndTurn,
        BatchStep, ListIdleThreads, PurgeWrites, PurgeBlobs, PurgeCheckpoints, SelectExcess, DeleteWrites,
        DeleteCheckpoints, SelectOrphans, DeleteBlobs, BatchFails

LEMMA OrphansStayOrphansKept ==
    ASSUME TypeOK, TurnsRemember, OrphansStayOrphans, RemainingAreReadable, [Next]_vars
    PROVE  OrphansStayOrphans'
<1>1. ASSUME batch'.orphans = {}
      PROVE  OrphansStayOrphans'
  BY <1>1 DEF OrphansStayOrphans
<1>2. ASSUME batch' = batch, clock' = clock, checkpoints' \subseteq checkpoints
      PROVE  OrphansStayOrphans'
  BY <1>2, RevivedGrows DEF OrphansStayOrphans
<1>3. CASE UNCHANGED vars
  BY <1>2, <1>3 DEF vars
<1>4. ASSUME NEW x \in Turn, NEW updated \in Updates, NEW highest \in Channel,
             PutCheckpoint(x, updated, highest)
      PROVE  OrphansStayOrphans'
  <2>0. PICK new : new = NextCheckpoint(x, updated, highest)
    OBVIOUS
  <2>1. checkpoints' = checkpoints \union {new} /\ batch' = batch
    BY <1>4, <2>0, PutIsAs DEF PutCheckpoint
  <2>2. ASSUME NEW o \in batch.orphans, Value(new, o.channel) = o
        PROVE  o \in revived'
    <3>1. o \in Blob /\ o.channel \in Channel
      BY DEF TypeOK, Blob
    <3>2. o.version.mark \in 1..clock /\ clock \in Nat
      BY DEF OrphansStayOrphans, TypeOK
    <3>3. new.versions[o.channel] = o.version
      BY <2>2 DEF Value
    <3>4. new.versions[o.channel] # NoVersion /\ new.versions[o.channel].mark # clock + 1
      BY <3>2, <3>3 DEF NoVersion
    <3>5. ASSUME NEW k \in checkpoints, Value(k, o.channel) = Value(new, o.channel)
          PROVE  o \in revived'
      BY <2>2, <3>5, RevivedGrows DEF OrphansStayOrphans
    <3>6. QED BY <1>4, <2>0, <2>2, <3>1, <3>4, <3>5, NewCheckpointNames
  <2>3. ASSUME NEW o \in batch.orphans, NEW k \in checkpoints, Value(k, o.channel) = o
        PROVE  o \in revived'
    BY <2>3, RevivedGrows DEF OrphansStayOrphans
  <2>4. clock' = clock + 1 /\ clock \in Nat
    BY <1>4, PutIsAs DEF TypeOK
  <2>5. \A o \in batch.orphans : o.version.mark \in 1..clock'
    BY <2>4 DEF OrphansStayOrphans
  <2>6. QED BY <2>1, <2>2, <2>3, <2>5 DEF OrphansStayOrphans
<1>5. ASSUME NEW x \in Turn, TurnStep(x)
      PROVE  OrphansStayOrphans'
  BY <1>2, <1>4, <1>5 DEF TurnStep, LoadCheckpoint, PutWrites, EndTurn
<1>6. ASSUME NEW D \in SUBSET Orphans, SelectOrphans(D)
      PROVE  OrphansStayOrphans'
  <2>1. /\ checkpoints' = checkpoints /\ blobs' = blobs /\ clock' = clock
        /\ batch'.orphans = D
        /\ D # {} => batch'.pc = "orphan_blobs"
    BY <1>6 DEF SelectOrphans, TypeOK
  <2>2. ASSUME NEW o \in D, NEW k \in checkpoints, Value(k, o.channel) = o
        PROVE  FALSE
    <3>1. o \in blobs /\ \A l \in Naming(o) : Below(o.version, l.versions[o.channel])
      BY DEF Orphans
    <3>2. o.version \in Version /\ o.version # NoVersion
      BY <3>1 DEF TypeOK, Blob, NoVersion
    <3>3. ~ Below(o.version, o.version)
      BY <3>2 DEF Below, Version
    <3>4. SameSpace(k, o) /\ k.versions[o.channel] = o.version
      BY <2>2 DEF Value, SameSpace
    <3>5. QED BY <3>1, <3>2, <3>3, <3>4 DEF Naming
  <2>3. \A o \in D : o.version.mark \in 1..clock
    BY DEF Orphans, TypeOK
  <2>4. QED BY <2>1, <2>2, <2>3 DEF OrphansStayOrphans
<1>7. CASE BatchStep
  <2>1. batch.pc # "orphan_blobs" => batch.orphans = {}
    BY DEF OrphansStayOrphans
  <2>2. ASSUME NEW cutoff \in 0..clock + 1, ListIdleThreads(cutoff)
        PROVE  OrphansStayOrphans'
    BY <1>1, <2>1, <2>2 DEF ListIdleThreads, TypeOK
  <2>3. ASSUME NEW D, NEW rows, NEW table \in PurgeStages, PurgeAs(D, rows, table)
        PROVE  batch'.orphans = {}
    BY <2>1, <2>3 DEF PurgeAs, TypeOK, PurgeStages, Waiting
  <2>4. ASSUME NEW D, PurgeWrites(D) \/ PurgeBlobs(D) \/ PurgeCheckpoints(D)
        PROVE  OrphansStayOrphans'
    BY <1>1, <2>3, <2>4 DEF PurgeWrites, PurgeBlobs, PurgeCheckpoints, PurgeStages
  <2>5. ASSUME NEW D \in SUBSET Excess, SelectExcess(D)
        PROVE  OrphansStayOrphans'
    BY <1>1, <2>1, <2>5 DEF SelectExcess, TypeOK
  <2>6. CASE DeleteWrites \/ DeleteCheckpoints \/ DeleteBlobs \/ BatchFails
    <3>1. CASE DeleteWrites
      BY <1>1, <2>1, <3>1 DEF DeleteWrites, TypeOK
    <3>2. CASE DeleteCheckpoints
      BY <1>1, <2>1, <3>2 DEF DeleteCheckpoints, TypeOK
    <3>3. CASE DeleteBlobs
      BY <1>1, <3>3 DEF DeleteBlobs, TypeOK
    <3>4. CASE BatchFails
      BY <1>1, <3>4 DEF BatchFails, Waiting
    <3>5. QED BY <2>6, <3>1, <3>2, <3>3, <3>4
  <2>7. QED BY <1>6, <1>7, <2>2, <2>4, <2>5, <2>6 DEF BatchStep
<1>8. QED BY <1>3, <1>5, <1>7 DEF Next

-----------------------------------------------------------------------------
(* What is left of a thread *)

(* Only a turn stores rows, and it marks a thread that is being deleted; for  *)
(* any other, the checkpoint it belongs to is there.                         *)
LEMMA TurnMarks ==
    ASSUME TypeOK, TurnsRemember, NEW x \in Turn, TurnStep(x)
    PROVE  /\ batch' = batch /\ checkpoints \subseteq checkpoints' /\ overtaken \subseteq overtaken'
           /\ \A r \in (writes' \ writes) \union (blobs' \ blobs) :
                 \/ r.thread \in overtaken'
                 \/ ~ Listed(r.thread) /\ \E k \in checkpoints' : k.thread = r.thread
<1>1. CASE \/ \E t \in Thread, n \in Namespace : LoadCheckpoint(x, t, n)
           \/ EndTurn(x)
  BY <1>1 DEF LoadCheckpoint, EndTurn
<1>2. ASSUME NEW updated \in Updates, NEW highest \in Channel, PutCheckpoint(x, updated, highest)
      PROVE  /\ batch' = batch /\ checkpoints \subseteq checkpoints' /\ overtaken \subseteq overtaken'
             /\ writes' = writes
             /\ \A r \in blobs' \ blobs :
                   \/ r.thread \in overtaken'
                   \/ ~ Listed(r.thread) /\ \E k \in checkpoints' : k.thread = r.thread
  <2>1. /\ blobs' = blobs \union NextBlobs(x, updated, highest)
        /\ checkpoints' = checkpoints \union {NextCheckpoint(x, updated, highest)}
    BY <1>2, PutIsAs
  <2>2. NextCheckpoint(x, updated, highest).thread = turn[x].thread
    BY DEF NextCheckpoint
  <2>3. \A r \in NextBlobs(x, updated, highest) : r.thread = turn[x].thread
    BY DEF NextBlobs
  <2>4. turn[x].thread \in overtaken' \/ ~ Listed(turn[x].thread)
    BY <1>2 DEF PutCheckpoint, Mark, Overtakes
  <2>5. batch' = batch /\ writes' = writes /\ overtaken \subseteq overtaken'
    BY <1>2 DEF PutCheckpoint, Mark
  <2>6. QED BY <2>1, <2>2, <2>3, <2>4, <2>5
<1>3. ASSUME PutWrites(x)
      PROVE  /\ batch' = batch /\ checkpoints' = checkpoints /\ overtaken \subseteq overtaken'
             /\ blobs' = blobs
             /\ \A r \in writes' \ writes :
                   \/ r.thread \in overtaken'
                   \/ ~ Listed(r.thread) /\ \E k \in checkpoints : k.thread = r.thread
  <2>1. \A r \in writes' \ writes : r.thread = turn[x].thread
    BY <1>3 DEF PutWrites
  <2>2. turn[x].base # 0
    BY <1>3 DEF PutWrites, TurnsRemember
  <2>3. CASE Overtakes(x)
    BY <1>3, <2>1, <2>3 DEF PutWrites, Mark
  <2>4. CASE ~ Overtakes(x)
    <3>1. PICK k \in RowsOf(checkpoints, {turn[x].thread}) : TRUE
      BY <2>2, <2>4 DEF Overtakes
    <3>2. k \in checkpoints /\ k.thread = turn[x].thread
      BY <3>1 DEF RowsOf
    <3>3. ~ Listed(turn[x].thread)
      BY <2>4 DEF Overtakes
    <3>4. QED BY <1>3, <2>1, <3>2, <3>3 DEF PutWrites, Mark
  <2>5. QED BY <2>3, <2>4
<1>4. QED BY <1>1, <1>2, <1>3 DEF TurnStep

LEMMA PurgedSoFarKept ==
    ASSUME TypeOK, TurnsRemember, PurgedSoFar, [Next]_vars
    PROVE  PurgedSoFar'
<1>1. CASE UNCHANGED vars
  BY <1>1 DEF vars, PurgedSoFar
<1>2. ASSUME NEW x \in Turn, TurnStep(x)
      PROVE  PurgedSoFar'
  <2>1. batch' = batch /\ overtaken \subseteq overtaken'
    BY <1>2, TurnMarks
  <2>2. \A r \in (writes' \ writes) \union (blobs' \ blobs) :
           batch.pc \in PurgeStages /\ r.thread \in batch.threads => r.thread \in overtaken'
    BY <1>2, TurnMarks DEF Listed
  <2>3. QED BY <2>1, <2>2 DEF PurgedSoFar, PurgeStages
<1>3. ASSUME NEW D \in SUBSET writes, PurgeWrites(D)
      PROVE  PurgedSoFar'
  <2>1. CASE Cardinality(D) = ChunkSize
    BY <1>3, <2>1 DEF PurgeWrites, PurgeAs, PurgedSoFar
  <2>2. CASE Cardinality(D) # ChunkSize
    <3>1. D = RowsOf(writes, batch.threads) /\ writes' = writes \ D
      BY <1>3, <2>2 DEF PurgeWrites, PurgeAs, IsChunk
    <3>2. batch' = [batch EXCEPT !.pc = "blobs"]
      BY <1>3, <2>2 DEF PurgeWrites, PurgeAs, NextStage
    <3>3. batch'.pc = "blobs" /\ batch'.threads = batch.threads
      BY <3>2 DEF TypeOK
    <3>4. QED BY <3>1, <3>3 DEF PurgedSoFar, RowsOf
  <2>3. QED BY <2>1, <2>2
<1>4. ASSUME NEW D \in SUBSET blobs, PurgeBlobs(D)
      PROVE  PurgedSoFar'
  <2>0. batch.pc = "blobs" /\ writes' = writes /\ overtaken' = overtaken
    BY <1>4 DEF PurgeBlobs, PurgeAs
  <2>1. CASE Cardinality(D) = ChunkSize
    BY <1>4, <2>0, <2>1 DEF PurgeBlobs, PurgeAs, PurgedSoFar
  <2>2. CASE Cardinality(D) # ChunkSize
    <3>1. D = RowsOf(blobs, batch.threads) /\ blobs' = blobs \ D
      BY <1>4, <2>2 DEF PurgeBlobs, PurgeAs, IsChunk
    <3>2. batch' = [batch EXCEPT !.pc = "checkpoints"]
      BY <1>4, <2>2 DEF PurgeBlobs, PurgeAs, NextStage
    <3>3. batch'.pc = "checkpoints" /\ batch'.threads = batch.threads
      BY <3>2 DEF TypeOK
    <3>4. QED BY <2>0, <3>1, <3>3 DEF PurgedSoFar, RowsOf
  <2>3. QED BY <2>1, <2>2
<1>5. ASSUME NEW D \in SUBSET checkpoints, PurgeCheckpoints(D)
      PROVE  PurgedSoFar'
  <2>1. CASE Cardinality(D) # ChunkSize
    BY <1>5, <2>1 DEF PurgeCheckpoints, PurgeAs, PurgedSoFar, Waiting
  <2>2. CASE Cardinality(D) = ChunkSize
    <3>1. batch' = batch /\ blobs' = blobs /\ writes' = writes
      BY <1>5, <2>2 DEF PurgeCheckpoints, PurgeAs
    <3>2. \A r \in blobs \union writes : r.thread \in overtaken => r.thread \in overtaken'
      BY <1>5 DEF PurgeCheckpoints, Vanished, RowsOf
    <3>3. QED BY <3>1, <3>2 DEF PurgedSoFar
  <2>3. QED BY <2>1, <2>2
<1>6. CASE BatchStep
  <2>1. CASE \/ \E cutoff \in 0..clock + 1 : ListIdleThreads(cutoff)
             \/ \E D \in SUBSET Excess : SelectExcess(D)
             \/ DeleteWrites
             \/ DeleteCheckpoints
             \/ \E D \in SUBSET Orphans : SelectOrphans(D)
             \/ DeleteBlobs
             \/ BatchFails
    <3>1. batch'.pc \notin {"blobs", "checkpoints"}
      <4>1. ASSUME NEW cutoff \in 0..clock + 1, ListIdleThreads(cutoff)
            PROVE  batch'.pc \notin {"blobs", "checkpoints"}
        BY <4>1 DEF ListIdleThreads, TypeOK
      <4>2. ASSUME NEW D, SelectExcess(D) \/ SelectOrphans(D)
            PROVE  batch'.pc \notin {"blobs", "checkpoints"}
        BY <4>2 DEF SelectExcess, SelectOrphans, TypeOK
      <4>3. CASE DeleteWrites \/ DeleteCheckpoints \/ DeleteBlobs \/ BatchFails
        <5>1. CASE DeleteWrites
          BY <5>1 DEF DeleteWrites, TypeOK
        <5>2. CASE DeleteCheckpoints
          BY <5>2 DEF DeleteCheckpoints, TypeOK
        <5>3. CASE DeleteBlobs
          BY <5>3 DEF DeleteBlobs, TypeOK
        <5>4. CASE BatchFails
          BY <5>4 DEF BatchFails, Waiting
        <5>5. QED BY <4>3, <5>1, <5>2, <5>3, <5>4
      <4>4. QED BY <2>1, <4>1, <4>2, <4>3
    <3>2. QED BY <3>1 DEF PurgedSoFar
  <2>2. QED BY <1>3, <1>4, <1>5, <1>6, <2>1 DEF BatchStep
<1>7. QED BY <1>1, <1>2, <1>6 DEF Next

LEMMA LeftoversAreFoundKept ==
    ASSUME TypeOK, TurnsRemember, PurgedSoFar, ExcessStaysExcess, LeftoversAreFound, [Next]_vars
    PROVE  LeftoversAreFound'
<1>1. ASSUME blobs' \subseteq blobs, writes' \subseteq writes, overtaken \subseteq overtaken',
             checkpoints \subseteq checkpoints'
      PROVE  LeftoversAreFound'
  BY <1>1 DEF LeftoversAreFound
<1>2. CASE UNCHANGED vars
  BY <1>1, <1>2 DEF vars
<1>3. ASSUME NEW x \in Turn, TurnStep(x)
      PROVE  LeftoversAreFound'
  BY <1>3, TurnMarks DEF LeftoversAreFound
<1>4. ASSUME NEW D \in SUBSET checkpoints, PurgeCheckpoints(D)
      PROVE  LeftoversAreFound'
  <2>1. /\ batch.pc = "checkpoints" /\ blobs' = blobs /\ writes' = writes
        /\ checkpoints' = checkpoints \ D /\ D \subseteq RowsOf(checkpoints, batch.threads)
    BY <1>4 DEF PurgeCheckpoints, PurgeAs, IsChunk
  <2>2. ASSUME NEW r \in blobs \union writes
        PROVE  r.thread \in overtaken' \/ \E k \in checkpoints' : k.thread = r.thread
    <3>1. r.thread \in overtaken => r.thread \in overtaken'
      BY <1>4 DEF PurgeCheckpoints, Vanished, RowsOf
    <3>2. r.thread \in batch.threads => r.thread \in overtaken
      BY <2>1 DEF PurgedSoFar
    <3>3. QED BY <2>1, <3>1, <3>2 DEF LeftoversAreFound, RowsOf
  <2>3. QED BY <2>1, <2>2 DEF LeftoversAreFound
<1>5. CASE DeleteCheckpoints
  <2>1. ASSUME NEW k \in checkpoints
        PROVE  \E l \in checkpoints' : l.thread = k.thread
    <3>1. CASE KeyOf(k) \notin batch.excess
      BY <1>5, <3>1 DEF DeleteCheckpoints
    <3>2. CASE KeyOf(k) \in batch.excess
      <4>1. Cardinality(Spared(KeyOf(k))) >= 1
        <5>1. Cardinality(Spared(KeyOf(k))) >= Keep
          BY <3>2 DEF ExcessStaysExcess
        <5>2. IsFiniteSet(Spared(KeyOf(k)))
          BY FS_Subset DEF ExcessStaysExcess, Spared
        <5>3. QED BY <5>1, <5>2, FS_CardinalityType
      <4>2. PICK l \in Spared(KeyOf(k)) : TRUE
        BY <4>1, FS_EmptySet
      <4>3. l \in checkpoints' /\ l.thread = k.thread
        BY <1>5, <4>2 DEF Spared, DeleteCheckpoints, SameSpace, KeyOf
      <4>4. QED BY <4>3
    <3>3. QED BY <3>1, <3>2
  <2>2. QED BY <1>5, <2>1 DEF DeleteCheckpoints, LeftoversAreFound
<1>6. QED
  BY <1>1, <1>2, <1>3, <1>4, <1>5 DEF Next, BatchStep, ListIdleThreads, PurgeWrites, PurgeBlobs, SelectExcess,
        DeleteWrites, SelectOrphans, DeleteBlobs, BatchFails

-----------------------------------------------------------------------------
(* What an excess checkpoint leaves behind *)

(* A set of numbers with an upper bound has a largest member. *)
LEMMA Largest ==
    ASSUME NEW S \in SUBSET Nat, S # {}, NEW bound \in Nat, \A n \in S : n <= bound
    PROVE  \E m \in S : \A n \in S : n <= m
<1> DEFINE distances == {bound - n : n \in S}
<1>1. distances \subseteq Nat /\ distances # {}
  <2>1. ASSUME NEW n \in S PROVE bound - n \in Nat
    <3>1. n \in Nat /\ n <= bound
      OBVIOUS
    <3>2. QED BY <3>1
  <2>2. QED BY <2>1
<1>2. PICK d \in distances : \A e \in distances : ~ (<<e, d>> \in OpToRel(<, Nat))
  BY <1>1, WFMin, NatLessThanWellFounded
<1>3. \A e \in distances : ~ (e < d)
  BY <1>1, <1>2 DEF OpToRel
<1>4. PICK m \in S : d = bound - m
  OBVIOUS
<1>5. ASSUME NEW n \in S PROVE n <= m
  <2>1. bound - n \in distances /\ ~ (bound - n < d)
    BY <1>3
  <2>2. QED BY <1>4, <2>1
<1>6. QED BY <1>5

(* The newest of the selected rows of a namespace still has Keep newer ones,  *)
(* none of them selected, and they are newer than the rest of the selected.   *)
LEMMA SelectionSpares ==
    ASSUME TypeOK, IsFiniteSet(checkpoints), NEW D \in SUBSET Excess, NEW e \in D
    PROVE  Cardinality({k \in checkpoints : SameSpace(k, e) /\ k.id > e.id /\ KeyOf(k) \notin D}) >= Keep
<1> DEFINE spared == {k \in checkpoints : SameSpace(k, e) /\ k.id > e.id /\ KeyOf(k) \notin D}
           chosen == {k \in checkpoints : SameSpace(k, e) /\ k.id >= e.id /\ KeyOf(k) \in D}
           ids == {k.id : k \in chosen}
<1>1. PICK first \in checkpoints : KeyOf(first) = e
  BY DEF Excess
<1>2. \A k \in checkpoints : k.id \in Nat /\ k.id <= clock /\ KeyOf(k).id = k.id
                            /\ KeyOf(k).thread = k.thread /\ KeyOf(k).ns = k.ns
  BY KeyType DEF TypeOK
<1>3. first \in chosen
  BY <1>1, <1>2 DEF SameSpace
<1>4. PICK highest \in ids : \A i \in ids : i <= highest
  <2>1. ids \in SUBSET Nat /\ ids # {} /\ clock \in Nat /\ \A i \in ids : i <= clock
    BY <1>2, <1>3 DEF TypeOK
  <2>2. QED BY <2>1, Largest
<1>5. PICK last \in chosen : last.id = highest
  OBVIOUS
<1>6. PICK l \in checkpoints : KeyOf(l) = KeyOf(last) /\ Cardinality(Newer(l)) >= Keep
  BY <1>5 DEF Excess
<1>7. SameSpace(l, e) /\ l.id = highest /\ l.id >= e.id
  BY <1>2, <1>5, <1>6 DEF SameSpace
<1>8. Newer(l) \subseteq spared
  <2>1. SUFFICES ASSUME NEW k \in Newer(l) PROVE k \in spared
    OBVIOUS
  <2>2. k \in checkpoints /\ SameSpace(k, l) /\ k.id > l.id
    BY DEF Newer
  <2>3. SameSpace(k, e) /\ k.id > e.id
    BY <1>1, <1>2, <1>7, <2>2 DEF SameSpace
  <2>4. KeyOf(k) \notin D
    <3>1. SUFFICES ASSUME KeyOf(k) \in D PROVE FALSE
      OBVIOUS
    <3>2. k.id \in ids
      BY <1>1, <1>2, <2>2, <2>3, <3>1
    <3>3. k.id <= highest
      BY <1>4, <3>2
    <3>4. k.id \in Nat /\ k.id > highest /\ highest \in Nat
      BY <1>2, <1>7, <2>2
    <3>5. QED BY <3>3, <3>4
  <2>5. QED BY <2>2, <2>3, <2>4
<1>9. IsFiniteSet(spared) /\ Cardinality(Newer(l)) <= Cardinality(spared)
  <2>1. IsFiniteSet(spared)
    BY FS_Subset
  <2>2. QED BY <1>8, <2>1, FS_Subset
<1>10. Cardinality(Newer(l)) \in Nat /\ Cardinality(spared) \in Nat
  BY <1>8, <1>9, FS_Subset, FS_CardinalityType
<1>11. QED BY <1>6, <1>9, <1>10

LEMMA ExcessStaysExcessKept ==
    ASSUME TypeOK, TurnsRemember, ExcessStaysExcess, [Next]_vars
    PROVE  ExcessStaysExcess'
<1>1. IsFiniteSet(checkpoints)'
  <2>1. CASE checkpoints' \subseteq checkpoints
    BY <2>1, FS_Subset DEF ExcessStaysExcess
  <2>2. ASSUME NEW k, checkpoints' = checkpoints \union {k}
        PROVE  IsFiniteSet(checkpoints')
    BY <2>2, FS_AddElement DEF ExcessStaysExcess
  <2>3. QED
    BY <2>1, <2>2 DEF Next, vars, TurnStep, LoadCheckpoint, PutCheckpoint, PutWrites, EndTurn,
          BatchStep, ListIdleThreads, PurgeWrites, PurgeBlobs, PurgeCheckpoints, SelectExcess,
          DeleteWrites, DeleteCheckpoints, SelectOrphans, DeleteBlobs, BatchFails
<1>2. ASSUME batch'.excess = {}
      PROVE  ExcessStaysExcess'
  BY <1>1, <1>2 DEF ExcessStaysExcess
<1>3. ASSUME batch'.excess = batch.excess, checkpoints \subseteq checkpoints',
             batch'.pc = batch.pc \/ batch'.pc = "excess_checkpoints"
      PROVE  ExcessStaysExcess'
  <2>1. ASSUME NEW e \in batch.excess
        PROVE  Cardinality(Spared(e)') >= Keep
    <3>1. Spared(e) \subseteq Spared(e)' /\ Spared(e)' \subseteq checkpoints'
      BY <1>3 DEF Spared
    <3>2. IsFiniteSet(Spared(e)') /\ IsFiniteSet(Spared(e))
      BY <1>1, <3>1, FS_Subset
    <3>3. Cardinality(Spared(e)) <= Cardinality(Spared(e)')
      BY <3>1, <3>2, FS_Subset
    <3>4. Cardinality(Spared(e)) \in Nat /\ Cardinality(Spared(e)') \in Nat
      BY <3>2, FS_CardinalityType
    <3>5. Cardinality(Spared(e)) >= Keep
      BY DEF ExcessStaysExcess
    <3>6. QED BY <3>3, <3>4, <3>5
  <2>2. QED BY <1>1, <1>3, <2>1 DEF ExcessStaysExcess
<1>4. CASE UNCHANGED vars
  BY <1>3, <1>4 DEF vars
<1>5. ASSUME NEW x \in Turn, TurnStep(x)
      PROVE  ExcessStaysExcess'
  BY <1>3, <1>5, TurnMarks
<1>6. batch.pc \notin {"excess_writes", "excess_checkpoints"} => batch.excess = {}
  BY DEF ExcessStaysExcess
<1>7. ASSUME NEW cutoff \in 0..clock + 1, ListIdleThreads(cutoff)
      PROVE  ExcessStaysExcess'
  BY <1>2, <1>6, <1>7 DEF ListIdleThreads, TypeOK
<1>8. ASSUME NEW D, PurgeWrites(D) \/ PurgeBlobs(D) \/ PurgeCheckpoints(D)
      PROVE  ExcessStaysExcess'
  <2>1. ASSUME NEW rows, NEW table \in PurgeStages, PurgeAs(D, rows, table)
        PROVE  batch'.excess = {}
    BY <1>6, <2>1 DEF PurgeAs, PurgeStages, TypeOK, Waiting
  <2>2. QED BY <1>2, <1>8, <2>1 DEF PurgeWrites, PurgeBlobs, PurgeCheckpoints, PurgeStages
<1>9. ASSUME NEW D \in SUBSET Excess, SelectExcess(D)
      PROVE  ExcessStaysExcess'
  <2>1. /\ checkpoints' = checkpoints /\ batch'.excess = D
        /\ D # {} => batch'.pc = "excess_writes"
    BY <1>9 DEF SelectExcess, TypeOK
  <2>2. ASSUME NEW e \in D
        PROVE  Cardinality(Spared(e)') >= Keep
    <3>1. Spared(e)' = {k \in checkpoints : SameSpace(k, e) /\ k.id > e.id /\ KeyOf(k) \notin D}
      BY <2>1 DEF Spared
    <3>2. QED BY <3>1, SelectionSpares DEF ExcessStaysExcess
  <2>3. QED BY <1>1, <2>1, <2>2 DEF ExcessStaysExcess
<1>10. CASE DeleteWrites
  BY <1>3, <1>10 DEF DeleteWrites, TypeOK
<1>11. CASE DeleteCheckpoints
  BY <1>2, <1>11 DEF DeleteCheckpoints, TypeOK
<1>12. ASSUME NEW D \in SUBSET Orphans, SelectOrphans(D)
       PROVE  ExcessStaysExcess'
  BY <1>2, <1>6, <1>12 DEF SelectOrphans, TypeOK
<1>13. CASE DeleteBlobs
  BY <1>2, <1>6, <1>13 DEF DeleteBlobs, TypeOK
<1>14. CASE BatchFails
  BY <1>2, <1>14 DEF BatchFails, Waiting
<1>15. QED
  BY <1>4, <1>5, <1>7, <1>8, <1>9, <1>10, <1>11, <1>12, <1>13, <1>14 DEF Next, BatchStep

-----------------------------------------------------------------------------
(* The theorems *)

LEMMA InitInv == Init => IInv
<1> SUFFICES ASSUME Init PROVE IInv
  OBVIOUS
<1>1. TypeOK
  BY InitType
<1>2. TurnsRemember /\ RemainingAreReadable /\ LeftoversAreFound /\ PurgedSoFar
  BY DEF Init, TurnsRemember, NoTurn, RemainingAreReadable, LeftoversAreFound, PurgedSoFar, Waiting
<1>3. OrphansStayOrphans /\ ExcessStaysExcess
  BY FS_EmptySet DEF Init, Waiting, OrphansStayOrphans, ExcessStaysExcess
<1>4. QED BY <1>1, <1>2, <1>3 DEF IInv

LEMMA StepInv == IInv /\ [Next]_vars => IInv'
<1> SUFFICES ASSUME IInv, [Next]_vars PROVE IInv'
  OBVIOUS
<1>1. TypeOK'
  <2>1. CASE UNCHANGED vars
    BY <2>1 DEF vars, IInv, TypeOK
  <2>2. QED BY <2>1, TurnStepType, BatchStepType DEF IInv, Next
<1>2. QED
  BY <1>1, TurnsRememberKept, RemainingAreReadableKept, OrphansStayOrphansKept, PurgedSoFarKept,
     ExcessStaysExcessKept, LeftoversAreFoundKept DEF IInv

LEMMA Invariance == Spec => []IInv
<1>1. QED BY InitInv, StepInv, PTL DEF Spec

(* No variable of turns and batch leaves its type: a batch only deletes rows  *)
(* of tables that its own statements have selected                            *)
(* (prune_excess_checkpoints_async, purge_idle_threads_async).                *)
THEOREM RetentionTypeCorrect == Spec => []TypeOK
<1>1. IInv => TypeOK
  BY DEF IInv
<1>2. QED BY <1>1, Invariance, PTL

(* Whatever turns store between the selection of the orphan blobs and their   *)
(* deletion, every checkpoint of a thread that no purge has disturbed finds   *)
(* all its values, but for those that a turn carried on after the batch had   *)
(* deleted every checkpoint that named them                                   *)
(* (SELECT_ORPHAN_BLOB_SQL, DELETE_BLOB_BY_KEY_SQL).                          *)
THEOREM CheckpointsStayReadable == Spec => []RemainingAreReadable
<1>1. IInv => RemainingAreReadable
  BY DEF IInv
<1>2. QED BY <1>1, Invariance, PTL

(* A batch that dies between any two of its statements leaves no row that the *)
(* next batch could not find again (purge_idle_threads_async).                *)
THEOREM LeftoversStayFound == Spec => []LeftoversAreFound
<1>1. IInv => LeftoversAreFound
  BY DEF IInv
<1>2. QED BY <1>1, Invariance, PTL

(* The newest Keep checkpoints of a namespace are never sliced off, whatever  *)
(* is stored between their selection and their deletion                       *)
(* (SELECT_EXCESS_CHECKPOINT_SQL, DELETE_CHECKPOINT_BY_KEY_SQL).              *)
THEOREM NewestStay == Spec => NewestAreKept
<1>1. ASSUME IInv, [Next]_vars, NEW k \in checkpoints \ checkpoints'
      PROVE  Listed(k.thread) \/ Cardinality(Newer(k) \intersect checkpoints') >= Keep
  <2>1. CASE \E D \in SUBSET checkpoints : PurgeCheckpoints(D)
    BY <1>1, <2>1 DEF PurgeCheckpoints, PurgeAs, IsChunk, RowsOf, Listed, PurgeStages
  <2>2. CASE DeleteCheckpoints
    <3>1. KeyOf(k) \in batch.excess
      BY <1>1, <2>2 DEF DeleteCheckpoints
    <3>2. Newer(k) \intersect checkpoints' = Spared(KeyOf(k))
      BY <2>2 DEF DeleteCheckpoints, Newer, Spared, KeyOf, SameSpace
    <3>3. QED BY <1>1, <3>1, <3>2 DEF IInv, ExcessStaysExcess
  <2>3. QED
    BY <1>1, <2>1, <2>2 DEF Next, vars, TurnStep, LoadCheckpoint, PutCheckpoint, PutWrites, EndTurn,
          BatchStep, ListIdleThreads, PurgeWrites, PurgeBlobs, SelectExcess, DeleteWrites, SelectOrphans,
          DeleteBlobs, BatchFails
<1>2. IInv /\ [Next]_vars =>
         [\A k \in checkpoints \ checkpoints' :
             Listed(k.thread) \/ Cardinality(Newer(k) \intersect checkpoints') >= Keep]_vars
  BY <1>1
<1>3. QED BY <1>2, Invariance, PTL DEF Spec, NewestAreKept
=============================================================================
