------------------------------ MODULE JobRecord ------------------------------
(***************************************************************************)
(* What the llm_job row and its llm_job_chunk rows promise to every reader *)
(* of PostgreSQL, whoever writes them and in whatever order: the status    *)
(* graph of job_status.py as the WHERE clauses of job_repository.py        *)
(* enforce it, and chunk rows that are stored once, in the step that ends  *)
(* the job, all of them of one execution attempt and without holes.        *)
(***************************************************************************)
EXTENDS Naturals

CONSTANTS
    Attempt,      \* execution attempts of the run: the submission and its retries
    MaxChunk      \* most chunks one attempt can produce

VARIABLES
    status,       \* llm_job.status, "none" before the row exists
    rows          \* llm_job_chunk rows, as pairs <<attempt, seq>>

vars == <<status, rows>>

Active   == {"pending", "running"}
Terminal == {"completed", "failed", "cancelled"}

(* The chunks numbered 1..n of one attempt: what a single flush can store. *)
ChunksOf(a, n) == {a} \X (1..n)

Answer == {ChunksOf(a, n) : a \in Attempt, n \in 0..MaxChunk}

Init ==
    /\ status = "none"
    /\ rows = {}

Submit ==
    /\ status = "none"
    /\ status' = "pending"
    /\ UNCHANGED rows

Run ==
    /\ status = "pending"
    /\ status' = "running"
    /\ UNCHANGED rows

(* The one step that ends an active job, and the only one that stores rows. *)
Settle ==
    /\ status \in Active
    /\ rows = {}
    /\ status' \in Terminal
    /\ rows' \in Answer \union {{}}

(* Only a failed job that lost its chunks is ever opened again. *)
Reopen ==
    /\ status = "failed"
    /\ rows = {}
    /\ status' = "pending"
    /\ UNCHANGED rows

Next == Submit \/ Run \/ Settle \/ Reopen

Spec == Init /\ [][Next]_vars
=============================================================================
