---------------------------- MODULE MCJobLifecycle ----------------------------
(* Instances of JobLifecycle for TLC. *)
EXTENDS JobLifecycle, TLC

(* Attempts are alike, and so are calls; processes are as far as they run a *)
(* reaper or do not.                                                        *)
Interchangeable ==
    Permutations(Attempt) \union Permutations(Caller)
                          \union Permutations(ReaperProcess)
                          \union Permutations(Process \ ReaperProcess)

(* Bound: a call is made while the job is active and one attempt at work;   *)
(* from then on no heartbeat lapses, no reaper moves, PostgreSQL is up.     *)
NoCalls == \A c \in Caller : caller[c].pc = "idle"

Alone == Cardinality({a \in Attempt : executor[a].pc \notin {"absent", "done"}}) <= 1

Quiet ==
    /\ \A p \in Process : /\ reaper[p] = "scanning"
                          /\ transfer[p].pc = "idle"
                          /\ cancelReason[p] # "heartbeat_expired"
    /\ meta.reason # "heartbeat_expired"
    /\ ~ meta.stale /\ ~ job.stale
    /\ "postgres" \notin faults.kinds

CallsWithoutReaper == NoCalls' \/ (Quiet' /\ (NoCalls => job.status \in Active /\ Alone))

(* Bound: a second fault only as a reaper dies, or after it. *)
FaultsAboutReaper ==
    \/ faults'.count < 2 \/ faults' = faults
    \/ \E p \in Process : "ended" \in {reaper[p], reaper'[p]}
=============================================================================
