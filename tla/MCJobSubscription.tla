-------------------------- MODULE MCJobSubscription --------------------------
(* JobSubscription on small instances. *)
EXTENDS JobSubscription, TLC

(* Attempts are alike: the first one is always the same. *)
First == CHOOSE a \in Attempt : TRUE

NoRetry == \A a \in Attempt \ {First} : task[a].pc = "absent"

(* Bound: a run that is executed twice has one chunk and one fault; a       *)
(* stream that is trimmed and one that is gone both meet it, without a      *)
(* fault beside them.                                                       *)
Retried ==
    /\ faults <= 1
    /\ \A a \in Attempt : task[a].chunks <= 1
    /\ head > 1 => faults = 0 /\ (head > Len(log) \/ client.connects <= 1)

Small == task[First].pc # "absent" /\ (NoRetry \/ Retried)
=============================================================================
