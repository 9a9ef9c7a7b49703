----------------------------- MODULE MCThreadRuns -----------------------------
(* Instances of ThreadRuns for TLC. *)
EXTENDS ThreadRuns, TLC

CONSTANTS Owner, Other, Only, Repeated

Submit(user, key) == [kind |-> "job", thread |-> Only, user |-> user, key |-> key]
Stream(user) == [kind |-> "stream", thread |-> Only, user |-> user, key |-> None]

(* One thread, two users: submissions with a key that repeats and without,    *)
(* streams                                                                    *)
Orders == {Submit(Owner, Repeated), Submit(Owner, None), Submit(Other, Repeated),
           Stream(Owner)}

(* Streams and submissions of each sort; the owner may repeat a submission    *)
(* next to a stream                                                           *)
Mixes == {m \in [Request -> Orders] :
             LET streams == {r \in Request : m[r].kind = "stream"}
                 repeats == {r \in Request : m[r] = Submit(Owner, Repeated)}
             IN  \A r, s \in Request :
                     m[r] = m[s] => \/ r = s
                                    \/ streams # {} /\ r \in streams \union repeats}

Interchangeable == Permutations(Request)
=============================================================================
