------------------------ MODULE MCCheckpointRetention ------------------------
(* CheckpointRetention on small instances. *)
EXTENDS CheckpointRetention, TLC

Interchangeable ==
    Permutations(Thread) \union Permutations(Namespace)
        \union Permutations(Channel) \union Permutations(Turn)

(* Bound: a second row of checkpoint_writes adds nothing to the first. *)
FewWrites == Cardinality(writes) <= 1
=============================================================================
