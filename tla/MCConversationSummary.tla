----------------------- MODULE MCConversationSummary ------------------------
(* ConversationSummary on small instances. *)
EXTENDS ConversationSummary, TLC

Interchangeable == Permutations(Turn)
=============================================================================
