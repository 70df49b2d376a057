------------------------ MODULE MCConversationThreads -------------------------
(* Values for the constants of ConversationThreads. *)
EXTENDS ConversationThreads, TLC

\* Requests are interchangeable.
Symmetry == Permutations(Client)
==============================================================================
