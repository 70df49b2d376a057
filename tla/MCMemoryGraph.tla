---------------------------- MODULE MCMemoryGraph ----------------------------
(* Values for the constants of MemoryGraph. *)
EXTENDS MemoryGraph, TLC

InlineOnly == {[s3 |-> FALSE, chunked |-> FALSE]}

\* Requests are interchangeable, and so are the UUIDs of edges.
Symmetry == Permutations(Client) \cup Permutations(EdgeId)
==============================================================================
