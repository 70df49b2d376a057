--------------------------- MODULE MCMemoryStore -----------------------------
(* Values for the constants of MemoryStore. *)
EXTENDS MemoryStore, TLC

Inline == [s3 |-> FALSE, chunked |-> FALSE]
Stored == [s3 |-> TRUE, chunked |-> FALSE]
Large == [s3 |-> TRUE, chunked |-> TRUE]
LargeInline == [s3 |-> FALSE, chunked |-> TRUE]

InlineOnly == {Inline}
StoredOnly == {Stored}
LargeOnly == {Large}
LargeInlineOnly == {LargeInline}

\* Requests are interchangeable.
Symmetry == Permutations(Client)
==============================================================================
