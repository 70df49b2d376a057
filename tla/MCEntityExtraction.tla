---------------------------- MODULE MCEntityExtraction ----------------------------
(* Small instances of EntityExtraction for TLC. *)
EXTENDS EntityExtraction, TLC

CONSTANTS a, b

Texts == {{a}, {a, b}}

\* Two spellings of one name.
Spellings == {<<a, b>>, <<b, a>>}
=============================================================================
