---------------------------- MODULE MCThreadExtraction ----------------------------
(* Small instances of ThreadExtraction for TLC. *)
EXTENDS ThreadExtraction, TLC

\* A caller asks for the first message again.
Again == {[from |-> 1, upto |-> 1]}

Symmetry == Permutations(Worker)
=============================================================================
