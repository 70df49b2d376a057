------------------------------ MODULE MCWritePath ------------------------------
(* Values for the constants of WritePath. *)
EXTENDS WritePath, TLC

\* A rule that lets pass what it matches, and one that is switched off.
LaxOrOff == {[strict |-> FALSE, enabled |-> TRUE], [strict |-> TRUE, enabled |-> FALSE]}

\* Calls are interchangeable, and so are users.
Symmetry == Permutations(Client) \cup Permutations(User)
==============================================================================
