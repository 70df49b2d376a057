------------------------------- MODULE MCPersona -------------------------------
(* Symmetry for Persona. *)
EXTENDS Persona, TLC

Symmetry == Permutations(Client) \cup Permutations(Fact)
==============================================================================
