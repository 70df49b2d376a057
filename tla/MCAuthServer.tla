------------------------------- MODULE MCAuthServer -------------------------------
(* Small instances of AuthServer for TLC. *)
EXTENDS AuthServer, TLC

Symmetry == Permutations(Request)
=============================================================================
