---------------------------- MODULE MCCompilationEpoch ----------------------------
(* Small instances of CompilationEpoch for TLC. *)
EXTENDS CompilationEpoch, TLC

\* Searches of everything, and of what one project has.
AllOrEven == {Memory, {m \in Memory : m % 2 = 0}}

\* The newest memory of three weighs most.
LastIsHeaviest == [m \in Memory |-> IF m = MaxMemories THEN 2 ELSE 1]

Symmetry == Permutations(Search)
=============================================================================
