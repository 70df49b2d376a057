---------------------------- MODULE MemoryLedger -----------------------------
(***************************************************************************)
(* What a versioned memory promises to the agents that use it, without     *)
(* rows, pointers, requests or objects: a memory is a numbered list of     *)
(* revisions, each new one numbered one past the last, until the memory is *)
(* deleted as a whole and for ever.  An administrator may erase a revision *)
(* with all before it.                                                     *)
(***************************************************************************)
EXTENDS Naturals, FiniteSetsExt

CONSTANTS Memory, Revision

VARIABLES history, deleted

ledgerVars == <<history, deleted>>

TypeInvariant ==
  /\ history \in [Memory -> SUBSET (Nat \X Revision)]
  /\ deleted \subseteq Memory

Recorded(r) == \E m \in Memory : \E e \in history[m] : e[2] = r

Last(m) == Max({e[1] : e \in history[m]})

Add(m, r, number) ==
  /\ ~Recorded(r)
  /\ history' = [history EXCEPT ![m] = @ \cup {<<number, r>>}]
  /\ UNCHANGED deleted

Write(m, r) == history[m] = {} /\ Add(m, r, 1)

Revise(m, r) == history[m] # {} /\ m \notin deleted /\ Add(m, r, Last(m) + 1)

Delete(m) ==
  /\ history[m] # {}
  /\ m \notin deleted
  /\ deleted' = deleted \cup {m}
  /\ UNCHANGED history

\* Nothing is left of a memory whose last revision is erased, its deletion included.
Erase(m) ==
  \E last \in history[m] :
    /\ history' = [history EXCEPT ![m] = {e \in @ : e[1] > last[1]}]
    /\ deleted' = IF history'[m] = {} THEN deleted \ {m} ELSE deleted

Init ==
  /\ history = [m \in Memory |-> {}]
  /\ deleted = {}

Next ==
  \E m \in Memory :
    Delete(m) \/ Erase(m) \/ \E r \in Revision : Write(m, r) \/ Revise(m, r)

Spec == Init /\ [][Next]_ledgerVars
==============================================================================
