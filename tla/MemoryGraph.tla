----------------------------- MODULE MemoryGraph -----------------------------
(***************************************************************************)
(* The typed edges between memories (memoryhub_core.services.graph and the *)
(* table memory_relationships) on top of the versioned store.  An edge     *)
(* names rows, that is versions: update_memory moves the active edges of   *)
(* the version it replaces to the new one, hard_delete_memory removes the  *)
(* edges of the rows it removes, and delete_memory leaves edges alone      *)
(* because queries filter those that touch deleted rows.                   *)
(*                                                                         *)
(* One relationship type is modelled: edges of different types never meet. *)
(***************************************************************************)
EXTENDS MemoryStore

CONSTANT EdgeId  \* the UUIDs of edges

VARIABLES
  edges,  \* the rows of memory_relationships, by id
  link    \* the create_relationship call each client has in progress, or None

graphVars == <<edges, link>>

Edge == [from : NodeId, to : NodeId, open : BOOLEAN]  \* open: valid_until IS NULL

LinkReq == [id : EdgeId, from : NodeId, to : NodeId]

GraphTypeOK ==
  /\ DOMAIN edges \subseteq EdgeId
  /\ \A e \in DOMAIN edges : edges[e] \in Edge
  /\ link \in [Client -> LinkReq \cup {None}]
  /\ \A c \in Client : link[c] # None => Running(c, "idle")

\* A client is free to start a call.
Free(c) == Running(c, "idle") /\ link[c] = None

------------------------------------------------------------------------------

\* _fetch_both_nodes: both ends must be current and not deleted when they are read.
\* The UUID of the edge is minted here; the client set bounds how many are pending.
StartLink(c) ==
  /\ Free(c)
  /\ \E e \in EdgeId \ DOMAIN edges, m, n \in DOMAIN nodes :
       /\ m # n
       /\ \A k \in {m, n} : nodes[k].current /\ ~nodes[k].deleted
       /\ \A d \in Client : link[d] # None => link[d].id # e
       /\ link' = [link EXCEPT ![c] = [id |-> e, from |-> m, to |-> n]]
  /\ UNCHANGED <<vars, edges>>

\* uq_memory_relationships_active_edge and the two foreign keys.
NotYetLinked(l) ==
  \A e \in DOMAIN edges :
    edges[e].open => ~(edges[e].from = l.from /\ edges[e].to = l.to)
Insertable(l) == NotYetLinked(l) /\ {l.from, l.to} \subseteq DOMAIN nodes

CommitLink(c) ==
  LET l == link[c]
  IN /\ l # None
     /\ Insertable(l)
     /\ edges' = [e \in DOMAIN edges \cup {l.id} |->
                    IF e = l.id THEN [from |-> l.from, to |-> l.to, open |-> TRUE]
                    ELSE edges[e]]
     /\ link' = [link EXCEPT ![c] = None]
     /\ UNCHANGED vars

\* IntegrityError: rolled back and reported; or the call is killed before its commit.
FailLink(c) ==
  /\ link[c] # None
  /\ ~Insertable(link[c]) \/ "crash" \in Workload
  /\ link' = [link EXCEPT ![c] = None]
  /\ UNCHANGED <<vars, edges>>

\* invalidate_relationship: the UPDATE asks again that the edge is active.
Invalidate(e) ==
  /\ edges[e].open
  /\ edges' = [edges EXCEPT ![e].open = FALSE]
  /\ UNCHANGED <<vars, link>>

\* delete_relationship
Unlink(e) ==
  /\ edges' = [f \in DOMAIN edges \ {e} |-> edges[f]]
  /\ UNCHANGED <<vars, link>>

------------------------------------------------------------------------------
(* What the operations of the store do to edges *)

\* The two UPDATEs inside update_memory.
Moved(id, old, new) == IF id = old THEN new ELSE id

RepointedMemory(old, new) ==
  LET of(id) == IF nodes[id].logical = nodes[old].logical THEN new ELSE id
  IN [e \in DOMAIN edges |->
        IF edges[e].open THEN [edges[e] EXCEPT !.from = of(@), !.to = of(@)] ELSE edges[e]]

Repointed(old, new) ==
  [e \in DOMAIN edges |->
     IF edges[e].open
     THEN [edges[e] EXCEPT !.from = Moved(@, old, new), !.to = Moved(@, old, new)]
     ELSE edges[e]]

UpdateWithEdges(c) ==
  /\ CommitUpdate(c)
  /\ edges' = Repointed(req[c].old, req[c].new)
  /\ UNCHANGED link

HardDeleteWithEdges(n) ==
  LET kept == {e \in DOMAIN edges : {edges[e].from, edges[e].to} \subseteq DOMAIN nodes'}
  IN /\ HardDelete(n)
     /\ edges' = [e \in kept |-> edges[e]]
     /\ UNCHANGED link

GraphInit ==
  /\ Init
  /\ edges = [e \in {} |-> None]
  /\ link = [c \in Client |-> None]

GraphNext ==
  \/ \E c \in Client :
       \/ UpdateWithEdges(c)
       \/ link[c] = None /\ StepBesidesUpdate(c) /\ UNCHANGED graphVars
       \/ StartLink(c) \/ CommitLink(c) \/ FailLink(c)
  \/ \E e \in DOMAIN edges : Invalidate(e) \/ Unlink(e)
  \/ \E n \in DOMAIN nodes :
       \/ HardDeleteWithEdges(n)
       \/ (Quarantine(n) \/ Restore(n)) /\ UNCHANGED graphVars

GraphSpec == GraphInit /\ [][GraphNext]_<<vars, graphVars>>

------------------------------------------------------------------------------

\* Moving edges from version to version never makes two active edges of one pair, which
\* the unique index would answer by failing an update that has nothing to do with edges.
OneActiveEdgePerPair ==
  \A e, f \in DOMAIN edges :
    /\ edges[e].open /\ edges[f].open
    /\ edges[e].from = edges[f].from /\ edges[e].to = edges[f].to
    => e = f

\* An edge never dangles: whatever is linked, replaced and removed at the same time, both
\* ends of every edge are rows.
EdgesHaveEnds == \A e \in DOMAIN edges : {edges[e].from, edges[e].to} \subseteq DOMAIN nodes

\* An edge that was invalidated is a record of the past: it is neither reopened nor moved
\* to a version that did not exist when it held.
InvalidatedEdgesAreKept ==
  [][\A e \in DOMAIN edges \cap DOMAIN edges' :
       ~edges[e].open => edges'[e] = edges[e]]_edges

\* update_memory means to "re-point active graph edges from old version to new version":
\* an active edge joins versions that are current, or deleted and so filtered out.
EdgesFollowVersions ==
  \A e \in DOMAIN edges :
    edges[e].open =>
      \A n \in {edges[e].from, edges[e].to} : nodes[n].current \/ nodes[n].deleted
==============================================================================
