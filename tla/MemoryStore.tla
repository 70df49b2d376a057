----------------------------- MODULE MemoryStore -----------------------------
(***************************************************************************)
(* The versioned memory store of memoryhub_core.services.memory and the    *)
(* moderation operations of memoryhub_core.services.admin: the table       *)
(* memory_nodes, the S3 objects that hold oversized content, and the       *)
(* requests that are between two of their awaited calls.                   *)
(*                                                                         *)
(* A request runs in a database session of its own at READ COMMITTED and   *)
(* takes no row lock before it writes, so what it read may be stale when   *)
(* it commits.  Each action below is one uninterrupted piece of a request: *)
(* what it reads, or what one commit writes, or one call to S3.            *)
(***************************************************************************)
EXTENDS Naturals, FiniteSets, Functions

CONSTANTS
  NodeId,    \* the UUIDs that can be minted
  Client,    \* the requests that can be in progress at the same time
  None,      \* SQL NULL
  Contents,  \* the classes of content a request may write: [s3, chunked]
  Workload   \* what the environment may do besides create, update, delete

ASSUME NoneAssumption == None \notin NodeId
ASSUME ContentsAssumption == Contents \subseteq [s3 : BOOLEAN, chunked : BOOLEAN]
ASSUME WorkloadAssumption ==
  Workload \subseteq {"branch", "metadata", "quarantine", "hard_delete", "crash"}

VARIABLES
  nodes,     \* the rows of memory_nodes, by id
  objects,   \* the content_refs that name an object in the bucket
  minted,    \* every UUID handed out so far; none is handed out twice
  req        \* the request each client has in progress

vars == <<nodes, objects, minted, req>>

------------------------------------------------------------------------------
(* Types *)

Status == {"active", "quarantined"}

\* branch_type: NULL, "rationale" and the like, or "chunk".
BranchType == {"none", "branch", "chunk"}

\* The object key is {tenant}/{memory_id}/{version_id}, made of the id of the row
\* it was uploaded for: content_ref is modelled by that id.
Row == [logical : NodeId, prev : NodeId \cup {None}, parent : NodeId \cup {None},
        branch : BranchType, version : Nat, current : BOOLEAN, deleted : BOOLEAN,
        status : Status, ref : NodeId \cup {None}]

Idle == [op |-> "idle"]

InsertReq == [op : {"insert"}, new : NodeId, row : Row, chunked : BOOLEAN]
ChunkReq  == [op : {"chunk"}, new : NodeId]
UpdateReq == [op : {"update"}, old : NodeId, seen : Row, new : NodeId,
              changed : BOOLEAN, chunked : BOOLEAN, ref : NodeId \cup {None}]
DeleteReq == [op : {"delete"}, ids : SUBSET NodeId, refs : SUBSET NodeId]
CleanReq  == [op : {"clean"}, refs : SUBSET NodeId]

Request == {Idle} \cup InsertReq \cup ChunkReq \cup UpdateReq \cup DeleteReq \cup CleanReq

TypeOK ==
  /\ DOMAIN nodes \subseteq NodeId
  /\ \A n \in DOMAIN nodes : nodes[n] \in Row
  /\ objects \subseteq NodeId
  /\ minted \subseteq NodeId
  /\ req \in [Client -> Request]

------------------------------------------------------------------------------
(* Reading the table *)

\* What read_memory, and so every tool that acts on a memory, can see.
Readable(n) ==
  /\ n \in DOMAIN nodes
  /\ ~nodes[n].deleted
  /\ nodes[n].status = "active"

Children(S) == {n \in DOMAIN nodes : nodes[n].parent \in S}

\* hard_delete_memory walks backward only.
Predecessors(n) ==
  LET walk[k \in Nat] ==
        IF k = 0 THEN {n}
        ELSE LET seen == walk[k-1]
             IN seen \cup {m \in DOMAIN nodes : \E l \in seen : nodes[l].prev = m}
  IN walk[Cardinality(DOMAIN nodes)] \cap DOMAIN nodes

\* _walk_version_chain: back to the first version, then forward along the reverse
\* pointers until no row is added.  That is the component of n under prev.
VersionChain(n) ==
  LET walk[k \in Nat] ==
        IF k = 0 THEN {n}
        ELSE LET seen == walk[k-1]
             IN seen \cup {m \in DOMAIN nodes :
                  nodes[m].prev \in seen \/ \E l \in seen : nodes[l].prev = m}
  IN walk[Cardinality(DOMAIN nodes)] \cap DOMAIN nodes

Refs(S) == {nodes[n].ref : n \in S} \ {None}

Exists(id) == id = None \/ id \in DOMAIN nodes

\* uuid4().  Ids carry no information, so which unused one is taken is immaterial.
Unused == NodeId \ minted
NewId == CHOOSE n \in NodeId : n \notin minted

Running(c, op) == req[c].op = op
Finish(c) == req' = [req EXCEPT ![c] = Idle]
Continue(c, r) == req' = [req EXCEPT ![c] = r]

\* The upload of content above the threshold, before the commit of the row.
UploadSkipped(k, id) == objects
Uploaded(k, id) == IF k.s3 THEN objects \cup {id} ELSE objects
RefFor(k, id) == IF k.s3 THEN id ELSE None

\* After the commit of a row whose content needs chunks, the same request goes on to
\* create them in a second transaction.
AfterCommit(c, chunked, id) ==
  Continue(c, IF chunked THEN [op |-> "chunk", new |-> id] ELSE Idle)

------------------------------------------------------------------------------
(* create_memory *)

FirstVersion(id, parent, branch, ref) ==
  [logical |-> id, prev |-> None, parent |-> parent, branch |-> branch, version |-> 1,
   current |-> TRUE, deleted |-> FALSE, status |-> "active", ref |-> ref]

\* A branch names any row as its parent: the tool validates that parent_id and
\* branch_type come together, not that the parent is current or even live.
ParentChoices ==
  {<<None, "none">>}
    \cup (IF "branch" \in Workload THEN (DOMAIN nodes) \X {"branch"} ELSE {})

\* Everything up to and including the upload of oversized content.
StartCreate(c) ==
  /\ Running(c, "idle")
  /\ Unused # {}
  /\ \E k \in Contents, p \in ParentChoices :
       LET id == NewId
       IN /\ minted' = minted \cup {id}
          /\ objects' = Uploaded(k, id)
          /\ Continue(c, [op |-> "insert", new |-> id, chunked |-> k.chunked,
               row |-> FirstVersion(id, p[1], p[2], RefFor(k, id))])
  /\ UNCHANGED nodes

\* The commit of the new row.
CommitCreate(c) ==
  LET r == req[c]
  IN /\ Running(c, "insert")
     /\ Exists(r.row.parent)
     /\ nodes' = [n \in DOMAIN nodes \cup {r.new} |-> IF n = r.new THEN r.row ELSE nodes[n]]
     /\ AfterCommit(c, r.chunked, r.new)
     /\ UNCHANGED <<objects, minted>>

\* _create_chunk_children.  One row stands for all chunks of a memory: they are inserted
\* by one commit and retired, copied and deleted together.
CommitChunks(c) ==
  LET r == req[c]
      id == NewId
      chunk == FirstVersion(id, r.new, "chunk", None)
  IN /\ Running(c, "chunk")
     /\ r.new \in DOMAIN nodes
     /\ Unused # {}
     /\ minted' = minted \cup {id}
     /\ nodes' = [n \in DOMAIN nodes \cup {id} |-> IF n = id THEN chunk ELSE nodes[n]]
     /\ Finish(c)
     /\ UNCHANGED objects

\* The embedding of the chunks or their commit fails: the exception is logged and dropped.
LoseChunks(c) ==
  /\ Running(c, "chunk")
  /\ Finish(c)
  /\ UNCHANGED <<nodes, objects, minted>>

------------------------------------------------------------------------------
(* update_memory *)

Updatable(n) == Readable(n) /\ nodes[n].current

\* Reads the row, checks that it is current, and uploads changed content.
StartUpdate(c) ==
  /\ Running(c, "idle")
  /\ Unused # {}
  /\ \E old \in DOMAIN nodes :
       /\ Updatable(old)
       /\ LET id == NewId
              start(changed, chunked, ref) ==
                Continue(c, [op |-> "update", old |-> old, seen |-> nodes[old], new |-> id,
                             changed |-> changed, chunked |-> chunked, ref |-> ref])
          IN /\ minted' = minted \cup {id}
             /\ \/ \E k \in Contents :
                     /\ objects' = Uploaded(k, id)
                     /\ start(TRUE, k.chunked, RefFor(k, id))
                \/ /\ "metadata" \in Workload
                   /\ start(FALSE, FALSE, nodes[old].ref)
                   /\ UNCHANGED objects
  /\ UNCHANGED nodes

RenumberedVersion(r) ==
  [logical |-> r.seen.logical, prev |-> r.old, parent |-> r.seen.parent,
   branch |-> r.seen.branch, version |-> 1, current |-> TRUE,
   deleted |-> FALSE, status |-> "active", ref |-> r.ref]
NextVersion(r) ==
  [logical |-> r.seen.logical, prev |-> r.old, parent |-> r.seen.parent,
   branch |-> r.seen.branch, version |-> r.seen.version + 1, current |-> TRUE,
   deleted |-> FALSE, status |-> "active", ref |-> r.ref]

\* The children of the old version that are copied under the new one: all of them,
\* whatever their own is_current and deleted_at, except chunks of replaced content.
CopiedChildren(r) ==
  {n \in Children({r.old}) : ~(nodes[n].branch = "chunk" /\ r.changed)}

CopyOf(row, parent) ==
  [row EXCEPT !.parent = parent, !.prev = None, !.current = TRUE, !.deleted = FALSE,
              !.status = "active"]

\* The old version and all its children are retired.  The flush sets is_current to false
\* by primary key and leaves the other columns as they are by then.
RetiredChildren(r) == Children({r.old})
RetiredRows(r) == {r.old} \cup Children({r.old})

WrittenBack(r, n) == [(IF n = r.old THEN r.seen ELSE nodes[n]) EXCEPT !.current = FALSE]
Retired(r, n) == [nodes[n] EXCEPT !.current = FALSE]

\* Flush and commit.
CommitUpdate(c) ==
  LET r == req[c]
      copied == CopiedChildren(r)
      idsFor == Injection(copied, Unused)
      copyId == CHOOSE f \in idsFor : TRUE
      copies == {copyId[n] : n \in copied}
      original(m) == CHOOSE n \in copied : copyId[n] = m
  IN /\ Running(c, "update")
     /\ r.old \in DOMAIN nodes
     /\ Exists(r.seen.parent)
     /\ idsFor # {}
     /\ minted' = minted \cup copies
     /\ nodes' = [n \in DOMAIN nodes \cup {r.new} \cup copies |->
                    CASE n = r.new -> NextVersion(r)
                      [] n \in copies -> CopyOf(nodes[original(n)], r.new)
                      [] n \in RetiredRows(r) -> Retired(r, n)
                      [] OTHER -> nodes[n]]
     /\ AfterCommit(c, r.chunked, r.new)
     /\ UNCHANGED objects

\* The row a request was about to refer to was hard-deleted: the flush matches no row
\* (StaleDataError) or breaks the foreign key, and the transaction is rolled back.  The
\* object it had uploaded stays.
FailCommit(c) ==
  LET r == req[c]
  IN /\ \/ Running(c, "insert") /\ ~Exists(r.row.parent)
        \/ Running(c, "update") /\ ~(r.old \in DOMAIN nodes /\ Exists(r.seen.parent))
     /\ Finish(c)
     /\ UNCHANGED <<nodes, objects, minted>>

------------------------------------------------------------------------------
(* delete_memory *)

\* Reads the row, walks its chain, collects the branches of every version and the
\* content_refs of all of them.
StartDelete(c) ==
  /\ Running(c, "idle")
  /\ \E n \in DOMAIN nodes :
       /\ Readable(n)
       /\ LET chain == VersionChain(n)
              ids == chain \cup Children(chain)
          IN Continue(c, [op |-> "delete", ids |-> ids, refs |-> Refs(ids)])
  /\ UNCHANGED <<nodes, objects, minted>>

SoftDeleted(row) == [row EXCEPT !.deleted = TRUE, !.current = FALSE]

\* The bulk UPDATE by id and its commit.
CommitDelete(c) ==
  LET r == req[c]
  IN /\ Running(c, "delete")
     /\ nodes' = [n \in DOMAIN nodes |->
                    IF n \in r.ids THEN SoftDeleted(nodes[n]) ELSE nodes[n]]
     /\ Continue(c, IF r.refs = {} THEN Idle ELSE [op |-> "clean", refs |-> r.refs])
     /\ UNCHANGED <<objects, minted>>

\* delete_contents, after the commit.
CleanObjects(c) ==
  /\ Running(c, "clean")
  /\ objects' = objects \ req[c].refs
  /\ Finish(c)
  /\ UNCHANGED <<nodes, minted>>

------------------------------------------------------------------------------
(* Moderation (services/admin.py), each one transaction *)

SetStatus(n, from, to) ==
  /\ "quarantine" \in Workload
  /\ ~nodes[n].deleted
  /\ nodes[n].status \in from
  /\ nodes' = [nodes EXCEPT ![n].status = to]
  /\ UNCHANGED <<objects, minted, req>>

Quarantine(n) == SetStatus(n, Status, "quarantined")
Restore(n) == SetStatus(n, {"quarantined"}, "active")

\* Removes the row, its predecessors and the branches of each.  ON DELETE SET NULL
\* clears the pointers of the rows that stay; the objects are not touched.
HardDelete(n) ==
  LET chain == Predecessors(n)
      gone == chain \cup Children(chain)
      clear(id) == IF id \in gone THEN None ELSE id
  IN /\ "hard_delete" \in Workload
     /\ nodes' = [m \in DOMAIN nodes \ gone |->
                    [nodes[m] EXCEPT !.prev = clear(@), !.parent = clear(@)]]
     /\ UNCHANGED <<objects, minted, req>>

------------------------------------------------------------------------------

\* The process is killed, or the call cancelled, between two awaited calls.
Crash(c) ==
  /\ "crash" \in Workload
  /\ ~Running(c, "idle")
  /\ Finish(c)
  /\ UNCHANGED <<nodes, objects, minted>>

Init ==
  /\ nodes = [n \in {} |-> None]
  /\ objects = {}
  /\ minted = {}
  /\ req = [c \in Client |-> Idle]

\* Every step of a request but the commit of an update, which MemoryGraph extends.
StepBesidesUpdate(c) ==
  \/ StartCreate(c) \/ CommitCreate(c) \/ CommitChunks(c) \/ LoseChunks(c)
  \/ StartUpdate(c) \/ FailCommit(c)
  \/ StartDelete(c) \/ CommitDelete(c) \/ CleanObjects(c)
  \/ Crash(c)

ClientStep(c) == CommitUpdate(c) \/ StepBesidesUpdate(c)

Next ==
  \/ \E c \in Client : ClientStep(c)
  \/ \E n \in DOMAIN nodes : Quarantine(n) \/ Restore(n) \/ HardDelete(n)

Spec == Init /\ [][Next]_vars

------------------------------------------------------------------------------
(* What holds whatever requests overlap *)

\* The version pointers describe a history: a row that replaces another is the next
\* version of the same logical memory, and the row it replaced is not current.  Two
\* requests, or a request and a hard delete, must not break this between them.
ChainWellFormed ==
  \A n \in DOMAIN nodes :
    LET p == nodes[n].prev
    IN p # None =>
         /\ p \in DOMAIN nodes
         /\ nodes[n].version = nodes[p].version + 1
         /\ nodes[n].logical = nodes[p].logical
         /\ ~nodes[p].current

\* delete_memory and update_memory both write is_current: no order of their commits
\* leaves a row that is deleted and yet counted as current.
DeletedNotCurrent == \A n \in DOMAIN nodes : nodes[n].deleted => ~nodes[n].current

\* A commit based on an old read must not undo what was committed since: while its row
\* exists, a deleted version stays deleted, a superseded one stays superseded, and what
\* a version says (its number, its logical memory, its content_ref) never changes.
HistoryIsKept ==
  [][\A n \in DOMAIN nodes \cap DOMAIN nodes' :
       /\ nodes[n].deleted => nodes'[n].deleted
       /\ nodes'[n].current => nodes[n].current
       /\ nodes'[n].version = nodes[n].version
       /\ nodes'[n].logical = nodes[n].logical
       /\ nodes'[n].ref = nodes[n].ref]_vars

\* An id names one row for ever: the rows that a commit adds were named by no earlier row,
\* even one that a hard delete removed, and by no request other than the one that commits.
IdsAreMintedOnce ==
  /\ DOMAIN nodes \subseteq minted
  /\ objects \subseteq minted
  /\ \A c \in Client :
       req[c].op \in {"insert", "update"} =>
         /\ req[c].new \in minted \ DOMAIN nodes
         /\ \A d \in Client \ {c} :
              req[d].op \in {"insert", "update"} => req[d].new # req[c].new

\* A commit of update_memory relies on what the request read before its uploads: the id it
\* read names that same version or no row at all, whatever was removed and added meanwhile,
\* and the number and logical id it copies from are still those of the row.
ReadsStayValid ==
  \A c \in Client :
    LET r == req[c]
    IN /\ r.op = "insert" => r.row.prev = None /\ ~r.row.deleted
       /\ r.op = "update" =>
            /\ r.old \in minted
            /\ \A d \in Client : req[d].op \in {"insert", "update"} => req[d].new # r.old
            /\ r.old \in DOMAIN nodes =>
                 /\ nodes[r.old].version = r.seen.version
                 /\ nodes[r.old].logical = r.seen.logical

------------------------------------------------------------------------------
(* What holds of a store that serves one request at a time *)

\* A version is replaced at most once: the history of a memory is a line, which is what
\* get_memory_history presents when it sorts the chain by version.
HistoryIsLinear ==
  \A m, n \in DOMAIN nodes : nodes[m].prev = nodes[n].prev /\ nodes[m].prev # None => m = n

\* read_memory follows a superseded version to the current one of its chain: there is at
\* most one.
AtMostOneCurrent ==
  \A n \in DOMAIN nodes : \A m \in VersionChain(n) :
    nodes[n].current /\ nodes[m].current => m = n

\* Deleting any version deletes the memory: no version of it, and no copy of it made when
\* its parent was updated, is live afterwards.
DeletionIsFinal ==
  \A m, n \in DOMAIN nodes :
    nodes[m].logical = nodes[n].logical /\ nodes[n].deleted => nodes[m].deleted

\* The content of every version that can be read is in the bucket.  It depends on the
\* upload coming before the commit of a write, and the removal after that of a delete.
NoDanglingRef ==
  \A n \in DOMAIN nodes :
    ~nodes[n].deleted /\ nodes[n].ref # None => nodes[n].ref \in objects

\* The rows of a logical memory, read as the numbered revisions of MemoryLedger.
RowsOf(l) == {n \in DOMAIN nodes : nodes[n].logical = l}

Ledger == INSTANCE MemoryLedger WITH
  Memory <- NodeId,
  Revision <- NodeId,
  history <- [l \in NodeId |-> {<<nodes[n].version, n>> : n \in RowsOf(l)}],
  deleted <- {l \in NodeId : RowsOf(l) # {} /\ \A n \in RowsOf(l) : nodes[n].deleted}

\* The store keeps the ledger's promise: each update adds the next revision of the memory
\* it names, and a delete, by whatever version, removes the memory and nothing else.
KeepsLedger == Ledger!Spec

------------------------------------------------------------------------------
(* What the documents say of the store *)

\* The rows a search may return: the matches are live, active and current
\* (_build_search_filters); _expand_chunks_to_parents then puts the parent in place of a
\* chunk, and asks of the parent only that it is not deleted.
Matches ==
  {n \in DOMAIN nodes : ~nodes[n].deleted /\ nodes[n].status = "active" /\ nodes[n].current}

IsChunk(n) == nodes[n].branch = "chunk" /\ nodes[n].parent # None

SearchResults ==
  {n \in Matches : ~IsChunk(n)}
    \cup {p \in DOMAIN nodes :
            ~nodes[p].deleted /\ \E n \in Matches : IsChunk(n) /\ nodes[n].parent = p}

\* "no search will return" a quarantined memory (docs/admin/content-moderation.md).
SearchHidesQuarantined == \A n \in SearchResults : nodes[n].status = "active"

\* A quarantined memory stays hidden until it is restored: no new, active version is made
\* of a version that is in quarantine.
QuarantineHolds ==
  [][\A n \in DOMAIN nodes' \ DOMAIN nodes :
       LET p == nodes'[n].prev
       IN p # None => nodes[p].status = "active"]_vars
==============================================================================
