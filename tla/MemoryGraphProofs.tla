-------------------------- MODULE MemoryGraphProofs --------------------------
(* Theorems about MemoryStore, whatever requests overlap and one request at a time, and *)
(* about MemoryGraph, a step of which is a step of the store or leaves it as it is; for *)
(* every value of their constants.                                                      *)
EXTENDS MemoryGraph, FiniteSetTheorems, TLAPS

(* A request that says what it is doing has the fields of that kind of request. *)
LEMMA RequestKinds ==
  ASSUME NEW r \in Request
  PROVE  /\ r.op = "insert" => r \in InsertReq
         /\ r.op = "chunk" => r \in ChunkReq
         /\ r.op = "update" => r \in UpdateReq
         /\ r.op = "delete" => r \in DeleteReq
         /\ r.op = "clean" => r \in CleanReq
BY DEF Request, Idle, InsertReq, ChunkReq, UpdateReq, DeleteReq, CleanReq

(* A minted UUID is one that was not handed out before. *)
LEMMA NewIdIsUnused ==
  ASSUME Unused # {}
  PROVE  NewId \in Unused
BY DEF Unused, NewId

(* A chain consists of rows. *)
LEMMA ChainsAreRows ==
  ASSUME NEW n
  PROVE  /\ VersionChain(n) \subseteq DOMAIN nodes
         /\ Predecessors(n) \subseteq DOMAIN nodes
<1>1. VersionChain(n) \subseteq DOMAIN nodes
  BY Zenon DEF VersionChain
<1>2. Predecessors(n) \subseteq DOMAIN nodes
  BY Zenon DEF Predecessors
<1>3. QED BY <1>1, <1>2

(* The content_refs of rows are ids. *)
LEMMA RefsAreIds ==
  ASSUME TypeOK, NEW S \in SUBSET DOMAIN nodes
  PROVE  Refs(S) \subseteq NodeId
BY DEF Refs, TypeOK, Row

(* What update_memory commits: the new version, a copy under it of each child it keeps, *)
(* all named by unused ids, and the retirement of the old version and its children.     *)
UpdateCommitted(r, copies, original) ==
  LET new == {r.new} \cup copies
  IN /\ minted' = minted \cup copies
     /\ DOMAIN nodes' = DOMAIN nodes \cup new
     /\ nodes'[r.new] = NextVersion(r)
     /\ \A n \in copies \ {r.new} : nodes'[n] = CopyOf(nodes[original[n]], r.new)
     /\ \A n \in DOMAIN nodes \ new :
          nodes'[n] = IF n \in RetiredRows(r) THEN Retired(r, n) ELSE nodes[n]

LEMMA UpdateCommits ==
  ASSUME IdsAreMintedOnce, NEW c \in Client, CommitUpdate(c)
  PROVE  \E copies \in SUBSET Unused :
           \E original \in [copies -> CopiedChildren(req[c])] :
             UpdateCommitted(req[c], copies, original)
<1> DEFINE r == req[c]
           copied == CopiedChildren(r)
           idsFor == Injection(copied, Unused)
           copyId == CHOOSE f \in idsFor : TRUE
           copies == {copyId[n] : n \in copied}
           original == [m \in copies |-> CHOOSE n \in copied : copyId[n] = m]
<1>1. copyId \in [copied -> Unused]
  <2>1. idsFor # {}
    BY DEF CommitUpdate
  <2>2. copyId \in idsFor
    BY <2>1
  <2>3. QED BY <2>2 DEF Injection
<1>2. copies \in SUBSET Unused
  BY <1>1
<1>3. original \in [copies -> copied]
  OBVIOUS
<1>4. /\ minted' = minted \cup copies
      /\ nodes' = [n \in DOMAIN nodes \cup {r.new} \cup copies |->
                     CASE n = r.new -> NextVersion(r)
                       [] n \in copies -> CopyOf(nodes[CHOOSE m \in copied : copyId[m] = n],
                                                 r.new)
                       [] n \in RetiredRows(r) -> Retired(r, n)
                       [] OTHER -> nodes[n]]
  BY DEF CommitUpdate
<1>5. \A n \in copies : original[n] = CHOOSE m \in copied : copyId[m] = n
  OBVIOUS
<1> HIDE DEF copied, copyId, copies, original
<1>a. RetiredRows(r) \subseteq DOMAIN nodes
  BY DEF RetiredRows, Children, CommitUpdate
<1>b. /\ r.new \notin DOMAIN nodes
      /\ r.new \notin copies
      /\ copies \cap DOMAIN nodes = {}
  BY <1>2 DEF IdsAreMintedOnce, Unused, CommitUpdate, Running
<1>6. DOMAIN nodes' = DOMAIN nodes \cup (copies \cup {r.new})
  BY <1>4
<1>7. nodes'[r.new] = NextVersion(r)
  BY <1>4, <1>a, <1>b
<1>8. \A n \in copies \ {r.new} : nodes'[n] = CopyOf(nodes[original[n]], r.new)
  BY <1>4, <1>5, <1>a, <1>b
<1>9. \A n \in DOMAIN nodes \ (copies \cup {r.new}) :
        nodes'[n] = IF n \in RetiredRows(r) THEN Retired(r, n) ELSE nodes[n]
  BY <1>4, <1>a, <1>b
<1>10. UpdateCommitted(r, copies, original)
  BY <1>4, <1>6, <1>7, <1>8, <1>9 DEF UpdateCommitted
<1>11. QED BY <1>2, <1>3, <1>10 DEF copied

------------------------------------------------------------------------------
(* Type correctness *)

LEMMA FirstVersionType ==
  ASSUME NEW id \in NodeId, NEW parent \in NodeId \cup {None}, NEW branch \in BranchType,
         NEW ref \in NodeId \cup {None}
  PROVE  FirstVersion(id, parent, branch, ref) \in Row
BY DEF FirstVersion, Row, Status

LEMMA ContinueType ==
  ASSUME TypeOK, NEW c \in Client, NEW r \in Request, Continue(c, r)
  PROVE  req' \in [Client -> Request]
BY DEF TypeOK, Continue

LEMMA FinishType ==
  ASSUME TypeOK, NEW c \in Client, Finish(c)
  PROVE  req' \in [Client -> Request]
BY DEF TypeOK, Finish, Request

LEMMA AfterCommitType ==
  ASSUME TypeOK, NEW c \in Client, NEW chunked \in BOOLEAN, NEW id \in NodeId,
         AfterCommit(c, chunked, id)
  PROVE  req' \in [Client -> Request]
<1>1. (IF chunked THEN [op |-> "chunk", new |-> id] ELSE Idle) \in Request
  BY DEF Request, ChunkReq
<1>2. QED BY <1>1, ContinueType DEF AfterCommit

LEMMA StartCreateType ==
  ASSUME TypeOK, NEW c \in Client, StartCreate(c)
  PROVE  TypeOK'
<1> DEFINE id == NewId
<1>1. id \in NodeId
  BY NewIdIsUnused DEF StartCreate, Unused
<1>2. PICK k \in Contents, p \in ParentChoices :
        /\ minted' = minted \cup {id}
        /\ objects' = Uploaded(k, id)
        /\ Continue(c, [op |-> "insert", new |-> id, chunked |-> k.chunked,
             row |-> FirstVersion(id, p[1], p[2], RefFor(k, id))])
  BY DEF StartCreate
<1>3. p[1] \in NodeId \cup {None} /\ p[2] \in BranchType
  BY DEF ParentChoices, TypeOK, BranchType
<1>4. RefFor(k, id) \in NodeId \cup {None} /\ k.chunked \in BOOLEAN
  BY <1>1, ContentsAssumption DEF RefFor
<1>5. FirstVersion(id, p[1], p[2], RefFor(k, id)) \in Row
  BY <1>1, <1>3, <1>4, FirstVersionType
<1>6. req' \in [Client -> Request]
  BY <1>1, <1>2, <1>4, <1>5, ContinueType DEF Request, InsertReq
<1>7. objects' \subseteq NodeId /\ minted' \subseteq NodeId
  BY <1>1, <1>2 DEF TypeOK, Uploaded
<1>8. QED BY <1>6, <1>7 DEF TypeOK, StartCreate

LEMMA CommitCreateType ==
  ASSUME TypeOK, NEW c \in Client, CommitCreate(c)
  PROVE  TypeOK'
<1>1. req[c] \in InsertReq
  BY RequestKinds DEF TypeOK, CommitCreate, Running
<1>2. req' \in [Client -> Request]
  BY <1>1, AfterCommitType DEF CommitCreate, InsertReq
<1>3. /\ DOMAIN nodes' \subseteq NodeId
      /\ \A n \in DOMAIN nodes' : nodes'[n] \in Row
  BY <1>1 DEF TypeOK, CommitCreate, InsertReq
<1>4. QED BY <1>2, <1>3 DEF TypeOK, CommitCreate

LEMMA CommitChunksType ==
  ASSUME TypeOK, NEW c \in Client, CommitChunks(c)
  PROVE  TypeOK'
<1>1. NewId \in NodeId /\ req[c].new \in NodeId
  BY NewIdIsUnused DEF TypeOK, CommitChunks, Unused
<1>2. FirstVersion(NewId, req[c].new, "chunk", None) \in Row
  BY <1>1, FirstVersionType DEF BranchType
<1>3. req' \in [Client -> Request]
  BY FinishType DEF CommitChunks
<1>4. /\ DOMAIN nodes' \subseteq NodeId
      /\ \A n \in DOMAIN nodes' : nodes'[n] \in Row
  BY <1>1, <1>2 DEF TypeOK, CommitChunks
<1>5. QED BY <1>1, <1>3, <1>4 DEF TypeOK, CommitChunks

LEMMA StartUpdateType ==
  ASSUME TypeOK, NEW c \in Client, StartUpdate(c)
  PROVE  TypeOK'
<1> DEFINE id == NewId
           start(old, changed, chunked, ref) ==
             [op |-> "update", old |-> old, seen |-> nodes[old], new |-> id,
              changed |-> changed, chunked |-> chunked, ref |-> ref]
<1>1. id \in NodeId
  BY NewIdIsUnused DEF StartUpdate, Unused
<1>2. PICK old \in DOMAIN nodes :
        /\ minted' = minted \cup {id}
        /\ \/ \E k \in Contents :
                /\ objects' = Uploaded(k, id)
                /\ Continue(c, start(old, TRUE, k.chunked, RefFor(k, id)))
           \/ /\ Continue(c, start(old, FALSE, FALSE, nodes[old].ref))
              /\ UNCHANGED objects
  BY DEF StartUpdate
<1>3. \A chunked \in BOOLEAN, changed \in BOOLEAN, ref \in NodeId \cup {None} :
        start(old, changed, chunked, ref) \in Request
  BY <1>1 DEF TypeOK, Request, UpdateReq
<1>4. \A k \in Contents : RefFor(k, id) \in NodeId \cup {None} /\ k.chunked \in BOOLEAN
  BY <1>1, ContentsAssumption DEF RefFor
<1>5. nodes[old].ref \in NodeId \cup {None}
  BY DEF TypeOK, Row
<1>6. req' \in [Client -> Request]
  BY <1>2, <1>3, <1>4, <1>5, ContinueType
<1>7. objects' \subseteq NodeId /\ minted' \subseteq NodeId
  BY <1>1, <1>2 DEF TypeOK, Uploaded
<1>8. QED BY <1>6, <1>7 DEF TypeOK, StartUpdate

LEMMA CommitUpdateType ==
  ASSUME TypeOK, IdsAreMintedOnce, NEW c \in Client, CommitUpdate(c)
  PROVE  TypeOK'
<1> DEFINE r == req[c]
<1>1. r \in UpdateReq
  BY RequestKinds DEF TypeOK, CommitUpdate, Running
<1>0. PICK copies \in SUBSET Unused :
        \E original \in [copies -> CopiedChildren(r)] :
          UpdateCommitted(r, copies, original)
  BY UpdateCommits
<1>2. PICK original \in [copies -> CopiedChildren(r)] :
        UpdateCommitted(r, copies, original)
  BY <1>0
<1>3. req' \in [Client -> Request]
  BY <1>1, AfterCommitType DEF CommitUpdate, UpdateReq
<1>4. minted' \subseteq NodeId /\ DOMAIN nodes' \subseteq NodeId
  BY <1>1, <1>2 DEF UpdateCommitted, TypeOK, Unused, UpdateReq
<1>5. ASSUME NEW n \in DOMAIN nodes' PROVE nodes'[n] \in Row
  <2>1. NextVersion(r) \in Row
    BY <1>1 DEF NextVersion, UpdateReq, Row, Status
  <2>2. ASSUME n \in copies PROVE CopyOf(nodes[original[n]], r.new) \in Row
    <3>1. nodes[original[n]] \in Row
      BY <1>2, <2>2 DEF CopiedChildren, Children, TypeOK
    <3>2. QED BY <1>1, <3>1 DEF CopyOf, Row, UpdateReq, Status
  <2>3. ASSUME n \in DOMAIN nodes PROVE nodes[n] \in Row /\ Retired(r, n) \in Row
    BY <2>3 DEF TypeOK, Retired, Row
  <2>4. CASE n = r.new
    BY <1>2, <2>1, <2>4 DEF UpdateCommitted
  <2>5. CASE n \in copies \ {r.new}
    BY <1>2, <2>2, <2>5 DEF UpdateCommitted
  <2>6. CASE n \notin copies \cup {r.new}
    BY <1>2, <2>3, <2>6 DEF UpdateCommitted
  <2>7. QED BY <2>4, <2>5, <2>6
<1>6. QED BY <1>3, <1>4, <1>5 DEF TypeOK, CommitUpdate

LEMMA StartDeleteType ==
  ASSUME TypeOK, NEW c \in Client, StartDelete(c)
  PROVE  TypeOK'
<1>1. PICK n \in DOMAIN nodes :
        LET chain == VersionChain(n)
            ids == chain \cup Children(chain)
        IN Continue(c, [op |-> "delete", ids |-> ids, refs |-> Refs(ids)])
  BY DEF StartDelete
<1> DEFINE ids == VersionChain(n) \cup Children(VersionChain(n))
<1>2. ids \in SUBSET DOMAIN nodes
  BY ChainsAreRows DEF Children
<1>3. Refs(ids) \subseteq NodeId /\ ids \subseteq NodeId
  BY <1>2, RefsAreIds DEF TypeOK
<1> HIDE DEF ids
<1>4. [op |-> "delete", ids |-> ids, refs |-> Refs(ids)] \in Request
  BY <1>3 DEF Request, DeleteReq
<1>5. req' \in [Client -> Request]
  BY <1>1, <1>4, ContinueType DEF ids
<1>6. QED BY <1>5 DEF TypeOK, StartDelete

LEMMA CommitDeleteType ==
  ASSUME TypeOK, NEW c \in Client, CommitDelete(c)
  PROVE  TypeOK'
<1>1. req[c] \in DeleteReq
  BY RequestKinds DEF TypeOK, CommitDelete, Running
<1>2. (IF req[c].refs = {} THEN Idle ELSE [op |-> "clean", refs |-> req[c].refs])
        \in Request
  BY <1>1 DEF Request, DeleteReq, CleanReq
<1>3. req' \in [Client -> Request]
  BY <1>2, ContinueType DEF CommitDelete
<1>4. /\ DOMAIN nodes' \subseteq NodeId
      /\ \A n \in DOMAIN nodes' : nodes'[n] \in Row
  <2>1. \A n \in DOMAIN nodes : nodes[n] \in Row /\ SoftDeleted(nodes[n]) \in Row
    BY DEF TypeOK, SoftDeleted, Row
  <2>2. QED BY <2>1 DEF TypeOK, CommitDelete
<1>5. QED BY <1>3, <1>4 DEF TypeOK, CommitDelete

LEMMA HardDeleteType ==
  ASSUME TypeOK, NEW n \in DOMAIN nodes, HardDelete(n)
  PROVE  TypeOK'
<1> DEFINE gone == Predecessors(n) \cup Children(Predecessors(n))
           clear(id) == IF id \in gone THEN None ELSE id
           cleared(m) == [nodes[m] EXCEPT !.prev = clear(@), !.parent = clear(@)]
<1> HIDE DEF gone
<1>1. \A m \in DOMAIN nodes : cleared(m) \in Row
  BY DEF TypeOK, Row
<1>2. nodes' = [m \in DOMAIN nodes \ gone |-> cleared(m)]
  BY DEF HardDelete, gone
<1>3. /\ DOMAIN nodes' \subseteq NodeId
      /\ \A m \in DOMAIN nodes' : nodes'[m] \in Row
  BY <1>1, <1>2 DEF TypeOK
<1>4. QED BY <1>3 DEF TypeOK, HardDelete

------------------------------------------------------------------------------
(* Which ids are in use *)

(* The ids a step may give to rows and requests: those it hands out itself, and those *)
(* handed out before to a request that now commits.                                   *)
LEMMA StartCreateIds ==
  ASSUME TypeOK, IdsAreMintedOnce, ReadsStayValid, NEW c \in Client, StartCreate(c)
  PROVE  IdsAreMintedOnce' /\ ReadsStayValid'
<1> DEFINE id == NewId
<1>1. id \in NodeId \ minted
  BY NewIdIsUnused DEF StartCreate, Unused
<1> HIDE DEF id
<1>2. PICK k \in Contents, p \in ParentChoices :
        /\ minted' = minted \cup {id}
        /\ objects' = Uploaded(k, id)
        /\ Continue(c, [op |-> "insert", new |-> id, chunked |-> k.chunked,
             row |-> FirstVersion(id, p[1], p[2], RefFor(k, id))])
  BY DEF StartCreate, id
<1>3. /\ req'[c].op = "insert" /\ req'[c].new = id
      /\ req'[c].row.prev = None /\ ~req'[c].row.deleted
  BY <1>2 DEF Continue, FirstVersion, TypeOK
<1>4. \A d \in Client \ {c} : req'[d] = req[d]
  BY <1>2 DEF Continue, TypeOK
<1>5. nodes' = nodes /\ objects' \subseteq objects \cup {id}
  BY <1>2 DEF StartCreate, Uploaded
<1>6. IdsAreMintedOnce'
  BY <1>1, <1>2, <1>3, <1>4, <1>5 DEF IdsAreMintedOnce
<1>7. ReadsStayValid'
  BY <1>1, <1>2, <1>3, <1>4, <1>5 DEF ReadsStayValid
<1>8. QED BY <1>6, <1>7

LEMMA CommitCreateIds ==
  ASSUME TypeOK, IdsAreMintedOnce, ReadsStayValid, NEW c \in Client, CommitCreate(c)
  PROVE  IdsAreMintedOnce' /\ ReadsStayValid'
<1> DEFINE new == req[c].new
<1>1. req'[c].op \notin {"insert", "update"}
  BY DEF CommitCreate, AfterCommit, Continue, TypeOK, Idle
<1>2. \A d \in Client \ {c} : req'[d] = req[d]
  BY DEF CommitCreate, AfterCommit, Continue, TypeOK
<1>3. /\ DOMAIN nodes' = DOMAIN nodes \cup {new}
      /\ \A n \in DOMAIN nodes \ {new} : nodes'[n] = nodes[n]
  BY DEF CommitCreate
<1>4. minted' = minted /\ objects' = objects /\ req[c].op = "insert"
  BY DEF CommitCreate, Running
<1>5. IdsAreMintedOnce'
  BY <1>1, <1>2, <1>3, <1>4 DEF IdsAreMintedOnce
<1>6. ReadsStayValid'
  BY <1>1, <1>2, <1>3, <1>4 DEF ReadsStayValid
<1>7. QED BY <1>5, <1>6

LEMMA CommitChunksIds ==
  ASSUME TypeOK, IdsAreMintedOnce, ReadsStayValid, NEW c \in Client, CommitChunks(c)
  PROVE  IdsAreMintedOnce' /\ ReadsStayValid'
<1> DEFINE id == NewId
<1>1. id \in NodeId \ minted
  BY NewIdIsUnused DEF CommitChunks, Unused
<1>2. req'[c].op \notin {"insert", "update"}
  BY DEF CommitChunks, Finish, TypeOK, Idle
<1>3. \A d \in Client \ {c} : req'[d] = req[d]
  BY DEF CommitChunks, Finish, TypeOK
<1>4. /\ DOMAIN nodes' = DOMAIN nodes \cup {id}
      /\ \A n \in DOMAIN nodes \ {id} : nodes'[n] = nodes[n]
      /\ minted' = minted \cup {id}
      /\ objects' = objects
  BY DEF CommitChunks
<1> HIDE DEF id
<1>5. IdsAreMintedOnce'
  BY <1>1, <1>2, <1>3, <1>4 DEF IdsAreMintedOnce
<1>6. ReadsStayValid'
  BY <1>1, <1>2, <1>3, <1>4 DEF ReadsStayValid
<1>7. QED BY <1>5, <1>6

LEMMA StartUpdateIds ==
  ASSUME TypeOK, IdsAreMintedOnce, ReadsStayValid, NEW c \in Client, StartUpdate(c)
  PROVE  IdsAreMintedOnce' /\ ReadsStayValid'
<1> DEFINE id == NewId
<1>1. id \in NodeId \ minted
  BY NewIdIsUnused DEF StartUpdate, Unused
<1> HIDE DEF id
<1>2. PICK old \in DOMAIN nodes :
        /\ minted' = minted \cup {id}
        /\ objects' \subseteq objects \cup {id}
        /\ \E changed, chunked, ref :
             Continue(c, [op |-> "update", old |-> old, seen |-> nodes[old], new |-> id,
                          changed |-> changed, chunked |-> chunked, ref |-> ref])
  BY DEF StartUpdate, Uploaded, id
<1>3. /\ req'[c].op = "update" /\ req'[c].new = id
      /\ req'[c].old = old /\ req'[c].seen = nodes[old]
  BY <1>2 DEF Continue, TypeOK
<1>4. \A d \in Client \ {c} : req'[d] = req[d]
  BY <1>2 DEF Continue, TypeOK
<1>5. nodes' = nodes /\ old \in minted
  BY DEF StartUpdate, IdsAreMintedOnce
<1>6. IdsAreMintedOnce'
  BY <1>1, <1>2, <1>3, <1>4, <1>5 DEF IdsAreMintedOnce
<1>7. ReadsStayValid'
  BY <1>1, <1>2, <1>3, <1>4, <1>5 DEF ReadsStayValid, IdsAreMintedOnce
<1>8. QED BY <1>6, <1>7

LEMMA CommitUpdateIds ==
  ASSUME TypeOK, IdsAreMintedOnce, ReadsStayValid, NEW c \in Client, CommitUpdate(c)
  PROVE  IdsAreMintedOnce' /\ ReadsStayValid'
<1> DEFINE r == req[c]
<1>1. PICK copies \in SUBSET Unused :
        \E original \in [copies -> CopiedChildren(r)] :
          UpdateCommitted(r, copies, original)
  BY UpdateCommits
<1>2. req'[c].op \notin {"insert", "update"}
  BY DEF CommitUpdate, AfterCommit, Continue, TypeOK, Idle
<1>3. \A d \in Client \ {c} : req'[d] = req[d]
  BY DEF CommitUpdate, AfterCommit, Continue, TypeOK
<1>4. /\ DOMAIN nodes' = DOMAIN nodes \cup copies \cup {r.new}
      /\ minted' = minted \cup copies
      /\ objects' = objects
      /\ copies \subseteq NodeId \ minted
      /\ r.op = "update"
  BY <1>1 DEF UpdateCommitted, CommitUpdate, Unused, Running
<1>5. \A n \in DOMAIN nodes \ (copies \cup {r.new}) :
        nodes'[n].version = nodes[n].version /\ nodes'[n].logical = nodes[n].logical
  BY <1>1 DEF UpdateCommitted, Retired, TypeOK, Row
<1>6. IdsAreMintedOnce'
  BY <1>2, <1>3, <1>4 DEF IdsAreMintedOnce
<1>7. ReadsStayValid'
  BY <1>2, <1>3, <1>4, <1>5 DEF ReadsStayValid, IdsAreMintedOnce
<1>8. QED BY <1>6, <1>7

(* The other steps of requests, and moderation, hand out no id. *)
LEMMA OtherStepIds ==
  ASSUME TypeOK, IdsAreMintedOnce, ReadsStayValid,
         minted' = minted, objects' \subseteq objects, DOMAIN nodes' \subseteq DOMAIN nodes,
         \A n \in DOMAIN nodes' :
           nodes'[n].version = nodes[n].version /\ nodes'[n].logical = nodes[n].logical,
         \A c \in Client : req'[c] = req[c] \/ req'[c].op \notin {"insert", "update"}
  PROVE  IdsAreMintedOnce' /\ ReadsStayValid'
<1>1. IdsAreMintedOnce'
  BY DEF IdsAreMintedOnce
<1>2. ReadsStayValid'
  BY DEF ReadsStayValid
<1>3. QED BY <1>1, <1>2

------------------------------------------------------------------------------
(* What a step may do to rows *)

(* A row that stays keeps what its version says; it may be retired or deleted, and its *)
(* pointer to the version before it may be cleared when that row goes.                 *)
RowsKept ==
  \A n \in DOMAIN nodes \cap DOMAIN nodes' :
    /\ nodes'[n].version = nodes[n].version
    /\ nodes'[n].logical = nodes[n].logical
    /\ nodes'[n].ref = nodes[n].ref
    /\ nodes[n].deleted => nodes'[n].deleted
    /\ nodes'[n].current => nodes[n].current /\ (nodes'[n].deleted => nodes[n].deleted)
    /\ nodes'[n].prev # None => nodes'[n].prev = nodes[n].prev /\ nodes[n].prev \in DOMAIN nodes'

(* A row that is added is live, and comes after a row that stays and is now retired. *)
RowsAdded ==
  \A n \in DOMAIN nodes' \ DOMAIN nodes :
    LET p == nodes'[n].prev
    IN /\ ~nodes'[n].deleted
       /\ p # None =>
            /\ p \in DOMAIN nodes \cap DOMAIN nodes'
            /\ nodes'[n].version = nodes[p].version + 1
            /\ nodes'[n].logical = nodes[p].logical
            /\ ~nodes'[p].current

LEMMA CommitCreateRows ==
  ASSUME TypeOK, IdsAreMintedOnce, ReadsStayValid, ChainWellFormed,
         NEW c \in Client, CommitCreate(c)
  PROVE  RowsKept /\ RowsAdded
<1> DEFINE new == req[c].new
<1>1. /\ new \notin DOMAIN nodes
      /\ req[c].row.prev = None /\ ~req[c].row.deleted
  BY DEF CommitCreate, Running, IdsAreMintedOnce, ReadsStayValid
<1>2. /\ DOMAIN nodes' = DOMAIN nodes \cup {new}
      /\ \A n \in DOMAIN nodes : nodes'[n] = nodes[n]
      /\ nodes'[new] = req[c].row
  BY <1>1 DEF CommitCreate
<1>3. RowsKept
  BY <1>2 DEF RowsKept, ChainWellFormed
<1>4. RowsAdded
  BY <1>1, <1>2 DEF RowsAdded
<1>5. QED BY <1>3, <1>4

LEMMA CommitChunksRows ==
  ASSUME TypeOK, IdsAreMintedOnce, ChainWellFormed, NEW c \in Client, CommitChunks(c)
  PROVE  RowsKept /\ RowsAdded
<1> DEFINE id == NewId
<1>1. id \notin DOMAIN nodes
  BY NewIdIsUnused DEF CommitChunks, Unused, IdsAreMintedOnce
<1>2. /\ DOMAIN nodes' = DOMAIN nodes \cup {id}
      /\ \A n \in DOMAIN nodes : nodes'[n] = nodes[n]
      /\ nodes'[id].prev = None /\ ~nodes'[id].deleted
  BY <1>1 DEF CommitChunks, FirstVersion
<1>3. RowsKept
  BY <1>2 DEF RowsKept, ChainWellFormed
<1>4. RowsAdded
  BY <1>1, <1>2 DEF RowsAdded
<1>5. QED BY <1>3, <1>4

LEMMA CommitUpdateRows ==
  ASSUME TypeOK, IdsAreMintedOnce, ReadsStayValid, ChainWellFormed, DeletedNotCurrent,
         NEW c \in Client, CommitUpdate(c)
  PROVE  RowsKept /\ RowsAdded
<1> DEFINE r == req[c]
<1>1. r \in UpdateReq /\ r.old \in DOMAIN nodes
  BY RequestKinds DEF TypeOK, CommitUpdate, Running
<1>2. PICK copies \in SUBSET Unused :
        \E original \in [copies -> CopiedChildren(r)] :
          UpdateCommitted(r, copies, original)
  BY UpdateCommits
<1>3. PICK original \in [copies -> CopiedChildren(r)] :
        UpdateCommitted(r, copies, original)
  BY <1>2
<1>4. /\ r.new \notin DOMAIN nodes
      /\ copies \cap DOMAIN nodes = {}
      /\ DOMAIN nodes' = DOMAIN nodes \cup copies \cup {r.new}
  BY <1>3 DEF UpdateCommitted, IdsAreMintedOnce, Unused, CommitUpdate, Running
<1>5. \A n \in DOMAIN nodes : nodes'[n] \in {nodes[n], [nodes[n] EXCEPT !.current = FALSE]}
  BY <1>3, <1>4 DEF UpdateCommitted, Retired
<1>6. nodes'[r.old] = [nodes[r.old] EXCEPT !.current = FALSE]
  BY <1>1, <1>3, <1>4 DEF UpdateCommitted, Retired, RetiredRows
<1>7. RowsKept
  BY <1>4, <1>5 DEF RowsKept, ChainWellFormed, TypeOK, Row
<1>8. ASSUME NEW n \in DOMAIN nodes' \ DOMAIN nodes
      PROVE  /\ ~nodes'[n].deleted
             /\ nodes'[n].prev # None =>
                  /\ nodes'[n].prev = r.old
                  /\ nodes'[n].version = nodes[r.old].version + 1
                  /\ nodes'[n].logical = nodes[r.old].logical
  <2>1. CASE n = r.new
    <3>1. nodes'[n] = NextVersion(r)
      BY <1>3, <2>1 DEF UpdateCommitted
    <3>2. /\ r.seen.version = nodes[r.old].version
          /\ r.seen.logical = nodes[r.old].logical
      BY <1>1 DEF ReadsStayValid, CommitUpdate, Running
    <3>3. QED BY <3>1, <3>2 DEF NextVersion
  <2>2. CASE n # r.new
    <3>1. n \in copies /\ nodes[original[n]] \in Row
      BY <1>4, <2>2 DEF CopiedChildren, Children, TypeOK
    <3>2. nodes'[n] = CopyOf(nodes[original[n]], r.new)
      BY <1>3, <2>2, <3>1 DEF UpdateCommitted
    <3>3. QED BY <3>1, <3>2 DEF CopyOf, Row
  <2>3. QED BY <2>1, <2>2
<1>9. ~nodes'[r.old].current
  BY <1>1, <1>6 DEF TypeOK, Row
<1>10. RowsAdded
  BY <1>1, <1>4, <1>8, <1>9 DEF RowsAdded
<1>11. QED BY <1>7, <1>10

LEMMA CommitDeleteRows ==
  ASSUME TypeOK, ChainWellFormed, NEW c \in Client, CommitDelete(c)
  PROVE  RowsKept /\ RowsAdded
<1>1. DOMAIN nodes' = DOMAIN nodes
  BY DEF CommitDelete
<1>2. ASSUME NEW n \in DOMAIN nodes
      PROVE  /\ nodes'[n].version = nodes[n].version
             /\ nodes'[n].logical = nodes[n].logical
             /\ nodes'[n].ref = nodes[n].ref
             /\ nodes'[n].prev = nodes[n].prev
             /\ \/ nodes'[n] = nodes[n]
                \/ nodes'[n].deleted /\ ~nodes'[n].current
  <2>1. nodes[n] \in Row
    BY DEF TypeOK
  <2>2. CASE nodes'[n] = nodes[n]
    BY <2>2
  <2>3. CASE nodes'[n] = SoftDeleted(nodes[n])
    BY <2>1, <2>3 DEF SoftDeleted, Row
  <2>4. QED BY <2>2, <2>3 DEF CommitDelete
<1>3. RowsKept
  BY <1>1, <1>2 DEF RowsKept, ChainWellFormed
<1>4. RowsAdded
  BY <1>1 DEF RowsAdded
<1>5. QED BY <1>3, <1>4

LEMMA SetStatusRows ==
  ASSUME TypeOK, ChainWellFormed, NEW n \in DOMAIN nodes, NEW from, NEW to,
         SetStatus(n, from, to)
  PROVE  RowsKept /\ RowsAdded
<1>1. /\ DOMAIN nodes' = DOMAIN nodes
      /\ \A m \in DOMAIN nodes : nodes'[m] \in {nodes[m], [nodes[m] EXCEPT !.status = to]}
  BY DEF SetStatus
<1>2. RowsKept
  BY <1>1 DEF RowsKept, ChainWellFormed, TypeOK, Row
<1>3. RowsAdded
  BY <1>1 DEF RowsAdded
<1>4. QED BY <1>2, <1>3

LEMMA HardDeleteRows ==
  ASSUME TypeOK, ChainWellFormed, NEW n \in DOMAIN nodes, HardDelete(n)
  PROVE  RowsKept /\ RowsAdded
<1> DEFINE gone == Predecessors(n) \cup Children(Predecessors(n))
           clear(id) == IF id \in gone THEN None ELSE id
<1> HIDE DEF gone
<1>1. nodes' = [m \in DOMAIN nodes \ gone |->
                  [nodes[m] EXCEPT !.prev = clear(@), !.parent = clear(@)]]
  BY DEF HardDelete, gone
<1>2. ASSUME NEW m \in DOMAIN nodes'
      PROVE  /\ m \in DOMAIN nodes
             /\ nodes'[m].version = nodes[m].version
             /\ nodes'[m].logical = nodes[m].logical
             /\ nodes'[m].ref = nodes[m].ref
             /\ nodes'[m].deleted = nodes[m].deleted
             /\ nodes'[m].current = nodes[m].current
             /\ nodes'[m].prev = clear(nodes[m].prev)
  <2>1. m \in DOMAIN nodes /\ nodes[m] \in Row
    BY <1>1, <1>2 DEF TypeOK
  <2>2. nodes'[m] = [nodes[m] EXCEPT !.prev = clear(@), !.parent = clear(@)]
    BY <1>1, <1>2
  <2>3. QED BY <2>1, <2>2 DEF Row
<1>3. DOMAIN nodes' = DOMAIN nodes \ gone
  BY <1>1
<1>4. RowsKept
  BY <1>2, <1>3 DEF RowsKept, ChainWellFormed
<1>5. RowsAdded
  BY <1>3 DEF RowsAdded
<1>6. QED BY <1>4, <1>5

LEMMA SameRows ==
  ASSUME ChainWellFormed, nodes' = nodes
  PROVE  RowsKept /\ RowsAdded
BY DEF RowsKept, RowsAdded, ChainWellFormed

(* What a step may do to rows keeps the chains and the flags of rows in order. *)
LEMMA RowsInOrder ==
  ASSUME TypeOK, ChainWellFormed, DeletedNotCurrent, RowsKept, RowsAdded
  PROVE  ChainWellFormed' /\ DeletedNotCurrent'
<1>1. ASSUME NEW n \in DOMAIN nodes', nodes'[n].prev # None
      PROVE  /\ nodes'[n].prev \in DOMAIN nodes'
             /\ nodes'[n].version = nodes'[nodes'[n].prev].version + 1
             /\ nodes'[n].logical = nodes'[nodes'[n].prev].logical
             /\ ~nodes'[nodes'[n].prev].current
  <2> DEFINE p == nodes'[n].prev
  <2>1. CASE n \in DOMAIN nodes
    <3>1. p = nodes[n].prev /\ p \in DOMAIN nodes \cap DOMAIN nodes'
      BY <1>1, <2>1 DEF RowsKept, ChainWellFormed
    <3>2. QED BY <1>1, <2>1, <3>1 DEF RowsKept, ChainWellFormed
  <2>2. CASE n \notin DOMAIN nodes
    <3>1. p \in DOMAIN nodes \cap DOMAIN nodes'
      BY <1>1, <2>2 DEF RowsAdded
    <3>2. QED BY <1>1, <2>2, <3>1 DEF RowsKept, RowsAdded
  <2>3. QED BY <2>1, <2>2
<1>2. ChainWellFormed'
  BY <1>1 DEF ChainWellFormed
<1>3. DeletedNotCurrent'
  BY DEF DeletedNotCurrent, RowsKept, RowsAdded
<1>4. QED BY <1>2, <1>3

------------------------------------------------------------------------------
(* The inductive invariant.  Types alone are not inductive: an update whose new id was *)
(* also the id of a row would overwrite it.  The chain is not either: a new version    *)
(* carries the number its request read, which must still be that of the row it names.  *)
StoreInv ==
  /\ TypeOK
  /\ IdsAreMintedOnce
  /\ ReadsStayValid
  /\ ChainWellFormed
  /\ DeletedNotCurrent

LEMMA InitEstablishesStoreInv == Init => StoreInv
<1> SUFFICES ASSUME Init PROVE StoreInv
  OBVIOUS
<1>1. \A c \in Client : req[c] = Idle
  BY DEF Init
<1>2. TypeOK
  BY DEF Init, TypeOK, Request
<1>3. IdsAreMintedOnce /\ ReadsStayValid
  BY <1>1 DEF Init, IdsAreMintedOnce, ReadsStayValid, Idle
<1>4. ChainWellFormed /\ DeletedNotCurrent
  BY DEF Init, ChainWellFormed, DeletedNotCurrent
<1>5. QED BY <1>2, <1>3, <1>4 DEF StoreInv

(* A step that leaves rows, ids and objects alone and finishes or goes on with a request. *)
LEMMA RequestStep ==
  ASSUME StoreInv, NEW c \in Client, UNCHANGED <<nodes, minted>>, objects' \subseteq objects,
         \/ Finish(c)
         \/ \E r \in Request : r.op \notin {"insert", "update"} /\ Continue(c, r)
  PROVE  StoreInv' /\ RowsKept /\ RowsAdded
<1>1. req' \in [Client -> Request]
  BY ContinueType, FinishType DEF StoreInv
<1>2. TypeOK'
  BY <1>1 DEF StoreInv, TypeOK
<1>3. \A d \in Client : req'[d] = req[d] \/ req'[d].op \notin {"insert", "update"}
  BY DEF StoreInv, TypeOK, Finish, Continue, Idle
<1>4. IdsAreMintedOnce' /\ ReadsStayValid'
  BY <1>3, OtherStepIds DEF StoreInv
<1>5. RowsKept /\ RowsAdded
  BY SameRows DEF StoreInv
<1>6. ChainWellFormed' /\ DeletedNotCurrent'
  BY <1>5, RowsInOrder DEF StoreInv
<1>7. QED BY <1>2, <1>4, <1>5, <1>6 DEF StoreInv

(* A step of moderation. *)
LEMMA ModerationStep ==
  ASSUME StoreInv, NEW n \in DOMAIN nodes, Quarantine(n) \/ Restore(n) \/ HardDelete(n)
  PROVE  StoreInv' /\ RowsKept /\ RowsAdded
<1>1. TypeOK'
  <2>1. CASE HardDelete(n)
    BY <2>1, HardDeleteType DEF StoreInv
  <2>2. CASE Quarantine(n)
    BY <2>2 DEF Quarantine, SetStatus, StoreInv, TypeOK, Row, Status
  <2>3. CASE Restore(n)
    BY <2>3 DEF Restore, SetStatus, StoreInv, TypeOK, Row, Status
  <2>4. QED BY <2>1, <2>2, <2>3
<1>2. RowsKept /\ RowsAdded
  BY SetStatusRows, HardDeleteRows DEF Quarantine, Restore, StoreInv
<1>3. ChainWellFormed' /\ DeletedNotCurrent'
  BY <1>2, RowsInOrder DEF StoreInv
<1>4. DOMAIN nodes' \subseteq DOMAIN nodes /\ UNCHANGED <<objects, minted, req>>
  BY DEF Quarantine, Restore, SetStatus, HardDelete
<1>5. IdsAreMintedOnce' /\ ReadsStayValid'
  BY <1>2, <1>4, OtherStepIds DEF StoreInv, RowsKept
<1>6. QED BY <1>1, <1>2, <1>3, <1>5 DEF StoreInv

LEMMA StepKeepsStoreInv ==
  ASSUME StoreInv, [Next]_vars
  PROVE  StoreInv' /\ RowsKept /\ RowsAdded
<1>1. CASE UNCHANGED vars
  <2>1. StoreInv'
    BY <1>1 DEF vars, StoreInv, TypeOK, IdsAreMintedOnce, ReadsStayValid, ChainWellFormed,
                DeletedNotCurrent
  <2>2. RowsKept /\ RowsAdded
    BY <1>1, SameRows DEF vars, StoreInv
  <2>3. QED BY <2>1, <2>2
<1>2. ASSUME NEW c \in Client, ClientStep(c)
      PROVE  StoreInv' /\ RowsKept /\ RowsAdded
  <2>1. CASE StartCreate(c)
    <3>1. RowsKept /\ RowsAdded
      BY <2>1, SameRows DEF StartCreate, StoreInv
    <3>2. QED BY <2>1, <3>1, StartCreateType, StartCreateIds, RowsInOrder DEF StoreInv
  <2>2. CASE CommitCreate(c)
    <3>1. RowsKept /\ RowsAdded
      BY <2>2, CommitCreateRows DEF StoreInv
    <3>2. QED BY <2>2, <3>1, CommitCreateType, CommitCreateIds, RowsInOrder DEF StoreInv
  <2>3. CASE CommitChunks(c)
    <3>1. RowsKept /\ RowsAdded
      BY <2>3, CommitChunksRows DEF StoreInv
    <3>2. QED BY <2>3, <3>1, CommitChunksType, CommitChunksIds, RowsInOrder DEF StoreInv
  <2>4. CASE StartUpdate(c)
    <3>1. RowsKept /\ RowsAdded
      BY <2>4, SameRows DEF StartUpdate, StoreInv
    <3>2. QED BY <2>4, <3>1, StartUpdateType, StartUpdateIds, RowsInOrder DEF StoreInv
  <2>5. CASE CommitUpdate(c)
    <3>1. RowsKept /\ RowsAdded
      BY <2>5, CommitUpdateRows DEF StoreInv
    <3>2. QED BY <2>5, <3>1, CommitUpdateType, CommitUpdateIds, RowsInOrder DEF StoreInv
  <2>6. CASE StartDelete(c)
    <3>1. \E r \in Request : r.op = "delete" /\ Continue(c, r)
      <4>1. PICK ids, refs : Continue(c, [op |-> "delete", ids |-> ids, refs |-> refs])
        BY <2>6 DEF StartDelete
      <4>2. req'[c] = [op |-> "delete", ids |-> ids, refs |-> refs]
        BY <4>1 DEF Continue, StoreInv, TypeOK
      <4>3. req'[c] \in Request
        BY <2>6, StartDeleteType DEF StoreInv, TypeOK
      <4>4. QED BY <4>1, <4>2, <4>3
    <3>2. UNCHANGED <<nodes, objects, minted>>
      BY <2>6 DEF StartDelete
    <3>3. QED BY <3>1, <3>2, RequestStep
  <2>7. CASE CommitDelete(c)
    <3>1. RowsKept /\ RowsAdded
      BY <2>7, CommitDeleteRows DEF StoreInv
    <3>2. \A d \in Client : req'[d] = req[d] \/ req'[d].op \notin {"insert", "update"}
      BY <2>7 DEF CommitDelete, Continue, Idle, StoreInv, TypeOK
    <3>3. UNCHANGED <<objects, minted>> /\ DOMAIN nodes' = DOMAIN nodes
      BY <2>7 DEF CommitDelete
    <3>4. IdsAreMintedOnce' /\ ReadsStayValid'
      BY <3>1, <3>2, <3>3, OtherStepIds DEF StoreInv, RowsKept
    <3>5. QED BY <2>7, <3>1, <3>4, CommitDeleteType, RowsInOrder DEF StoreInv
  <2>8. CASE CleanObjects(c)
    BY <2>8, RequestStep DEF CleanObjects
  <2>9. CASE LoseChunks(c) \/ FailCommit(c) \/ Crash(c)
    BY <2>9, RequestStep DEF LoseChunks, FailCommit, Crash
  <2>10. QED
    BY <1>2, <2>1, <2>2, <2>3, <2>4, <2>5, <2>6, <2>7, <2>8, <2>9
    DEF ClientStep, StepBesidesUpdate
<1>3. QED BY <1>1, <1>2, ModerationStep DEF Next

------------------------------------------------------------------------------
(* One request at a time *)

Serial == \A c, d \in Client : c = d

(* The version an update replaces is still the current one when it commits. *)
UpdatesReplaceCurrent ==
  \A c \in Client :
    req[c].op = "update" /\ req[c].old \in DOMAIN nodes => nodes[req[c].old].current

(* The rows a step adds after an existing version. *)
Successors == {n \in DOMAIN nodes' \ DOMAIN nodes : nodes'[n].prev # None}

LEMMA OnlyUpdatesAddSuccessors ==
  ASSUME StoreInv, [Next]_vars, \A c \in Client : ~CommitUpdate(c)
  PROVE  Successors = {}
<1>1. ASSUME NEW c \in Client, CommitCreate(c) PROVE Successors = {}
  <2>1. req[c].row.prev = None
    BY <1>1 DEF StoreInv, ReadsStayValid, CommitCreate, Running
  <2>2. QED BY <1>1, <2>1 DEF CommitCreate, Successors
<1>2. ASSUME NEW c \in Client, CommitChunks(c) PROVE Successors = {}
  <2>1. \A id : FirstVersion(id, req[c].new, "chunk", None).prev = None
    BY DEF FirstVersion
  <2>2. QED BY <1>2, <2>1 DEF CommitChunks, Successors
<1>3. ASSUME NEW c \in Client, CommitDelete(c) PROVE Successors = {}
  BY <1>3 DEF CommitDelete, Successors
<1>4. ASSUME NEW n \in DOMAIN nodes, Quarantine(n) \/ Restore(n) \/ HardDelete(n)
      PROVE  Successors = {}
  BY <1>4 DEF Quarantine, Restore, SetStatus, HardDelete, Successors
<1>5. CASE UNCHANGED nodes
  BY <1>5 DEF Successors
<1>6. QED
  BY <1>1, <1>2, <1>3, <1>4, <1>5
  DEF Next, ClientStep, StepBesidesUpdate, vars, StartCreate, LoseChunks, StartUpdate,
      FailCommit, StartDelete, CleanObjects, Crash

LEMMA UpdateAddsOneSuccessor ==
  ASSUME StoreInv, NEW c \in Client, CommitUpdate(c)
  PROVE  Successors \subseteq {req[c].new} /\ nodes'[req[c].new].prev = req[c].old
<1> DEFINE r == req[c]
<1>1. PICK copies \in SUBSET Unused :
        \E original \in [copies -> CopiedChildren(r)] :
          UpdateCommitted(r, copies, original)
  BY UpdateCommits DEF StoreInv
<1>2. PICK original \in [copies -> CopiedChildren(r)] :
        UpdateCommitted(r, copies, original)
  BY <1>1
<1>3. ASSUME NEW n \in copies \ {r.new} PROVE nodes'[n].prev = None
  <2>1. nodes[original[n]] \in Row
    BY DEF CopiedChildren, Children, StoreInv, TypeOK
  <2>2. nodes'[n] = CopyOf(nodes[original[n]], r.new)
    BY <1>2 DEF UpdateCommitted
  <2>3. QED BY <2>1, <2>2 DEF CopyOf, Row
<1>4. Successors \subseteq {r.new}
  BY <1>2, <1>3 DEF UpdateCommitted, Successors
<1>5. nodes'[r.new].prev = r.old
  BY <1>2 DEF UpdateCommitted, NextVersion
<1>6. QED BY <1>4, <1>5

LEMMA SerialStep ==
  ASSUME Serial, StoreInv, HistoryIsLinear, UpdatesReplaceCurrent, [Next]_vars
  PROVE  HistoryIsLinear' /\ UpdatesReplaceCurrent'
<1>1. RowsKept
  BY StepKeepsStoreInv
<1>2. \A m, n \in Successors :
        m = n /\ nodes'[n].prev \in DOMAIN nodes /\ nodes[nodes'[n].prev].current
  <2>1. CASE \A c \in Client : ~CommitUpdate(c)
    BY <2>1, OnlyUpdatesAddSuccessors
  <2>2. ASSUME NEW c \in Client, CommitUpdate(c)
        PROVE  \A m, n \in Successors :
                 m = n /\ nodes'[n].prev \in DOMAIN nodes /\ nodes[nodes'[n].prev].current
    BY <2>2, UpdateAddsOneSuccessor DEF UpdatesReplaceCurrent, CommitUpdate, Running
  <2>3. QED BY <2>1, <2>2
<1>3. HistoryIsLinear'
  <2>1. SUFFICES ASSUME NEW m \in DOMAIN nodes', NEW n \in DOMAIN nodes',
                        nodes'[m].prev = nodes'[n].prev, nodes'[m].prev # None
                 PROVE  m = n
    BY DEF HistoryIsLinear
  <2>2. CASE m \in DOMAIN nodes /\ n \in DOMAIN nodes
    BY <1>1, <2>1, <2>2 DEF RowsKept, HistoryIsLinear
  <2>3. CASE m \notin DOMAIN nodes /\ n \notin DOMAIN nodes
    BY <1>2, <2>1, <2>3 DEF Successors
  <2>4. ASSUME NEW k \in {m, n}, NEW l \in {m, n},
               k \in DOMAIN nodes, l \notin DOMAIN nodes
        PROVE  FALSE
    <3>1. nodes[nodes'[k].prev].current
      BY <1>2, <2>1, <2>4 DEF Successors
    <3>2. nodes'[k].prev = nodes[k].prev
      BY <1>1, <2>1, <2>4 DEF RowsKept
    <3>3. QED BY <2>1, <2>4, <3>1, <3>2 DEF StoreInv, ChainWellFormed
  <2>5. QED BY <2>2, <2>3, <2>4
<1>4. UpdatesReplaceCurrent'
  <2>1. ASSUME NEW n \in DOMAIN nodes, Quarantine(n) \/ Restore(n) \/ HardDelete(n)
        PROVE  UpdatesReplaceCurrent'
    <3>1. req' = req
      BY <2>1 DEF Quarantine, Restore, SetStatus, HardDelete
    <3>2. DOMAIN nodes' \subseteq DOMAIN nodes
      BY <2>1 DEF Quarantine, Restore, SetStatus, HardDelete
    <3>3. \A m \in DOMAIN nodes' : nodes'[m].current = nodes[m].current
      <4>1. ASSUME HardDelete(n), NEW m \in DOMAIN nodes'
            PROVE  nodes'[m].current = nodes[m].current
        <5>1. nodes[m] \in Row
          BY <3>2, <4>1 DEF StoreInv, TypeOK
        <5>2. \E prev, parent :
                nodes'[m] = [nodes[m] EXCEPT !.prev = prev, !.parent = parent]
          BY <4>1 DEF HardDelete
        <5>3. QED BY <5>1, <5>2 DEF Row
      <4>2. CASE Quarantine(n) \/ Restore(n)
        BY <4>2 DEF Quarantine, Restore, SetStatus, StoreInv, TypeOK, Row
      <4>3. QED BY <2>1, <4>1, <4>2
    <3>4. QED BY <3>1, <3>2, <3>3 DEF UpdatesReplaceCurrent
  <2>2. ASSUME NEW c \in Client, StartUpdate(c) PROVE UpdatesReplaceCurrent'
    <3>1. PICK old \in DOMAIN nodes :
            /\ Updatable(old)
            /\ \E changed, chunked, ref :
                 Continue(c, [op |-> "update", old |-> old, seen |-> nodes[old],
                              new |-> NewId, changed |-> changed, chunked |-> chunked,
                              ref |-> ref])
      BY <2>2 DEF StartUpdate
    <3>2. req'[c].old = old
      BY <3>1 DEF Continue, StoreInv, TypeOK
    <3>3. nodes' = nodes
      BY <2>2 DEF StartUpdate
    <3>4. QED BY <3>1, <3>2, <3>3 DEF UpdatesReplaceCurrent, Updatable, Serial
  <2>3. ASSUME NEW c \in Client, ClientStep(c), ~StartUpdate(c)
        PROVE  UpdatesReplaceCurrent'
    <3>1. req'[c].op # "update"
      <4>1. ASSUME Finish(c) PROVE req'[c].op # "update"
        BY <4>1 DEF Finish, Idle, StoreInv, TypeOK
      <4>2. ASSUME NEW r, Continue(c, r), r.op # "update" PROVE req'[c].op # "update"
        BY <4>2 DEF Continue, StoreInv, TypeOK
      <4>3. ASSUME NEW chunked, NEW id, AfterCommit(c, chunked, id)
            PROVE  req'[c].op # "update"
        BY <4>2, <4>3 DEF AfterCommit, Idle
      <4>4. CASE StartCreate(c) \/ StartDelete(c)
        BY <4>2, <4>4 DEF StartCreate, StartDelete
      <4>5. CASE CommitCreate(c) \/ CommitUpdate(c)
        BY <4>3, <4>5 DEF CommitCreate, CommitUpdate
      <4>6. CASE CommitDelete(c)
        BY <4>2, <4>6 DEF CommitDelete, Idle
      <4>7. CASE CommitChunks(c) \/ LoseChunks(c) \/ FailCommit(c) \/ CleanObjects(c) \/ Crash(c)
        BY <4>1, <4>7 DEF CommitChunks, LoseChunks, FailCommit, CleanObjects, Crash
      <4>8. QED BY <2>3, <4>4, <4>5, <4>6, <4>7 DEF ClientStep, StepBesidesUpdate
    <3>2. QED BY <3>1 DEF UpdatesReplaceCurrent, Serial
  <2>4. CASE UNCHANGED vars
    BY <2>4 DEF vars, UpdatesReplaceCurrent
  <2>5. QED BY <2>1, <2>2, <2>3, <2>4 DEF Next
<1>5. QED BY <1>3, <1>4

------------------------------------------------------------------------------
(* Walks along the pairs of a relation, which the code takes over version pointers *)

(* A set of numbers has a least one: the form of induction that is needed below. *)
LEMMA LeastNumber ==
  ASSUME NEW T \in SUBSET Nat, T # {}
  PROVE  \E x \in T : \A y \in T : x <= y
<1> DEFINE R == OpToRel(<, Nat)
<1>1. IsWellFoundedOn(R, Nat)
  BY NatLessThanWellFounded
<1>2. \A x, y \in Nat : x < y => <<x, y>> \in R
  BY DEF OpToRel
<1> HIDE DEF R
<1>3. PICK x \in T : \A y \in T : ~(<<y, x>> \in R)
  BY <1>1, WFMin
<1>4. ASSUME NEW y \in T PROVE x <= y
  <2>1. y \in Nat /\ x \in Nat
    OBVIOUS
  <2>2. ~(y < x)
    BY <1>2, <1>3, <2>1
  <2>3. QED BY <2>1, <2>2
<1>5. QED BY <1>4

(* One step of a walk over rows along the pairs of a relation, and a walk of such steps. *)
Reached(rows, along, seen) == seen \cup {m \in rows : \E l \in seen : <<l, m>> \in along}

IsWalk(walk, n, rows, along) ==
  walk = [k \in Nat |-> IF k = 0 THEN {n} ELSE Reached(rows, along, walk[k - 1])]

(* There is such a walk, of any number of steps ... *)
Prefix(f, k, n, rows, along) ==
  /\ f \in [0..k -> SUBSET (rows \cup {n})]
  /\ \A j \in 0..k : f[j] = IF j = 0 THEN {n} ELSE Reached(rows, along, f[j - 1])

LEMMA PrefixesExist ==
  ASSUME NEW n, NEW rows, NEW along, NEW k \in Nat
  PROVE  \E f : Prefix(f, k, n, rows, along)
<1> DEFINE bad == {j \in Nat : \A f : ~Prefix(f, j, n, rows, along)}
<1> SUFFICES ASSUME bad # {} PROVE FALSE
  OBVIOUS
<1>1. PICK j \in bad : \A i \in bad : j <= i
  BY LeastNumber
<1>2. CASE j = 0
  <2> DEFINE f == [i \in 0..0 |-> {n}]
  <2>1. Prefix(f, 0, n, rows, along)
    BY DEF Prefix
  <2>2. QED BY <1>1, <1>2, <2>1
<1>3. CASE j # 0
  <2>1. j - 1 \in Nat /\ j \in Nat /\ j - 1 \notin bad
    BY <1>1, <1>3
  <2>2. PICK f : Prefix(f, j - 1, n, rows, along)
    BY <2>1
  <2> DEFINE g == [i \in 0..j |-> IF i = j THEN Reached(rows, along, f[j - 1]) ELSE f[i]]
  <2>3. \A i \in 0..(j - 1) : g[i] = f[i]
    BY <2>1
  <2>4. g[j] = Reached(rows, along, g[j - 1])
    BY <2>1, <2>3
  <2>5. g \in [0..j -> SUBSET (rows \cup {n})]
    BY <2>1, <2>2 DEF Prefix, Reached
  <2> HIDE DEF g
  <2>6. ASSUME NEW i \in 0..j
        PROVE  g[i] = IF i = 0 THEN {n} ELSE Reached(rows, along, g[i - 1])
    <3>1. CASE i = j
      BY <1>3, <2>4, <3>1
    <3>2. CASE i # j
      <4>1. i \in 0..(j - 1) /\ (i # 0 => i - 1 \in 0..(j - 1))
        BY <2>1, <3>2
      <4>2. QED BY <2>2, <2>3, <4>1 DEF Prefix
    <3>3. QED BY <3>1, <3>2
  <2>7. Prefix(g, j, n, rows, along)
    BY <2>5, <2>6 DEF Prefix
  <2>8. QED BY <1>1, <2>7
<1>4. QED BY <1>2, <1>3

LEMMA PrefixesAgree ==
  ASSUME NEW n, NEW rows, NEW along, NEW k \in Nat, NEW l \in Nat, NEW f, NEW g,
         Prefix(f, k, n, rows, along), Prefix(g, l, n, rows, along), k <= l
  PROVE  \A i \in 0..k : f[i] = g[i]
<1> DEFINE bad == {i \in 0..k : f[i] # g[i]}
<1> SUFFICES ASSUME bad # {} PROVE FALSE
  OBVIOUS
<1>0. bad \in SUBSET Nat
  OBVIOUS
<1>1. PICK i \in bad : \A j \in bad : i <= j
  <2> HIDE DEF bad
  <2> QED BY <1>0, LeastNumber
<1>2. i \in 0..k /\ i \in 0..l
  BY <1>1
<1>3. i # 0
  BY <1>1, <1>2 DEF Prefix
<1>4. i - 1 \in 0..k /\ i - 1 \notin bad
  BY <1>1, <1>2, <1>3
<1>5. f[i - 1] = g[i - 1]
  BY <1>4
<1>6. f[i] = Reached(rows, along, f[i - 1]) /\ g[i] = Reached(rows, along, g[i - 1])
  BY <1>2, <1>3 DEF Prefix
<1>7. QED BY <1>1, <1>5, <1>6

(* ... and so of all of them at once. *)
LEMMA WalksExist ==
  ASSUME NEW n, NEW rows, NEW along
  PROVE  \E walk : IsWalk(walk, n, rows, along)
<1> DEFINE part(k) == CHOOSE f : Prefix(f, k, n, rows, along)
           walk == [k \in Nat |-> part(k)[k]]
<1>1. \A k \in Nat : Prefix(part(k), k, n, rows, along)
  BY PrefixesExist
<1> HIDE DEF part
<1>2. ASSUME NEW k \in Nat
      PROVE  walk[k] = IF k = 0 THEN {n} ELSE Reached(rows, along, walk[k - 1])
  <2>1. CASE k = 0
    BY <1>1, <2>1 DEF Prefix
  <2>2. CASE k # 0
    <3>1. k - 1 \in Nat /\ k - 1 <= k /\ k - 1 \in 0..(k - 1) /\ k \in 0..k
      BY <2>2
    <3>2. part(k - 1)[k - 1] = part(k)[k - 1]
      BY <1>1, <3>1, PrefixesAgree
    <3>3. part(k)[k] = Reached(rows, along, part(k)[k - 1])
      BY <1>1, <2>2, <3>1 DEF Prefix
    <3>4. QED BY <2>2, <3>1, <3>2, <3>3
  <2>3. QED BY <2>1, <2>2
<1>3. IsWalk(walk, n, rows, along)
  BY <1>2 DEF IsWalk
<1>4. QED BY <1>3

(* After as many steps as there are rows a walk has found everything that it can reach: *)
(* what it has found is closed, and within every closed set that its first row is in.   *)
LEMMA WalksEnd ==
  ASSUME NEW rows, IsFiniteSet(rows), NEW n \in rows, NEW along, NEW walk,
         IsWalk(walk, n, rows, along)
  PROVE  LET found == walk[Cardinality(rows)]
         IN /\ n \in found
            /\ found \subseteq rows
            /\ \A l \in found, m \in rows : <<l, m>> \in along => m \in found
            /\ \A S : /\ n \in S
                      /\ \A l \in S, m \in rows : <<l, m>> \in along => m \in S
                      => found \subseteq S
<1>1. /\ walk[0] = {n}
      /\ \A k \in Nat : k # 0 => walk[k] = Reached(rows, along, walk[k - 1])
  BY DEF IsWalk
<1>2. Cardinality(rows) \in Nat
  BY FS_CardinalityType
<1>3. ASSUME NEW S, n \in S, \A l \in S, m \in rows : <<l, m>> \in along => m \in S
      PROVE  \A k \in Nat : walk[k] \subseteq S
  <2> DEFINE bad == {k \in Nat : ~(walk[k] \subseteq S)}
  <2> SUFFICES ASSUME bad # {} PROVE FALSE
    OBVIOUS
  <2>1. PICK k \in bad : \A j \in bad : k <= j
    BY LeastNumber
  <2>2. k # 0
    BY <1>1, <1>3, <2>1
  <2>3. k - 1 \in Nat /\ k - 1 \notin bad
    BY <2>1, <2>2
  <2>4. walk[k - 1] \subseteq S /\ walk[k] = Reached(rows, along, walk[k - 1])
    BY <1>1, <2>1, <2>2, <2>3
  <2>5. QED BY <1>3, <2>1, <2>4 DEF Reached
<1>4. \A k \in Nat : walk[k] \subseteq rows
  BY <1>3
<1>5. \A k \in Nat : n \in walk[k]
  <2> DEFINE bad == {k \in Nat : n \notin walk[k]}
  <2> SUFFICES ASSUME bad # {} PROVE FALSE
    OBVIOUS
  <2>1. PICK k \in bad : \A j \in bad : k <= j
    BY LeastNumber
  <2>2. k # 0
    BY <1>1, <2>1
  <2>3. k - 1 \in Nat /\ k - 1 \notin bad
    BY <2>1, <2>2
  <2>4. QED BY <1>1, <2>1, <2>2, <2>3 DEF Reached
<1> DEFINE closed(k) == Reached(rows, along, walk[k]) = walk[k]
<1>6. \A k \in Nat : closed(k) \/ Cardinality(walk[k]) > k
  <2> DEFINE bad == {k \in Nat : ~closed(k) /\ ~(Cardinality(walk[k]) > k)}
  <2> SUFFICES ASSUME bad # {} PROVE FALSE
    OBVIOUS
  <2>1. PICK k \in bad : \A j \in bad : k <= j
    BY LeastNumber
  <2>2. k # 0
    <3>1. Cardinality(walk[0]) = 1
      BY <1>1, FS_Singleton
    <3>2. QED BY <2>1, <3>1
  <2>3. k - 1 \in Nat /\ k \in Nat /\ k - 1 \notin bad
    BY <2>1, <2>2
  <2>4. walk[k] = Reached(rows, along, walk[k - 1])
    BY <1>1, <2>2, <2>3
  <2>5. ~closed(k - 1)
    <3>1. closed(k - 1) => closed(k)
      BY <2>4
    <3>2. QED BY <2>1, <3>1
  <2>6. Cardinality(walk[k - 1]) > k - 1
    BY <2>3, <2>5
  <2>7. walk[k - 1] \subseteq walk[k] /\ walk[k - 1] # walk[k]
    BY <2>4, <2>5 DEF Reached
  <2>8. IsFiniteSet(walk[k]) /\ IsFiniteSet(walk[k - 1])
    BY <1>4, <2>3, FS_Subset
  <2>9. /\ Cardinality(walk[k - 1]) <= Cardinality(walk[k])
        /\ Cardinality(walk[k - 1]) # Cardinality(walk[k])
    BY <2>7, <2>8, FS_Subset
  <2>10. Cardinality(walk[k - 1]) \in Nat /\ Cardinality(walk[k]) \in Nat
    BY <2>8, FS_CardinalityType
  <2>11. Cardinality(walk[k]) > k
    BY <2>3, <2>6, <2>9, <2>10
  <2>12. QED BY <2>1, <2>11
<1>7. closed(Cardinality(rows))
  <2> DEFINE size == Cardinality(rows)
  <2>1. Cardinality(walk[size]) <= size /\ IsFiniteSet(walk[size])
    BY <1>2, <1>4, FS_Subset
  <2>2. Cardinality(walk[size]) \in Nat
    BY <2>1, FS_CardinalityType
  <2>3. QED BY <1>2, <1>6, <2>1, <2>2
<1>8. \A l \in walk[Cardinality(rows)], m \in rows :
        <<l, m>> \in along => m \in walk[Cardinality(rows)]
  BY <1>7 DEF Reached
<1>9. QED BY <1>2, <1>3, <1>4, <1>5, <1>8

LEMMA WalksStayInRows ==
  ASSUME NEW rows, NEW n \in rows, NEW walk,
         walk[0] = {n}, \A k \in Nat \ {0} : walk[k] \subseteq walk[k - 1] \cup rows
  PROVE  \A k \in Nat : walk[k] \subseteq rows
<1> DEFINE bad == {k \in Nat : ~(walk[k] \subseteq rows)}
<1> SUFFICES ASSUME bad # {} PROVE FALSE
  OBVIOUS
<1>1. PICK k \in bad : \A j \in bad : k <= j
  BY LeastNumber
<1>2. k # 0
  BY <1>1
<1>3. k - 1 \in Nat /\ k - 1 \notin bad
  BY <1>1, <1>2
<1>4. QED BY <1>1, <1>2, <1>3

(* The pairs of rows of which the one replaced the other. *)
Linked == {e \in (DOMAIN nodes) \X (DOMAIN nodes) :
             nodes[e[2]].prev = e[1] \/ nodes[e[1]].prev = e[2]}
Replaced == {e \in (DOMAIN nodes) \X (DOMAIN nodes) : nodes[e[1]].prev = e[2]}

(* What the two walks of the code compute: what is linked to a row directly or not. *)
LEMMA ChainsAreWalks ==
  ASSUME NEW n \in DOMAIN nodes
  PROVE  \E walk : /\ IsWalk(walk, n, DOMAIN nodes, Linked)
                   /\ VersionChain(n) = walk[Cardinality(DOMAIN nodes)] \cap DOMAIN nodes
<1> DEFINE beside(seen) ==
             {m \in DOMAIN nodes : nodes[m].prev \in seen \/ \E l \in seen : nodes[l].prev = m}
           step(walk) == [k \in Nat |-> IF k = 0 THEN {n}
                                        ELSE walk[k - 1] \cup beside(walk[k - 1])]
           chain == CHOOSE walk : walk = step(walk)
<1>1. VersionChain(n) = chain[Cardinality(DOMAIN nodes)] \cap DOMAIN nodes
  BY Zenon DEF VersionChain
<1>2. \A seen \in SUBSET DOMAIN nodes : Reached(DOMAIN nodes, Linked, seen) = seen \cup beside(seen)
  BY DEF Reached, Linked
<1>3. ASSUME NEW walk, walk = step(walk) \/ IsWalk(walk, n, DOMAIN nodes, Linked)
      PROVE  \A k \in Nat : walk[k] \subseteq DOMAIN nodes
  <2>1. walk[0] = {n} /\ \A k \in Nat \ {0} : walk[k] \subseteq walk[k - 1] \cup DOMAIN nodes
    <3>1. CASE walk = step(walk)
      <4> HIDE DEF beside
      <4>1. walk[0] = {n} /\ \A k \in Nat \ {0} : walk[k] = walk[k - 1] \cup beside(walk[k - 1])
        BY <3>1
      <4>2. \A seen : beside(seen) \subseteq DOMAIN nodes
        BY DEF beside
      <4>3. QED BY <4>1, <4>2
    <3>2. CASE IsWalk(walk, n, DOMAIN nodes, Linked)
      BY <3>2 DEF IsWalk, Reached
    <3>3. QED BY <1>3, <3>1, <3>2
  <2>2. QED BY <2>1, WalksStayInRows
<1>4. ASSUME NEW walk, \A k \in Nat : walk[k] \subseteq DOMAIN nodes
      PROVE  IsWalk(walk, n, DOMAIN nodes, Linked) <=> walk = step(walk)
  <2>1. \A k \in Nat \ {0} :
          Reached(DOMAIN nodes, Linked, walk[k - 1]) = walk[k - 1] \cup beside(walk[k - 1])
    BY <1>2, <1>4
  <2> HIDE DEF beside
  <2>2. step(walk) = [k \in Nat |-> IF k = 0 THEN {n}
                                    ELSE Reached(DOMAIN nodes, Linked, walk[k - 1])]
    BY <2>1
  <2>3. QED BY <2>2 DEF IsWalk
<1>5. \E walk : walk = step(walk)
  BY <1>3, <1>4, WalksExist
<1> HIDE DEF step
<1>6. chain = step(chain)
  BY <1>5
<1>7. IsWalk(chain, n, DOMAIN nodes, Linked)
  BY <1>3, <1>4, <1>6
<1>8. QED BY <1>1, <1>7

LEMMA HistoriesAreWalks ==
  ASSUME NEW n \in DOMAIN nodes
  PROVE  \E walk : /\ IsWalk(walk, n, DOMAIN nodes, Replaced)
                   /\ Predecessors(n) = walk[Cardinality(DOMAIN nodes)] \cap DOMAIN nodes
<1> DEFINE beside(seen) ==
             {m \in DOMAIN nodes : \E l \in seen : nodes[l].prev = m}
           step(walk) == [k \in Nat |-> IF k = 0 THEN {n}
                                        ELSE walk[k - 1] \cup beside(walk[k - 1])]
           chain == CHOOSE walk : walk = step(walk)
<1>1. Predecessors(n) = chain[Cardinality(DOMAIN nodes)] \cap DOMAIN nodes
  BY Zenon DEF Predecessors
<1>2. \A seen \in SUBSET DOMAIN nodes : Reached(DOMAIN nodes, Replaced, seen) = seen \cup beside(seen)
  BY DEF Reached, Replaced
<1>3. ASSUME NEW walk, walk = step(walk) \/ IsWalk(walk, n, DOMAIN nodes, Replaced)
      PROVE  \A k \in Nat : walk[k] \subseteq DOMAIN nodes
  <2>1. walk[0] = {n} /\ \A k \in Nat \ {0} : walk[k] \subseteq walk[k - 1] \cup DOMAIN nodes
    <3>1. CASE walk = step(walk)
      <4> HIDE DEF beside
      <4>1. walk[0] = {n} /\ \A k \in Nat \ {0} : walk[k] = walk[k - 1] \cup beside(walk[k - 1])
        BY <3>1
      <4>2. \A seen : beside(seen) \subseteq DOMAIN nodes
        BY DEF beside
      <4>3. QED BY <4>1, <4>2
    <3>2. CASE IsWalk(walk, n, DOMAIN nodes, Replaced)
      BY <3>2 DEF IsWalk, Reached
    <3>3. QED BY <1>3, <3>1, <3>2
  <2>2. QED BY <2>1, WalksStayInRows
<1>4. ASSUME NEW walk, \A k \in Nat : walk[k] \subseteq DOMAIN nodes
      PROVE  IsWalk(walk, n, DOMAIN nodes, Replaced) <=> walk = step(walk)
  <2>1. \A k \in Nat \ {0} :
          Reached(DOMAIN nodes, Replaced, walk[k - 1]) = walk[k - 1] \cup beside(walk[k - 1])
    BY <1>2, <1>4
  <2> HIDE DEF beside
  <2>2. step(walk) = [k \in Nat |-> IF k = 0 THEN {n}
                                    ELSE Reached(DOMAIN nodes, Replaced, walk[k - 1])]
    BY <2>1
  <2>3. QED BY <2>2 DEF IsWalk
<1>5. \E walk : walk = step(walk)
  BY <1>3, <1>4, WalksExist
<1> HIDE DEF step
<1>6. chain = step(chain)
  BY <1>5
<1>7. IsWalk(chain, n, DOMAIN nodes, Replaced)
  BY <1>3, <1>4, <1>6
<1>8. QED BY <1>1, <1>7

(* What a delete finds is the component of its row under prev, and what a hard delete *)
(* finds are the rows that lead up to it.                                             *)
LEMMA ChainsAreComponents ==
  ASSUME IsFiniteSet(DOMAIN nodes), NEW n \in DOMAIN nodes
  PROVE  LET chain == VersionChain(n)
         IN /\ n \in chain
            /\ chain \subseteq DOMAIN nodes
            /\ \A l, m \in DOMAIN nodes :
                 nodes[m].prev = l => (l \in chain <=> m \in chain)
            /\ \A S : /\ n \in S
                      /\ \A l, m \in DOMAIN nodes :
                           nodes[m].prev = l => (l \in S <=> m \in S)
                      => chain \subseteq S
<1>1. PICK walk : /\ IsWalk(walk, n, DOMAIN nodes, Linked)
                  /\ VersionChain(n) = walk[Cardinality(DOMAIN nodes)] \cap DOMAIN nodes
  BY ChainsAreWalks
<1> DEFINE found == walk[Cardinality(DOMAIN nodes)]
<1>2. /\ n \in found
      /\ found \subseteq DOMAIN nodes
      /\ \A l \in found, m \in DOMAIN nodes : <<l, m>> \in Linked => m \in found
      /\ \A S : /\ n \in S
                /\ \A l \in S, m \in DOMAIN nodes : <<l, m>> \in Linked => m \in S
                => found \subseteq S
  BY <1>1, WalksEnd
<1> HIDE DEF found
<1>3. VersionChain(n) = found
  BY <1>1, <1>2 DEF found
<1>4. \A l, m \in DOMAIN nodes : nodes[m].prev = l => (l \in found <=> m \in found)
  BY <1>2 DEF Linked
<1>5. ASSUME NEW S, n \in S,
             \A l, m \in DOMAIN nodes : nodes[m].prev = l => (l \in S <=> m \in S)
      PROVE  found \subseteq S
  BY <1>2, <1>5 DEF Linked
<1>6. QED BY <1>2, <1>3, <1>4, <1>5

LEMMA HistoriesLeadUp ==
  ASSUME IsFiniteSet(DOMAIN nodes), NEW n \in DOMAIN nodes
  PROVE  LET chain == Predecessors(n)
         IN /\ n \in chain
            /\ chain \subseteq DOMAIN nodes
            /\ \A l \in chain : nodes[l].prev \in DOMAIN nodes => nodes[l].prev \in chain
            /\ \A S : /\ n \in S
                      /\ \A l \in S : nodes[l].prev \in DOMAIN nodes => nodes[l].prev \in S
                      => chain \subseteq S
<1>1. PICK walk : /\ IsWalk(walk, n, DOMAIN nodes, Replaced)
                  /\ Predecessors(n) = walk[Cardinality(DOMAIN nodes)] \cap DOMAIN nodes
  BY HistoriesAreWalks
<1> DEFINE found == walk[Cardinality(DOMAIN nodes)]
<1>2. /\ n \in found
      /\ found \subseteq DOMAIN nodes
      /\ \A l \in found, m \in DOMAIN nodes : <<l, m>> \in Replaced => m \in found
      /\ \A S : /\ n \in S
                /\ \A l \in S, m \in DOMAIN nodes : <<l, m>> \in Replaced => m \in S
                => found \subseteq S
  BY <1>1, WalksEnd
<1> HIDE DEF found
<1>3. Predecessors(n) = found
  BY <1>1, <1>2 DEF found
<1>4. \A l \in found : nodes[l].prev \in DOMAIN nodes => nodes[l].prev \in found
  BY <1>2 DEF Replaced
<1>5. ASSUME NEW S, n \in S,
             \A l \in S : nodes[l].prev \in DOMAIN nodes => nodes[l].prev \in S
      PROVE  found \subseteq S
  BY <1>2, <1>5 DEF Replaced
<1>6. QED BY <1>2, <1>3, <1>4, <1>5

------------------------------------------------------------------------------
(* Plain memories, one request at a time *)

(* A store that serves one request at a time, of memories without branches and chunks. *)
Plain == Serial /\ "branch" \notin Workload /\ \A k \in Contents : ~k.chunked

RowsArePlain == \A n \in DOMAIN nodes : nodes[n].parent = None /\ nodes[n].branch = "none"

(* The versions of a memory are numbered apart: the current one is the last of them, and *)
(* one that replaced none is the first.                                                  *)
RowsAreNumbered ==
  \A m, n \in DOMAIN nodes : nodes[m].logical = nodes[n].logical =>
    /\ nodes[m].version = nodes[n].version => m = n
    /\ nodes[n].current => nodes[m].version <= nodes[n].version
    /\ nodes[n].prev = None => nodes[n].version <= nodes[m].version

(* Only versions of one memory share an object. *)
RefsAreOwned ==
  /\ \A n \in DOMAIN nodes : nodes[n].logical \in minted /\ nodes[n].ref \in minted \cup {None}
  /\ \A m, n \in DOMAIN nodes :
       nodes[m].ref = nodes[n].ref /\ nodes[m].ref # None => nodes[m].logical = nodes[n].logical

(* What the request in progress is about to commit. *)
InsertIsNew(r) ==
  /\ r.row = FirstVersion(r.new, None, "none", r.row.ref)
  /\ r.row.ref \in {r.new, None} \cap (objects \cup {None})
  /\ ~r.chunked
  /\ \A n \in DOMAIN nodes : nodes[n].logical # r.new /\ nodes[n].ref # r.new

UpdateIsOfCurrent(r) ==
  /\ r.seen.parent = None /\ r.seen.branch = "none" /\ r.seen.logical \in minted
  /\ ~r.chunked
  /\ r.ref \in (objects \cap minted) \cup {None}
  /\ \A n \in DOMAIN nodes :
       nodes[n].ref = r.ref /\ r.ref # None => nodes[n].logical = r.seen.logical
  /\ r.old \in DOMAIN nodes => nodes[r.old].current /\ ~nodes[r.old].deleted

DeleteIsOfOne(r) ==
  \E l \in NodeId :
    /\ r.ids \cap DOMAIN nodes = RowsOf(l)
    /\ \A n \in RowsOf(l) : ~nodes[n].deleted
    /\ \A n \in DOMAIN nodes : nodes[n].ref \in r.refs => nodes[n].logical = l

RequestIsPlain(c) ==
  LET r == req[c]
  IN /\ r.op # "chunk"
     /\ r.op = "insert" => InsertIsNew(r)
     /\ r.op = "update" => UpdateIsOfCurrent(r)
     /\ r.op = "delete" => DeleteIsOfOne(r)
     /\ r.op = "clean" =>
          \A n \in DOMAIN nodes : nodes[n].ref \in r.refs => nodes[n].deleted

PlainInv ==
  /\ IsFiniteSet(DOMAIN nodes)
  /\ RowsArePlain
  /\ RowsAreNumbered
  /\ RefsAreOwned
  /\ DeletionIsFinal
  /\ NoDanglingRef
  /\ \A c \in Client : RequestIsPlain(c)

(* No row has branches, so that a delete takes what its walk finds and nothing else. *)
LEMMA NoBranches ==
  ASSUME TypeOK, RowsArePlain, NEW S \in SUBSET DOMAIN nodes
  PROVE  Children(S) = {}
BY NoneAssumption DEF TypeOK, RowsArePlain, Children

(* What a delete finds are the versions of the memory, whichever it starts from: going *)
(* down from any row one comes to the first, and everything goes back to that.         *)
LEMMA ChainIsMemory ==
  ASSUME StoreInv, PlainInv, NEW n \in DOMAIN nodes
  PROVE  VersionChain(n) = RowsOf(nodes[n].logical)
<1> DEFINE chain == VersionChain(n)
           rows == RowsOf(nodes[n].logical)
<1>1. /\ n \in chain
      /\ chain \subseteq DOMAIN nodes
      /\ \A l, m \in DOMAIN nodes : nodes[m].prev = l => (l \in chain <=> m \in chain)
      /\ \A S : /\ n \in S
                /\ \A l, m \in DOMAIN nodes : nodes[m].prev = l => (l \in S <=> m \in S)
                => chain \subseteq S
  BY ChainsAreComponents DEF PlainInv
<1> HIDE DEF chain
<1>2. \A l, m \in DOMAIN nodes : nodes[m].prev = l =>
        nodes[m].logical = nodes[l].logical /\ nodes[m].version = nodes[l].version + 1
  BY NoneAssumption DEF StoreInv, ChainWellFormed, TypeOK
<1>3. \A m \in DOMAIN nodes : nodes[m].prev = None \/ nodes[m].prev \in DOMAIN nodes
  BY DEF StoreInv, ChainWellFormed
<1>4. \A m \in DOMAIN nodes : nodes[m].version \in Nat
  BY DEF StoreInv, TypeOK, Row
<1>5. chain \subseteq rows
  <2>1. n \in rows
    BY DEF RowsOf
  <2>2. \A l, m \in DOMAIN nodes : nodes[m].prev = l => (l \in rows <=> m \in rows)
    BY <1>2 DEF RowsOf
  <2> HIDE DEF rows
  <2>3. QED BY <1>1, <2>1, <2>2
<1>6. PICK first \in chain : \A m \in rows : nodes[first].version <= nodes[m].version
  <2> DEFINE numbers == {nodes[m].version : m \in chain}
  <2>1. numbers \in SUBSET Nat /\ numbers # {}
    BY <1>1, <1>4
  <2> HIDE DEF numbers
  <2>2. PICK v \in numbers : \A w \in numbers : v <= w
    BY <2>1, LeastNumber
  <2>3. PICK first \in chain : v = nodes[first].version
    BY DEF numbers
  <2>4. ASSUME nodes[first].prev # None PROVE FALSE
    <3>1. nodes[first].prev \in chain
      BY <1>1, <1>3, <2>4
    <3>2. nodes[first].version = nodes[nodes[first].prev].version + 1
      BY <1>1, <1>2, <3>1
    <3>3. v <= nodes[nodes[first].prev].version
      BY <2>2, <3>1 DEF numbers
    <3>4. nodes[nodes[first].prev].version \in Nat
      BY <1>1, <1>4, <3>1
    <3>5. QED BY <2>3, <3>2, <3>3, <3>4
  <2>5. \A m \in rows : nodes[first].logical = nodes[m].logical /\ m \in DOMAIN nodes
    BY <1>5 DEF RowsOf
  <2>6. QED BY <1>1, <2>4, <2>5 DEF PlainInv, RowsAreNumbered
<1>7. ASSUME rows \ chain # {} PROVE FALSE
  <2> DEFINE numbers == {nodes[m].version : m \in rows \ chain}
  <2>0. rows \subseteq DOMAIN nodes
    BY DEF RowsOf
  <2>1. numbers \in SUBSET Nat /\ numbers # {}
    BY <1>4, <1>7, <2>0
  <2> HIDE DEF numbers
  <2>2. PICK v \in numbers : \A w \in numbers : v <= w
    BY <2>1, LeastNumber
  <2>3. PICK m \in rows \ chain : v = nodes[m].version
    BY DEF numbers
  <2>4. m \in DOMAIN nodes /\ first \in DOMAIN nodes /\ first \in rows
    BY <1>1, <1>5, <2>0
  <2>5. CASE nodes[m].prev = None
    <3>1. nodes[m].logical = nodes[first].logical
      BY <2>4 DEF RowsOf
    <3>2. nodes[m].version <= nodes[first].version
      BY <2>4, <2>5, <3>1 DEF PlainInv, RowsAreNumbered
    <3>3. nodes[m].version = nodes[first].version
      BY <1>4, <1>6, <2>4, <3>2
    <3>4. m = first
      BY <2>4, <3>1, <3>3 DEF PlainInv, RowsAreNumbered
    <3>5. QED BY <2>3, <3>4
  <2>6. CASE nodes[m].prev # None
    <3> DEFINE p == nodes[m].prev
    <3>1. p \in DOMAIN nodes /\ nodes[m].logical = nodes[p].logical
            /\ nodes[m].version = nodes[p].version + 1
      BY <1>2, <1>3, <2>4, <2>6
    <3>2. p \in rows /\ p \notin chain
      BY <1>1, <2>3, <2>4, <3>1 DEF RowsOf
    <3>3. v <= nodes[p].version /\ nodes[p].version \in Nat
      BY <1>4, <2>2, <3>1, <3>2 DEF numbers
    <3>4. QED BY <2>3, <3>1, <3>3
  <2>7. QED BY <2>5, <2>6
<1>8. chain = rows
  BY <1>5, <1>7
<1>9. QED BY <1>8 DEF chain

(* What a hard delete removes are the versions up to the one it is asked for. *)
LEMMA PredecessorsAreEarlier ==
  ASSUME StoreInv, PlainInv, NEW n \in DOMAIN nodes
  PROVE  Predecessors(n) =
           {m \in RowsOf(nodes[n].logical) : nodes[m].version <= nodes[n].version}
<1> DEFINE chain == Predecessors(n)
           rows == {m \in RowsOf(nodes[n].logical) : nodes[m].version <= nodes[n].version}
<1>1. /\ n \in chain
      /\ chain \subseteq DOMAIN nodes
      /\ \A l \in chain : nodes[l].prev \in DOMAIN nodes => nodes[l].prev \in chain
      /\ \A S : /\ n \in S
                /\ \A l \in S : nodes[l].prev \in DOMAIN nodes => nodes[l].prev \in S
                => chain \subseteq S
  BY HistoriesLeadUp DEF PlainInv
<1> HIDE DEF chain
<1>2. \A m \in DOMAIN nodes : nodes[m].version \in Nat
  BY DEF StoreInv, TypeOK, Row
<1>3. \A m \in DOMAIN nodes :
        \/ nodes[m].prev = None
        \/ /\ nodes[m].prev \in DOMAIN nodes
           /\ nodes[m].logical = nodes[nodes[m].prev].logical
           /\ nodes[m].version = nodes[nodes[m].prev].version + 1
  BY DEF StoreInv, ChainWellFormed
<1>4. chain \subseteq rows
  <2>1. n \in rows
    BY <1>2 DEF RowsOf
  <2>2. ASSUME NEW l \in rows, nodes[l].prev \in DOMAIN nodes
        PROVE  nodes[l].prev \in rows
    <3> DEFINE p == nodes[l].prev
    <3>1. l \in DOMAIN nodes /\ nodes[l].logical = nodes[n].logical
            /\ nodes[l].version <= nodes[n].version
      BY DEF RowsOf
    <3>2. p # None
      BY <2>2, NoneAssumption DEF StoreInv, TypeOK
    <3>3. nodes[p].logical = nodes[n].logical /\ nodes[l].version = nodes[p].version + 1
      BY <1>3, <3>1, <3>2
    <3>4. nodes[p].version <= nodes[n].version
      BY <1>2, <2>2, <3>1, <3>3
    <3>5. QED BY <2>2, <3>3, <3>4 DEF RowsOf
  <2> HIDE DEF rows
  <2>3. QED BY <1>1, <2>1, <2>2
<1>5. ASSUME NEW m \in rows PROVE m \in chain
  <2> DEFINE later == {l \in chain : nodes[l].logical = nodes[m].logical
                                       /\ nodes[m].version <= nodes[l].version}
             numbers == {nodes[l].version : l \in later}
  <2>0. m \in DOMAIN nodes /\ nodes[m].logical = nodes[n].logical
          /\ nodes[m].version <= nodes[n].version
    BY DEF RowsOf
  <2>1. numbers \in SUBSET Nat /\ numbers # {}
    BY <1>1, <1>2, <2>0
  <2> HIDE DEF numbers
  <2>2. PICK v \in numbers : \A w \in numbers : v <= w
    BY <2>1, LeastNumber
  <2>3. PICK l \in later : v = nodes[l].version
    BY DEF numbers
  <2>4. l \in DOMAIN nodes /\ nodes[l].logical = nodes[m].logical
          /\ nodes[m].version <= nodes[l].version /\ l \in chain
    BY <1>1
  <2>5. CASE nodes[l].version = nodes[m].version
    BY <2>0, <2>4, <2>5 DEF PlainInv, RowsAreNumbered
  <2>6. CASE nodes[l].version # nodes[m].version
    <3> DEFINE p == nodes[l].prev
    <3>1. p # None
      <4>1. nodes[l].prev = None => nodes[l].version <= nodes[m].version
        BY <2>0, <2>4 DEF PlainInv, RowsAreNumbered
      <4>2. QED BY <1>2, <2>0, <2>4, <2>6, <4>1
    <3>2. p \in DOMAIN nodes /\ nodes[l].logical = nodes[p].logical
            /\ nodes[l].version = nodes[p].version + 1
      BY <1>3, <2>4, <3>1
    <3>3. p \in chain
      BY <1>1, <2>4, <3>2
    <3>4. nodes[m].version <= nodes[p].version /\ nodes[p].version \in Nat
      BY <1>2, <2>0, <2>4, <2>6, <3>2
    <3>5. p \in later
      BY <2>4, <3>2, <3>3, <3>4
    <3>6. v <= nodes[p].version
      BY <2>2, <3>5 DEF numbers
    <3>7. QED BY <2>3, <3>2, <3>4, <3>6
  <2>7. QED BY <2>5, <2>6
<1>6. chain = rows
  BY <1>4, <1>5 DEF RowsOf
<1>7. QED BY <1>6 DEF chain

LEMMA PlainInit == ASSUME Init PROVE PlainInv
<1>1. DOMAIN nodes = {} /\ \A c \in Client : req[c] = Idle
  BY DEF Init
<1>2. IsFiniteSet(DOMAIN nodes)
  BY <1>1, FS_EmptySet
<1>3. RowsArePlain /\ RowsAreNumbered /\ RefsAreOwned /\ DeletionIsFinal /\ NoDanglingRef
  BY <1>1 DEF RowsArePlain, RowsAreNumbered, RefsAreOwned, DeletionIsFinal, NoDanglingRef
<1>4. \A c \in Client : RequestIsPlain(c)
  BY <1>1 DEF RequestIsPlain, Idle
<1>5. QED BY <1>2, <1>3, <1>4 DEF PlainInv

(* A step that changes no row goes on with the one request in progress. *)
LEMMA RequestGoesOn ==
  ASSUME Plain, PlainInv, NEW c \in Client, nodes' = nodes, minted \subseteq minted',
         NoDanglingRef', RequestIsPlain(c)'
  PROVE  PlainInv'
<1>1. \A d \in Client : RequestIsPlain(d)'
  <2>1. SUFFICES ASSUME NEW d \in Client PROVE RequestIsPlain(d)'
    OBVIOUS
  <2>2. d = c
    BY DEF Plain, Serial
  <2>3. QED BY <2>2
<1>2. RefsAreOwned'
  BY DEF PlainInv, RefsAreOwned
<1>3. (IsFiniteSet(DOMAIN nodes) /\ RowsArePlain /\ RowsAreNumbered /\ DeletionIsFinal)'
  BY DEF PlainInv, RowsArePlain, RowsAreNumbered, DeletionIsFinal
<1>4. QED BY <1>1, <1>2, <1>3 DEF PlainInv

LEMMA PlainStartCreate ==
  ASSUME Plain, StoreInv, PlainInv, NEW c \in Client, StartCreate(c)
  PROVE  PlainInv'
<1> DEFINE id == NewId
<1>1. id \in NodeId \ minted
  BY NewIdIsUnused DEF StartCreate, Unused
<1> HIDE DEF id
<1>2. PICK k \in Contents, p \in ParentChoices :
        /\ minted' = minted \cup {id}
        /\ objects' = Uploaded(k, id)
        /\ Continue(c, [op |-> "insert", new |-> id, chunked |-> k.chunked,
             row |-> FirstVersion(id, p[1], p[2], RefFor(k, id))])
  BY DEF StartCreate, id
<1>3. p[1] = None /\ p[2] = "none" /\ ~k.chunked
  BY DEF ParentChoices, Plain
<1>4. /\ req'[c].op = "insert" /\ req'[c].new = id /\ ~req'[c].chunked
      /\ req'[c].row = FirstVersion(id, None, "none", RefFor(k, id))
  BY <1>2, <1>3 DEF Continue, StoreInv, TypeOK
<1>5. req'[c].row.ref = RefFor(k, id)
  BY <1>4 DEF FirstVersion
<1>6. objects \subseteq objects' /\ RefFor(k, id) \in {id, None} \cap (objects' \cup {None})
  BY <1>2 DEF Uploaded, RefFor
<1>7. \A n \in DOMAIN nodes : nodes[n].logical # id /\ nodes[n].ref # id
  BY <1>1, NoneAssumption DEF PlainInv, RefsAreOwned
<1>8. nodes' = nodes
  BY DEF StartCreate
<1>9. InsertIsNew(req[c])'
  BY <1>4, <1>5, <1>6, <1>7, <1>8 DEF InsertIsNew
<1>10. RequestIsPlain(c)'
  BY <1>4, <1>9 DEF RequestIsPlain
<1>11. NoDanglingRef'
  BY <1>6, <1>8 DEF NoDanglingRef, PlainInv
<1>12. QED BY <1>2, <1>8, <1>10, <1>11, RequestGoesOn

LEMMA PlainStartUpdate ==
  ASSUME Plain, StoreInv, PlainInv, NEW c \in Client, StartUpdate(c)
  PROVE  PlainInv'
<1> DEFINE id == NewId
<1>1. id \in NodeId \ minted
  BY NewIdIsUnused DEF StartUpdate, Unused
<1> HIDE DEF id
<1>2. PICK old \in DOMAIN nodes :
        /\ Updatable(old)
        /\ minted' = minted \cup {id}
        /\ \E changed, chunked, ref :
             /\ ~chunked
             /\ objects \subseteq objects'
             /\ \/ ref = None
                \/ ref = id /\ ref \in objects'
                \/ ref = nodes[old].ref
             /\ Continue(c, [op |-> "update", old |-> old, seen |-> nodes[old], new |-> id,
                             changed |-> changed, chunked |-> chunked, ref |-> ref])
  BY DEF StartUpdate, Uploaded, RefFor, Plain, id
<1>3. PICK changed, chunked, ref :
        /\ ~chunked
        /\ objects \subseteq objects'
        /\ \/ ref = None
           \/ ref = id /\ ref \in objects'
           \/ ref = nodes[old].ref
        /\ Continue(c, [op |-> "update", old |-> old, seen |-> nodes[old], new |-> id,
                        changed |-> changed, chunked |-> chunked, ref |-> ref])
  BY <1>2
<1>4. /\ req'[c].op = "update" /\ req'[c].old = old /\ req'[c].seen = nodes[old]
      /\ req'[c].ref = ref /\ ~req'[c].chunked
  BY <1>3 DEF Continue, StoreInv, TypeOK
<1>5. nodes' = nodes
  BY DEF StartUpdate
<1>6. nodes[old].current /\ ~nodes[old].deleted
  BY <1>2 DEF Updatable, Readable
<1>7. nodes[old].ref \in ((objects \cap minted) \cup {None})
  BY <1>6 DEF PlainInv, NoDanglingRef, RefsAreOwned
<1>8. ref \in (objects' \cap minted') \cup {None}
  BY <1>2, <1>3, <1>7
<1>9. ASSUME NEW n \in DOMAIN nodes, nodes[n].ref = ref, ref # None
      PROVE  nodes[n].logical = nodes[old].logical
  <2>1. ref # id
    BY <1>1, <1>9, NoneAssumption DEF PlainInv, RefsAreOwned
  <2>2. QED BY <1>3, <1>9, <2>1 DEF PlainInv, RefsAreOwned
<1>10. nodes[old].parent = None /\ nodes[old].branch = "none" /\ nodes[old].logical \in minted'
  BY <1>2 DEF PlainInv, RowsArePlain, RefsAreOwned
<1>11. UpdateIsOfCurrent(req[c])'
  BY <1>4, <1>5, <1>6, <1>8, <1>9, <1>10 DEF UpdateIsOfCurrent
<1>12. RequestIsPlain(c)'
  BY <1>4, <1>11 DEF RequestIsPlain
<1>13. NoDanglingRef'
  BY <1>3, <1>5 DEF NoDanglingRef, PlainInv
<1>14. QED BY <1>2, <1>5, <1>12, <1>13, RequestGoesOn

LEMMA PlainStartDelete ==
  ASSUME Plain, StoreInv, PlainInv, NEW c \in Client, StartDelete(c)
  PROVE  PlainInv'
<1>1. PICK n \in DOMAIN nodes :
        /\ Readable(n)
        /\ LET ids == VersionChain(n) \cup Children(VersionChain(n))
           IN Continue(c, [op |-> "delete", ids |-> ids, refs |-> Refs(ids)])
  BY DEF StartDelete
<1> DEFINE l == nodes[n].logical
<1>2. VersionChain(n) = RowsOf(l) /\ RowsOf(l) \subseteq DOMAIN nodes
  BY ChainIsMemory DEF RowsOf
<1>3. Children(VersionChain(n)) = {}
  BY <1>2, NoBranches DEF StoreInv, PlainInv
<1>4. /\ req'[c].op = "delete" /\ req'[c].ids = RowsOf(l) /\ req'[c].refs = Refs(RowsOf(l))
  BY <1>1, <1>2, <1>3 DEF Continue, StoreInv, TypeOK
<1>5. nodes' = nodes /\ objects' = objects /\ minted' = minted
  BY DEF StartDelete
<1>6. l \in NodeId
  BY DEF StoreInv, TypeOK, Row
<1>7. \A m \in RowsOf(l) : ~nodes[m].deleted
  BY <1>1 DEF RowsOf, Readable, PlainInv, DeletionIsFinal
<1>8. \A m \in DOMAIN nodes : nodes[m].ref \in Refs(RowsOf(l)) => nodes[m].logical = l
  BY DEF Refs, RowsOf, PlainInv, RefsAreOwned
<1>9. RowsOf(l)' = RowsOf(l)
  BY <1>5 DEF RowsOf
<1>10. DeleteIsOfOne(req[c])'
  <2> DEFINE r == req'[c]
  <2>1. /\ r.ids \cap DOMAIN nodes' = {m \in DOMAIN nodes' : nodes'[m].logical = l}
        /\ \A m \in {k \in DOMAIN nodes' : nodes'[k].logical = l} : ~nodes'[m].deleted
        /\ \A m \in DOMAIN nodes' : nodes'[m].ref \in r.refs => nodes'[m].logical = l
    BY <1>4, <1>5, <1>7, <1>8 DEF RowsOf
  <2>2. QED BY <1>6, <2>1 DEF DeleteIsOfOne, RowsOf
<1>11. RequestIsPlain(c)'
  BY <1>4, <1>10 DEF RequestIsPlain
<1>12. NoDanglingRef'
  BY <1>5 DEF NoDanglingRef, PlainInv
<1>13. QED BY <1>5, <1>11, <1>12, RequestGoesOn

LEMMA PlainRequestEnds ==
  ASSUME Plain, StoreInv, PlainInv, NEW c \in Client,
         CleanObjects(c) \/ FailCommit(c) \/ Crash(c)
  PROVE  PlainInv'
<1>1. req'[c] = Idle /\ nodes' = nodes /\ minted' = minted
  BY DEF CleanObjects, FailCommit, Crash, Finish, StoreInv, TypeOK
<1>2. RequestIsPlain(c)'
  BY <1>1 DEF RequestIsPlain, Idle
<1>3. NoDanglingRef'
  <2>1. CASE CleanObjects(c)
    <3>1. req[c].op = "clean" /\ objects' = objects \ req[c].refs
      BY <2>1 DEF CleanObjects, Running
    <3>2. \A n \in DOMAIN nodes : nodes[n].ref \in req[c].refs => nodes[n].deleted
      BY <3>1 DEF PlainInv, RequestIsPlain
    <3>3. QED BY <1>1, <3>1, <3>2 DEF NoDanglingRef, PlainInv
  <2>2. CASE FailCommit(c) \/ Crash(c)
    BY <1>1, <2>2 DEF FailCommit, Crash, NoDanglingRef, PlainInv
  <2>3. QED BY <2>1, <2>2
<1>4. QED BY <1>1, <1>2, <1>3, RequestGoesOn

LEMMA PlainCommitCreate ==
  ASSUME Plain, StoreInv, PlainInv, NEW c \in Client, CommitCreate(c)
  PROVE  /\ PlainInv'
         /\ \E new \in NodeId \ DOMAIN nodes :
              /\ \A n \in DOMAIN nodes : nodes[n].logical # new
              /\ DOMAIN nodes' = DOMAIN nodes \cup {new}
              /\ \A n \in DOMAIN nodes : nodes'[n] = nodes[n]
              /\ nodes'[new].logical = new /\ nodes'[new].version = 1
              /\ ~nodes'[new].deleted
<1> DEFINE r == req[c]
           new == r.new
<1>1. r.op = "insert" /\ r \in InsertReq
  BY RequestKinds DEF StoreInv, TypeOK, CommitCreate, Running
<1>2. /\ r.row = FirstVersion(new, None, "none", r.row.ref)
      /\ r.row.ref \in {new, None} \cap (objects \cup {None})
      /\ ~r.chunked
      /\ \A n \in DOMAIN nodes : nodes[n].logical # new /\ nodes[n].ref # new
  BY <1>1 DEF PlainInv, RequestIsPlain, InsertIsNew
<1>3. new \in minted \ DOMAIN nodes /\ new \in NodeId
  BY <1>1 DEF StoreInv, IdsAreMintedOnce, InsertReq
<1>4. /\ DOMAIN nodes' = DOMAIN nodes \cup {new}
      /\ \A n \in DOMAIN nodes : nodes'[n] = nodes[n]
      /\ nodes'[new] = r.row
      /\ minted' = minted /\ objects' = objects
      /\ req'[c] = Idle
  BY <1>2, <1>3 DEF CommitCreate, AfterCommit, Continue, StoreInv, TypeOK
<1>5. /\ nodes'[new].logical = new /\ nodes'[new].version = 1 /\ ~nodes'[new].deleted
      /\ nodes'[new].parent = None /\ nodes'[new].branch = "none"
      /\ nodes'[new].ref = r.row.ref
  BY <1>2, <1>4 DEF FirstVersion
<1> HIDE DEF new, r
<1>6. IsFiniteSet(DOMAIN nodes')
  BY <1>4, FS_AddElement DEF PlainInv
<1>7. RowsArePlain'
  BY <1>4, <1>5 DEF RowsArePlain, PlainInv
<1>8. RowsAreNumbered'
  BY <1>2, <1>4, <1>5 DEF RowsAreNumbered, PlainInv
<1>9. RefsAreOwned'
  BY <1>2, <1>3, <1>4, <1>5 DEF RefsAreOwned, PlainInv
<1>10. DeletionIsFinal'
  BY <1>2, <1>4, <1>5 DEF DeletionIsFinal, PlainInv
<1>11. NoDanglingRef'
  BY <1>2, <1>4, <1>5 DEF NoDanglingRef, PlainInv
<1>12. \A d \in Client : RequestIsPlain(d)'
  BY <1>4 DEF RequestIsPlain, Idle, Plain, Serial
<1>13. PlainInv'
  BY <1>6, <1>7, <1>8, <1>9, <1>10, <1>11, <1>12 DEF PlainInv
<1>14. QED BY <1>2, <1>3, <1>4, <1>5, <1>13

(* The version that an update adds is the next of the one that is current. *)
LEMMA PlainCommitUpdate ==
  ASSUME Plain, StoreInv, PlainInv, NEW c \in Client, CommitUpdate(c)
  PROVE  /\ PlainInv'
         /\ \E new \in NodeId \ DOMAIN nodes, old \in DOMAIN nodes :
              /\ nodes[old].current /\ ~nodes[old].deleted
              /\ DOMAIN nodes' = DOMAIN nodes \cup {new}
              /\ \A n \in DOMAIN nodes : /\ nodes'[n].logical = nodes[n].logical
                                         /\ nodes'[n].version = nodes[n].version
                                         /\ nodes'[n].deleted = nodes[n].deleted
              /\ nodes'[new].logical = nodes[old].logical
              /\ nodes'[new].version = nodes[old].version + 1
              /\ ~nodes'[new].deleted
<1> DEFINE r == req[c]
           new == r.new
           old == r.old
<1>1. r.op = "update" /\ r \in UpdateReq /\ old \in DOMAIN nodes
  BY RequestKinds DEF StoreInv, TypeOK, CommitUpdate, Running
<1>2. /\ r.seen.parent = None /\ r.seen.branch = "none" /\ r.seen.logical \in minted
      /\ ~r.chunked
      /\ r.ref \in (objects \cap minted) \cup {None}
      /\ \A n \in DOMAIN nodes :
           nodes[n].ref = r.ref /\ r.ref # None => nodes[n].logical = r.seen.logical
      /\ nodes[old].current /\ ~nodes[old].deleted
  BY <1>1 DEF PlainInv, RequestIsPlain, UpdateIsOfCurrent
<1>3. /\ new \in minted \ DOMAIN nodes /\ new \in NodeId
      /\ nodes[old].version = r.seen.version /\ nodes[old].logical = r.seen.logical
  BY <1>1 DEF StoreInv, IdsAreMintedOnce, ReadsStayValid, UpdateReq
<1>4. Children({old}) = {}
  BY <1>1, NoBranches DEF StoreInv, PlainInv
<1>5. PICK copies \in SUBSET Unused :
        \E original \in [copies -> CopiedChildren(r)] : UpdateCommitted(r, copies, original)
  BY UpdateCommits DEF StoreInv
<1>6. CopiedChildren(r) = {} /\ RetiredRows(r) = {old}
  BY <1>4 DEF CopiedChildren, RetiredRows
<1>7. copies = {} /\ \E original : UpdateCommitted(r, copies, original)
  BY <1>5, <1>6
<1>8. /\ DOMAIN nodes' = DOMAIN nodes \cup {new}
      /\ nodes'[new] = NextVersion(r)
      /\ nodes'[old] = [nodes[old] EXCEPT !.current = FALSE]
      /\ \A n \in DOMAIN nodes \ {old} : nodes'[n] = nodes[n]
      /\ minted' = minted
  BY <1>1, <1>3, <1>6, <1>7 DEF UpdateCommitted, Retired
<1>9. objects' = objects /\ req'[c] = Idle
  BY <1>2 DEF CommitUpdate, AfterCommit, Continue, StoreInv, TypeOK
<1>10. /\ nodes'[new].logical = nodes[old].logical
       /\ nodes'[new].version = nodes[old].version + 1
       /\ nodes'[new].current /\ ~nodes'[new].deleted
       /\ nodes'[new].parent = None /\ nodes'[new].branch = "none"
       /\ nodes'[new].ref = r.ref /\ nodes'[new].prev = old
  BY <1>2, <1>3, <1>8 DEF NextVersion
<1>11. \A n \in DOMAIN nodes :
         /\ nodes'[n].logical = nodes[n].logical /\ nodes'[n].version = nodes[n].version
         /\ nodes'[n].deleted = nodes[n].deleted /\ nodes'[n].parent = nodes[n].parent
         /\ nodes'[n].branch = nodes[n].branch /\ nodes'[n].ref = nodes[n].ref
         /\ nodes'[n].prev = nodes[n].prev
         /\ nodes'[n].current => nodes[n].current /\ n # old
  BY <1>1, <1>8 DEF StoreInv, TypeOK, Row
<1>12. \A n \in DOMAIN nodes : nodes[n].version \in Nat
  BY DEF StoreInv, TypeOK, Row
<1>13. old # None
  BY <1>1, NoneAssumption DEF StoreInv, TypeOK
<1> HIDE DEF new, old, r
<1>14. IsFiniteSet(DOMAIN nodes')
  BY <1>8, FS_AddElement DEF PlainInv
<1>15. RowsArePlain'
  BY <1>8, <1>10, <1>11 DEF RowsArePlain, PlainInv
<1>16. ASSUME NEW n \in DOMAIN nodes, nodes[n].logical = nodes[old].logical
       PROVE  /\ nodes[n].version <= nodes[old].version
              /\ ~nodes'[n].current
  <2>1. nodes[n].version <= nodes[old].version
    BY <1>1, <1>2, <1>16 DEF PlainInv, RowsAreNumbered
  <2>2. nodes[n].current => nodes[old].version <= nodes[n].version
    BY <1>1, <1>16 DEF PlainInv, RowsAreNumbered
  <2>3. nodes[n].current => n = old
    BY <1>1, <1>12, <1>16, <2>1, <2>2 DEF PlainInv, RowsAreNumbered
  <2>4. QED BY <1>11, <2>1, <2>3
<1>17. RowsAreNumbered'
  <2>1. SUFFICES ASSUME NEW m \in DOMAIN nodes', NEW n \in DOMAIN nodes',
                        nodes'[m].logical = nodes'[n].logical
                 PROVE  /\ nodes'[m].version = nodes'[n].version => m = n
                        /\ nodes'[n].current => nodes'[m].version <= nodes'[n].version
                        /\ nodes'[n].prev = None => nodes'[n].version <= nodes'[m].version
    BY DEF RowsAreNumbered
  <2>2. CASE m \in DOMAIN nodes /\ n \in DOMAIN nodes
    BY <1>11, <2>1, <2>2 DEF PlainInv, RowsAreNumbered
  <2>3. CASE m = new /\ n \in DOMAIN nodes
    <3>1. nodes[n].version <= nodes[old].version /\ ~nodes'[n].current
      BY <1>10, <1>11, <1>16, <2>1, <2>3
    <3>2. nodes'[m].version = nodes[old].version + 1 /\ nodes'[n].version = nodes[n].version
      BY <1>10, <1>11, <2>3
    <3>3. QED BY <1>1, <1>12, <2>3, <3>1, <3>2
  <2>4. CASE n = new /\ m \in DOMAIN nodes
    <3>1. nodes[m].version <= nodes[old].version /\ nodes'[n].prev # None
      BY <1>10, <1>11, <1>13, <1>16, <2>1, <2>4
    <3>2. nodes'[n].version = nodes[old].version + 1 /\ nodes'[m].version = nodes[m].version
      BY <1>10, <1>11, <2>4
    <3>3. QED BY <1>1, <1>12, <2>4, <3>1, <3>2
  <2>5. CASE m = new /\ n = new
    BY <1>1, <1>10, <1>12, <2>5
  <2>6. QED BY <1>8, <2>2, <2>3, <2>4, <2>5
<1>18. RefsAreOwned'
  <2>1. \A n \in DOMAIN nodes' :
          nodes'[n].logical \in minted' /\ nodes'[n].ref \in minted' \cup {None}
    BY <1>2, <1>3, <1>8, <1>10, <1>11 DEF PlainInv, RefsAreOwned
  <2>2. ASSUME NEW m \in DOMAIN nodes', NEW n \in DOMAIN nodes',
               nodes'[m].ref = nodes'[n].ref, nodes'[m].ref # None
        PROVE  nodes'[m].logical = nodes'[n].logical
    <3>1. CASE m \in DOMAIN nodes /\ n \in DOMAIN nodes
      BY <1>11, <2>2, <3>1 DEF PlainInv, RefsAreOwned
    <3>2. CASE m = new \/ n = new
      BY <1>2, <1>3, <1>8, <1>10, <1>11, <2>2, <3>2
    <3>3. QED BY <1>8, <3>1, <3>2
  <2>3. QED BY <2>1, <2>2 DEF RefsAreOwned
<1>19. DeletionIsFinal'
  BY <1>1, <1>2, <1>8, <1>10, <1>11 DEF DeletionIsFinal, PlainInv
<1>20. NoDanglingRef'
  BY <1>2, <1>8, <1>9, <1>10, <1>11 DEF NoDanglingRef, PlainInv
<1>21. \A d \in Client : RequestIsPlain(d)'
  BY <1>9 DEF RequestIsPlain, Idle, Plain, Serial
<1>22. PlainInv'
  BY <1>14, <1>15, <1>17, <1>18, <1>19, <1>20, <1>21 DEF PlainInv
<1>23. QED BY <1>1, <1>2, <1>3, <1>8, <1>10, <1>11, <1>22

(* A delete marks the versions of one memory, or nothing if they are gone. *)
LEMMA PlainCommitDelete ==
  ASSUME Plain, StoreInv, PlainInv, NEW c \in Client, CommitDelete(c)
  PROVE  /\ PlainInv'
         /\ \E l \in NodeId :
              /\ DOMAIN nodes' = DOMAIN nodes
              /\ \A n \in DOMAIN nodes : /\ nodes'[n].logical = nodes[n].logical
                                         /\ nodes'[n].version = nodes[n].version
              /\ \A n \in DOMAIN nodes \ RowsOf(l) : nodes'[n].deleted = nodes[n].deleted
              /\ \A n \in RowsOf(l) : ~nodes[n].deleted /\ nodes'[n].deleted
<1> DEFINE r == req[c]
<1>1. r.op = "delete"
  BY DEF CommitDelete, Running
<1>2. PICK l \in NodeId :
        /\ r.ids \cap DOMAIN nodes = RowsOf(l)
        /\ \A n \in RowsOf(l) : ~nodes[n].deleted
        /\ \A n \in DOMAIN nodes : nodes[n].ref \in r.refs => nodes[n].logical = l
  BY <1>1 DEF PlainInv, RequestIsPlain, DeleteIsOfOne
<1>3. /\ DOMAIN nodes' = DOMAIN nodes /\ minted' = minted /\ objects' = objects
      /\ \A n \in DOMAIN nodes :
           nodes'[n] = IF n \in RowsOf(l) THEN SoftDeleted(nodes[n]) ELSE nodes[n]
  BY <1>2 DEF CommitDelete
<1>4. \A n \in DOMAIN nodes : nodes[n] \in Row
  BY DEF StoreInv, TypeOK
<1>5. \A n \in DOMAIN nodes :
        /\ nodes'[n].logical = nodes[n].logical /\ nodes'[n].version = nodes[n].version
        /\ nodes'[n].parent = nodes[n].parent /\ nodes'[n].branch = nodes[n].branch
        /\ nodes'[n].ref = nodes[n].ref /\ nodes'[n].prev = nodes[n].prev
        /\ nodes'[n].current => nodes[n].current
        /\ nodes'[n].deleted <=> n \in RowsOf(l) \/ nodes[n].deleted
  <2>1. SUFFICES ASSUME NEW n \in DOMAIN nodes
                 PROVE  /\ nodes'[n].logical = nodes[n].logical
                        /\ nodes'[n].version = nodes[n].version
                        /\ nodes'[n].parent = nodes[n].parent
                        /\ nodes'[n].branch = nodes[n].branch
                        /\ nodes'[n].ref = nodes[n].ref /\ nodes'[n].prev = nodes[n].prev
                        /\ nodes'[n].current => nodes[n].current
                        /\ nodes'[n].deleted <=> n \in RowsOf(l) \/ nodes[n].deleted
    OBVIOUS
  <2>2. CASE n \in RowsOf(l)
    <3>1. nodes'[n] = [nodes[n] EXCEPT !.deleted = TRUE, !.current = FALSE]
      BY <1>3, <2>2 DEF SoftDeleted
    <3>2. QED BY <1>4, <2>2, <3>1 DEF Row
  <2>3. CASE n \notin RowsOf(l)
    BY <1>3, <2>3
  <2>4. QED BY <2>2, <2>3
<1>6. \A n \in DOMAIN nodes : n \in RowsOf(l) <=> nodes[n].logical = l
  BY DEF RowsOf
<1>7. RowsArePlain'
  BY <1>3, <1>5 DEF RowsArePlain, PlainInv
<1>8. RowsAreNumbered'
  BY <1>3, <1>5 DEF RowsAreNumbered, PlainInv
<1>9. RefsAreOwned'
  BY <1>3, <1>5 DEF RefsAreOwned, PlainInv
<1>10. DeletionIsFinal'
  BY <1>3, <1>5, <1>6 DEF DeletionIsFinal, PlainInv
<1>11. NoDanglingRef'
  BY <1>3, <1>5 DEF NoDanglingRef, PlainInv
<1>12. RequestIsPlain(c)'
  <2>1. CASE r.refs = {}
    <3>1. req'[c] = Idle
      BY <2>1 DEF CommitDelete, Continue, StoreInv, TypeOK
    <3>2. QED BY <3>1 DEF RequestIsPlain, Idle
  <2>2. CASE r.refs # {}
    <3>1. req'[c].op = "clean" /\ req'[c].refs = r.refs
      BY <2>2 DEF CommitDelete, Continue, StoreInv, TypeOK
    <3>2. \A n \in DOMAIN nodes' : nodes'[n].ref \in r.refs => nodes'[n].deleted
      BY <1>2, <1>3, <1>5, <1>6
    <3>3. QED BY <3>1, <3>2 DEF RequestIsPlain
  <2>3. QED BY <2>1, <2>2
<1>13. \A d \in Client : RequestIsPlain(d)'
  BY <1>12 DEF Plain, Serial
<1>14. PlainInv'
  BY <1>3, <1>7, <1>8, <1>9, <1>10, <1>11, <1>13 DEF PlainInv
<1>15. \A n \in DOMAIN nodes : nodes[n].deleted \in BOOLEAN /\ nodes'[n].deleted \in BOOLEAN
  BY <1>3, <1>4 DEF SoftDeleted, Row
<1>16. \A n \in DOMAIN nodes \ RowsOf(l) : nodes'[n].deleted = nodes[n].deleted
  BY <1>3
<1>17. QED BY <1>2, <1>3, <1>5, <1>6, <1>14, <1>16 DEF RowsOf

(* Rows that keep all they say but their status and their pointer, while others go. *)
SameButPointer(n) ==
  /\ nodes'[n].logical = nodes[n].logical /\ nodes'[n].version = nodes[n].version
  /\ nodes'[n].parent = nodes[n].parent /\ nodes'[n].branch = nodes[n].branch
  /\ nodes'[n].ref = nodes[n].ref
  /\ nodes'[n].current = nodes[n].current /\ nodes'[n].deleted = nodes[n].deleted

LEMMA RowsThinned ==
  ASSUME PlainInv, UNCHANGED <<objects, minted, req>>, DOMAIN nodes' \subseteq DOMAIN nodes,
         \A n \in DOMAIN nodes' : SameButPointer(n),
         \A m, n \in DOMAIN nodes' :
           nodes[m].logical = nodes[n].logical /\ nodes'[n].prev = None
           => nodes[n].version <= nodes[m].version
  PROVE  PlainInv'
<1>1. IsFiniteSet(DOMAIN nodes')
  BY FS_Subset DEF PlainInv
<1>2. RowsArePlain' /\ DeletionIsFinal' /\ NoDanglingRef'
  BY DEF SameButPointer, PlainInv, RowsArePlain, DeletionIsFinal, NoDanglingRef
<1>3. RowsAreNumbered'
  BY DEF SameButPointer, PlainInv, RowsAreNumbered
<1>4. RefsAreOwned'
  BY DEF SameButPointer, PlainInv, RefsAreOwned
<1>5. ASSUME NEW c \in Client PROVE RequestIsPlain(c)'
  <2> DEFINE r == req[c]
  <2>1. RequestIsPlain(c) /\ req'[c] = r
    BY DEF PlainInv
  <2>2. ASSUME InsertIsNew(r) PROVE InsertIsNew(r)'
    BY <2>1, <2>2 DEF InsertIsNew, SameButPointer, FirstVersion
  <2>3. ASSUME UpdateIsOfCurrent(r) PROVE UpdateIsOfCurrent(r)'
    BY <2>1, <2>3 DEF UpdateIsOfCurrent, SameButPointer
  <2>4. ASSUME DeleteIsOfOne(r) PROVE DeleteIsOfOne(r)'
    <3>1. PICK l \in NodeId :
            /\ r.ids \cap DOMAIN nodes = RowsOf(l)
            /\ \A n \in RowsOf(l) : ~nodes[n].deleted
            /\ \A n \in DOMAIN nodes : nodes[n].ref \in r.refs => nodes[n].logical = l
      BY <2>4 DEF DeleteIsOfOne
    <3>2. /\ r.ids \cap DOMAIN nodes' = RowsOf(l)'
          /\ \A n \in RowsOf(l)' : ~nodes'[n].deleted
          /\ \A n \in DOMAIN nodes' : nodes'[n].ref \in r.refs => nodes'[n].logical = l
      BY <3>1 DEF RowsOf, SameButPointer
    <3>3. QED BY <2>1, <3>2 DEF DeleteIsOfOne
  <2>5. (r.op = "clean" =>
           \A n \in DOMAIN nodes : nodes[n].ref \in r.refs => nodes[n].deleted)'
    BY <2>1 DEF RequestIsPlain, SameButPointer
  <2>6. QED BY <2>1, <2>2, <2>3, <2>4, <2>5 DEF RequestIsPlain
<1>6. QED BY <1>1, <1>2, <1>3, <1>4, <1>5 DEF PlainInv

LEMMA PlainSetStatus ==
  ASSUME StoreInv, PlainInv, NEW n \in DOMAIN nodes, Quarantine(n) \/ Restore(n)
  PROVE  /\ PlainInv'
         /\ DOMAIN nodes' = DOMAIN nodes
         /\ \A m \in DOMAIN nodes : SameButPointer(m)
<1>1. \A m \in DOMAIN nodes : nodes[m] \in Row
  BY DEF StoreInv, TypeOK
<1>2. /\ DOMAIN nodes' = DOMAIN nodes /\ UNCHANGED <<objects, minted, req>>
      /\ \E to : nodes' = [nodes EXCEPT ![n].status = to]
  BY DEF Quarantine, Restore, SetStatus
<1>3. \A m \in DOMAIN nodes : SameButPointer(m) /\ nodes'[m].prev = nodes[m].prev
  BY <1>1, <1>2 DEF SameButPointer, Row
<1>4. \A k, m \in DOMAIN nodes :
        nodes[k].logical = nodes[m].logical /\ nodes'[m].prev = None
        => nodes[m].version <= nodes[k].version
  BY <1>3 DEF PlainInv, RowsAreNumbered
<1>5. QED BY <1>2, <1>3, <1>4, RowsThinned

LEMMA PlainHardDelete ==
  ASSUME StoreInv, PlainInv, NEW n \in DOMAIN nodes, HardDelete(n)
  PROVE  /\ PlainInv'
         /\ DOMAIN nodes' = DOMAIN nodes \ Predecessors(n)
         /\ \A m \in DOMAIN nodes' : SameButPointer(m)
<1> DEFINE chain == Predecessors(n)
           l == nodes[n].logical
           v == nodes[n].version
           clear(id) == IF id \in chain THEN None ELSE id
<1>1. chain = {m \in RowsOf(l) : nodes[m].version <= v} /\ chain \subseteq DOMAIN nodes
  BY PredecessorsAreEarlier DEF RowsOf
<1> HIDE DEF chain
<1>2. Children(chain) = {}
  BY <1>1, NoBranches DEF StoreInv, PlainInv
<1>3. /\ nodes' = [m \in DOMAIN nodes \ chain |->
                    [nodes[m] EXCEPT !.prev = clear(@), !.parent = clear(@)]]
      /\ UNCHANGED <<objects, minted, req>>
  BY <1>2 DEF HardDelete, chain
<1>4. \A m \in DOMAIN nodes : nodes[m] \in Row /\ nodes[m].parent = None
  BY DEF StoreInv, TypeOK, PlainInv, RowsArePlain
<1>5. None \notin chain
  BY <1>1, NoneAssumption DEF StoreInv, TypeOK
<1>6. DOMAIN nodes' = DOMAIN nodes \ chain
  BY <1>3
<1>7. ASSUME NEW m \in DOMAIN nodes' PROVE SameButPointer(m) /\ nodes'[m].prev = clear(nodes[m].prev)
  <2>1. nodes'[m] = [nodes[m] EXCEPT !.prev = clear(@), !.parent = clear(@)]
    BY <1>3
  <2>2. nodes[m] \in Row /\ nodes[m].parent = None
    BY <1>4, <1>6
  <2>3. QED BY <1>5, <2>1, <2>2 DEF Row, SameButPointer
<1>8. ASSUME NEW k \in DOMAIN nodes', NEW m \in DOMAIN nodes',
             nodes[k].logical = nodes[m].logical, nodes'[m].prev = None
      PROVE  nodes[m].version <= nodes[k].version
  <2>1. k \in DOMAIN nodes \ chain /\ m \in DOMAIN nodes \ chain
    BY <1>6
  <2>2. nodes[k].version \in Nat /\ nodes[m].version \in Nat /\ v \in Nat
    BY <1>4, <2>1 DEF Row
  <2>3. CASE nodes[m].prev = None
    BY <1>8, <2>1, <2>3 DEF PlainInv, RowsAreNumbered
  <2>4. CASE nodes[m].prev # None
    <3> DEFINE p == nodes[m].prev
    <3>1. p \in chain
      BY <1>7, <1>8, <2>4
    <3>2. /\ nodes[m].version = nodes[p].version + 1
          /\ nodes[m].logical = nodes[p].logical
      BY <2>1, <2>4 DEF StoreInv, ChainWellFormed
    <3>3. p \in RowsOf(l) /\ nodes[p].version <= v
      BY <1>1, <3>1
    <3>4. nodes[p].version \in Nat /\ nodes[p].logical = l
      BY <1>4, <3>3 DEF RowsOf, Row
    <3>5. k \in RowsOf(l)
      BY <1>8, <2>1, <3>2, <3>4 DEF RowsOf
    <3>6. ~(nodes[k].version <= v)
      BY <1>1, <2>1, <3>5
    <3>7. QED BY <2>2, <3>2, <3>3, <3>4, <3>6
  <2>5. QED BY <2>3, <2>4
<1>9. PlainInv'
  BY <1>3, <1>6, <1>7, <1>8, RowsThinned
<1>10. QED BY <1>6, <1>7, <1>9 DEF chain

LEMMA PlainStep ==
  ASSUME Plain, StoreInv, PlainInv, [Next]_vars
  PROVE  PlainInv'
<1>1. ASSUME NEW c \in Client, ClientStep(c) PROVE PlainInv'
  <2>1. ~Running(c, "chunk")
    BY DEF PlainInv, RequestIsPlain, Running
  <2>2. ~CommitChunks(c) /\ ~LoseChunks(c)
    BY <2>1 DEF CommitChunks, LoseChunks
  <2>3. QED
    BY <1>1, <2>2, PlainStartCreate, PlainCommitCreate, PlainStartUpdate, PlainCommitUpdate,
       PlainStartDelete, PlainCommitDelete, PlainRequestEnds
    DEF ClientStep, StepBesidesUpdate
<1>2. ASSUME UNCHANGED vars PROVE PlainInv'
  <2>1. nodes' = nodes /\ objects' = objects /\ minted' = minted /\ req' = req
    BY <1>2 DEF vars
  <2>2. \A n \in DOMAIN nodes : SameButPointer(n)
    BY <2>1 DEF SameButPointer
  <2>3. \A m, n \in DOMAIN nodes :
          nodes[m].logical = nodes[n].logical /\ nodes'[n].prev = None
          => nodes[n].version <= nodes[m].version
    BY <2>1 DEF PlainInv, RowsAreNumbered
  <2>4. QED BY <2>1, <2>2, <2>3, RowsThinned
<1>3. QED BY <1>1, <1>2, PlainSetStatus, PlainHardDelete DEF Next

------------------------------------------------------------------------------
(* The ledger *)

(* The rows as a ledger. *)
Recordings == [l \in NodeId |-> {<<nodes[n].version, n>> : n \in RowsOf(l)}]
Removed == {l \in NodeId : RowsOf(l) # {} /\ \A n \in RowsOf(l) : nodes[n].deleted}

(* Steps that leave alone what the ledger tells of a row. *)
SameEntry(n) ==
  /\ nodes'[n].logical = nodes[n].logical /\ nodes'[n].version = nodes[n].version
  /\ nodes'[n].deleted = nodes[n].deleted

LEMMA LedgerStutters ==
  ASSUME DOMAIN nodes' = DOMAIN nodes, \A n \in DOMAIN nodes : SameEntry(n)
  PROVE  UNCHANGED <<Recordings, Removed>>
<1>1. \A l : RowsOf(l)' = RowsOf(l)
  BY DEF RowsOf, SameEntry
<1>2. ASSUME NEW l \in NodeId
      PROVE  {<<nodes[n].version, n>> : n \in RowsOf(l)}'
               = {<<nodes[n].version, n>> : n \in RowsOf(l)}
  BY <1>1 DEF RowsOf, SameEntry
<1>3. Recordings' = Recordings
  BY <1>2 DEF Recordings
<1>4. Removed' = Removed
  BY <1>1 DEF Removed, RowsOf, SameEntry
<1>5. QED BY <1>3, <1>4

(* One more row is one more revision of its memory, which is not a removed one. *)
LEMMA LedgerGrows ==
  ASSUME TypeOK, NEW new \in NodeId \ DOMAIN nodes, NEW l \in NodeId, NEW number,
         DOMAIN nodes' = DOMAIN nodes \cup {new}, \A n \in DOMAIN nodes : SameEntry(n),
         nodes'[new].logical = l, nodes'[new].version = number, ~nodes'[new].deleted,
         \A n \in RowsOf(l) : ~nodes[n].deleted
  PROVE  Ledger!Add(l, new, number)
<1>1. \A k : RowsOf(k)' = IF k = l THEN RowsOf(l) \cup {new} ELSE RowsOf(k)
  BY DEF RowsOf, SameEntry
<1>2. \A k : \A n \in RowsOf(k) : nodes'[n].version = nodes[n].version
                                    /\ nodes'[n].deleted = nodes[n].deleted
  BY DEF RowsOf, SameEntry
<1>3. ASSUME NEW k \in NodeId
      PROVE  Recordings'[k] = [Recordings EXCEPT ![l] = @ \cup {<<number, new>>}][k]
  <2>1. Recordings[k] = {<<nodes[n].version, n>> : n \in RowsOf(k)}
    BY DEF Recordings
  <2>2. Recordings'[k] = {<<nodes'[n].version, n>> : n \in RowsOf(k)'}
    BY DEF Recordings
  <2>3. CASE k = l
    <3>1. Recordings'[k] = {<<nodes'[n].version, n>> : n \in RowsOf(k)} \cup {<<number, new>>}
      BY <1>1, <2>2, <2>3
    <3>2. Recordings'[k] = Recordings[k] \cup {<<number, new>>}
      BY <1>2, <2>1, <3>1
    <3>3. QED BY <2>3, <3>2 DEF Recordings
  <2>4. CASE k # l
    <3>1. Recordings'[k] = Recordings[k]
      BY <1>1, <1>2, <2>1, <2>2, <2>4
    <3>2. QED BY <2>4, <3>1 DEF Recordings
  <2>5. QED BY <2>3, <2>4
<1>4. Recordings' = [Recordings EXCEPT ![l] = @ \cup {<<number, new>>}]
  BY <1>3 DEF Recordings
<1>5. Removed' = Removed
  <2>1. l \notin Removed /\ l \notin Removed'
    BY <1>1 DEF Removed
  <2>2. \A k \in NodeId \ {l} : k \in Removed <=> k \in Removed'
    BY <1>1, <1>2 DEF Removed
  <2>3. QED BY <2>1, <2>2 DEF Removed
<1>6. ~(\E m \in NodeId : \E e \in Recordings[m] : e[2] = new)
  BY DEF Recordings, RowsOf
<1>7. QED BY <1>4, <1>5, <1>6 DEF Ledger!Add, Ledger!Recorded, Recordings, Removed

LEMMA LedgerStep ==
  ASSUME Plain, StoreInv, PlainInv, [Next]_vars
  PROVE  [Ledger!Next]_<<Recordings, Removed>>
<1>0. TypeOK /\ \A n \in DOMAIN nodes : nodes[n] \in Row /\ n \in NodeId
  BY DEF StoreInv, TypeOK
<1>1. ASSUME NEW c \in Client, CommitCreate(c) PROVE Ledger!Next
  <2>1. PICK new \in NodeId \ DOMAIN nodes :
          /\ \A n \in DOMAIN nodes : nodes[n].logical # new
          /\ DOMAIN nodes' = DOMAIN nodes \cup {new}
          /\ \A n \in DOMAIN nodes : nodes'[n] = nodes[n]
          /\ nodes'[new].logical = new /\ nodes'[new].version = 1
          /\ ~nodes'[new].deleted
    BY <1>1, PlainCommitCreate
  <2>2. RowsOf(new) = {}
    BY <2>1 DEF RowsOf
  <2>3. Ledger!Add(new, new, 1)
    BY <1>0, <2>1, <2>2, LedgerGrows DEF SameEntry
  <2>4. Recordings[new] = {}
    BY <2>2 DEF Recordings
  <2>5. Ledger!Write(new, new)
    BY <2>3, <2>4 DEF Ledger!Write, Recordings
  <2>6. QED BY <2>5 DEF Ledger!Next
<1>2. ASSUME NEW c \in Client, CommitUpdate(c) PROVE Ledger!Next
  <2>1. PICK new \in NodeId \ DOMAIN nodes, old \in DOMAIN nodes :
          /\ nodes[old].current /\ ~nodes[old].deleted
          /\ DOMAIN nodes' = DOMAIN nodes \cup {new}
          /\ \A n \in DOMAIN nodes : SameEntry(n)
          /\ nodes'[new].logical = nodes[old].logical
          /\ nodes'[new].version = nodes[old].version + 1
          /\ ~nodes'[new].deleted
    BY <1>2, PlainCommitUpdate DEF SameEntry
  <2>a. nodes[old].logical \in NodeId /\ nodes[old].version \in Nat
    BY <1>0 DEF Row
  <2>b. PICK l \in NodeId, v \in Nat : l = nodes[old].logical /\ v = nodes[old].version
    BY <2>a
  <2>2. l \in NodeId /\ v \in Nat /\ old \in RowsOf(l)
    BY <2>b DEF RowsOf
  <2>3. \A n \in RowsOf(l) : ~nodes[n].deleted
    BY <2>1, <2>b DEF RowsOf, PlainInv, DeletionIsFinal
  <2>c. nodes'[new].logical = l /\ nodes'[new].version = v + 1
    BY <2>1, <2>b
  <2>4. Ledger!Add(l, new, v + 1)
    BY <1>0, <2>1, <2>2, <2>c, <2>3, LedgerGrows
  <2>5. <<v, old>> \in Recordings[l] /\ l \notin Removed
    BY <2>2, <2>3, <2>b DEF Recordings, Removed
  <2>6. \A n \in RowsOf(l) : nodes[n].version <= v /\ nodes[n].version \in Nat
    BY <1>0, <2>1, <2>b DEF Row, RowsOf, PlainInv, RowsAreNumbered
  <2>7. Ledger!Last(l) = v
    <3> DEFINE numbers == {e[1] : e \in Recordings[l]}
    <3>1. Recordings[l] = {<<nodes[n].version, n>> : n \in RowsOf(l)}
      BY <2>2 DEF Recordings
    <3>a. v \in numbers
      <4>1. <<v, old>>[1] \in numbers
        BY <2>5
      <4>2. QED BY <4>1
    <3>b. ASSUME NEW w \in numbers PROVE v >= w /\ w \in Nat
      <4>1. PICK e \in Recordings[l] : w = e[1]
        OBVIOUS
      <4>2. PICK n \in RowsOf(l) : e = <<nodes[n].version, n>>
        BY <3>1
      <4>3. QED BY <2>6, <4>1, <4>2
    <3>2. v \in numbers /\ \A w \in numbers : v >= w /\ w \in Nat
      BY <3>a, <3>b
    <3> HIDE DEF numbers
    <3>3. \A x \in numbers : (\A y \in numbers : x >= y) => x = v
      BY <2>2, <3>2
    <3>4. (CHOOSE x \in numbers : \A y \in numbers : x >= y) = v
      BY <3>2, <3>3
    <3>5. QED BY <3>4 DEF Ledger!Last, Ledger!Max, Recordings, numbers
  <2>8. Ledger!Revise(l, new)
    <3>1. Ledger!Add(l, new, Ledger!Last(l) + 1)
      BY <2>4, <2>7 DEF Ledger!Add
    <3>2. Recordings[l] # {} /\ l \notin Removed
      BY <2>5
    <3>3. QED BY <3>1, <3>2 DEF Ledger!Revise, Recordings, Removed
  <2>9. QED BY <2>2, <2>8 DEF Ledger!Next
<1>3. ASSUME NEW c \in Client, CommitDelete(c)
      PROVE  Ledger!Next \/ UNCHANGED <<Recordings, Removed>>
  <2>1. PICK l \in NodeId :
          /\ DOMAIN nodes' = DOMAIN nodes
          /\ \A n \in DOMAIN nodes : /\ nodes'[n].logical = nodes[n].logical
                                     /\ nodes'[n].version = nodes[n].version
          /\ \A n \in DOMAIN nodes \ RowsOf(l) : nodes'[n].deleted = nodes[n].deleted
          /\ \A n \in RowsOf(l) : ~nodes[n].deleted /\ nodes'[n].deleted
    BY <1>3, PlainCommitDelete
  <2>2. CASE RowsOf(l) = {}
    BY <2>1, <2>2, LedgerStutters DEF SameEntry
  <2>3. CASE RowsOf(l) # {}
    <3>1. \A k : RowsOf(k)' = RowsOf(k)
      BY <2>1 DEF RowsOf
    <3>2. ASSUME NEW k \in NodeId
          PROVE  {<<nodes[n].version, n>> : n \in RowsOf(k)}'
                   = {<<nodes[n].version, n>> : n \in RowsOf(k)}
      BY <2>1, <3>1 DEF RowsOf
    <3>3. Recordings' = Recordings
      BY <3>2 DEF Recordings
    <3>4. l \notin Removed /\ l \in Removed'
      BY <2>1, <2>3, <3>1 DEF Removed
    <3>5. ASSUME NEW k \in NodeId \ {l} PROVE k \in Removed <=> k \in Removed'
      <4>1. \A n \in RowsOf(k) : nodes'[n].deleted = nodes[n].deleted
        BY <2>1 DEF RowsOf
      <4>2. QED BY <3>1, <4>1 DEF Removed
    <3>6. Removed' = Removed \cup {l}
      BY <3>4, <3>5 DEF Removed
    <3>7. Recordings[l] # {}
      BY <2>3 DEF Recordings
    <3>8. Ledger!Delete(l)
      BY <3>3, <3>4, <3>6, <3>7 DEF Ledger!Delete, Recordings, Removed
    <3>9. QED BY <3>8 DEF Ledger!Next
  <2>4. QED BY <2>2, <2>3
<1>4. ASSUME NEW n \in DOMAIN nodes, HardDelete(n) PROVE Ledger!Next
  <2>a. nodes[n].logical \in NodeId /\ nodes[n].version \in Nat
    BY <1>0 DEF Row
  <2>b. PICK l \in NodeId, v \in Nat : l = nodes[n].logical /\ v = nodes[n].version
    BY <2>a
  <2>1. /\ DOMAIN nodes' = DOMAIN nodes \ Predecessors(n)
        /\ \A m \in DOMAIN nodes' : SameEntry(m)
        /\ PlainInv'
    BY <1>4, PlainHardDelete DEF SameButPointer, SameEntry
  <2>2. Predecessors(n) = {m \in RowsOf(l) : nodes[m].version <= v}
    BY <2>b, PredecessorsAreEarlier
  <2>3. l \in NodeId /\ v \in Nat /\ n \in RowsOf(l)
    BY <2>b DEF RowsOf
  <2>4. \A m \in RowsOf(l) : nodes[m].version \in Nat
    BY <1>0 DEF Row, RowsOf
  <2>5. RowsOf(l)' = {m \in RowsOf(l) : nodes[m].version > v}
    BY <2>1, <2>2, <2>3, <2>4 DEF RowsOf, SameEntry
  <2>6. \A k \in NodeId \ {l} : RowsOf(k)' = RowsOf(k)
    BY <2>1, <2>2 DEF RowsOf, SameEntry
  <2>7. \A k : \A m \in RowsOf(k)' : /\ nodes'[m].version = nodes[m].version
                                     /\ nodes'[m].deleted = nodes[m].deleted
    BY <2>1 DEF RowsOf, SameEntry
  <2>8. ASSUME NEW k \in NodeId
        PROVE  Recordings'[k] = [Recordings EXCEPT ![l] = {e \in @ : e[1] > v}][k]
    <3>1. Recordings[k] = {<<nodes[m].version, m>> : m \in RowsOf(k)}
      BY DEF Recordings
    <3>2. Recordings'[k] = {<<nodes'[m].version, m>> : m \in RowsOf(k)'}
      BY DEF Recordings
    <3>3. Recordings'[k] = {<<nodes[m].version, m>> : m \in RowsOf(k)'}
      BY <2>7, <3>2
    <3>4. CASE k = l
      <4>1. Recordings'[k] = {e \in Recordings[k] : e[1] > v}
        BY <2>5, <3>1, <3>3, <3>4
      <4>2. QED BY <3>4, <4>1 DEF Recordings
    <3>5. CASE k # l
      <4>1. Recordings'[k] = Recordings[k]
        BY <2>6, <3>1, <3>3, <3>5
      <4>2. QED BY <3>5, <4>1 DEF Recordings
    <3>6. QED BY <3>4, <3>5
  <2>9. Recordings' = [Recordings EXCEPT ![l] = {e \in @ : e[1] > v}]
    BY <2>8 DEF Recordings
  <2>10. \A k \in NodeId \ {l} : k \in Removed <=> k \in Removed'
    BY <2>6, <2>7 DEF Removed
  <2>11. Recordings'[l] = {} <=> RowsOf(l)' = {}
    BY <2>3 DEF Recordings
  <2>12. RowsOf(l)' # {} => (l \in Removed <=> l \in Removed')
    <3>1. ASSUME RowsOf(l)' # {}, l \in Removed PROVE l \in Removed'
      BY <2>5, <2>7, <3>1 DEF Removed
    <3>2. ASSUME RowsOf(l)' # {}, l \in Removed' PROVE l \in Removed
      <4>1. PICK m \in RowsOf(l)' : nodes'[m].deleted
        BY <3>2 DEF Removed
      <4>2. m \in RowsOf(l) /\ nodes[m].deleted
        BY <2>5, <2>7, <4>1
      <4>3. \A k \in RowsOf(l) : nodes[k].deleted
        BY <4>2 DEF RowsOf, PlainInv, DeletionIsFinal
      <4>4. QED BY <2>3, <4>3 DEF Removed
    <3>3. QED BY <3>1, <3>2
  <2>13. RowsOf(l)' = {} => l \notin Removed'
    BY DEF Removed
  <2>14. Removed' = IF Recordings'[l] = {} THEN Removed \ {l} ELSE Removed
    BY <2>10, <2>11, <2>12, <2>13 DEF Removed
  <2>15. <<v, n>> \in Recordings[l]
    BY <2>3, <2>b DEF Recordings
  <2>16. \E last \in Recordings[l] :
           /\ Recordings' = [Recordings EXCEPT ![l] = {e \in @ : e[1] > last[1]}]
           /\ Removed' = IF Recordings'[l] = {} THEN Removed \ {l} ELSE Removed
    BY <2>9, <2>14, <2>15
  <2>17. Ledger!Erase(l)
    BY <2>16 DEF Ledger!Erase, Recordings, Removed
  <2>18. QED BY <2>3, <2>17 DEF Ledger!Next
<1>5. ASSUME NEW n \in DOMAIN nodes, Quarantine(n) \/ Restore(n)
      PROVE  UNCHANGED <<Recordings, Removed>>
  <2>1. DOMAIN nodes' = DOMAIN nodes /\ \A m \in DOMAIN nodes : SameEntry(m)
    BY <1>5, PlainSetStatus DEF SameButPointer, SameEntry
  <2>2. QED BY <2>1, LedgerStutters
<1>6. ASSUME nodes' = nodes PROVE UNCHANGED <<Recordings, Removed>>
  BY <1>6, LedgerStutters DEF SameEntry
<1>7. ASSUME NEW c \in Client, ClientStep(c)
      PROVE  Ledger!Next \/ UNCHANGED <<Recordings, Removed>>
  <2>1. ~Running(c, "chunk")
    BY DEF PlainInv, RequestIsPlain, Running
  <2>2. CommitCreate(c) \/ CommitUpdate(c) \/ CommitDelete(c) \/ nodes' = nodes
    BY <1>7, <2>1
    DEF ClientStep, StepBesidesUpdate, StartCreate, CommitChunks, LoseChunks, StartUpdate,
        FailCommit, StartDelete, CleanObjects, Crash
  <2>3. QED BY <1>1, <1>2, <1>3, <1>6, <2>2
<1>8. QED BY <1>4, <1>5, <1>6, <1>7 DEF Next, vars

------------------------------------------------------------------------------
(* Theorems *)

(* The inductive invariant holds in every reachable state. *)
THEOREM StoreInvariant == Spec => []StoreInv
<1>1. Init => StoreInv
  BY InitEstablishesStoreInv
<1>2. StoreInv /\ [Next]_vars => StoreInv'
  BY StepKeepsStoreInv
<1>3. QED BY <1>1, <1>2, PTL DEF Spec

(* Every variable of the store keeps its type: in particular the content_refs handed to  *)
(* S3 after a delete are ids, never NULL.                                                *)
THEOREM TypeCorrect == Spec => []TypeOK
BY StoreInvariant, PTL DEF StoreInv

(* No two rows, nor a row and a request in progress, are ever named by one id.           *)
THEOREM IdsStayUnique == Spec => []IdsAreMintedOnce
BY StoreInvariant, PTL DEF StoreInv

(* While a request prepares its commit, the id it read names the same version or no row. *)
THEOREM PendingReadsStayValid == Spec => []ReadsStayValid
BY StoreInvariant, PTL DEF StoreInv

(* Whatever number of requests overlap, in any order, with rows removed at any time: a   *)
(* row that replaces another is its next version and the row it replaced is not current. *)
THEOREM ChainsStayWellFormed == Spec => []ChainWellFormed
BY StoreInvariant, PTL DEF StoreInv

(* No order of the commits of updates and deletes leaves a deleted row current.          *)
THEOREM DeletedRowsAreNotCurrent == Spec => []DeletedNotCurrent
BY StoreInvariant, PTL DEF StoreInv

(* No commit undoes a deletion or a retirement that was committed before it.             *)
THEOREM CommitsKeepHistory == Spec => HistoryIsKept
<1>1. StoreInv /\ [Next]_vars =>
        [\A n \in DOMAIN nodes \cap DOMAIN nodes' :
           /\ nodes[n].deleted => nodes'[n].deleted
           /\ nodes'[n].current => nodes[n].current
           /\ nodes'[n].version = nodes[n].version
           /\ nodes'[n].logical = nodes[n].logical
           /\ nodes'[n].ref = nodes[n].ref]_vars
  BY StepKeepsStoreInv DEF RowsKept
<1>2. QED BY <1>1, StoreInvariant, PTL DEF Spec, HistoryIsKept

(* A store that serves one request at a time, with moderation at any moment, never       *)
(* replaces a version twice: the history of every memory is a line.                      *)
THEOREM SerialHistoryIsLinear ==
  ASSUME Serial
  PROVE  Spec => []HistoryIsLinear
<1>1. Init => HistoryIsLinear /\ UpdatesReplaceCurrent
  BY DEF Init, HistoryIsLinear, UpdatesReplaceCurrent, Idle
<1>2. StoreInv /\ HistoryIsLinear /\ UpdatesReplaceCurrent /\ [Next]_vars
        => HistoryIsLinear' /\ UpdatesReplaceCurrent'
  BY SerialStep
<1>3. QED BY <1>1, <1>2, StoreInvariant, PTL DEF Spec

(* The inductive invariant of the plain store.                                           *)
THEOREM PlainInvariant ==
  ASSUME Plain
  PROVE  Spec => [](StoreInv /\ PlainInv)
<1>1. Init => PlainInv
  BY PlainInit
<1>2. StoreInv /\ PlainInv /\ [Next]_vars => PlainInv'
  BY PlainStep
<1>3. QED BY <1>1, <1>2, StoreInvariant, PTL DEF Spec

(* One request at a time, without branches: read_memory, which follows a superseded      *)
(* version along its chain, finds at most one current one.                               *)
THEOREM OneIsCurrent ==
  ASSUME Plain
  PROVE  Spec => []AtMostOneCurrent
<1>1. StoreInv /\ PlainInv => AtMostOneCurrent
  <2> SUFFICES ASSUME StoreInv, PlainInv, NEW n \in DOMAIN nodes, NEW m \in VersionChain(n),
                      nodes[n].current, nodes[m].current
               PROVE  m = n
    BY DEF AtMostOneCurrent
  <2>1. m \in DOMAIN nodes /\ nodes[m].logical = nodes[n].logical
    BY ChainIsMemory DEF RowsOf
  <2>2. nodes[m].version \in Nat /\ nodes[n].version \in Nat
    BY <2>1 DEF StoreInv, TypeOK, Row
  <2>3. nodes[m].version <= nodes[n].version /\ nodes[n].version <= nodes[m].version
    BY <2>1 DEF PlainInv, RowsAreNumbered
  <2>4. QED BY <2>1, <2>2, <2>3 DEF PlainInv, RowsAreNumbered
<1>2. QED BY <1>1, PlainInvariant, PTL

(* A delete by any version deletes every version of the memory, and none comes back.     *)
THEOREM DeletionsAreFinal ==
  ASSUME Plain
  PROVE  Spec => []DeletionIsFinal
<1>1. StoreInv /\ PlainInv => DeletionIsFinal
  BY DEF PlainInv
<1>2. QED BY <1>1, PlainInvariant, PTL

(* The content of a version that is not deleted stays in the bucket, although versions   *)
(* share objects and a delete cleans up those of a whole chain after its commit.         *)
THEOREM ContentIsThere ==
  ASSUME Plain
  PROVE  Spec => []NoDanglingRef
<1>1. StoreInv /\ PlainInv => NoDanglingRef
  BY DEF PlainInv
<1>2. QED BY <1>1, PlainInvariant, PTL

(* A store that serves one request at a time implements MemoryLedger: each step writes,  *)
(* revises, deletes or erases one memory as the ledger allows, or changes nothing in it. *)
THEOREM StoreKeepsLedger ==
  ASSUME Plain
  PROVE  Spec => KeepsLedger
<1>1. Init => Ledger!Init
  <2> SUFFICES ASSUME Init PROVE Ledger!Init
    OBVIOUS
  <2>1. \A l : RowsOf(l) = {}
    BY DEF Init, RowsOf
  <2>2. Recordings = [l \in NodeId |-> {}] /\ Removed = {}
    BY <2>1 DEF Recordings, Removed
  <2>3. QED BY <2>2 DEF Ledger!Init, Recordings, Removed
<1>2. StoreInv /\ PlainInv /\ [Next]_vars => [Ledger!Next]_(Ledger!ledgerVars)
  BY LedgerStep DEF Ledger!ledgerVars, Recordings, Removed
<1>3. QED BY <1>1, <1>2, PlainInvariant, PTL DEF Spec, KeepsLedger, Ledger!Spec

------------------------------------------------------------------------------
(* The graph *)

(* The edges of the graph and the rows they name. *)
EdgesTyped ==
  /\ DOMAIN edges \subseteq EdgeId
  /\ \A e \in DOMAIN edges : edges[e] \in Edge

LinksTyped ==
  /\ link \in [Client -> LinkReq \cup {None}]
  /\ \A c \in Client : link[c] # None => Running(c, "idle")

(* The inductive invariant. *)
GraphInv ==
  /\ StoreInv
  /\ EdgesTyped
  /\ LinksTyped
  /\ EdgesHaveEnds
  /\ OneActiveEdgePerPair

------------------------------------------------------------------------------
(* What the steps of the store do to rows and to requests *)

(* A step of a request other than the commit of an update removes no row, and changes *)
(* no other request.                                                                  *)
LEMMA StepBesidesUpdateKeepsRows ==
  ASSUME TypeOK, NEW c \in Client, StepBesidesUpdate(c)
  PROVE  /\ DOMAIN nodes \subseteq DOMAIN nodes'
         /\ \A d \in Client \ {c} : req'[d] = req[d]
<1>1. CASE StartCreate(c)
  BY <1>1 DEF StartCreate, Continue, TypeOK
<1>2. CASE CommitCreate(c)
  BY <1>2 DEF CommitCreate, AfterCommit, Continue, TypeOK
<1>3. CASE CommitChunks(c)
  BY <1>3 DEF CommitChunks, Finish, TypeOK
<1>4. CASE LoseChunks(c)
  BY <1>4 DEF LoseChunks, Finish, TypeOK
<1>5. CASE StartUpdate(c)
  BY <1>5 DEF StartUpdate, Continue, TypeOK
<1>6. CASE FailCommit(c)
  BY <1>6 DEF FailCommit, Finish, TypeOK
<1>7. CASE StartDelete(c)
  BY <1>7 DEF StartDelete, Continue, TypeOK
<1>8. CASE CommitDelete(c)
  BY <1>8 DEF CommitDelete, Continue, TypeOK
<1>9. CASE CleanObjects(c)
  BY <1>9 DEF CleanObjects, Finish, TypeOK
<1>10. CASE Crash(c)
  BY <1>10 DEF Crash, Finish, TypeOK
<1>11. QED
  BY <1>1, <1>2, <1>3, <1>4, <1>5, <1>6, <1>7, <1>8, <1>9, <1>10 DEF StepBesidesUpdate

(* The commit of an update adds the row that edges are moved to, whose id was not that *)
(* of a row before, and removes none.                                                  *)
LEMMA CommitUpdateAddsRow ==
  ASSUME StoreInv, NEW c \in Client, CommitUpdate(c)
  PROVE  /\ DOMAIN nodes \cup {req[c].new} \subseteq DOMAIN nodes'
         /\ req[c].new \in NodeId \ DOMAIN nodes
         /\ \A d \in Client \ {c} : req'[d] = req[d]
<1> DEFINE r == req[c]
<1>1. PICK copies \in SUBSET Unused :
        \E original \in [copies -> CopiedChildren(r)] : UpdateCommitted(r, copies, original)
  BY UpdateCommits DEF StoreInv
<1>2. DOMAIN nodes' = DOMAIN nodes \cup ({r.new} \cup copies)
  BY <1>1 DEF UpdateCommitted
<1>3. r.new \in minted \ DOMAIN nodes /\ minted \subseteq NodeId
  BY DEF StoreInv, IdsAreMintedOnce, TypeOK, CommitUpdate, Running
<1>4. \A d \in Client \ {c} : req'[d] = req[d]
  BY DEF CommitUpdate, AfterCommit, Continue, StoreInv, TypeOK
<1>5. QED BY <1>2, <1>3, <1>4

(* A step of the graph is a step of the store or leaves it alone. *)
LEMMA GraphStepIsStoreStep ==
  ASSUME [GraphNext]_<<vars, graphVars>>
  PROVE  [Next]_vars
<1>1. CASE UNCHANGED <<vars, graphVars>>
  BY <1>1
<1>2. ASSUME NEW c \in Client, UpdateWithEdges(c) PROVE [Next]_vars
  BY <1>2 DEF UpdateWithEdges, Next, ClientStep
<1>3. ASSUME NEW c \in Client, StepBesidesUpdate(c) PROVE [Next]_vars
  BY <1>3 DEF Next, ClientStep
<1>4. ASSUME NEW c \in Client, StartLink(c) \/ CommitLink(c) \/ FailLink(c)
      PROVE  [Next]_vars
  BY <1>4 DEF StartLink, CommitLink, FailLink
<1>5. ASSUME NEW e \in DOMAIN edges, Invalidate(e) \/ Unlink(e) PROVE [Next]_vars
  BY <1>5 DEF Invalidate, Unlink
<1>6. ASSUME NEW n \in DOMAIN nodes, HardDeleteWithEdges(n) \/ Quarantine(n) \/ Restore(n)
      PROVE  [Next]_vars
  BY <1>6 DEF HardDeleteWithEdges, Next
<1>7. QED BY <1>1, <1>2, <1>3, <1>4, <1>5, <1>6 DEF GraphNext

------------------------------------------------------------------------------
(* What each step of the graph does to edges *)

LEMMA StartLinkStep ==
  ASSUME GraphInv, NEW c \in Client, StartLink(c)
  PROVE  EdgesTyped' /\ LinksTyped' /\ EdgesHaveEnds' /\ OneActiveEdgePerPair'
<1>1. UNCHANGED <<nodes, objects, minted, req, edges>>
  BY DEF StartLink, vars
<1>2. EdgesTyped' /\ EdgesHaveEnds' /\ OneActiveEdgePerPair'
  BY <1>1 DEF GraphInv, EdgesTyped, EdgesHaveEnds, OneActiveEdgePerPair
<1>3. PICK e \in EdgeId, m \in DOMAIN nodes, n \in DOMAIN nodes :
        link' = [link EXCEPT ![c] = [id |-> e, from |-> m, to |-> n]]
  BY DEF StartLink
<1>4. [id |-> e, from |-> m, to |-> n] \in LinkReq
  BY DEF GraphInv, StoreInv, TypeOK, LinkReq
<1>5. LinksTyped'
  BY <1>1, <1>3, <1>4 DEF GraphInv, LinksTyped, StartLink, Free, Running
<1>6. QED BY <1>2, <1>5

LEMMA CommitLinkStep ==
  ASSUME GraphInv, NEW c \in Client, CommitLink(c)
  PROVE  EdgesTyped' /\ LinksTyped' /\ EdgesHaveEnds' /\ OneActiveEdgePerPair'
<1> DEFINE l == link[c]
           new == [from |-> l.from, to |-> l.to, open |-> TRUE]
<1>1. /\ UNCHANGED <<nodes, req>>
      /\ DOMAIN edges' = DOMAIN edges \cup {l.id}
      /\ edges'[l.id] = new
      /\ \A e \in DOMAIN edges \ {l.id} : edges'[e] = edges[e]
  BY DEF CommitLink, vars
<1>2. l \in LinkReq
  BY DEF CommitLink, GraphInv, LinksTyped
<1>3. new \in Edge
  BY <1>2 DEF LinkReq, Edge
<1>4. EdgesTyped'
  BY <1>1, <1>2, <1>3 DEF GraphInv, EdgesTyped, LinkReq
<1>5. LinksTyped'
  BY <1>1 DEF CommitLink, GraphInv, LinksTyped, Running
<1>6. EdgesHaveEnds'
  BY <1>1 DEF CommitLink, Insertable, GraphInv, EdgesHaveEnds
<1>7. OneActiveEdgePerPair'
  <2>1. SUFFICES ASSUME NEW e \in DOMAIN edges', NEW f \in DOMAIN edges',
                        edges'[e].open, edges'[f].open,
                        edges'[e].from = edges'[f].from, edges'[e].to = edges'[f].to
                 PROVE  e = f
    BY DEF OneActiveEdgePerPair
  <2>2. ASSUME NEW g \in DOMAIN edges \ {l.id}, edges[g].open
        PROVE  ~(edges[g].from = l.from /\ edges[g].to = l.to)
    BY <2>2 DEF CommitLink, Insertable, NotYetLinked
  <2>3. CASE e # l.id /\ f # l.id
    BY <1>1, <2>1, <2>3 DEF GraphInv, OneActiveEdgePerPair
  <2>4. CASE e = l.id /\ f # l.id
    BY <1>1, <2>1, <2>2, <2>4
  <2>5. CASE e # l.id /\ f = l.id
    BY <1>1, <2>1, <2>2, <2>5
  <2>6. QED BY <2>3, <2>4, <2>5
<1>8. QED BY <1>4, <1>5, <1>6, <1>7

(* Steps that only close or remove edges, or remove rows along with their edges. *)
LEMMA FewerEdges ==
  ASSUME GraphInv, DOMAIN edges' \subseteq DOMAIN edges,
         \A e \in DOMAIN edges' :
           /\ edges'[e] \in {edges[e], [edges[e] EXCEPT !.open = FALSE]}
           /\ {edges[e].from, edges[e].to} \subseteq DOMAIN nodes'
  PROVE  EdgesTyped' /\ EdgesHaveEnds' /\ OneActiveEdgePerPair'
<1>1. \A e \in DOMAIN edges' :
        /\ edges[e] \in Edge /\ edges'[e] \in Edge
        /\ edges'[e].from = edges[e].from /\ edges'[e].to = edges[e].to
        /\ edges'[e].open => edges[e].open
  BY DEF GraphInv, EdgesTyped, Edge
<1>2. EdgesTyped'
  BY <1>1 DEF GraphInv, EdgesTyped
<1>3. EdgesHaveEnds'
  BY <1>1 DEF EdgesHaveEnds
<1>4. OneActiveEdgePerPair'
  BY <1>1 DEF GraphInv, OneActiveEdgePerPair
<1>5. QED BY <1>2, <1>3, <1>4

(* Edges moved to the next version keep their ends and stay apart: nothing named the   *)
(* new version yet, so that no edge moves onto another.                                *)
LEMMA UpdateWithEdgesStep ==
  ASSUME GraphInv, NEW c \in Client, UpdateWithEdges(c)
  PROVE  EdgesTyped' /\ LinksTyped' /\ EdgesHaveEnds' /\ OneActiveEdgePerPair'
<1> DEFINE r == req[c]
           move(id) == Moved(id, r.old, r.new)
<1>1. /\ DOMAIN nodes \cup {r.new} \subseteq DOMAIN nodes'
      /\ r.new \in NodeId \ DOMAIN nodes
      /\ \A d \in Client \ {c} : req'[d] = req[d]
  BY CommitUpdateAddsRow DEF UpdateWithEdges, GraphInv
<1>2. /\ DOMAIN edges' = DOMAIN edges
      /\ \A e \in DOMAIN edges :
           edges'[e] = IF edges[e].open
                       THEN [edges[e] EXCEPT !.from = move(@), !.to = move(@)]
                       ELSE edges[e]
  BY DEF UpdateWithEdges, Repointed
<1>3. \A e \in DOMAIN edges :
        /\ edges[e] \in Edge
        /\ edges[e].from \in DOMAIN nodes /\ edges[e].to \in DOMAIN nodes
  BY DEF GraphInv, EdgesTyped, EdgesHaveEnds
<1>4. \A id \in NodeId : move(id) \in NodeId
  BY <1>1 DEF Moved
<1>5. \A m \in DOMAIN nodes : move(m) \in DOMAIN nodes \cup {r.new}
  BY DEF Moved
<1>6. \A m, n \in DOMAIN nodes : move(m) = move(n) => m = n
  BY <1>1 DEF Moved
<1> HIDE DEF move, r
<1>7. \A e \in DOMAIN edges :
        /\ edges'[e] \in Edge
        /\ edges'[e].open = edges[e].open
        /\ edges[e].open =>
             edges'[e].from = move(edges[e].from) /\ edges'[e].to = move(edges[e].to)
        /\ ~edges[e].open => edges'[e] = edges[e]
  BY <1>2, <1>3, <1>4 DEF Edge
<1>8. EdgesTyped'
  BY <1>2, <1>7 DEF GraphInv, EdgesTyped
<1>9. LinksTyped'
  <2>1. link[c] = None
    BY DEF UpdateWithEdges, CommitUpdate, GraphInv, LinksTyped, Running
  <2>2. link' = link
    BY DEF UpdateWithEdges
  <2>3. QED BY <1>1, <2>1, <2>2 DEF GraphInv, LinksTyped, Running
<1>10. EdgesHaveEnds'
  <2>1. SUFFICES ASSUME NEW e \in DOMAIN edges
                 PROVE  {edges'[e].from, edges'[e].to} \subseteq DOMAIN nodes'
    BY <1>2 DEF EdgesHaveEnds
  <2>2. CASE edges[e].open
    BY <1>1, <1>3, <1>5, <1>7, <2>2
  <2>3. CASE ~edges[e].open
    BY <1>1, <1>3, <1>7, <2>3
  <2>4. QED BY <2>2, <2>3
<1>11. OneActiveEdgePerPair'
  <2>1. SUFFICES ASSUME NEW e \in DOMAIN edges, NEW f \in DOMAIN edges,
                        edges'[e].open, edges'[f].open,
                        edges'[e].from = edges'[f].from, edges'[e].to = edges'[f].to
                 PROVE  e = f
    BY <1>2 DEF OneActiveEdgePerPair
  <2>2. edges[e].open /\ edges[f].open
    BY <1>7, <2>1
  <2>3. /\ move(edges[e].from) = move(edges[f].from)
        /\ move(edges[e].to) = move(edges[f].to)
    BY <1>7, <2>1, <2>2
  <2>4. edges[e].from = edges[f].from /\ edges[e].to = edges[f].to
    BY <1>3, <1>6, <2>3
  <2>5. QED BY <2>2, <2>4 DEF GraphInv, OneActiveEdgePerPair
<1>12. QED BY <1>8, <1>9, <1>10, <1>11

LEMMA GraphStep ==
  ASSUME GraphInv, [GraphNext]_<<vars, graphVars>>
  PROVE  GraphInv'
<1>1. StoreInv'
  BY GraphStepIsStoreStep, StepKeepsStoreInv DEF GraphInv
<1> DEFINE Goal == EdgesTyped' /\ LinksTyped' /\ EdgesHaveEnds' /\ OneActiveEdgePerPair'
<1>2. ASSUME UNCHANGED <<vars, graphVars>> PROVE Goal
  <2>1. nodes' = nodes /\ req' = req /\ edges' = edges /\ link' = link
    BY <1>2 DEF vars, graphVars
  <2>2. EdgesTyped' /\ EdgesHaveEnds' /\ OneActiveEdgePerPair'
    BY <2>1 DEF GraphInv, EdgesTyped, EdgesHaveEnds, OneActiveEdgePerPair
  <2>3. LinksTyped'
    BY <2>1 DEF GraphInv, LinksTyped, Running
  <2>4. QED BY <2>2, <2>3
<1>3. ASSUME NEW c \in Client, UpdateWithEdges(c) PROVE Goal
  BY <1>3, UpdateWithEdgesStep
<1>4. ASSUME NEW c \in Client, link[c] = None, StepBesidesUpdate(c), UNCHANGED graphVars
      PROVE  Goal
  <2>1. /\ DOMAIN nodes \subseteq DOMAIN nodes'
        /\ \A d \in Client \ {c} : req'[d] = req[d]
    BY <1>4, StepBesidesUpdateKeepsRows DEF GraphInv, StoreInv
  <2>2. edges' = edges /\ link' = link
    BY <1>4 DEF graphVars
  <2>3. EdgesTyped' /\ OneActiveEdgePerPair'
    BY <2>2 DEF GraphInv, EdgesTyped, OneActiveEdgePerPair
  <2>4. EdgesHaveEnds'
    BY <2>1, <2>2 DEF GraphInv, EdgesHaveEnds
  <2>5. LinksTyped'
    BY <1>4, <2>1, <2>2 DEF GraphInv, LinksTyped, Running
  <2>6. QED BY <2>3, <2>4, <2>5
<1>5. ASSUME NEW c \in Client, StartLink(c) \/ CommitLink(c) PROVE Goal
  BY <1>5, StartLinkStep, CommitLinkStep
<1>6. ASSUME NEW c \in Client, FailLink(c) PROVE Goal
  BY <1>6 DEF FailLink, GraphInv, EdgesTyped, LinksTyped, EdgesHaveEnds,
              OneActiveEdgePerPair, vars, Running
<1>7. ASSUME NEW e \in DOMAIN edges, Invalidate(e) \/ Unlink(e) PROVE Goal
  <2>1. LinksTyped' /\ nodes' = nodes
    BY <1>7 DEF Invalidate, Unlink, GraphInv, LinksTyped, vars, Running
  <2>2. /\ DOMAIN edges' \subseteq DOMAIN edges
        /\ \A f \in DOMAIN edges' :
             edges'[f] \in {edges[f], [edges[f] EXCEPT !.open = FALSE]}
    BY <1>7 DEF Invalidate, Unlink
  <2>3. \A f \in DOMAIN edges' : {edges[f].from, edges[f].to} \subseteq DOMAIN nodes'
    BY <2>1, <2>2 DEF GraphInv, EdgesHaveEnds
  <2>4. QED BY <2>1, <2>2, <2>3, FewerEdges
<1>8. ASSUME NEW n \in DOMAIN nodes, HardDeleteWithEdges(n) PROVE Goal
  <2>1. /\ DOMAIN edges' \subseteq DOMAIN edges
        /\ \A f \in DOMAIN edges' :
             /\ edges'[f] = edges[f]
             /\ {edges[f].from, edges[f].to} \subseteq DOMAIN nodes'
    BY <1>8 DEF HardDeleteWithEdges
  <2>2. EdgesTyped' /\ EdgesHaveEnds' /\ OneActiveEdgePerPair'
    BY <2>1, FewerEdges
  <2>3. LinksTyped'
    BY <1>8 DEF HardDeleteWithEdges, HardDelete, GraphInv, LinksTyped, Running
  <2>4. QED BY <2>2, <2>3
<1>9. ASSUME NEW n \in DOMAIN nodes, Quarantine(n) \/ Restore(n), UNCHANGED graphVars
      PROVE  Goal
  <2>1. DOMAIN nodes' = DOMAIN nodes /\ req' = req /\ edges' = edges /\ link' = link
    BY <1>9 DEF Quarantine, Restore, SetStatus, graphVars
  <2>2. EdgesTyped' /\ EdgesHaveEnds' /\ OneActiveEdgePerPair'
    BY <2>1 DEF GraphInv, EdgesTyped, EdgesHaveEnds, OneActiveEdgePerPair
  <2>3. LinksTyped'
    BY <2>1 DEF GraphInv, LinksTyped, Running
  <2>4. QED BY <2>2, <2>3
<1> HIDE DEF Goal
<1>10. ASSUME GraphNext PROVE Goal
  BY <1>3, <1>4, <1>5, <1>6, <1>7, <1>8, <1>9, <1>10, Zenon DEF GraphNext
<1>11. QED BY <1>1, <1>2, <1>10 DEF GraphInv, Goal

------------------------------------------------------------------------------

(* The inductive invariant of the graph.                                                 *)
THEOREM GraphInvariant == GraphSpec => []GraphInv
<1>1. GraphInit => GraphInv
  <2> SUFFICES ASSUME GraphInit PROVE GraphInv
    OBVIOUS
  <2>1. StoreInv
    BY InitEstablishesStoreInv DEF GraphInit
  <2>2. EdgesTyped /\ EdgesHaveEnds /\ OneActiveEdgePerPair
    BY DEF GraphInit, EdgesTyped, EdgesHaveEnds, OneActiveEdgePerPair
  <2>3. LinksTyped
    BY DEF GraphInit, LinksTyped
  <2>4. QED BY <2>1, <2>2, <2>3 DEF GraphInv
<1>2. GraphInv /\ [GraphNext]_<<vars, graphVars>> => GraphInv'
  BY GraphStep
<1>3. QED BY <1>1, <1>2, PTL DEF GraphSpec

(* Edges, and calls that create them, are of their kinds, and a client makes one call    *)
(* at a time.                                                                            *)
THEOREM GraphTypesHold == GraphSpec => []GraphTypeOK
<1>1. GraphInv => GraphTypeOK
  BY DEF GraphInv, EdgesTyped, LinksTyped, GraphTypeOK
<1>2. QED BY <1>1, GraphInvariant, PTL

(* Whatever is linked, updated and removed at once, both ends of every edge are rows.    *)
THEOREM EdgesAlwaysHaveEnds == GraphSpec => []EdgesHaveEnds
<1>1. GraphInv => EdgesHaveEnds
  BY DEF GraphInv
<1>2. QED BY <1>1, GraphInvariant, PTL

(* However updates move edges, no two active edges join one pair of versions, so that    *)
(* the unique index never fails the update of a memory.                                  *)
THEOREM ActiveEdgesStayUnique == GraphSpec => []OneActiveEdgePerPair
<1>1. GraphInv => OneActiveEdgePerPair
  BY DEF GraphInv
<1>2. QED BY <1>1, GraphInvariant, PTL

(* The store that the graph is composed with keeps its own guarantees.                   *)
THEOREM GraphImplementsStore == GraphSpec => Spec
<1>1. GraphInit => Init
  BY DEF GraphInit
<1>2. [GraphNext]_<<vars, graphVars>> => [Next]_vars
  BY GraphStepIsStoreStep
<1>3. QED BY <1>1, <1>2, PTL DEF GraphSpec, Spec
==============================================================================
