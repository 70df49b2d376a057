---------------------------- MODULE EntityExtraction ----------------------------
(***************************************************************************)
(* Entity extraction (memoryhub_core.services.extraction_runner,           *)
(* .extraction and .entity, the backfill_entities tool): when a memory is  *)
(* written with the feature on, a task of the process looks for names in   *)
(* its text, finds or creates an entity for each, and joins the memory to  *)
(* it by an edge.  An administrator backfills memories without a status,   *)
(* and merges and renames entities, at the same time.                      *)
(*                                                                         *)
(* The status is a key of the memory's metadata, which is read and written *)
(* whole.  A workflow checkpoint (services.checkpoint) is a memory whose   *)
(* metadata is what the workflow saves: both write the same column.        *)
(*                                                                         *)
(* A memory here is a chain of versions, of which only the current one can *)
(* get an edge; update_memory takes the edges along (module MemoryGraph).  *)
(* Edges that a merge invalidates are left out.  The three stages of the   *)
(* cascade are abstracted to the names they agree on.                      *)
(***************************************************************************)
EXTENDS Naturals, FiniteSets

CONSTANTS
  Memory,       \* the memories
  Checkpoint,   \* those of them that are workflow checkpoints
  Name,         \* what the cascade can find in a text
  Text,         \* the texts that are written, by the names in them
  Alike,        \* the pairs of names that are closer than ENTITY_DEDUP_THRESHOLD
  Slots,        \* entity_extraction_concurrency
  None,
  MaxEntities,  \* bounds: the entities that are created,
  MaxChores,    \* what users and administrators do besides writing memories,
  MaxFaults     \* the crashes, and the failures of services and of the database

ASSUME ExtractionAssumption == Text \subseteq SUBSET Name /\ MaxEntities \in Nat

VARIABLES
  row,      \* the current version of each memory
  entity,   \* the entities, by the order in which they were created
  mentions, \* the active edges, as pairs of a memory and an entity
  job,      \* what each extraction is doing
  merging,  \* what merge_entities has read, or None
  chores, faults,
  past      \* what properties need to know of the past, and the code does not keep

vars == <<row, entity, mentions, job, merging, chores, faults, past>>
budget == <<chores, faults>>

------------------------------------------------------------------------------
(* Types *)

\* A task of the process, and what backfill_entities does for one memory.
Job == Memory \X {"task", "backfill"}
Id == Nat  \* 0 names no entity
Status == {"none", "pending", "complete", "partial", "failed"}
Saved == Nat

Row == [text : SUBSET Name, version : Nat, deleted : BOOLEAN,
        status : Status, state : Saved]
Entity == [name : Name, aliases : SUBSET Name, deleted : BOOLEAN]

\* text and version are those the job was given; state is the metadata it has read.
Idle == [op |-> "idle"]
Work == [op : {"queued", "find", "create", "mention", "link", "mark", "write"},
         text : SUBSET Name, version : Nat, todo : SUBSET Name,
         name : Name \cup {None}, entity : Id,
         verdict : Status, state : Saved]

Merge == [source : Id, target : Id, edges : SUBSET Memory, known : SUBSET Memory]

ASSUME NoneIsNoRecord == None \notin Row \cup Merge

\* saved: the last state that a workflow saved.  missed: the names whose processing
\* failed or that a merge left behind.  stuck: nobody will set the status any more.
\* undone: a save came between the read and the write of the metadata.
Past == [saved : Saved, missed : SUBSET Name, stuck : BOOLEAN, undone : BOOLEAN]

------------------------------------------------------------------------------
Written(m) == row[m] # None
Pending(m) == Written(m) /\ row[m].status = "pending"
Live(m) == Written(m) /\ ~row[m].deleted
LiveEntities == {e \in DOMAIN entity : ~entity[e].deleted}
Mentioning(e) == {m \in Memory : <<m, e>> \in mentions}
Calls(e) == {entity[e].name} \cup entity[e].aliases

Of(j) == j[1]
Doing(j, op) == job[j].op = op
Become(j, w) == job' = [job EXCEPT ![j] = w]

\* The index on content_hash where scope is entity and deleted_at is null.
Named(n) == {e \in LiveEntities : entity[e].name = n}
\* Find_or_create_entity's search by vector: the nearest live entity, if near enough.
Near(n) == {e \in LiveEntities : <<n, entity[e].name>> \in Alike}

Missed(m, n) == past' = [past EXCEPT ![m].missed = @ \cup {n}]
Fault == faults < MaxFaults /\ faults' = faults + 1
Chore == chores < MaxChores /\ chores' = chores + 1

------------------------------------------------------------------------------
(* Memories *)

NewJob(m, text) ==
  [op |-> "queued", text |-> text, version |-> row'[m].version, todo |-> text,
   name |-> None, entity |-> 0, verdict |-> "complete", state |-> 0]

\* create_memory, and trigger_extraction at its end.
WriteMemory(m) ==
  /\ ~Written(m)
  /\ \E text \in Text :
       /\ row' = [row EXCEPT ![m] = [text |-> text, version |-> 1, deleted |-> FALSE,
                                     status |-> "pending", state |-> 0]]
       /\ Become(<<m, "task">>, NewJob(m, text))
  /\ UNCHANGED <<entity, mentions, merging, budget, past>>

\* update_memory copies the metadata, with the status in it, and triggers nothing.
UpdateMemory(m) ==
  /\ Live(m) /\ Chore
  /\ \E text \in Text :
       /\ row' = [row EXCEPT ![m].text = text, ![m].version = @ + 1]
       /\ past' = [past EXCEPT ![m].missed = @ \cup text,
                               ![m].stuck = @ \/ row[m].status = "pending"]
  /\ UNCHANGED <<entity, mentions, job, merging, faults>>

DeleteMemory(m) ==
  /\ Live(m) /\ Chore
  /\ row' = [row EXCEPT ![m].deleted = TRUE]
  /\ UNCHANGED <<entity, mentions, job, merging, faults, past>>

\* upsert_checkpoint, of a checkpoint that is there: the state replaces the metadata.
SaveCheckpoint(m) ==
  /\ m \in Checkpoint /\ Live(m) /\ Chore
  /\ row' = [row EXCEPT ![m].state = chores + 1, ![m].status = "none"]
  /\ past' = [past EXCEPT ![m].saved = chores + 1,
                          ![m].undone = \E j \in Job : Of(j) = m /\ Doing(j, "write")]
  /\ UNCHANGED <<entity, mentions, job, merging, faults>>

------------------------------------------------------------------------------
(* extraction_runner._run_extraction and backfill_entities.process_one *)

\* The semaphore: a task that is past it and not done holds a slot.
InProgress == {j \in Job : j[2] = "task" /\ job[j].op \notin {"idle", "queued"}}
HasSlotButOne == Cardinality(InProgress) < Slots - 1
HasSlot == Cardinality(InProgress) < Slots

\* The candidates of the backfill, include_failed or not; it works on two at a time.
Backfill(m) ==
  /\ Live(m) /\ row[m].status \in {"none", "failed", "partial"}
  /\ Doing(<<m, "backfill">>, "idle")
  /\ Chore
  /\ UNCHANGED <<row, entity, mentions, merging, faults, past>>
  /\ Become(<<m, "backfill">>, NewJob(m, row[m].text))

Begin(j) ==
  /\ Doing(j, "queued")
  /\ j[2] = "task" => HasSlot
  /\ Become(j, [job[j] EXCEPT !.op = "find"])
  /\ UNCHANGED <<row, entity, mentions, merging, budget, past>>

\* find_or_create_entity looks for the name by its hash, then by its embedding.
Find(j) ==
  /\ Doing(j, "find")
  /\ \E n \in job[j].todo :
       LET w == [job[j] EXCEPT !.todo = @ \ {n}, !.name = n]
       IN IF Named(n) # {}
          THEN \E e \in Named(n) : Become(j, [w EXCEPT !.op = "mention", !.entity = e])
          ELSE IF Near(n) # {}
          THEN \E e \in Near(n) : Become(j, [w EXCEPT !.op = "mention", !.entity = e])
          ELSE Become(j, [w EXCEPT !.op = "create"])
  /\ UNCHANGED <<row, entity, mentions, merging, budget, past>>

\* The insert; the index refuses a second entity of the name, and then the first is used.
TakenByNone(n) == {}
Taken(n) == Named(n)

\* uuid4
Minted == Cardinality(DOMAIN entity) + 1

Create(j) ==
  /\ Doing(j, "create")
  /\ LET n == job[j].name
     IN IF Taken(n) # {}
        THEN /\ \E e \in Taken(n) :
                  Become(j, [job[j] EXCEPT !.op = "mention", !.entity = e])
             /\ UNCHANGED entity
        ELSE /\ Cardinality(DOMAIN entity) < MaxEntities
             /\ LET e == Minted
                IN /\ entity' = [i \in 1..e |->
                                   IF i = e THEN [name |-> n, aliases |-> {}, deleted |-> FALSE]
                                   ELSE entity[i]]
                   /\ Become(j, [job[j] EXCEPT !.op = "mention", !.entity = e])
  /\ UNCHANGED <<row, mentions, merging, budget, past>>

\* create_mentions_relationship; create_relationship wants both ends current.
EndsAreCurrent(j) ==
  /\ Live(Of(j)) /\ row[Of(j)].version = job[j].version
  /\ job[j].entity \in LiveEntities

\* An edge that is there already is enough, whatever has become of the entity.
Mention(j) ==
  /\ Doing(j, "mention")
  /\ IF <<Of(j), job[j].entity>> \in mentions /\ row[Of(j)].version = job[j].version
     THEN /\ Become(j, [job[j] EXCEPT !.op = "find"])
          /\ IF job[j].entity \in LiveEntities THEN UNCHANGED past
             ELSE Missed(Of(j), job[j].name)
     ELSE IF EndsAreCurrent(j)
     THEN Become(j, [job[j] EXCEPT !.op = "link"]) /\ UNCHANGED past
     ELSE /\ Become(j, [job[j] EXCEPT !.op = "find"])
          /\ Missed(Of(j), job[j].name)
  /\ UNCHANGED <<row, entity, mentions, merging, budget>>

\* The commit of the edge.  Meanwhile the memory may have a new version, which the edge
\* does not reach, or the entity may be merged away.  A second edge is refused, and the
\* ValueError of create_relationship drops the name with the rest of the failures.
Link(j) ==
  /\ Doing(j, "link")
  /\ Become(j, [job[j] EXCEPT !.op = "find"])
  /\ LET m == Of(j)
         e == job[j].entity
     IN /\ mentions' = IF row[m].version = job[j].version THEN mentions \cup {<<m, e>>}
                       ELSE mentions
        /\ IF row[m].version = job[j].version /\ e \in LiveEntities THEN UNCHANGED past
           ELSE Missed(m, job[j].name)
  /\ UNCHANGED <<row, entity, merging, budget>>

\* An exception while a name is processed is logged, and the next name follows.
DropName(j) ==
  /\ job[j].op \in {"create", "mention", "link"} /\ Fault
  /\ Become(j, [job[j] EXCEPT !.op = "find"])
  /\ Missed(Of(j), job[j].name)
  /\ UNCHANGED <<row, entity, mentions, merging, chores>>

\* _update_extraction_status: the metadata is read, and written back with the verdict.
\* What a superseded version says is seen by nobody.  ReadAtStart would be the metadata
\* that create_memory committed.
ReadAtStart(j) == 0
ReadMetadata(j) == row[Of(j)].state

Mark(j) ==
  /\ \/ Doing(j, "mark")
     \/ Doing(j, "find") /\ job[j].todo = {}
  /\ Become(j, [job[j] EXCEPT !.op = "write", !.state = ReadMetadata(j)])
  /\ UNCHANGED <<row, entity, mentions, merging, budget, past>>

WriteStatus(j) ==
  /\ Doing(j, "write")
  /\ row' = IF row[Of(j)].version = job[j].version
            THEN [row EXCEPT ![Of(j)].status = job[j].verdict, ![Of(j)].state = job[j].state]
            ELSE row
  /\ Become(j, Idle)
  /\ UNCHANGED <<entity, mentions, merging, budget, past>>

\* _determine_failure_status; the backfill does not ask.
Verdict(j) == IF j[2] = "task" /\ \E e \in DOMAIN entity : <<Of(j), e>> \in mentions
              THEN "partial" ELSE "failed"

\* The extraction raises, before its first name or when it marks its success; when the
\* failure cannot be marked either, because the same fault lasts, the status stays.
Raise(j) ==
  /\ \/ Doing(j, "find") /\ job[j].todo = job[j].text
     \/ Doing(j, "write") /\ job[j].verdict = "complete"
  /\ Fault
  /\ Become(j, [job[j] EXCEPT !.op = "mark", !.verdict = Verdict(j)])
  /\ UNCHANGED <<row, entity, mentions, merging, chores, past>>

GiveUp(j) ==
  /\ Doing(j, "mark")
  /\ Become(j, Idle)
  /\ past' = [past EXCEPT ![Of(j)].stuck = TRUE]
  /\ UNCHANGED <<row, entity, mentions, merging, budget>>

\* The process dies; nothing looks for the tasks it had.
Crash ==
  /\ Fault
  /\ job' = [j \in Job |-> Idle]
  /\ merging' = None
  /\ past' = [m \in Memory |->
                [past[m] EXCEPT !.stuck = @ \/ ~Doing(<<m, "task">>, "idle")]]
  /\ UNCHANGED <<row, entity, mentions, chores>>

------------------------------------------------------------------------------
(* Entity management *)

\* merge_entities reads both entities and their edges, ...
ReadMerge(s, t) ==
  /\ merging = None /\ Chore
  /\ s # t /\ {s, t} \subseteq LiveEntities
  /\ merging' = [source |-> s, target |-> t,
                 edges |-> Mentioning(s), known |-> Mentioning(t)]
  /\ UNCHANGED <<row, entity, mentions, job, faults, past>>

\* ... moves the edges it has read, unless the memory mentions the target already, and
\* deletes the source.  An edge to the target that was added since fails the commit, and
\* one to the source that was added since is left behind on the deleted entity.
MovedNone == {}
Moved == merging.edges

CommitMerge ==
  /\ merging # None
  /\ merging' = None
  /\ LET s == merging.source
         t == merging.target
     IN IF \E m \in merging.edges \ merging.known : <<m, t>> \in mentions
        THEN UNCHANGED <<entity, mentions, past>>
        ELSE /\ mentions' = (mentions \ {<<m, s>> : m \in merging.edges})
                              \cup {<<m, t>> : m \in Moved}
             /\ entity' = [entity EXCEPT ![s].deleted = TRUE,
                                         ![t].aliases = @ \cup Calls(s)]
             /\ past' = [m \in Memory |->
                           IF m \in Mentioning(s) \ merging.edges
                           THEN [past[m] EXCEPT !.missed = @ \cup row[m].text]
                           ELSE past[m]]
  /\ UNCHANGED <<row, job, budget>>

\* rename_entity; a name that is taken is refused, by the check or by the index.
RenameEntity(e, n) ==
  /\ e \in LiveEntities /\ n # entity[e].name /\ Named(n) = {} /\ Chore
  /\ entity' = [entity EXCEPT ![e].name = n, ![e].aliases = @ \cup {entity[e].name}]
  /\ UNCHANGED <<row, mentions, job, merging, faults, past>>

------------------------------------------------------------------------------
Init ==
  /\ row = [m \in Memory |-> None]
  /\ entity = <<>>
  /\ mentions = {}
  /\ job = [j \in Job |-> Idle]
  /\ merging = None
  /\ chores = 0 /\ faults = 0
  /\ past = [m \in Memory |-> [saved |-> 0, missed |-> {}, stuck |-> FALSE, undone |-> FALSE]]

Step(j) == \/ Begin(j) \/ Find(j) \/ Create(j) \/ Mention(j) \/ Link(j)
           \/ Mark(j) \/ WriteStatus(j)

Next ==
  \/ \E m \in Memory : \/ WriteMemory(m) \/ UpdateMemory(m) \/ DeleteMemory(m)
                       \/ SaveCheckpoint(m) \/ Backfill(m)
  \/ \E j \in Job : Step(j) \/ DropName(j) \/ Raise(j) \/ GiveUp(j)
  \/ Crash
  \/ \E s, t \in DOMAIN entity : ReadMerge(s, t)
  \/ CommitMerge
  \/ \E e \in DOMAIN entity, n \in Name : RenameEntity(e, n)

Spec == Init /\ [][Next]_vars

\* The event loop resumes a task whose call has returned, and asyncio's semaphore
\* wakes those that wait in the order in which they came.
FairSpec == Spec /\ \A j \in Job : WF_vars(Step(j))

------------------------------------------------------------------------------
(* Properties *)

EntityTypeOK ==
  /\ row \in [Memory -> Row \cup {None}]
  /\ \E n \in 0..MaxEntities : entity \in [1..n -> Entity]
  /\ mentions \subseteq Memory \X DOMAIN entity
  /\ job \in [Job -> Work \cup {Idle}]
  /\ \A j \in Job : job[j].op \in {"mention", "link"} => job[j].entity \in DOMAIN entity
  /\ merging \in Merge \cup {None}
  /\ chores \in Nat
  /\ past \in [Memory -> Past]

\* However extractions, backfills, merges and renames overlap, the live entities of an
\* owner have different names (entity.py: the hash, the index and the retry on it).
OneEntityPerName ==
  \A d, e \in LiveEntities : entity[d].name = entity[e].name => d = e

\* A memory whose extraction is complete has, for each name that no failure dropped, an
\* edge to a live entity of that name, of a name like it, or that took over its name:
\* merges and renames lose none, but for an edge that is added to the merged entity after
\* the merge has read its edges.
NamesAreMentioned ==
  \A m \in Memory : Live(m) /\ row[m].status = "complete" =>
    \A n \in row[m].text \ past[m].missed : \E e \in LiveEntities :
      /\ <<m, e>> \in mentions
      /\ \E known \in Calls(e) : n = known \/ <<n, known>> \in Alike

\* The status of a memory does not stay "pending" for ever, unless the process died,
\* the status could not be written, or an update copied it to a new version.
ExtractionEnds ==
  \A m \in Memory : Pending(m) ~> ~Pending(m) \/ past[m].stuck

\* What a workflow saved last is what its checkpoint holds, unless it was saved between
\* the two statements that set an extraction's status: extraction takes long, and the
\* metadata from before it must not come back after it.
SavesAreKept ==
  \A m \in Memory : Written(m) /\ ~past[m].undone => row[m].state = past[m].saved

\* docs/design/graph-enhanced-memory.md:289: "complete" after extraction succeeds,
\* "partial" if some stages succeeded before a failure, "failed" if no entities were
\* extracted: a memory that names something, and is complete, mentions some entity.
CompleteMeansExtracted ==
  \A m \in Memory : Live(m) /\ row[m].status = "complete" /\ row[m].text # {} =>
    \E e \in DOMAIN entity : <<m, e>> \in mentions
=============================================================================
