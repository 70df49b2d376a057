# MemoryHub in TLA+

This directory specifies MemoryHub, a governed memory for agents, and checks the
specification: TLA+ modules translated from the code, TLC configurations that explore
small instances of them exhaustively, and theorems that TLAPS proves for instances of
every size. Paths are relative to the root of the repository, unless a name stands alone;
`memory.py`, `admin.py`, `graph.py`, `conversation.py` and the like are in
`src/memoryhub_core/services/`.

Contents: [1 the system](#1-the-system), [2 the modules and the code](#2-the-modules-and-the-code),
[3 the runs](#3-the-runs), [4 the proofs](#4-the-proofs),
[5 what the code does that its documents do not say](#5-what-the-code-does-that-its-documents-do-not-say),
[6 what is not modelled](#6-what-is-not-modelled), [7 plan](#7-plan), [8 how to run](#8-how-to-run).

## 1 The system

Agents call MCP tools (`memory-hub-mcp/src/tools`). A tool authorizes the call, opens a
database session and calls functions of the service layer (`src/memoryhub_core`), which
keep their state in PostgreSQL, in an S3 bucket (MinIO) and in Valkey. Background work
(extraction, push delivery, the retention sweep, agents of `memoryhub-agents`) uses the
same service layer or the same tools.

One thing shapes everything below. A request has a session of its own at READ COMMITTED,
takes no row lock when it reads, keeps what it read in the identity map of the session
(`expire_on_commit=False`), awaits embeddings, uploads and model calls, and then commits.
Whatever it read may be stale when it commits. Only unique indexes, foreign keys and the row
counts of ORM flushes stand between two requests. There are two exceptions: the page that
edits a curation rule selects it `FOR UPDATE`, and the OAuth server redeems a code by one
`UPDATE ... WHERE status = 'ready'` that keeps the row locked until the token is committed.

| Component | State | Operations | What is hard | What makes it correct |
|---|---|---|---|---|
| Versioned memory store (`memory.py`, `models/memory.py`, `storage/s3.py`) | `memory_nodes`: versions linked by `previous_version_id`, branches and chunks by `parent_id`, `is_current`, `deleted_at`; objects in S3 | create (with chunks in a second transaction), update (a new version, children copied, edges moved), delete (the whole chain), read, search, history | stale reads, several commits per request, an upload before and a removal after the commit, crashes in between | chains well formed and linear, one current version, deletion final, no dangling `content_ref`, no commit undoes another |
| Content moderation (`admin.py`) | `memory_nodes.status` | quarantine, restore, hard delete | they race with updates and deletes in progress | no dangling pointer; quarantined content stays hidden |
| Memory graph (`graph.py`) | `memory_relationships`, with validity intervals | create, invalidate, delete an edge; traversals | ends move and vanish while an edge is created; a partial unique index | edges have ends, follow versions, are unique while active; the past is not rewritten |
| Conversation threads (`conversation.py`, `models/conversation.py`, `cli/retention_sweep.py`) | `conversation_threads`, `conversation_messages`, `purge_log`, objects in S3 | create, append, archive, fork, share, soft delete with cascade, hard delete, purge, spill, retention sweep | `max()+1` numbering, an S3 key made from that number, shared objects of forks, legal holds, commits nested in a cascade | messages numbered 1, 2, 3..., immutable, stored; every removal logged |
| Dreaming and reconciliation (`dreaming.py`, `reconciliation.py`) | extraction cursor and window failures of a thread, extraction records, reconciliation decisions | extract window after window, reconcile, roll a run back, cascade a delete | memories commit before the rows that say where they are from, and those before the cursor; nothing is locked | no window skipped; no twins but from overlaps; every memory has its records; a roll-back and a cascade leave nothing |
| Entity extraction (`extraction.py`, `extraction_runner.py`, `entity.py`) | `extraction_status` in the metadata of a memory, entity rows, `mentions` edges | background extraction, backfill, merge, rename | tasks lost in a crash; metadata written back whole; find, then create; merges beside extractions | one entity per name; each name is mentioned; pending is left in the end; nobody's metadata is lost |
| Push notifications (`push_broadcast.py`, `push_subscriber.py`, `tools/_push_helpers.py`) | active sessions and a queue per session in Valkey, a subscriber task per session | register, broadcast, deliver, retry, deregister | pop before send, deregistration during a broadcast, Valkey outlives the process | at most once, in order, nothing vanishes, nothing lasts for ever |
| Compilation epochs (`compilation.py`, `tools/search_memory.py`) | an epoch per tenant and owner in Valkey | peek, backfill, order, recompile, expire | two reads and a write in separate calls, shared by searches with different filters | one hash, one order; nothing stale is served; compiled entries stay |
| Curation (`curation/`, `tools/manage_curation.py`, the rule pages of the UI) | rules in three layers (system, organization, user); the gate before a write | seed the system rules, set, create, edit and delete rules; scan, compare, decide | the comparison and the insert are separate transactions; rules change and are seeded while writes are in progress | the scan cannot be switched off by users; duplicates come from overlaps only |
| Projects (`project.py`) | projects, memberships | create, enrol at the first write, add and remove members | membership, gate and insert are transactions of their own, and a project may be shut in between | an invite-only project has the members, and the memories, of those who were let in |
| Personas (`persona.py`) | synopses, pins, stale marks | compile, pin, mark as stale | a compile awaits a language model between what it reads and its commit; a mark may be lost | pins survive a compile; a profile that is not stale is complete |
| Checkpoints, promotion, graduation (`checkpoint.py`, `promotion.py`, `graduation.py`) | memories with marks in their metadata | upsert, promote, graduate | several commits each; no unique index | one checkpoint per workflow; provenance kept |
| Contradiction reports (`memory.py`) | `contradiction_reports` | report, resolve | check, then set | resolved once |
| Sessions (`tools/register_session.py`) | sessions in Valkey | register, expire | they share Valkey with push | see push |
| Agent runtime (`memoryhub-agents`) | a leader lock and work queues in Valkey | acquire, heartbeat, release; pop, process, requeue | a lock that expires under its holder; an item lost in a crash | leases exclude each other; an item is handled once, and is not starved |
| OAuth server (`memoryhub-auth`) | login sessions with their codes, refresh tokens, whether a client is active | authorize, callback, redeem, refresh, grant, clean up | callbacks, redemptions and refreshes that are repeated overlap | a code becomes one token, a line of refreshes has one live token, a token speaks for the user of its code |
| Roles, campaigns; patterns, guidance; audit; authorization; embeddings; local edition, SDK, CLI, UI, integrations, migrations, deployment | see `PROJECT.json` | | | |

How they interact: tools call services; extraction, promotion, graduation and checkpoints
call `create_memory` and `update_memory`; deleting a thread calls `delete_memory`;
`update_memory` moves graph edges; the hard delete of a memory relies on the foreign keys
of edges and branches; writes broadcast to push queues; everything that stores content
shares the bucket; `write_memory` enrols its writer in a project and asks the curation gate
before it inserts. The store is the component that every other one changes, so it was
modelled first, then the graph that is composed with it, then threads and the rest.

## 2 The modules and the code

| Module | What it is |
|---|---|
| `MemoryStore` | the versioned store, its bucket and moderation: the detailed specification |
| `MemoryLedger` | the abstract specification: a memory is a list of numbered revisions, deleted as a whole |
| `MemoryGraph` | edges, composed with the store (`EXTENDS MemoryStore`): an update of a memory and the move of its edges are one step |
| `ConversationThreads` | threads, messages, their objects and the removal of threads |
| `ThreadExtraction` | extraction of memories from one thread, roll-back of a run, and the cascade of a delete |
| `EntityExtraction` | background extraction of entities, the backfill, merges and renames, and the checkpoints that share a column with them |
| `PushDelivery` | sessions, broadcasts, queues and subscriber tasks |
| `CompilationEpoch` | the order of search results and the epoch that freezes it |
| `Agents`, `LeaderElection`, `AgentQueue`, `AgentRuntime` | the lock and the work queue of agents, and their composition: a process that dies loses its part of both |
| `AuthServer` | login sessions, authorization codes and refresh tokens |
| `Callers`, `Projects`, `Curation`, `WritePath` | the requests and users of the write path; memberships; rules and the gate; and their composition: a write enrols its writer and passes the gate |
| `Persona` | the standing profile of a user: compiles, pins and stale marks |
| `Valkey` | what the modules of Valkey's users share: the constant for a key that holds nothing |
| `MC...` | values for constants and the symmetry of a run |
| `MemoryGraphProofs` | theorems of the store, of the ledger it implements, and of the graph |
| `ConversationThreadsProofs`, `ThreadExtractionProofs`, `EntityExtractionProofs`, `AuthServerProofs`, `WritePathProofs`, `PersonaProofs` | theorems of the module they are named after (`WritePathProofs`: of its parts as well) |
| `ValkeyProofs` | theorems of agents, push delivery and compilation epochs |

Conventions. A request in progress is a record in `req` (or `call`), indexed by a client;
it holds what the request read and will act on. Each action is one uninterrupted piece of a
request: what it reads, or one commit, or one call to S3. `StartX` reads, `CommitX`
commits, `FailX` is the commit that the database refuses. `minted` is every UUID handed out;
`NewId` takes any that was not, and a finite set of them bounds the run. `Workload` names
what the environment may do besides the main operations, so that a run can choose.

**MemoryStore.** A row keeps the columns that decide behaviour: `prev`
(`previous_version_id`), `parent` and `branch` (`parent_id`, `branch_type`), `version`,
`current`, `deleted` (`deleted_at IS NOT NULL`), `status`, `ref` (`content_ref`), and
`logical` (`logical_id`). The key of an object is made of the id of the row it was uploaded
for, so that a `content_ref` is an id.

* `StartCreate`, `CommitCreate`, `CommitChunks`, `LoseChunks`: `create_memory`. The upload
  precedes the commit; the chunks of oversized content follow it in a transaction of their
  own, whose failure is logged and dropped.
* `StartUpdate`, `CommitUpdate`: `update_memory`. It checks `is_current`, uploads, and in
  one commit inserts the next version, retires the old one and all its children, and copies
  the children under the new version. The number and logical id of the new version come
  from the row as it was read (`seen`), the retirement writes `is_current` only.
* `StartDelete`, `CommitDelete`, `CleanObjects`: `delete_memory`. It collects the ids of the
  chain (`VersionChain`) and of the branches of each version, updates them in bulk later,
  and removes objects after the commit.
* `FailCommit`: a flush whose row or foreign key is gone. `Crash`: the request ends anywhere.
* `Quarantine`, `Restore`, `HardDelete`: `admin.py`, one transaction each. The hard delete
  walks backward only and relies on `ON DELETE SET NULL` for the rows that stay.

Abstractions: `CommitUpdate` merges the reads made after the upload (children, edges) with
the commit that follows them without an await on anything but the database. One row stands
for all the chunks of a memory. Content is one of four classes: in the bucket or not, with
chunks or not. Embeddings, weights, scopes and metadata are data.

**MemoryLedger.** `history[m]` is the set of numbered revisions of memory `m`. `Write` makes
revision 1, `Revise` the one after the last, `Delete` deletes the memory as a whole, `Erase`
removes a revision and all before it. `MemoryStore` instantiates it: a logical id is the
memory, a row is a revision (`Ledger`, `KeepsLedger`).

**MemoryGraph.** `StartLink` reads that both ends are current; `CommitLink` inserts under
the partial unique index and the two foreign keys, `FailLink` is the `IntegrityError`.
`UpdateWithEdges` is `CommitUpdate` together with the two `UPDATE`s that move edges,
`HardDeleteWithEdges` is `HardDelete` with the removal of the edges of the rows removed. The
other steps of the store leave edges alone. One relationship type is modelled: edges of
different types never meet.

**ConversationThreads.** A thread is its `status`, whether `deleted_at` is set, and its
`hold`. A message is its thread, its number, its `ref` and what its caller `said`. An object
is what was last put under its key `<<thread, number>>`.

* `StartAppend`, `Upload`, `CommitAppend`, `FailAppend`: `append_message`, which reads
  `max(sequence_number) + 1`, uploads oversized content under that number, and inserts under
  a unique index.
* `StartArchive`, `CommitArchive`, `StartFork`, `CommitFork`: a fork numbers its copies from
  1 again and copies `content_ref`, not objects.
* `StartDelete`, `CommitCascade`, `RecordDelete`, `CommitDelete`: `soft_delete_thread`. With
  no memory extracted from the thread it is one commit. Otherwise the cascade calls
  `delete_memory`, which commits the same session: the thread is deleted by one commit and
  logged by a later one.
* `StartRemove`, `CommitRemove`, `CleanObjects`: `hard_delete_thread` from the sweep,
  `admin_purge_thread`, `spill_response_thread`, loud or silent. `Sweepable` is the query of
  the sweep. Its clock is abstracted: a thread is swept `min_retention_days` after its soft
  delete, and no request on the thread is that old, the soft delete itself included.
* `ToggleHold`: no code under `src/` writes `legal_hold` except the purge and the spill
  response, which clear it on a row they remove; an administrator's SQL is the environment.

Abstractions: the sweep's first phase, which soft-deletes expired threads, is `StartDelete`
on a thread whose time has come, and time is not modelled. A purge and a loud spill are the
same step here (`by`). The sweep collects no object keys, because
`cli/retention_sweep.py:32` constructs its S3 adapter with keyword arguments that
`S3StorageAdapter.__init__` (`storage/s3.py:22`) does not take, catches the exception and
goes on without an adapter.

**ThreadExtraction.** One thread, whose messages each tell a fact. `StartExtract` reads the
messages after the cursor, or a `turn_range`; `Windows` cuts them, `Answered` is what the
model may find in a window. `Reconcile` decides by the similarity check, `StoreMemory` is the
commit inside `create_memory`, which takes along the records of the memory before it and not
its own (`pending`), `CloseWindow` the commit of the window, `FailWindow` `_log_failure`,
whose commit flushes what is pending, and `Advance` the commit of the cursor. `StartRollback`
and `CommitRollback` are `rollback_extraction_run`; `StartDelete`, `CascadeDelete`,
`FinishDelete` and `Orphan` the cascade modes of `soft_delete_thread` (`preserve` changes no
memory). `EditMemory` is a user's update. `Cut` and `CutJanitor` end a request anywhere.
`past` is history that only properties read. Abstractions: windows are cut anywhere rather
than by role; the reads of a roll-back before its commit are one step; the tiebreaker is
absent, as no caller passes one (`reconciliation.py:141`), so a run never updates.

**EntityExtraction.** A memory is its current version. `WriteMemory` commits it as `pending`
and queues a task; `Begin` takes a slot of the semaphore; `Find`, `Create`, `Mention` and
`Link` are the four awaited steps for a name, `DropName` the exception that is logged and
passed over, `Mark` and `WriteStatus` the read and the write of the metadata, `Raise` and
`GiveUp` the two failure paths. `Backfill` starts the same work for a memory without a
status, outside the semaphore. `ReadMerge` and `CommitMerge`, and `RenameEntity`, are the
tools of an administrator, `SaveCheckpoint` replaces the metadata whole, `UpdateMemory`
copies the status to a new version and starts nothing. Names are model values, `Alike` the
pairs whose embeddings are closer than the threshold.

**PushDelivery.** `active` and `queue` are Valkey's and outlive `Crash`; `conn`, `sub` and
`cast` are the process's. `Register` and `Wire` are the two halves of `register_session`,
`Disconnect` and `Deregister` the two halves of the cleanup hook, which is registered once
per connection (`Hooked`). `StartBroadcast` is the fast path and the start of the embedding,
`Enumerate` the second read of the active set, `PushTo` and `SkipTarget` one turn of the loop.
`Pop`, `Send`, `Retry` and `Discard` are the subscriber. Whether a session's focus filters
a notification out is a choice (`SkipTarget`).

**CompilationEpoch.** `Query`, `Peek`, `Load` and then `ServeCompiled`, `Recompile` or `FirstCompile`,
and `Write` are the awaited calls of one search; `FailPeek`, `FirstCompile` and `Write` cover
Valkey failing at each. The epoch is its list of ids; its hash is that list. `Sorted` says
what a sort gives, a list of the elements in which each comes before the next.

**AgentRuntime.** `LeaderElection` has one action per Valkey command of `leader.py`: a lost
`SET NX` is followed by a `GET` and an `EXPIRE`, a heartbeat is a `GET` and an `EXPIRE`, a
release a `GET` and a `DELETE`. `Tick` counts down the key and what each instance knows it
has bought (`lease`). `AgentQueue` has the list and the loop. `AgentRuntime` conjoins them:
`Loop` and `Die` take the instance's part of the election along when the process ends.

**AuthServer.** A row of `auth_sessions` is its client, its `status`, the `code` that the
callback wrote, its `subject`, and whether it has expired or was removed. `Authorize` inserts
it. `StartCallback` reads it, exchanges the code of OpenShift for the name of the user, and
`CommitCallback` writes a new code over the row, whatever has become of it. `StartRedeem`
looks up the client, `CommitRedeem` is the locking `UPDATE` and the insert of the token.
`StartRefresh` reads a token that is live, `CommitRefresh` revokes it and inserts the next.
`StartGrant` and `CommitGrant` are client credentials. `SetActive` is an administrator,
`ExpireSession`, `ExpireToken` and `Cleanup` are time, `Abandon` a request that ends anywhere.
A `grant` is the first token of a line of refreshes; it, `minted` and `doubled` are history.
A request with a wrong secret, verifier or redirect URI changes nothing and is left out, and
access tokens are signed statements that nobody stores.

**Projects, Curation, WritePath.** `StartEnroll` reads project and membership,
`CommitEnroll` creates what it did not find; `StartCreateProject`, `StartAddMember` and
`StartRemoveMember` read, and their commits write. In `Curation`, `StartWrite` begins a write,
`Seed` inserts the system rules when the process has not seen them yet, `Scan` and `Compare`
read the rules in force and the memories, `CommitWrite` inserts. `StartSetRule` and
`CommitSetRule` are the tool; `CreateRule`, `EditRule`, `StartDeleteRule` and
`CommitDeleteRule` the pages, of which `EditRule` is one step because it locks the row;
`Restart` forgets that the rules were seeded. `WritePath` joins a write to a project with the
enrolment that precedes it. Abstractions: one rule, "duplicate", for both thresholds, and one,
"scan", for secrets and personal data; memories are similar when their content is the same,
and are only added; edits that rename a rule or move it to another layer are left out, and so
are the ConfigMap of rules and the memberships that a session caches.

**Persona.** `StartCompile` reads the facts, `ReadSynopsis` the latest synopsis and its pins,
`CommitCompile` retires that synopsis, inserts the next and moves those pins. `LandFact`
stores a fact; `FindStale` and `MarkStale` are the transaction of the mark, `LoseMark` its
loss. `StartPin` and `CommitPin` add a pin to the synopsis that was read. Abstractions: there
are at most the 100 facts that a compile reads, synopses are ordered by their commits, and
provenance edges, on which nothing depends, are left out.

## 3 The runs

Each cfg is named after its module. Deadlock checking is off everywhere
because a run stops when its finite sets of ids or messages are used up, which the real
system does not. Requests, and ids of edges, are interchangeable, which the runs that
declare `SYMMETRY` use; those runs check invariants and action properties only. All twelve
runs pass.

| Run | Instance | Shows |
|---|---|---|
| `MemoryStore_overlap` | 2 requests, 4 ids, content in S3 and in chunks, branches, metadata-only updates, hard deletes | `ChainWellFormed`; `HistoryIsKept`: no step revives, un-retires or rewrites a version |
| `MemoryStore_serial` | 1 request, 4 ids, no branches, moderation and crashes between any two steps | `AtMostOneCurrent`, `DeletionIsFinal`, `NoDanglingRef`, and `KeepsLedger`: the store implements `MemoryLedger` |
| `MemoryGraph_overlap` | 2 requests, 4 ids, 2 edges, hard deletes | `OneActiveEdgePerPair`, `EdgesHaveEnds` |
| `ConversationThreads_overlap` | 2 requests, 2 threads (one may be held), 2 messages, forks, cascades, sweep, purge, crashes | `NumberedWithoutGaps`, `RemovedThreadsAreLogged`, `ContentIsStored` |
| `ThreadExtraction_overlap` | 2 extractions and 1 janitor at a time, 2 runs, 2 messages in windows of 1 or 2 that tell one fact, 1 edit, 1 roll-back or delete, cuts anywhere | `NothingIsSkipped`; `TwinsComeFromOverlaps`; `MemoriesHaveSources`; `UndoneRunsAreGone`; `CascadeLeavesNothing` |
| `EntityExtraction_overlap` | 2 memories, one a checkpoint, 2 names that are spellings of each other, 1 slot, 4 entities, 1 fault, 2 chores (updates, deletes, saves, backfills, merges, renames) | `OneEntityPerName`, `NamesAreMentioned`, `SavesAreKept`, and, with fairness, `ExtractionEnds` |
| `PushDelivery_lossy` | 2 connections, 2 sessions, 2 writes, 2 attempts; crash, outages, second registrations, bindings that have expired | `AtMostOnce`, `FirstAttemptsInOrder`, `NothingVanishes`, and, with fairness, `EveryPushIsSettled` |
| `CompilationEpoch_overlap` | 2 searches with the filters "all" and "one project", 3 memories, one of which may go, epochs that recompile at an appendix of 2 | `NothingStaleIsServed`, `OrderIsStable`, `CompiledEntriesAreKept` |
| `AgentRuntime_failover` | 2 instances, a lock of 2 ticks, 3 items (one poison, one malformed), 2 stops or deaths | `LeasesAreExclusive`, `ItemsAreHandledOnce`, and, with fairness, `DeadLeaderIsReplaced`, `GoodItemsAreServed` |
| `AuthServer_overlap` | 1 client, 2 users, 2 requests, 1 login session, 2 codes, 3 refresh tokens | `CodesAreSpentOnce`, `GrantsHaveOneLiveToken`, `TokensNameTheirUser` |
| `WritePath_overlap` | 1 project, 2 users, 2 of 3 calls at a time, 4 rules, 2 contents of which the scan matches one | `InviteOnlyHolds`, `ScanAlwaysRuns`, `DuplicatesComeFromOverlaps`, `OutsidersWriteNothing` |
| `Persona_overlap` | 2 facts, profiles of the user and of one project, 2 calls, 3 synopses, 2 pins | `PinsSurviveRecompile`, `FreshSynopsisIsComplete` |

The type invariants (`TypeOK` and its like) are in none of the runs, because they are proved
(section 4); each of them was checked by TLC before.

Why the bounds suffice. The hazards are about two requests that overlap, or one request and
a moderator or a crash. A third request adds no new kind of staleness: every conflict in
this code is between a read and one later commit of another request. Four ids make three
versions and a sibling, or a memory, its branch and a new version of each, or two memories
with a version each; that is where chains fork, branches are copied and edges move at both
ends. Two messages and two threads make a conflict on a number, a fork with
content, and an append to a thread that is being removed; the run was also made
with three messages (6.8 million states, same result). One thread that can be held is
enough, as a hold affects one thread at a time and the threads are made in either role: as
the source of a fork or as the fork. What is proved does not depend on bounds, and that is
every safety property in the table; for those the runs show that the cases do arise.

Two extractions of one thread with one fact are enough for twins, since a
twin is a pair and a fact is compared with its like only; two messages give a window that
fails before one that succeeds, and a range that overlaps the cursor. Two names of which each
is near the other are the case where the search by vector, the index, a merge and a rename
compete; one slot with two tasks makes one wait. Two attempts distinguish the first, a retry
and the last; two sessions and two writes give an order to violate and a target that
leaves during a broadcast. Three memories give an epoch of two and an appendix of one; with
`MinAppendix` at 2 instead of 5 every branch of `should_recompile` is taken, and
`max_results` of 3 never cuts an answer (section 5 says what happens when it does). Two ticks
let a lock expire in the middle of a heartbeat; two instances are one holder and one rival.
Two users at one login session are who can confuse whose code it is; three tokens are a first
one, its refresh, and a second refresh or a second code. Four rules are the two system rules
and either a second seed or the rules of a user; three calls are two that overlap and one that
prepared the ground. Three synopses are one that is read, the one that overtook it, and the
one that replaces it.

What the serial run leaves out is on purpose: `AtMostOneCurrent` and `DeletionIsFinal` are
false when two updates overlap or when a memory has branches, and section 5 shows that. They
hold of a store that serves one request at a time, which is the strongest statement that is
true of this code. The crash that `ConversationThreads_overlap` does not make is the one
between the two commits of a soft delete (`"cut"` in `Workload`), for the same reason.
`AgentRuntime_failover` lets no tick pass between the `GET` and the `DELETE` of a release
(`SlowCalls = FALSE`): with `TRUE`, `LeasesAreExclusive` fails (section 5). Where a hazard is
real and cannot be excluded, the property names it instead: `TwinsComeFromOverlaps` excuses
runs that overlapped, `SavesAreKept` a save between the two statements of a status
(`past[m].undone`), `NamesAreMentioned` names that failed, that a merge left behind, or whose
edge was found on an entity that a merge had removed; `CodesAreSpentOnce` and
`GrantsHaveOneLiveToken` excuse callbacks and refreshes that overlapped (`doubled`),
`ScanAlwaysRuns` an administrator who changed the rule (`weakened`), `PinsSurviveRecompile`
pins that were committed while their synopsis was being replaced, and
`FreshSynopsisIsComplete` facts that landed during a compile, and compiles that overlapped or
were of a project (`mixed`).

Fairness. The store, the graph, threads, `ThreadExtraction`, `CompilationEpoch`, `AuthServer`,
`WritePath` and `Persona` assume none: a request may stop for ever at any point, as a killed
process does. The liveness properties assume what the scheduler gives, and nobody's good will:

* `EntityExtraction`: weak fairness of each extraction's next step. The event loop resumes a
  task whose call has returned, and the semaphore wakes waiters in order. Nothing makes users
  act, faults end or a crashed task come back, so that `ExtractionEnds` excuses a memory whose
  process died, whose status could not be written, or whose status an update copied.
* `PushDelivery`: weak fairness of a subscriber's loop while it lives, and of the expiry of a
  queue that nobody pops. A broadcast may stop half way, and no client need disconnect.
* `AgentRuntime`: the clock runs, a stopped process is restarted by the cluster, a loop goes
  on; and strong fairness that an item which can succeed does if it is tried for ever. Only
  the number of stops is bounded. No fairness is assumed of the election itself.

## 4 The proofs

Every safety invariant, every action property and the refinement that the runs check is a
theorem, for every value of the constants: any number of requests, ids, messages, sessions,
facts and faults. So is the type invariant of every module that has one. `PROJECT.json` lists
the theorems with the property each states.

The modules of proofs are laid out alike: first the inductive invariant, as a conjunction of
named parts each with a sentence saying why it is needed; then lemmas about the operators;
then, for each part, what each action does to it; then the theorem.

**The store, its ledger and the graph** (`MemoryGraphProofs`).

* With any number of overlapping requests: `TypeCorrect`, `IdsStayUnique`,
  `PendingReadsStayValid`, `ChainsStayWellFormed`, `DeletedRowsAreNotCurrent` and
  `CommitsKeepHistory`. None is inductive alone. A new version is well formed because the
  number read long ago is still the number of the row, which holds because rows never change
  their number and because the id of a removed row is never given to another one. So
  `StoreInv` is the conjunction of types, id freshness, validity of pending reads, and the two
  properties of rows. Its proof has three layers: what each action does to types, to ids, and
  to rows. The last is stated once as a pair of action predicates, `RowsKept` (rows that stay
  are not revived or rewritten) and `RowsAdded` (a row that appears is a first version or the
  successor of the row its request read), with one lemma per commit and one lemma
  (`RowsInOrder`) showing that such steps preserve the invariant.
* `SerialHistoryIsLinear`: with at most one request at a time, a version is replaced once.
* `OneIsCurrent`, `DeletionsAreFinal`, `ContentIsThere` and `StoreKeepsLedger`: the four
  properties of `MemoryStore_serial`, under the hypothesis `Plain` (one request at a time, no
  branches, no chunks: what that run assumes, and with branches or overlaps they are false,
  section 5). `PlainInv` numbers the versions of a memory, says that they share no object with
  another memory, and describes what each pending request has read. Its heart is that
  the walk of `VersionChain`, a recursive function, returns the whole memory
  (`ChainIsMemory`); that is proved by a least version at which it would not. For the
  refinement each step of the store is shown to be a step of `MemoryLedger` or a stutter.
* `EdgesAlwaysHaveEnds`, `ActiveEdgesStayUnique`, `GraphTypesHold`: `GraphInv`, on top of
  `StoreInv`. When edges move to the next version, that version is new, so that no edge names
  it yet and none can meet another there. `GraphImplementsStore`: a behaviour of the graph is
  one of the store, so that everything above holds of it.

**Threads** (`ConversationThreadsProofs`).

* `RemovalsLeaveATrace`: if no crash cuts the two commits of a soft delete apart, every
  thread that is gone is in `purge_log` (silent spills excepted). `LogInv` adds that a thread
  with status `deleted` is logged or about to be (`IsLogged`), and that the thread which a
  sweep is removing is logged; the second follows from the first because the sweep takes no
  thread with a request in progress.
* `MessagesAreStored`. `StoredInv` adds that a pending insert and the pending copies of a fork
  are stored, and that objects are removed only by a request that has removed a thread.
* `NumbersHaveNoGaps`. `NumberInv` says that a thread is numbered up to some `n`, that a
  pending append carries a number within the thread or the next one, and that the copies of a
  fork are numbered themselves; cardinality enters once, in `NumberedAreCounted`.
* `ThreadTypesHold` (`TypedInv`, on `NumberInv`).

**Extraction from threads** (`ThreadExtractionProofs`). `Kinds` and `Shape` (a version is of
the run of its memory, what a job holds is of its run, runs in progress are different) carry
the rest.

* `CursorSkipsNothing`: a run that moves the cursor has come past every message before its
  window (`CursorInv`), whatever other runs did to the cursor.
* `OnlyOverlapsMakeTwins`: a run that is about to store a fact overlapped with every run that
  stored the same one since it looked (`TwinsInv`).
* `MemoriesAreTraced` (`SourcesInv`), `RollbacksLeaveNothing` (`RollbackInv`: a roll-back that
  began after its run sees everything the run left) and `CascadesLeaveNothing` (`CascadeInv`).
  An attempt at the last showed that a live version of a deleted memory can exist if its run
  was rolled back in between; versions go together (`VersionsGoTogether`) otherwise, and the
  property excuses that case.
* `ExtractionTypesHold`: windows lie within the thread and the cursor does not pass it
  (`BoundsInv`). An attempt showed that the bound on janitors' chores, which the type
  invariant used to claim, holds for one janitor only; it limits what begins, not what ends.

**Entities** (`EntityExtractionProofs`).

* `NamesAlwaysMentioned`: `MentionsInv` says what every job has reached for each name it has
  processed. A failed attempt found the excuse about entities that are merged away after their
  edge was found.
* `NamesStayUnique`, `SavesAlwaysKept` (`SavedInv`: what a status is about to write back is what
  the memory says unless a save came between) and `EntityTypesHold`.

**Agents, push, epochs** (`ValkeyProofs`).

* `LeadersExclude`: `LeaseInv` says that time which an instance has bought is covered by the
  lock's time to live and that a delete in progress is of the instance's own lock. It assumes
  `SlowCalls = FALSE`, without which the property is false. `ItemsHandledOnce` (`QueueInv`)
  and `RuntimeTypesHold`.
* `SentOnce`, `SentInOrder`, `NothingIsLost`, `PushTypesHold`: all from `PushInv`. What a
  session was sent, what its subscriber has in hand and what is in its queue are one line in
  the order of the broadcasts, with retries behind (`LinesOK`); a broadcast in progress is
  ahead of what it has yet to push (`CastsOK`); a session that is not wired has no subscriber
  (`WiringOK`). The theorems are of `PushSpec`, which `FairSpec` implies.
* `NothingStale`, `OrdersAgree`, `EntriesAreKept`, `EpochTypesHold`: from `EpochInv`, which says
  of what an epoch and each request hold that it is an answer: sorted in its two parts and free
  of repetitions. That there is a sorted list of any finite set of memories is
  proved from ranks, since the provers know nothing of the library's sort.

**The OAuth server** (`AuthServerProofs`). `TokensSpeakForTheirUser` (`WhoseInv`: a code is known
to its callback, its session and its tokens, and agrees with them), `CodesSpentOnce`
(`SpentInv`: a session whose callbacks came one at a time is `used` once its code was
spent), `GrantsStayUnforked` (`LiveInv`: a refresh that is alone with its token finds it
live when it commits) and `AuthTypesHold`.

**Projects, rules and writes** (`WritePathProofs`). `InviteOnlyAlwaysHolds` (`ProjectInv`: an
enrolment that is under way either found no project or one that is open),
`ScanAlwaysStops` and `DuplicatesAlwaysOverlap` (`GateInv`: once the rules are seeded, a
system rule that is not weakened guards every write, and a draft knows how many memories it
has seen), `OutsidersNeverWrite` and `WritePathTypesHold`.

**Personas** (`PersonaProofs`). `PinsAlwaysSurvive` (`PinsInv`), `FreshIsComplete` (`FreshInv`: as
long as no compile overlaps another or is of a project, the latest synopsis is the current
one, and a mark in progress goes to it) and `PersonaTypesHold`.

Assumptions. They say of constants what their use implies: `None` is no id, client, record,
rule, task or number; the sets that select content and workload are subsets of what they
select from; bounds are numbers; thread ids and messages are different things; a
`turn_range` begins at the first message or later; `auto-enroll` is no user. Each is a named
`ASSUME` of the module that declares the constants, and TLC evaluates it in every run. The
hypotheses of theorems beyond these are three: `Plain`, `SlowCalls = FALSE` and no `"cut"`.
Each excludes a behaviour for which the property is false.

Only model-checked: the four liveness properties (`EveryPushIsSettled`,
`DeadLeaderIsReplaced`, `GoodItemsAreServed`, `ExtractionEnds`), since liveness under fairness
and `ENABLED` are out of TLAPS's reach. Induction by the library's theorems is, too, as they
take an operator; where it is needed (walks along chains, sorting, appendixes) the proofs
take the least counterexample of a set of numbers, which exists because `<` is well founded.
The proofs show, as do the runs, what the modules say; that the modules say what the code does
is section 2.

## 5 What the code does that its documents do not say

Found by TLC with the properties and instances named here, which are not among the runs:

1. Two overlapping updates of one version both commit: two current versions, though
   `memory.py:455` says there is at most one. `AtMostOneCurrent` of `MemoryStore` with 2
   requests, 3 ids, `Contents <- InlineOnly`, `Workload = {}`.
2. A memory of which no entity could be stored is `complete`, although
   `docs/design/graph-enhanced-memory.md:289` says `failed`: the exception of each entity is
   logged and passed over, and the backfill never takes the memory again.
   `CompleteMeansExtracted` of `EntityExtraction` with one memory, one name and one fault.
3. Updating a memory copies a branch that was deleted back to life (`memory.py:646`), though
   `tools/delete_memory.py:89` says a deletion is final: `DeletionIsFinal` with
   `Workload = {"branch"}`, one request and four ids.
4. A search that matches a chunk returns its quarantined parent (`memory.py:1053`), though
   `docs/admin/content-moderation.md:32` says no search will: `SearchHidesQuarantined` with
   `Contents <- LargeInlineOnly`, `Workload = {"quarantine"}`.
5. An update that read a memory before it was quarantined publishes an active new version
   (`memory.py:587`; `content-moderation.md:70`): `QuarantineHolds` with
   `Workload = {"quarantine", "metadata"}`.
6. An edge to a branch stays on the retired branch when its memory is updated
   (`memory.py:659`): `EdgesFollowVersions` of `MemoryGraph` with `Workload = {"branch"}`. It
   holds without branches when requests come one at a time.
7. Of two oversized messages appended at once, the one that is kept may have the content of
   the one that was refused (`conversation.py:326`): `ContentIsKept` with two requests on one
   thread.
8. A soft delete that dies after its cascade leaves a thread that is later removed without a
   trace in `purge_log` (`conversation.py:680`; `docs/design/conversation-persistence.md:320`):
   `RemovedThreadsAreLogged` with `"cascade"` and `"cut"`.

Observed by reading:

* An update that overlaps a delete of the same memory commits a live version after the
  deletion. An edge created while an end is updated stays on the retired version.
* The copy of a deleted branch (3) refers to an object that the deletion has removed.
* A hard delete of a memory leaves its objects in the bucket, although
  `docs/admin/content-moderation.md:101` lists them among what it removes. No process
  collects orphans.
* A search that matches a chunk returns its parent even if the parent is superseded.
* Copies of branches lose some columns (`scope_id`, `content_type`, `relevant_until`,
  `source`).
* A fork shares objects with its source, so that a purge of one empties messages of the other.
* An archive that overlaps a soft delete leaves a thread with status `archived` and
  `deleted_at` set, which no sweep selects. A thread that was `pending_deletion` when its
  hold was lifted is never processed, although
  `docs/design/conversation-persistence.md:309` says the sweep does so.
* The sweep reads `legal_hold` when it lists the threads and not when it removes them.
* Extraction: the cursor is written blindly, so that an older of two overlapping runs moves it
  back; a crash between the commit of a window and that of the cursor extracts messages
  twice, although `docs/design/conversation-persistence.md:388` says none is. A candidate that
  is skipped adds no record, so that deleting one thread deletes a memory that another thread
  also supports; a run in progress while its thread is deleted leaves its memories.
  `rollback_extraction_run` has no caller but tests, and takes a deleted successor for a
  modification.
* Entities: after a merge the merged name is found again as a new entity, since nothing looks
  at aliases. An edge added between the read and the commit of a merge stays on the deleted
  entity. An update copies `extraction_status` and extracts nothing: pending for ever, or
  complete for a text nobody read. `entity.py:285` catches `IntegrityError`, but
  `create_relationship` raises `ValueError`. A save of a checkpoint wipes the status, and
  `read_checkpoint` returns the status as part of the workflow's state.
* Push: session ids are new for every registration and deregistration deletes the queue, so
  that no reconnecting agent picks up what was pending, although `push_subscriber.py:234` says
  so. A second registration on a connection leaks the session (`register_session.py:128`) and
  echoes the client's own writes. A crash leaves sessions active for ever.
* Epochs: an answer is cut to `max_results` after the compiled entries were added, so that a
  new match may never be shown (`tools/search_memory.py:868` says it appears in an appendix).
  Searches with different filters share an epoch and recompile it in turn.
* Curation: two overlapping first writes seed the system rules twice, since `owner_id` is
  NULL in them and the unique index (`models/curation.py:104`) takes NULLs for different,
  although `pipeline.py:26` says that is fine; from then on disabling one of the two has no effect
  and `scalar_one_or_none` raises. `set_rule` does not ask for current rules. A delete of a
  rule (`routes.py`) takes no lock, and may remove a version that was retired meanwhile and
  leave the rule in force. To disable `exact_duplicate` leaves the default thresholds in
  place. `update_memory` asks no gate. Memories of another project gate a write. A restart
  undoes the deletion of all system rules.
* Projects: two admins who remove each other at the same time leave none (`project.py:313`).
  A project that was made by the first write to it has no admin. In an open project every
  member may add an admin. A session caches memberships, so that a member who was removed
  still finds the memories of the project.
* OAuth: two callbacks of a session that overlap mint a code each, and both can be redeemed.
  Two overlapping refreshes of one token leave two live ones. Nothing calls
  `cleanup_expired_sessions`.
* Personas: `mark_synopsis_stale` never names a project and marks the latest profile of any.
  To compile the profile of a project makes `get_persona` without a project return it, and a
  compile without a project retires it. A pin that was added before there was a synopsis is
  never picked up (`persona.py:594`). Facts beyond the newest 100 are not compiled.
* Contradictions: two overlapping reports may cross the threshold unnoticed, and two
  resolutions overwrite each other.
* Agents: `queue.py:32` says a failed item goes back to the head; it goes to the tail, which
  is what makes `GoodItemsAreServed` true. A release that is slow between its two commands
  deletes the lock of another instance. `AGENT_ID` is empty by default, and then every
  instance passes for the holder.

## 6 What is not modelled

Threads: `share_thread`, whose lost grant shows by inspection. The store: contradiction
reports (a counter, and a check and a set on one row), fact children, listing, ranking and
reranking. Entities: edges between entities that the model suggests, aliases given by callers.
Checkpoints: the first save of a workflow (no constraint keeps two apart, by inspection);
promotion and graduation are two commits in a row with nothing that repairs the first. Session
focus in Valkey only steers a filter. The OAuth server: its token exchange, which stores a
cache of tenants only, new clients and rotated secrets. Projects: roles and campaigns, which
the server looks up and never changes. The UI: all pages but those of rules. The tools' own
client in `memoryhub-agents` retries writes, and may repeat one that had succeeded.

Not at all, because there is no state or no
concurrency of interest to check: parsing and formatting in tools, SDK, CLI,
authorization predicates, graph traversals, embeddings and language models (external
services, abstracted by what callers do with their answers), patterns and guidance (text
composition), schema migrations, deployment. `memoryhub-local` is a single-user SQLite edition
of the same services with one writer.

## 7 Plan

Done: all modules above, and the proof of every safety property that the runs check. Next:

1. Statements that are stronger than the properties of the runs, and follow from the same
   invariants: that a message which is skipped by one window is in the failures of that very
   run; that the copies of a fork say what their originals said; `EdgesFollowVersions` for the
   plain store.
2. Abstract specifications that components implement, as the store implements its ledger: a
   thread as an append-only list of messages; a lock that one instance has at a time; a
   queue that delivers each item once.
3. Contradiction reports, promotion and graduation.

## 8 How to run

    tlc -workers 2 -config MCMemoryStore_serial.cfg MCMemoryStore
    tlapm MemoryGraphProofs.tla
    tlapm ValkeyProofs.tla

The runs take from some seconds to about three minutes each with two workers. From nothing,
`ThreadExtractionProofs` takes about four minutes, `MemoryGraphProofs` three, `ValkeyProofs` two,
the other modules of proofs a minute or so each. `PROJECT.json` lists, for every definition,
the lines it models; for every property of a run, a mutant of the model that the run rejects;
and the hazards of the code with the properties that cover them.
