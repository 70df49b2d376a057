------------------------- MODULE ConversationThreads -------------------------
(***************************************************************************)
(* Conversation threads (memoryhub_core.services.conversation): append-    *)
(* only messages with S3 objects for the oversized ones, forks, archiving, *)
(* the soft delete, and the four ways a thread is removed for good: the    *)
(* retention sweep, the admin purge, and the loud and the silent spill     *)
(* response.                                                               *)
(*                                                                         *)
(* As in MemoryStore each request has a database session of its own, locks *)
(* nothing it reads, and acts later on what it read; each action is one    *)
(* read, one commit or one call to S3.  Of the memories extracted from a   *)
(* thread only one thing matters here: deleting one commits the session.   *)
(***************************************************************************)
EXTENDS Naturals, FiniteSets, FiniteSetsExt

CONSTANTS
  Thread,    \* the UUIDs of threads
  Message,   \* the messages that callers write, told apart by what they say
  Client,    \* the requests, and the sweep, that can be in progress
  None,      \* SQL NULL
  Removals,  \* the ways in which threads are removed
  Holdable,  \* the threads that an administrator may put on legal hold
  Workload   \* what may happen besides: a fork, memories to delete with a thread, a
             \* crash, and a crash that cuts the two commits of a delete apart

ASSUME ThreadNoneAssumption == None \notin Thread
ASSUME DisjointAssumption == Thread \cap Message = {}
ASSUME RemovalsAssumption == Removals \subseteq {"retention", "admin", "spill", "silent"}
ASSUME ThreadWorkloadAssumption == Workload \subseteq {"fork", "cascade", "crash", "cut"}

VARIABLES
  threads,   \* the rows of conversation_threads, by id
  messages,  \* the rows of conversation_messages
  objects,   \* the bucket: what is stored under each key
  log,       \* the threads that purge_log has an entry for
  minted,    \* every thread id handed out, and every message written, so far
  call       \* the request each client has in progress

vars == <<threads, messages, objects, log, minted, call>>

------------------------------------------------------------------------------
(* Types *)

Status == {"active", "archived", "pending_deletion", "deleted"}

\* deleted: deleted_at IS NOT NULL.
ThreadRow == [status : Status, deleted : BOOLEAN, hold : BOOLEAN]

\* threads/{tenant}/{thread}/{sequence_number}
Key == Thread \X Nat

\* said is the content when it is inline, and what was uploaded when it is not.
MessageRow == [thread : Thread, seq : Nat, ref : Key \cup {None}, said : Message]

Idle == [op |-> "idle"]

AppendCall  == [op : {"upload", "append"}, row : MessageRow]
ArchiveCall == [op : {"archive"}, thread : Thread]
ForkCall    == [op : {"fork"}, rows : SUBSET MessageRow]
DeleteCall  == [op : {"delete"}, thread : Thread, seen : ThreadRow]
AuditCall   == [op : {"audit"}, thread : Thread]
RemoveCall  == [op : {"remove"}, thread : Thread, by : Removals, held : BOOLEAN,
                refs : SUBSET Key]
CleanCall   == [op : {"clean"}, refs : SUBSET Key]

ThreadTypeOK ==
  /\ DOMAIN threads \subseteq Thread
  /\ \A t \in DOMAIN threads : threads[t] \in ThreadRow
  /\ \A m \in messages : m \in MessageRow /\ m.thread \in DOMAIN threads
  /\ DOMAIN objects \subseteq Key
  /\ \A k \in DOMAIN objects : objects[k] \in Message
  /\ log \subseteq Thread
  /\ minted \subseteq Thread \cup Message
  /\ \A c \in Client :
       LET r == call[c]
       IN \/ r = Idle
          \/ r \in AppendCall
          \/ r \in ArchiveCall
          \/ r.op = "fork" /\ \A m \in r.rows : m \in MessageRow
          \/ r \in DeleteCall
          \/ r \in AuditCall
          \/ r.op = "remove" /\ r.thread \in Thread /\ \A k \in r.refs : k \in Key
          \/ r.op = "clean" /\ \A k \in r.refs : k \in Key

------------------------------------------------------------------------------

\* The filter of every read by a caller: the row exists and deleted_at is NULL.
Visible(t) == t \in DOMAIN threads /\ ~threads[t].deleted
Active(t) == Visible(t) /\ threads[t].status = "active"

MessagesOf(t) == {m \in messages : m.thread = t}
Refs(t) == {m.ref : m \in MessagesOf(t)} \ {None}

\* coalesce(max(sequence_number), 0) + 1
LastSequence(t) == Max({m.seq : m \in MessagesOf(t)} \cup {0})
NextSequence(t) == LastSequence(t) + 1

NewThread == CHOOSE t \in Thread : t \notin minted
NewMessage == CHOOSE m \in Message : m \notin minted

Running(c, op) == call[c].op = op
Finish(c) == call' = [call EXCEPT ![c] = Idle]
Continue(c, r) == call' = [call EXCEPT ![c] = r]

WithThread(t, row) == [u \in DOMAIN threads \cup {t} |-> IF u = t THEN row ELSE threads[u]]
Fresh == [status |-> "active", deleted |-> FALSE, hold |-> FALSE]

------------------------------------------------------------------------------
(* create_thread and append_message *)

CreateThread(c) ==
  /\ Running(c, "idle")
  /\ Thread \ minted # {}
  /\ threads' = WithThread(NewThread, Fresh)
  /\ minted' = minted \cup {NewThread}
  /\ UNCHANGED <<messages, objects, log, call>>

\* Reads that the thread is active, and the highest sequence number.
StartAppend(c, t) ==
  /\ Running(c, "idle")
  /\ Active(t)
  /\ Message \ minted # {}
  /\ \E s3 \in BOOLEAN :
       LET seq == NextSequence(t)
       IN Continue(c, [op |-> IF s3 THEN "upload" ELSE "append",
                       row |-> [thread |-> t, seq |-> seq, said |-> NewMessage,
                                ref |-> IF s3 THEN <<t, seq>> ELSE None]])
  /\ minted' = minted \cup {NewMessage}
  /\ UNCHANGED <<threads, messages, objects, log>>

\* _store_message_s3: put_object replaces whatever the key named.
NotStored(row) == objects
Stored(row) ==
  [k \in DOMAIN objects \cup {row.ref} |-> IF k = row.ref THEN row.said ELSE objects[k]]

Upload(c) ==
  /\ Running(c, "upload")
  /\ objects' = Stored(call[c].row)
  /\ Continue(c, [call[c] EXCEPT !.op = "append"])
  /\ UNCHANGED <<threads, messages, log, minted>>

\* The foreign key and uq_conv_messages_thread_seq.
HasThread(row) == row.thread \in DOMAIN threads
NextFree(row) == \A m \in MessagesOf(row.thread) : m.seq # row.seq
Insertable(row) == HasThread(row) /\ NextFree(row)

CommitAppend(c) ==
  /\ Running(c, "append")
  /\ Insertable(call[c].row)
  /\ messages' = messages \cup {call[c].row}
  /\ Finish(c)
  /\ UNCHANGED <<threads, objects, log, minted>>

\* IntegrityError: the append is not retried, and what it uploaded stays.
FailAppend(c) ==
  /\ Running(c, "append")
  /\ ~Insertable(call[c].row)
  /\ Finish(c)
  /\ UNCHANGED <<threads, messages, objects, log, minted>>

------------------------------------------------------------------------------
(* archive_thread and fork_thread *)

StartArchive(c, t) ==
  /\ Running(c, "idle")
  /\ Active(t)
  /\ Continue(c, [op |-> "archive", thread |-> t])
  /\ UNCHANGED <<threads, messages, objects, log, minted>>

\* The flush writes status by primary key and no other column.
CommitArchive(c) ==
  /\ Running(c, "archive")
  /\ call[c].thread \in DOMAIN threads
  /\ threads' = [threads EXCEPT ![call[c].thread].status = "archived"]
  /\ Finish(c)
  /\ UNCHANGED <<messages, objects, log, minted>>

\* Reads the messages up to the fork point.
StartFork(c, t) ==
  /\ "fork" \in Workload
  /\ Running(c, "idle")
  /\ Visible(t)
  /\ Thread \ minted # {}
  /\ \E from \in 0..LastSequence(t) :
       Continue(c, [op |-> "fork", rows |-> {m \in MessagesOf(t) : m.seq <= from}])
  /\ UNCHANGED <<threads, messages, objects, log, minted>>

\* The copies are numbered from 1 again, and share the objects of the originals.
ForkOf(t, rows) ==
  {[m EXCEPT !.thread = t, !.seq = Cardinality({n \in rows : n.seq <= m.seq})] : m \in rows}

CommitFork(c) ==
  /\ Running(c, "fork")
  /\ Thread \ minted # {}
  /\ threads' = WithThread(NewThread, Fresh)
  /\ messages' = messages \cup ForkOf(NewThread, call[c].rows)
  /\ minted' = minted \cup {NewThread}
  /\ Finish(c)
  /\ UNCHANGED <<objects, log>>

------------------------------------------------------------------------------
(* soft_delete_thread, by the owner at any time or by the sweep on expiry *)

StartDelete(c, t) ==
  /\ Running(c, "idle")
  /\ t \in DOMAIN threads
  /\ Continue(c, [op |-> "delete", thread |-> t, seen |-> threads[t]])
  /\ UNCHANGED <<threads, messages, objects, log, minted>>

\* A status that equals the one that was read is no change, and is not written.
SoftDeleted(row, seen) ==
  LET status == IF seen.hold THEN "pending_deletion" ELSE "deleted"
  IN [row EXCEPT !.status = IF status = seen.status THEN @ ELSE status,
                 !.deleted = @ \/ ~seen.hold]

\* _cascade_to_memories: delete_memory commits the session it is given, and with it the
\* change of the thread, which has no entry in purge_log yet.
CommitCascade(c) ==
  LET t == call[c].thread
  IN /\ "cascade" \in Workload
     /\ Running(c, "delete")
     /\ t \in DOMAIN threads
     /\ threads' = [threads EXCEPT ![t] = SoftDeleted(@, call[c].seen)]
     /\ Continue(c, [op |-> "audit", thread |-> t])
     /\ UNCHANGED <<messages, objects, log, minted>>

RecordDelete(c) ==
  /\ Running(c, "audit")
  /\ log' = log \cup {call[c].thread}
  /\ Finish(c)
  /\ UNCHANGED <<threads, messages, objects, minted>>

\* A thread that no memory was extracted from: one commit.
CommitDelete(c) ==
  LET t == call[c].thread
  IN /\ Running(c, "delete")
     /\ t \in DOMAIN threads
     /\ threads' = [threads EXCEPT ![t] = SoftDeleted(@, call[c].seen)]
     /\ log' = log \cup {t}
     /\ Finish(c)
     /\ UNCHANGED <<messages, objects, minted>>

------------------------------------------------------------------------------
(* hard_delete_thread, admin_purge_thread and spill_response_thread *)

\* The second phase of run_retention_sweep.  min_retention_days (30 by default) pass
\* between the soft delete and the sweep: no request on the thread is that old.
NotHeld(t) == ~threads[t].hold
Sweepable(t) ==
  /\ threads[t].status = "deleted"
  /\ threads[t].deleted
  /\ ~threads[t].hold
  /\ \A d \in Client :
       call[d].op \in {"archive", "delete", "audit", "remove"} => call[d].thread # t
  /\ \A d \in Client : call[d].op \in {"upload", "append"} => call[d].row.thread # t

\* The sweep checks the legal hold; the purge and the spill response override it.  The
\* command that runs the sweep builds its S3 adapter with arguments that the constructor
\* does not take, goes on without one, and so collects no refs.
StartRemove(c, t) ==
  /\ Running(c, "idle")
  /\ t \in DOMAIN threads
  /\ \E by \in Removals :
       /\ by = "retention" => Sweepable(t)
       /\ Continue(c, [op |-> "remove", thread |-> t, by |-> by, held |-> threads[t].hold,
                       refs |-> IF by = "retention" THEN {} ELSE Refs(t)])
  /\ UNCHANGED <<threads, messages, objects, log, minted>>

\* The DELETE cascades to the messages.  Removing a row that is already gone is no error,
\* unless its legal hold has to be cleared first.
CommitRemove(c) ==
  LET r == call[c]
      t == r.thread
  IN /\ Running(c, "remove")
     /\ r.held => t \in DOMAIN threads
     /\ threads' = [u \in DOMAIN threads \ {t} |-> threads[u]]
     /\ messages' = messages \ MessagesOf(t)
     /\ log' = IF r.by \in {"admin", "spill"} THEN log \cup {t} ELSE log
     /\ Continue(c, IF r.refs = {} THEN Idle ELSE [op |-> "clean", refs |-> r.refs])
     /\ UNCHANGED <<objects, minted>>

CleanObjects(c) ==
  /\ Running(c, "clean")
  /\ objects' = [k \in DOMAIN objects \ call[c].refs |-> objects[k]]
  /\ Finish(c)
  /\ UNCHANGED <<threads, messages, log, minted>>

------------------------------------------------------------------------------

\* The UPDATE of a request matches no row any more: StaleDataError.
FailCommit(c) ==
  /\ \/ Running(c, "archive") \/ Running(c, "delete")
     \/ Running(c, "remove") /\ call[c].held
  /\ call[c].thread \notin DOMAIN threads
  /\ Finish(c)
  /\ UNCHANGED <<threads, messages, objects, log, minted>>

Crash(c) ==
  /\ ~Running(c, "idle")
  /\ IF Running(c, "audit") THEN "cut" \in Workload ELSE "crash" \in Workload
  /\ Finish(c)
  /\ UNCHANGED <<threads, messages, objects, log, minted>>

\* legal_hold is a column that only an administrator's own SQL writes.
ToggleHold(t) ==
  /\ t \in Holdable
  /\ threads' = [threads EXCEPT ![t].hold = ~@]
  /\ UNCHANGED <<messages, objects, log, minted, call>>

Init ==
  /\ threads = [t \in {} |-> None]
  /\ messages = {}
  /\ objects = [k \in {} |-> None]
  /\ log = {}
  /\ minted = {}
  /\ call = [c \in Client |-> Idle]

Next ==
  \/ \E c \in Client :
       \/ CreateThread(c) \/ Upload(c) \/ CommitAppend(c) \/ FailAppend(c)
       \/ CommitArchive(c) \/ CommitFork(c)
       \/ CommitDelete(c) \/ CommitCascade(c) \/ RecordDelete(c)
       \/ CommitRemove(c) \/ CleanObjects(c) \/ FailCommit(c) \/ Crash(c)
       \/ \E t \in DOMAIN threads :
            \/ StartAppend(c, t) \/ StartArchive(c, t) \/ StartFork(c, t)
            \/ StartDelete(c, t) \/ StartRemove(c, t)
  \/ \E t \in DOMAIN threads : ToggleHold(t)

Spec == Init /\ [][Next]_vars

------------------------------------------------------------------------------

\* The messages of a thread are numbered 1, 2, 3 and so on: two overlapping appends never
\* share a number, a failed one leaves no gap, and a fork is numbered like its source.
NumberedWithoutGaps ==
  \A t \in DOMAIN threads :
    LET rows == MessagesOf(t)
    IN {m.seq : m \in rows} = 1..Cardinality(rows)

\* The threads that were there and are gone.
Removed == (minted \cap Thread) \ DOMAIN threads

\* No thread disappears without an entry in purge_log, but for a silent spill.  The sweep
\* writes none itself: it relies on the soft delete, which another request made long ago.
\* A delete that is cut between its two commits breaks this, and nothing else does.
RemovedThreadsAreLogged == "silent" \notin Removals => Removed \subseteq log

\* As long as no thread has been removed, the bucket has the content of every message,
\* whichever requests overlapped, failed or were killed.
ContentIsStored ==
  Removed = {} => \A m \in messages : m.ref # None => m.ref \in DOMAIN objects

\* "Messages are append-only and immutable after creation" (models/conversation.py): what
\* can be read of a message is what its caller wrote.
ContentIsKept ==
  \A m \in messages :
    m.ref # None => m.ref \in DOMAIN objects /\ objects[m.ref] = m.said
==============================================================================
