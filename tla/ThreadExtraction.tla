---------------------------- MODULE ThreadExtraction ----------------------------
(***************************************************************************)
(* How memories are extracted from a conversation thread ("dreaming"):     *)
(* memoryhub_core.services.dreaming and .reconciliation, and the cascade   *)
(* of memoryhub_core.services.conversation that removes them again.        *)
(*                                                                         *)
(* A run reads the messages after the thread's cursor, asks a language     *)
(* model for the facts in one window of them after the other, and stores   *)
(* each fact that no current memory tells yet.  Storing a memory commits.  *)
(* The rows that say where the memory came from (its extraction record and *)
(* the reconciliation decision, added together) wait in the session for    *)
(* the next commit, and the cursor has a commit of its own after that.  A  *)
(* run locks nothing: other runs, a rollback, a delete of the thread and   *)
(* the users of the memories all come in between.                          *)
(*                                                                         *)
(* No caller gives reconcile_candidate a tiebreaker, so a run creates or   *)
(* skips and never updates.  Windows are cut where the roles of the        *)
(* messages say; here, anywhere.  One thread: runs of different threads    *)
(* share memories only through Known, and never an extraction record.      *)
(***************************************************************************)
EXTENDS Naturals, Sequences, FiniteSets

CONSTANTS
  Worker,       \* the extraction requests that can be in progress
  Janitor,      \* the rollbacks and deletes that can be in progress
  Fact,         \* what a message can tell
  None,
  MaxMessages,  \* bounds: the length of the thread,
  MaxRuns,      \* the number of runs,
  MaxEdits,     \* the memories that users change,
  MaxChores,    \* the rollbacks and deletes that come to their end
  TurnRange,    \* the turn_ranges that callers ask for
  WindowSize    \* conv_extraction_window_size

\* The first message has number 1: a range that begins before it reads nothing more.
ASSUME RangeAssumption ==
  /\ TurnRange \subseteq [from : Nat \ {0}, upto : Nat]
  /\ MaxMessages \in Nat /\ MaxRuns \in Nat

VARIABLES
  said,      \* the fact that each message of the thread tells, by sequence_number
  cursor,    \* extraction_cursor
  gone,      \* the thread is soft-deleted
  memories,  \* the rows of memory_nodes, by id; an edit adds a version
  sources,   \* the memories that have an extraction record
  decided,   \* the memories that have a reconciliation decision of their run
  failures,  \* the messages in the windows of conversation_extraction_failures
  job,       \* what each worker and janitor is doing
  past       \* what properties need to know of the past, and the code does not keep

vars == <<said, cursor, gone, memories, sources, decided, failures, job, past>>
thread == <<said, cursor, gone>>
store == <<memories, sources, decided>>

------------------------------------------------------------------------------
(* Types *)

Run == 1..MaxRuns
Id == Nat \ {0}
Number == 1..MaxMessages

\* A memory that a run stores is the root of the versions its users make of it.
Memory == [fact : Fact, run : Run, root : Id, current : BOOLEAN, deleted : BOOLEAN]

Idle == [op |-> "idle"]

\* from..to is the window, and upto the last message that was read when the run began.
\* moves: the run was not asked for a turn_range.
Extraction ==
  [op : {"reconcile", "store", "advance"}, run : Run, moves : BOOLEAN,
   window : [from : Number, to : Number, left : SUBSET Fact], upto : Number,
   fact : Fact \cup {None}, pending : SUBSET Id]
Rollback == [op : {"rollback"}, run : Run, doomed : SUBSET Id, ended : BOOLEAN]
Deletion == [op : {"delete"}, doomed : SUBSET Id, ended : SUBSET Run]

\* loose: the runs whose rows do not account for their memories, since a crash or an
\* exception ended them, they were rolled back too early, or the thread was let go;
\* beside: the pairs of runs that overlapped; undone, swept: the runs that had ended
\* when a rollback, or the delete of the thread, that has finished since read their rows;
\* processed: the messages whose window was extracted to its end.
Past == [started : 0..MaxRuns, chores : Nat, processed : SUBSET Number, loose : SUBSET Run,
         beside : SUBSET (Run \X Run), undone : SUBSET Run, swept : SUBSET Run]

------------------------------------------------------------------------------

Ids == DOMAIN memories
Live(m) == ~memories[m].deleted
Versions(m) == {n \in Ids : memories[n].root = memories[m].root}
Edited(m) == \E n \in Ids : n # m /\ memories[n].root = m

Running(w, op) == job[w].op = op
Extracting(w) == job[w].op \in {"reconcile", "store", "advance"}
InProgress == {job[w].run : w \in {v \in Worker : Extracting(v)}}
EndedRuns == (1..past.started) \ (InProgress \cup past.loose)

Become(w, j) == job' = [job EXCEPT ![w] = j]
Finish(w) == Become(w, Idle)

------------------------------------------------------------------------------
(* extract_from_thread *)

AppendMessage(f) ==
  /\ ~gone
  /\ Len(said) < MaxMessages
  /\ said' = Append(said, f)
  /\ UNCHANGED <<cursor, gone, store, failures, job, past>>

\* The windows that begin at a message, each with what the model finds in it: it may miss
\* a fact, and those that it gives little weight are dropped.  It is asked when the window
\* begins; nothing that it reads can change any more.
Windows(from, upto) ==
  {[from |-> from, to |-> to, left |-> answer] :
     to \in {n \in from..upto : n < from + WindowSize}, answer \in SUBSET Fact}
Answered(from, upto) ==
  {v \in Windows(from, upto) : v.left \subseteq {said[i] : i \in v.from..v.to}}

\* The whole of what follows the cursor, or the turn_range of the caller.
Unread == [from |-> cursor + 1, upto |-> Len(said)]

StartExtract(w, range, moves) ==
  /\ Running(w, "idle")
  /\ ~gone
  /\ past.started < MaxRuns
  /\ LET run == past.started + 1
     IN /\ \E window \in Answered(range.from, range.upto) :
             Become(w, [op |-> "reconcile", run |-> run, moves |-> moves,
                        window |-> window, upto |-> range.upto, fact |-> None,
                        pending |-> {}])
        /\ past' = [past EXCEPT !.started = run,
                                !.beside = @ \cup ({run} \X InProgress)]
  /\ UNCHANGED <<thread, store, failures>>

\* check_similarity: a current memory tells the same (SKIP_THRESHOLD).
Tells(m, f) == memories[m].fact = f /\ memories[m].root = m /\ memories[m].current
KnownFromRecords(f) == \E m \in sources : Tells(m, f) /\ Live(m)
Known(f) == \E m \in Ids : Tells(m, f) /\ Live(m)

Reconcile(w) ==
  /\ Running(w, "reconcile")
  /\ \E f \in job[w].window.left :
       Become(w, IF Known(f)
                 THEN [job[w] EXCEPT !.window.left = @ \ {f}]
                 ELSE [job[w] EXCEPT !.op = "store", !.window.left = @ \ {f}, !.fact = f])
  /\ UNCHANGED <<thread, store, failures, past>>

\* Every commit of the run takes along the rows that were added since the last one.
FlushedNone(w) == {}
Flushed(w) == job[w].pending

\* create_memory(force=True), whose commit comes before the rows of this memory.
StoreMemory(w) ==
  LET j == job[w]
      id == Len(memories) + 1
  IN /\ Running(w, "store")
     /\ memories' = Append(memories, [fact |-> j.fact, run |-> j.run, root |-> id,
                                      current |-> TRUE, deleted |-> FALSE])
     /\ sources' = sources \cup j.pending
     /\ decided' = decided \cup j.pending
     /\ Become(w, [j EXCEPT !.op = "reconcile", !.fact = None, !.pending = {id}])
     /\ UNCHANGED <<thread, failures, past>>

Covered(j) == j.window.from..j.window.to

\* The end of _extract_window.
CloseWindow(w) ==
  LET j == job[w]
  IN /\ Running(w, "reconcile")
     /\ j.window.left = {}
     /\ sources' = sources \cup j.pending
     /\ decided' = decided \cup j.pending
     /\ Become(w, [j EXCEPT !.op = "advance", !.pending = {}])
     /\ past' = [past EXCEPT !.processed = @ \cup Covered(j)]
     /\ UNCHANGED <<thread, memories, failures>>

\* Any exception in the window: _log_failure.
FailWindow(w) ==
  LET j == job[w]
  IN /\ job[w].op \in {"reconcile", "store"}
     /\ failures' = failures \cup Covered(j)
     /\ sources' = sources \cup Flushed(w)
     /\ decided' = decided \cup Flushed(w)
     /\ Become(w, [j EXCEPT !.op = "advance", !.window.left = {}, !.fact = None,
                            !.pending = {}])
     /\ UNCHANGED <<thread, memories, past>>

\* The cursor moves past a window that failed as well; what it was is not looked at.
ReachedAll(j) == j.upto
Reached(j) == j.window.to

\* Then the next window, unless the circuit breaker trips.
Advance(w) ==
  LET j == job[w]
  IN /\ Running(w, "advance")
     /\ cursor' = IF j.moves THEN Reached(j) ELSE cursor
     /\ \/ Finish(w)
        \/ \E window \in Answered(j.window.to + 1, j.upto) :
             Become(w, [j EXCEPT !.op = "reconcile", !.window = window])
     /\ UNCHANGED <<said, gone, store, failures, past>>

\* A crash, or an exception that leaves the session unusable for _log_failure too.
Cut(w) ==
  /\ Extracting(w)
  /\ past' = [past EXCEPT !.loose = @ \cup {job[w].run}]
  /\ Finish(w)
  /\ UNCHANGED <<thread, store, failures>>

------------------------------------------------------------------------------
(* The users of the memories *)

EditMemory(m) ==
  /\ Cardinality({n \in Ids : memories[n].root # n}) < MaxEdits
  /\ memories[m].current /\ Live(m)
  /\ memories' = Append([memories EXCEPT ![m].current = FALSE], memories[m])
  /\ UNCHANGED <<thread, sources, decided, failures, job, past>>

WithDeleted(ids) ==
  [m \in Ids |-> IF m \in ids
                 THEN [memories[m] EXCEPT !.deleted = TRUE, !.current = FALSE]
                 ELSE memories[m]]

------------------------------------------------------------------------------
(* rollback_extraction_run *)

\* The memories that the run decided to create, but for those that are deleted and those
\* that somebody changed since.
Undoable(run) == {m \in decided : memories[m].run = run /\ Live(m) /\ ~Edited(m)}

StartRollback(w, run) ==
  /\ Running(w, "idle")
  /\ past.chores < MaxChores
  /\ Become(w, [op |-> "rollback", run |-> run, doomed |-> Undoable(run),
                ended |-> run \in EndedRuns])
  /\ UNCHANGED <<thread, store, failures, past>>

CommitRollback(w) ==
  LET j == job[w]
  IN /\ Running(w, "rollback")
     /\ memories' = WithDeleted(j.doomed)
     /\ sources' = sources \ j.doomed
     /\ Finish(w)
     /\ past' = IF j.ended THEN [past EXCEPT !.chores = @ + 1, !.undone = @ \cup {j.run}]
                           ELSE [past EXCEPT !.chores = @ + 1, !.loose = @ \cup {j.run}]
     /\ UNCHANGED <<thread, decided, failures>>

------------------------------------------------------------------------------
(* soft_delete_thread and _cascade_to_memories *)

\* Neither asks whether the thread is deleted already.
StartDelete(w) ==
  /\ Running(w, "idle")
  /\ past.chores < MaxChores
  /\ Become(w, [op |-> "delete", doomed |-> sources, ended |-> EndedRuns])
  /\ UNCHANGED <<thread, store, failures, past>>

\* cascade_mode "delete": delete_memory takes every version along, and its commit writes
\* the change of the thread.  It raises, and is ignored, when the memory is deleted.
DoomedAlone(m) == IF Live(m) THEN {m} ELSE {}
Doomed(m) == IF Live(m) THEN Versions(m) ELSE {}

CascadeDelete(w) ==
  /\ Running(w, "delete")
  /\ job[w].doomed # {}
  /\ LET m == CHOOSE n \in job[w].doomed : \A o \in job[w].doomed : n <= o IN
       /\ memories' = WithDeleted(Doomed(m))
       /\ gone' = (gone \/ Live(m))
       /\ Become(w, [job[w] EXCEPT !.doomed = @ \ {m}])
  /\ UNCHANGED <<said, cursor, sources, decided, failures, past>>

FinishDelete(w) ==
  /\ Running(w, "delete")
  /\ job[w].doomed = {}
  /\ gone' = TRUE
  /\ past' = [past EXCEPT !.chores = @ + 1, !.swept = @ \cup job[w].ended]
  /\ Finish(w)
  /\ UNCHANGED <<said, cursor, store, failures>>

\* cascade_mode "orphan": the memories stay, and nothing says any more where they are from.
Orphan(w) ==
  /\ Running(w, "delete")
  /\ job[w].doomed = sources
  /\ sources' = {}
  /\ gone' = TRUE
  /\ past' = [past EXCEPT !.chores = @ + 1, !.loose = @ \cup (1..past.started)]
  /\ Finish(w)
  /\ UNCHANGED <<said, cursor, memories, decided, failures>>

\* A delete that a crash cuts short can be asked for again.
CutJanitor(w) ==
  /\ job[w].op \in {"rollback", "delete"}
  /\ Finish(w)
  /\ UNCHANGED <<thread, store, failures, past>>

------------------------------------------------------------------------------

Init ==
  /\ said = <<>> /\ cursor = 0 /\ gone = FALSE
  /\ memories = <<>> /\ sources = {} /\ decided = {} /\ failures = {}
  /\ job = [w \in Worker \cup Janitor |-> Idle]
  /\ past = [started |-> 0, chores |-> 0, processed |-> {}, loose |-> {}, beside |-> {},
             undone |-> {}, swept |-> {}]

Next ==
  \/ \E f \in Fact : AppendMessage(f)
  \/ \E m \in Ids : EditMemory(m)
  \/ \E w \in Worker :
       \/ StartExtract(w, Unread, TRUE)
       \/ \E range \in TurnRange : range.upto <= Len(said) /\ StartExtract(w, range, FALSE)
       \/ Reconcile(w) \/ StoreMemory(w)
       \/ CloseWindow(w) \/ FailWindow(w) \/ Advance(w) \/ Cut(w)
  \/ \E w \in Janitor :
       \/ \E run \in 1..past.started : StartRollback(w, run)
       \/ CommitRollback(w) \/ StartDelete(w) \/ CascadeDelete(w)
       \/ FinishDelete(w) \/ Orphan(w) \/ CutJanitor(w)

Spec == Init /\ [][Next]_vars

------------------------------------------------------------------------------

ExtractionTypeOK ==
  /\ said \in Seq(Fact) /\ Len(said) <= MaxMessages
  /\ cursor \in 0..Len(said)
  /\ gone \in BOOLEAN
  /\ memories \in Seq(Memory)
  /\ sources \subseteq Ids /\ decided \subseteq Ids
  /\ failures \subseteq Number
  /\ job \in [Worker \cup Janitor -> {Idle} \cup Extraction \cup Rollback \cup Deletion]
  /\ past \in Past

\* "No extraction window is permanently skipped" (docs/design/conversation-persistence.md):
\* the cursor never stands behind a message whose window was neither extracted nor written
\* down as failed, whichever runs overlapped, crashed or were stopped.
NothingIsSkipped ==
  \A i \in 1..cursor : i \in past.processed \cup failures

\* Only runs that overlapped can store the same fact twice.  A window that is extracted
\* again, since a crash came before the cursor or a caller named it, adds no second memory.
TwinsComeFromOverlaps ==
  \A m, n \in Ids :
    /\ m < n /\ memories[m].fact = memories[n].fact
    /\ memories[m].current /\ memories[n].current
    /\ memories[m].root = m /\ memories[n].root = n
    => \/ <<memories[n].run, memories[m].run>> \in past.beside
       \/ <<memories[m].run, memories[n].run>> \in past.beside

\* A memory that a run has stored can be traced to its messages, or will be at the next
\* commit of the run: a window that fails half way loses nothing of what it stored.
MemoriesHaveSources ==
  \A m \in Ids :
    memories[m].root = m /\ Live(m) =>
      \/ m \in sources \cap decided
      \/ \E w \in Worker : Extracting(w) /\ m \in job[w].pending
      \/ memories[m].run \in past.loose

\* A rollback leaves nothing of a run that had ended, but for what users have changed.
UndoneRunsAreGone ==
  \A m \in Ids : memories[m].run \in past.undone /\ memories[m].root = m => ~Live(m) \/ Edited(m)

\* The cascade leaves no version of a memory that came from a run which had ended when the
\* delete began, whatever ran beside it and however often it was cut short before.
CascadeLeavesNothing ==
  \A m \in Ids :
    memories[m].run \in past.swept \ (past.undone \cup past.loose) => ~Live(m)
=============================================================================
