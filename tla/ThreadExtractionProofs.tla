------------------------- MODULE ThreadExtractionProofs -------------------------
(* Theorems about ThreadExtraction, for every value of its constants. *)
EXTENDS ThreadExtraction, SequenceTheorems, WellFoundedInduction, TLAPS

Proc == Worker \cup Janitor

(* The kinds of values, without the bounds that only the model checker needs. *)
MemoryRow == [fact : Fact, run : Nat, root : Nat, current : BOOLEAN, deleted : BOOLEAN]
Window == [from : Nat, to : Nat, left : SUBSET Fact]
ExtractionJob ==
  [op : {"reconcile", "store", "advance"}, run : Nat, moves : BOOLEAN, window : Window,
   upto : Nat, fact : Fact \cup {None}, pending : SUBSET Nat]
RollbackJob == [op : {"rollback"}, run : Nat, doomed : SUBSET Nat, ended : BOOLEAN]
DeletionJob == [op : {"delete"}, doomed : SUBSET Nat, ended : SUBSET Nat]
PastRow ==
  [started : Nat, chores : Nat, processed : SUBSET Nat, loose : SUBSET Nat,
   beside : SUBSET (Nat \X Nat), undone : SUBSET Nat, swept : SUBSET Nat]

AnyJob == {Idle} \cup ExtractionJob \cup RollbackJob \cup DeletionJob
JobKinds ==
  /\ job \in [Proc -> AnyJob]
  /\ \A w \in Proc : Running(w, "store") => job[w].fact \in Fact

Kinds ==
  /\ said \in Seq(Fact) /\ cursor \in Nat
  /\ memories \in Seq(MemoryRow)
  /\ sources \subseteq Nat /\ decided \subseteq Nat /\ failures \subseteq Nat
  /\ JobKinds
  /\ past \in PastRow

(* The memories that runs stored, of which the other rows are versions. *)
Roots == {m \in Ids : memories[m].root = m}

(* A version tells what its memory tells of its run; what is deleted is not current. *)
RowOK(m) ==
  /\ memories[m].root \in Roots /\ memories[memories[m].root].run = memories[m].run
  /\ memories[m].run \in 1..past.started
  /\ memories[m].deleted => ~memories[m].current

(* A run that has ended stores nothing any more. *)
Done(r) == r \in 1..past.started /\ \A w \in Worker : Extracting(w) => job[w].run # r

(* What a job holds is of its run, or is there to delete. *)
JobOK(w) ==
  /\ Extracting(w) => /\ w \in Worker /\ job[w].run \in 1..past.started
                      /\ \A m \in job[w].pending : m \in Roots /\ memories[m].run = job[w].run
  /\ Running(w, "rollback") =>
       /\ \A m \in job[w].doomed : m \in Roots /\ memories[m].run = job[w].run
       /\ job[w].ended => Done(job[w].run)
  /\ Running(w, "delete") => /\ job[w].doomed \subseteq Roots
                             /\ \A r \in job[w].ended : Done(r)

RowsOK == \A m \in Ids : RowOK(m)
JobsOK == \A w \in Proc : JobOK(w)
RunsAreOwn ==
  \A v, w \in Proc : Extracting(v) /\ Extracting(w) /\ v # w => job[v].run # job[w].run

Shape ==
  /\ RowsOK /\ JobsOK /\ RunsAreOwn
  /\ sources \subseteq Roots /\ decided \subseteq Roots
  /\ \A r \in past.undone \cup past.swept : Done(r)

------------------------------------------------------------------------------
(* Rows *)

(* A row is appended. *)
LEMMA Appended ==
  ASSUME NEW S, NEW seq \in Seq(S), NEW e \in S
  PROVE  /\ Append(seq, e) \in Seq(S)
         /\ Len(seq) \in Nat
         /\ Len(seq) + 1 \notin DOMAIN seq
         /\ DOMAIN Append(seq, e) = DOMAIN seq \cup {Len(seq) + 1}
         /\ DOMAIN seq \subseteq Nat
         /\ \A i \in DOMAIN seq : Append(seq, e)[i] = seq[i]
         /\ Append(seq, e)[Len(seq) + 1] = e
<1>1. Append(seq, e) \in Seq(S) /\ Len(Append(seq, e)) = Len(seq) + 1
  BY AppendProperties
<1>2. /\ Len(seq) \in Nat /\ DOMAIN seq = 1..Len(seq)
      /\ DOMAIN Append(seq, e) = 1..(Len(seq) + 1)
  BY <1>1, LenProperties
<1>3. QED BY <1>1, <1>2, AppendProperties

(* What the kind of a job says of its fields. *)
LEMMA JobFields ==
  ASSUME Kinds, NEW w \in Proc
  PROVE  /\ job[w] = Idle \/ job[w] \in ExtractionJob \/ job[w] \in RollbackJob
            \/ job[w] \in DeletionJob
         /\ Extracting(w) => job[w] \in ExtractionJob
         /\ Running(w, "rollback") => job[w] \in RollbackJob
         /\ Running(w, "delete") => job[w] \in DeletionJob
<1>1. job[w] \in {Idle} \cup ExtractionJob \cup RollbackJob \cup DeletionJob
  BY DEF Kinds, JobKinds, AnyJob
<1>2. job[w].op \in {"reconcile", "store", "advance"} => job[w] \in ExtractionJob
  BY <1>1 DEF Idle, ExtractionJob, RollbackJob, DeletionJob
<1>3. job[w].op = "rollback" => job[w] \in RollbackJob
  BY <1>1 DEF Idle, ExtractionJob, RollbackJob, DeletionJob
<1>4. job[w].op = "delete" => job[w] \in DeletionJob
  BY <1>1 DEF Idle, ExtractionJob, RollbackJob, DeletionJob
<1>5. QED BY <1>1, <1>2, <1>3, <1>4 DEF Extracting, Running

(* Rows that are deleted keep what they are about. *)
LEMMA Deleted ==
  ASSUME Kinds, NEW ids, memories' = WithDeleted(ids)
  PROVE  /\ memories' \in Seq(MemoryRow)
         /\ Ids' = Ids
         /\ \A m \in Ids :
              /\ memories'[m].fact = memories[m].fact /\ memories'[m].run = memories[m].run
              /\ memories'[m].root = memories[m].root
              /\ memories'[m].deleted <=> (memories[m].deleted \/ m \in ids)
              /\ memories'[m].current <=> (memories[m].current /\ m \notin ids)
<1>1. /\ DOMAIN memories = 1..Len(memories) /\ Len(memories) \in Nat
      /\ \A m \in Ids : memories[m] \in MemoryRow
  BY LenProperties, ElementOfSeq DEF Kinds, Ids
<1>2. \A m \in Ids :
        memories'[m] = IF m \in ids THEN [memories[m] EXCEPT !.deleted = TRUE, !.current = FALSE]
                                    ELSE memories[m]
  BY DEF WithDeleted, Ids
<1>3. \A m \in Ids : memories'[m] \in MemoryRow
  BY <1>1, <1>2 DEF MemoryRow
<1>4. memories' \in [1..Len(memories) -> MemoryRow]
  BY <1>1, <1>3 DEF WithDeleted, Ids
<1>5. memories' \in Seq(MemoryRow) /\ DOMAIN memories' = DOMAIN memories
  BY <1>1, <1>4, SeqDef
<1>6. ASSUME NEW m \in Ids
      PROVE  /\ memories'[m].fact = memories[m].fact /\ memories'[m].run = memories[m].run
             /\ memories'[m].root = memories[m].root
             /\ memories'[m].deleted <=> (memories[m].deleted \/ m \in ids)
             /\ memories'[m].current <=> (memories[m].current /\ m \notin ids)
  BY <1>1, <1>2 DEF MemoryRow
<1>7. QED BY <1>5, <1>6 DEF Ids

(* A memory that a run stores. *)
LEMMA Stored ==
  ASSUME Kinds, NEW w \in Proc, StoreMemory(w)
  PROVE  \E id \in Nat :
           /\ id \notin Ids /\ Ids' = Ids \cup {id}
           /\ memories' \in Seq(MemoryRow)
           /\ \A m \in Ids : memories'[m] = memories[m]
           /\ memories'[id] = [fact |-> job[w].fact, run |-> job[w].run, root |-> id,
                               current |-> TRUE, deleted |-> FALSE]
           /\ job' = [job EXCEPT ![w] = [job[w] EXCEPT !.op = "reconcile", !.fact = None,
                                                       !.pending = {id}]]
<1> DEFINE id == Len(memories) + 1
           row == [fact |-> job[w].fact, run |-> job[w].run, root |-> id,
                   current |-> TRUE, deleted |-> FALSE]
<1>1. job[w] \in ExtractionJob /\ job[w].fact \in Fact
  BY JobFields DEF StoreMemory, Running, Extracting, Kinds, JobKinds
<1>2. memories \in Seq(MemoryRow) /\ Len(memories) \in Nat
  BY LenProperties DEF Kinds
<1>3. row \in MemoryRow
  BY <1>1, <1>2 DEF MemoryRow, ExtractionJob
<1>4. memories' = Append(memories, row)
      /\ job' = [job EXCEPT ![w] = [job[w] EXCEPT !.op = "reconcile", !.fact = None,
                                                  !.pending = {id}]]
  BY DEF StoreMemory, Become
<1>5. row = [fact |-> job[w].fact, run |-> job[w].run, root |-> id,
             current |-> TRUE, deleted |-> FALSE] /\ id = Len(memories) + 1
  OBVIOUS
<1> HIDE DEF row
<1>6. /\ Append(memories, row) \in Seq(MemoryRow)
      /\ id \notin DOMAIN memories
      /\ DOMAIN Append(memories, row) = DOMAIN memories \cup {id}
      /\ \A i \in DOMAIN memories : Append(memories, row)[i] = memories[i]
      /\ Append(memories, row)[id] = row
  BY <1>2, <1>3, Appended
<1>7. id \in Nat
  BY <1>2
<1> HIDE DEF id
<1>8. QED BY <1>4, <1>5, <1>6, <1>7 DEF Ids

(* A version that a user makes. *)
LEMMA Edits ==
  ASSUME Kinds, NEW m \in Ids, EditMemory(m)
  PROVE  \E id \in Nat :
           /\ id \notin Ids /\ Ids' = Ids \cup {id}
           /\ memories' \in Seq(MemoryRow)
           /\ \A n \in Ids :
                /\ memories'[n].fact = memories[n].fact /\ memories'[n].run = memories[n].run
                /\ memories'[n].root = memories[n].root
                /\ memories'[n].deleted = memories[n].deleted
                /\ memories'[n].current <=> (memories[n].current /\ n # m)
           /\ memories'[id] = memories[m] /\ memories[m].current /\ ~memories[m].deleted
<1> DEFINE id == Len(memories) + 1
           old == [memories EXCEPT ![m].current = FALSE]
<1>1. /\ DOMAIN memories = 1..Len(memories) /\ Len(memories) \in Nat
      /\ \A n \in Ids : memories[n] \in MemoryRow
  BY LenProperties, ElementOfSeq DEF Kinds, Ids
<1>2. \A n \in Ids : old[n] = IF n = m THEN [memories[m] EXCEPT !.current = FALSE]
                                       ELSE memories[n]
  BY DEF Ids
<1>3. ASSUME NEW n \in Ids PROVE old[n] \in MemoryRow
  <2>1. memories[n] \in MemoryRow /\ memories[m] \in MemoryRow
    BY <1>1
  <2>2. [memories[m] EXCEPT !.current = FALSE] \in MemoryRow
    BY <2>1 DEF MemoryRow
  <2>3. QED BY <1>2, <2>1, <2>2
<1>4. /\ DOMAIN old = DOMAIN memories /\ old = [n \in DOMAIN memories |-> old[n]]
  OBVIOUS
<1>5. old \in [1..Len(memories) -> MemoryRow]
  BY <1>1, <1>3, <1>4 DEF Ids
<1>6. old \in Seq(MemoryRow) /\ Len(old) = Len(memories)
  BY <1>1, <1>5, SeqDef, LenProperties
<1>7. memories' = Append(old, memories[m]) /\ memories[m].current /\ ~memories[m].deleted
  BY DEF EditMemory, Live
<1>8. ASSUME NEW n \in Ids
      PROVE  /\ old[n].fact = memories[n].fact /\ old[n].run = memories[n].run
             /\ old[n].root = memories[n].root /\ old[n].deleted = memories[n].deleted
             /\ old[n].current <=> (memories[n].current /\ n # m)
  BY <1>1, <1>2 DEF MemoryRow
<1> HIDE DEF old
<1>9. /\ Append(old, memories[m]) \in Seq(MemoryRow)
      /\ id \notin DOMAIN old
      /\ DOMAIN Append(old, memories[m]) = DOMAIN old \cup {id}
      /\ \A i \in DOMAIN old : Append(old, memories[m])[i] = old[i]
      /\ Append(old, memories[m])[id] = memories[m]
  BY <1>1, <1>6, Appended
<1>10. id \in Nat
  BY <1>1
<1> HIDE DEF id
<1>11. id \notin Ids /\ Ids' = Ids \cup {id} /\ memories' \in Seq(MemoryRow)
  BY <1>4, <1>7, <1>9 DEF Ids
<1>12. (\A n \in Ids : memories'[n] = old[n]) /\ memories'[id] = memories[m]
  BY <1>4, <1>7, <1>9 DEF Ids
<1>13. ASSUME NEW n \in Ids
       PROVE  /\ memories'[n].fact = memories[n].fact /\ memories'[n].run = memories[n].run
              /\ memories'[n].root = memories[n].root
              /\ memories'[n].deleted = memories[n].deleted
              /\ memories'[n].current <=> (memories[n].current /\ n # m)
  BY <1>8, <1>12
<1>14. QED BY <1>7, <1>10, <1>11, <1>12, <1>13

(* A process goes on to its next job, and the others stay where they are. *)
LEMMA Becomes ==
  ASSUME Kinds, NEW w \in Proc, NEW j \in AnyJob, j.op = "store" => j.fact \in Fact,
         Become(w, j)
  PROVE  /\ JobKinds'
         /\ job'[w] = j
         /\ \A v \in Proc \ {w} : job'[v] = job[v]
<1>1. /\ job' \in [Proc -> AnyJob] /\ job'[w] = j
      /\ \A v \in Proc \ {w} : job'[v] = job[v]
  BY DEF Become, Kinds, JobKinds
<1>2. \A v \in Proc : job'[v].op = "store" => job'[v].fact \in Fact
  BY <1>1 DEF Kinds, JobKinds, Running
<1>3. QED BY <1>1, <1>2 DEF JobKinds, Running

(* Of every kind of value, the same. *)
LEMMA KindsStep ==
  ASSUME Kinds, [Next]_vars
  PROVE  Kinds'
<1>1. ASSUME NEW f \in Fact, AppendMessage(f) PROVE Kinds'
  <2>1. Append(said, f) \in Seq(Fact)
    BY AppendProperties DEF Kinds
  <2>2. QED BY <1>1, <2>1 DEF AppendMessage, Kinds, JobKinds, Running, store
<1>2. ASSUME NEW m \in Ids, EditMemory(m) PROVE Kinds'
  <2>1. memories' \in Seq(MemoryRow)
    BY <1>2, Edits
  <2>2. QED BY <1>2, <2>1 DEF EditMemory, Kinds, JobKinds, Running, thread
<1>3. ASSUME NEW w \in Worker, NEW range, NEW moves \in BOOLEAN, StartExtract(w, range, moves),
             range.from \in Nat, range.upto \in Nat
      PROVE  Kinds'
  <2>1. PICK window \in Answered(range.from, range.upto) :
          Become(w, [op |-> "reconcile", run |-> past.started + 1, moves |-> moves,
                     window |-> window, upto |-> range.upto, fact |-> None, pending |-> {}])
    BY <1>3 DEF StartExtract
  <2>2. window \in Window
    BY <1>3 DEF Answered, Windows, Window
  <2>3. past.started + 1 \in Nat
    BY DEF Kinds, PastRow
  <2>4. JobKinds'
    <3>1. [op |-> "reconcile", run |-> past.started + 1, moves |-> moves,
           window |-> window, upto |-> range.upto, fact |-> None, pending |-> {}]
            \in ExtractionJob
      BY <1>3, <2>2, <2>3 DEF ExtractionJob
    <3>2. QED BY <2>1, <3>1, Becomes DEF Proc, AnyJob
  <2>5. \A v \in Worker : Extracting(v) => job[v].run \in Nat
    BY JobFields DEF Proc, ExtractionJob
  <2>6. InProgress \subseteq Nat
    BY <2>5 DEF InProgress
  <2>7. past' \in PastRow
    BY <1>3, <2>3, <2>6 DEF StartExtract, PastRow, Kinds
  <2>8. QED BY <1>3, <2>4, <2>7 DEF StartExtract, Kinds, thread, store
<1>4. ASSUME NEW w \in Worker, Reconcile(w) PROVE Kinds'
  <2>1. PICK f \in job[w].window.left :
          Become(w, IF Known(f)
                    THEN [job[w] EXCEPT !.window.left = @ \ {f}]
                    ELSE [job[w] EXCEPT !.op = "store", !.window.left = @ \ {f}, !.fact = f])
    BY <1>4 DEF Reconcile
  <2>2. job[w] \in ExtractionJob /\ job[w].op = "reconcile"
    BY <1>4, JobFields DEF Reconcile, Running, Extracting, Proc
  <2>3. f \in Fact
    BY <2>2 DEF ExtractionJob, Window
  <2>4. [job[w] EXCEPT !.window.left = @ \ {f}] \in ExtractionJob
        /\ [job[w] EXCEPT !.window.left = @ \ {f}].op = "reconcile"
    BY <2>2 DEF ExtractionJob, Window
  <2>5. LET j == [job[w] EXCEPT !.op = "store", !.window.left = @ \ {f}, !.fact = f]
        IN  j \in ExtractionJob /\ j.fact = f
    BY <2>2, <2>3 DEF ExtractionJob, Window
  <2>6. JobKinds'
    BY <2>1, <2>3, <2>4, <2>5, Becomes DEF AnyJob, Proc
  <2>7. QED BY <1>4, <2>6 DEF Reconcile, Kinds, thread, store
<1>5. ASSUME NEW w \in Worker, StoreMemory(w) PROVE Kinds'
  <2>1. job[w] \in ExtractionJob
    BY <1>5, JobFields DEF StoreMemory, Running, Extracting, Proc
  <2>2. PICK id \in Nat :
          /\ memories' \in Seq(MemoryRow)
          /\ job' = [job EXCEPT ![w] = [job[w] EXCEPT !.op = "reconcile", !.fact = None,
                                                      !.pending = {id}]]
    BY <1>5, Stored DEF Proc
  <2>3. LET j == [job[w] EXCEPT !.op = "reconcile", !.fact = None, !.pending = {id}]
        IN  j \in ExtractionJob /\ j.op = "reconcile"
    BY <2>1 DEF ExtractionJob
  <2>4. JobKinds'
    BY <2>2, <2>3, Becomes DEF AnyJob, Proc, Become
  <2>5. sources' \subseteq Nat /\ decided' \subseteq Nat
    BY <1>5, <2>1 DEF StoreMemory, Kinds, ExtractionJob
  <2>6. QED BY <1>5, <2>2, <2>4, <2>5 DEF StoreMemory, Kinds, thread
<1>6. ASSUME NEW w \in Worker, CloseWindow(w) PROVE Kinds'
  <2>1. job[w] \in ExtractionJob
    BY <1>6, JobFields DEF CloseWindow, Running, Extracting, Proc
  <2>2. LET j == [job[w] EXCEPT !.op = "advance", !.pending = {}]
        IN  j \in ExtractionJob /\ j.op = "advance"
    BY <2>1 DEF ExtractionJob
  <2>3. JobKinds'
    BY <1>6, <2>2, Becomes DEF AnyJob, Proc, CloseWindow
  <2>4. Covered(job[w]) \subseteq Nat
    BY <2>1 DEF Covered, ExtractionJob, Window
  <2>5. past' \in PastRow
    BY <1>6, <2>4 DEF CloseWindow, Kinds, PastRow
  <2>6. sources' \subseteq Nat /\ decided' \subseteq Nat
    BY <1>6, <2>1 DEF CloseWindow, Kinds, ExtractionJob
  <2>7. QED BY <1>6, <2>3, <2>5, <2>6 DEF CloseWindow, Kinds, thread
<1>7. ASSUME NEW w \in Worker, FailWindow(w) PROVE Kinds'
  <2>1. job[w] \in ExtractionJob
    BY <1>7, JobFields DEF FailWindow, Extracting, Proc
  <2>2. LET j == [job[w] EXCEPT !.op = "advance", !.window.left = {}, !.fact = None,
                                !.pending = {}]
        IN  j \in ExtractionJob /\ j.op = "advance"
    BY <2>1 DEF ExtractionJob, Window
  <2>3. JobKinds'
    BY <1>7, <2>2, Becomes DEF AnyJob, Proc, FailWindow
  <2>4. Covered(job[w]) \subseteq Nat
    BY <2>1 DEF Covered, ExtractionJob, Window
  <2>5. sources' \subseteq Nat /\ decided' \subseteq Nat
    BY <1>7, <2>1 DEF FailWindow, Kinds, ExtractionJob, Flushed
  <2>6. QED BY <1>7, <2>3, <2>4, <2>5 DEF FailWindow, Kinds, thread
<1>8. ASSUME NEW w \in Worker, Advance(w) PROVE Kinds'
  <2>1. job[w] \in ExtractionJob
    BY <1>8, JobFields DEF Advance, Running, Extracting, Proc
  <2>2. cursor' \in Nat
    BY <1>8, <2>1 DEF Advance, Kinds, Reached, ExtractionJob, Window
  <2>3. CASE Finish(w)
    <3>1. JobKinds'
      BY <2>3, Becomes DEF Finish, AnyJob, Proc, Idle
    <3>2. QED BY <1>8, <2>2, <3>1 DEF Advance, Kinds, store
  <2>4. ASSUME NEW window \in Answered(job[w].window.to + 1, job[w].upto),
               Become(w, [job[w] EXCEPT !.op = "reconcile", !.window = window])
        PROVE  Kinds'
    <3>1. window \in Window
      BY <2>1 DEF Answered, Windows, Window, ExtractionJob
    <3>2. LET j == [job[w] EXCEPT !.op = "reconcile", !.window = window]
          IN  j \in ExtractionJob /\ j.op = "reconcile"
      BY <2>1, <3>1 DEF ExtractionJob
    <3>3. JobKinds'
      BY <2>4, <3>2, Becomes DEF AnyJob, Proc
    <3>4. QED BY <1>8, <2>2, <3>3 DEF Advance, Kinds, store
  <2>5. QED BY <1>8, <2>3, <2>4 DEF Advance
<1>9. ASSUME NEW w \in Worker, Cut(w) PROVE Kinds'
  <2>1. job[w] \in ExtractionJob
    BY <1>9, JobFields DEF Cut, Proc
  <2>2. JobKinds'
    BY <1>9, Becomes DEF Cut, Finish, AnyJob, Proc, Idle
  <2>3. past' \in PastRow
    BY <1>9, <2>1 DEF Cut, Kinds, PastRow, ExtractionJob
  <2>4. QED BY <1>9, <2>2, <2>3 DEF Cut, Kinds, thread, store
<1>10. ASSUME NEW w \in Janitor, NEW run \in 1..past.started, StartRollback(w, run)
       PROVE  Kinds'
  <2>1. run \in Nat
    BY <1>10 DEF Kinds, PastRow
  <2>2. [op |-> "rollback", run |-> run, doomed |-> Undoable(run), ended |-> run \in EndedRuns]
          \in RollbackJob
    <3>1. Undoable(run) \in SUBSET Nat
      BY DEF Undoable, Kinds
    <3>2. (run \in EndedRuns) \in BOOLEAN
      OBVIOUS
    <3>3. QED BY <2>1, <3>1, <3>2 DEF RollbackJob
  <2>3. JobKinds'
    BY <1>10, <2>2, Becomes DEF AnyJob, Proc, StartRollback
  <2>4. QED BY <1>10, <2>3 DEF StartRollback, Kinds, thread, store
<1>11. ASSUME NEW w \in Janitor, CommitRollback(w) PROVE Kinds'
  <2>1. job[w] \in RollbackJob
    BY <1>11, JobFields DEF CommitRollback, Running, Proc
  <2>2. JobKinds'
    BY <1>11, Becomes DEF CommitRollback, Finish, AnyJob, Proc, Idle
  <2>3. past' \in PastRow
    <3>1. past \in PastRow /\ past.chores + 1 \in Nat /\ job[w].run \in Nat
      BY <2>1 DEF Kinds, PastRow, RollbackJob
    <3>2. QED BY <1>11, <3>1 DEF CommitRollback, PastRow
  <2>4. memories' \in Seq(MemoryRow)
    BY <1>11, Deleted DEF CommitRollback
  <2>5. QED BY <1>11, <2>2, <2>3, <2>4 DEF CommitRollback, Kinds, thread
<1>12. ASSUME NEW w \in Janitor, StartDelete(w) PROVE Kinds'
  <2>1. EndedRuns \subseteq Nat
    BY DEF EndedRuns, Kinds, PastRow
  <2>2. [op |-> "delete", doomed |-> sources, ended |-> EndedRuns] \in DeletionJob
    BY <2>1 DEF DeletionJob, Kinds
  <2>3. JobKinds'
    BY <1>12, <2>2, Becomes DEF AnyJob, Proc, StartDelete
  <2>4. QED BY <1>12, <2>3 DEF StartDelete, Kinds, thread, store
<1>13. ASSUME NEW w \in Janitor, CascadeDelete(w) PROVE Kinds'
  <2>1. job[w] \in DeletionJob
    BY <1>13, JobFields DEF CascadeDelete, Running, Proc
  <2>2. PICK m : /\ memories' = WithDeleted(Doomed(m))
                 /\ Become(w, [job[w] EXCEPT !.doomed = @ \ {m}])
    BY <1>13 DEF CascadeDelete
  <2>3. LET j == [job[w] EXCEPT !.doomed = @ \ {m}]
        IN  j \in DeletionJob /\ j.op = "delete"
    BY <2>1 DEF DeletionJob
  <2>4. JobKinds'
    BY <2>2, <2>3, Becomes DEF AnyJob, Proc
  <2>5. memories' \in Seq(MemoryRow)
    BY <2>2, Deleted
  <2>6. QED BY <1>13, <2>4, <2>5 DEF CascadeDelete, Kinds
<1>14. ASSUME NEW w \in Janitor, FinishDelete(w) PROVE Kinds'
  <2>1. job[w] \in DeletionJob
    BY <1>14, JobFields DEF FinishDelete, Running, Proc
  <2>2. JobKinds'
    BY <1>14, Becomes DEF FinishDelete, Finish, AnyJob, Proc, Idle
  <2>3. past' \in PastRow
    <3>1. past \in PastRow /\ past.chores + 1 \in Nat /\ job[w].ended \subseteq Nat
      BY <2>1 DEF Kinds, PastRow, DeletionJob
    <3>2. QED BY <1>14, <3>1 DEF FinishDelete, PastRow
  <2>4. QED BY <1>14, <2>2, <2>3 DEF FinishDelete, Kinds, store
<1>15. ASSUME NEW w \in Janitor, Orphan(w) PROVE Kinds'
  <2>1. JobKinds'
    BY <1>15, Becomes DEF Orphan, Finish, AnyJob, Proc, Idle
  <2>2. past' \in PastRow
    <3>1. past \in PastRow /\ past.chores + 1 \in Nat /\ 1..past.started \subseteq Nat
      BY DEF Kinds, PastRow
    <3>2. QED BY <1>15, <3>1 DEF Orphan, PastRow
  <2>3. QED BY <1>15, <2>1, <2>2 DEF Orphan, Kinds
<1>16. ASSUME NEW w \in Janitor, CutJanitor(w) PROVE Kinds'
  <2>1. JobKinds'
    BY <1>16, Becomes DEF CutJanitor, Finish, AnyJob, Proc, Idle
  <2>2. QED BY <1>16, <2>1 DEF CutJanitor, Kinds, thread, store
<1>17. CASE UNCHANGED vars
  BY <1>17 DEF vars, Kinds, JobKinds, Running
<1>18. ASSUME NEW w \in Worker, StartExtract(w, Unread, TRUE) PROVE Kinds'
  <2>1. Unread.from \in Nat /\ Unread.upto \in Nat
    BY LenProperties DEF Unread, Kinds
  <2>2. QED BY <1>3, <1>18, <2>1
<1>19. ASSUME NEW w \in Worker, NEW range \in TurnRange, StartExtract(w, range, FALSE)
       PROVE  Kinds'
  <2>1. range.from \in Nat /\ range.upto \in Nat
    BY RangeAssumption
  <2>2. QED BY <1>3, <1>19, <2>1
<1>20. QED
  BY <1>1, <1>2, <1>4, <1>5, <1>6, <1>7, <1>8, <1>9, <1>10, <1>11, <1>12, <1>13, <1>14,
     <1>15, <1>16, <1>17, <1>18, <1>19 DEF Next

------------------------------------------------------------------------------
(* What a step leaves as it is *)

(* A row keeps what it is about; what was deleted stays deleted, and nothing becomes
   current again. *)
Kept(m) ==
  /\ m \in Ids'
  /\ memories'[m].fact = memories[m].fact /\ memories'[m].run = memories[m].run
  /\ memories'[m].root = memories[m].root
  /\ memories[m].deleted => memories'[m].deleted
  /\ memories'[m].current => memories[m].current /\ (memories'[m].deleted => memories[m].deleted)

(* A row that is new is a version of a current one, or the memory of a run. *)
IsCopy(m) ==
  \E n \in Ids : /\ memories'[m] = memories[n]
                 /\ memories[n].current /\ ~memories[n].deleted /\ UNCHANGED <<job, past>>
                 /\ EditMemory(n) /\ Ids' = Ids \cup {m}
IsStored(m) ==
  \E w \in Worker :
    /\ StoreMemory(w) /\ Ids' = Ids \cup {m}
    /\ memories'[m] = [fact |-> job[w].fact, run |-> job[w].run, root |-> m,
                       current |-> TRUE, deleted |-> FALSE]
    /\ job' = [job EXCEPT ![w] = [job[w] EXCEPT !.op = "reconcile", !.fact = None,
                                                !.pending = {m}]]

(* Whichever step is taken. *)
LEMMA RowsGoOn ==
  ASSUME Kinds, [Next]_vars
  PROVE  /\ \A m \in Ids : Kept(m)
         /\ \A m \in Ids' : m \in Ids \/ IsCopy(m) \/ IsStored(m)
<1> DEFINE Goal == /\ \A m \in Ids : Kept(m)
                   /\ \A m \in Ids' : m \in Ids \/ IsCopy(m) \/ IsStored(m)
<1>1. CASE UNCHANGED memories
  BY <1>1 DEF Kept, Ids
<1>2. ASSUME NEW m \in Ids, EditMemory(m) PROVE Goal
  <2>1. PICK id \in Nat :
           /\ id \notin Ids /\ Ids' = Ids \cup {id}
           /\ \A n \in Ids :
                /\ memories'[n].fact = memories[n].fact /\ memories'[n].run = memories[n].run
                /\ memories'[n].root = memories[n].root
                /\ memories'[n].deleted = memories[n].deleted
                /\ memories'[n].current <=> (memories[n].current /\ n # m)
           /\ memories'[id] = memories[m] /\ memories[m].current /\ ~memories[m].deleted
    BY <1>2, Edits
  <2>2. IsCopy(id)
    BY <1>2, <2>1 DEF IsCopy, EditMemory
  <2>3. QED BY <2>1, <2>2 DEF Kept
<1>3. ASSUME NEW w \in Worker, StoreMemory(w) PROVE Goal
  <2>1. PICK id \in Nat :
           /\ id \notin Ids /\ Ids' = Ids \cup {id}
           /\ \A m \in Ids : memories'[m] = memories[m]
           /\ memories'[id] = [fact |-> job[w].fact, run |-> job[w].run, root |-> id,
                               current |-> TRUE, deleted |-> FALSE]
           /\ job' = [job EXCEPT ![w] = [job[w] EXCEPT !.op = "reconcile", !.fact = None,
                                                       !.pending = {id}]]
    BY <1>3, Stored DEF Proc
  <2>2. IsStored(id)
    BY <1>3, <2>1 DEF IsStored
  <2>3. QED BY <2>1, <2>2 DEF Kept
<1>4. ASSUME NEW ids, memories' = WithDeleted(ids) PROVE Goal
  <2>1. /\ Ids' = Ids
        /\ \A m \in Ids :
             /\ memories'[m].fact = memories[m].fact /\ memories'[m].run = memories[m].run
             /\ memories'[m].root = memories[m].root
             /\ memories'[m].deleted <=> (memories[m].deleted \/ m \in ids)
             /\ memories'[m].current <=> (memories[m].current /\ m \notin ids)
    BY <1>4, Deleted
  <2>2. QED BY <2>1 DEF Kept
<1>5. ASSUME NEW w \in Janitor, CascadeDelete(w) PROVE Goal
  BY <1>4, <1>5 DEF CascadeDelete
<1>6. ASSUME NEW w \in Janitor, CommitRollback(w) PROVE Goal
  BY <1>4, <1>6 DEF CommitRollback
<1>7. ASSUME NEW w \in Worker, NEW range, NEW moves, StartExtract(w, range, moves)
      PROVE  UNCHANGED memories
  BY <1>7 DEF StartExtract, store
<1>8. QED
  BY <1>1, <1>2, <1>3, <1>5, <1>6, <1>7
  DEF Next, vars, AppendMessage, Reconcile, CloseWindow, FailWindow, Advance, Cut,
      StartRollback, StartDelete, FinishDelete, Orphan, CutJanitor, store

(* A run in progress goes on or stops, and at most one begins. *)
GoesOn(w) == Extracting(w) /\ job'[w].run = job[w].run /\ job'[w].moves = job[w].moves
Begins(w) ==
  /\ w \in Worker /\ ~Extracting(w)
  /\ past'.started = past.started + 1 /\ job'[w].run = past.started + 1
  /\ past'.beside = past.beside \cup ({past.started + 1} \X InProgress)
  /\ \A v \in Proc \ {w} : job'[v] = job[v]

(* Whichever step is taken. *)
LEMMA RunsGoOn ==
  ASSUME Kinds, [Next]_vars
  PROVE  /\ \A w \in Proc : Extracting(w)' => GoesOn(w) \/ Begins(w)
         /\ past'.started \in {past.started, past.started + 1}
<1> DEFINE Goal == /\ \A w \in Proc : Extracting(w)' => GoesOn(w) \/ Begins(w)
                   /\ past'.started \in {past.started, past.started + 1}
<1>1. ASSUME NEW w \in Proc, NEW j \in AnyJob, Become(w, j),
             j.op \notin {"reconcile", "store", "advance"},
             past'.started = past.started
      PROVE  Goal
  <2>1. job'[w] = j /\ \A v \in Proc \ {w} : job'[v] = job[v]
    BY <1>1 DEF Become, Kinds, JobKinds
  <2>2. QED BY <1>1, <2>1 DEF Extracting, GoesOn
<1>2. ASSUME NEW w \in Proc, NEW j \in AnyJob, Become(w, j), Extracting(w),
             j.run = job[w].run, j.moves = job[w].moves, past'.started = past.started
      PROVE  Goal
  <2>1. job'[w] = j /\ \A v \in Proc \ {w} : job'[v] = job[v]
    BY <1>2 DEF Become, Kinds, JobKinds
  <2>2. QED BY <1>2, <2>1 DEF Extracting, GoesOn
<1>3. CASE UNCHANGED job /\ UNCHANGED past
  BY <1>3 DEF Extracting, GoesOn
<1>4. ASSUME NEW w \in Worker, NEW range, NEW moves, StartExtract(w, range, moves) PROVE Goal
  <2>1. PICK window : Become(w, [op |-> "reconcile", run |-> past.started + 1,
                                 moves |-> moves, window |-> window, upto |-> range.upto,
                                 fact |-> None, pending |-> {}])
    BY <1>4 DEF StartExtract
  <2>2. /\ job'[w].run = past.started + 1
        /\ \A v \in Proc \ {w} : job'[v] = job[v]
    BY <2>1 DEF Become, Kinds, JobKinds, Proc
  <2>3. past' = [past EXCEPT !.started = past.started + 1,
                             !.beside = @ \cup ({past.started + 1} \X InProgress)]
    BY <1>4 DEF StartExtract
  <2>4. past'.started = past.started + 1
        /\ past'.beside = past.beside \cup ({past.started + 1} \X InProgress)
    BY <2>3 DEF Kinds, PastRow
  <2>5. ~Extracting(w)
    BY <1>4 DEF StartExtract, Running, Extracting
  <2>6. Begins(w)
    BY <2>2, <2>4, <2>5 DEF Begins
  <2>7. QED BY <2>2, <2>4, <2>6 DEF Extracting, GoesOn
<1>5. ASSUME NEW w \in Worker, Reconcile(w) PROVE Goal
  <2>1. PICK f \in job[w].window.left :
          Become(w, IF Known(f)
                    THEN [job[w] EXCEPT !.window.left = @ \ {f}]
                    ELSE [job[w] EXCEPT !.op = "store", !.window.left = @ \ {f}, !.fact = f])
    BY <1>5 DEF Reconcile
  <2>2. job[w] \in ExtractionJob /\ Extracting(w) /\ past' = past
    BY <1>5, JobFields DEF Reconcile, Running, Extracting, Proc
  <2>3. f \in Fact
    BY <2>2 DEF ExtractionJob, Window
  <2>4. LET j == [job[w] EXCEPT !.window.left = @ \ {f}]
        IN  j \in ExtractionJob /\ j.run = job[w].run /\ j.moves = job[w].moves
    BY <2>2 DEF ExtractionJob, Window
  <2>5. LET j == [job[w] EXCEPT !.op = "store", !.window.left = @ \ {f}, !.fact = f]
        IN  j \in ExtractionJob /\ j.run = job[w].run /\ j.moves = job[w].moves
    BY <2>2, <2>3 DEF ExtractionJob, Window
  <2>6. QED BY <1>2, <2>1, <2>2, <2>4, <2>5 DEF AnyJob, Proc
<1>6. ASSUME NEW w \in Worker, StoreMemory(w) PROVE Goal
  <2>1. PICK id \in Nat :
          Become(w, [job[w] EXCEPT !.op = "reconcile", !.fact = None, !.pending = {id}])
    BY <1>6, Stored DEF Proc, Become
  <2>2. job[w] \in ExtractionJob /\ Extracting(w) /\ past' = past
    BY <1>6, JobFields DEF StoreMemory, Running, Extracting, Proc
  <2>3. LET j == [job[w] EXCEPT !.op = "reconcile", !.fact = None, !.pending = {id}]
        IN  j \in ExtractionJob /\ j.run = job[w].run /\ j.moves = job[w].moves
    BY <2>2 DEF ExtractionJob
  <2>4. QED BY <1>2, <2>1, <2>2, <2>3 DEF AnyJob, Proc
<1>7. ASSUME NEW w \in Worker, CloseWindow(w) PROVE Goal
  <2>1. job[w] \in ExtractionJob /\ Extracting(w) /\ past'.started = past.started
    BY <1>7, JobFields DEF CloseWindow, Running, Extracting, Proc, Kinds, PastRow
  <2>2. LET j == [job[w] EXCEPT !.op = "advance", !.pending = {}]
        IN  j \in ExtractionJob /\ j.run = job[w].run /\ j.moves = job[w].moves
    BY <2>1 DEF ExtractionJob
  <2>3. QED BY <1>2, <1>7, <2>1, <2>2 DEF AnyJob, Proc, CloseWindow
<1>8. ASSUME NEW w \in Worker, FailWindow(w) PROVE Goal
  <2>1. job[w] \in ExtractionJob /\ Extracting(w) /\ past'.started = past.started
    BY <1>8, JobFields DEF FailWindow, Extracting, Proc
  <2>2. LET j == [job[w] EXCEPT !.op = "advance", !.window.left = {}, !.fact = None,
                                !.pending = {}]
        IN  j \in ExtractionJob /\ j.run = job[w].run /\ j.moves = job[w].moves
    BY <2>1 DEF ExtractionJob, Window
  <2>3. QED BY <1>2, <1>8, <2>1, <2>2 DEF AnyJob, Proc, FailWindow
<1>9. ASSUME NEW w \in Proc, Finish(w), past'.started = past.started PROVE Goal
  BY <1>1, <1>9 DEF Finish, Idle, AnyJob
<1>10. ASSUME NEW w \in Worker, Advance(w) PROVE Goal
  <2>1. job[w] \in ExtractionJob /\ Extracting(w) /\ past'.started = past.started
    BY <1>10, JobFields DEF Advance, Running, Extracting, Proc
  <2>2. ASSUME NEW window \in Answered(job[w].window.to + 1, job[w].upto),
               Become(w, [job[w] EXCEPT !.op = "reconcile", !.window = window])
        PROVE  Goal
    <3>1. window \in Window
      BY <2>1 DEF Answered, Windows, Window, ExtractionJob
    <3>2. LET j == [job[w] EXCEPT !.op = "reconcile", !.window = window]
          IN  j \in ExtractionJob /\ j.run = job[w].run /\ j.moves = job[w].moves
      BY <2>1, <3>1 DEF ExtractionJob
    <3>3. QED BY <1>2, <2>1, <2>2, <3>2 DEF AnyJob, Proc
  <2>3. QED BY <1>9, <1>10, <2>1, <2>2 DEF Advance, Proc
<1>11. ASSUME NEW w \in Worker, Cut(w) PROVE Goal
  BY <1>9, <1>11 DEF Cut, Proc, Kinds, PastRow
<1>12. ASSUME NEW w \in Janitor, NEW run \in 1..past.started, StartRollback(w, run) PROVE Goal
  <2>1. [op |-> "rollback", run |-> run, doomed |-> Undoable(run), ended |-> run \in EndedRuns]
          \in AnyJob
    <3>1. Undoable(run) \in SUBSET Nat
      BY DEF Undoable, Kinds
    <3>2. run \in Nat
      BY DEF Kinds, PastRow
    <3>3. (run \in EndedRuns) \in BOOLEAN
      OBVIOUS
    <3>4. QED BY <3>1, <3>2, <3>3 DEF RollbackJob, AnyJob
  <2>2. QED BY <1>1, <1>12, <2>1 DEF StartRollback, Proc
<1>13. ASSUME NEW w \in Janitor, CommitRollback(w) PROVE Goal
  BY <1>9, <1>13 DEF CommitRollback, Proc, Kinds, PastRow
<1>14. ASSUME NEW w \in Janitor, StartDelete(w) PROVE Goal
  <2>1. [op |-> "delete", doomed |-> sources, ended |-> EndedRuns] \in AnyJob
    BY DEF DeletionJob, AnyJob, Kinds, EndedRuns, PastRow
  <2>2. QED BY <1>1, <1>14, <2>1 DEF StartDelete, Proc
<1>15. ASSUME NEW w \in Janitor, CascadeDelete(w) PROVE Goal
  <2>1. PICK m : Become(w, [job[w] EXCEPT !.doomed = @ \ {m}])
    BY <1>15 DEF CascadeDelete
  <2>2. job[w] \in DeletionJob /\ past' = past
    BY <1>15, JobFields DEF CascadeDelete, Running, Proc
  <2>3. LET j == [job[w] EXCEPT !.doomed = @ \ {m}]
        IN  j \in DeletionJob /\ j.op = "delete"
    BY <2>2 DEF DeletionJob
  <2>4. QED BY <1>1, <2>1, <2>2, <2>3 DEF AnyJob, Proc
<1>16. ASSUME NEW w \in Janitor, FinishDelete(w) \/ Orphan(w) \/ CutJanitor(w) PROVE Goal
  BY <1>9, <1>16 DEF FinishDelete, Orphan, CutJanitor, Proc, Kinds, PastRow
<1>17. QED
  BY <1>3, <1>4, <1>5, <1>6, <1>7, <1>8, <1>10, <1>11, <1>12, <1>13, <1>14, <1>15, <1>16
  DEF Next, vars, AppendMessage, EditMemory

------------------------------------------------------------------------------
(* The shape of the state *)

(* A run that has ended stays so. *)
LEMMA DoneStays ==
  ASSUME Kinds, [Next]_vars, NEW r, Done(r)
  PROVE  Done(r)'
<1>1. past.started \in Nat /\ past'.started \in {past.started, past.started + 1}
  BY RunsGoOn DEF Kinds, PastRow
<1>2. ASSUME NEW w \in Worker, Extracting(w)' PROVE job'[w].run # r
  <2>1. CASE GoesOn(w)
    BY <2>1 DEF GoesOn, Done
  <2>2. CASE Begins(w)
    BY <2>2, <1>1 DEF Begins, Done
  <2>3. QED BY <1>2, <2>1, <2>2, RunsGoOn DEF Proc
<1>3. QED BY <1>1, <1>2 DEF Done

(* What a run has stored stays its memory. *)
LEMMA RootsStay ==
  ASSUME Kinds, [Next]_vars, NEW m \in Roots
  PROVE  m \in Roots' /\ memories'[m].run = memories[m].run
BY RowsGoOn DEF Roots, Kept

(* Who does nothing goes on to hold what is of its run. *)
LEMMA JobStays ==
  ASSUME Kinds, [Next]_vars, NEW w \in Proc, JobOK(w), job'[w] = job[w]
  PROVE  JobOK(w)'
<1>1. past.started \in Nat /\ past'.started \in {past.started, past.started + 1}
  BY RunsGoOn DEF Kinds, PastRow
<1>2. Extracting(w)' => /\ w \in Worker /\ job'[w].run \in 1..past'.started
                        /\ \A m \in job'[w].pending :
                             m \in Roots' /\ memories'[m].run = job'[w].run
  BY <1>1, RootsStay DEF JobOK, Extracting
<1>3. Running(w, "rollback")' =>
        /\ \A m \in job'[w].doomed : m \in Roots' /\ memories'[m].run = job'[w].run
        /\ job'[w].ended => Done(job[w].run)'
  BY RootsStay, DoneStays DEF JobOK, Running
<1>4. Running(w, "delete")' => /\ job'[w].doomed \subseteq Roots'
                               /\ \A r \in job'[w].ended : Done(r)'
  BY RootsStay, DoneStays DEF JobOK, Running
<1>5. QED BY <1>2, <1>3, <1>4 DEF JobOK, Done

(* The rows stay versions of memories that runs have stored. *)
LEMMA RowsStayOK ==
  ASSUME Kinds, Shape, [Next]_vars
  PROVE  RowsOK'
<1>1. past.started \in Nat /\ past'.started \in {past.started, past.started + 1}
  BY RunsGoOn DEF Kinds, PastRow
<1>2. \A m \in Ids' : m \in Ids \/ IsCopy(m) \/ IsStored(m)
  BY RowsGoOn
<1>3. ASSUME NEW m \in Ids PROVE RowOK(m)'
  <2>1. RowOK(m) /\ Kept(m) /\ Kept(memories[m].root)
    BY RowsGoOn DEF Shape, RowsOK, RowOK, Roots
  <2>2. memories[m].root \in Roots' /\ memories'[memories[m].root].run = memories[m].run
    BY <2>1, RootsStay DEF RowOK
  <2>3. QED BY <1>1, <2>1, <2>2 DEF RowOK, Kept
<1>4. ASSUME NEW m \in Ids', NEW n \in Ids, memories'[m] = memories[n], memories[n].current,
             ~memories[n].deleted
      PROVE  RowOK(m)'
  <2>1. RowOK(n)' /\ Kept(n)
    BY <1>3, RowsGoOn
  <2>2. memories'[n].root = memories'[m].root /\ memories'[n].run = memories'[m].run
    BY <1>4, <2>1 DEF Kept
  <2>3. QED BY <1>4, <2>1, <2>2 DEF RowOK
<1>5. ASSUME NEW m \in Ids', IsStored(m) PROVE RowOK(m)'
  <2>1. PICK w \in Worker :
          /\ StoreMemory(w)
          /\ memories'[m] = [fact |-> job[w].fact, run |-> job[w].run, root |-> m,
                             current |-> TRUE, deleted |-> FALSE]
    BY <1>5 DEF IsStored
  <2>2. job[w].run \in 1..past.started
    BY <2>1 DEF Shape, JobsOK, JobOK, StoreMemory, Running, Extracting, Proc
  <2>3. m \in Roots'
    BY <1>5, <2>1 DEF Roots
  <2>4. QED BY <1>1, <2>1, <2>2, <2>3 DEF RowOK
<1>6. ASSUME NEW m \in Ids' PROVE RowOK(m)'
  BY <1>2, <1>3, <1>4, <1>5 DEF IsCopy
<1>7. QED BY <1>6 DEF RowsOK

(* No two workers are at the same run. *)
LEMMA RunsStayOwn ==
  ASSUME Kinds, Shape, [Next]_vars
  PROVE  RunsAreOwn'
<1>1. \A w \in Proc : Extracting(w) => w \in Worker /\ job[w].run \in 1..past.started
  BY DEF Shape, JobsOK, JobOK
<1>2. past.started \in Nat
  BY DEF Kinds, PastRow
<1>3. ASSUME NEW v \in Proc, NEW w \in Proc, Extracting(v)', Extracting(w)', v # w
      PROVE  job'[v].run # job'[w].run
  <2>1. GoesOn(v) \/ Begins(v)
    BY <1>3, RunsGoOn
  <2>2. GoesOn(w) \/ Begins(w)
    BY <1>3, RunsGoOn
  <2>3. CASE GoesOn(v) /\ GoesOn(w)
    BY <1>3, <2>3 DEF GoesOn, Shape, RunsAreOwn
  <2>4. CASE Begins(v) /\ GoesOn(w)
    BY <1>1, <1>2, <2>4 DEF GoesOn, Begins
  <2>5. CASE GoesOn(v) /\ Begins(w)
    BY <1>1, <1>2, <2>5 DEF GoesOn, Begins
  <2>6. CASE Begins(v) /\ Begins(w)
    BY <1>3, <2>6 DEF Begins, Extracting
  <2>7. QED BY <2>1, <2>2, <2>3, <2>4, <2>5, <2>6
<1>4. QED BY <1>3 DEF RunsAreOwn

(* The rows of memories that a step adds are those that wait for the commit of a run. *)
LEMMA RowsComeFromRuns ==
  ASSUME Kinds, Shape, [Next]_vars
  PROVE  /\ \A m \in sources' \cup decided' :
              m \in sources \cup decided \/ \E w \in Worker : Extracting(w) /\ m \in job[w].pending
<1> DEFINE Goal == \A m \in sources' \cup decided' :
             m \in sources \cup decided \/ \E w \in Worker : Extracting(w) /\ m \in job[w].pending
<1>1. CASE sources' \subseteq sources /\ UNCHANGED decided
  BY <1>1
<1>2. ASSUME NEW w \in Worker, Extracting(w), sources' = sources \cup job[w].pending,
             decided' = decided \cup job[w].pending
      PROVE  Goal
  BY <1>2
<1>3. ASSUME NEW w \in Worker, StoreMemory(w) PROVE Goal
  BY <1>2, <1>3 DEF StoreMemory, Running, Extracting
<1>4. ASSUME NEW w \in Worker, CloseWindow(w) PROVE Goal
  BY <1>2, <1>4 DEF CloseWindow, Running, Extracting
<1>5. ASSUME NEW w \in Worker, FailWindow(w) PROVE Goal
  BY <1>2, <1>5 DEF FailWindow, Flushed, Extracting
<1>6. ASSUME NEW w \in Worker, NEW range, NEW moves, StartExtract(w, range, moves) PROVE Goal
  BY <1>1, <1>6 DEF StartExtract, store
<1>7. QED
  BY <1>1, <1>3, <1>4, <1>5, <1>6
  DEF Next, vars, store, AppendMessage, EditMemory, Reconcile, Advance, Cut, StartRollback,
      CommitRollback, StartDelete, CascadeDelete, FinishDelete, Orphan, CutJanitor

(* The runs that a rollback or a delete found ended. *)
LEMMA UndoneRunsAreDone ==
  ASSUME Kinds, Shape, [Next]_vars
  PROVE  \A r \in past'.undone \cup past'.swept : Done(r)
<1> DEFINE Goal == \A r \in past'.undone \cup past'.swept : Done(r)
<1>1. CASE past'.undone = past.undone /\ past'.swept = past.swept
  BY <1>1 DEF Shape
<1>2. ASSUME NEW w \in Janitor, CommitRollback(w) PROVE Goal
  <2>1. past'.swept = past.swept
        /\ past'.undone = past.undone \cup (IF job[w].ended THEN {job[w].run} ELSE {})
    BY <1>2 DEF CommitRollback, Kinds, PastRow
  <2>2. job[w].ended => Done(job[w].run)
    BY <1>2 DEF CommitRollback, Shape, JobsOK, JobOK, Proc
  <2>3. \A r \in past'.undone \cup past'.swept :
          r \in past.undone \cup past.swept \/ (job[w].ended /\ r = job[w].run)
    BY <2>1
  <2>4. QED BY <2>2, <2>3 DEF Shape
<1>3. ASSUME NEW w \in Janitor, FinishDelete(w) PROVE Goal
  <2>1. past'.undone = past.undone /\ past'.swept = past.swept \cup job[w].ended
    BY <1>3 DEF FinishDelete, Kinds, PastRow
  <2>2. \A r \in job[w].ended : Done(r)
    BY <1>3 DEF FinishDelete, Shape, JobsOK, JobOK, Proc
  <2>3. QED BY <2>1, <2>2 DEF Shape
<1>4. ASSUME NEW w \in Worker, NEW range, NEW moves, StartExtract(w, range, moves) PROVE Goal
  BY <1>1, <1>4 DEF StartExtract, Kinds, PastRow
<1>5. ASSUME NEW w \in Worker, CloseWindow(w) \/ Cut(w) PROVE Goal
  BY <1>1, <1>5 DEF CloseWindow, Cut, Kinds, PastRow
<1>6. ASSUME NEW w \in Janitor, Orphan(w) PROVE Goal
  BY <1>1, <1>6 DEF Orphan, Kinds, PastRow
<1>7. QED
  BY <1>1, <1>2, <1>3, <1>4, <1>5, <1>6
  DEF Next, vars, AppendMessage, EditMemory, Reconcile, StoreMemory, FailWindow, Advance,
      StartRollback, StartDelete, CascadeDelete, CutJanitor

(* What a rollback that has just begun holds. *)
LEMMA RollbackFields ==
  ASSUME NEW j, NEW run, NEW doomed, NEW runs,
         j = [op |-> "rollback", run |-> run, doomed |-> doomed, ended |-> run \in runs]
  PROVE  /\ j.op = "rollback" /\ j.run = run /\ j.doomed = doomed
         /\ j.ended => run \in runs
<1>1. j.op = "rollback" /\ j.run = run /\ j.doomed = doomed
  OBVIOUS
<1>2. j.ended => run \in runs
  OBVIOUS
<1>3. QED BY <1>1, <1>2

(* The jobs hold what is of their run. *)
LEMMA JobsStayOK ==
  ASSUME Kinds, Shape, [Next]_vars
  PROVE  JobsOK'
<1> USE Kinds, Shape, [Next]_vars
<1>1. \A w \in Proc : JobOK(w)
  BY DEF Shape, JobsOK
<1>2. past.started \in Nat /\ past'.started \in {past.started, past.started + 1}
  BY RunsGoOn DEF Kinds, PastRow
<1>3. ASSUME NEW w \in Proc, NEW j \in AnyJob, Become(w, j), JobOK(w)' PROVE JobsOK'
  <2>1. \A v \in Proc \ {w} : job'[v] = job[v]
    BY <1>3 DEF Become, Kinds, JobKinds
  <2>2. QED BY <1>1, <1>3, <2>1, JobStays DEF JobsOK
<1>4. ASSUME NEW w \in Proc, Finish(w) PROVE JobsOK'
  <2>1. job'[w] = Idle
    BY <1>4 DEF Finish, Become, Kinds, JobKinds
  <2>2. JobOK(w)'
    BY <2>1 DEF JobOK, Extracting, Running, Idle
  <2>3. QED BY <1>3, <1>4, <2>2 DEF Finish, AnyJob
<1>5. CASE UNCHANGED job
  BY <1>1, <1>5, JobStays DEF JobsOK
<1>6. ASSUME NEW w \in Worker, NEW j \in ExtractionJob, Become(w, j), Extracting(w),
             j.run = job[w].run, j.pending \subseteq job[w].pending
      PROVE  JobsOK'
  <2>1. job'[w] = j
    BY <1>6 DEF Become, Kinds, JobKinds, Proc
  <2>2. job[w].run \in 1..past.started
        /\ \A m \in job[w].pending : m \in Roots /\ memories[m].run = job[w].run
    BY <1>1, <1>6 DEF JobOK, Proc
  <2>3. \A m \in job'[w].pending : m \in Roots' /\ memories'[m].run = job'[w].run
    BY <1>6, <2>1, <2>2, RootsStay
  <2>4. job'[w].op \in {"reconcile", "store", "advance"}
    BY <2>1 DEF ExtractionJob
  <2>5. JobOK(w)'
    BY <1>2, <1>6, <2>1, <2>2, <2>3, <2>4 DEF JobOK, Running
  <2>6. QED BY <1>3, <1>6, <2>5 DEF AnyJob, Proc
<1>7. ASSUME NEW w \in Worker, NEW range, NEW moves, StartExtract(w, range, moves) PROVE JobsOK'
  <2>1. PICK window : Become(w, [op |-> "reconcile", run |-> past.started + 1,
                                 moves |-> moves, window |-> window, upto |-> range.upto,
                                 fact |-> None, pending |-> {}])
    BY <1>7 DEF StartExtract
  <2>2. /\ job'[w].op = "reconcile" /\ job'[w].run = past.started + 1 /\ job'[w].pending = {}
        /\ \A v \in Proc \ {w} : job'[v] = job[v]
    BY <2>1 DEF Become, Kinds, JobKinds, Proc
  <2>3. past'.started = past.started + 1
    BY <1>7 DEF StartExtract, Kinds, PastRow
  <2>4. JobOK(w)'
    BY <1>2, <2>2, <2>3 DEF JobOK, Running
  <2>5. QED BY <1>1, <2>2, <2>4, JobStays DEF JobsOK
<1>8. ASSUME NEW w \in Worker, Reconcile(w) PROVE JobsOK'
  <2>1. PICK f \in job[w].window.left :
          Become(w, IF Known(f)
                    THEN [job[w] EXCEPT !.window.left = @ \ {f}]
                    ELSE [job[w] EXCEPT !.op = "store", !.window.left = @ \ {f}, !.fact = f])
    BY <1>8 DEF Reconcile
  <2>2. job[w] \in ExtractionJob /\ Extracting(w)
    BY <1>8, JobFields DEF Reconcile, Running, Extracting, Proc
  <2>3. f \in Fact
    BY <2>2 DEF ExtractionJob, Window
  <2>4. LET j == [job[w] EXCEPT !.window.left = @ \ {f}]
        IN  j \in ExtractionJob /\ j.run = job[w].run /\ j.pending = job[w].pending
    BY <2>2 DEF ExtractionJob, Window
  <2>5. LET j == [job[w] EXCEPT !.op = "store", !.window.left = @ \ {f}, !.fact = f]
        IN  j \in ExtractionJob /\ j.run = job[w].run /\ j.pending = job[w].pending
    BY <2>2, <2>3 DEF ExtractionJob, Window
  <2>6. QED BY <1>6, <2>1, <2>2, <2>4, <2>5
<1>9. ASSUME NEW w \in Worker, StoreMemory(w) PROVE JobsOK'
  <2>1. PICK id \in Nat :
          /\ Ids' = Ids \cup {id}
          /\ memories'[id] = [fact |-> job[w].fact, run |-> job[w].run, root |-> id,
                              current |-> TRUE, deleted |-> FALSE]
          /\ job' = [job EXCEPT ![w] = [job[w] EXCEPT !.op = "reconcile", !.fact = None,
                                                      !.pending = {id}]]
    BY <1>9, Stored DEF Proc
  <2>2. job[w] \in ExtractionJob /\ Extracting(w)
    BY <1>9, JobFields DEF StoreMemory, Running, Extracting, Proc
  <2>3. /\ job'[w].op = "reconcile" /\ job'[w].run = job[w].run /\ job'[w].pending = {id}
        /\ \A v \in Proc \ {w} : job'[v] = job[v]
    BY <2>1, <2>2 DEF Kinds, JobKinds, Proc, ExtractionJob
  <2>4. job[w].run \in 1..past.started
    BY <1>1, <2>2 DEF JobOK, Proc
  <2>5. id \in Roots' /\ memories'[id].run = job'[w].run
    BY <2>1, <2>3 DEF Roots
  <2>6. JobOK(w)'
    BY <1>2, <2>3, <2>4, <2>5 DEF JobOK, Running
  <2>7. QED BY <1>1, <2>3, <2>6, JobStays DEF JobsOK
<1>10. ASSUME NEW w \in Worker, CloseWindow(w) PROVE JobsOK'
  <2>1. job[w] \in ExtractionJob /\ Extracting(w)
    BY <1>10, JobFields DEF CloseWindow, Running, Extracting, Proc
  <2>2. LET j == [job[w] EXCEPT !.op = "advance", !.pending = {}]
        IN  j \in ExtractionJob /\ j.run = job[w].run /\ j.pending = {}
    BY <2>1 DEF ExtractionJob
  <2>3. QED BY <1>6, <1>10, <2>1, <2>2 DEF CloseWindow
<1>11. ASSUME NEW w \in Worker, FailWindow(w) PROVE JobsOK'
  <2>1. job[w] \in ExtractionJob /\ Extracting(w)
    BY <1>11, JobFields DEF FailWindow, Extracting, Proc
  <2>2. LET j == [job[w] EXCEPT !.op = "advance", !.window.left = {}, !.fact = None,
                                !.pending = {}]
        IN  j \in ExtractionJob /\ j.run = job[w].run /\ j.pending = {}
    BY <2>1 DEF ExtractionJob, Window
  <2>3. QED BY <1>6, <1>11, <2>1, <2>2 DEF FailWindow
<1>12. ASSUME NEW w \in Worker, Advance(w) PROVE JobsOK'
  <2>1. job[w] \in ExtractionJob /\ Extracting(w)
    BY <1>12, JobFields DEF Advance, Running, Extracting, Proc
  <2>2. ASSUME NEW window \in Answered(job[w].window.to + 1, job[w].upto),
               Become(w, [job[w] EXCEPT !.op = "reconcile", !.window = window])
        PROVE  JobsOK'
    <3>1. window \in Window
      BY <2>1 DEF Answered, Windows, Window, ExtractionJob
    <3>2. LET j == [job[w] EXCEPT !.op = "reconcile", !.window = window]
          IN  j \in ExtractionJob /\ j.run = job[w].run /\ j.pending = job[w].pending
      BY <2>1, <3>1 DEF ExtractionJob
    <3>3. QED BY <1>6, <2>1, <2>2, <3>2
  <2>3. QED BY <1>4, <1>12, <2>2 DEF Advance, Proc
<1>13. ASSUME NEW w \in Worker, Cut(w) PROVE JobsOK'
  BY <1>4, <1>13 DEF Cut, Proc
<1>14. ASSUME NEW w \in Janitor, NEW run \in 1..past.started, StartRollback(w, run)
       PROVE  JobsOK'
  <2>1. /\ job'[w] = [op |-> "rollback", run |-> run, doomed |-> Undoable(run),
                      ended |-> run \in EndedRuns]
        /\ \A v \in Proc \ {w} : job'[v] = job[v]
    BY <1>14 DEF StartRollback, Become, Kinds, JobKinds, Proc
  <2>2. \A m \in Undoable(run) : m \in Roots /\ memories[m].run = run
    BY DEF Undoable, Shape
  <2>3. run \in EndedRuns => Done(run)
    BY DEF EndedRuns, InProgress, Done
  <2>4. /\ job'[w].op = "rollback" /\ job'[w].run = run /\ job'[w].doomed = Undoable(run)
        /\ job'[w].ended => run \in EndedRuns
    BY <2>1, RollbackFields
  <2>5. \A m \in job'[w].doomed : m \in Roots' /\ memories'[m].run = job'[w].run
    BY <2>2, <2>4, RootsStay
  <2>6. job'[w].ended => Done(run)'
    BY <2>3, <2>4, DoneStays
  <2>7. job'[w].ended => Done(job[w].run)'
    BY <2>4, <2>6 DEF Done
  <2>8. JobOK(w)'
    BY <2>4, <2>5, <2>7 DEF JobOK, Running, Extracting
  <2>9. QED BY <1>1, <2>1, <2>8, JobStays DEF JobsOK
<1>15. ASSUME NEW w \in Janitor, CommitRollback(w) PROVE JobsOK'
  BY <1>4, <1>15 DEF CommitRollback, Proc
<1>16. ASSUME NEW w \in Janitor, NEW doomed, NEW ended, doomed \subseteq Roots,
              \A r \in ended : Done(r), job'[w].op = "delete", job'[w].doomed = doomed,
              job'[w].ended = ended, \A v \in Proc \ {w} : job'[v] = job[v]
       PROVE  JobsOK'
  <2>1. job'[w].doomed \subseteq Roots'
    BY <1>16, RootsStay
  <2>2. \A r \in job'[w].ended : Done(r)'
    BY <1>16, DoneStays
  <2>3. JobOK(w)'
    BY <1>16, <2>1, <2>2 DEF JobOK, Running, Extracting
  <2>4. QED BY <1>1, <1>16, <2>3, JobStays DEF JobsOK
<1>17. ASSUME NEW w \in Janitor, StartDelete(w) PROVE JobsOK'
  <2>1. /\ job'[w].op = "delete" /\ job'[w].doomed = sources /\ job'[w].ended = EndedRuns
        /\ \A v \in Proc \ {w} : job'[v] = job[v]
    BY <1>17 DEF StartDelete, Become, Kinds, JobKinds, Proc
  <2>2. \A r \in EndedRuns : Done(r)
    BY DEF EndedRuns, InProgress, Done
  <2>3. QED BY <1>16, <2>1, <2>2 DEF Shape
<1>18. ASSUME NEW w \in Janitor, CascadeDelete(w) PROVE JobsOK'
  <2>1. PICK m : Become(w, [job[w] EXCEPT !.doomed = @ \ {m}])
    BY <1>18 DEF CascadeDelete
  <2>2. job[w] \in DeletionJob
    BY <1>18, JobFields DEF CascadeDelete, Running, Proc
  <2>3. /\ job'[w].op = "delete" /\ job'[w].doomed = job[w].doomed \ {m}
        /\ job'[w].ended = job[w].ended
        /\ \A v \in Proc \ {w} : job'[v] = job[v]
    BY <2>1, <2>2 DEF Become, Kinds, JobKinds, Proc, DeletionJob
  <2>4. job[w].doomed \subseteq Roots /\ \A r \in job[w].ended : Done(r)
    BY <1>1, <1>18 DEF JobOK, CascadeDelete, Proc
  <2>5. job[w].doomed \ {m} \subseteq Roots
    BY <2>4
  <2>6. QED BY <1>16, <2>3, <2>4, <2>5
<1>19. ASSUME NEW w \in Janitor, FinishDelete(w) \/ Orphan(w) \/ CutJanitor(w) PROVE JobsOK'
  BY <1>4, <1>19 DEF FinishDelete, Orphan, CutJanitor, Proc
<1>20. QED
  BY <1>5, <1>7, <1>8, <1>9, <1>10, <1>11, <1>12, <1>13, <1>14, <1>15, <1>17, <1>18, <1>19
  DEF Next, vars, AppendMessage, EditMemory

(* The shape is kept. *)
LEMMA ShapeStep ==
  ASSUME Kinds, Shape, [Next]_vars
  PROVE  Shape'
<1>1. RowsOK' /\ JobsOK' /\ RunsAreOwn'
  BY RowsStayOK, JobsStayOK, RunsStayOwn
<1>2. sources' \subseteq Roots' /\ decided' \subseteq Roots'
  <2>1. \A w \in Worker : Extracting(w) => job[w].pending \subseteq Roots
    BY DEF Shape, JobsOK, JobOK, Proc
  <2>2. sources' \cup decided' \subseteq Roots
    BY <2>1, RowsComeFromRuns DEF Shape
  <2>3. QED BY <2>2, RootsStay
<1>3. \A r \in past'.undone \cup past'.swept : Done(r)'
  BY UndoneRunsAreDone, DoneStays
<1>4. QED BY <1>1, <1>2, <1>3 DEF Shape, Done

(* The invariant on which the others rest. *)
LEMMA ShapeHolds == Spec => [](Kinds /\ Shape)
<1>1. Init => Kinds
  <2> SUFFICES ASSUME Init PROVE Kinds
    OBVIOUS
  <2>1. <<>> \in Seq(Fact) /\ <<>> \in Seq(MemoryRow)
    OBVIOUS
  <2>2. past \in PastRow
    BY DEF Init, PastRow
  <2>3. JobKinds
    BY DEF Init, JobKinds, Proc, AnyJob, Running, Idle
  <2>4. QED BY <2>1, <2>2, <2>3 DEF Init, Kinds
<1>2. Init => Shape
  <2> SUFFICES ASSUME Init PROVE Shape
    OBVIOUS
  <2>1. Ids = {}
    BY DEF Init, Ids
  <2>2. \A w \in Proc : JobOK(w) /\ ~Extracting(w)
    BY DEF Init, JobOK, Extracting, Running, Proc, Idle
  <2>3. QED BY <2>1, <2>2 DEF Init, Shape, RowsOK, JobsOK, RunsAreOwn
<1>3. Kinds /\ Shape /\ [Next]_vars => Kinds' /\ Shape'
  BY KindsStep, ShapeStep
<1>4. QED BY <1>1, <1>2, <1>3, PTL DEF Spec

(* What the past knows is never forgotten. *)
LEMMA PastGrows ==
  ASSUME Kinds, [Next]_vars
  PROVE  /\ past.processed \subseteq past'.processed /\ failures \subseteq failures'
         /\ past.loose \subseteq past'.loose /\ past.beside \subseteq past'.beside
         /\ past.undone \subseteq past'.undone /\ past.swept \subseteq past'.swept
<1> DEFINE Goal ==
      /\ past.processed \subseteq past'.processed /\ failures \subseteq failures'
      /\ past.loose \subseteq past'.loose /\ past.beside \subseteq past'.beside
      /\ past.undone \subseteq past'.undone /\ past.swept \subseteq past'.swept
<1>1. CASE past' = past /\ failures \subseteq failures'
  BY <1>1
<1>2. ASSUME NEW w \in Worker, NEW range, NEW moves, StartExtract(w, range, moves) PROVE Goal
  BY <1>2 DEF StartExtract, Kinds, PastRow
<1>3. ASSUME NEW w \in Worker, CloseWindow(w) \/ Cut(w) PROVE Goal
  BY <1>3 DEF CloseWindow, Cut, Kinds, PastRow
<1>4. ASSUME NEW w \in Worker, FailWindow(w) PROVE Goal
  BY <1>1, <1>4 DEF FailWindow
<1>5. ASSUME NEW w \in Janitor, CommitRollback(w) PROVE Goal
  <2>1. CASE job[w].ended
    BY <1>5, <2>1 DEF CommitRollback, Kinds, PastRow
  <2>2. CASE ~job[w].ended
    BY <1>5, <2>2 DEF CommitRollback, Kinds, PastRow
  <2>3. QED BY <2>1, <2>2
<1>6. ASSUME NEW w \in Janitor, FinishDelete(w) \/ Orphan(w) PROVE Goal
  BY <1>6 DEF FinishDelete, Orphan, Kinds, PastRow
<1>7. QED
  BY <1>1, <1>2, <1>3, <1>4, <1>5, <1>6
  DEF Next, vars, AppendMessage, EditMemory, Reconcile, StoreMemory, Advance, StartRollback,
      StartDelete, CascadeDelete, CutJanitor

------------------------------------------------------------------------------
(* The cursor *)

(* A message that somebody can ask for again. *)
Seen(i) == i \in past.processed \cup failures

(* A run that moves the cursor has come past every message before its window, and past the
   window when it is about to move. *)
CursorOK(w) ==
  Extracting(w) /\ job[w].moves =>
    /\ \A i \in Nat : 1 <= i /\ i < job[w].window.from => Seen(i)
    /\ Running(w, "advance") => \A i \in Covered(job[w]) : Seen(i)

CursorInv == NothingIsSkipped /\ \A w \in Proc : CursorOK(w)

(* A message that has been come past stays so. *)
LEMMA SeenStays ==
  ASSUME Kinds, [Next]_vars, NEW i, Seen(i)
  PROVE  Seen(i)'
BY PastGrows DEF Seen

(* Every step keeps the cursor before what is neither processed nor written down. *)
LEMMA CursorStep ==
  ASSUME Kinds, Shape, CursorInv, [Next]_vars
  PROVE  CursorInv'
<1> USE Kinds, Shape, [Next]_vars
<1>1. \A w \in Proc : CursorOK(w)
  BY DEF CursorInv
<1>2. CASE UNCHANGED cursor /\ \A w \in Worker : ~Advance(w)
  <2>1. NothingIsSkipped'
    BY <1>2, SeenStays DEF CursorInv, NothingIsSkipped, Seen
  <2>2. ASSUME NEW w \in Proc, job'[w] = job[w] PROVE CursorOK(w)'
    BY <1>1, <2>2, SeenStays DEF CursorOK, Extracting, Running, Covered
  <2>3. ASSUME NEW w \in Proc, CursorOK(w)', \A v \in Proc \ {w} : job'[v] = job[v]
        PROVE  CursorInv'
    BY <2>1, <2>2, <2>3 DEF CursorInv
  <2>4. ASSUME NEW w \in Proc, NEW j, Become(w, j), j.op \notin {"reconcile", "store", "advance"}
        PROVE  CursorInv'
    <3>1. job'[w] = j /\ \A v \in Proc \ {w} : job'[v] = job[v]
      BY <2>4 DEF Become, Kinds, JobKinds
    <3>2. CursorOK(w)'
      BY <2>4, <3>1 DEF CursorOK, Extracting
    <3>3. QED BY <2>3, <3>1, <3>2
  <2>5. ASSUME NEW w \in Proc, NEW j, Become(w, j), Extracting(w), j.op # "advance",
               j.moves = job[w].moves, j.window.from = job[w].window.from
        PROVE  CursorInv'
    <3>1. job'[w] = j /\ \A v \in Proc \ {w} : job'[v] = job[v]
      BY <2>5 DEF Become, Kinds, JobKinds
    <3>2. CursorOK(w)'
      BY <1>1, <2>5, <3>1, SeenStays DEF CursorOK, Extracting, Running
    <3>3. QED BY <2>3, <3>1, <3>2
  <2>6. ASSUME NEW w \in Worker, NEW j, Become(w, j), Extracting(w), j.op = "advance",
               j.moves = job[w].moves, j.window.from = job[w].window.from,
               j.window.to = job[w].window.to, \A i \in Covered(job[w]) : Seen(i)'
        PROVE  CursorInv'
    <3>1. job'[w] = j /\ \A v \in Proc \ {w} : job'[v] = job[v]
      BY <2>6 DEF Become, Kinds, JobKinds, Proc
    <3>2. CursorOK(w)'
      BY <1>1, <2>6, <3>1, SeenStays DEF CursorOK, Extracting, Running, Covered, Proc
    <3>3. QED BY <2>3, <3>1, <3>2 DEF Proc
  <2>7. ASSUME NEW w \in Worker, NEW range, NEW moves, StartExtract(w, range, moves),
               moves => range.from = cursor + 1
        PROVE  CursorInv'
    <3>1. PICK window \in Answered(range.from, range.upto) :
            Become(w, [op |-> "reconcile", run |-> past.started + 1, moves |-> moves,
                       window |-> window, upto |-> range.upto, fact |-> None,
                       pending |-> {}])
      BY <2>7 DEF StartExtract
    <3>2. /\ job'[w].op = "reconcile" /\ job'[w].window = window /\ job'[w].moves = moves
          /\ \A v \in Proc \ {w} : job'[v] = job[v]
      BY <3>1 DEF Become, Kinds, JobKinds, Proc
    <3>3. window.from = range.from
      BY <3>1 DEF Answered, Windows
    <3>4. ASSUME moves, NEW i \in Nat, 1 <= i, i < window.from PROVE Seen(i)'
      <4>1. i \in 1..cursor
        BY <2>7, <3>3, <3>4 DEF Kinds
      <4>2. Seen(i)
        BY <4>1 DEF CursorInv, NothingIsSkipped, Seen
      <4>3. QED BY <4>2, SeenStays
    <3>5. CursorOK(w)'
      BY <3>2, <3>4 DEF CursorOK, Running
    <3>6. QED BY <2>3, <3>2, <3>5 DEF Proc
  <2>8. ASSUME NEW w \in Worker, StartExtract(w, Unread, TRUE) PROVE CursorInv'
    BY <2>7, <2>8 DEF Unread
  <2>9. ASSUME NEW w \in Worker, NEW range, StartExtract(w, range, FALSE) PROVE CursorInv'
    BY <2>7, <2>9
  <2>10. ASSUME NEW w \in Worker, Reconcile(w) PROVE CursorInv'
    <3>1. PICK f : Become(w, IF Known(f)
                    THEN [job[w] EXCEPT !.window.left = @ \ {f}]
                    ELSE [job[w] EXCEPT !.op = "store", !.window.left = @ \ {f}, !.fact = f])
      BY <2>10 DEF Reconcile
    <3>2. job[w] \in ExtractionJob /\ Extracting(w) /\ job[w].op = "reconcile"
      BY <2>10, JobFields DEF Reconcile, Running, Extracting, Proc
    <3>3. LET j == [job[w] EXCEPT !.window.left = @ \ {f}]
          IN  j.op = "reconcile" /\ j.moves = job[w].moves /\ j.window.from = job[w].window.from
      BY <3>2 DEF ExtractionJob, Window
    <3>4. LET j == [job[w] EXCEPT !.op = "store", !.window.left = @ \ {f}, !.fact = f]
          IN  j.op = "store" /\ j.moves = job[w].moves /\ j.window.from = job[w].window.from
      BY <3>2 DEF ExtractionJob, Window
    <3>5. QED BY <2>5, <3>1, <3>2, <3>3, <3>4 DEF Proc
  <2>11. ASSUME NEW w \in Worker, StoreMemory(w) PROVE CursorInv'
    <3>1. PICK id :
            Become(w, [job[w] EXCEPT !.op = "reconcile", !.fact = None, !.pending = {id}])
      BY <2>11, Stored DEF Proc, Become
    <3>2. job[w] \in ExtractionJob /\ Extracting(w)
      BY <2>11, JobFields DEF StoreMemory, Running, Extracting, Proc
    <3>3. LET j == [job[w] EXCEPT !.op = "reconcile", !.fact = None, !.pending = {id}]
          IN  j.op = "reconcile" /\ j.moves = job[w].moves /\ j.window.from = job[w].window.from
      BY <3>2 DEF ExtractionJob, Window
    <3>4. QED BY <2>5, <3>1, <3>2, <3>3 DEF Proc
  <2>12. ASSUME NEW w \in Worker, CloseWindow(w) PROVE CursorInv'
    <3>1. job[w] \in ExtractionJob /\ Extracting(w)
      BY <2>12, JobFields DEF CloseWindow, Running, Extracting, Proc
    <3>2. LET j == [job[w] EXCEPT !.op = "advance", !.pending = {}]
          IN  /\ j.op = "advance" /\ j.moves = job[w].moves
              /\ j.window.from = job[w].window.from /\ j.window.to = job[w].window.to
      BY <3>1 DEF ExtractionJob, Window
    <3>3. past'.processed = past.processed \cup Covered(job[w])
      BY <2>12 DEF CloseWindow, Kinds, PastRow
    <3>4. \A i \in Covered(job[w]) : Seen(i)'
      BY <3>3 DEF Seen
    <3>5. QED BY <2>6, <2>12, <3>1, <3>2, <3>4 DEF CloseWindow
  <2>13. ASSUME NEW w \in Worker, FailWindow(w) PROVE CursorInv'
    <3>1. job[w] \in ExtractionJob /\ Extracting(w)
      BY <2>13, JobFields DEF FailWindow, Extracting, Proc
    <3>2. LET j == [job[w] EXCEPT !.op = "advance", !.window.left = {}, !.fact = None,
                                  !.pending = {}]
          IN  /\ j.op = "advance" /\ j.moves = job[w].moves
              /\ j.window.from = job[w].window.from /\ j.window.to = job[w].window.to
      BY <3>1 DEF ExtractionJob, Window
    <3>3. \A i \in Covered(job[w]) : Seen(i)'
      BY <2>13 DEF Seen, FailWindow
    <3>4. QED BY <2>6, <2>13, <3>1, <3>2, <3>3 DEF FailWindow
  <2>14. ASSUME NEW w \in Proc, Finish(w) PROVE CursorInv'
    BY <2>4, <2>14 DEF Finish, Idle
  <2>15. ASSUME NEW w \in Worker, Cut(w) PROVE CursorInv'
    BY <2>14, <2>15 DEF Cut, Proc
  <2>16. ASSUME NEW w \in Janitor, NEW run \in 1..past.started, StartRollback(w, run)
         PROVE  CursorInv'
    <3>1. [op |-> "rollback", run |-> run, doomed |-> Undoable(run),
           ended |-> run \in EndedRuns].op = "rollback"
      OBVIOUS
    <3>2. QED BY <2>4, <2>16, <3>1 DEF StartRollback, Proc
  <2>17. ASSUME NEW w \in Janitor, StartDelete(w) PROVE CursorInv'
    BY <2>4, <2>17 DEF StartDelete, Proc
  <2>18. ASSUME NEW w \in Janitor, CascadeDelete(w) PROVE CursorInv'
    <3>1. PICK m : Become(w, [job[w] EXCEPT !.doomed = @ \ {m}])
      BY <2>18 DEF CascadeDelete
    <3>2. job[w] \in DeletionJob
      BY <2>18, JobFields DEF CascadeDelete, Running, Proc
    <3>3. [job[w] EXCEPT !.doomed = @ \ {m}].op = "delete"
      BY <3>2 DEF DeletionJob
    <3>4. QED BY <2>4, <3>1, <3>3 DEF Proc
  <2>19. ASSUME NEW w \in Janitor,
                CommitRollback(w) \/ FinishDelete(w) \/ Orphan(w) \/ CutJanitor(w)
         PROVE  CursorInv'
    BY <2>14, <2>19 DEF CommitRollback, FinishDelete, Orphan, CutJanitor, Proc
  <2>20. CASE UNCHANGED job
    BY <2>1, <2>2, <2>20 DEF CursorInv
  <2>21. QED
    BY <1>2, <2>8, <2>9, <2>10, <2>11, <2>12, <2>13, <2>15, <2>16, <2>17, <2>18, <2>19, <2>20
    DEF Next, vars, AppendMessage, EditMemory
<1>3. ASSUME NEW w \in Worker, Advance(w) PROVE CursorInv'
  <2>1. job[w] \in ExtractionJob /\ Extracting(w) /\ Running(w, "advance")
    BY <1>3, JobFields DEF Advance, Running, Extracting, Proc
  <2>2. job[w].moves => \A i \in Nat : 1 <= i /\ i <= job[w].window.to => Seen(i)
    <3>1. ASSUME job[w].moves, NEW i \in Nat, 1 <= i, i <= job[w].window.to PROVE Seen(i)
      <4>1. job[w].window.from \in Nat /\ job[w].window.to \in Nat
        BY <2>1 DEF ExtractionJob, Window
      <4>2. i < job[w].window.from => Seen(i)
        BY <1>1, <2>1, <3>1 DEF CursorOK, Proc
      <4>3. i \in job[w].window.from..job[w].window.to => Seen(i)
        BY <1>1, <2>1, <3>1 DEF CursorOK, Proc, Covered
      <4>4. QED BY <3>1, <4>1, <4>2, <4>3
    <3>2. QED BY <3>1
  <2>3. cursor' = IF job[w].moves THEN job[w].window.to ELSE cursor
    BY <1>3 DEF Advance, Reached
  <2>4. NothingIsSkipped'
    <3>1. ASSUME NEW i \in 1..cursor' PROVE Seen(i)'
      <4>1. CASE job[w].moves
        BY <2>1, <2>2, <2>3, <4>1, SeenStays DEF ExtractionJob, Window
      <4>2. CASE ~job[w].moves
        BY <2>3, <4>2, SeenStays DEF CursorInv, NothingIsSkipped, Seen
      <4>3. QED BY <4>1, <4>2
    <3>2. QED BY <3>1 DEF NothingIsSkipped, Seen
  <2>5. \A v \in Proc \ {w} : job'[v] = job[v]
    BY <1>3 DEF Advance, Finish, Become, Kinds, JobKinds, Proc
  <2>6. ASSUME NEW v \in Proc \ {w} PROVE CursorOK(v)'
    BY <1>1, <2>5, SeenStays DEF CursorOK, Extracting, Running, Covered
  <2>7. CursorOK(w)'
    <3>1. CASE Finish(w)
      <4>1. job'[w] = Idle
        BY <3>1 DEF Finish, Become, Kinds, JobKinds, Proc
      <4>2. QED BY <4>1 DEF CursorOK, Extracting, Idle
    <3>2. ASSUME NEW window \in Answered(job[w].window.to + 1, job[w].upto),
                 Become(w, [job[w] EXCEPT !.op = "reconcile", !.window = window])
          PROVE  CursorOK(w)'
      <4>1. /\ job'[w].op = "reconcile" /\ job'[w].moves = job[w].moves
            /\ job'[w].window = window
        BY <2>1, <3>2 DEF Become, Kinds, JobKinds, Proc, ExtractionJob
      <4>2. window.from = job[w].window.to + 1 /\ job[w].window.to \in Nat
        BY <2>1 DEF Answered, Windows, ExtractionJob, Window
      <4>3. job[w].moves => \A i \in Nat : 1 <= i /\ i < window.from => Seen(i)'
        BY <2>2, <4>2, SeenStays
      <4>4. QED BY <4>1, <4>3 DEF CursorOK, Running
    <3>3. QED BY <1>3, <3>1, <3>2 DEF Advance
  <2>8. QED BY <2>4, <2>6, <2>7 DEF CursorInv
<1>4. CASE \A w \in Worker : ~Advance(w)
  <2>1. UNCHANGED cursor
    BY <1>4 DEF Next, vars, thread, AppendMessage, EditMemory, StartExtract, Reconcile,
         StoreMemory, CloseWindow, FailWindow, Cut, StartRollback, CommitRollback, StartDelete,
         CascadeDelete, FinishDelete, Orphan, CutJanitor
  <2>2. QED BY <1>2, <1>4, <2>1
<1>5. QED BY <1>3, <1>4

(* "No extraction window is permanently skipped": the cursor never stands behind a message
   whose window was neither extracted to its end nor written down as failed, however many
   runs overlap, fail, crash or are stopped by the circuit breaker. *)
THEOREM CursorSkipsNothing == Spec => []NothingIsSkipped
<1>1. Init => CursorInv
  <2>1. Init => \A w \in Proc : ~Extracting(w)
    BY DEF Init, Extracting, Proc, Idle
  <2>2. QED BY <2>1 DEF Init, CursorInv, CursorOK, NothingIsSkipped
<1>2. Kinds /\ Shape /\ CursorInv /\ [Next]_vars => CursorInv'
  BY CursorStep
<1>3. CursorInv => NothingIsSkipped
  BY DEF CursorInv
<1>4. QED BY <1>1, <1>2, <1>3, ShapeHolds, PTL DEF Spec

------------------------------------------------------------------------------
(* Who acts *)

WorkerActs(w) ==
  \/ \E range, moves : StartExtract(w, range, moves)
  \/ Reconcile(w) \/ StoreMemory(w) \/ CloseWindow(w) \/ FailWindow(w) \/ Advance(w) \/ Cut(w)
JanitorActs(w) ==
  \/ \E run \in 1..past.started : StartRollback(w, run)
  \/ CommitRollback(w) \/ StartDelete(w) \/ CascadeDelete(w) \/ FinishDelete(w) \/ Orphan(w)
  \/ CutJanitor(w)

(* Nobody touches the job of another. *)
LEMMA ActsAlone ==
  ASSUME Kinds, [Next]_vars, NEW w \in Proc
  PROVE  job'[w] = job[w] \/ (w \in Worker /\ WorkerActs(w)) \/ (w \in Janitor /\ JanitorActs(w))
<1>1. ASSUME NEW v \in Proc, NEW j, Become(v, j) PROVE v = w \/ job'[w] = job[w]
  BY <1>1 DEF Become, Kinds, JobKinds
<1>2. ASSUME NEW v \in Worker, WorkerActs(v) PROVE v = w \/ job'[w] = job[w]
  BY <1>1, <1>2 DEF WorkerActs, StartExtract, Reconcile, StoreMemory, CloseWindow, FailWindow,
                    Advance, Cut, Finish, Proc
<1>3. ASSUME NEW v \in Janitor, JanitorActs(v) PROVE v = w \/ job'[w] = job[w]
  BY <1>1, <1>3 DEF JanitorActs, StartRollback, CommitRollback, StartDelete, CascadeDelete,
                    FinishDelete, Orphan, CutJanitor, Finish, Proc
<1>4. CASE UNCHANGED job
  BY <1>4
<1>5. CASE \E v \in Worker : WorkerActs(v)
  BY <1>2, <1>5
<1>6. CASE \E v \in Janitor : JanitorActs(v)
  BY <1>3, <1>6
<1>7. UNCHANGED job \/ (\E v \in Worker : WorkerActs(v)) \/ (\E v \in Janitor : JanitorActs(v))
  BY DEF Next, vars, AppendMessage, EditMemory, WorkerActs, JanitorActs
<1>8. QED BY <1>4, <1>5, <1>6, <1>7

(* What a worker does next. *)
LEMMA WorkerOps ==
  ASSUME Kinds, NEW w \in Worker
  PROVE  /\ \A range, moves : StartExtract(w, range, moves) => job'[w].op = "reconcile"
         /\ Reconcile(w) => \/ job'[w].op = "reconcile"
                            \/ job'[w].op = "store" /\ ~Known(job'[w].fact)
         /\ StoreMemory(w) => job'[w].op = "reconcile"
         /\ CloseWindow(w) \/ FailWindow(w) => job'[w].op = "advance" /\ job'[w].pending = {}
         /\ Advance(w) => job'[w].op \in {"reconcile", "idle"}
         /\ Cut(w) => job'[w].op = "idle"
<1>1. ASSUME NEW j, Become(w, j) PROVE job'[w] = j
  BY <1>1 DEF Become, Kinds, JobKinds, Proc
<1>2. Extracting(w) => job[w] \in ExtractionJob
  BY JobFields DEF Proc
<1>3. Finish(w) => job'[w].op = "idle"
  BY <1>1 DEF Finish, Idle
<1>4. ASSUME NEW range, NEW moves, StartExtract(w, range, moves) PROVE job'[w].op = "reconcile"
  BY <1>1, <1>4 DEF StartExtract
<1>5. ASSUME Reconcile(w)
      PROVE  job'[w].op = "reconcile" \/ (job'[w].op = "store" /\ ~Known(job'[w].fact))
  <2>1. PICK f :
          Become(w, IF Known(f)
                    THEN [job[w] EXCEPT !.window.left = @ \ {f}]
                    ELSE [job[w] EXCEPT !.op = "store", !.window.left = @ \ {f}, !.fact = f])
    BY <1>5 DEF Reconcile
  <2>2. job[w] \in ExtractionJob /\ job[w].op = "reconcile"
    BY <1>2, <1>5 DEF Reconcile, Running, Extracting
  <2>3. [job[w] EXCEPT !.window.left = @ \ {f}].op = "reconcile"
    BY <2>2 DEF ExtractionJob, Window
  <2>4. LET j == [job[w] EXCEPT !.op = "store", !.window.left = @ \ {f}, !.fact = f]
        IN  j.op = "store" /\ j.fact = f
    BY <2>2 DEF ExtractionJob, Window
  <2>5. CASE Known(f)
    BY <1>1, <2>1, <2>3, <2>5
  <2>6. CASE ~Known(f)
    <3>1. job'[w].op = "store" /\ job'[w].fact = f
      BY <1>1, <2>1, <2>4, <2>6
    <3>2. QED BY <2>6, <3>1
  <2>7. QED BY <2>5, <2>6
<1>6. ASSUME StoreMemory(w) PROVE job'[w].op = "reconcile"
  <2>1. PICK id :
          Become(w, [job[w] EXCEPT !.op = "reconcile", !.fact = None, !.pending = {id}])
    BY <1>6, Stored DEF Proc, Become
  <2>2. [job[w] EXCEPT !.op = "reconcile", !.fact = None, !.pending = {id}].op = "reconcile"
    BY <1>2, <1>6 DEF ExtractionJob, StoreMemory, Running, Extracting
  <2>3. QED BY <1>1, <2>1, <2>2
<1>7. ASSUME CloseWindow(w) PROVE job'[w].op = "advance" /\ job'[w].pending = {}
  <2>1. LET j == [job[w] EXCEPT !.op = "advance", !.pending = {}]
        IN  j.op = "advance" /\ j.pending = {}
    BY <1>2, <1>7 DEF ExtractionJob, CloseWindow, Running, Extracting
  <2>2. QED BY <1>1, <1>7, <2>1 DEF CloseWindow
<1>8. ASSUME FailWindow(w) PROVE job'[w].op = "advance" /\ job'[w].pending = {}
  <2>1. LET j == [job[w] EXCEPT !.op = "advance", !.window.left = {}, !.fact = None,
                                !.pending = {}]
        IN  j.op = "advance" /\ j.pending = {}
    BY <1>2, <1>8 DEF ExtractionJob, Window, FailWindow, Extracting
  <2>2. QED BY <1>1, <1>8, <2>1 DEF FailWindow
<1>9. ASSUME Advance(w) PROVE job'[w].op \in {"reconcile", "idle"}
  <2>1. ASSUME NEW window, Become(w, [job[w] EXCEPT !.op = "reconcile", !.window = window])
        PROVE  job'[w].op = "reconcile"
    <3>1. [job[w] EXCEPT !.op = "reconcile", !.window = window].op = "reconcile"
      BY <1>2, <1>9 DEF ExtractionJob, Advance, Running, Extracting
    <3>2. QED BY <1>1, <2>1, <3>1
  <2>2. QED BY <1>3, <1>9, <2>1 DEF Advance
<1>10. QED BY <1>3, <1>4, <1>5, <1>6, <1>7, <1>8, <1>9 DEF Cut

(* What a janitor does next. *)
LEMMA JanitorOps ==
  ASSUME Kinds, NEW w \in Janitor
  PROVE  /\ \A run : StartRollback(w, run) => job'[w].op = "rollback"
         /\ StartDelete(w) \/ CascadeDelete(w) => job'[w].op = "delete"
         /\ CommitRollback(w) \/ FinishDelete(w) \/ Orphan(w) \/ CutJanitor(w)
              => job'[w].op = "idle"
<1>1. ASSUME NEW j, Become(w, j) PROVE job'[w] = j
  BY <1>1 DEF Become, Kinds, JobKinds, Proc
<1>2. ASSUME NEW run, StartRollback(w, run) PROVE job'[w].op = "rollback"
  BY <1>1, <1>2, RollbackFields DEF StartRollback
<1>3. ASSUME CascadeDelete(w) PROVE job'[w].op = "delete"
  <2>1. PICK m : Become(w, [job[w] EXCEPT !.doomed = @ \ {m}])
    BY <1>3 DEF CascadeDelete
  <2>2. job[w] \in DeletionJob
    BY <1>3, JobFields DEF CascadeDelete, Running, Proc
  <2>3. [job[w] EXCEPT !.doomed = @ \ {m}].op = "delete"
    BY <2>2 DEF DeletionJob
  <2>4. QED BY <1>1, <2>1, <2>3
<1>4. StartDelete(w) => job'[w].op = "delete"
  BY <1>1 DEF StartDelete
<1>5. Finish(w) => job'[w].op = "idle"
  BY <1>1 DEF Finish, Idle
<1>6. QED BY <1>2, <1>3, <1>4, <1>5 DEF CommitRollback, FinishDelete, Orphan, CutJanitor

(* The fact that a run is about to store was known to nobody when it looked. *)
LEMMA StoresGoOn ==
  ASSUME Kinds, [Next]_vars, NEW w \in Proc, Running(w, "store")'
  PROVE  job'[w] = job[w] \/ (w \in Worker /\ Reconcile(w) /\ ~Known(job'[w].fact))
<1>1. job'[w].op = "store"
  BY DEF Running
<1>2. CASE w \in Worker /\ WorkerActs(w)
  BY <1>1, <1>2, WorkerOps DEF WorkerActs
<1>3. CASE w \in Janitor /\ JanitorActs(w)
  BY <1>1, <1>3, JanitorOps DEF JanitorActs
<1>4. QED BY <1>2, <1>3, ActsAlone

------------------------------------------------------------------------------
(* Twins *)

Beside(r, s) == <<r, s>> \in past.beside \/ <<s, r>> \in past.beside

(* Runs that are in progress together overlap, and whoever is about to store a fact that
   somebody has stored since it looked overlaps with that run. *)
RunsOverlap ==
  \A v, w \in Proc :
    Extracting(v) /\ Extracting(w) /\ v # w => Beside(job[v].run, job[w].run)
StoresOverlap ==
  \A w \in Proc : Running(w, "store") =>
    \A m \in Ids : Tells(m, job[w].fact) => Beside(memories[m].run, job[w].run)
TwinsOverlap ==
  \A m, n \in Ids : m # n /\ Tells(m, memories[n].fact) /\ Tells(n, memories[n].fact) =>
    Beside(memories[m].run, memories[n].run)

TwinsInv == RunsOverlap /\ StoresOverlap /\ TwinsOverlap

(* Runs that overlapped have overlapped for good. *)
LEMMA BesideStays ==
  ASSUME Kinds, [Next]_vars, NEW r, NEW s, Beside(r, s)
  PROVE  Beside(r, s)'
BY PastGrows DEF Beside

(* A run that begins overlaps with all that are in progress. *)
LEMMA RunsStayBeside ==
  ASSUME Kinds, Shape, RunsOverlap, [Next]_vars
  PROVE  RunsOverlap'
<1>1. ASSUME NEW v \in Proc, NEW w \in Proc, GoesOn(v), Begins(w)
      PROVE  Beside(job[v].run, job[w].run)'
  <2>1. job[v].run \in InProgress
    BY <1>1 DEF GoesOn, InProgress, Shape, JobsOK, JobOK
  <2>2. <<job'[w].run, job[v].run>> \in past'.beside
    BY <1>1, <2>1 DEF Begins
  <2>3. job'[v].run = job[v].run
    BY <1>1 DEF GoesOn
  <2>4. QED BY <2>2, <2>3 DEF Beside
<1>2. ASSUME NEW v \in Proc, NEW w \in Proc, Extracting(v)', Extracting(w)', v # w
      PROVE  Beside(job[v].run, job[w].run)'
  <2>1. (GoesOn(v) \/ Begins(v)) /\ (GoesOn(w) \/ Begins(w))
    BY <1>2, RunsGoOn
  <2>2. CASE GoesOn(v) /\ GoesOn(w)
    <3>1. Beside(job[v].run, job[w].run)
      BY <1>2, <2>2 DEF GoesOn, RunsOverlap
    <3>2. <<job'[v].run, job'[w].run>> \in past'.beside
            \/ <<job'[w].run, job'[v].run>> \in past'.beside
      BY <2>2, <3>1, PastGrows DEF GoesOn, Beside
    <3>3. QED BY <3>2 DEF Beside
  <2>3. CASE GoesOn(v) /\ Begins(w)
    BY <1>1, <2>3 DEF GoesOn, Beside
  <2>4. CASE Begins(v) /\ GoesOn(w)
    BY <1>1, <2>4 DEF GoesOn, Beside
  <2>5. CASE Begins(v) /\ Begins(w)
    BY <1>2, <2>5 DEF Begins, Extracting
  <2>6. QED BY <2>1, <2>2, <2>3, <2>4, <2>5
<1>3. QED BY <1>2 DEF RunsOverlap

(* Every step keeps twins to runs that overlapped. *)
LEMMA TwinsStep ==
  ASSUME Kinds, Shape, TwinsInv, [Next]_vars
  PROVE  TwinsInv'
<1> USE Kinds, Shape, [Next]_vars
<1>1. RunsOverlap'
  BY RunsStayBeside DEF TwinsInv
<1>2. RowsOK /\ \A w \in Proc : Extracting(w) => w \in Worker
  BY DEF Shape, JobsOK, JobOK
(* Of an old row, what tells a fact told it before. *)
<1>3. ASSUME NEW m \in Ids, NEW f, Tells(m, f)' PROVE Tells(m, f)
  BY <1>3, RowsGoOn DEF Tells, Kept
(* Of a new row, only what a run has stored is a memory that tells something. *)
<1>4. ASSUME NEW m \in Ids', m \notin Ids, NEW f, Tells(m, f)' PROVE IsStored(m)
  <2>1. IsCopy(m) \/ IsStored(m)
    BY <1>4, RowsGoOn
  <2>2. ASSUME IsCopy(m) PROVE FALSE
    <3>1. PICK n \in Ids : memories'[m] = memories[n]
      BY <2>2 DEF IsCopy
    <3>2. memories[n].root \in Ids
      BY <1>2 DEF RowsOK, RowOK, Roots
    <3>3. memories'[m].root = m
      BY <1>4 DEF Tells
    <3>4. QED BY <1>4, <3>1, <3>2, <3>3
  <2>3. QED BY <2>1, <2>2
(* Whoever stores had seen no other memory tell it. *)
<1>5. ASSUME NEW w \in Worker, StoreMemory(w), NEW n \in Ids, Tells(n, job[w].fact)
      PROVE  Beside(memories[n].run, job[w].run)
  BY <1>5 DEF TwinsInv, StoresOverlap, StoreMemory, Proc
<1>6. StoresOverlap'
  <2>1. ASSUME NEW w \in Proc, Running(w, "store")', NEW m \in Ids', Tells(m, job[w].fact)'
        PROVE  Beside(memories[m].run, job[w].run)'
    <3>1. CASE w \in Worker /\ Reconcile(w) /\ ~Known(job'[w].fact)
      <4>1. UNCHANGED memories
        BY <3>1 DEF Reconcile, store
      <4>2. m \in Ids /\ Tells(m, job'[w].fact)
        BY <2>1, <4>1 DEF Ids, Tells
      <4>3. Live(m)
        BY <1>2, <4>2 DEF RowsOK, RowOK, Tells, Live
      <4>4. QED BY <3>1, <4>2, <4>3 DEF Known
    <3>2. CASE job'[w] = job[w]
      <4>1. Running(w, "store") /\ Extracting(w)
        BY <2>1, <3>2 DEF Running, Extracting
      <4>2. CASE m \in Ids
        <5>1. Tells(m, job[w].fact)
          BY <2>1, <3>2, <4>2, RowsGoOn DEF Tells, Kept
        <5>2. Beside(memories[m].run, job[w].run)
          BY <4>1, <4>2, <5>1 DEF TwinsInv, StoresOverlap
        <5>3. memories'[m].run = memories[m].run
          BY <4>2, RowsGoOn DEF Kept
        <5>4. QED BY <3>2, <5>2, <5>3, PastGrows DEF Beside
      <4>3. CASE m \notin Ids
        <5>1. IsStored(m)
          BY <1>4, <2>1, <4>3
        <5>2. PICK v \in Worker :
                /\ StoreMemory(v)
                /\ memories'[m] = [fact |-> job[v].fact, run |-> job[v].run, root |-> m,
                                   current |-> TRUE, deleted |-> FALSE]
                /\ job' = [job EXCEPT ![v] = [job[v] EXCEPT !.op = "reconcile", !.fact = None,
                                                            !.pending = {m}]]
          BY <5>1, Zenon DEF IsStored
        <5>3. v # w
          <6>1. job[v] \in ExtractionJob
            BY <5>2, JobFields DEF StoreMemory, Running, Extracting, Proc
          <6>2. job'[v].op = "reconcile"
            BY <5>2, <6>1 DEF Kinds, JobKinds, Proc, ExtractionJob
          <6>3. QED BY <2>1, <6>2 DEF Running
        <5>4. Beside(job[v].run, job[w].run)
          <6>1. Extracting(v)
            BY <5>2 DEF StoreMemory, Running, Extracting
          <6>2. QED BY <4>1, <5>3, <6>1 DEF TwinsInv, RunsOverlap, Proc
        <5>5. memories'[m].run = job[v].run
          BY <5>2
        <5>6. QED BY <3>2, <5>4, <5>5, PastGrows DEF Beside
      <4>4. QED BY <4>2, <4>3
    <3>3. QED BY <2>1, <3>1, <3>2, StoresGoOn
  <2>2. QED BY <2>1 DEF StoresOverlap
<1>7. TwinsOverlap'
  <2>1. ASSUME NEW m \in Ids', NEW n \in Ids, m \notin Ids,
               memories'[m].fact = memories'[n].fact,
               Tells(m, memories[m].fact)', Tells(n, memories[m].fact)'
        PROVE  Beside(memories[n].run, memories[m].run)'
    <3>1. IsStored(m)
      BY <1>4, <2>1
    <3>2. PICK w \in Worker :
            StoreMemory(w) /\ memories'[m].run = job[w].run /\ memories'[m].fact = job[w].fact
      BY <3>1 DEF IsStored
    <3>3. Tells(n, job[w].fact)
      BY <2>1, <3>2, RowsGoOn DEF Tells, Kept
    <3>4. Beside(memories[n].run, job[w].run)
      BY <1>5, <3>2, <3>3
    <3>5. memories'[n].run = memories[n].run
      BY RowsGoOn DEF Kept
    <3>6. QED BY <3>2, <3>4, <3>5, PastGrows DEF Beside
  <2>2. ASSUME NEW m \in Ids', NEW n \in Ids', m # n, Tells(m, memories[n].fact)',
               Tells(n, memories[n].fact)'
        PROVE  Beside(memories[m].run, memories[n].run)'
    <3>1. memories'[m].fact = memories'[n].fact
      BY <2>2 DEF Tells
    <3>2. CASE m \in Ids /\ n \in Ids
      <4>1. /\ memories'[n].fact = memories[n].fact /\ memories'[n].run = memories[n].run
            /\ memories'[m].run = memories[m].run
        BY <3>2, RowsGoOn DEF Kept
      <4>2. Tells(m, memories[n].fact) /\ Tells(n, memories[n].fact)
        BY <2>2, <3>2, <4>1, RowsGoOn DEF Tells, Kept
      <4>3. Beside(memories[m].run, memories[n].run)
        BY <2>2, <3>2, <4>2 DEF TwinsInv, TwinsOverlap
      <4>4. QED BY <4>1, <4>3, PastGrows DEF Beside
    <3>3. CASE m \in Ids /\ n \notin Ids
      BY <2>1, <2>2, <3>1, <3>3
    <3>4. CASE m \notin Ids /\ n \in Ids
      <4>1. Beside(memories[n].run, memories[m].run)'
        <5>1. Tells(m, memories[m].fact)' /\ Tells(n, memories[m].fact)'
          BY <2>2, <3>1 DEF Tells
        <5>2. QED BY <2>1, <3>1, <3>4, <5>1
      <4>2. QED BY <4>1 DEF Beside
    <3>5. CASE m \notin Ids /\ n \notin Ids
      <4>1. IsStored(m) /\ IsStored(n)
        BY <1>4, <2>2, <3>5
      <4>2. Ids' = Ids \cup {m} /\ Ids' = Ids \cup {n}
        BY <4>1 DEF IsStored
      <4>3. QED BY <2>2, <3>5, <4>2
    <3>6. QED BY <3>2, <3>3, <3>4, <3>5
  <2>3. QED BY <2>2 DEF TwinsOverlap
<1>8. QED BY <1>1, <1>6, <1>7 DEF TwinsInv

(* Only runs that overlapped store the same fact twice.  A message that is extracted again,
   after a crash or because a caller asks for it, adds no second memory of what it tells. *)
THEOREM OnlyOverlapsMakeTwins == Spec => []TwinsComeFromOverlaps
<1>1. Init => TwinsInv
  <2>1. Init => Ids = {} /\ \A w \in Proc : ~Extracting(w) /\ ~Running(w, "store")
    BY DEF Init, Extracting, Running, Proc, Idle, Ids
  <2>2. QED BY <2>1 DEF TwinsInv, RunsOverlap, StoresOverlap, TwinsOverlap
<1>2. Kinds /\ Shape /\ TwinsInv /\ [Next]_vars => TwinsInv'
  BY TwinsStep
<1>3. Kinds /\ TwinsInv => TwinsComeFromOverlaps
  <2> SUFFICES ASSUME Kinds, TwinsInv, NEW m \in Ids, NEW n \in Ids, m < n,
                      memories[m].fact = memories[n].fact,
                      memories[m].current, memories[n].current,
                      memories[m].root = m, memories[n].root = n
               PROVE  Beside(memories[m].run, memories[n].run)
    BY DEF TwinsComeFromOverlaps, Beside
  <2>1. m \in Nat /\ n \in Nat
    BY LenProperties DEF Kinds, Ids
  <2>2. QED BY <2>1 DEF TwinsInv, TwinsOverlap, Tells
<1>4. QED BY <1>1, <1>2, <1>3, ShapeHolds, PTL DEF Spec

------------------------------------------------------------------------------
(* Where memories come from *)

(* Nothing waits for a commit any more when a window is closed. *)
ClosedIsWritten == \A w \in Proc : Running(w, "advance") => job[w].pending = {}

SourcesInv == ClosedIsWritten /\ MemoriesHaveSources

(* Every step keeps closed windows written. *)
LEMMA ClosedStaysWritten ==
  ASSUME Kinds, ClosedIsWritten, [Next]_vars
  PROVE  ClosedIsWritten'
<1> SUFFICES ASSUME NEW w \in Proc, Running(w, "advance")' PROVE job'[w].pending = {}
  BY DEF ClosedIsWritten
<1>1. job'[w].op = "advance"
  BY DEF Running
<1>2. CASE job'[w] = job[w]
  BY <1>2 DEF ClosedIsWritten, Running
<1>3. CASE w \in Worker /\ WorkerActs(w)
  BY <1>1, <1>3, WorkerOps DEF WorkerActs
<1>4. CASE w \in Janitor /\ JanitorActs(w)
  BY <1>1, <1>4, JanitorOps DEF JanitorActs
<1>5. QED BY <1>2, <1>3, <1>4, ActsAlone

(* What waits for the commit of a run goes on to wait, is written, or is lost with the run. *)
LEMMA PendingGoesOn ==
  ASSUME Kinds, ClosedIsWritten, [Next]_vars,
         NEW w \in Worker, Extracting(w), NEW m \in job[w].pending
  PROVE  \/ Extracting(w)' /\ m \in job'[w].pending
         \/ m \in sources' \cap decided'
         \/ job[w].run \in past'.loose
<1>1. ASSUME NEW j, Become(w, j) PROVE job'[w] = j
  BY <1>1 DEF Become, Kinds, JobKinds, Proc
<1>2. job[w] \in ExtractionJob
  BY JobFields DEF Proc
<1>3. CASE job'[w] = job[w]
  BY <1>3 DEF Extracting
<1>4. ASSUME NEW range, NEW moves, StartExtract(w, range, moves) PROVE FALSE
  BY <1>4 DEF StartExtract, Running, Extracting
<1>5. ASSUME Reconcile(w) PROVE Extracting(w)' /\ m \in job'[w].pending
  <2>1. PICK f :
          Become(w, IF Known(f)
                    THEN [job[w] EXCEPT !.window.left = @ \ {f}]
                    ELSE [job[w] EXCEPT !.op = "store", !.window.left = @ \ {f}, !.fact = f])
    BY <1>5 DEF Reconcile
  <2>2. job[w].op = "reconcile"
    BY <1>5 DEF Reconcile, Running
  <2>3. LET j == [job[w] EXCEPT !.window.left = @ \ {f}]
        IN  j.op = "reconcile" /\ j.pending = job[w].pending
    BY <1>2, <2>2 DEF ExtractionJob, Window
  <2>4. LET j == [job[w] EXCEPT !.op = "store", !.window.left = @ \ {f}, !.fact = f]
        IN  j.op = "store" /\ j.pending = job[w].pending
    BY <1>2 DEF ExtractionJob, Window
  <2>5. job'[w].op \in {"reconcile", "store"} /\ job'[w].pending = job[w].pending
    BY <1>1, <2>1, <2>3, <2>4
  <2>6. QED BY <2>5 DEF Extracting
<1>6. ASSUME StoreMemory(w) \/ CloseWindow(w) \/ FailWindow(w)
      PROVE  m \in sources' \cap decided'
  BY <1>6 DEF StoreMemory, CloseWindow, FailWindow, Flushed
<1>7. ASSUME Advance(w) PROVE FALSE
  BY <1>7 DEF Advance, ClosedIsWritten, Proc
<1>8. ASSUME Cut(w) PROVE job[w].run \in past'.loose
  BY <1>8 DEF Cut, Kinds, PastRow
<1>9. ASSUME w \in Janitor, JanitorActs(w) PROVE FALSE
  BY <1>9 DEF JanitorActs, StartRollback, CommitRollback, StartDelete, CascadeDelete,
              FinishDelete, Orphan, CutJanitor, Running, Extracting
<1>10. QED
  BY <1>3, <1>4, <1>5, <1>6, <1>7, <1>8, <1>9, ActsAlone DEF WorkerActs, Proc

(* The rows of a memory go only with the memory, or with those of every run. *)
LEMMA RowsGoWithMemories ==
  ASSUME Kinds, Shape, [Next]_vars, NEW m \in sources \cap decided
  PROVE  \/ m \in sources' \cap decided'
         \/ memories'[m].deleted
         \/ 1..past.started \subseteq past'.loose
<1> DEFINE Goal == \/ m \in sources' \cap decided'
                   \/ memories'[m].deleted
                   \/ 1..past.started \subseteq past'.loose
<1>1. CASE sources \subseteq sources' /\ decided \subseteq decided'
  BY <1>1
<1>2. ASSUME NEW w \in Janitor, CommitRollback(w) PROVE Goal
  <2>1. memories' = WithDeleted(job[w].doomed) /\ sources' = sources \ job[w].doomed
        /\ decided' = decided
    BY <1>2 DEF CommitRollback
  <2>2. m \in Ids
    BY DEF Shape, Roots
  <2>3. m \in job[w].doomed => memories'[m].deleted
    BY <2>1, <2>2, Deleted
  <2>4. QED BY <2>1, <2>3
<1>3. ASSUME NEW w \in Janitor, Orphan(w) PROVE Goal
  BY <1>3 DEF Orphan, Kinds, PastRow
<1>4. ASSUME NEW w \in Worker, NEW range, NEW moves, StartExtract(w, range, moves) PROVE Goal
  BY <1>1, <1>4 DEF StartExtract, store
<1>5. QED
  BY <1>1, <1>2, <1>3, <1>4
  DEF Next, vars, store, AppendMessage, EditMemory, Reconcile, StoreMemory, CloseWindow,
      FailWindow, Advance, Cut, StartRollback, StartDelete, CascadeDelete, FinishDelete,
      CutJanitor

(* Every step keeps the memories traced. *)
LEMMA SourcesStep ==
  ASSUME Kinds, Shape, SourcesInv, [Next]_vars
  PROVE  SourcesInv'
<1> USE Kinds, Shape, [Next]_vars
<1>1. ClosedIsWritten'
  BY ClosedStaysWritten DEF SourcesInv
<1> DEFINE Traced(m) ==
      \/ m \in sources' \cap decided'
      \/ \E w \in Worker : Extracting(w)' /\ m \in job'[w].pending
      \/ memories'[m].run \in past'.loose
<1>2. ASSUME NEW m \in Ids', m \in Ids, memories'[m].root = m, ~memories'[m].deleted
      PROVE  Traced(m)
  <2>1. Kept(m)
    BY <1>2, RowsGoOn
  <2>2. memories[m].root = m /\ Live(m)
    BY <1>2, <2>1 DEF Kept, Live
  <2>3. CASE m \in sources \cap decided
    <3>1. memories'[m].run \in 1..past.started
      BY <1>2, <2>1 DEF Shape, RowsOK, RowOK, Kept
    <3>2. QED BY <1>2, <2>3, <3>1, RowsGoWithMemories
  <2>4. ASSUME NEW w \in Worker, Extracting(w), m \in job[w].pending PROVE Traced(m)
    <3>1. memories'[m].run = job[w].run
      BY <2>1, <2>4 DEF Kept, Shape, JobsOK, JobOK, Proc
    <3>2. QED BY <2>4, <3>1, PendingGoesOn DEF SourcesInv
  <2>5. CASE memories[m].run \in past.loose
    BY <2>1, <2>5, PastGrows DEF Kept
  <2>6. QED BY <1>2, <2>2, <2>3, <2>4, <2>5 DEF SourcesInv, MemoriesHaveSources
<1>3. ASSUME NEW m \in Ids', m \notin Ids, memories'[m].root = m PROVE Traced(m)
  <2>1. CASE IsCopy(m)
    BY <1>3, <2>1 DEF IsCopy, Shape, RowsOK, RowOK, Roots
  <2>2. ASSUME NEW w \in Worker, StoreMemory(w),
               job' = [job EXCEPT ![w] = [job[w] EXCEPT !.op = "reconcile", !.fact = None,
                                                        !.pending = {m}]]
        PROVE  Traced(m)
    <3>1. job[w] \in ExtractionJob
      BY <2>2, JobFields DEF StoreMemory, Running, Extracting, Proc
    <3>2. job'[w].op = "reconcile" /\ job'[w].pending = {m}
      BY <2>2, <3>1 DEF Kinds, JobKinds, Proc, ExtractionJob
    <3>3. QED BY <3>2 DEF Extracting
  <2>3. QED BY <1>3, <2>1, <2>2, RowsGoOn DEF IsStored
<1>4. MemoriesHaveSources'
  BY <1>2, <1>3 DEF MemoriesHaveSources, Live
<1>5. QED BY <1>1, <1>4 DEF SourcesInv

(* Every memory that a run has stored can be traced to its messages, or will be at the next
   commit of the run, unless the run died, was rolled back too early, or was let go. *)
THEOREM MemoriesAreTraced == Spec => []MemoriesHaveSources
<1>1. Init => SourcesInv
  <2>1. Init => Ids = {} /\ \A w \in Proc : ~Running(w, "advance")
    BY DEF Init, Running, Proc, Idle, Ids
  <2>2. QED BY <2>1 DEF SourcesInv, ClosedIsWritten, MemoriesHaveSources
<1>2. Kinds /\ Shape /\ SourcesInv /\ [Next]_vars => SourcesInv'
  BY SourcesStep
<1>3. SourcesInv => MemoriesHaveSources
  BY DEF SourcesInv
<1>4. QED BY <1>1, <1>2, <1>3, ShapeHolds, PTL DEF Spec

------------------------------------------------------------------------------
(* What a rollback leaves *)

(* A rollback that has begun after the end of its run has seen all that the run left. *)
SeesAll(w) ==
  Running(w, "rollback") /\ job[w].ended =>
    \A m \in Roots :
      memories[m].run = job[w].run => ~Live(m) \/ Edited(m) \/ m \in job[w].doomed

RollbackInv == UndoneRunsAreGone /\ \A w \in Proc : SeesAll(w)

(* A memory that is gone, or has a later version, stays so. *)
LEMMA GoneStays ==
  ASSUME Kinds, [Next]_vars, NEW m \in Ids, ~Live(m) \/ Edited(m)
  PROVE  ~Live(m)' \/ Edited(m)'
<1>1. CASE ~Live(m)
  BY <1>1, RowsGoOn DEF Live, Kept
<1>2. CASE Edited(m)
  <2>1. PICK n \in Ids : n # m /\ memories[n].root = m
    BY <1>2 DEF Edited
  <2>2. n \in Ids' /\ memories'[n].root = m
    BY <2>1, RowsGoOn DEF Kept
  <2>3. QED BY <2>1, <2>2 DEF Edited
<1>3. QED BY <1>1, <1>2

(* A run that has ended gets no memory any more. *)
LEMMA DoneGetsNothing ==
  ASSUME Kinds, Shape, [Next]_vars, NEW r, Done(r), NEW m \in Ids', memories'[m].run = r,
         memories'[m].root = m
  PROVE  m \in Ids
<1>1. CASE IsCopy(m)
  BY <1>1 DEF IsCopy, Shape, RowsOK, RowOK, Roots
<1>2. ASSUME IsStored(m) PROVE FALSE
  <2>1. PICK w \in Worker :
          StoreMemory(w) /\ memories'[m] = [fact |-> job[w].fact, run |-> job[w].run, root |-> m,
                                            current |-> TRUE, deleted |-> FALSE]
    BY <1>2 DEF IsStored
  <2>2. job[w].run = r
    BY <2>1
  <2>3. Extracting(w)
    BY <2>1 DEF StoreMemory, Running, Extracting
  <2>4. QED BY <2>2, <2>3 DEF Done
<1>3. QED BY <1>1, <1>2, RowsGoOn

(* Who rolls back has begun to before, or begins now. *)
LEMMA RollbacksGoOn ==
  ASSUME Kinds, [Next]_vars, NEW w \in Proc, Running(w, "rollback")'
  PROVE  job'[w] = job[w] \/ \E run \in 1..past.started : StartRollback(w, run)
<1>1. job'[w].op = "rollback"
  BY DEF Running
<1>2. CASE w \in Worker /\ WorkerActs(w)
  BY <1>1, <1>2, WorkerOps DEF WorkerActs
<1>3. CASE w \in Janitor /\ JanitorActs(w)
  BY <1>1, <1>3, JanitorOps DEF JanitorActs
<1>4. QED BY <1>2, <1>3, ActsAlone

(* Who deletes has begun to before, or begins now. *)
LEMMA DeletesGoOn ==
  ASSUME Kinds, [Next]_vars, NEW w \in Proc, Running(w, "delete")'
  PROVE  job'[w] = job[w] \/ (w \in Janitor /\ (StartDelete(w) \/ CascadeDelete(w)))
<1>1. job'[w].op = "delete"
  BY DEF Running
<1>2. CASE w \in Worker /\ WorkerActs(w)
  BY <1>1, <1>2, WorkerOps DEF WorkerActs
<1>3. CASE w \in Janitor /\ JanitorActs(w)
  BY <1>1, <1>3, JanitorOps DEF JanitorActs
<1>4. QED BY <1>2, <1>3, ActsAlone

(* A run is undone when a rollback that found it ended comes to its end. *)
LEMMA UndoneGoOn ==
  ASSUME Kinds, [Next]_vars, NEW r \in past'.undone
  PROVE  r \in past.undone
           \/ \E w \in Janitor : CommitRollback(w) /\ job[w].ended /\ r = job[w].run
<1> DEFINE Goal == r \in past.undone
             \/ \E w \in Janitor : CommitRollback(w) /\ job[w].ended /\ r = job[w].run
<1>1. CASE past'.undone = past.undone
  BY <1>1
<1>2. ASSUME NEW w \in Janitor, CommitRollback(w) PROVE Goal
  <2>1. past'.undone = past.undone \cup (IF job[w].ended THEN {job[w].run} ELSE {})
    BY <1>2 DEF CommitRollback, Kinds, PastRow
  <2>2. QED BY <1>2, <2>1
<1>3. ASSUME NEW w \in Janitor, FinishDelete(w) \/ Orphan(w) PROVE past'.undone = past.undone
  BY <1>3 DEF FinishDelete, Orphan, Kinds, PastRow
<1>4. ASSUME NEW w \in Worker, NEW range, NEW moves, StartExtract(w, range, moves)
      PROVE  past'.undone = past.undone
  BY <1>4 DEF StartExtract, Kinds, PastRow
<1>5. ASSUME NEW w \in Worker, CloseWindow(w) \/ Cut(w) PROVE past'.undone = past.undone
  BY <1>5 DEF CloseWindow, Cut, Kinds, PastRow
<1>6. QED
  BY <1>1, <1>2, <1>3, <1>4, <1>5
  DEF Next, vars, AppendMessage, EditMemory, Reconcile, StoreMemory, FailWindow, Advance,
      StartRollback, StartDelete, CascadeDelete, CutJanitor

(* A run is swept when a delete that found it ended comes to its end. *)
LEMMA SweptGoOn ==
  ASSUME Kinds, [Next]_vars, NEW r \in past'.swept
  PROVE  r \in past.swept \/ \E w \in Janitor : FinishDelete(w) /\ r \in job[w].ended
<1> DEFINE Goal ==
      r \in past.swept \/ \E w \in Janitor : FinishDelete(w) /\ r \in job[w].ended
<1>1. CASE past'.swept = past.swept
  BY <1>1
<1>2. ASSUME NEW w \in Janitor, FinishDelete(w) PROVE Goal
  <2>1. past'.swept = past.swept \cup job[w].ended
    BY <1>2 DEF FinishDelete, Kinds, PastRow
  <2>2. QED BY <1>2, <2>1
<1>3. ASSUME NEW w \in Janitor, CommitRollback(w) \/ Orphan(w) PROVE past'.swept = past.swept
  BY <1>3 DEF CommitRollback, Orphan, Kinds, PastRow
<1>4. ASSUME NEW w \in Worker, NEW range, NEW moves, StartExtract(w, range, moves)
      PROVE  past'.swept = past.swept
  BY <1>4 DEF StartExtract, Kinds, PastRow
<1>5. ASSUME NEW w \in Worker, CloseWindow(w) \/ Cut(w) PROVE past'.swept = past.swept
  BY <1>5 DEF CloseWindow, Cut, Kinds, PastRow
<1>6. QED
  BY <1>1, <1>2, <1>3, <1>4, <1>5
  DEF Next, vars, AppendMessage, EditMemory, Reconcile, StoreMemory, FailWindow, Advance,
      StartRollback, StartDelete, CascadeDelete, CutJanitor

(* A memory of a run that has ended well, and that is there, has its rows. *)
LEMMA EndedRunsHaveRows ==
  ASSUME Kinds, Shape, MemoriesHaveSources, NEW m \in Roots, Live(m),
         memories[m].run \in EndedRuns
  PROVE  m \in sources \cap decided
<1>1. m \in Ids /\ memories[m].root = m
  BY DEF Roots
<1>2. ASSUME NEW w \in Worker, Extracting(w), m \in job[w].pending PROVE FALSE
  <2>1. memories[m].run = job[w].run
    BY <1>2 DEF Shape, JobsOK, JobOK, Proc
  <2>2. QED BY <1>2, <2>1 DEF EndedRuns, InProgress
<1>3. memories[m].run \notin past.loose
  BY DEF EndedRuns
<1>4. QED BY <1>1, <1>2, <1>3 DEF MemoriesHaveSources

(* Every step keeps what a rollback will see, and what it leaves. *)
LEMMA RollbackStep ==
  ASSUME Kinds, Shape, MemoriesHaveSources, RollbackInv, [Next]_vars
  PROVE  RollbackInv'
<1> USE Kinds, Shape, [Next]_vars
<1>1. UndoneRunsAreGone'
  <2>1. ASSUME NEW m \in Ids', memories'[m].run \in past'.undone, memories'[m].root = m
        PROVE  ~Live(m)' \/ Edited(m)'
    <3>1. m \in Ids
      BY <2>1, UndoneRunsAreDone, DoneGetsNothing
    <3>2. memories[m].run = memories'[m].run /\ memories[m].root = m
      BY <2>1, <3>1, RowsGoOn DEF Kept
    <3>3. CASE memories[m].run \in past.undone
      BY <3>1, <3>2, <3>3, GoneStays DEF RollbackInv, UndoneRunsAreGone
    <3>4. ASSUME NEW w \in Janitor, CommitRollback(w), job[w].ended, memories[m].run = job[w].run
          PROVE  ~Live(m)' \/ Edited(m)'
      <4>1. ~Live(m) \/ Edited(m) \/ m \in job[w].doomed
        BY <3>1, <3>2, <3>4 DEF RollbackInv, SeesAll, CommitRollback, Proc, Roots
      <4>2. ASSUME m \in job[w].doomed PROVE memories'[m].deleted
        BY <3>1, <3>4, <4>2, Deleted DEF CommitRollback
      <4>3. QED BY <3>1, <4>1, <4>2, GoneStays DEF Live
    <3>5. QED BY <2>1, <3>2, <3>3, <3>4, UndoneGoOn
  <2>2. QED BY <2>1 DEF UndoneRunsAreGone
<1>2. ASSUME NEW w \in Proc, Running(w, "rollback")', job'[w].ended,
             NEW m \in Roots', memories'[m].run = job'[w].run
      PROVE  ~Live(m)' \/ Edited(m)' \/ m \in job'[w].doomed
  <2>1. CASE job'[w] = job[w]
    <3>1. Running(w, "rollback") /\ job[w].ended /\ Done(job[w].run)
      BY <1>2, <2>1 DEF Running, Shape, JobsOK, JobOK
    <3>2. m \in Ids
      BY <1>2, <2>1, <3>1, DoneGetsNothing DEF Roots
    <3>3. m \in Roots /\ memories[m].run = job[w].run
      BY <1>2, <2>1, <3>2, RowsGoOn DEF Kept, Roots
    <3>4. ~Live(m) \/ Edited(m) \/ m \in job[w].doomed
      BY <3>1, <3>3 DEF RollbackInv, SeesAll
    <3>5. QED BY <2>1, <3>2, <3>4, GoneStays
  <2>2. ASSUME NEW run \in 1..past.started, StartRollback(w, run)
        PROVE  ~Live(m)' \/ Edited(m)' \/ m \in job'[w].doomed
    <3>1. /\ job'[w] = [op |-> "rollback", run |-> run, doomed |-> Undoable(run),
                        ended |-> run \in EndedRuns]
          /\ UNCHANGED memories
      BY <2>2 DEF StartRollback, Become, Kinds, JobKinds, store
    <3>2. /\ job'[w].run = run /\ job'[w].doomed = Undoable(run)
          /\ job'[w].ended => run \in EndedRuns
      BY <3>1, RollbackFields
    <3>3. m \in Roots /\ memories[m].run = run /\ run \in EndedRuns
      BY <1>2, <3>1, <3>2 DEF Roots, Ids
    <3>4. ASSUME Live(m), ~Edited(m) PROVE m \in job'[w].doomed
      BY <3>2, <3>3, <3>4, EndedRunsHaveRows DEF Undoable
    <3>5. m \in Ids
      BY <3>3 DEF Roots
    <3>6. QED BY <3>4, <3>5, GoneStays
  <2>3. QED BY <1>2, <2>1, <2>2, RollbacksGoOn
<1>3. QED BY <1>1, <1>2 DEF RollbackInv, SeesAll

(* A rollback leaves nothing of a run that had ended when it began, but for the memories
   that a user has changed since the run stored them. *)
THEOREM RollbacksLeaveNothing == Spec => []UndoneRunsAreGone
<1>1. Init => RollbackInv
  <2>1. Init => Ids = {} /\ \A w \in Proc : ~Running(w, "rollback")
    BY DEF Init, Running, Proc, Idle, Ids
  <2>2. QED BY <2>1 DEF RollbackInv, SeesAll, UndoneRunsAreGone
<1>2. Kinds /\ Shape /\ MemoriesHaveSources /\ RollbackInv /\ [Next]_vars => RollbackInv'
  BY RollbackStep
<1>3. RollbackInv => UndoneRunsAreGone
  BY DEF RollbackInv
<1>4. QED BY <1>1, <1>2, <1>3, ShapeHolds, MemoriesAreTraced, PTL DEF Spec

------------------------------------------------------------------------------
(* What the delete of a thread leaves *)

(* The runs of which a rollback has been seen, or that may have left memories without rows. *)
Forgiven == past.undone \cup past.loose

(* What is left of a memory that was deleted is the doing of a rollback. *)
VersionsGoTogether ==
  \A m \in Ids : Live(m) => Live(memories[m].root) \/ memories[m].run \in Forgiven

(* What is left of a run that had ended is still to be deleted. *)
SweepsAll(w) ==
  Running(w, "delete") =>
    \A m \in Ids : memories[m].run \in job[w].ended \ Forgiven =>
      ~Live(m) \/ memories[m].root \in job[w].doomed

CascadeInv == CascadeLeavesNothing /\ VersionsGoTogether /\ \A w \in Proc : SweepsAll(w)

(* A nonempty set of numbers has a least one. *)
LEMMA LeastNumber ==
  ASSUME NEW T \in SUBSET Nat, T # {}
  PROVE  \E x \in T : \A y \in T : x <= y
<1> DEFINE R == OpToRel(<, Nat)
<1>1. IsWellFoundedOn(R, Nat)
  BY NatLessThanWellFounded
<1>2. \A x, y \in Nat : x < y => <<x, y>> \in R
  BY DEF OpToRel
<1> HIDE DEF R
<1>3. PICK x \in T : \A y \in T : ~(<<y, x>> \in R)
  BY <1>1, WFMin
<1>4. ASSUME NEW y \in T PROVE x <= y
  <2>1. y \in Nat /\ x \in Nat
    OBVIOUS
  <2>2. ~(y < x)
    BY <1>2, <1>3, <2>1
  <2>3. QED BY <2>1, <2>2
<1>5. QED BY <1>4

(* Nothing is taken back. *)
LEMMA ForgivenGrows ==
  ASSUME Kinds, [Next]_vars
  PROVE  Forgiven \subseteq Forgiven'
BY PastGrows DEF Forgiven

(* What one step of the cascade takes. *)
LEMMA CascadeTakes ==
  ASSUME Kinds, Shape, NEW w \in Janitor, CascadeDelete(w)
  PROVE  \E x \in job[w].doomed :
           /\ memories' = WithDeleted(IF Live(x) THEN Versions(x) ELSE {})
           /\ job'[w].doomed = job[w].doomed \ {x} /\ job'[w].ended = job[w].ended
           /\ x \in Roots
<1> DEFINE x == CHOOSE n \in job[w].doomed : \A o \in job[w].doomed : n <= o
<1>1. job[w] \in DeletionJob /\ job[w].doomed # {}
  BY JobFields DEF CascadeDelete, Running, Proc
<1>2. job[w].doomed \in SUBSET Nat
  BY <1>1 DEF DeletionJob
<1>3. \E n \in job[w].doomed : \A o \in job[w].doomed : n <= o
  BY <1>1, <1>2, LeastNumber
<1>4. x \in job[w].doomed
  BY <1>3
<1>5. memories' = WithDeleted(Doomed(x)) /\ Become(w, [job[w] EXCEPT !.doomed = @ \ {x}])
  BY DEF CascadeDelete
<1> HIDE DEF x
<1>6. job'[w] = [job[w] EXCEPT !.doomed = @ \ {x}]
  BY <1>5 DEF Become, Kinds, JobKinds, Proc
<1>7. job'[w].doomed = job[w].doomed \ {x} /\ job'[w].ended = job[w].ended
  BY <1>1, <1>6 DEF DeletionJob
<1>8. x \in Roots
  BY <1>4 DEF Shape, JobsOK, JobOK, CascadeDelete, Proc
<1>9. QED BY <1>4, <1>5, <1>7, <1>8 DEF Doomed

(* A memory is deleted by a rollback of its run, or with all its versions. *)
LEMMA DeletedBy ==
  ASSUME Kinds, Shape, [Next]_vars, NEW m \in Ids, Live(m), memories'[m].deleted
  PROVE  \/ \E w \in Janitor : CommitRollback(w) /\ memories[m].run = job[w].run
         \/ \A n \in Ids : memories[n].root = memories[m].root => memories'[n].deleted
<1> DEFINE Goal ==
      \/ \E w \in Janitor : CommitRollback(w) /\ memories[m].run = job[w].run
      \/ \A n \in Ids : memories[n].root = memories[m].root => memories'[n].deleted
<1>1. CASE memories' = memories
  BY <1>1 DEF Live
<1>2. ASSUME NEW n \in Ids, EditMemory(n) PROVE FALSE
  BY <1>2, Edits DEF Live
<1>3. ASSUME NEW w \in Worker, StoreMemory(w) PROVE FALSE
  BY <1>3, Stored DEF Live, Proc
<1>4. ASSUME NEW w \in Janitor, CommitRollback(w) PROVE Goal
  <2>1. m \in job[w].doomed
    BY <1>4, Deleted DEF CommitRollback, Live
  <2>2. memories[m].run = job[w].run
    BY <1>4, <2>1 DEF Shape, JobsOK, JobOK, CommitRollback, Proc
  <2>3. QED BY <1>4, <2>2
<1>5. ASSUME NEW w \in Janitor, CascadeDelete(w) PROVE Goal
  <2>1. PICK x : memories' = WithDeleted(IF Live(x) THEN Versions(x) ELSE {})
    BY <1>5, CascadeTakes
  <2>2. m \in IF Live(x) THEN Versions(x) ELSE {}
    BY <2>1, Deleted DEF Live
  <2>3. Live(x) /\ memories[m].root = memories[x].root
    BY <2>2 DEF Versions
  <2>4. \A n \in Ids : memories[n].root = memories[m].root => n \in Versions(x)
    BY <2>3 DEF Versions
  <2>5. QED BY <2>1, <2>3, <2>4, Deleted
<1>6. ASSUME NEW w \in Worker, NEW range, NEW moves, StartExtract(w, range, moves)
      PROVE  memories' = memories
  BY <1>6 DEF StartExtract, store
<1>7. QED
  BY <1>1, <1>2, <1>3, <1>4, <1>5, <1>6
  DEF Next, vars, store, AppendMessage, Reconcile, CloseWindow, FailWindow, Advance, Cut,
      StartRollback, StartDelete, FinishDelete, Orphan, CutJanitor

(* After a rollback, its run is forgiven. *)
LEMMA RollbacksForgive ==
  ASSUME Kinds, NEW w \in Janitor, CommitRollback(w)
  PROVE  job[w].run \in Forgiven'
<1>1. CASE job[w].ended
  BY <1>1 DEF CommitRollback, Kinds, PastRow, Forgiven
<1>2. CASE ~job[w].ended
  BY <1>2 DEF CommitRollback, Kinds, PastRow, Forgiven
<1>3. QED BY <1>1, <1>2

(* Every step takes the versions of a memory together, but for a rollback. *)
LEMMA VersionsStayTogether ==
  ASSUME Kinds, Shape, VersionsGoTogether, [Next]_vars
  PROVE  VersionsGoTogether'
<1> USE Kinds, Shape, [Next]_vars
<1>1. ASSUME NEW m \in Ids, NEW n \in Ids', ~memories'[m].deleted,
             memories'[n].root = memories[m].root, memories'[n].run = memories[m].run
      PROVE  ~memories'[memories'[n].root].deleted \/ memories'[n].run \in Forgiven'
  <2>1. Live(m)
    BY <1>1, RowsGoOn DEF Kept, Live
  <2>2. memories[m].root \in Roots /\ memories[memories[m].root].run = memories[m].run
    BY DEF Shape, RowsOK, RowOK
  <2>3. CASE memories[m].run \in Forgiven
    BY <1>1, <2>3, ForgivenGrows
  <2>4. CASE Live(memories[m].root) /\ memories'[memories[m].root].deleted
    <3> DEFINE r == memories[m].root
    <3>1. r \in Ids /\ memories[r].root = r
      BY <2>2 DEF Roots
    <3>2. ASSUME NEW w \in Janitor, CommitRollback(w), memories[r].run = job[w].run
          PROVE  memories'[n].run \in Forgiven'
      BY <1>1, <2>2, <3>2, RollbacksForgive
    <3>3. CASE \A o \in Ids : memories[o].root = memories[r].root => memories'[o].deleted
      BY <1>1, <3>1, <3>3
    <3>4. QED BY <2>4, <3>1, <3>2, <3>3, DeletedBy
  <2>5. QED BY <1>1, <2>1, <2>3, <2>4 DEF VersionsGoTogether, Live
<1>2. ASSUME NEW n \in Ids', ~memories'[n].deleted
      PROVE  ~memories'[memories'[n].root].deleted \/ memories'[n].run \in Forgiven'
  <2>1. CASE n \in Ids
    BY <1>1, <1>2, <2>1, RowsGoOn DEF Kept
  <2>2. ASSUME NEW m \in Ids, memories'[n] = memories[m], EditMemory(m)
        PROVE  ~memories'[memories'[n].root].deleted \/ memories'[n].run \in Forgiven'
    <3>1. ~memories'[m].deleted
      BY <2>2, Edits
    <3>2. QED BY <1>1, <2>2, <3>1
  <2>3. CASE IsStored(n)
    BY <1>2, <2>3 DEF IsStored
  <2>4. QED BY <1>2, <2>1, <2>2, <2>3, RowsGoOn DEF IsCopy
<1>3. QED BY <1>2 DEF VersionsGoTogether, Live, Forgiven

(* Every step leaves a delete what it has yet to take. *)
LEMMA SweepsStayAll ==
  ASSUME Kinds, Shape, MemoriesHaveSources, CascadeInv, [Next]_vars,
         NEW w \in Proc, Running(w, "delete")', NEW m \in Ids', ~memories'[m].deleted,
         memories'[m].run \in job'[w].ended, memories'[m].run \notin Forgiven'
  PROVE  memories'[m].root \in job'[w].doomed
<1> USE Kinds, Shape, [Next]_vars
<1>1. CASE job'[w] = job[w]
  <2>1. Running(w, "delete") /\ \A r \in job[w].ended : Done(r)
    BY <1>1 DEF Running, Shape, JobsOK, JobOK
  <2>2. ASSUME NEW n \in Ids, Live(n), memories[n].run \in job[w].ended,
               memories[n].run \notin Forgiven'
        PROVE  memories[n].root \in job[w].doomed
    BY <2>1, <2>2, ForgivenGrows DEF CascadeInv, SweepsAll
  <2>3. CASE m \in Ids
    BY <1>1, <2>2, <2>3, RowsGoOn DEF Kept, Live
  <2>4. CASE IsCopy(m)
    BY <1>1, <2>2, <2>4 DEF IsCopy, Live
  <2>5. CASE IsStored(m)
    <3>1. memories'[m].root = m
      BY <2>5 DEF IsStored
    <3>2. m \in Ids
      BY <1>1, <2>1, <3>1, DoneGetsNothing
    <3>3. QED BY <2>3, <3>2
  <2>6. QED BY <2>3, <2>4, <2>5, RowsGoOn
<1>2. CASE w \in Janitor /\ StartDelete(w)
  <2>1. job'[w].doomed = sources /\ job'[w].ended = EndedRuns /\ UNCHANGED <<memories, past>>
    BY <1>2 DEF StartDelete, Become, Kinds, JobKinds, store
  <2>2. m \in Ids /\ Live(m) /\ memories[m].run \in EndedRuns /\ memories[m].run \notin Forgiven
    BY <2>1 DEF Ids, Live, Forgiven
  <2>3. /\ memories[m].root \in Roots
        /\ memories[memories[m].root].run = memories[m].run
    BY <2>2 DEF Shape, RowsOK, RowOK
  <2>4. Live(memories[m].root)
    BY <2>2 DEF CascadeInv, VersionsGoTogether
  <2>5. memories[m].root \in sources
    BY <2>2, <2>3, <2>4, EndedRunsHaveRows
  <2>6. QED BY <2>1, <2>5
<1>3. CASE w \in Janitor /\ CascadeDelete(w)
  <2>1. PICK x \in job[w].doomed :
          /\ memories' = WithDeleted(IF Live(x) THEN Versions(x) ELSE {})
          /\ job'[w].doomed = job[w].doomed \ {x} /\ job'[w].ended = job[w].ended
          /\ x \in Roots
    BY <1>3, CascadeTakes
  <2>2. m \in Ids /\ Live(m) /\ memories'[m].root = memories[m].root
        /\ memories'[m].run = memories[m].run
    BY <2>1, Deleted DEF Live
  <2>3. memories[m].run \in job[w].ended \ Forgiven
    BY <2>1, <2>2, ForgivenGrows
  <2>4. memories[m].root \in job[w].doomed
    BY <1>3, <2>2, <2>3 DEF CascadeInv, SweepsAll, CascadeDelete
  <2>5. ASSUME memories[m].root = x PROVE FALSE
    <3>1. Live(x)
      BY <2>2, <2>3, <2>5 DEF CascadeInv, VersionsGoTogether
    <3>2. m \in Versions(x)
      BY <2>1, <2>2, <2>5 DEF Versions, Roots
    <3>3. memories'[m].deleted
      BY <2>1, <2>2, <3>1, <3>2, Deleted
    <3>4. QED BY <3>3
  <2>6. QED BY <2>1, <2>2, <2>4, <2>5
<1>4. QED BY <1>1, <1>2, <1>3, DeletesGoOn

(* Every step leaves nothing of the runs that were swept. *)
LEMMA SweptStayEmpty ==
  ASSUME Kinds, Shape, CascadeInv, [Next]_vars, NEW m \in Ids', ~memories'[m].deleted,
         memories'[m].run \in past'.swept
  PROVE  memories'[m].run \in Forgiven'
<1> USE Kinds, Shape, [Next]_vars
<1>1. ASSUME NEW n \in Ids, Live(n), memories[n].run = memories'[m].run
      PROVE  memories'[m].run \in Forgiven'
  <2>1. CASE memories[n].run \in past.swept
    <3>1. memories[n].run \in Forgiven
      BY <1>1, <2>1 DEF CascadeInv, CascadeLeavesNothing, Forgiven
    <3>2. QED BY <1>1, <3>1, ForgivenGrows
  <2>2. ASSUME NEW w \in Janitor, FinishDelete(w), memories[n].run \in job[w].ended
        PROVE  memories'[m].run \in Forgiven'
    <3>1. Running(w, "delete") /\ job[w].doomed = {}
      BY <2>2 DEF FinishDelete
    <3>2. memories[n].run \in Forgiven
      BY <1>1, <2>2, <3>1 DEF CascadeInv, SweepsAll, Proc
    <3>3. QED BY <1>1, <3>2, ForgivenGrows
  <2>3. QED BY <1>1, <2>1, <2>2, SweptGoOn
<1>2. CASE m \in Ids
  BY <1>1, <1>2, RowsGoOn DEF Kept, Live
<1>3. CASE IsCopy(m)
  BY <1>1, <1>3 DEF IsCopy, Live
<1>4. CASE IsStored(m)
  <2>1. memories'[m].root = m
    BY <1>4 DEF IsStored
  <2>2. m \in Ids
    BY <2>1, UndoneRunsAreDone, DoneGetsNothing
  <2>3. QED BY <1>2, <2>2
<1>5. QED BY <1>2, <1>3, <1>4, RowsGoOn

(* Every step keeps what a delete will take, and what it leaves. *)
LEMMA CascadeStep ==
  ASSUME Kinds, Shape, MemoriesHaveSources, CascadeInv, [Next]_vars
  PROVE  CascadeInv'
<1>1. VersionsGoTogether'
  BY VersionsStayTogether DEF CascadeInv
<1>2. ASSUME NEW w \in Proc PROVE SweepsAll(w)'
  BY SweepsStayAll DEF SweepsAll, Live, Running, Forgiven
<1>3. CascadeLeavesNothing'
  BY SweptStayEmpty DEF CascadeLeavesNothing, Live, Forgiven
<1>4. QED BY <1>1, <1>2, <1>3 DEF CascadeInv

(* The delete of a thread leaves no version of a memory of a run that had ended when it
   began, whatever ran beside it, but for the runs that were rolled back, that died, or whose
   memories were let go. *)
THEOREM CascadesLeaveNothing == Spec => []CascadeLeavesNothing
<1>1. Init => CascadeInv
  <2>1. Init => Ids = {} /\ \A w \in Proc : ~Running(w, "delete")
    BY DEF Init, Running, Proc, Idle, Ids
  <2>2. QED BY <2>1 DEF CascadeInv, SweepsAll, VersionsGoTogether, CascadeLeavesNothing
<1>2. Kinds /\ Shape /\ MemoriesHaveSources /\ CascadeInv /\ [Next]_vars => CascadeInv'
  BY CascadeStep
<1>3. CascadeInv => CascadeLeavesNothing
  BY DEF CascadeInv
<1>4. QED BY <1>1, <1>2, <1>3, ShapeHolds, MemoriesAreTraced, PTL DEF Spec

------------------------------------------------------------------------------
(* Types *)

(* A run asks for windows of the messages that there were when it began, and a rollback for
   a run that there was. *)
WindowsFit ==
  \A w \in Proc :
    /\ Extracting(w) => /\ 1 <= job[w].window.from /\ job[w].window.from <= job[w].window.to
                        /\ job[w].window.to <= job[w].upto /\ job[w].upto <= Len(said)
    /\ Running(w, "rollback") => job[w].run \in 1..past.started

PastFits ==
  /\ past.started <= MaxRuns
  /\ past.processed \subseteq Number /\ failures \subseteq Number
  /\ past.loose \subseteq 1..past.started
  /\ past.beside \subseteq (1..past.started) \X (1..past.started)

BoundsInv ==
  /\ Len(said) <= MaxMessages /\ cursor <= Len(said) /\ gone \in BOOLEAN
  /\ WindowsFit /\ PastFits

(* Windows are cut from what was asked for. *)
LEMMA AnsweredFits ==
  ASSUME NEW from \in Nat, NEW upto \in Nat, NEW window \in Answered(from, upto)
  PROVE  window.from = from /\ window.to \in Nat /\ from <= window.to /\ window.to <= upto
BY DEF Answered, Windows

(* What a window covers was said. *)
LEMMA CoveredFits ==
  ASSUME Kinds, BoundsInv, NEW w \in Proc, Extracting(w)
  PROVE  Covered(job[w]) \subseteq Number
<1>1. /\ job[w].window.from \in Nat /\ job[w].window.to \in Nat /\ job[w].upto \in Nat
      /\ Len(said) \in Nat
  BY JobFields, LenProperties DEF ExtractionJob, Window, Kinds
<1>2. QED BY <1>1, RangeAssumption DEF BoundsInv, WindowsFit, Covered, Number

(* The thread only grows. *)
LEMMA SaidGrows ==
  ASSUME Kinds, BoundsInv, [Next]_vars
  PROVE  Len(said) <= Len(said') /\ Len(said') <= MaxMessages /\ Len(said') \in Nat
<1>1. Len(said) \in Nat
  BY LenProperties DEF Kinds
<1>2. ASSUME NEW f \in Fact, AppendMessage(f) PROVE Len(said') = Len(said) + 1
  BY <1>2, AppendProperties DEF AppendMessage, Kinds
<1>3. CASE said' = said
  BY <1>1, <1>3 DEF BoundsInv
<1>4. CASE \E f \in Fact : AppendMessage(f)
  BY <1>1, <1>2, <1>4, RangeAssumption DEF AppendMessage
<1>5. QED
  BY <1>3, <1>4
  DEF Next, vars, thread, EditMemory, StartExtract, Reconcile, StoreMemory, CloseWindow,
      FailWindow, Advance, Cut, StartRollback, CommitRollback, StartDelete, CascadeDelete,
      FinishDelete, Orphan, CutJanitor

(* Past is only added to. *)
LEMMA PastStaysFit ==
  ASSUME Kinds, Shape, BoundsInv, [Next]_vars
  PROVE  PastFits' /\ past.started <= past'.started /\ past'.started \in Nat
<1> DEFINE Goal == PastFits' /\ past.started <= past'.started /\ past'.started \in Nat
<1>1. PastFits /\ past \in PastRow /\ past.started \in Nat
  BY DEF BoundsInv, Kinds, PastRow
<1>2. CASE past' = past /\ failures' = failures
  BY <1>1, <1>2 DEF PastFits
<1>3. ASSUME NEW w \in Worker, NEW range, NEW moves, StartExtract(w, range, moves) PROVE Goal
  <2>1. InProgress \subseteq 1..past.started
    BY DEF InProgress, Shape, JobsOK, JobOK, Proc
  <2>2. /\ past'.started = past.started + 1
        /\ past'.beside = past.beside \cup ({past.started + 1} \X InProgress)
        /\ past'.processed = past.processed /\ past'.loose = past.loose
        /\ failures' = failures /\ past.started < MaxRuns
    BY <1>1, <1>3 DEF StartExtract, PastRow
  <2>3. 1..past.started \subseteq 1..past'.started /\ past'.started \in 1..past'.started
    BY <1>1, <2>2
  <2>4. past'.beside \subseteq (1..past'.started) \X (1..past'.started)
    BY <1>1, <2>1, <2>2, <2>3 DEF PastFits
  <2>5. QED BY <1>1, <2>2, <2>3, <2>4, RangeAssumption DEF PastFits
<1>4. ASSUME NEW w \in Worker, CloseWindow(w) PROVE Goal
  <2>1. Covered(job[w]) \subseteq Number
    BY <1>4, CoveredFits DEF CloseWindow, Running, Extracting, Proc
  <2>2. QED BY <1>1, <1>4, <2>1 DEF CloseWindow, PastFits, PastRow
<1>5. ASSUME NEW w \in Worker, FailWindow(w) PROVE Goal
  <2>1. Covered(job[w]) \subseteq Number
    BY <1>5, CoveredFits DEF FailWindow, Extracting, Proc
  <2>2. QED BY <1>1, <1>5, <2>1 DEF FailWindow, PastFits
<1>6. ASSUME NEW w \in Worker, Cut(w) PROVE Goal
  <2>1. job[w].run \in 1..past.started
    BY <1>6 DEF Cut, Shape, JobsOK, JobOK, Proc
  <2>2. QED BY <1>1, <1>6, <2>1 DEF Cut, PastFits, PastRow
<1>7. ASSUME NEW w \in Janitor, CommitRollback(w) PROVE Goal
  <2>1. job[w].run \in 1..past.started
    BY <1>7 DEF CommitRollback, BoundsInv, WindowsFit, Proc
  <2>2. CASE job[w].ended
    BY <1>1, <1>7, <2>2 DEF CommitRollback, PastFits, PastRow
  <2>3. CASE ~job[w].ended
    BY <1>1, <1>7, <2>1, <2>3 DEF CommitRollback, PastFits, PastRow
  <2>4. QED BY <2>2, <2>3
<1>8. ASSUME NEW w \in Janitor, FinishDelete(w) PROVE Goal
  BY <1>1, <1>8 DEF FinishDelete, PastFits, PastRow
<1>9. ASSUME NEW w \in Janitor, Orphan(w) PROVE Goal
  <2>1. /\ past'.started = past.started /\ past'.processed = past.processed
        /\ past'.beside = past.beside /\ past'.loose = past.loose \cup (1..past.started)
        /\ failures' = failures
    BY <1>1, <1>9 DEF Orphan, PastRow
  <2>2. QED BY <1>1, <2>1 DEF PastFits
<1>10. QED
  BY <1>2, <1>3, <1>4, <1>5, <1>6, <1>7, <1>8, <1>9
  DEF Next, vars, AppendMessage, EditMemory, Reconcile, StoreMemory, Advance, StartRollback,
      StartDelete, CascadeDelete, CutJanitor

(* No step lets a window or a rollback out of bounds. *)
LEMMA BoundsStep ==
  ASSUME Kinds, Shape, BoundsInv, [Next]_vars
  PROVE  BoundsInv'
<1> USE Kinds, Shape, BoundsInv, [Next]_vars
<1>1. /\ Len(said) \in Nat /\ Len(said') \in Nat /\ Len(said) <= Len(said')
      /\ Len(said') <= MaxMessages
  BY SaidGrows, LenProperties DEF Kinds
<1>2. /\ PastFits' /\ past.started \in Nat /\ past'.started \in Nat
      /\ past.started <= past'.started
  BY PastStaysFit DEF Kinds, PastRow
<1> DEFINE Fits(w) ==
      /\ Extracting(w) => /\ 1 <= job[w].window.from /\ job[w].window.from <= job[w].window.to
                          /\ job[w].window.to <= job[w].upto /\ job[w].upto <= Len(said)
      /\ Running(w, "rollback") => job[w].run \in 1..past.started
<1>3. \A w \in Proc : Fits(w)
  BY DEF BoundsInv, WindowsFit
<1>4. \A w \in Proc : Extracting(w) =>
        /\ job[w].window.from \in Nat /\ job[w].window.to \in Nat /\ job[w].upto \in Nat
  BY JobFields DEF ExtractionJob, Window
<1>5. ASSUME NEW w \in Proc, job'[w] = job[w] PROVE Fits(w)'
  BY <1>1, <1>2, <1>3, <1>4, <1>5 DEF Extracting, Running
<1>6. ASSUME NEW w \in Proc, NEW j, Become(w, j),
             j.op \in {"reconcile", "store", "advance"} =>
               /\ j.window.from \in Nat /\ j.window.to \in Nat /\ j.upto \in Nat
               /\ 1 <= j.window.from /\ j.window.from <= j.window.to
               /\ j.window.to <= j.upto /\ j.upto <= Len(said),
             j.op = "rollback" => j.run \in 1..past.started
      PROVE  WindowsFit'
  <2>1. job'[w] = j /\ \A v \in Proc \ {w} : job'[v] = job[v]
    BY <1>6 DEF Become, Kinds, JobKinds
  <2>2. Fits(w)'
    BY <1>1, <1>2, <1>6, <2>1 DEF Extracting, Running
  <2>3. QED BY <1>5, <2>1, <2>2 DEF WindowsFit
<1>7. ASSUME NEW w \in Proc, NEW j, Become(w, j), Extracting(w), j.op # "rollback",
             j.window.from = job[w].window.from, j.window.to = job[w].window.to,
             j.upto = job[w].upto
      PROVE  WindowsFit'
  BY <1>3, <1>4, <1>6, <1>7
<1>8. ASSUME NEW w \in Proc, Finish(w) PROVE WindowsFit'
  BY <1>6, <1>8 DEF Finish, Idle
<1>9. ASSUME NEW w \in Worker, NEW range, NEW moves, StartExtract(w, range, moves),
             range.from \in Nat, range.upto \in Nat, 1 <= range.from,
             range.upto <= Len(said)
      PROVE  WindowsFit'
  <2>1. PICK window \in Answered(range.from, range.upto) :
          Become(w, [op |-> "reconcile", run |-> past.started + 1, moves |-> moves,
                     window |-> window, upto |-> range.upto, fact |-> None, pending |-> {}])
    BY <1>9 DEF StartExtract
  <2>2. QED BY <1>6, <1>9, <2>1, AnsweredFits DEF Proc
<1>10. ASSUME NEW w \in Worker, StartExtract(w, Unread, TRUE) PROVE WindowsFit'
  <2>1. Unread.from = cursor + 1 /\ Unread.upto = Len(said)
    BY DEF Unread
  <2>2. Unread.from \in Nat /\ 1 <= Unread.from
    BY <2>1 DEF Kinds
  <2>3. Unread.upto \in Nat /\ Unread.upto <= Len(said)
    BY <1>1, <2>1
  <2>4. QED BY <1>9, <1>10, <2>2, <2>3
<1>11. ASSUME NEW w \in Worker, NEW range \in TurnRange, range.upto <= Len(said),
              StartExtract(w, range, FALSE)
       PROVE  WindowsFit'
  <2>1. range.from \in Nat \ {0} /\ range.upto \in Nat
    BY <1>11, RangeAssumption
  <2>2. range.from \in Nat /\ 1 <= range.from
    BY <2>1
  <2>3. QED BY <1>9, <1>11, <2>1, <2>2
<1>12. ASSUME NEW w \in Worker, Reconcile(w) PROVE WindowsFit'
  <2>1. PICK f : Become(w, IF Known(f)
                  THEN [job[w] EXCEPT !.window.left = @ \ {f}]
                  ELSE [job[w] EXCEPT !.op = "store", !.window.left = @ \ {f}, !.fact = f])
    BY <1>12 DEF Reconcile
  <2>2. job[w] \in ExtractionJob /\ Extracting(w) /\ job[w].op = "reconcile"
    BY <1>12, JobFields DEF Reconcile, Running, Extracting, Proc
  <2>3. LET j == [job[w] EXCEPT !.window.left = @ \ {f}]
        IN  /\ j.op = "reconcile" /\ j.upto = job[w].upto
            /\ j.window.from = job[w].window.from /\ j.window.to = job[w].window.to
    BY <2>2 DEF ExtractionJob, Window
  <2>4. LET j == [job[w] EXCEPT !.op = "store", !.window.left = @ \ {f}, !.fact = f]
        IN  /\ j.op = "store" /\ j.upto = job[w].upto
            /\ j.window.from = job[w].window.from /\ j.window.to = job[w].window.to
    BY <2>2 DEF ExtractionJob, Window
  <2>5. QED BY <1>7, <2>1, <2>2, <2>3, <2>4 DEF Proc
<1>13. ASSUME NEW w \in Worker, StoreMemory(w) PROVE WindowsFit'
  <2>1. PICK id :
          Become(w, [job[w] EXCEPT !.op = "reconcile", !.fact = None, !.pending = {id}])
    BY <1>13, Stored DEF Proc, Become
  <2>2. job[w] \in ExtractionJob /\ Extracting(w)
    BY <1>13, JobFields DEF StoreMemory, Running, Extracting, Proc
  <2>3. LET j == [job[w] EXCEPT !.op = "reconcile", !.fact = None, !.pending = {id}]
        IN  /\ j.op = "reconcile" /\ j.upto = job[w].upto
            /\ j.window.from = job[w].window.from /\ j.window.to = job[w].window.to
    BY <2>2 DEF ExtractionJob, Window
  <2>4. QED BY <1>7, <2>1, <2>2, <2>3 DEF Proc
<1>14. ASSUME NEW w \in Worker, CloseWindow(w) PROVE WindowsFit'
  <2>1. job[w] \in ExtractionJob /\ Extracting(w)
    BY <1>14, JobFields DEF CloseWindow, Running, Extracting, Proc
  <2>2. LET j == [job[w] EXCEPT !.op = "advance", !.pending = {}]
        IN  /\ j.op = "advance" /\ j.upto = job[w].upto
            /\ j.window.from = job[w].window.from /\ j.window.to = job[w].window.to
    BY <2>1 DEF ExtractionJob, Window
  <2>3. QED BY <1>7, <1>14, <2>1, <2>2 DEF CloseWindow, Proc
<1>15. ASSUME NEW w \in Worker, FailWindow(w) PROVE WindowsFit'
  <2>1. job[w] \in ExtractionJob /\ Extracting(w)
    BY <1>15, JobFields DEF FailWindow, Extracting, Proc
  <2>2. LET j == [job[w] EXCEPT !.op = "advance", !.window.left = {}, !.fact = None,
                                !.pending = {}]
        IN  /\ j.op = "advance" /\ j.upto = job[w].upto
            /\ j.window.from = job[w].window.from /\ j.window.to = job[w].window.to
    BY <2>1 DEF ExtractionJob, Window
  <2>3. QED BY <1>7, <1>15, <2>1, <2>2 DEF FailWindow, Proc
<1>16. ASSUME NEW w \in Worker, Advance(w) PROVE WindowsFit' /\ cursor' <= Len(said')
  <2>1. job[w] \in ExtractionJob /\ Extracting(w)
    BY <1>16, JobFields DEF Advance, Running, Extracting, Proc
  <2>2. cursor' <= Len(said')
    <3>1. cursor' = IF job[w].moves THEN job[w].window.to ELSE cursor
      BY <1>16 DEF Advance, Reached
    <3>2. /\ job[w].window.to \in Nat /\ job[w].upto \in Nat
          /\ job[w].window.to <= job[w].upto /\ job[w].upto <= Len(said)
      BY <1>3, <1>4, <2>1 DEF Proc
    <3>3. cursor \in Nat /\ cursor <= Len(said)
      BY DEF Kinds, BoundsInv
    <3>4. QED BY <1>1, <3>1, <3>2, <3>3
  <2>3. ASSUME NEW window \in Answered(job[w].window.to + 1, job[w].upto),
               Become(w, [job[w] EXCEPT !.op = "reconcile", !.window = window])
        PROVE  WindowsFit'
    <3>1. LET j == [job[w] EXCEPT !.op = "reconcile", !.window = window]
          IN  j.op = "reconcile" /\ j.upto = job[w].upto /\ j.window = window
      BY <2>1 DEF ExtractionJob
    <3>2. job[w].window.to + 1 \in Nat /\ 1 <= job[w].window.to + 1
      BY <1>4, <2>1 DEF Proc
    <3>3. /\ window.from = job[w].window.to + 1 /\ window.to \in Nat
          /\ window.from <= window.to /\ window.to <= job[w].upto
      BY <1>4, <2>1, <2>3, <3>2, AnsweredFits DEF Proc
    <3>4. job[w].upto \in Nat /\ job[w].upto <= Len(said)
      BY <1>3, <1>4, <2>1 DEF Proc
    <3>5. QED BY <1>6, <2>3, <3>1, <3>2, <3>3, <3>4 DEF Proc
  <2>4. QED BY <1>8, <1>16, <2>2, <2>3 DEF Advance, Proc
<1>17. ASSUME NEW w \in Janitor, NEW run \in 1..past.started, StartRollback(w, run)
       PROVE  WindowsFit'
  BY <1>6, <1>17 DEF StartRollback, Proc
<1>18. ASSUME NEW w \in Janitor, StartDelete(w) PROVE WindowsFit'
  BY <1>6, <1>18 DEF StartDelete, Proc
<1>19. ASSUME NEW w \in Janitor, CascadeDelete(w) PROVE WindowsFit'
  <2>1. PICK m : Become(w, [job[w] EXCEPT !.doomed = @ \ {m}])
    BY <1>19 DEF CascadeDelete
  <2>2. job[w] \in DeletionJob
    BY <1>19, JobFields DEF CascadeDelete, Running, Proc
  <2>3. [job[w] EXCEPT !.doomed = @ \ {m}].op = "delete"
    BY <2>2 DEF DeletionJob
  <2>4. QED BY <1>6, <2>1, <2>3 DEF Proc
<1>20. ASSUME UNCHANGED job PROVE WindowsFit'
  <2>1. ASSUME NEW w \in Proc PROVE Fits(w)'
    BY <1>5, <1>20
  <2>2. QED BY <2>1 DEF WindowsFit
<1> HIDE DEF Fits
<1>21. WindowsFit'
  <2>1. ASSUME NEW w \in Worker, Cut(w) PROVE WindowsFit'
    BY <1>8, <2>1 DEF Cut, Proc
  <2>2. ASSUME NEW w \in Janitor,
               CommitRollback(w) \/ FinishDelete(w) \/ Orphan(w) \/ CutJanitor(w)
        PROVE  WindowsFit'
    BY <1>8, <2>2 DEF CommitRollback, FinishDelete, Orphan, CutJanitor, Proc
  <2>3. CASE \/ \E f \in Fact : AppendMessage(f)
             \/ \E m \in Ids : EditMemory(m)
             \/ UNCHANGED vars
    <3>1. UNCHANGED job
      BY <2>3 DEF AppendMessage, EditMemory, vars
    <3>2. QED BY <1>20, <3>1
  <2>4. QED
    BY <1>10, <1>11, <1>12, <1>13, <1>14, <1>15, <1>16, <1>17, <1>18, <1>19, <2>1, <2>2, <2>3
    DEF Next
<1>22. cursor' <= Len(said') /\ gone' \in BOOLEAN
  <2>1. CASE \E w \in Worker : Advance(w)
    BY <1>16, <2>1 DEF Advance, BoundsInv
  <2>2. CASE cursor' = cursor /\ gone' \in BOOLEAN
    BY <1>1, <2>2 DEF BoundsInv, Kinds
  <2>3. QED
    BY <2>1, <2>2
    DEF Next, vars, thread, AppendMessage, EditMemory, StartExtract, Reconcile, StoreMemory,
        CloseWindow, FailWindow, Cut, StartRollback, CommitRollback, StartDelete,
        CascadeDelete, FinishDelete, Orphan, CutJanitor, BoundsInv
<1>23. QED BY <1>1, <1>2, <1>21, <1>22 DEF BoundsInv

(* The kinds, the shape and the bounds are the types. *)
LEMMA TypesFollow ==
  ASSUME Kinds, Shape, BoundsInv
  PROVE  ExtractionTypeOK
<1>1. /\ Len(said) \in Nat /\ past \in PastRow /\ past.started \in Nat
      /\ Len(memories) \in Nat /\ DOMAIN memories = 1..Len(memories)
  BY LenProperties DEF Kinds, PastRow
<1>2. Ids \subseteq Id /\ Roots \subseteq Ids
  BY <1>1 DEF Ids, Id, Roots
<1>3. 1..past.started \subseteq Run /\ 1..Len(said) \subseteq Number
  BY <1>1, RangeAssumption DEF BoundsInv, PastFits, Run, Number
<1>4. cursor \in 0..Len(said)
  BY <1>1 DEF BoundsInv, Kinds
<1>5. memories \in Seq(Memory)
  <2>1. memories \in [1..Len(memories) -> Memory]
    <3>1. \A m \in Ids : memories[m] \in MemoryRow
      BY <1>1 DEF Ids, Kinds
    <3>2. \A m \in Ids : memories[m].run \in Run /\ memories[m].root \in Id
      BY <1>2, <1>3 DEF Shape, RowsOK, RowOK
    <3>3. \A m \in Ids : memories[m] \in Memory
      BY <3>1, <3>2 DEF MemoryRow, Memory
    <3>4. QED BY <1>1, <3>3 DEF Ids, Kinds
  <2>2. QED BY <1>1, <2>1
<1>6. ASSUME NEW w \in Proc
      PROVE  job[w] \in {Idle} \cup Extraction \cup Rollback \cup Deletion
  <2>1. CASE Extracting(w)
    <3>1. job[w] \in ExtractionJob
      BY <2>1, JobFields
    <3>2. /\ job[w].window.from \in 1..Len(said) /\ job[w].window.to \in 1..Len(said)
          /\ job[w].upto \in 1..Len(said)
      BY <1>1, <2>1, <3>1 DEF BoundsInv, WindowsFit, ExtractionJob, Window
    <3>3. job[w].run \in Run /\ job[w].pending \subseteq Id
      BY <1>2, <1>3, <2>1 DEF Shape, JobsOK, JobOK
    <3>4. job[w].window \in [from : Number, to : Number, left : SUBSET Fact]
      BY <1>3, <3>1, <3>2 DEF ExtractionJob, Window
    <3>5. QED BY <1>3, <3>1, <3>2, <3>3, <3>4 DEF Extraction, ExtractionJob
  <2>2. CASE Running(w, "rollback")
    <3>1. job[w] \in RollbackJob
      BY <2>2, JobFields
    <3>2. job[w].run \in Run /\ job[w].doomed \subseteq Id
      BY <1>2, <1>3, <2>2 DEF BoundsInv, WindowsFit, Shape, JobsOK, JobOK
    <3>3. QED BY <3>1, <3>2 DEF Rollback, RollbackJob
  <2>3. CASE Running(w, "delete")
    <3>1. job[w] \in DeletionJob
      BY <2>3, JobFields
    <3>2. job[w].ended \subseteq Run /\ job[w].doomed \subseteq Id
      BY <1>2, <1>3, <2>3 DEF Shape, JobsOK, JobOK, Done
    <3>3. QED BY <3>1, <3>2 DEF Deletion, DeletionJob
  <2>4. QED
    BY <2>1, <2>2, <2>3, JobFields
    DEF Extracting, Running, ExtractionJob, RollbackJob, DeletionJob
<1>7. past \in Past
  <2>1. /\ past.started \in 0..MaxRuns /\ past.loose \subseteq Run
        /\ past.beside \subseteq Run \X Run
        /\ past.processed \subseteq Number
    BY <1>1, <1>3, RangeAssumption DEF BoundsInv, PastFits
  <2>2. past.undone \subseteq Run /\ past.swept \subseteq Run
    BY <1>3 DEF Shape, Done
  <2>3. QED BY <1>1, <2>1, <2>2 DEF Past, PastRow
<1>8. job \in [Worker \cup Janitor -> {Idle} \cup Extraction \cup Rollback \cup Deletion]
  BY <1>6 DEF Kinds, JobKinds, Proc
<1>9. sources \subseteq Ids /\ decided \subseteq Ids /\ failures \subseteq Number
  BY <1>2 DEF Shape, BoundsInv, PastFits
<1>10. QED BY <1>4, <1>5, <1>7, <1>8, <1>9 DEF ExtractionTypeOK, Kinds, BoundsInv

(* Windows lie within the thread, the cursor does not pass it, and what is pending, doomed,
   recorded or decided is a memory, whatever runs, edits and janitors do. *)
THEOREM ExtractionTypesHold == Spec => []ExtractionTypeOK
<1>1. Init => BoundsInv
  <2>1. Init => \A w \in Proc : ~Extracting(w) /\ ~Running(w, "rollback")
    BY DEF Init, Extracting, Running, Proc, Idle
  <2>2. Init => WindowsFit
    BY <2>1 DEF WindowsFit
  <2>3. Init => Len(said) = 0 /\ cursor = 0 /\ gone \in BOOLEAN
    BY DEF Init
  <2>4. Init => PastFits
    BY RangeAssumption DEF Init, PastFits
  <2>5. QED BY <2>2, <2>3, <2>4, RangeAssumption DEF BoundsInv
<1>2. Kinds /\ Shape /\ BoundsInv /\ [Next]_vars => BoundsInv'
  BY BoundsStep
<1>3. Kinds /\ Shape /\ BoundsInv => ExtractionTypeOK
  BY TypesFollow
<1>4. QED BY <1>1, <1>2, <1>3, ShapeHolds, PTL DEF Spec

================================================================================
