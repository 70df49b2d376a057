---------------------- MODULE ConversationThreadsProofs -----------------------
(* Theorems about ConversationThreads, for every value of its constants. *)
EXTENDS ConversationThreads, FiniteSetTheorems, TLAPS

(* The part of the types that the steps of a proof need: rows and calls are records of    *)
(* their kinds, about threads that were minted.  What numbers and keys are is left open.  *)
Made == minted \cap Thread

IsRow(m) == m = [thread |-> m.thread, seq |-> m.seq, ref |-> m.ref, said |-> m.said]

RowsHaveShape ==
  /\ threads = [t \in DOMAIN threads |-> threads[t]]
  /\ DOMAIN threads \subseteq Made
  /\ \A t \in DOMAIN threads : threads[t] \in ThreadRow
  /\ \A m \in messages : IsRow(m)

IsCall(r, made) ==
  \/ r = Idle
  \/ \E row : IsRow(row) /\ r = [op |-> "upload", row |-> row]
  \/ \E row : IsRow(row) /\ r = [op |-> "append", row |-> row]
  \/ \E t \in made : r = [op |-> "archive", thread |-> t]
  \/ \E rows : (\A m \in rows : IsRow(m)) /\ r = [op |-> "fork", rows |-> rows]
  \/ \E t \in made, seen \in ThreadRow : r = [op |-> "delete", thread |-> t, seen |-> seen]
  \/ \E t \in made : r = [op |-> "audit", thread |-> t]
  \/ \E t \in made, by \in Removals, held \in BOOLEAN : \E refs :
       r = [op |-> "remove", thread |-> t, by |-> by, held |-> held, refs |-> refs]
  \/ \E refs : r = [op |-> "clean", refs |-> refs]

CallsHaveShape ==
  /\ call = [c \in Client |-> call[c]]
  /\ \A c \in Client : IsCall(call[c], Made)

Shape == RowsHaveShape /\ CallsHaveShape

(* Every step names the client or the thread that takes it. *)
StartStep(c, t) ==
  \/ StartAppend(c, t) \/ StartArchive(c, t) \/ StartFork(c, t)
  \/ StartDelete(c, t) \/ StartRemove(c, t)

------------------------------------------------------------------------------

(* A minted id is one that was not handed out before. *)
LEMMA NewThreadIsNew ==
  ASSUME Thread \ minted # {}
  PROVE  NewThread \in Thread \ minted
BY DEF NewThread

(* A thread that was made remains made. *)
LEMMA CallsKeepShape ==
  ASSUME NEW r, NEW made, NEW more, made \subseteq more, IsCall(r, made)
  PROVE  IsCall(r, more)
BY DEF IsCall

(* A step changes the call of one client at most. *)
LEMMA OneCallChanges ==
  ASSUME CallsHaveShape, NEW c \in Client, NEW r, IsCall(r, Made'), Continue(c, r),
         Made \subseteq Made'
  PROVE  /\ CallsHaveShape'
         /\ call'[c] = r
         /\ \A d \in Client \ {c} : call'[d] = call[d]
<1>1. call' = [d \in Client |-> IF d = c THEN r ELSE call[d]]
  BY DEF CallsHaveShape, Continue
<1>2. ASSUME NEW d \in Client \ {c} PROVE IsCall(call[d], Made')
  BY CallsKeepShape DEF CallsHaveShape
<1>3. QED BY <1>1, <1>2 DEF CallsHaveShape

(* A client that becomes idle. *)
LEMMA OneCallEnds ==
  ASSUME CallsHaveShape, NEW c \in Client, Finish(c), Made \subseteq Made'
  PROVE  /\ CallsHaveShape'
         /\ call'[c] = Idle
         /\ \A d \in Client \ {c} : call'[d] = call[d]
<1>1. IsCall(Idle, Made') /\ Continue(c, Idle)
  BY DEF IsCall, Finish, Continue
<1>2. QED BY <1>1, OneCallChanges

(* What a running call holds. *)
LEMMA CallKinds ==
  ASSUME NEW r, NEW made, IsCall(r, made)
  PROVE  /\ r.op \in {"upload", "append"} =>
              IsRow(r.row) /\ r = [op |-> r.op, row |-> r.row]
         /\ r.op \in {"archive", "delete", "audit", "remove"} => r.thread \in made
         /\ r.op = "fork" => \A m \in r.rows : IsRow(m)
         /\ r.op = "delete" => r.seen \in ThreadRow
         /\ r.op = "remove" => r.by \in Removals /\ r.held \in BOOLEAN
<1>1. CASE r = Idle
  BY <1>1 DEF Idle
<1>2. CASE \E row : IsRow(row) /\ r = [op |-> "upload", row |-> row]
  <2>1. PICK row : IsRow(row) /\ r = [op |-> "upload", row |-> row]
    BY <1>2
  <2>2. r.op = "upload" /\ r.row = row
    BY <2>1
  <2>3. QED BY <2>1, <2>2
<1>3. CASE \E row : IsRow(row) /\ r = [op |-> "append", row |-> row]
  <2>1. PICK row : IsRow(row) /\ r = [op |-> "append", row |-> row]
    BY <1>3
  <2>2. r.op = "append" /\ r.row = row
    BY <2>1
  <2>3. QED BY <2>1, <2>2
<1>4. CASE \E t \in made : r = [op |-> "archive", thread |-> t]
  BY <1>4
<1>5. CASE \E rows : (\A m \in rows : IsRow(m)) /\ r = [op |-> "fork", rows |-> rows]
  BY <1>5
<1>6. CASE \E t \in made, seen \in ThreadRow : r = [op |-> "delete", thread |-> t, seen |-> seen]
  BY <1>6
<1>7. CASE \E t \in made, by \in Removals, held \in BOOLEAN : \E refs :
             r = [op |-> "remove", thread |-> t, by |-> by, held |-> held, refs |-> refs]
  BY <1>7
<1>8. CASE \E refs : r = [op |-> "clean", refs |-> refs]
  BY <1>8
<1>9. CASE \E t \in made : r = [op |-> "audit", thread |-> t]
  BY <1>9
<1>10. QED BY <1>1, <1>2, <1>3, <1>4, <1>5, <1>6, <1>7, <1>8, <1>9 DEF IsCall

------------------------------------------------------------------------------

(* A copied message is a row, and refers to what the original refers to. *)
LEMMA CopiesAreRows ==
  ASSUME NEW rows, NEW t, \A m \in rows : IsRow(m)
  PROVE  \A n \in ForkOf(t, rows) : IsRow(n) /\ \E m \in rows : n.ref = m.ref
<1> TAKE n \in ForkOf(t, rows)
<1>1. PICK m \in rows :
        n = [m EXCEPT !.thread = t, !.seq = Cardinality({k \in rows : k.seq <= m.seq})]
  BY DEF ForkOf
<1> DEFINE rank == Cardinality({k \in rows : k.seq <= m.seq})
<1>2. m = [thread |-> m.thread, seq |-> m.seq, ref |-> m.ref, said |-> m.said]
  BY DEF IsRow
<1>3. n = [m EXCEPT !.thread = t, !.seq = rank]
  BY <1>1
<1> HIDE DEF rank
<1>4. n = [thread |-> t, seq |-> rank, ref |-> m.ref, said |-> m.said]
  BY <1>2, <1>3
<1>5. QED BY <1>4 DEF IsRow

(* The new row of a thread. *)
LEMMA ThreadIsAdded ==
  ASSUME RowsHaveShape, Thread \ minted # {},
         threads' = WithThread(NewThread, Fresh), minted' = minted \cup {NewThread},
         \A m \in messages' : IsRow(m)
  PROVE  RowsHaveShape' /\ Made \subseteq Made' /\ Removed \subseteq Removed'
<1>1. NewThread \in Thread \ minted
  BY NewThreadIsNew
<1>2. Fresh \in ThreadRow
  BY DEF Fresh, ThreadRow, Status
<1>3. QED BY <1>1, <1>2 DEF RowsHaveShape, WithThread, Made, Removed, IsRow

(* Rows keep their shape, and removed threads stay removed, through every step. *)
LEMMA ShapeStep ==
  ASSUME Shape, [Next]_vars
  PROVE  Shape' /\ Removed \subseteq Removed'
<1> USE DEF Shape
<1> DEFINE Kept == RowsHaveShape' /\ Made \subseteq Made' /\ Removed \subseteq Removed'
<1>0. ASSUME threads' = threads, messages' = messages, minted \subseteq minted'
      PROVE  Kept
  BY <1>0 DEF RowsHaveShape, Made, Removed, IsRow
<1>a. \A made : IsCall(Idle, made)
  BY DEF IsCall
<1>1. ASSUME NEW c \in Client, CreateThread(c) PROVE Shape' /\ Removed \subseteq Removed'
  <2>1. Kept
    BY <1>1, ThreadIsAdded DEF CreateThread, RowsHaveShape, IsRow
  <2>2. CallsHaveShape'
    BY <1>1, <2>1, CallsKeepShape DEF CreateThread, CallsHaveShape
  <2>3. QED BY <2>1, <2>2
<1>2. ASSUME NEW c \in Client, NEW t \in DOMAIN threads, StartAppend(c, t)
      PROVE  Shape' /\ Removed \subseteq Removed'
  <2>1. Kept
    BY <1>0, <1>2 DEF StartAppend
  <2>2. PICK s3 \in BOOLEAN :
          Continue(c, [op |-> IF s3 THEN "upload" ELSE "append",
                       row |-> [thread |-> t, seq |-> NextSequence(t), said |-> NewMessage,
                                ref |-> IF s3 THEN <<t, NextSequence(t)>> ELSE None]])
    BY <1>2 DEF StartAppend
  <2> DEFINE row == [thread |-> t, seq |-> NextSequence(t), said |-> NewMessage,
                     ref |-> IF s3 THEN <<t, NextSequence(t)>> ELSE None]
  <2>3. IsRow(row)
    BY DEF IsRow
  <2>4. IsCall([op |-> IF s3 THEN "upload" ELSE "append", row |-> row], Made')
    BY <2>3 DEF IsCall
  <2>5. CallsHaveShape'
    BY <2>1, <2>2, <2>4, OneCallChanges
  <2>6. QED BY <2>1, <2>5
<1>3. ASSUME NEW c \in Client, Upload(c) PROVE Shape' /\ Removed \subseteq Removed'
  <2>1. Kept
    BY <1>0, <1>3 DEF Upload
  <2>2. IsRow(call[c].row) /\ call[c] = [op |-> "upload", row |-> call[c].row]
    BY <1>3, CallKinds DEF Upload, Running, CallsHaveShape
  <2>3. [call[c] EXCEPT !.op = "append"] = [op |-> "append", row |-> call[c].row]
    BY <2>2
  <2>4. IsCall([op |-> "append", row |-> call[c].row], Made')
    BY <2>2 DEF IsCall
  <2>5. CallsHaveShape'
    BY <1>3, <2>1, <2>3, <2>4, OneCallChanges DEF Upload
  <2>6. QED BY <2>1, <2>5
<1>4. ASSUME NEW c \in Client, CommitAppend(c) PROVE Shape' /\ Removed \subseteq Removed'
  <2>1. IsRow(call[c].row)
    BY <1>4, CallKinds DEF CommitAppend, Running, CallsHaveShape
  <2>2. Kept
    BY <1>4, <2>1 DEF CommitAppend, RowsHaveShape, Made, Removed, IsRow
  <2>3. QED BY <1>4, <2>2, OneCallEnds DEF CommitAppend
<1>5. ASSUME NEW c \in Client, \/ FailAppend(c) \/ FailCommit(c) \/ Crash(c)
             \/ CleanObjects(c) \/ RecordDelete(c)
      PROVE  Shape' /\ Removed \subseteq Removed'
  <2>1. Kept /\ Finish(c)
    BY <1>0, <1>5 DEF FailAppend, FailCommit, Crash, CleanObjects, RecordDelete
  <2>2. QED BY <2>1, OneCallEnds
<1>6. ASSUME NEW c \in Client, NEW t \in DOMAIN threads, StartArchive(c, t)
      PROVE  Shape' /\ Removed \subseteq Removed'
  <2>1. Kept
    BY <1>0, <1>6 DEF StartArchive
  <2>2. t \in Made'
    BY <2>1 DEF RowsHaveShape
  <2>3. IsCall([op |-> "archive", thread |-> t], Made')
    BY <2>2 DEF IsCall
  <2>4. QED BY <1>6, <2>1, <2>3, OneCallChanges DEF StartArchive
<1>7. ASSUME NEW c \in Client, CommitArchive(c) PROVE Shape' /\ Removed \subseteq Removed'
  <2>1. Kept
    BY <1>7 DEF CommitArchive, RowsHaveShape, Made, Removed, IsRow, ThreadRow, Status
  <2>2. QED BY <1>7, <2>1, OneCallEnds DEF CommitArchive
<1>8. ASSUME NEW c \in Client, NEW t \in DOMAIN threads, StartFork(c, t)
      PROVE  Shape' /\ Removed \subseteq Removed'
  <2>1. Kept
    BY <1>0, <1>8 DEF StartFork
  <2>2. PICK from \in 0..LastSequence(t) :
          Continue(c, [op |-> "fork", rows |-> {m \in MessagesOf(t) : m.seq <= from}])
    BY <1>8 DEF StartFork
  <2>3. IsCall([op |-> "fork", rows |-> {m \in MessagesOf(t) : m.seq <= from}], Made')
    BY DEF IsCall, MessagesOf, RowsHaveShape
  <2>4. QED BY <2>1, <2>2, <2>3, OneCallChanges
<1>9. ASSUME NEW c \in Client, CommitFork(c) PROVE Shape' /\ Removed \subseteq Removed'
  <2>1. \A m \in call[c].rows : IsRow(m)
    BY <1>9, CallKinds DEF CommitFork, Running, CallsHaveShape
  <2>2. \A m \in ForkOf(NewThread, call[c].rows) : IsRow(m)
    BY <2>1, CopiesAreRows
  <2>3. \A m \in messages' : IsRow(m)
    BY <1>9, <2>2 DEF CommitFork, RowsHaveShape
  <2>4. Kept
    BY <1>9, <2>3, ThreadIsAdded DEF CommitFork
  <2>5. QED BY <1>9, <2>4, OneCallEnds DEF CommitFork
<1>10. ASSUME NEW c \in Client, NEW t \in DOMAIN threads, StartDelete(c, t)
       PROVE  Shape' /\ Removed \subseteq Removed'
  <2>1. Kept
    BY <1>0, <1>10 DEF StartDelete
  <2>2. t \in Made' /\ threads[t] \in ThreadRow
    BY <2>1 DEF RowsHaveShape
  <2>3. IsCall([op |-> "delete", thread |-> t, seen |-> threads[t]], Made')
    BY <2>2 DEF IsCall
  <2>4. QED BY <1>10, <2>1, <2>3, OneCallChanges DEF StartDelete
<1>11. ASSUME NEW c \in Client, CommitDelete(c) \/ CommitCascade(c)
       PROVE  Shape' /\ Removed \subseteq Removed'
  <2>1. call[c].seen \in ThreadRow /\ call[c].thread \in Made
    BY <1>11, CallKinds DEF CommitDelete, CommitCascade, Running, CallsHaveShape
  <2>2. \A row \in ThreadRow : SoftDeleted(row, call[c].seen) \in ThreadRow
    BY <2>1 DEF SoftDeleted, ThreadRow, Status
  <2>3. Kept
    BY <1>11, <2>2 DEF CommitDelete, CommitCascade, RowsHaveShape, Made, Removed, IsRow
  <2>4. CASE CommitDelete(c)
    BY <2>3, <2>4, OneCallEnds DEF CommitDelete
  <2>5. CASE CommitCascade(c)
    <3>1. IsCall([op |-> "audit", thread |-> call[c].thread], Made')
      BY <2>1, <2>3 DEF IsCall
    <3>2. QED BY <2>3, <2>5, <3>1, OneCallChanges DEF CommitCascade
  <2>6. QED BY <1>11, <2>4, <2>5
<1>12. ASSUME NEW c \in Client, NEW t \in DOMAIN threads, StartRemove(c, t)
       PROVE  Shape' /\ Removed \subseteq Removed'
  <2>1. Kept
    BY <1>0, <1>12 DEF StartRemove
  <2>2. t \in Made' /\ threads[t].hold \in BOOLEAN
    BY <2>1 DEF RowsHaveShape, ThreadRow
  <2>3. PICK by \in Removals :
          Continue(c, [op |-> "remove", thread |-> t, by |-> by, held |-> threads[t].hold,
                       refs |-> IF by = "retention" THEN {} ELSE Refs(t)])
    BY <1>12 DEF StartRemove
  <2>4. IsCall([op |-> "remove", thread |-> t, by |-> by, held |-> threads[t].hold,
                refs |-> IF by = "retention" THEN {} ELSE Refs(t)], Made')
    BY <2>2 DEF IsCall
  <2>5. QED BY <2>1, <2>3, <2>4, OneCallChanges
<1>13. ASSUME NEW c \in Client, CommitRemove(c) PROVE Shape' /\ Removed \subseteq Removed'
  <2>1. Kept
    BY <1>13 DEF CommitRemove, RowsHaveShape, Made, Removed, IsRow
  <2> DEFINE next == IF call[c].refs = {} THEN Idle ELSE [op |-> "clean", refs |-> call[c].refs]
  <2>2. IsCall(next, Made')
    BY DEF IsCall
  <2>3. QED BY <1>13, <2>1, <2>2, OneCallChanges DEF CommitRemove
<1>14. ASSUME NEW t \in DOMAIN threads, ToggleHold(t)
       PROVE  Shape' /\ Removed \subseteq Removed'
  <2>1. Kept /\ Made' = Made
    BY <1>14 DEF ToggleHold, RowsHaveShape, Made, Removed, IsRow, ThreadRow, Status
  <2>2. QED BY <1>14, <2>1 DEF ToggleHold, CallsHaveShape
<1>15. CASE UNCHANGED vars
  <2>1. Kept /\ Made' = Made
    BY <1>15 DEF vars, RowsHaveShape, Made, Removed, IsRow
  <2>2. QED BY <1>15, <2>1 DEF vars, CallsHaveShape
<1>16. QED
  BY <1>1, <1>2, <1>3, <1>4, <1>5, <1>6, <1>7, <1>8, <1>9, <1>10, <1>11, <1>12, <1>13,
     <1>14, <1>15
  DEF Next

LEMMA InitHasShape == Init => Shape
BY DEF Init, Shape, RowsHaveShape, CallsHaveShape, IsCall, Made

------------------------------------------------------------------------------

(* Why a thread that is removed has an entry in purge_log: its removal writes one, or is   *)
(* a sweep's, which takes only threads whose soft delete, committed before, wrote one, or   *)
(* is still about to.  The sweep does not take a thread of the second kind.                 *)
IsLogged(t) == t \in log \/ \E c \in Client : call[c].op = "audit" /\ call[c].thread = t
DeletedAreLogged == \A t \in DOMAIN threads : threads[t].status = "deleted" => IsLogged(t)

SweptAreLogged ==
  \A c \in Client :
    call[c].op = "remove" /\ call[c].by = "retention" => call[c].thread \in log

LogInv == Shape /\ DeletedAreLogged /\ SweptAreLogged /\ RemovedThreadsAreLogged

NoRemovalBegins ==
  \A c \in Client :
    call'[c] = call[c] \/ (call[c].op # "audit" /\ call'[c].op # "remove")

(* The steps that neither change a status nor remove a row, nor begin a removal or end a   *)
(* deletion.                                                                               *)
LEMMA LogIsKept ==
  ASSUME LogInv, Made' = Made, log' = log, DOMAIN threads' = DOMAIN threads,
         \A t \in DOMAIN threads : threads'[t].status = "deleted" => threads[t].status = "deleted",
         NoRemovalBegins
  PROVE  DeletedAreLogged' /\ SweptAreLogged' /\ RemovedThreadsAreLogged'
<1>1. \A t : IsLogged(t) => IsLogged(t)'
  BY DEF IsLogged, NoRemovalBegins
<1>2. QED
  BY <1>1 DEF NoRemovalBegins, LogInv, DeletedAreLogged, SweptAreLogged, RemovedThreadsAreLogged, Removed, Made

LEMMA OtherCallsStay ==
  ASSUME CallsHaveShape, NEW c \in Client, NEW r, Continue(c, r)
  PROVE  call'[c] = r /\ \A d \in Client \ {c} : call'[d] = call[d]
<1>1. call' = [d \in Client |-> IF d = c THEN r ELSE call[d]]
  BY DEF CallsHaveShape, Continue
<1>2. QED BY <1>1

LEMMA IdleIsNoRemoval ==
  ASSUME CallsHaveShape, NEW c \in Client, Finish(c), call[c].op # "audit"
  PROVE  NoRemovalBegins
<1>1. Continue(c, Idle)
  BY DEF Finish, Continue
<1>2. QED BY <1>1, OtherCallsStay DEF Idle, NoRemovalBegins

LEMMA LogStep ==
  ASSUME LogInv, [Next]_vars, "cut" \notin Workload
  PROVE  LogInv'
<1> DEFINE Logged == DeletedAreLogged' /\ SweptAreLogged' /\ RemovedThreadsAreLogged'
<1> USE DEF LogInv, Shape
<1>0. Shape'
  BY ShapeStep
<1>1. ASSUME NEW c \in Client, CreateThread(c) \/ CommitFork(c) PROVE Logged
  <2>1. /\ NewThread \in Thread \ minted
        /\ threads' = WithThread(NewThread, Fresh)
        /\ minted' = minted \cup {NewThread} /\ log' = log
    BY <1>1, NewThreadIsNew DEF CreateThread, CommitFork
  <2>2. NoRemovalBegins
    BY <1>1, IdleIsNoRemoval DEF CreateThread, CommitFork, Running, NoRemovalBegins
  <2>3. \A t \in DOMAIN threads' : threads'[t].status = "deleted" =>
          t \in DOMAIN threads /\ threads[t].status = "deleted"
    BY <2>1 DEF WithThread, Fresh
  <2>4. Removed' = Removed
    BY <2>1 DEF Removed, WithThread, RowsHaveShape, Made
  <2>5. \A t : IsLogged(t) => IsLogged(t)'
    BY <2>1, <2>2 DEF IsLogged, NoRemovalBegins
  <2>6. QED BY <2>1, <2>2, <2>3, <2>4, <2>5
        DEF DeletedAreLogged, SweptAreLogged, RemovedThreadsAreLogged, NoRemovalBegins
<1>2. ASSUME NEW c \in Client, NEW t \in DOMAIN threads,
             StartAppend(c, t) \/ StartArchive(c, t) \/ StartFork(c, t) \/ StartDelete(c, t)
      PROVE  Logged
  <2>1. /\ threads' = threads /\ log' = log /\ Removed' = Removed
        /\ call[c].op # "audit" /\ \E r : Continue(c, r) /\ r.op # "remove"
    <3>1. CASE StartAppend(c, t)
      <4>1. PICK s3 \in BOOLEAN :
              Continue(c, [op |-> IF s3 THEN "upload" ELSE "append",
                           row |-> [thread |-> t, seq |-> NextSequence(t), said |-> NewMessage,
                                    ref |-> IF s3 THEN <<t, NextSequence(t)>> ELSE None]])
        BY <3>1 DEF StartAppend
      <4> DEFINE row == [thread |-> t, seq |-> NextSequence(t), said |-> NewMessage,
                         ref |-> IF s3 THEN <<t, NextSequence(t)>> ELSE None]
                 next == [op |-> IF s3 THEN "upload" ELSE "append", row |-> row]
      <4>2. Continue(c, next) /\ next.op # "remove"
        BY <4>1
      <4>3. Removed' = Removed
        <5>1. NewMessage \in Message /\ minted' = minted \cup {NewMessage} /\ threads' = threads
          BY <3>1 DEF StartAppend, NewMessage
        <5>2. QED BY <5>1, DisjointAssumption DEF Removed
      <4>4. QED BY <3>1, <4>2, <4>3 DEF StartAppend, Running
    <3>2. CASE StartArchive(c, t)
      BY <3>2 DEF StartArchive, Removed, Running
    <3>3. CASE StartFork(c, t)
      <4>1. PICK rows : Continue(c, [op |-> "fork", rows |-> rows])
        BY <3>3 DEF StartFork
      <4>2. QED BY <3>3, <4>1 DEF StartFork, Removed, Running
    <3>4. CASE StartDelete(c, t)
      BY <3>4 DEF StartDelete, Removed, Running
    <3>5. QED BY <1>2, <3>1, <3>2, <3>3, <3>4
  <2>2. NoRemovalBegins
    BY <2>1, OtherCallsStay DEF NoRemovalBegins
  <2>3. \A u : IsLogged(u) => IsLogged(u)'
    BY <2>1, <2>2 DEF IsLogged, NoRemovalBegins
  <2>4. QED BY <2>1, <2>2, <2>3
        DEF DeletedAreLogged, SweptAreLogged, RemovedThreadsAreLogged, NoRemovalBegins
<1>3. ASSUME NEW c \in Client, Upload(c) PROVE Logged
  <2>1. call[c] = [op |-> "upload", row |-> call[c].row]
    BY <1>3, CallKinds DEF Upload, Running, CallsHaveShape
  <2>2. Continue(c, [op |-> "append", row |-> call[c].row])
    BY <1>3, <2>1 DEF Upload
  <2>3. NoRemovalBegins
    BY <2>1, <2>2, OtherCallsStay DEF NoRemovalBegins
  <2>4. QED BY <1>3, <2>3, LogIsKept DEF Upload, Made
<1>4. ASSUME NEW c \in Client,
             CommitAppend(c) \/ FailAppend(c) \/ FailCommit(c) \/ Crash(c) \/ CleanObjects(c)
      PROVE  Logged
  <2>1. Finish(c) /\ threads' = threads /\ log' = log /\ Made' = Made /\ call[c].op # "audit"
    BY <1>4 DEF CommitAppend, FailAppend, FailCommit, Crash, CleanObjects, Made, Running
  <2>2. QED BY <2>1, IdleIsNoRemoval, LogIsKept
<1>5. ASSUME NEW c \in Client, CommitArchive(c) PROVE Logged
  <2>1. /\ Finish(c) /\ call[c].op # "audit"
        /\ log' = log /\ Made' = Made /\ DOMAIN threads' = DOMAIN threads
        /\ \A t \in DOMAIN threads :
             threads'[t].status = "deleted" => threads[t].status = "deleted"
    BY <1>5 DEF CommitArchive, Made, RowsHaveShape, ThreadRow, Running
  <2>2. QED BY <2>1, IdleIsNoRemoval, LogIsKept
<1>6. ASSUME NEW c \in Client, CommitDelete(c) \/ RecordDelete(c) PROVE Logged
  <2>1. /\ Finish(c) /\ Removed' = Removed /\ DOMAIN threads' = DOMAIN threads
        /\ log' = log \cup {call[c].thread}
        /\ \A t \in DOMAIN threads \ {call[c].thread} : threads'[t] = threads[t]
    BY <1>6 DEF CommitDelete, RecordDelete, Removed, RowsHaveShape
  <2>2. call'[c] = Idle /\ \A d \in Client \ {c} : call'[d] = call[d]
    BY <2>1, OtherCallsStay DEF Finish, Continue
  <2>3. \A t : IsLogged(t) => IsLogged(t)'
    BY <2>1, <2>2 DEF IsLogged
  <2>4. call[c].thread \in log'
    BY <2>1
  <2>5. QED BY <2>1, <2>2, <2>3, <2>4
        DEF DeletedAreLogged, SweptAreLogged, RemovedThreadsAreLogged, Idle, IsLogged
<1>c. ASSUME NEW c \in Client, CommitCascade(c) PROVE Logged
  <2>1. /\ call[c].op = "delete" /\ Continue(c, [op |-> "audit", thread |-> call[c].thread])
        /\ log' = log /\ Removed' = Removed /\ DOMAIN threads' = DOMAIN threads
        /\ \A t \in DOMAIN threads \ {call[c].thread} : threads'[t] = threads[t]
    BY <1>c DEF CommitCascade, Running, Removed, RowsHaveShape
  <2>2. /\ call'[c].op = "audit" /\ call'[c].thread = call[c].thread
        /\ \A d \in Client \ {c} : call'[d] = call[d]
    BY <2>1, OtherCallsStay
  <2>3. IsLogged(call[c].thread)' /\ \A t : IsLogged(t) => IsLogged(t)'
    BY <2>1, <2>2 DEF IsLogged
  <2>4. QED BY <2>1, <2>2, <2>3
        DEF DeletedAreLogged, SweptAreLogged, RemovedThreadsAreLogged
<1>7. ASSUME NEW c \in Client, NEW t \in DOMAIN threads, StartRemove(c, t) PROVE Logged
  <2>1. PICK by \in Removals :
          /\ by = "retention" => Sweepable(t)
          /\ Continue(c, [op |-> "remove", thread |-> t, by |-> by, held |-> threads[t].hold,
                          refs |-> IF by = "retention" THEN {} ELSE Refs(t)])
    BY <1>7 DEF StartRemove
  <2>2. by = "retention" => t \in log
    BY <2>1 DEF Sweepable, DeletedAreLogged, IsLogged
  <2>3. /\ call'[c].op = "remove" /\ call'[c].by = by /\ call'[c].thread = t
        /\ \A d \in Client \ {c} : call'[d] = call[d]
    BY <2>1, OtherCallsStay
  <2>4. threads' = threads /\ log' = log /\ Removed' = Removed /\ call[c].op = "idle"
    BY <1>7 DEF StartRemove, Removed, Running
  <2>5. \A u : IsLogged(u) => IsLogged(u)'
    BY <2>3, <2>4 DEF IsLogged
  <2>6. QED BY <2>2, <2>3, <2>4, <2>5
        DEF DeletedAreLogged, SweptAreLogged, RemovedThreadsAreLogged
<1>8. ASSUME NEW c \in Client, CommitRemove(c) PROVE Logged
  <2> DEFINE next == IF call[c].refs = {} THEN Idle ELSE [op |-> "clean", refs |-> call[c].refs]
  <2>1. NoRemovalBegins
    BY <1>8, OtherCallsStay DEF CommitRemove, Idle, Running, NoRemovalBegins
  <2>2. call[c].by \in Removals
    BY <1>8, CallKinds DEF CommitRemove, Running, CallsHaveShape
  <2>3. "silent" \notin Removals => call[c].thread \in log'
    BY <1>8, <2>2, RemovalsAssumption DEF CommitRemove, Running, SweptAreLogged
  <2>4. log \subseteq log'
    BY <1>8 DEF CommitRemove
  <2>5. /\ Removed' \subseteq Removed \cup {call[c].thread}
        /\ DOMAIN threads' \subseteq DOMAIN threads
        /\ \A t \in DOMAIN threads' : threads'[t] = threads[t]
    BY <1>8 DEF CommitRemove, Removed
  <2>6. \A t : IsLogged(t) => IsLogged(t)'
    BY <2>1, <2>4 DEF IsLogged, NoRemovalBegins
  <2>7. QED BY <2>1, <2>3, <2>4, <2>5, <2>6
        DEF DeletedAreLogged, SweptAreLogged, RemovedThreadsAreLogged, NoRemovalBegins
<1>9. ASSUME NEW t \in DOMAIN threads, ToggleHold(t) PROVE Logged
  <2>1. \A u \in DOMAIN threads : threads'[u].status = "deleted" => threads[u].status = "deleted"
    BY <1>9 DEF ToggleHold, RowsHaveShape, ThreadRow
  <2>2. QED BY <1>9, <2>1, LogIsKept DEF ToggleHold, Made, NoRemovalBegins
<1>10. ASSUME UNCHANGED vars PROVE Logged
  BY <1>10, LogIsKept DEF vars, Made, NoRemovalBegins
<1>11. ASSUME NEW c \in Client, NEW t \in DOMAIN threads, StartStep(c, t) PROVE Logged
  BY <1>2, <1>7, <1>11 DEF StartStep
<1> HIDE DEF Logged
<1>12. Logged
  BY <1>1, <1>3, <1>4, <1>5, <1>6, <1>c, <1>8, <1>9, <1>10, <1>11 DEF Next, StartStep
<1>13. QED
  BY <1>0, <1>12 DEF Logged

(* No thread leaves the table without an entry in purge_log, but for the silent spill, as   *)
(* long as no crash cuts the two commits of a delete apart: hard_delete_thread writes none, *)
(* and the sweep that calls it takes only threads that a soft delete has logged.            *)
THEOREM RemovalsLeaveATrace ==
  ASSUME "cut" \notin Workload
  PROVE  Spec => []RemovedThreadsAreLogged
<1>1. Init => LogInv
  BY InitHasShape DEF Init, LogInv, DeletedAreLogged, SweptAreLogged,
     RemovedThreadsAreLogged, Removed, Idle
<1>2. LogInv /\ [Next]_vars => LogInv'
  BY LogStep
<1>3. LogInv => RemovedThreadsAreLogged
  BY DEF LogInv
<1>4. QED
  BY <1>1, <1>2, <1>3, PTL DEF Spec

------------------------------------------------------------------------------

(* Why the content of a message is in the bucket while no thread has been removed: it was   *)
(* uploaded before the row was committed, a fork refers to what its source refers to, and   *)
(* only a request that has removed a thread removes objects.                                *)
IsStored(m) == m.ref # None => m.ref \in DOMAIN objects

PendingIsStored ==
  Removed = {} =>
    \A c \in Client :
      /\ call[c].op = "append" => IsStored(call[c].row)
      /\ call[c].op = "fork" => \A m \in call[c].rows : IsStored(m)

CleaningFollowsRemoval == \A c \in Client : call[c].op = "clean" => Removed # {}

StoredInv == Shape /\ PendingIsStored /\ CleaningFollowsRemoval /\ ContentIsStored

(* The steps that remove no object, and add neither a message nor a pending one. *)
LEMMA ObjectsAreKept ==
  ASSUME StoredInv, [Next]_vars, DOMAIN objects \subseteq DOMAIN objects',
         messages' \subseteq messages,
         \A c \in Client : call'[c] = call[c] \/ call'[c].op \notin {"append", "fork", "clean"}
  PROVE  PendingIsStored' /\ CleaningFollowsRemoval' /\ ContentIsStored'
<1>1. Removed \subseteq Removed'
  BY ShapeStep DEF StoredInv
<1>2. \A m : IsStored(m) => IsStored(m)'
  BY DEF IsStored
<1>3. QED BY <1>1, <1>2 DEF StoredInv, PendingIsStored, CleaningFollowsRemoval, ContentIsStored, IsStored
(* The steps after which some client may hold a new call, that is itself stored. *)
LEMMA NewCallIsStored ==
  ASSUME StoredInv, [Next]_vars, NEW c \in Client, NEW r, Continue(c, r),
         DOMAIN objects \subseteq DOMAIN objects', messages' = messages,
         r.op = "append" => (r.row.ref # None => r.row.ref \in DOMAIN objects'),
         r.op = "fork" => \A m \in r.rows : m \in messages,
         r.op = "clean" => Removed' # {}
  PROVE  PendingIsStored' /\ CleaningFollowsRemoval' /\ ContentIsStored'
<1>1. Removed \subseteq Removed'
  BY ShapeStep DEF StoredInv
<1>2. \A m : IsStored(m) => IsStored(m)'
  BY DEF IsStored
<1>3. call'[c] = r /\ \A d \in Client \ {c} : call'[d] = call[d]
  BY OtherCallsStay DEF StoredInv, Shape
<1>4. ContentIsStored'
  BY <1>1, <1>2 DEF StoredInv, ContentIsStored, IsStored
<1>5. CleaningFollowsRemoval'
  BY <1>1, <1>3 DEF StoredInv, CleaningFollowsRemoval
<1>6. ASSUME Removed' = {} PROVE \A m \in messages : IsStored(m)'
  BY <1>1, <1>2, <1>6 DEF StoredInv, ContentIsStored, IsStored
<1>7. PendingIsStored'
  BY <1>1, <1>2, <1>3, <1>6 DEF StoredInv, PendingIsStored, IsStored
<1>8. QED BY <1>4, <1>5, <1>7

(* The steps that add messages: each one was stored when it was pending. *)
LEMMA NewRowsAreStored ==
  ASSUME StoredInv, [Next]_vars, NEW c \in Client, NEW rows, Finish(c),
         objects' = objects, messages' = messages \cup rows,
         Removed = {} => \A m \in rows : IsStored(m)
  PROVE  PendingIsStored' /\ CleaningFollowsRemoval' /\ ContentIsStored'
<1>1. Removed \subseteq Removed'
  BY ShapeStep DEF StoredInv
<1>2. \A m : IsStored(m) => IsStored(m)'
  BY DEF IsStored
<1>3. call'[c] = Idle /\ \A d \in Client \ {c} : call'[d] = call[d]
  <2>1. Continue(c, Idle)
    BY DEF Finish, Continue
  <2>2. QED BY <2>1, OtherCallsStay DEF StoredInv, Shape
<1>4. QED
  BY <1>1, <1>2, <1>3
  DEF StoredInv, PendingIsStored, CleaningFollowsRemoval, ContentIsStored, IsStored, Idle

LEMMA StoredStep ==
  ASSUME StoredInv, [Next]_vars
  PROVE  StoredInv'
<1> DEFINE Stays == PendingIsStored' /\ CleaningFollowsRemoval' /\ ContentIsStored'
<1>0. Shape' /\ Removed \subseteq Removed'
  BY ShapeStep DEF StoredInv
<1>1. ASSUME NEW c \in Client, NEW t \in DOMAIN threads, StartAppend(c, t) PROVE Stays
  <2>1. PICK s3 \in BOOLEAN :
          Continue(c, [op |-> IF s3 THEN "upload" ELSE "append",
                       row |-> [thread |-> t, seq |-> NextSequence(t), said |-> NewMessage,
                                ref |-> IF s3 THEN <<t, NextSequence(t)>> ELSE None]])
    BY <1>1 DEF StartAppend
  <2> DEFINE row == [thread |-> t, seq |-> NextSequence(t), said |-> NewMessage,
                     ref |-> IF s3 THEN <<t, NextSequence(t)>> ELSE None]
             next == [op |-> IF s3 THEN "upload" ELSE "append", row |-> row]
  <2>2. Continue(c, next)
    BY <2>1
  <2>3. next.op = "append" => (next.row.ref # None => next.row.ref \in DOMAIN objects')
    OBVIOUS
  <2>4. next.op \notin {"fork", "clean"}
    OBVIOUS
  <2>5. messages' = messages /\ DOMAIN objects \subseteq DOMAIN objects'
    BY <1>1 DEF StartAppend
  <2> HIDE DEF next
  <2>6. QED BY <2>2, <2>3, <2>4, <2>5, NewCallIsStored
<1>2. ASSUME NEW c \in Client, Upload(c) PROVE Stays
  <2>1. call[c] = [op |-> "upload", row |-> call[c].row]
    BY <1>2, CallKinds DEF Upload, Running, CallsHaveShape, StoredInv, Shape
  <2> DEFINE next == [op |-> "append", row |-> call[c].row]
  <2>2. Continue(c, next)
    BY <1>2, <2>1 DEF Upload
  <2>3. DOMAIN objects' = DOMAIN objects \cup {call[c].row.ref} /\ messages' = messages
    BY <1>2 DEF Upload, Stored
  <2>4. /\ next.op = "append" => (next.row.ref # None => next.row.ref \in DOMAIN objects')
        /\ DOMAIN objects \subseteq DOMAIN objects'
    BY <2>3
  <2>5. next.op \notin {"fork", "clean"}
    OBVIOUS
  <2> HIDE DEF next
  <2>6. PICK r : r = next
    OBVIOUS
  <2>7. QED BY <2>2, <2>3, <2>4, <2>5, <2>6, NewCallIsStored
<1>3. ASSUME NEW c \in Client, CommitAppend(c) PROVE Stays
  <2>1. Removed = {} => \A m \in {call[c].row} : IsStored(m)
    BY <1>3 DEF CommitAppend, Running, StoredInv, PendingIsStored
  <2>2. QED BY <1>3, <2>1, NewRowsAreStored DEF CommitAppend
<1>4. ASSUME NEW c \in Client, NEW t \in DOMAIN threads, StartFork(c, t) PROVE Stays
  <2>1. PICK from \in 0..LastSequence(t) :
          Continue(c, [op |-> "fork", rows |-> {m \in MessagesOf(t) : m.seq <= from}])
    BY <1>4 DEF StartFork
  <2>2. \A m \in {m \in MessagesOf(t) : m.seq <= from} : m \in messages
    BY DEF MessagesOf
  <2>3. QED BY <1>4, <2>1, <2>2, NewCallIsStored DEF StartFork
<1>5. ASSUME NEW c \in Client, CommitFork(c) PROVE Stays
  <2>1. \A m \in call[c].rows : IsRow(m)
    BY <1>5, CallKinds DEF CommitFork, Running, CallsHaveShape, StoredInv, Shape
  <2>2. Removed = {} => \A m \in call[c].rows : IsStored(m)
    BY <1>5 DEF CommitFork, Running, StoredInv, PendingIsStored
  <2>3. Removed = {} => \A m \in ForkOf(NewThread, call[c].rows) : IsStored(m)
    BY <2>1, <2>2, CopiesAreRows DEF IsStored
  <2>4. QED BY <1>5, <2>3, NewRowsAreStored DEF CommitFork
<1>6. ASSUME NEW c \in Client, NEW t \in DOMAIN threads,
             StartArchive(c, t) \/ StartDelete(c, t) \/ StartRemove(c, t)
      PROVE  Stays
  <2>1. \E r : Continue(c, r) /\ r.op \notin {"append", "fork", "clean"}
    <3>1. CASE StartArchive(c, t)
      BY <3>1 DEF StartArchive
    <3>2. CASE StartDelete(c, t)
      BY <3>2 DEF StartDelete
    <3>3. CASE StartRemove(c, t)
      BY <3>3 DEF StartRemove
    <3>4. QED BY <1>6, <3>1, <3>2, <3>3
  <2>2. \A d \in Client : call'[d] = call[d] \/ call'[d].op \notin {"append", "fork", "clean"}
    BY <2>1, OtherCallsStay DEF StoredInv, Shape
  <2>3. QED BY <1>6, <2>2, ObjectsAreKept DEF StartArchive, StartDelete, StartRemove
<1>7. ASSUME NEW c \in Client,
             \/ FailAppend(c) \/ CommitArchive(c) \/ CommitDelete(c) \/ RecordDelete(c)
             \/ FailCommit(c) \/ Crash(c)
      PROVE  Stays
  <2>1. Finish(c) /\ objects' = objects /\ messages' = messages
    BY <1>7 DEF FailAppend, CommitArchive, CommitDelete, RecordDelete, FailCommit, Crash
  <2>2. QED BY <2>1, NewRowsAreStored
<1>8. ASSUME NEW c \in Client, CommitRemove(c) PROVE Stays
  <2> DEFINE next == IF call[c].refs = {} THEN Idle ELSE [op |-> "clean", refs |-> call[c].refs]
  <2>1. call[c].thread \in Made
    BY <1>8, CallKinds DEF CommitRemove, Running, CallsHaveShape, StoredInv, Shape
  <2>2. Removed' # {}
    BY <1>8, <2>1 DEF CommitRemove, Removed, Made
  <2>3. QED BY <2>2 DEF PendingIsStored, CleaningFollowsRemoval, ContentIsStored
<1>9. ASSUME NEW c \in Client, CleanObjects(c) PROVE Stays
  <2>1. Removed' # {}
    BY <1>0, <1>9 DEF CleanObjects, Running, StoredInv, CleaningFollowsRemoval
  <2>2. QED BY <2>1 DEF PendingIsStored, CleaningFollowsRemoval, ContentIsStored
<1>10. ASSUME NEW c \in Client, CreateThread(c) PROVE Stays
  BY <1>10, ObjectsAreKept DEF CreateThread
<1>11. ASSUME NEW t \in DOMAIN threads, ToggleHold(t) PROVE Stays
  BY <1>11, ObjectsAreKept DEF ToggleHold
<1>12. ASSUME UNCHANGED vars PROVE Stays
  BY <1>12, ObjectsAreKept DEF vars
<1>13. ASSUME NEW c \in Client, NEW t \in DOMAIN threads, StartStep(c, t) PROVE Stays
  BY <1>1, <1>4, <1>6, <1>13 DEF StartStep
<1>c. ASSUME NEW c \in Client, CommitCascade(c) PROVE Stays
  <2>1. \A d \in Client : call'[d] = call[d] \/ call'[d].op \notin {"append", "fork", "clean"}
    BY <1>c, OtherCallsStay DEF CommitCascade, StoredInv, Shape
  <2>2. QED BY <1>c, <2>1, ObjectsAreKept DEF CommitCascade
<1> HIDE DEF Stays
<1>14. Stays
  BY <1>2, <1>3, <1>5, <1>7, <1>8, <1>9, <1>10, <1>11, <1>12, <1>13, <1>c DEF Next, StartStep
<1>15. QED
  BY <1>0, <1>14 DEF Stays, StoredInv

(* While no thread has been removed the content of every message is in the bucket,          *)
(* whichever appends, forks and crashes overlap.                                            *)
THEOREM MessagesAreStored == Spec => []ContentIsStored
<1>1. Init => StoredInv
  BY InitHasShape DEF Init, StoredInv, PendingIsStored, CleaningFollowsRemoval,
     ContentIsStored, Idle
<1>2. StoredInv /\ [Next]_vars => StoredInv'
  BY StoredStep
<1>3. StoredInv => ContentIsStored
  BY DEF StoredInv
<1>4. QED
  BY <1>1, <1>2, <1>3, PTL DEF Spec

------------------------------------------------------------------------------

(* Why messages are numbered without gaps.  The rows of a thread are numbered from 1 up to  *)
(* their number, each number once.  A pending append holds a number at most one above the   *)
(* last: nothing is ever taken out of a thread that stays, so that the number is either     *)
(* taken by the time the append commits, and the append fails, or still the next.  A fork   *)
(* takes the first rows of a thread, whose ranks are the numbers they already have.         *)
NumberedUpTo(rows, n) ==
  /\ \A m \in rows : m.seq \in 1..n
  /\ \A i \in 1..n : \E m \in rows : m.seq = i
  /\ \A m, k \in rows : m.seq = k.seq => m = k

Numbered(rows) == \E n \in Nat : NumberedUpTo(rows, n)

Follows(row, rows) == \E n \in Nat : NumberedUpTo(rows, n) /\ row.seq \in 1..(n + 1)

MessagesHaveThreads == \A m \in messages : m.thread \in DOMAIN threads
ThreadsAreNumbered == \A t \in DOMAIN threads : Numbered(MessagesOf(t))

CallIsNumbered(c) ==
  /\ call[c].op \in {"upload", "append"} =>
       /\ call[c].row.thread \in Made
       /\ call[c].row.thread \in DOMAIN threads => Follows(call[c].row, MessagesOf(call[c].row.thread))
  /\ call[c].op = "fork" => Numbered(call[c].rows)

CallsAreNumbered == \A c \in Client : CallIsNumbered(c)

NumberInv == Shape /\ MessagesHaveThreads /\ ThreadsAreNumbered /\ CallsAreNumbered

(* What a step may do to the rows of a thread. *)
Grows(t) ==
  \A n \in Nat :
    NumberedUpTo(MessagesOf(t), n) => \/ NumberedUpTo(MessagesOf(t)', n)
                                      \/ NumberedUpTo(MessagesOf(t)', n + 1)

(* Rows that are numbered from 1 to n are n rows. *)
LEMMA NumberedAreCounted ==
  ASSUME NEW rows, NEW n \in Nat, NumberedUpTo(rows, n)
  PROVE  Cardinality(rows) = n /\ {m.seq : m \in rows} = 1..n
<1> DEFINE row == [i \in 1..n |-> CHOOSE m \in rows : m.seq = i]
<1>1. \A i \in 1..n : row[i] \in rows /\ row[i].seq = i
  BY DEF NumberedUpTo
<1>2. \A m \in rows : m.seq \in 1..n /\ row[m.seq] = m
  BY <1>1 DEF NumberedUpTo
<1> HIDE DEF row
<1>3. row \in Bijection(1..n, rows)
  <2>1. row \in [1..n -> rows]
    <3>1. row = [i \in 1..n |-> row[i]]
      BY DEF row
    <3>2. QED BY <1>1, <3>1
  <2>2. \A i, k \in 1..n : row[i] = row[k] => i = k
    BY <1>1
  <2>3. \A m \in rows : \E i \in 1..n : row[i] = m
    BY <1>2
  <2>4. QED BY <2>1, <2>2, <2>3 DEF Bijection, Injection, Surjection, IsInjective
<1>4. ExistsBijection(1..n, rows)
  BY <1>3 DEF ExistsBijection
<1>5. Cardinality(rows) = n
  BY <1>4, FS_CountingElements
<1>6. QED BY <1>1, <1>2, <1>5

(* The highest number of rows that are numbered from 1 to n. *)
LEMMA LastOfNumbered ==
  ASSUME NEW t, NEW n \in Nat, NumberedUpTo(MessagesOf(t), n)
  PROVE  LastSequence(t) = n
<1> DEFINE numbers == {m.seq : m \in MessagesOf(t)} \cup {0}
<1>1. numbers = 0..n
  BY NumberedAreCounted
<1>2. n \in numbers /\ \A i \in numbers : n >= i
  BY <1>1
<1>3. Max(numbers) \in numbers /\ \A i \in numbers : Max(numbers) >= i
  BY <1>2 DEF Max
<1> HIDE DEF numbers
<1>4. Max(numbers) = n
  BY <1>1, <1>2, <1>3
<1>5. QED BY <1>4 DEF LastSequence, numbers

(* The rows up to a point are numbered up to that point. *)
LEMMA FirstAreNumbered ==
  ASSUME NEW rows, NEW n \in Nat, NumberedUpTo(rows, n), NEW from \in 0..n
  PROVE  NumberedUpTo({m \in rows : m.seq <= from}, from)
<1>1. \A m \in rows : m.seq \in 1..n /\ (m.seq <= from => m.seq \in 1..from)
  BY DEF NumberedUpTo
<1>2. \A i \in 1..from : i \in 1..n
  OBVIOUS
<1>3. \A i \in 1..from : \E m \in {k \in rows : k.seq <= from} : m.seq = i
  BY <1>2 DEF NumberedUpTo
<1>4. QED BY <1>1, <1>3 DEF NumberedUpTo

(* A row that gets the next number. *)
LEMMA NextIsNumbered ==
  ASSUME NEW rows, NEW n \in Nat, NumberedUpTo(rows, n), NEW row, row.seq = n + 1
  PROVE  NumberedUpTo(rows \cup {row}, n + 1)
<1>1. \A m \in rows : m.seq \in 1..n
  BY DEF NumberedUpTo
<1>2. \A m \in rows \cup {row} : m.seq \in 1..(n + 1)
  BY <1>1
<1>3. \A i \in 1..(n + 1) : \E m \in rows \cup {row} : m.seq = i
  <2> TAKE i \in 1..(n + 1)
  <2>1. CASE i = n + 1
    BY <2>1
  <2>2. CASE i \in 1..n
    BY <2>2 DEF NumberedUpTo
  <2>3. QED BY <2>1, <2>2
<1>4. \A m, k \in rows \cup {row} : m.seq = k.seq => m = k
  BY <1>1 DEF NumberedUpTo
<1>5. QED BY <1>2, <1>3, <1>4 DEF NumberedUpTo

(* A fork is numbered like the rows it copies. *)
LEMMA CopiesAreNumbered ==
  ASSUME NEW rows, NEW t, \A m \in rows : IsRow(m), NEW n \in Nat, NumberedUpTo(rows, n)
  PROVE  NumberedUpTo(ForkOf(t, rows), n) /\ \A k \in ForkOf(t, rows) : k.thread = t
<1> DEFINE copy(m) == [thread |-> t, seq |-> m.seq, ref |-> m.ref, said |-> m.said]
<1>1. ASSUME NEW m \in rows
      PROVE  [m EXCEPT !.thread = t, !.seq = Cardinality({k \in rows : k.seq <= m.seq})] = copy(m)
  <2>1. m.seq \in 0..n /\ m.seq \in Nat
    BY DEF NumberedUpTo
  <2>2. NumberedUpTo({k \in rows : k.seq <= m.seq}, m.seq)
    BY <2>1, FirstAreNumbered
  <2>3. Cardinality({k \in rows : k.seq <= m.seq}) = m.seq
    BY <2>1, <2>2, NumberedAreCounted
  <2>4. m = [thread |-> m.thread, seq |-> m.seq, ref |-> m.ref, said |-> m.said]
    BY DEF IsRow
  <2>5. PICK i : i = m.seq
    OBVIOUS
  <2>6. PICK k : k = [m EXCEPT !.thread = t, !.seq = i]
    OBVIOUS
  <2>7. k = [thread |-> t, seq |-> i, ref |-> m.ref, said |-> m.said]
    BY <2>4, <2>6
  <2>8. QED BY <2>3, <2>5, <2>6, <2>7
<1> DEFINE original(m) == [m EXCEPT !.thread = t, !.seq = Cardinality({k \in rows : k.seq <= m.seq})]
<1>a. ForkOf(t, rows) = {original(m) : m \in rows}
  BY DEF ForkOf
<1>b. \A m \in rows : original(m) = copy(m)
  BY <1>1
<1> HIDE DEF original
<1>2. ForkOf(t, rows) = {copy(m) : m \in rows}
  BY <1>a, <1>b
<1>3. \A m \in rows : copy(m).seq = m.seq /\ copy(m).thread = t
  OBVIOUS
<1>4. \A k \in ForkOf(t, rows) : \E m \in rows : k = copy(m)
  BY <1>2
<1>5. \A m \in rows : copy(m) \in ForkOf(t, rows)
  BY <1>2
<1>6. \A k \in ForkOf(t, rows) : k.seq \in 1..n /\ k.thread = t
  BY <1>3, <1>4 DEF NumberedUpTo
<1>7. \A i \in 1..n : \E k \in ForkOf(t, rows) : k.seq = i
  BY <1>3, <1>5 DEF NumberedUpTo
<1>8. \A k, l \in ForkOf(t, rows) : k.seq = l.seq => k = l
  BY <1>3, <1>4 DEF NumberedUpTo
<1>9. QED BY <1>6, <1>7, <1>8 DEF NumberedUpTo

(* A thread that stays as it is. *)
LEMMA SameRowsGrow ==
  ASSUME NEW t, MessagesOf(t)' = MessagesOf(t)
  PROVE  Grows(t)
BY DEF Grows

(* A request that goes on finds its thread gone or grown. *)
LEMMA PendingStay ==
  ASSUME NumberInv, Made \subseteq Made',
         \A t \in DOMAIN threads' \cap Made : t \in DOMAIN threads /\ Grows(t),
         NEW c \in Client,
         \/ call'[c] = call[c]
         \/ call[c].op = "upload" /\ call'[c] = [op |-> "append", row |-> call[c].row]
         \/ call'[c].op \notin {"upload", "append", "fork"}
  PROVE  CallIsNumbered(c)'
<1>1. CASE call'[c].op \in {"upload", "append"}
  <2>1. call[c].op \in {"upload", "append"} /\ call'[c].row = call[c].row
    BY <1>1
  <2>r. PICK row : row = call[c].row
    OBVIOUS
  <2>2. /\ row.thread \in Made
        /\ row.thread \in DOMAIN threads => Follows(row, MessagesOf(row.thread))
    BY <2>1, <2>r DEF NumberInv, CallsAreNumbered, CallIsNumbered
  <2>3. ASSUME row.thread \in DOMAIN threads' PROVE Follows(row, MessagesOf(row.thread)')
    <3>1. Grows(row.thread) /\ Follows(row, MessagesOf(row.thread))
      BY <2>2, <2>3
    <3>2. PICK n \in Nat : NumberedUpTo(MessagesOf(row.thread), n) /\ row.seq \in 1..(n + 1)
      BY <3>1 DEF Follows
    <3>3. CASE NumberedUpTo(MessagesOf(row.thread)', n)
      BY <3>2, <3>3 DEF Follows
    <3>4. CASE NumberedUpTo(MessagesOf(row.thread)', n + 1)
      <4>1. n + 1 \in Nat /\ row.seq \in 1..((n + 1) + 1)
        BY <3>2
      <4>2. QED BY <3>4, <4>1 DEF Follows
    <3>5. QED BY <3>1, <3>2, <3>3, <3>4 DEF Grows
  <2>4. QED BY <1>1, <2>r, <2>1, <2>2, <2>3 DEF CallIsNumbered, MessagesOf
<1>2. CASE call'[c].op = "fork"
  <2>1. call'[c] = call[c]
    BY <1>2
  <2>2. QED BY <1>2, <2>1 DEF NumberInv, CallsAreNumbered, CallIsNumbered
<1>3. CASE call'[c].op \notin {"upload", "append", "fork"}
  BY <1>3 DEF CallIsNumbered
<1>4. QED BY <1>1, <1>2, <1>3

(* The steps that leave messages and threads alone, and keep or end a request. *)
LEMMA NumbersStay ==
  ASSUME NumberInv, Made \subseteq Made', messages' = messages,
         DOMAIN threads' = DOMAIN threads,
         \A c \in Client :
           \/ call'[c] = call[c]
           \/ call[c].op = "upload" /\ call'[c] = [op |-> "append", row |-> call[c].row]
           \/ call'[c].op \notin {"upload", "append", "fork"}
           \/ CallIsNumbered(c)'
  PROVE  MessagesHaveThreads' /\ ThreadsAreNumbered' /\ CallsAreNumbered'
<1>1. \A t : MessagesOf(t)' = MessagesOf(t)
  BY DEF MessagesOf
<1>2. \A t \in DOMAIN threads' \cap Made : t \in DOMAIN threads /\ Grows(t)
  BY <1>1, SameRowsGrow
<1>3. \A c \in Client : CallIsNumbered(c)'
  BY <1>2, PendingStay
<1>4. MessagesHaveThreads' /\ ThreadsAreNumbered'
  BY <1>1 DEF NumberInv, MessagesHaveThreads, ThreadsAreNumbered
<1>5. QED BY <1>3, <1>4 DEF CallsAreNumbered

(* The steps that add a thread with its rows: nothing else changes. *)
LEMMA NewThreadIsNumbered ==
  ASSUME NumberInv, Thread \ minted # {}, NEW rows, NEW n \in Nat, NumberedUpTo(rows, n),
         \A m \in rows : m.thread = NewThread,
         threads' = WithThread(NewThread, Fresh), messages' = messages \cup rows,
         minted' = minted \cup {NewThread},
         \A c \in Client : call'[c] = call[c] \/ call'[c] = Idle
  PROVE  MessagesHaveThreads' /\ ThreadsAreNumbered' /\ CallsAreNumbered'
<1>1. NewThread \in Thread \ minted
  BY NewThreadIsNew
<1>2. NewThread \notin Made /\ NewThread \notin DOMAIN threads /\ Made \subseteq Made'
  BY <1>1 DEF Made, NumberInv, Shape, RowsHaveShape
<1>3. DOMAIN threads' = DOMAIN threads \cup {NewThread}
  BY DEF WithThread
<1>n. PICK new : new = NewThread
  OBVIOUS
<1>4. MessagesOf(new)' = rows
  BY <1>2, <1>n DEF MessagesOf, NumberInv, MessagesHaveThreads
<1>5. \A t \in DOMAIN threads : MessagesOf(t)' = MessagesOf(t)
  BY <1>2 DEF MessagesOf
<1>6. \A t \in DOMAIN threads' \cap Made : t \in DOMAIN threads /\ Grows(t)
  BY <1>2, <1>3, <1>5, SameRowsGrow
<1>i. Idle.op \notin {"upload", "append", "fork"}
  BY DEF Idle
<1>7. \A c \in Client : CallIsNumbered(c)'
  BY <1>2, <1>6, <1>i, PendingStay
<1>8. ThreadsAreNumbered'
  BY <1>3, <1>4, <1>5, <1>n DEF NumberInv, ThreadsAreNumbered, Numbered
<1>9. MessagesHaveThreads'
  BY <1>3 DEF NumberInv, MessagesHaveThreads
<1>10. QED BY <1>7, <1>8, <1>9 DEF CallsAreNumbered

LEMMA NumberStep ==
  ASSUME NumberInv, [Next]_vars
  PROVE  NumberInv'
<1> DEFINE Kept == MessagesHaveThreads' /\ ThreadsAreNumbered' /\ CallsAreNumbered'
<1>0. Shape' /\ Shape /\ CallsHaveShape
  BY ShapeStep DEF NumberInv, Shape
<1>1. ASSUME NEW c \in Client, CreateThread(c) PROVE Kept
  <2>1. NumberedUpTo({}, 0)
    BY DEF NumberedUpTo
  <2>2. messages' = messages \cup {}
    BY <1>1 DEF CreateThread
  <2>3. QED BY <1>1, <2>1, <2>2, NewThreadIsNumbered DEF CreateThread
<1>2. ASSUME NEW c \in Client, NEW t \in DOMAIN threads, StartAppend(c, t) PROVE Kept
  <2>1. PICK s3 \in BOOLEAN :
          Continue(c, [op |-> IF s3 THEN "upload" ELSE "append",
                       row |-> [thread |-> t, seq |-> NextSequence(t), said |-> NewMessage,
                                ref |-> IF s3 THEN <<t, NextSequence(t)>> ELSE None]])
    BY <1>2 DEF StartAppend
  <2>2. /\ call'[c].op \in {"upload", "append"}
        /\ call'[c].row.thread = t /\ call'[c].row.seq = NextSequence(t)
        /\ \A d \in Client \ {c} : call'[d] = call[d]
    BY <1>0, <2>1, OtherCallsStay
  <2>3. PICK n \in Nat : NumberedUpTo(MessagesOf(t), n)
    BY DEF NumberInv, ThreadsAreNumbered, Numbered
  <2>4. NextSequence(t) \in 1..(n + 1)
    BY <2>3, LastOfNumbered DEF NextSequence
  <2>5. threads' = threads /\ messages' = messages /\ Made \subseteq Made' /\ t \in Made
    BY <1>0, <1>2 DEF StartAppend, Made, Shape, RowsHaveShape
  <2>6. MessagesOf(t)' = MessagesOf(t)
    BY <2>5 DEF MessagesOf
  <2>7. Follows(call'[c].row, MessagesOf(t))
    BY <2>2, <2>3, <2>4 DEF Follows
  <2>8. CallIsNumbered(c)'
    BY <2>2, <2>5, <2>7 DEF CallIsNumbered, MessagesOf
  <2>9. QED BY <2>2, <2>5, <2>8, NumbersStay
<1>3. ASSUME NEW c \in Client, Upload(c) PROVE Kept
  <2>1. call[c] = [op |-> "upload", row |-> call[c].row]
    BY <1>0, <1>3, CallKinds DEF Upload, Running, CallsHaveShape
  <2>2. Continue(c, [op |-> "append", row |-> call[c].row])
    BY <1>3, <2>1 DEF Upload
  <2>3. /\ call[c].op = "upload" /\ call'[c] = [op |-> "append", row |-> call[c].row]
        /\ \A d \in Client \ {c} : call'[d] = call[d]
    BY <1>0, <2>1, <2>2, OtherCallsStay
  <2>4. QED BY <1>3, <2>3, NumbersStay DEF Upload, Made
<1>4. ASSUME NEW c \in Client, CommitAppend(c) PROVE Kept
  <2>1. PICK row : row = call[c].row
    OBVIOUS
  <2>2. /\ call[c].op = "append" /\ row.thread \in DOMAIN threads
        /\ \A m \in MessagesOf(row.thread) : m.seq # row.seq
        /\ messages' = messages \cup {row} /\ threads' = threads /\ Made' = Made /\ Finish(c)
    BY <1>4, <2>1 DEF CommitAppend, Running, Insertable, HasThread, NextFree, Made
  <2>3. PICK n \in Nat : NumberedUpTo(MessagesOf(row.thread), n) /\ row.seq \in 1..(n + 1)
    BY <2>1, <2>2 DEF NumberInv, CallsAreNumbered, CallIsNumbered, Follows
  <2>4. row.seq = n + 1
    <3>1. row.seq \notin 1..n
      BY <2>2, <2>3 DEF NumberedUpTo
    <3>2. QED BY <2>3, <3>1
  <2>5. MessagesOf(row.thread)' = MessagesOf(row.thread) \cup {row}
    BY <2>2 DEF MessagesOf
  <2>6. \A t : t # row.thread => MessagesOf(t)' = MessagesOf(t)
    BY <2>2 DEF MessagesOf
  <2>7. \A k \in Nat : NumberedUpTo(MessagesOf(row.thread), k) => k = n
    BY <2>3, LastOfNumbered
  <2>8. NumberedUpTo(MessagesOf(row.thread)', n + 1) /\ n + 1 \in Nat
    BY <2>3, <2>4, <2>5, NextIsNumbered
  <2>9. Grows(row.thread)
    BY <2>7, <2>8 DEF Grows
  <2>10. \A t \in DOMAIN threads' \cap Made : t \in DOMAIN threads /\ Grows(t)
    <3> TAKE t \in DOMAIN threads' \cap Made
    <3>1. CASE t = row.thread
      BY <2>2, <2>9, <3>1 DEF Grows, MessagesOf
    <3>2. CASE t # row.thread
      BY <2>2, <2>6, <3>2, SameRowsGrow
    <3>3. QED BY <3>1, <3>2
  <2>11. call'[c].op = "idle" /\ \A d \in Client \ {c} : call'[d] = call[d]
    <3>1. Continue(c, Idle)
      BY <2>2 DEF Finish, Continue
    <3>2. call'[c] = Idle /\ \A d \in Client \ {c} : call'[d] = call[d]
      BY <1>0, <3>1, OtherCallsStay
    <3>3. QED BY <3>2 DEF Idle
  <2>12. \A d \in Client : CallIsNumbered(d)'
    BY <2>2, <2>10, <2>11, PendingStay
  <2>13. ThreadsAreNumbered'
    <3>1. \A t \in DOMAIN threads : Numbered(MessagesOf(t)')
      BY <2>6, <2>8 DEF NumberInv, ThreadsAreNumbered, Numbered
    <3>2. QED BY <2>2, <3>1 DEF ThreadsAreNumbered, MessagesOf
  <2>14. MessagesHaveThreads'
    BY <2>2 DEF NumberInv, MessagesHaveThreads
  <2>15. QED BY <2>12, <2>13, <2>14 DEF CallsAreNumbered
<1>5. ASSUME NEW c \in Client, NEW t \in DOMAIN threads, StartFork(c, t) PROVE Kept
  <2>1. PICK from \in 0..LastSequence(t) :
          Continue(c, [op |-> "fork", rows |-> {m \in MessagesOf(t) : m.seq <= from}])
    BY <1>5 DEF StartFork
  <2>2. /\ call'[c].op = "fork" /\ call'[c].rows = {m \in MessagesOf(t) : m.seq <= from}
        /\ \A d \in Client \ {c} : call'[d] = call[d]
    BY <1>0, <2>1, OtherCallsStay
  <2>3. PICK n \in Nat : NumberedUpTo(MessagesOf(t), n)
    BY DEF NumberInv, ThreadsAreNumbered, Numbered
  <2>4. LastSequence(t) = n
    BY <2>3, LastOfNumbered
  <2>5. from \in Nat /\ NumberedUpTo(call'[c].rows, from)
    BY <2>1, <2>2, <2>3, <2>4, FirstAreNumbered
  <2>6. CallIsNumbered(c)'
    BY <2>2, <2>5 DEF CallIsNumbered, Numbered
  <2>7. QED BY <1>5, <2>2, <2>6, NumbersStay DEF StartFork, Made
<1>6. ASSUME NEW c \in Client, CommitFork(c) PROVE Kept
  <2>1. \A m \in call[c].rows : IsRow(m)
    BY <1>0, <1>6, CallKinds DEF CommitFork, Running, CallsHaveShape
  <2>2. PICK n \in Nat : NumberedUpTo(call[c].rows, n)
    BY <1>6 DEF CommitFork, Running, NumberInv, CallsAreNumbered, CallIsNumbered, Numbered
  <2>3. PICK rows : rows = ForkOf(NewThread, call[c].rows)
    OBVIOUS
  <2>4. NumberedUpTo(rows, n) /\ \A m \in rows : m.thread = NewThread
    BY <2>1, <2>2, <2>3, CopiesAreNumbered
  <2>5. \A d \in Client : call'[d] = call[d] \/ call'[d] = Idle
    BY <1>0, <1>6, OtherCallsStay DEF CommitFork, Finish, Continue
  <2>6. QED BY <1>6, <2>3, <2>4, <2>5, NewThreadIsNumbered DEF CommitFork
<1>7. ASSUME NEW c \in Client, CommitRemove(c) PROVE Kept
  <2>1. PICK t : t = call[c].thread
    OBVIOUS
  <2> DEFINE next == IF call[c].refs = {} THEN Idle ELSE [op |-> "clean", refs |-> call[c].refs]
  <2>2. /\ threads' = [u \in DOMAIN threads \ {t} |-> threads[u]]
        /\ messages' = messages \ MessagesOf(t) /\ Made' = Made /\ Continue(c, next)
    BY <1>7, <2>1 DEF CommitRemove, Made
  <2>3. next.op \notin {"upload", "append", "fork"}
    BY DEF Idle
  <2>4. DOMAIN threads' = DOMAIN threads \ {t}
    BY <2>2
  <2>5. \A u \in DOMAIN threads' : MessagesOf(u)' = MessagesOf(u)
    BY <2>2, <2>4 DEF MessagesOf
  <2>6. \A u \in DOMAIN threads' \cap Made : u \in DOMAIN threads /\ Grows(u)
    BY <2>4, <2>5, SameRowsGrow
  <2> HIDE DEF next
  <2>7. call'[c] = next /\ \A d \in Client \ {c} : call'[d] = call[d]
    BY <1>0, <2>2, OtherCallsStay
  <2>8. \A d \in Client : CallIsNumbered(d)'
    BY <2>2, <2>3, <2>6, <2>7, PendingStay
  <2>9. ThreadsAreNumbered'
    BY <2>4, <2>5 DEF NumberInv, ThreadsAreNumbered
  <2>10. MessagesHaveThreads'
    BY <2>2, <2>4 DEF NumberInv, MessagesHaveThreads, MessagesOf
  <2>11. QED BY <2>8, <2>9, <2>10 DEF CallsAreNumbered
<1>8. ASSUME NEW c \in Client, NEW t \in DOMAIN threads,
             StartArchive(c, t) \/ StartDelete(c, t) \/ StartRemove(c, t)
      PROVE  Kept
  <2>1. \E r : Continue(c, r) /\ r.op \notin {"upload", "append", "fork"}
    <3>1. CASE StartArchive(c, t)
      BY <3>1 DEF StartArchive
    <3>2. CASE StartDelete(c, t)
      BY <3>2 DEF StartDelete
    <3>3. CASE StartRemove(c, t)
      BY <3>3 DEF StartRemove
    <3>4. QED BY <1>8, <3>1, <3>2, <3>3
  <2>2. \A d \in Client : call'[d] = call[d] \/ call'[d].op \notin {"upload", "append", "fork"}
    BY <1>0, <2>1, OtherCallsStay
  <2>3. QED BY <1>8, <2>2, NumbersStay DEF StartArchive, StartDelete, StartRemove, Made
<1>9. ASSUME NEW c \in Client,
             \/ FailAppend(c) \/ CommitArchive(c) \/ CommitDelete(c) \/ RecordDelete(c)
             \/ FailCommit(c) \/ Crash(c) \/ CleanObjects(c)
      PROVE  Kept
  <2>1. /\ Finish(c) /\ messages' = messages /\ minted' = minted
        /\ DOMAIN threads' = DOMAIN threads
    BY <1>9 DEF FailAppend, CommitArchive, CommitDelete, RecordDelete, FailCommit, Crash,
       CleanObjects
  <2>2. \A d \in Client : call'[d] = call[d] \/ call'[d].op \notin {"upload", "append", "fork"}
    BY <1>0, <2>1, OtherCallsStay DEF Finish, Continue, Idle
  <2>3. QED BY <2>1, <2>2, NumbersStay DEF Made
<1>10. ASSUME NEW c \in Client, CommitCascade(c) PROVE Kept
  <2>1. \A d \in Client : call'[d] = call[d] \/ call'[d].op \notin {"upload", "append", "fork"}
    BY <1>0, <1>10, OtherCallsStay DEF CommitCascade
  <2>2. QED BY <1>10, <2>1, NumbersStay DEF CommitCascade, Made
<1>11. ASSUME NEW t \in DOMAIN threads, ToggleHold(t) PROVE Kept
  BY <1>11, NumbersStay DEF ToggleHold, Made
<1>12. ASSUME UNCHANGED vars PROVE Kept
  BY <1>12, NumbersStay DEF vars, Made
<1>13. ASSUME NEW c \in Client, NEW t \in DOMAIN threads, StartStep(c, t) PROVE Kept
  BY <1>2, <1>5, <1>8, <1>13 DEF StartStep
<1> HIDE DEF Kept
<1>14. Kept
  BY <1>1, <1>3, <1>4, <1>6, <1>7, <1>9, <1>10, <1>11, <1>12, <1>13 DEF Next, StartStep
<1>15. QED
  BY <1>0, <1>14 DEF Kept, NumberInv

(* The messages of every thread are numbered 1, 2, 3 and so on, however appends, forks,     *)
(* removals and crashes overlap, and however many there are.                                *)
THEOREM NumbersHaveNoGaps == Spec => []NumberedWithoutGaps
<1>1. Init => NumberInv
  BY InitHasShape DEF Init, NumberInv, MessagesHaveThreads, ThreadsAreNumbered,
     CallsAreNumbered, CallIsNumbered, Idle
<1>2. NumberInv /\ [Next]_vars => NumberInv'
  BY NumberStep
<1>3. NumberInv => NumberedWithoutGaps
  <2> SUFFICES ASSUME NumberInv, NEW t \in DOMAIN threads
               PROVE  {m.seq : m \in MessagesOf(t)} = 1..Cardinality(MessagesOf(t))
    BY DEF NumberedWithoutGaps
  <2>1. PICK n \in Nat : NumberedUpTo(MessagesOf(t), n)
    BY DEF NumberInv, ThreadsAreNumbered, Numbered
  <2>2. QED BY <2>1, NumberedAreCounted
<1>4. QED
  BY <1>1, <1>2, <1>3, PTL DEF Spec
------------------------------------------------------------------------------

(* The rest of the types: what rows, calls and the bucket hold. *)
RowTyped(m) == m.thread \in Thread /\ m.seq \in Nat /\ m.ref \in Key \cup {None} /\ m.said \in Message

CallTyped(r) ==
  /\ r.op \in {"upload", "append"} => RowTyped(r.row)
  /\ r.op = "upload" => r.row.ref \in Key
  /\ r.op = "fork" => \A m \in r.rows : RowTyped(m)
  /\ r.op \in {"remove", "clean"} => r.refs \subseteq Key

StoreTyped ==
  /\ \A m \in messages : RowTyped(m)
  /\ DOMAIN objects \subseteq Key /\ \A k \in DOMAIN objects : objects[k] \in Message
  /\ log \subseteq Thread /\ minted \subseteq Thread \cup Message

CallsTyped == \A c \in Client : CallTyped(call[c])

TypedInv == NumberInv /\ StoreTyped /\ CallsTyped

(* The keys of a thread. *)
LEMMA RefsAreKeys ==
  ASSUME StoreTyped, NEW t
  PROVE  Refs(t) \subseteq Key
BY DEF StoreTyped, RowTyped, Refs, MessagesOf

(* A request that goes on with what has the types. *)
LEMMA OneCallTyped ==
  ASSUME TypedInv, NEW c \in Client, NEW r, Continue(c, r), CallTyped(r)
  PROVE  CallsTyped'
<1>1. call'[c] = r /\ \A d \in Client \ {c} : call'[d] = call[d]
  BY OtherCallsStay DEF TypedInv, NumberInv, Shape
<1>2. QED BY <1>1 DEF TypedInv, CallsTyped

(* A copied message refers to what the original refers to, and says what it says. *)
LEMMA CopiesSayTheSame ==
  ASSUME NEW rows, NEW t, \A m \in rows : IsRow(m)
  PROVE  \A n \in ForkOf(t, rows) : \E m \in rows : n.ref = m.ref /\ n.said = m.said
<1> TAKE n \in ForkOf(t, rows)
<1>1. PICK m \in rows :
        n = [m EXCEPT !.thread = t, !.seq = Cardinality({k \in rows : k.seq <= m.seq})]
  BY DEF ForkOf
<1>2. m = [thread |-> m.thread, seq |-> m.seq, ref |-> m.ref, said |-> m.said]
  BY DEF IsRow
<1>3. PICK rank : n = [m EXCEPT !.thread = t, !.seq = rank]
  BY <1>1
<1>4. n = [thread |-> t, seq |-> rank, ref |-> m.ref, said |-> m.said]
  BY <1>2, <1>3
<1>5. n.ref = m.ref /\ n.said = m.said
  BY <1>4
<1>6. QED BY <1>5

(* No step makes a row, a call or an object of another kind. *)
LEMMA TypedStep ==
  ASSUME TypedInv, [Next]_vars
  PROVE  TypedInv'
<1> DEFINE Kept == StoreTyped' /\ CallsTyped'
<1>0. NumberInv' /\ NumberInv /\ Shape /\ RowsHaveShape /\ CallsHaveShape /\ StoreTyped /\ CallsTyped
  BY NumberStep DEF TypedInv, NumberInv, Shape
<1>i. CallTyped(Idle)
  BY DEF CallTyped, Idle
<1>f. ASSUME NEW c \in Client, Finish(c) PROVE CallsTyped'
  <2>1. Continue(c, Idle)
    BY <1>f DEF Finish, Continue
  <2>2. QED BY <1>i, <2>1, OneCallTyped
<1>1. ASSUME NEW c \in Client, CreateThread(c) PROVE Kept
  <2>1. NewThread \in Thread
    BY <1>1, NewThreadIsNew DEF CreateThread
  <2>2. QED BY <1>0, <1>1, <2>1 DEF CreateThread, StoreTyped, CallsTyped
<1>2. ASSUME NEW c \in Client, NEW t \in DOMAIN threads, StartAppend(c, t) PROVE Kept
  <2>1. PICK s3 \in BOOLEAN :
          Continue(c, [op |-> IF s3 THEN "upload" ELSE "append",
                       row |-> [thread |-> t, seq |-> NextSequence(t), said |-> NewMessage,
                                ref |-> IF s3 THEN <<t, NextSequence(t)>> ELSE None]])
    BY <1>2 DEF StartAppend
  <2>2. NewMessage \in Message /\ t \in Thread
    BY <1>0, <1>2 DEF StartAppend, NewMessage, RowsHaveShape, Made
  <2>3. PICK n \in Nat : NumberedUpTo(MessagesOf(t), n)
    BY <1>0 DEF NumberInv, ThreadsAreNumbered, Numbered
  <2>4. NextSequence(t) \in Nat
    BY <2>3, LastOfNumbered DEF NextSequence
  <2>5. PICK seq \in Nat : seq = NextSequence(t)
    BY <2>4
  <2>6. PICK ref : ref = IF s3 THEN <<t, seq>> ELSE None
    OBVIOUS
  <2>7. PICK row : row = [thread |-> t, seq |-> seq, said |-> NewMessage, ref |-> ref]
    OBVIOUS
  <2>8. row.thread = t /\ row.seq = seq /\ row.said = NewMessage /\ row.ref = ref
    BY <2>7
  <2>9. ref \in Key \cup {None} /\ (s3 => ref \in Key)
    <3>1. <<t, seq>> \in Key
      BY <2>2 DEF Key
    <3>2. QED BY <2>6, <3>1
  <2>10. PICK r : r = [op |-> IF s3 THEN "upload" ELSE "append", row |-> row]
    OBVIOUS
  <2>11. r.row = row /\ r.op = (IF s3 THEN "upload" ELSE "append") /\ Continue(c, r)
    BY <2>1, <2>5, <2>6, <2>7, <2>10
  <2>12. CallTyped(r)
    BY <2>2, <2>8, <2>9, <2>11 DEF CallTyped, RowTyped
  <2>13. QED BY <1>0, <1>2, <2>2, <2>11, <2>12, OneCallTyped DEF StartAppend, StoreTyped
<1>3. ASSUME NEW c \in Client, Upload(c) PROVE Kept
  <2>1. PICK row : row = call[c].row
    OBVIOUS
  <2>2. call[c] = [op |-> "upload", row |-> row]
    BY <1>0, <1>3, <2>1, CallKinds DEF Upload, Running, CallsHaveShape
  <2>3. RowTyped(row) /\ row.ref \in Key
    BY <1>0, <1>3, <2>1 DEF Upload, Running, CallsTyped, CallTyped
  <2>4. PICK r : r = [op |-> "append", row |-> row]
    OBVIOUS
  <2>5. CallTyped(r) /\ Continue(c, r)
    BY <1>3, <2>2, <2>3, <2>4 DEF CallTyped, Upload
  <2>6. objects' = [k \in DOMAIN objects \cup {row.ref} |-> IF k = row.ref THEN row.said ELSE objects[k]]
    BY <1>3, <2>1 DEF Upload, Stored
  <2>7. QED BY <1>0, <1>3, <2>3, <2>5, <2>6, OneCallTyped DEF Upload, StoreTyped, RowTyped
<1>4. ASSUME NEW c \in Client, CommitAppend(c) PROVE Kept
  <2>1. RowTyped(call[c].row)
    BY <1>0, <1>4 DEF CommitAppend, Running, CallsTyped, CallTyped
  <2>2. QED BY <1>0, <1>4, <1>f, <2>1 DEF CommitAppend, StoreTyped
<1>5. ASSUME NEW c \in Client, NEW t \in DOMAIN threads, StartFork(c, t) PROVE Kept
  <2>1. PICK from \in 0..LastSequence(t) :
          Continue(c, [op |-> "fork", rows |-> {m \in MessagesOf(t) : m.seq <= from}])
    BY <1>5 DEF StartFork
  <2>2. CallTyped([op |-> "fork", rows |-> {m \in MessagesOf(t) : m.seq <= from}])
    BY <1>0 DEF CallTyped, StoreTyped, MessagesOf
  <2>3. QED BY <1>0, <1>5, <2>1, <2>2, OneCallTyped DEF StartFork, StoreTyped
<1>6. ASSUME NEW c \in Client, CommitFork(c) PROVE Kept
  <2>1. PICK rows : rows = call[c].rows
    OBVIOUS
  <2>2. PICK t \in Thread : t = NewThread
    BY <1>6, NewThreadIsNew DEF CommitFork
  <2>3. (\A m \in rows : IsRow(m)) /\ \A m \in rows : RowTyped(m)
    BY <1>0, <1>6, <2>1, CallKinds DEF CommitFork, Running, CallsHaveShape, CallsTyped, CallTyped
  <2>4. PICK n \in Nat : NumberedUpTo(rows, n)
    BY <1>0, <1>6, <2>1 DEF CommitFork, Running, NumberInv, CallsAreNumbered, CallIsNumbered, Numbered
  <2>5. \A k \in ForkOf(t, rows) : k.seq \in Nat /\ k.thread = t
    BY <2>3, <2>4, CopiesAreNumbered DEF NumberedUpTo
  <2>6. \A k \in ForkOf(t, rows) : \E m \in rows : k.ref = m.ref /\ k.said = m.said
    BY <2>3, CopiesSayTheSame
  <2>7. \A k \in ForkOf(t, rows) : RowTyped(k)
    BY <2>3, <2>5, <2>6 DEF RowTyped
  <2>8. QED BY <1>0, <1>6, <1>f, <2>1, <2>2, <2>7 DEF CommitFork, StoreTyped
<1>7. ASSUME NEW c \in Client, NEW t \in DOMAIN threads, StartArchive(c, t) \/ StartDelete(c, t)
      PROVE  Kept
  <2>1. PICK r : Continue(c, r) /\ CallTyped(r)
    <3>1. CASE StartArchive(c, t)
      <4>1. CallTyped([op |-> "archive", thread |-> t])
        BY DEF CallTyped
      <4>2. QED BY <3>1, <4>1 DEF StartArchive
    <3>2. CASE StartDelete(c, t)
      <4>1. CallTyped([op |-> "delete", thread |-> t, seen |-> threads[t]])
        BY DEF CallTyped
      <4>2. QED BY <3>2, <4>1 DEF StartDelete
    <3>3. QED BY <1>7, <3>1, <3>2
  <2>2. QED BY <1>0, <1>7, <2>1, OneCallTyped DEF StartArchive, StartDelete, StoreTyped
<1>8. ASSUME NEW c \in Client, NEW t \in DOMAIN threads, StartRemove(c, t) PROVE Kept
  <2>1. PICK by \in Removals :
          Continue(c, [op |-> "remove", thread |-> t, by |-> by, held |-> threads[t].hold,
                       refs |-> IF by = "retention" THEN {} ELSE Refs(t)])
    BY <1>8 DEF StartRemove
  <2>2. PICK refs : refs = IF by = "retention" THEN {} ELSE Refs(t)
    OBVIOUS
  <2>3. refs \subseteq Key
    BY <1>0, <2>2, RefsAreKeys
  <2>4. CallTyped([op |-> "remove", thread |-> t, by |-> by, held |-> threads[t].hold, refs |-> refs])
    BY <2>3 DEF CallTyped
  <2>5. Continue(c, [op |-> "remove", thread |-> t, by |-> by, held |-> threads[t].hold, refs |-> refs])
    BY <2>1, <2>2
  <2>6. QED BY <1>0, <1>8, <2>4, <2>5, OneCallTyped DEF StartRemove, StoreTyped
<1>9. ASSUME NEW c \in Client, CommitRemove(c) PROVE Kept
  <2>1. call[c].thread \in Thread /\ call[c].refs \subseteq Key
    BY <1>0, <1>9, CallKinds DEF CommitRemove, Running, CallsHaveShape, Made, CallsTyped, CallTyped
  <2>2. PICK r : r = IF call[c].refs = {} THEN Idle ELSE [op |-> "clean", refs |-> call[c].refs]
    OBVIOUS
  <2>3. CallTyped(r)
    BY <1>i, <2>1, <2>2 DEF CallTyped
  <2>4. Continue(c, r)
    BY <1>9, <2>2 DEF CommitRemove
  <2>5. CallsTyped'
    BY <2>3, <2>4, OneCallTyped
  <2>6. /\ messages' \subseteq messages /\ log' \subseteq log \cup {call[c].thread}
        /\ UNCHANGED <<objects, minted>>
    BY <1>9 DEF CommitRemove
  <2>7. QED BY <1>0, <2>1, <2>5, <2>6 DEF StoreTyped
<1>10. ASSUME NEW c \in Client, CommitCascade(c) PROVE Kept
  <2>1. CallTyped([op |-> "audit", thread |-> call[c].thread])
    BY DEF CallTyped
  <2>2. QED BY <1>0, <1>10, <2>1, OneCallTyped DEF CommitCascade, StoreTyped
<1>11. ASSUME NEW c \in Client, CommitDelete(c) \/ RecordDelete(c) PROVE Kept
  <2>1. call[c].thread \in Thread
    BY <1>0, <1>11, CallKinds DEF CommitDelete, RecordDelete, Running, CallsHaveShape, Made
  <2>2. QED BY <1>0, <1>11, <1>f, <2>1 DEF CommitDelete, RecordDelete, StoreTyped
<1>12. ASSUME NEW c \in Client,
              \/ FailAppend(c) \/ CommitArchive(c) \/ FailCommit(c) \/ Crash(c) \/ CleanObjects(c)
       PROVE  Kept
  <2>1. StoreTyped'
    BY <1>0, <1>12 DEF FailAppend, CommitArchive, FailCommit, Crash, CleanObjects, StoreTyped
  <2>2. QED BY <1>12, <1>f, <2>1 DEF FailAppend, CommitArchive, FailCommit, Crash, CleanObjects
<1>13. ASSUME NEW t \in DOMAIN threads, ToggleHold(t) PROVE Kept
  BY <1>0, <1>13 DEF ToggleHold, StoreTyped, CallsTyped
<1>14. ASSUME UNCHANGED vars PROVE Kept
  BY <1>0, <1>14 DEF vars, StoreTyped, CallsTyped
<1>15. ASSUME NEW c \in Client, NEW t \in DOMAIN threads, StartStep(c, t) PROVE Kept
  BY <1>2, <1>5, <1>7, <1>8, <1>15 DEF StartStep
<1> HIDE DEF Kept
<1>16. Kept
  BY <1>1, <1>3, <1>4, <1>6, <1>9, <1>10, <1>11, <1>12, <1>13, <1>14, <1>15 DEF Next, StartStep
<1>17. QED
  BY <1>0, <1>16 DEF Kept, TypedInv

(* Rows and requests stay records of their kinds, whatever overlaps. *)
THEOREM ThreadTypesHold == Spec => []ThreadTypeOK
<1>1. Init => TypedInv
  <2> SUFFICES ASSUME Init PROVE TypedInv
    OBVIOUS
  <2>1. NumberInv
    BY InitHasShape DEF Init, NumberInv, MessagesHaveThreads, ThreadsAreNumbered,
       CallsAreNumbered, CallIsNumbered, Idle
  <2>2. StoreTyped /\ CallsTyped
    BY DEF Init, StoreTyped, CallsTyped, CallTyped, Idle
  <2>3. QED BY <2>1, <2>2 DEF TypedInv
<1>2. TypedInv /\ [Next]_vars => TypedInv'
  BY TypedStep
<1>3. TypedInv => ThreadTypeOK
  <2> SUFFICES ASSUME TypedInv PROVE ThreadTypeOK
    OBVIOUS
  <2>0. RowsHaveShape /\ CallsHaveShape /\ MessagesHaveThreads /\ StoreTyped /\ CallsTyped
    BY DEF TypedInv, NumberInv, Shape
  <2>1. \A m : IsRow(m) /\ RowTyped(m) => m \in MessageRow
    BY DEF IsRow, RowTyped, MessageRow
  <2>2. \A m \in messages : m \in MessageRow /\ m.thread \in DOMAIN threads
    BY <2>0, <2>1 DEF RowsHaveShape, StoreTyped, MessagesHaveThreads
  <2>3. ASSUME NEW c \in Client
        PROVE  LET r == call[c]
               IN \/ r = Idle
                  \/ r \in AppendCall
                  \/ r \in ArchiveCall
                  \/ r.op = "fork" /\ \A m \in r.rows : m \in MessageRow
                  \/ r \in DeleteCall
                  \/ r \in AuditCall
                  \/ r.op = "remove" /\ r.thread \in Thread /\ \A k \in r.refs : k \in Key
                  \/ r.op = "clean" /\ \A k \in r.refs : k \in Key
    <3>1. PICK r : r = call[c]
      OBVIOUS
    <3>2. IsCall(r, Made) /\ CallTyped(r) /\ Made \subseteq Thread
      BY <2>0, <3>1 DEF CallsHaveShape, CallsTyped, Made
    <3>3. CASE r = Idle
      BY <3>1, <3>3
    <3>4. CASE \E row : IsRow(row) /\ (r = [op |-> "upload", row |-> row] \/ r = [op |-> "append", row |-> row])
      <4>1. PICK row : IsRow(row) /\ (r = [op |-> "upload", row |-> row] \/ r = [op |-> "append", row |-> row])
        BY <3>4
      <4>2. r.op \in {"upload", "append"} /\ r.row = row
        BY <4>1
      <4>3. row \in MessageRow
        BY <2>1, <3>2, <4>1, <4>2 DEF CallTyped
      <4>4. r \in AppendCall
        BY <4>1, <4>3 DEF AppendCall
      <4>5. QED BY <3>1, <4>4
    <3>5. CASE \E t \in Made : r = [op |-> "archive", thread |-> t] \/ r = [op |-> "audit", thread |-> t]
      BY <3>1, <3>2, <3>5 DEF ArchiveCall, AuditCall
    <3>6. CASE \E rows : (\A m \in rows : IsRow(m)) /\ r = [op |-> "fork", rows |-> rows]
      <4>1. PICK rows : (\A m \in rows : IsRow(m)) /\ r = [op |-> "fork", rows |-> rows]
        BY <3>6
      <4>2. r.op = "fork" /\ r.rows = rows
        BY <4>1
      <4>3. \A m \in r.rows : m \in MessageRow
        BY <2>1, <3>2, <4>1, <4>2 DEF CallTyped
      <4>4. QED BY <3>1, <4>2, <4>3
    <3>7. CASE \E t \in Made, seen \in ThreadRow : r = [op |-> "delete", thread |-> t, seen |-> seen]
      BY <3>1, <3>2, <3>7 DEF DeleteCall
    <3>8. CASE \E t \in Made, by \in Removals, held \in BOOLEAN : \E refs :
                 r = [op |-> "remove", thread |-> t, by |-> by, held |-> held, refs |-> refs]
      <4>1. r.op = "remove" /\ r.thread \in Made
        BY <3>8
      <4>2. QED BY <3>1, <3>2, <4>1 DEF CallTyped
    <3>9. CASE \E refs : r = [op |-> "clean", refs |-> refs]
      <4>1. r.op = "clean"
        BY <3>9
      <4>2. QED BY <3>1, <3>2, <4>1 DEF CallTyped
    <3>10. QED BY <3>2, <3>3, <3>4, <3>5, <3>6, <3>7, <3>8, <3>9 DEF IsCall
  <2>4. QED BY <2>0, <2>2, <2>3 DEF ThreadTypeOK, RowsHaveShape, StoreTyped, Made
<1>4. QED BY <1>1, <1>2, <1>3, PTL DEF Spec
==============================================================================
