------------------------------ MODULE ValkeyProofs ------------------------------
(* Theorems about the three users of Valkey, for every value of their constants: the lock *)
(* and the work queue of agents, the delivery of notifications, and the epochs in which    *)
(* the order of search results is frozen.                                                  *)
EXTENDS AgentRuntime, PushDelivery, CompilationEpoch, FiniteSetTheorems, SequenceTheorems, TLAPS

(* Whoever has time left that it bought has the lock, for at least that time. *)
LeasesAreCovered == \A i \in Instance : lease[i] > 0 => lock = i /\ lease[i] <= ttl

(* A release between its two commands is about to delete the lock of its own instance. *)
DeletesAreOwn == \A i \in Instance : step[i] = "delete" => lock = i

(* The inductive invariant of the election, if a release is not slow. *)
LeaseInv == LeaderTypeOK /\ LeasesAreCovered /\ DeletesAreOwn

(* The inductive invariant of the queue. *)
QueueInv == QueueTypeOK /\ ItemsAreHandledOnce

-----------------------------------------------------------------------------
(* The election *)

LEMMA AcquireLeases ==
  ASSUME LeaseInv, NEW i \in Instance, Acquire(i)
  PROVE  LeaseInv'
<1>1. \A j \in Instance : lease[j] = 0 /\ step[j] # "delete"
  BY InstanceAssumption DEF LeaseInv, LeaderTypeOK, LeasesAreCovered, DeletesAreOwn, Acquire
<1>2. LeaderTypeOK'
  BY LeaderAssumption DEF LeaseInv, LeaderTypeOK, Acquire, NewTtl
<1>3. LeasesAreCovered'
  BY <1>1, LeaderAssumption DEF LeaseInv, LeaderTypeOK, LeasesAreCovered, Acquire, NewTtl
<1>4. DeletesAreOwn'
  BY <1>1 DEF DeletesAreOwn, Acquire
<1>5. QED BY <1>2, <1>3, <1>4 DEF LeaseInv

(* The steps that change neither the lock nor a lease. *)
LEMMA PassiveLeases ==
  ASSUME LeaseInv, NEW i \in Instance, FailAcquire(i) \/ CheckHolder(i) \/ Heartbeat(i) \/ Release(i)
  PROVE  LeaseInv'
<1>1. UNCHANGED <<lock, ttl, lease>>
  BY DEF FailAcquire, CheckHolder, Heartbeat, Release
<1>2. LeaderTypeOK'
  BY <1>1 DEF LeaseInv, LeaderTypeOK, FailAcquire, CheckHolder, Heartbeat, Release
<1>3. LeasesAreCovered'
  BY <1>1 DEF LeaseInv, LeasesAreCovered
<1>4. \A j \in Instance : step'[j] = "delete" => step[j] = "delete" \/ lock = j
  BY DEF LeaseInv, LeaderTypeOK, FailAcquire, CheckHolder, Heartbeat, Release, DeletesNext
<1>5. DeletesAreOwn'
  BY <1>1, <1>4 DEF LeaseInv, DeletesAreOwn
<1>6. QED BY <1>2, <1>3, <1>5 DEF LeaseInv

LEMMA RenewLeases ==
  ASSUME LeaseInv, NEW i \in Instance, Renew(i)
  PROVE  LeaseInv'
<1>1. LeaderTypeOK'
  BY LeaderAssumption DEF LeaseInv, LeaderTypeOK, Renew, NewTtl
<1>2. \A j \in Instance : lease'[j] = IF j = i /\ lock = i THEN TTL ELSE lease[j]
  BY DEF LeaseInv, LeaderTypeOK, Renew
<1>3. LeasesAreCovered'
  BY <1>2, LeaderAssumption, InstanceAssumption
  DEF LeaseInv, LeaderTypeOK, LeasesAreCovered, Renew, NewTtl
<1>4. DeletesAreOwn'
  BY DEF LeaseInv, LeaderTypeOK, DeletesAreOwn, Renew
<1>5. QED BY <1>1, <1>3, <1>4 DEF LeaseInv

LEMMA DeleteLockLeases ==
  ASSUME LeaseInv, NEW i \in Instance, DeleteLock(i)
  PROVE  LeaseInv'
<1>1. LeaderTypeOK'
  BY LeaderAssumption DEF LeaseInv, LeaderTypeOK, DeleteLock
<1>2. lock = i
  BY DEF LeaseInv, DeletesAreOwn, DeleteLock
<1>3. \A j \in Instance : lease'[j] = 0
  BY <1>2 DEF LeaseInv, LeaderTypeOK, LeasesAreCovered, DeleteLock
<1>4. \A j \in Instance : step'[j] # "delete"
  BY <1>2 DEF LeaseInv, LeaderTypeOK, DeletesAreOwn, DeleteLock
<1>5. QED BY <1>1, <1>3, <1>4 DEF LeaseInv, LeasesAreCovered, DeletesAreOwn

LEMMA LoseInstanceLeases ==
  ASSUME LeaseInv, NEW i \in Instance, LoseInstance(i)
  PROVE  LeaseInv'
<1>1. LeaderTypeOK'
  BY LeaderAssumption DEF LeaseInv, LeaderTypeOK, LoseInstance
<1>2. LeasesAreCovered' /\ DeletesAreOwn'
  BY DEF LeaseInv, LeaderTypeOK, LeasesAreCovered, DeletesAreOwn, LoseInstance
<1>3. QED BY <1>1, <1>2 DEF LeaseInv

(* Time passes only when no release is between its two commands. *)
LEMMA TickLeases ==
  ASSUME LeaseInv, SlowCalls = FALSE, Tick
  PROVE  LeaseInv'
<1>1. LeaderTypeOK'
  BY LeaderAssumption DEF LeaseInv, LeaderTypeOK, Tick, Left
<1>2. LeasesAreCovered'
  BY DEF LeaseInv, LeaderTypeOK, LeasesAreCovered, Tick, Left
<1>3. DeletesAreOwn'
  BY DEF DeletesAreOwn, Tick, Prompt
<1>4. QED BY <1>1, <1>2, <1>3 DEF LeaseInv

LEMMA SameLeases ==
  ASSUME LeaseInv, UNCHANGED leaderVars
  PROVE  LeaseInv'
BY DEF LeaseInv, leaderVars, LeaderTypeOK, LeasesAreCovered, DeletesAreOwn

LEMMA LeaseStep ==
  ASSUME LeaseInv, SlowCalls = FALSE, [RuntimeNext]_runtimeVars
  PROVE  LeaseInv'
<1>1. CASE UNCHANGED runtimeVars
  BY <1>1, SameLeases DEF runtimeVars
<1>2. CASE Clock
  BY <1>2, TickLeases DEF Clock
<1>3. CASE Produce
  BY <1>3, SameLeases DEF Produce
<1>4. ASSUME NEW i \in Instance, Election(i) PROVE LeaseInv'
  BY <1>4, AcquireLeases, PassiveLeases, RenewLeases, DeleteLockLeases
  DEF Election, ElectionStep
<1>5. ASSUME NEW i \in Instance, Loop(i) PROVE LeaseInv'
  BY <1>5, LoseInstanceLeases, SameLeases DEF Loop
<1>6. ASSUME NEW i \in Instance, Start(i) \/ Terminate(i) PROVE LeaseInv'
  BY <1>6, SameLeases DEF Start, Terminate
<1>7. ASSUME NEW i \in Instance, Die(i) PROVE LeaseInv'
  BY <1>7, LoseInstanceLeases DEF Die
<1>8. QED BY <1>1, <1>2, <1>3, <1>4, <1>5, <1>6, <1>7 DEF RuntimeNext

-----------------------------------------------------------------------------
(* The queue *)

LEMMA EnqueueItems ==
  ASSUME QueueInv, Enqueue
  PROVE  QueueInv'
<1>1. PICK t \in NeverEnqueued : work' = Append(work, t)
  BY DEF Enqueue
<1>2. t \in Item /\ t \notin Waiting \cup Held \cup lost /\ finished[t] = 0
  BY DEF NeverEnqueued
<1>3. UNCHANGED <<runner, finished, lost>>
  BY DEF Enqueue
<1>4. /\ work \in Seq(Item) /\ work' \in Seq(Item)
      /\ Len(work') = Len(work) + 1
      /\ \A k \in DOMAIN work : work'[k] = work[k]
      /\ work'[Len(work) + 1] = t
  BY <1>1, <1>2 DEF QueueInv, QueueTypeOK
<1>5. Waiting' = Waiting \cup {t}
  BY <1>4 DEF Waiting
<1>6. \A k, l \in DOMAIN work' : work'[k] = work'[l] => k = l
  <2>1. \A k \in DOMAIN work : work[k] # t
    BY <1>2 DEF Waiting
  <2>2. QED BY <1>4, <2>1 DEF QueueInv, ItemsAreHandledOnce
<1>7. QueueTypeOK'
  BY <1>3, <1>4 DEF QueueInv, QueueTypeOK
<1>8. ItemsAreHandledOnce'
  BY <1>2, <1>3, <1>5, <1>6 DEF QueueInv, ItemsAreHandledOnce, Held
<1>9. QED BY <1>7, <1>8 DEF QueueInv

(* What leaves the list is in no other place of it. *)
LEMMA DequeueItems ==
  ASSUME QueueInv, NEW i \in Instance, Dequeue(i)
  PROVE  QueueInv'
<1> DEFINE t == Head(work)
<1>1. /\ work \in Seq(Item) /\ work # <<>> /\ work' = Tail(work)
      /\ \A k, l \in DOMAIN work : work[k] = work[l] => k = l
  BY DEF QueueInv, QueueTypeOK, ItemsAreHandledOnce, Dequeue, Popped
<1>2. /\ t \in Item /\ t = work[1] /\ 1 \in DOMAIN work
      /\ work' \in Seq(Item) /\ Len(work') = Len(work) - 1
      /\ \A k \in DOMAIN work' : k + 1 \in DOMAIN work /\ work'[k] = work[k + 1]
  BY <1>1
<1>3. t \in Waiting
  BY <1>2 DEF Waiting
<1>4. Waiting' \subseteq Waiting \ {t}
  BY <1>1, <1>2 DEF Waiting
<1>5. \A k, l \in DOMAIN work' : work'[k] = work'[l] => k = l
  BY <1>1, <1>2
<1>6. /\ t \notin Held \cup lost
      /\ finished[t] = 0
  BY <1>2, <1>3 DEF QueueInv, QueueTypeOK, ItemsAreHandledOnce
<1> HIDE DEF t
<1>7. CASE t \in Malformed
  <2>1. runner' = [runner EXCEPT ![i] = Down] /\ lost' = lost \cup {t} /\ finished' = finished
    BY <1>7 DEF Dequeue, t
  <2>2. \A j \in Instance : runner'[j].item = runner[j].item \/ runner'[j].item = None
    BY <2>1 DEF QueueInv, QueueTypeOK, Down
  <2>3. Held' \subseteq Held
    BY <2>2 DEF Held
  <2>4. QueueTypeOK'
    BY <1>2, <2>1 DEF QueueInv, QueueTypeOK, Down, Runner
  <2>5. ItemsAreHandledOnce'
    <3>1. \A j, k \in Instance :
            runner'[j].item = runner'[k].item => j = k \/ runner'[j].item = None
      BY <2>2 DEF QueueInv, ItemsAreHandledOnce
    <3>2. Waiting' \cap Held' = {} /\ (Waiting' \cup Held') \cap lost' = {}
      BY <1>4, <1>6, <2>1, <2>3 DEF QueueInv, ItemsAreHandledOnce
    <3>3. \A u \in Item : finished'[u] > 0 =>
            finished'[u] = 1 /\ u \notin Waiting' \cup Held' \cup lost'
      BY <1>4, <1>6, <2>1, <2>3 DEF QueueInv, ItemsAreHandledOnce
    <3>4. QED BY <1>5, <3>1, <3>2, <3>3 DEF ItemsAreHandledOnce
  <2>6. QED BY <2>4, <2>5 DEF QueueInv
<1>8. CASE t \notin Malformed
  <2>1. runner' = [runner EXCEPT ![i].item = t] /\ lost' = lost /\ finished' = finished
    BY <1>8 DEF Dequeue, t
  <2>2. \A j \in Instance : runner'[j].item = IF j = i THEN t ELSE runner[j].item
    BY <2>1 DEF QueueInv, QueueTypeOK, Runner
  <2>3. Held' \subseteq Held \cup {t}
    BY <2>2 DEF Held
  <2>4. \A j \in Instance : runner[j].item # t
    BY <1>2, <1>6, QueueAssumption DEF Held
  <2>5. QueueTypeOK'
    BY <1>2, <2>1 DEF QueueInv, QueueTypeOK, Runner
  <2>6. ItemsAreHandledOnce'
    <3>1. \A j, k \in Instance :
            runner'[j].item = runner'[k].item => j = k \/ runner'[j].item = None
      BY <2>2, <2>4 DEF QueueInv, ItemsAreHandledOnce
    <3>2. Waiting' \cap Held' = {} /\ (Waiting' \cup Held') \cap lost' = {}
      BY <1>3, <1>4, <1>6, <2>1, <2>3 DEF QueueInv, ItemsAreHandledOnce
    <3>3. \A u \in Item : finished'[u] > 0 =>
            finished'[u] = 1 /\ u \notin Waiting' \cup Held' \cup lost'
      BY <1>4, <1>6, <2>1, <2>3 DEF QueueInv, ItemsAreHandledOnce
    <3>4. QED BY <1>5, <3>1, <3>2, <3>3 DEF ItemsAreHandledOnce
  <2>7. QED BY <2>5, <2>6 DEF QueueInv
<1>9. QED BY <1>7, <1>8

(* What an instance holds is nobody else's. *)
LEMMA HeldItem ==
  ASSUME QueueInv, NEW i \in Instance, runner[i].item # None
  PROVE  /\ runner[i].item \in Item
         /\ runner[i].item \in Held
         /\ runner[i].item \notin Waiting \cup lost
         /\ finished[runner[i].item] = 0
         /\ \A j \in Instance \ {i} : runner[j].item # runner[i].item
<1>1. runner[i].item \in Item
  BY DEF QueueInv, QueueTypeOK, Runner
<1>2. runner[i].item \in Held
  BY DEF Held
<1>3. QED
  BY <1>1, <1>2 DEF QueueInv, QueueTypeOK, ItemsAreHandledOnce

(* An instance that puts down what it held leaves it to one place. *)
LEMMA PutDown ==
  ASSUME QueueInv, NEW i \in Instance, QueueTypeOK', runner'[i].item = None,
         \A j \in Instance \ {i} : runner'[j].item = runner[j].item
  PROVE  /\ Held' = Held \ {runner[i].item}
         /\ \A j, k \in Instance :
              runner'[j].item = runner'[k].item => j = k \/ runner'[j].item = None
<1>1. \A j \in Instance \ {i} : runner[j].item = runner[i].item => runner[j].item = None
  BY DEF QueueInv, ItemsAreHandledOnce
<1>2. Held' = Held \ {runner[i].item}
  BY <1>1 DEF Held
<1>3. QED
  BY <1>2 DEF QueueInv, ItemsAreHandledOnce

LEMMA ProcessItems ==
  ASSUME QueueInv, NEW i \in Instance, Process(i)
  PROVE  QueueInv'
<1> DEFINE t == runner[i].item
<1>1. /\ finished' = [finished EXCEPT ![t] = @ + 1]
      /\ runner' = [runner EXCEPT ![i].item = None]
      /\ UNCHANGED <<work, lost>> /\ t # None
  BY DEF Process
<1>2. /\ t \in Item /\ t \in Held /\ t \notin Waiting \cup lost /\ finished[t] = 0
  BY <1>1, HeldItem
<1>3. runner'[i].item = None /\ \A j \in Instance \ {i} : runner'[j].item = runner[j].item
  BY <1>1 DEF QueueInv, QueueTypeOK, Runner
<1>4. QueueTypeOK'
  <2>1. finished' \in [Item -> Nat]
    BY <1>1, <1>2 DEF QueueInv, QueueTypeOK
  <2>2. runner' \in [Instance -> Runner]
    BY <1>1 DEF QueueInv, QueueTypeOK, Runner
  <2>3. QED BY <1>1, <2>1, <2>2 DEF QueueInv, QueueTypeOK
<1>5. /\ Held' = Held \ {t}
      /\ \A j, k \in Instance :
           runner'[j].item = runner'[k].item => j = k \/ runner'[j].item = None
  BY <1>3, <1>4, PutDown
<1> HIDE DEF t
<1>6. Waiting' = Waiting
  BY <1>1 DEF Waiting
<1>7. \A u \in Item : finished'[u] > 0 =>
        finished'[u] = 1 /\ u \notin Waiting' \cup Held' \cup lost'
  <2>1. \A u \in Item : finished'[u] = IF u = t THEN 1 ELSE finished[u]
    BY <1>1, <1>2 DEF QueueInv, QueueTypeOK
  <2>2. QED BY <1>1, <1>2, <1>5, <1>6, <2>1 DEF QueueInv, ItemsAreHandledOnce
<1>8. /\ \A k, l \in DOMAIN work' : work'[k] = work'[l] => k = l
      /\ Waiting' \cap Held' = {}
      /\ (Waiting' \cup Held') \cap lost' = {}
  BY <1>1, <1>5, <1>6 DEF QueueInv, ItemsAreHandledOnce
<1>9. ItemsAreHandledOnce'
  BY <1>5, <1>7, <1>8 DEF ItemsAreHandledOnce
<1>10. QED BY <1>4, <1>9 DEF QueueInv

LEMMA RequeueItems ==
  ASSUME QueueInv, NEW i \in Instance, Requeue(i)
  PROVE  QueueInv'
<1> DEFINE t == runner[i].item
<1>1. /\ work' = Append(work, t)
      /\ runner' = [runner EXCEPT ![i].item = None]
      /\ UNCHANGED <<finished, lost>> /\ t # None
  BY DEF Requeue, Requeued
<1>2. /\ t \in Item /\ t \in Held /\ t \notin Waiting \cup lost /\ finished[t] = 0
  BY <1>1, HeldItem
<1>3. runner'[i].item = None /\ \A j \in Instance \ {i} : runner'[j].item = runner[j].item
  BY <1>1 DEF QueueInv, QueueTypeOK, Runner
<1>4. /\ work \in Seq(Item) /\ work' \in Seq(Item)
      /\ Len(work') = Len(work) + 1
      /\ \A k \in DOMAIN work : work'[k] = work[k]
      /\ work'[Len(work) + 1] = t
  BY <1>1, <1>2 DEF QueueInv, QueueTypeOK
<1>5. QueueTypeOK'
  BY <1>1, <1>4 DEF QueueInv, QueueTypeOK, Runner
<1>6. /\ Held' = Held \ {t}
      /\ \A j, k \in Instance :
           runner'[j].item = runner'[k].item => j = k \/ runner'[j].item = None
  BY <1>3, <1>5, PutDown
<1> HIDE DEF t
<1>7. Waiting' = Waiting \cup {t}
  BY <1>4 DEF Waiting
<1>8. \A k, l \in DOMAIN work' : work'[k] = work'[l] => k = l
  <2>1. \A k \in DOMAIN work : work[k] # t
    BY <1>2 DEF Waiting
  <2>2. QED BY <1>4, <2>1 DEF QueueInv, ItemsAreHandledOnce
<1>9. Waiting' \cap Held' = {} /\ (Waiting' \cup Held') \cap lost' = {}
  BY <1>1, <1>2, <1>6, <1>7 DEF QueueInv, ItemsAreHandledOnce
<1>10. \A u \in Item : finished'[u] > 0 =>
         finished'[u] = 1 /\ u \notin Waiting' \cup Held' \cup lost'
  BY <1>1, <1>2, <1>6, <1>7 DEF QueueInv, ItemsAreHandledOnce
<1>11. ItemsAreHandledOnce'
  BY <1>6, <1>8, <1>9, <1>10 DEF ItemsAreHandledOnce
<1>12. QED BY <1>5, <1>11 DEF QueueInv

(* The steps of a process: it starts, is told to stop, ends, or dies with what it holds. *)
LEMMA RunnerItems ==
  ASSUME QueueInv, NEW i \in Instance,
         StartRunner(i) \/ Signal(i) \/ Exit(i) \/ LoseRunner(i)
  PROVE  QueueInv'
<1>1. /\ UNCHANGED <<work, finished>>
      /\ \A j \in Instance \ {i} : runner'[j] = runner[j]
      /\ \/ Signal(i) /\ runner'[i].item = runner[i].item /\ lost' = lost
         \/ runner'[i].item = None /\ lost \subseteq lost'
            /\ lost' \subseteq lost \cup ({runner[i].item} \ {None})
  BY DEF StartRunner, Signal, Exit, LoseRunner, InHand, Down, Idle, QueueInv, QueueTypeOK,
         Runner
<1>2. QueueTypeOK'
  BY DEF StartRunner, Signal, Exit, LoseRunner, InHand, Down, Idle, QueueInv, QueueTypeOK,
         Runner
<1>3. Waiting' = Waiting
  BY <1>1 DEF Waiting
<1>4. CASE Signal(i) /\ runner'[i].item = runner[i].item /\ lost' = lost
  <2>1. Held' = Held
    BY <1>1, <1>4 DEF Held
  <2>2. \A j \in Instance : runner'[j].item = runner[j].item
    BY <1>1, <1>4
  <2>3. ItemsAreHandledOnce'
    BY <1>1, <1>3, <1>4, <2>1, <2>2 DEF QueueInv, ItemsAreHandledOnce
  <2>4. QED BY <1>2, <2>3 DEF QueueInv
<1>5. CASE /\ runner'[i].item = None /\ lost \subseteq lost'
           /\ lost' \subseteq lost \cup ({runner[i].item} \ {None})
  <2>1. /\ Held' = Held \ {runner[i].item}
        /\ \A j, k \in Instance :
             runner'[j].item = runner'[k].item => j = k \/ runner'[j].item = None
    BY <1>1, <1>2, <1>5, PutDown
  <2>2. runner[i].item # None =>
          runner[i].item \notin Waiting /\ finished[runner[i].item] = 0
    BY HeldItem
  <2>3. (Waiting' \cup Held') \cap lost' = {} /\ Waiting' \cap Held' = {}
    BY <1>3, <1>5, <2>1, <2>2 DEF QueueInv, ItemsAreHandledOnce
  <2>4. \A u \in Item : finished'[u] > 0 =>
          finished'[u] = 1 /\ u \notin Waiting' \cup Held' \cup lost'
    BY <1>1, <1>3, <1>5, <2>1, <2>2 DEF QueueInv, ItemsAreHandledOnce
  <2>5. \A k, l \in DOMAIN work' : work'[k] = work'[l] => k = l
    BY <1>1 DEF QueueInv, ItemsAreHandledOnce
  <2>6. ItemsAreHandledOnce'
    BY <2>1, <2>3, <2>4, <2>5 DEF ItemsAreHandledOnce
  <2>7. QED BY <1>2, <2>6 DEF QueueInv
<1>6. QED BY <1>1, <1>4, <1>5

LEMMA SameItems ==
  ASSUME QueueInv, UNCHANGED queueVars
  PROVE  QueueInv'
<1>1. work' = work /\ runner' = runner /\ finished' = finished /\ lost' = lost
  BY DEF queueVars
<1>2. Waiting' = Waiting /\ Held' = Held
  BY <1>1 DEF Waiting, Held
<1>3. QueueTypeOK'
  BY <1>1 DEF QueueInv, QueueTypeOK
<1>4. ItemsAreHandledOnce'
  BY <1>1, <1>2 DEF QueueInv, ItemsAreHandledOnce
<1>5. QED BY <1>3, <1>4 DEF QueueInv

LEMMA QueueStep ==
  ASSUME QueueInv, [RuntimeNext]_runtimeVars
  PROVE  QueueInv'
<1>1. CASE UNCHANGED runtimeVars
  BY <1>1, SameItems DEF runtimeVars
<1>2. CASE Clock
  BY <1>2, SameItems DEF Clock
<1>3. CASE Produce
  BY <1>3, EnqueueItems DEF Produce
<1>4. ASSUME NEW i \in Instance, Election(i) PROVE QueueInv'
  BY <1>4, SameItems DEF Election
<1>5. ASSUME NEW i \in Instance, Loop(i) PROVE QueueInv'
  BY <1>5, DequeueItems, ProcessItems, RequeueItems, RunnerItems DEF Loop, LoopStep
<1>6. ASSUME NEW i \in Instance, Start(i) \/ Terminate(i) \/ Die(i) PROVE QueueInv'
  BY <1>6, RunnerItems DEF Start, Terminate, Die
<1>7. QED BY <1>1, <1>2, <1>3, <1>4, <1>5, <1>6 DEF RuntimeNext

-----------------------------------------------------------------------------

(* However many instances start, die and lose the lock, at no time have two of them time *)
(* left that they bought, if no release is slow between its two commands.                *)
THEOREM LeadersExclude ==
  ASSUME SlowCalls = FALSE
  PROVE  RuntimeSpec => []LeasesAreExclusive
<1>1. RuntimeInit => LeaseInv
  BY LeaderAssumption
  DEF RuntimeInit, LeaderInit, LeaseInv, LeaderTypeOK, LeasesAreCovered, DeletesAreOwn
<1>2. LeaseInv /\ [RuntimeNext]_runtimeVars => LeaseInv'
  BY LeaseStep
<1>3. LeaseInv => LeasesAreExclusive
  BY DEF LeaseInv, LeasesAreCovered, LeasesAreExclusive
<1>4. QED BY <1>1, <1>2, <1>3, PTL DEF RuntimeSpec

(* Whatever instances pop, put back, finish or lose, an item is in one place, and the    *)
(* plugin returns for it at most once.                                                   *)
THEOREM ItemsHandledOnce == RuntimeSpec => []ItemsAreHandledOnce
<1>1. RuntimeInit => QueueInv
  <2> SUFFICES ASSUME RuntimeInit PROVE QueueInv
    OBVIOUS
  <2>1. work = <<>> /\ Waiting = {} /\ lost = {}
    BY DEF RuntimeInit, QueueInit, Waiting
  <2>2. \A i \in Instance : runner[i] = Down
    BY DEF RuntimeInit, QueueInit
  <2>3. Held = {}
    BY <2>2 DEF Held, Down
  <2>4. QueueTypeOK
    BY DEF RuntimeInit, QueueInit, QueueTypeOK, Down, Runner
  <2>5. ItemsAreHandledOnce
    BY <2>1, <2>2, <2>3 DEF ItemsAreHandledOnce, Down, RuntimeInit, QueueInit
  <2>6. QED BY <2>4, <2>5 DEF QueueInv
<1>2. QueueInv /\ [RuntimeNext]_runtimeVars => QueueInv'
  BY QueueStep
<1>3. QueueInv => ItemsAreHandledOnce
  BY DEF QueueInv
<1>4. QED BY <1>1, <1>2, <1>3, PTL DEF RuntimeSpec

(* The types of the election need no lease to be covered, and no release to be prompt. *)
LEMMA ElectionTypes ==
  ASSUME LeaderTypeOK, [RuntimeNext]_runtimeVars
  PROVE  LeaderTypeOK'
<1>1. CASE UNCHANGED leaderVars
  BY <1>1 DEF leaderVars, LeaderTypeOK
<1>2. ASSUME NEW i \in Instance, Acquire(i) PROVE LeaderTypeOK'
  BY <1>2, LeaderAssumption DEF LeaderTypeOK, Acquire, NewTtl
<1>3. ASSUME NEW i \in Instance, FailAcquire(i) \/ CheckHolder(i) \/ Heartbeat(i) \/ Release(i)
      PROVE  LeaderTypeOK'
  <2>1. UNCHANGED <<lock, ttl, lease>>
    BY <1>3 DEF FailAcquire, CheckHolder, Heartbeat, Release
  <2>2. QED BY <1>3, <2>1 DEF LeaderTypeOK, FailAcquire, CheckHolder, Heartbeat, Release
<1>4. ASSUME NEW i \in Instance, Renew(i) PROVE LeaderTypeOK'
  BY <1>4, LeaderAssumption DEF LeaderTypeOK, Renew, NewTtl
<1>5. ASSUME NEW i \in Instance, DeleteLock(i) PROVE LeaderTypeOK'
  BY <1>5, LeaderAssumption DEF LeaderTypeOK, DeleteLock
<1>6. ASSUME NEW i \in Instance, LoseInstance(i) PROVE LeaderTypeOK'
  BY <1>6, LeaderAssumption DEF LeaderTypeOK, LoseInstance
<1>7. ASSUME Tick PROVE LeaderTypeOK'
  BY <1>7, LeaderAssumption DEF LeaderTypeOK, Tick, Left
<1>8. ASSUME NEW i \in Instance, Election(i) PROVE LeaderTypeOK'
  BY <1>2, <1>3, <1>4, <1>5, <1>8 DEF Election, ElectionStep
<1>9. ASSUME NEW i \in Instance, Loop(i) \/ Start(i) \/ Terminate(i) \/ Die(i) PROVE LeaderTypeOK'
  BY <1>1, <1>6, <1>9 DEF Loop, Start, Terminate, Die
<1>10. QED
  BY <1>1, <1>7, <1>8, <1>9 DEF RuntimeNext, runtimeVars, leaderVars, Clock, Produce

(* The types of the runtime hold, the number of stops included, even if calls are slow.  *)
THEOREM RuntimeTypesHold == RuntimeSpec => []RuntimeTypeOK
<1> DEFINE Types == LeaderTypeOK /\ QueueInv /\ stops \in 0 .. MaxStops
<1>1. RuntimeInit => Types
  <2> SUFFICES ASSUME RuntimeInit PROVE Types
    OBVIOUS
  <2>1. LeaderTypeOK
    BY LeaderAssumption DEF RuntimeInit, LeaderInit, LeaderTypeOK
  <2>2. work = <<>> /\ Waiting = {} /\ lost = {} /\ Held = {}
    BY DEF RuntimeInit, QueueInit, Waiting, Held, Down
  <2>3. QueueTypeOK /\ ItemsAreHandledOnce
    BY <2>2 DEF RuntimeInit, QueueInit, QueueTypeOK, ItemsAreHandledOnce, Down, Runner
  <2>4. QED BY <2>1, <2>3, StopsAssumption DEF RuntimeInit, QueueInv
<1>2. Types /\ [RuntimeNext]_runtimeVars => Types'
  <2> SUFFICES ASSUME Types, [RuntimeNext]_runtimeVars PROVE Types'
    OBVIOUS
  <2>1. stops' \in {stops, stops + 1} /\ (stops' = stops \/ stops < MaxStops)
    BY DEF RuntimeNext, Clock, Produce, Election, Loop, Start, Terminate, Die, MayStop,
           runtimeVars
  <2>2. stops' \in 0 .. MaxStops
    BY <2>1, StopsAssumption
  <2>3. QED BY <2>2, ElectionTypes, QueueStep
<1>3. Types => RuntimeTypeOK
  BY DEF RuntimeTypeOK, QueueInv
<1>4. QED BY <1>1, <1>2, <1>3, PTL DEF RuntimeSpec

-----------------------------------------------------------------------------
(* Lists in the order of a relation *)

(* A set of numbers has a least one: the form of induction that is needed below. *)
LEMMA LeastNumber ==
  ASSUME NEW T \in SUBSET Nat, T # {}
  PROVE  \E x \in T : \A y \in T : x <= y
<1> DEFINE R == OpToRel(<, Nat)
<1>1. IsWellFoundedOn(R, Nat)
  BY NatLessThanWellFounded
<1>2. \A x, y \in Nat : x < y => <<x, y>> \in R
  BY DEF OpToRel
<1> HIDE DEF R
<1>3. PICK x \in T : \A y \in T : ~(<<y, x>> \in R)
  BY <1>1, WFMin
<1>4. ASSUME NEW y \in T PROVE x <= y
  <2>1. y \in Nat /\ x \in Nat
    OBVIOUS
  <2>2. ~(y < x)
    BY <1>2, <1>3, <2>1
  <2>3. QED BY <2>1, <2>2
<1>5. QED BY <1>4

Total(S, R) ==
  /\ \A m \in S : <<m, m>> \notin R
  /\ \A m, n \in S : m # n => <<m, n>> \in R \/ <<n, m>> \in R
  /\ \A l, m, n \in S : <<l, m>> \in R /\ <<m, n>> \in R => <<l, n>> \in R

InOrderOf(list, R) == \A i, j \in DOMAIN list : i < j => <<list[i], list[j]>> \in R

(* A finite set has a list in the order of a total relation: every member stands where its *)
(* rank puts it, which is the number of members up to it.                                  *)
LEMMA ListsExist ==
  ASSUME NEW S, IsFiniteSet(S), NEW R, Total(S, R)
  PROVE  \E list \in [1..Cardinality(S) -> S] : InOrderOf(list, R)
<1> DEFINE upto(m) == {n \in S : n = m \/ <<n, m>> \in R}
           rank == [m \in S |-> Cardinality(upto(m))]
           size == Cardinality(S)
<1>0. size \in Nat
  BY FS_CardinalityType
<1>1. ASSUME NEW m \in S
      PROVE  upto(m) \subseteq S /\ m \in upto(m) /\ IsFiniteSet(upto(m))
  BY FS_Subset
<1>2. ASSUME NEW m \in S PROVE rank[m] \in 1..size
  <2>1. Cardinality(upto(m)) \in Nat /\ Cardinality(upto(m)) <= size
    BY <1>1, FS_Subset, FS_CardinalityType
  <2>2. Cardinality(upto(m)) # 0
    BY <1>1, FS_EmptySet
  <2> HIDE DEF upto
  <2>3. QED BY <1>0, <2>1, <2>2
<1>3. ASSUME NEW m \in S, NEW n \in S, <<m, n>> \in R PROVE rank[m] < rank[n]
  <2>1. upto(m) \subseteq upto(n) /\ n \notin upto(m) /\ n \in upto(n)
    BY <1>3 DEF Total
  <2> HIDE DEF upto
  <2>2. /\ Cardinality(upto(m)) <= Cardinality(upto(n))
        /\ Cardinality(upto(m)) # Cardinality(upto(n))
    BY <1>1, <2>1, FS_Subset
  <2>3. QED BY <1>2, <2>2
<1> HIDE DEF rank
<1>4. rank \in Injection(S, 1..size)
  <2>1. rank \in [S -> 1..size]
    <3>1. rank = [m \in S |-> rank[m]]
      BY DEF rank
    <3>2. QED BY <1>2, <3>1
  <2>2. \A m, n \in S : rank[m] = rank[n] => m = n
    <3> SUFFICES ASSUME NEW m \in S, NEW n \in S, rank[m] = rank[n], m # n PROVE FALSE
      OBVIOUS
    <3>1. <<m, n>> \in R \/ <<n, m>> \in R
      BY DEF Total
    <3>2. rank[m] < rank[n] \/ rank[n] < rank[m]
      BY <1>3, <3>1
    <3>3. rank[m] \in Nat /\ rank[n] \in Nat
      BY <1>0, <1>2
    <3>4. QED BY <3>2, <3>3
  <2>3. QED BY <2>1, <2>2 DEF Injection, IsInjective
<1>5. IsFiniteSet(1..size) /\ Cardinality(1..size) = size
  BY <1>0, FS_Interval
<1>6. rank \in Surjection(S, 1..size)
  BY <1>4, <1>5, FS_Injection
<1>7. \A i \in 1..size : \E m \in S : rank[m] = i
  BY <1>6 DEF Surjection
<1> DEFINE list == [i \in 1..size |-> CHOOSE m \in S : rank[m] = i]
<1>8. \A i \in 1..size : list[i] \in S /\ rank[list[i]] = i
  BY <1>7
<1>9. list \in [1..size -> S]
  BY <1>7
<1>10. InOrderOf(list, R)
  <2> SUFFICES ASSUME NEW i \in 1..size, NEW j \in 1..size, i < j
               PROVE  <<list[i], list[j]>> \in R
    BY DEF InOrderOf
  <2> HIDE DEF list
  <2>1. list[i] # list[j] /\ ~(<<list[j], list[i]>> \in R)
    BY <1>3, <1>8
  <2>2. QED BY <1>8, <2>1 DEF Total
<1>11. QED BY <1>9, <1>10

(* Such a list has every member of the set, and has it once. *)
LEMMA ListsEnumerate ==
  ASSUME NEW S, IsFiniteSet(S), NEW R, Total(S, R),
         NEW list \in [1..Cardinality(S) -> S], InOrderOf(list, R)
  PROVE  /\ list \in Seq(S) /\ ToSet(list) = S
         /\ \A i, j \in DOMAIN list : list[i] = list[j] => i = j
<1> DEFINE size == Cardinality(S)
<1>0. size \in Nat /\ IsFiniteSet(1..size) /\ Cardinality(1..size) = size
  BY FS_CardinalityType, FS_Interval
<1> HIDE DEF size
<1>1. list \in [1..size -> S]
  BY DEF size
<1>2. \A i, j \in 1..size : list[i] = list[j] => i = j
  <2> SUFFICES ASSUME NEW i \in 1..size, NEW j \in 1..size, list[i] = list[j], i # j
               PROVE  FALSE
    OBVIOUS
  <2>1. <<list[i], list[j]>> \in R \/ <<list[j], list[i]>> \in R
    <3>1. i < j \/ j < i
      BY <1>0
    <3>2. QED BY <1>1, <3>1 DEF InOrderOf
  <2>2. QED BY <1>1, <2>1 DEF Total
<1>3. list \in Injection(1..size, S)
  BY <1>1, <1>2 DEF Injection, IsInjective
<1>4. list \in Surjection(1..size, S)
  BY <1>0, <1>3, FS_Injection DEF size
<1>5. list \in Seq(S)
  BY <1>0, <1>1
<1>6. ToSet(list) = S
  BY <1>1, <1>4 DEF Surjection, ToSet
<1>7. QED BY <1>1, <1>2, <1>5, <1>6

CanonicalOrder == {e \in Memory \X Memory : Canonical(e[1], e[2])}
CreationOrder == {e \in Memory \X Memory : ByCreation(e[1], e[2])}

LEMMA OrdersAreTotal ==
  ASSUME NEW S \in SUBSET Memory
  PROVE  Total(S, CanonicalOrder) /\ Total(S, CreationOrder)
<1>1. \A m \in Memory : Weight[m] \in Int /\ m \in Nat
  BY EpochAssumption DEF Memory
<1>2. Total(S, CanonicalOrder)
  BY <1>1 DEF Total, CanonicalOrder, Canonical
<1>3. Total(S, CreationOrder)
  BY <1>1 DEF Total, CreationOrder, ByCreation
<1>4. QED BY <1>2, <1>3

LEMMA MemoryIsFinite ==
  ASSUME NEW S \in SUBSET Memory
  PROVE  IsFiniteSet(S)
<1>1. 1 \in Int /\ MaxMemories \in Int
  BY EpochAssumption
<1>2. IsFiniteSet(Memory)
  BY <1>1, FS_Interval DEF Memory
<1>3. QED BY <1>2, FS_Subset

(* What sorting a set of memories gives. *)
IsListOf(list, S, R) ==
  /\ list \in Seq(S) /\ ToSet(list) = S
  /\ \A i, j \in DOMAIN list : list[i] = list[j] => i = j
  /\ InOrderOf(list, R)

LEMMA CanonicalLists ==
  ASSUME NEW S \in SUBSET Memory
  PROVE  IsListOf(Sorted(S, Canonical), S, CanonicalOrder)
<1> DEFINE size == Cardinality(S)
           ok(list) == \A i, j \in 1..size : i < j => Canonical(list[i], list[j])
<1>1. PICK list \in [1..size -> S] : InOrderOf(list, CanonicalOrder)
  BY OrdersAreTotal, MemoryIsFinite, ListsExist
<1>2. ok(list)
  BY <1>1 DEF InOrderOf, CanonicalOrder
<1>3. Sorted(S, Canonical) = CHOOSE l \in [1..size -> S] : ok(l)
  BY DEF Sorted
<1> DEFINE sorted == CHOOSE l \in [1..size -> S] : ok(l)
<1>4. sorted \in [1..size -> S] /\ ok(sorted)
  BY <1>2
<1> HIDE DEF sorted
<1>5. InOrderOf(sorted, CanonicalOrder)
  BY <1>4 DEF InOrderOf, CanonicalOrder
<1>6. IsListOf(sorted, S, CanonicalOrder)
  BY <1>4, <1>5, OrdersAreTotal, MemoryIsFinite, ListsEnumerate DEF IsListOf
<1>7. QED BY <1>3, <1>6 DEF sorted

LEMMA CreationLists ==
  ASSUME NEW S \in SUBSET Memory
  PROVE  IsListOf(Sorted(S, ByCreation), S, CreationOrder)
<1> DEFINE size == Cardinality(S)
           ok(list) == \A i, j \in 1..size : i < j => ByCreation(list[i], list[j])
<1>1. PICK list \in [1..size -> S] : InOrderOf(list, CreationOrder)
  BY OrdersAreTotal, MemoryIsFinite, ListsExist
<1>2. ok(list)
  BY <1>1 DEF InOrderOf, CreationOrder
<1>3. Sorted(S, ByCreation) = CHOOSE l \in [1..size -> S] : ok(l)
  BY DEF Sorted
<1> DEFINE sorted == CHOOSE l \in [1..size -> S] : ok(l)
<1>4. sorted \in [1..size -> S] /\ ok(sorted)
  BY <1>2
<1> HIDE DEF sorted
<1>5. InOrderOf(sorted, CreationOrder)
  BY <1>4 DEF InOrderOf, CreationOrder
<1>6. IsListOf(sorted, S, CreationOrder)
  BY <1>4, <1>5, OrdersAreTotal, MemoryIsFinite, ListsEnumerate DEF IsListOf
<1>7. QED BY <1>3, <1>6 DEF sorted

(* The order in which answers under one hash name their memories: what the epoch has, as    *)
(* it has it, and then the others by their creation.                                        *)
Places(ids, m, n) == \E a, b \in DOMAIN ids : a < b /\ ids[a] = m /\ ids[b] = n

Precedes(ids, m, n) ==
  \/ Places(ids, m, n)
  \/ m \in ToSet(ids) /\ n \notin ToSet(ids)
  \/ m \notin ToSet(ids) /\ n \notin ToSet(ids) /\ m < n

IsEpoch(ids) ==
  /\ ids \in Seq(Memory)
  /\ \A i, j \in DOMAIN ids : ids[i] = ids[j] => i = j

LEMMA PrecedesIsStrict ==
  ASSUME NEW ids, IsEpoch(ids), NEW m \in Memory, NEW n \in Memory, Precedes(ids, m, n)
  PROVE  ~Precedes(ids, n, m)
<1>1. \A i \in DOMAIN ids : i \in Nat
  BY DEF IsEpoch
<1>2. Places(ids, m, n) => m \in ToSet(ids) /\ n \in ToSet(ids)
  BY DEF Places, ToSet
<1>3. Places(ids, n, m) => m \in ToSet(ids) /\ n \in ToSet(ids)
  BY DEF Places, ToSet
<1>4. ~(Places(ids, m, n) /\ Places(ids, n, m))
  BY <1>1 DEF Places, IsEpoch
<1>5. m \in Nat /\ n \in Nat
  BY EpochAssumption DEF Memory
<1>6. QED BY <1>2, <1>3, <1>4, <1>5 DEF Precedes

(* An answer: a list in the order that belongs to its hash. *)
IsAnswer(answer) ==
  /\ IsEpoch(answer.ids)
  /\ answer.list \in Seq(Memory)
  /\ \A i, j \in DOMAIN answer.list :
       i < j => Precedes(answer.ids, answer.list[i], answer.list[j])

LEMMA AnswersAgree ==
  ASSUME NEW a, NEW b, IsAnswer(a), IsAnswer(b)
  PROVE  Agree(a, b)
<1> SUFFICES ASSUME a.ids = b.ids, NEW i \in DOMAIN a.list, NEW j \in DOMAIN a.list,
                    NEW k \in DOMAIN b.list, NEW l \in DOMAIN b.list,
                    i < j, a.list[i] = b.list[k], a.list[j] = b.list[l], ~(k < l)
             PROVE  FALSE
  BY DEF Agree
<1>1. k \in Nat /\ l \in Nat
  BY DEF IsAnswer
<1>2. a.list[i] \in Memory /\ a.list[j] \in Memory
  BY DEF IsAnswer
<1>3. Precedes(a.ids, a.list[i], a.list[j])
  BY DEF IsAnswer
<1>4. ~Precedes(a.ids, a.list[j], a.list[i])
  BY <1>2, <1>3, PrecedesIsStrict DEF IsAnswer
<1>5. CASE l < k
  BY <1>4, <1>5 DEF IsAnswer
<1>6. CASE l = k
  BY <1>3, <1>4, <1>6
<1>7. QED BY <1>1, <1>5, <1>6

(* The walk over the epoch that picks what was found. *)
Kept(kept, ids, found, size) ==
  \A n \in 0..size :
    kept[n] = IF n = 0 THEN <<>>
              ELSE IF ids[n] \in found THEN Append(kept[n - 1], ids[n]) ELSE kept[n - 1]

LEMMA KeptExists ==
  ASSUME NEW ids, NEW found, NEW size \in Nat
  PROVE  \E kept : kept = [n \in 0..size |-> kept[n]] /\ Kept(kept, ids, found, size)
<1> DEFINE ok(k) == \E kept : kept = [n \in 0..k |-> kept[n]] /\ Kept(kept, ids, found, k)
           bad == {k \in Nat : ~ok(k)}
<1> SUFFICES ASSUME bad # {} PROVE FALSE
  OBVIOUS
<1>0. bad \in SUBSET Nat
  OBVIOUS
<1>1. PICK k \in bad : \A j \in bad : k <= j
  <2> HIDE DEF bad
  <2> QED BY <1>0, LeastNumber
<1>2. CASE k = 0
  <2> DEFINE kept == [n \in 0..0 |-> <<>>]
  <2>1. kept = [n \in 0..0 |-> kept[n]] /\ Kept(kept, ids, found, 0)
    BY DEF Kept
  <2>2. QED BY <1>1, <1>2, <2>1
<1>3. CASE k # 0
  <2>1. k \in Nat /\ k - 1 \in Nat /\ k - 1 \notin bad
    BY <1>1, <1>3
  <2>2. PICK f : f = [n \in 0..(k - 1) |-> f[n]] /\ Kept(f, ids, found, k - 1)
    BY <2>1
  <2> DEFINE last == IF ids[k] \in found THEN Append(f[k - 1], ids[k]) ELSE f[k - 1]
             kept == [n \in 0..k |-> IF n = k THEN last ELSE f[n]]
  <2>3. kept = [n \in 0..k |-> kept[n]]
    OBVIOUS
  <2>4. kept[k] = last /\ \A n \in 0..(k - 1) : kept[n] = f[n]
    BY <2>1
  <2> HIDE DEF kept
  <2>5. Kept(kept, ids, found, k)
    <3> SUFFICES ASSUME NEW n \in 0..k
                 PROVE  kept[n] = IF n = 0 THEN <<>>
                          ELSE IF ids[n] \in found THEN Append(kept[n - 1], ids[n]) ELSE kept[n - 1]
      BY DEF Kept
    <3>1. CASE n = k
      <4>1. kept[k - 1] = f[k - 1]
        BY <2>1, <2>4
      <4>2. QED BY <1>3, <2>4, <3>1, <4>1
    <3>2. CASE n # k
      <4>1. n \in 0..(k - 1) /\ (n # 0 => n - 1 \in 0..(k - 1))
        BY <2>1, <3>2
      <4>2. QED BY <2>2, <2>4, <4>1 DEF Kept
    <3>3. QED BY <3>1, <3>2
  <2>6. QED BY <1>1, <2>3, <2>5
<1>4. QED BY <1>2, <1>3

LEMMA InEpochIsAWalk ==
  ASSUME NEW ids, NEW found, Len(ids) \in Nat
  PROVE  \E kept : Kept(kept, ids, found, Len(ids)) /\ InEpoch(ids, found) = kept[Len(ids)]
<1> DEFINE taken(kept) == [n \in 0..Len(ids) |->
              IF n = 0 THEN <<>>
              ELSE IF ids[n] \in found THEN Append(kept[n - 1], ids[n]) ELSE kept[n - 1]]
           walk == CHOOSE kept : kept = taken(kept)
<1>1. InEpoch(ids, found) = walk[Len(ids)]
  BY Zenon DEF InEpoch
<1>2. \E kept : kept = taken(kept)
  <2>1. PICK kept : /\ kept = [n \in 0..Len(ids) |-> kept[n]]
                    /\ Kept(kept, ids, found, Len(ids))
    BY KeptExists
  <2>2. kept = taken(kept)
    BY <2>1 DEF Kept
  <2>3. QED BY <2>2
<1>3. walk = taken(walk)
  <2> HIDE DEF taken
  <2>1. QED BY <1>2
<1> HIDE DEF walk
<1>4. Kept(walk, ids, found, Len(ids))
  BY <1>3 DEF Kept
<1>5. QED BY <1>1, <1>4

(* What that walk gives: what was found of the epoch, in its order. *)
LEMMA InEpochIsPlaced ==
  ASSUME NEW ids, IsEpoch(ids), NEW found
  PROVE  /\ InEpoch(ids, found) \in Seq(Memory)
         /\ ToSet(InEpoch(ids, found)) = ToSet(ids) \cap found
         /\ \A i, j \in DOMAIN InEpoch(ids, found) :
              i < j => Places(ids, InEpoch(ids, found)[i], InEpoch(ids, found)[j])
<1>0. ids \in Seq(Memory) /\ Len(ids) \in Nat /\ DOMAIN ids = 1..Len(ids)
  BY DEF IsEpoch
<1>1. PICK kept : Kept(kept, ids, found, Len(ids)) /\ InEpoch(ids, found) = kept[Len(ids)]
  BY <1>0, InEpochIsAWalk
<1> DEFINE ok(n) == /\ kept[n] \in Seq(Memory)
                    /\ \A m : m \in ToSet(kept[n]) <=> \E i \in 1..n : m = ids[i] /\ m \in found
                    /\ \A i, j \in DOMAIN kept[n] : i < j => Places(ids, kept[n][i], kept[n][j])
           bad == {n \in 0..Len(ids) : ~ok(n)}
<1>2. bad = {}
  <2> SUFFICES ASSUME bad # {} PROVE FALSE
    OBVIOUS
  <2>0. bad \in SUBSET Nat
    BY <1>0
  <2>1. PICK n \in bad : \A k \in bad : n <= k
    <3> HIDE DEF bad
    <3> QED BY <2>0, LeastNumber
  <2>2. n \in 0..Len(ids) /\ n \in Nat /\ ~ok(n)
    BY <1>0, <2>1
  <2>3. n # 0
    <3>1. kept[0] = <<>>
      BY <1>0, <1>1 DEF Kept
    <3>2. ToSet(<<>>) = {}
      BY DEF ToSet
    <3>3. ok(0)
      BY <3>1, <3>2
    <3>4. QED BY <2>2, <3>3
  <2>4. n - 1 \in 0..Len(ids) /\ n - 1 \in Nat /\ ok(n - 1)
    <3>1. n - 1 \in 0..Len(ids) /\ n - 1 \in Nat
      BY <1>0, <2>2, <2>3
    <3>2. n - 1 \notin bad
      <4> HIDE DEF bad
      <4> QED BY <2>1, <2>2
    <3> HIDE DEF ok
    <3>3. QED BY <3>1, <3>2
  <2>5. kept[n] = IF ids[n] \in found THEN Append(kept[n - 1], ids[n]) ELSE kept[n - 1]
    BY <1>1, <2>2, <2>3 DEF Kept
  <2>6. \A i : i \in 1..n <=> i = n \/ i \in 1..(n - 1)
    BY <2>2, <2>3
  <2>7. CASE ids[n] \notin found
    <3>1. kept[n] = kept[n - 1]
      BY <2>5, <2>7
    <3>2. ok(n)
      BY <2>4, <2>6, <2>7, <3>1
    <3>3. QED BY <2>2, <3>2
  <2>8. CASE ids[n] \in found
    <3> DEFINE old == kept[n - 1]
    <3>1. kept[n] = Append(old, ids[n]) /\ ids[n] \in Memory /\ old \in Seq(Memory)
      BY <1>0, <2>2, <2>3, <2>4, <2>5, <2>8
    <3>2. /\ kept[n] \in Seq(Memory) /\ Len(kept[n]) = Len(old) + 1 /\ Len(old) \in Nat
          /\ \A i \in 1..Len(old) : kept[n][i] = old[i]
          /\ kept[n][Len(old) + 1] = ids[n]
      <4> HIDE DEF old
      <4> QED BY <3>1
    <3>3. \A m : m \in ToSet(kept[n]) <=> m \in ToSet(old) \/ m = ids[n]
      <4>1. \A i : i \in 1..Len(kept[n]) <=> i = Len(old) + 1 \/ i \in 1..Len(old)
        BY <3>2
      <4>2. DOMAIN kept[n] = 1..Len(kept[n]) /\ DOMAIN old = 1..Len(old)
        BY <3>1, <3>2
      <4>3. QED BY <3>2, <4>1, <4>2 DEF ToSet
    <3>4. \A m : m \in ToSet(kept[n]) <=> \E i \in 1..n : m = ids[i] /\ m \in found
      BY <2>4, <2>6, <2>8, <3>3
    <3>5. ASSUME NEW i \in DOMAIN kept[n], NEW j \in DOMAIN kept[n], i < j
          PROVE  Places(ids, kept[n][i], kept[n][j])
      <4>1. i \in 1..Len(old) /\ i \in DOMAIN old
        BY <3>1, <3>2, <3>5
      <4>2. CASE j \in 1..Len(old)
        BY <2>4, <3>1, <3>2, <3>5, <4>1, <4>2
      <4>3. CASE j = Len(old) + 1
        <5>1. old[i] \in ToSet(old)
          BY <4>1 DEF ToSet
        <5>2. PICK k \in 1..(n - 1) : old[i] = ids[k]
          BY <2>4, <5>1
        <5>3. k \in DOMAIN ids /\ n \in DOMAIN ids /\ k < n
          BY <1>0, <2>2, <2>3
        <5>4. kept[n][i] = ids[k] /\ kept[n][j] = ids[n]
          BY <3>2, <4>1, <4>3, <5>2
        <5>5. QED BY <5>3, <5>4 DEF Places
      <4>4. QED BY <3>2, <3>5, <4>2, <4>3
    <3>6. ok(n)
      BY <3>2, <3>4, <3>5
    <3>7. QED BY <2>2, <3>6
  <2>9. QED BY <2>7, <2>8
<1>3. ok(Len(ids))
  <2>1. Len(ids) \in 0..Len(ids)
    BY <1>0
  <2> HIDE DEF ok
  <2>2. QED BY <1>2, <2>1
<1> HIDE DEF bad
<1>4. ToSet(kept[Len(ids)]) = ToSet(ids) \cap found
  BY <1>0, <1>3 DEF ToSet
<1>5. QED BY <1>1, <1>3, <1>4

(* What a search is served while an epoch holds, cut or not, is in the order of the epoch. *)
LEMMA ServedIsOrdered ==
  ASSUME NEW ids, IsEpoch(ids), NEW found \in SUBSET Memory, NEW size,
         size \in 0..Len(InEpoch(ids, found) \o Appendix(ids, found))
  PROVE  IsAnswer([ids |-> ids,
                   list |-> SubSeq(InEpoch(ids, found) \o Appendix(ids, found), 1, size)])
<1>1. PICK s : s = InEpoch(ids, found)
  OBVIOUS
<1>2. PICK t : t = Appendix(ids, found)
  OBVIOUS
<1>3. /\ s \in Seq(Memory) /\ ToSet(s) = ToSet(ids) \cap found
      /\ \A i, j \in DOMAIN s : i < j => Places(ids, s[i], s[j])
  BY <1>1, InEpochIsPlaced
<1>4. /\ t \in Seq(found \ ToSet(ids)) /\ ToSet(t) = found \ ToSet(ids)
      /\ \A i, j \in DOMAIN t : i < j => t[i] < t[j]
  <2>1. IsListOf(t, found \ ToSet(ids), CreationOrder)
    BY <1>2, CreationLists DEF Appendix
  <2>2. QED BY <2>1 DEF IsListOf, InOrderOf, CreationOrder, ByCreation
<1>5. t \in Seq(Memory)
  BY <1>4
<1>6. PICK whole : whole = s \o t
  OBVIOUS
<1>7. /\ whole \in Seq(Memory) /\ Len(whole) = Len(s) + Len(t)
      /\ Len(s) \in Nat /\ Len(t) \in Nat
      /\ \A i \in 1..Len(s) : whole[i] = s[i]
      /\ \A i \in 1..Len(t) : whole[Len(s) + i] = t[i]
  BY <1>3, <1>5, <1>6
<1>8. ASSUME NEW i \in 1..Len(whole), NEW j \in 1..Len(whole), i < j
      PROVE  Precedes(ids, whole[i], whole[j])
  <2>1. CASE j \in 1..Len(s)
    <3>1. i \in 1..Len(s) /\ i \in DOMAIN s /\ j \in DOMAIN s
      BY <1>3, <1>7, <1>8, <2>1
    <3>2. QED BY <1>3, <1>7, <1>8, <2>1, <3>1 DEF Precedes
  <2>2. CASE j \notin 1..Len(s)
    <3>1. PICK l \in 1..Len(t) : j = Len(s) + l
      <4>1. j - Len(s) \in 1..Len(t) /\ j = Len(s) + (j - Len(s))
        BY <1>7, <2>2
      <4>2. QED BY <4>1
    <3>2. whole[j] = t[l] /\ t[l] \notin ToSet(ids) /\ l \in DOMAIN t
      BY <1>4, <1>7, <3>1
    <3>3. CASE i \in 1..Len(s)
      <4>1. s[i] \in ToSet(s) /\ whole[i] = s[i]
        BY <1>3, <1>7, <3>3 DEF ToSet
      <4>2. QED BY <1>3, <3>2, <4>1 DEF Precedes
    <3>4. CASE i \notin 1..Len(s)
      <4>1. PICK k \in 1..Len(t) : i = Len(s) + k
        <5>1. i - Len(s) \in 1..Len(t) /\ i = Len(s) + (i - Len(s))
          BY <1>7, <3>4
        <5>2. QED BY <5>1
      <4>2. whole[i] = t[k] /\ t[k] \notin ToSet(ids) /\ k \in DOMAIN t /\ k < l
        BY <1>4, <1>7, <1>8, <3>1, <4>1
      <4>3. t[k] < t[l]
        BY <1>4, <3>2, <4>2
      <4>4. QED BY <3>2, <4>2, <4>3 DEF Precedes
    <3>5. QED BY <3>3, <3>4
  <2>3. QED BY <2>1, <2>2
<1>9. PICK list : list = SubSeq(whole, 1, size)
  OBVIOUS
<1>10. size \in 0..Len(whole)
  BY <1>1, <1>2, <1>6
<1>11. /\ list \in Seq(Memory) /\ DOMAIN list = 1..size
       /\ \A i \in 1..size : list[i] = whole[i] /\ i \in 1..Len(whole)
  BY <1>7, <1>9, <1>10
<1>12. \A i, j \in DOMAIN list : i < j => Precedes(ids, list[i], list[j])
  BY <1>8, <1>11
<1>13. PICK answer : answer = [ids |-> ids, list |-> list]
  OBVIOUS
<1>14. answer.ids = ids /\ answer.list = list
  BY <1>13
<1>15. IsAnswer(answer)
  BY <1>11, <1>12, <1>14 DEF IsAnswer
<1>16. QED BY <1>1, <1>2, <1>6, <1>9, <1>13, <1>15

(* A new epoch lists what a search found, and the answer that comes with it is in its order. *)
LEMMA NewEpochIsOrdered ==
  ASSUME NEW found \in SUBSET Memory, NEW ids, ids = Sorted(found, Canonical),
         NEW size, size \in 0..Len(ids)
  PROVE  /\ IsEpoch(ids) /\ ToSet(ids) = found
         /\ IsAnswer([ids |-> ids, list |-> SubSeq(ids, 1, size)])
<1>1. IsListOf(ids, found, CanonicalOrder)
  BY CanonicalLists
<1>2. ids \in Seq(Memory) /\ IsEpoch(ids) /\ ToSet(ids) = found
  BY <1>1 DEF IsListOf, IsEpoch
<1>3. PICK list : list = SubSeq(ids, 1, size)
  OBVIOUS
<1>4. /\ list \in Seq(Memory) /\ DOMAIN list = 1..size
      /\ \A i \in 1..size : list[i] = ids[i] /\ i \in DOMAIN ids
  BY <1>2, <1>3
<1>5. \A i, j \in DOMAIN list : i < j => Precedes(ids, list[i], list[j])
  BY <1>4 DEF Precedes, Places
<1>6. PICK answer : answer = [ids |-> ids, list |-> list]
  OBVIOUS
<1>7. answer.ids = ids /\ answer.list = list
  BY <1>6
<1>8. IsAnswer(answer)
  BY <1>2, <1>4, <1>5, <1>7 DEF IsAnswer
<1>9. QED BY <1>2, <1>3, <1>6, <1>8

-----------------------------------------------------------------------------
(* The order of search results *)

(* A request in progress, when so many memories are written and these are deleted. *)
Asked(size, gone) ==
  [op : {"peek", "load", "order", "write"}, filter : Filters, max : MaxResults,
   found : SUBSET (1..size), missing : SUBSET (1..size), fresh : BOOLEAN, gone : SUBSET gone]

(* What a request has found passes its filters and was there when it came; and unless the   *)
(* epoch was replaced since it looked, it has found, or is about to load, all that the      *)
(* epoch has for it.                                                                        *)
RequestOK(r) ==
  \/ r = NoRequest
  \/ /\ r \in Asked(written, deleted)
     /\ r.found \subseteq r.filter \ r.gone
     /\ r.op = "peek" => ~r.fresh
     /\ epoch # None /\ r.fresh =>
          ToSet(epoch) \cap r.filter \cap Live \subseteq
            IF r.op = "load" THEN r.found \cup r.missing ELSE r.found

MemoriesOK ==
  /\ written \in 0..MaxMemories
  /\ deleted \subseteq 1..written

EpochOK == epoch # None => IsEpoch(epoch) /\ ToSet(epoch) \subseteq 1..written

RequestsOK ==
  /\ search = [s \in Search |-> search[s]]
  /\ \A s \in Search : RequestOK(search[s])

CachedOK == cached # None => IsAnswer(cached)

EpochInv == MemoriesOK /\ EpochOK /\ RequestsOK /\ CachedOK

(* The fields of a request. *)
LEMMA AskedFields ==
  ASSUME NEW size, NEW gone, NEW r \in Asked(size, gone)
  PROVE  /\ r = [op |-> r.op, filter |-> r.filter, max |-> r.max, found |-> r.found,
                 missing |-> r.missing, fresh |-> r.fresh, gone |-> r.gone]
         /\ r.op \in {"peek", "load", "order", "write"}
         /\ r.filter \in Filters /\ r.max \in MaxResults
         /\ r.found \subseteq 1..size /\ r.missing \subseteq 1..size
         /\ r.fresh \in BOOLEAN /\ r.gone \subseteq gone
BY DEF Asked

(* A request that is at another stage. *)
LEMMA RequestMoved ==
  ASSUME NEW size, NEW gone, NEW r \in Asked(size, gone), NEW q,
         NEW op \in {"peek", "load", "order", "write"},
         q = [r EXCEPT !.op = op]
  PROVE  /\ q \in Asked(size, gone)
         /\ q.op = op /\ q.filter = r.filter /\ q.found = r.found
         /\ q.missing = r.missing /\ q.fresh = r.fresh /\ q.gone = r.gone
BY DEF Asked

(* A request that is under way. *)
LEMMA UnderWay ==
  ASSUME EpochInv, NEW s \in Search, search[s].op # "idle"
  PROVE  search[s] \in Asked(written, deleted) /\ RequestOK(search[s])
<1>1. RequestOK(search[s])
  BY DEF EpochInv, RequestsOK
<1>2. search[s] # NoRequest
  BY DEF NoRequest
<1>3. QED BY <1>1, <1>2 DEF RequestOK

(* The steps of one request that change neither the memories nor the epoch. *)
LEMMA OneRequest ==
  ASSUME EpochInv, NEW s \in Search, NEW r, Become(s, r), RequestOK(r), CachedOK',
         UNCHANGED <<memories, epoch>>
  PROVE  EpochInv'
<1>1. search' = [q \in Search |-> IF q = s THEN r ELSE search[q]]
  BY DEF Become, EpochInv, RequestsOK
<1>2. \A q : RequestOK(q)' <=> RequestOK(q)
  BY DEF memories, RequestOK, Live, Asked
<1>3. \A q \in Search : RequestOK(search'[q])
  BY <1>1 DEF EpochInv, RequestsOK
<1>4. RequestsOK'
  BY <1>1, <1>2, <1>3 DEF RequestsOK
<1>5. QED BY <1>4 DEF memories, EpochInv, MemoriesOK, EpochOK

(* Every answer is in the order that belongs to its hash. *)
LEMMA AnswersAreOrdered ==
  ASSUME EpochInv, NEW s \in Search
  PROVE  /\ AtStage(s, "order") /\ epoch # None => IsAnswer(Served(s))
         /\ AtStage(s, "write") => IsAnswer(Written(s))
         /\ AtStage(s, "write") => IsEpoch(NewEpoch(s)) /\ ToSet(NewEpoch(s)) = search[s].found
<1> SUFFICES ASSUME search[s].op # "idle"
             PROVE  /\ epoch # None => IsAnswer(Served(s))
                    /\ IsAnswer(Written(s))
                    /\ IsEpoch(NewEpoch(s)) /\ ToSet(NewEpoch(s)) = search[s].found
  BY DEF AtStage
<1>1. search[s].found \in SUBSET Memory /\ search[s].max \in Nat
  <2>1. search[s] \in Asked(written, deleted)
    BY UnderWay
  <2>2. search[s].found \subseteq 1..written /\ search[s].max \in MaxResults
    BY <2>1, AskedFields
  <2>3. 1..written \subseteq Memory
    BY EpochAssumption DEF EpochInv, MemoriesOK, Memory
  <2>4. QED BY <2>2, <2>3, EpochAssumption
<1> DEFINE cut(list) == IF Len(list) <= search[s].max THEN Len(list) ELSE search[s].max
<1>2. \A list : Len(list) \in Nat => cut(list) \in 0..Len(list)
  BY <1>1
<1>3. ASSUME epoch # None PROVE IsAnswer(Served(s))
  <2>1. IsEpoch(epoch)
    BY <1>3 DEF EpochInv, EpochOK
  <2> DEFINE whole == InEpoch(epoch, search[s].found) \o Appendix(epoch, search[s].found)
  <2>2. Len(whole) \in Nat
    <3>1. PICK a : a = InEpoch(epoch, search[s].found)
      OBVIOUS
    <3>2. PICK b : b = Appendix(epoch, search[s].found)
      OBVIOUS
    <3>3. a \in Seq(Memory)
      BY <2>1, <3>1, InEpochIsPlaced
    <3>4. b \in Seq(Memory)
      <4>1. IsListOf(b, search[s].found \ ToSet(epoch), CreationOrder)
        BY <1>1, <3>2, CreationLists DEF Appendix
      <4>2. QED BY <1>1, <4>1 DEF IsListOf
    <3>5. Len(a \o b) \in Nat
      BY <3>3, <3>4
    <3>6. QED BY <3>1, <3>2, <3>5
  <2>3. PICK size : size = cut(whole)
    OBVIOUS
  <2>4. size \in 0..Len(whole)
    BY <1>2, <2>2, <2>3
  <2>5. IsAnswer([ids |-> epoch, list |-> SubSeq(whole, 1, size)])
    BY <1>1, <2>1, <2>4, ServedIsOrdered
  <2>6. Served(s) = [ids |-> epoch, list |-> SubSeq(whole, 1, size)]
    BY <2>3 DEF Served, Answer
  <2>7. QED BY <2>5, <2>6
<1>4. IsAnswer(Written(s)) /\ IsEpoch(NewEpoch(s)) /\ ToSet(NewEpoch(s)) = search[s].found
  <2>1. PICK ids : ids = Sorted(search[s].found, Canonical)
    OBVIOUS
  <2>2. Len(ids) \in Nat
    BY <1>1, <2>1, CanonicalLists DEF IsListOf
  <2>3. PICK size : size = cut(ids)
    OBVIOUS
  <2>4. size \in 0..Len(ids)
    BY <1>2, <2>2, <2>3
  <2>5. /\ IsEpoch(ids) /\ ToSet(ids) = search[s].found
        /\ IsAnswer([ids |-> ids, list |-> SubSeq(ids, 1, size)])
    BY <1>1, <2>1, <2>4, NewEpochIsOrdered
  <2>6. NewEpoch(s) = ids
    BY <2>1 DEF NewEpoch
  <2>7. Written(s) = [ids |-> ids, list |-> SubSeq(ids, 1, size)]
    BY <2>3, <2>6 DEF Written, Answer, Hash
  <2>8. QED BY <2>5, <2>6, <2>7
<1>5. QED BY <1>3, <1>4

(* Requests when memories come or go: nothing that comes is in the epoch. *)
LEMMA RequestsOutlast ==
  ASSUME EpochInv, MemoriesOK', UNCHANGED <<epoch, search, cached>>,
         written <= written', deleted \subseteq deleted',
         ToSet(epoch) \cap Live' \subseteq Live \/ epoch = None
  PROVE  EpochInv'
<1>1. 1..written \subseteq 1..written'
  BY DEF EpochInv, MemoriesOK
<1>2. ASSUME NEW r, RequestOK(r) PROVE RequestOK(r)'
  <2>1. r \in Asked(written, deleted) => r \in Asked(written', deleted')
    BY <1>1 DEF Asked
  <2>2. QED BY <1>2, <2>1 DEF RequestOK
<1>3. RequestsOK'
  BY <1>2 DEF EpochInv, RequestsOK
<1>4. EpochOK' /\ CachedOK'
  BY <1>1 DEF EpochInv, EpochOK, CachedOK
<1>5. QED BY <1>3, <1>4 DEF EpochInv

(* Requests when the epoch is replaced. *)
LEMMA OutdatedOK ==
  ASSUME EpochInv, UNCHANGED memories, NEW s \in Search, NEW q, q = Outdated[s]
  PROVE  RequestOK(q)'
<1>0. q = IF search[s] = NoRequest THEN NoRequest ELSE [search[s] EXCEPT !.fresh = FALSE]
  BY DEF Outdated
<1>1. CASE search[s] = NoRequest
  BY <1>0, <1>1 DEF RequestOK
<1>2. CASE search[s] # NoRequest
  <2>1. PICK r : r = search[s]
    OBVIOUS
  <2>2. r \in Asked(written, deleted) /\ r.found \subseteq r.filter \ r.gone
    BY <1>2, <2>1 DEF EpochInv, RequestsOK, RequestOK
  <2>3. q = [r EXCEPT !.fresh = FALSE]
    BY <1>0, <1>2, <2>1
  <2>4. /\ q \in Asked(written, deleted) /\ q.filter = r.filter /\ q.found = r.found
        /\ q.fresh = FALSE /\ q.gone = r.gone
    BY <2>2, <2>3 DEF Asked
  <2>5. Asked(written', deleted') = Asked(written, deleted)
    BY DEF memories
  <2>6. QED BY <2>2, <2>4, <2>5 DEF RequestOK
<1>3. QED BY <1>1, <1>2

(* No step of a search, of a memory or of the epoch breaks the invariant. *)
LEMMA EpochStep ==
  ASSUME EpochInv, [EpochNext]_epochVars
  PROVE  EpochInv'
<1>m. written \in Nat /\ written <= MaxMemories /\ deleted \subseteq 1..written
  BY EpochAssumption DEF EpochInv, MemoriesOK
<1>1. CASE WriteMemory
  <2>1. written' = written + 1 /\ deleted' = deleted /\ UNCHANGED <<epoch, search, cached>>
    BY <1>1 DEF WriteMemory
  <2>2. MemoriesOK' /\ written <= written'
    BY <1>1, <1>m, <2>1, EpochAssumption DEF WriteMemory, MemoriesOK
  <2>3. epoch # None => ToSet(epoch) \subseteq 1..written
    BY DEF EpochInv, EpochOK
  <2>4. epoch # None => ToSet(epoch) \cap Live' \subseteq Live
    BY <1>m, <2>1, <2>3 DEF Live
  <2>5. QED BY <2>1, <2>2, <2>4, RequestsOutlast
<1>2. CASE \E n \in Memory : DeleteMemory(n)
  <2>1. PICK n \in Memory : DeleteMemory(n)
    BY <1>2
  <2>2. /\ written' = written /\ deleted' = deleted \cup {n} /\ n \in 1..written
        /\ UNCHANGED <<epoch, search, cached>>
    BY <2>1 DEF DeleteMemory, Live
  <2>3. MemoriesOK' /\ Live' \subseteq Live /\ deleted \subseteq deleted'
    BY <2>2 DEF EpochInv, MemoriesOK, Live
  <2>4. QED BY <1>m, <2>2, <2>3, RequestsOutlast
<1>3. ASSUME NEW s \in Search, Query(s) PROVE EpochInv'
  <2>1. PICK filter \in Filters, max \in MaxResults : \E found \in SUBSET (Live \cap filter) :
          Become(s, [op |-> "peek", filter |-> filter, max |-> max, found |-> found,
                     missing |-> {}, fresh |-> FALSE, gone |-> deleted])
    BY <1>3 DEF Query
  <2>2. PICK found \in SUBSET (Live \cap filter) :
          Become(s, [op |-> "peek", filter |-> filter, max |-> max, found |-> found,
                     missing |-> {}, fresh |-> FALSE, gone |-> deleted])
    BY <2>1
  <2>3. PICK r : r = [op |-> "peek", filter |-> filter, max |-> max, found |-> found,
                      missing |-> {}, fresh |-> FALSE, gone |-> deleted]
    OBVIOUS
  <2>4. found \subseteq 1..written /\ found \subseteq filter \ deleted
    BY <2>2 DEF Live
  <2>5. /\ r \in Asked(written, deleted) /\ r.found = found /\ r.filter = filter
        /\ r.gone = deleted /\ r.fresh = FALSE
    BY <2>3, <2>4 DEF Asked
  <2>6. RequestOK(r)
    BY <2>4, <2>5 DEF RequestOK
  <2>7. CachedOK' /\ UNCHANGED <<memories, epoch>>
    BY <1>3 DEF Query, CachedOK, EpochInv
  <2>8. QED BY <2>2, <2>3, <2>6, <2>7, OneRequest
<1>4. ASSUME NEW s \in Search, Peek(s) \/ FailPeek(s) PROVE EpochInv'
  <2>1. PICK r : r = search[s]
    OBVIOUS
  <2>2. /\ r.op = "peek" /\ CachedOK' /\ UNCHANGED <<memories, epoch>>
        /\ \/ Become(s, [r EXCEPT !.op = "order"])
           \/ /\ epoch # None
              /\ Become(s, [r EXCEPT !.op = "load", !.fresh = TRUE, !.missing = Missing(r.found)])
    BY <1>4, <2>1 DEF Peek, FailPeek, AtStage, CachedOK, EpochInv
  <2>3. r \in Asked(written, deleted) /\ RequestOK(r) /\ r # NoRequest
    BY <2>1, <2>2, UnderWay DEF NoRequest
  <2>4. ~r.fresh /\ r.found \subseteq r.filter \ r.gone
    BY <2>2, <2>3 DEF RequestOK
  <2>5. /\ r.found \subseteq 1..written /\ r.missing \subseteq 1..written
        /\ r.fresh \in BOOLEAN
    BY <2>3, AskedFields
  <2>6. CASE Become(s, [r EXCEPT !.op = "order"])
    <3>1. PICK q : q = [r EXCEPT !.op = "order"]
      OBVIOUS
    <3>2. /\ q \in Asked(written, deleted) /\ q.filter = r.filter /\ q.found = r.found
          /\ q.fresh = r.fresh /\ q.gone = r.gone
      BY <2>3, <3>1, RequestMoved
    <3>3. RequestOK(q)
      BY <2>4, <3>2 DEF RequestOK
    <3>4. QED BY <2>2, <2>6, <3>1, <3>3, OneRequest
  <2>7. CASE /\ epoch # None
             /\ Become(s, [r EXCEPT !.op = "load", !.fresh = TRUE, !.missing = Missing(r.found)])
    <3>1. PICK q : q = [r EXCEPT !.op = "load", !.fresh = TRUE, !.missing = Missing(r.found)]
      OBVIOUS
    <3>2. PICK missing : missing = Missing(r.found)
      OBVIOUS
    <3>6. missing \in SUBSET (1..written)
      BY <2>7, <3>2 DEF Missing, EpochInv, EpochOK
    <3>7. q = [r EXCEPT !.op = "load", !.fresh = TRUE, !.missing = missing]
      BY <3>1, <3>2
    <3>3. /\ q \in Asked(written, deleted) /\ q.op = "load" /\ q.filter = r.filter
          /\ q.found = r.found /\ q.missing = missing /\ q.gone = r.gone
      BY <2>3, <3>6, <3>7 DEF Asked
    <3>4. RequestOK(q)
      BY <2>4, <3>2, <3>3 DEF RequestOK, Missing
    <3>5. QED BY <2>2, <2>7, <3>1, <3>4, OneRequest
  <2>8. QED BY <2>2, <2>6, <2>7
<1>5. ASSUME NEW s \in Search, Load(s) PROVE EpochInv'
  <2>1. PICK r : r = search[s]
    OBVIOUS
  <2>2. PICK found : found = r.found \cup (r.missing \cap Loadable(r.filter))
    OBVIOUS
  <2>3. /\ r.op = "load" /\ CachedOK' /\ UNCHANGED <<memories, epoch>>
        /\ Become(s, [r EXCEPT !.op = "order", !.missing = {}, !.found = found])
    <3>1. [r EXCEPT !.op = "order", !.missing = {}, !.found = @ \cup (r.missing \cap Loadable(r.filter))]
            = [r EXCEPT !.op = "order", !.missing = {}, !.found = found]
      BY <2>2
    <3>2. QED BY <1>5, <2>1, <3>1 DEF Load, AtStage, CachedOK, EpochInv
  <2>4. r \in Asked(written, deleted) /\ RequestOK(r) /\ r # NoRequest
    BY <2>1, <2>3, UnderWay DEF NoRequest
  <2>5. /\ r.found \subseteq 1..written /\ r.missing \subseteq 1..written
        /\ r.fresh \in BOOLEAN /\ r.gone \subseteq deleted
    BY <2>4, AskedFields
  <2>6. found \in SUBSET (1..written)
    BY <2>2, <2>5
  <2>7. PICK q : q = [r EXCEPT !.op = "order", !.missing = {}, !.found = found]
    OBVIOUS
  <2>8. /\ q \in Asked(written, deleted) /\ q.op = "order" /\ q.filter = r.filter
        /\ q.found = found /\ q.fresh = r.fresh /\ q.gone = r.gone
    BY <2>4, <2>6, <2>7 DEF Asked
  <2>9. found \subseteq r.filter \ r.gone
    BY <2>2, <2>4, <2>5 DEF RequestOK, Loadable, Live
  <2>10. epoch # None /\ r.fresh => ToSet(epoch) \cap r.filter \cap Live \subseteq found
    BY <2>2, <2>3, <2>4 DEF RequestOK, Loadable
  <2>11. RequestOK(q)
    BY <2>8, <2>9, <2>10 DEF RequestOK
  <2>12. QED BY <2>3, <2>7, <2>11, OneRequest
<1>6. ASSUME NEW s \in Search, Recompile(s) \/ FirstCompile(s) PROVE EpochInv'
  <2>1. PICK r : r = search[s]
    OBVIOUS
  <2>2. /\ r.op = "order" /\ CachedOK' /\ UNCHANGED <<memories, epoch>>
        /\ Become(s, [r EXCEPT !.op = "write"])
    BY <1>6, <2>1 DEF Recompile, FirstCompile, AtStage, CachedOK, EpochInv
  <2>3. r \in Asked(written, deleted) /\ RequestOK(r) /\ r # NoRequest
    BY <2>1, <2>2, UnderWay DEF NoRequest
  <2>4. /\ r.found \subseteq 1..written /\ r.missing \subseteq 1..written
        /\ r.fresh \in BOOLEAN
    BY <2>3, AskedFields
  <2>5. PICK q : q = [r EXCEPT !.op = "write"]
    OBVIOUS
  <2>6. /\ q \in Asked(written, deleted) /\ q.op = "write" /\ q.filter = r.filter
        /\ q.found = r.found /\ q.fresh = r.fresh /\ q.gone = r.gone
    BY <2>3, <2>5, RequestMoved
  <2>7. RequestOK(q)
    BY <2>2, <2>3, <2>6 DEF RequestOK
  <2>8. QED BY <2>2, <2>5, <2>7, OneRequest
<1>7. ASSUME NEW s \in Search, ServeCompiled(s) PROVE EpochInv'
  <2>1. /\ AtStage(s, "order") /\ epoch # None /\ Become(s, NoRequest)
        /\ UNCHANGED <<memories, epoch>> /\ cached' \in {None, Served(s), cached}
    BY <1>7 DEF ServeCompiled, Keep
  <2>2. CachedOK'
    BY <2>1, AnswersAreOrdered DEF EpochInv, CachedOK
  <2>3. RequestOK(NoRequest)
    BY DEF RequestOK
  <2>4. QED BY <2>1, <2>2, <2>3, OneRequest
<1>8. ASSUME NEW s \in Search, Write(s) PROVE EpochInv'
  <2>1. /\ AtStage(s, "write") /\ epoch' \in {NewEpoch(s), epoch}
        /\ UNCHANGED memories /\ cached' \in {None, Written(s), cached}
    BY <1>8 DEF Write, Keep
  <2>2. CachedOK'
    BY <2>1, AnswersAreOrdered DEF EpochInv, CachedOK
  <2>3. RequestOK(NoRequest) /\ RequestOK(NoRequest)'
    BY DEF RequestOK
  <2>4. CASE epoch' = epoch
    BY <1>8, <2>1, <2>2, <2>3, <2>4, OneRequest DEF Write, Become
  <2>5. CASE epoch' # epoch
    <3>1. search' = [Outdated EXCEPT ![s] = NoRequest] /\ epoch' = NewEpoch(s)
      BY <1>8, <2>1, <2>5 DEF Write
    <3>2. search' = [q \in Search |-> IF q = s THEN NoRequest ELSE Outdated[q]]
      BY <3>1 DEF Outdated
    <3>4. RequestsOK'
      <4>1. \A q \in Search : q # s => search'[q] = Outdated[q]
        BY <3>2
      <4>2. \A q \in Search : RequestOK(search[q])'
        <5> TAKE q \in Search
        <5>1. CASE q = s
          BY <3>2, <5>1 DEF RequestOK
        <5>2. CASE q # s
          <6>1. PICK r : r = Outdated[q]
            OBVIOUS
          <6>2. search'[q] = r
            BY <4>1, <5>2, <6>1
          <6>3. QED BY <2>1, <6>1, <6>2, OutdatedOK
        <5>3. QED BY <5>1, <5>2
      <4>3. QED BY <3>2, <4>2 DEF RequestsOK
    <3>5. search[s].found \subseteq 1..written
      <4>1. search[s] \in Asked(written, deleted)
        BY <2>1, UnderWay DEF AtStage
      <4>2. QED BY <4>1, AskedFields
    <3>6. IsEpoch(epoch') /\ ToSet(epoch') \subseteq 1..written
      BY <2>1, <3>1, <3>5, AnswersAreOrdered
    <3>7. QED BY <2>1, <2>2, <3>4, <3>6 DEF EpochInv, EpochOK, MemoriesOK, memories
  <2>6. QED BY <2>4, <2>5
<1>9. CASE Expire
  <2>1. epoch' = None /\ search' = Outdated /\ UNCHANGED <<memories, cached>>
    BY <1>9 DEF Expire
  <2>2. \A q \in Search : RequestOK(search[q])'
    <3> TAKE q \in Search
    <3>1. PICK r : r = Outdated[q]
      OBVIOUS
    <3>2. search'[q] = r
      BY <2>1, <3>1
    <3>3. QED BY <2>1, <3>1, <3>2, OutdatedOK
  <2>3. RequestsOK'
    BY <2>1, <2>2 DEF RequestsOK, Outdated
  <2>4. QED BY <2>1, <2>3 DEF EpochInv, EpochOK, MemoriesOK, CachedOK, memories
<1>10. CASE UNCHANGED epochVars
  <2>1. MemoriesOK' /\ written <= written' /\ UNCHANGED <<epoch, search, cached, deleted, written>>
    BY <1>m, <1>10 DEF epochVars, EpochInv, MemoriesOK
  <2>2. ToSet(epoch) \cap Live' \subseteq Live
    BY <2>1 DEF Live
  <2>3. QED BY <2>1, <2>2, RequestsOutlast
<1>11. QED
  BY <1>1, <1>2, <1>3, <1>4, <1>5, <1>6, <1>7, <1>8, <1>9, <1>10 DEF EpochNext

(* The invariant holds at the start. *)
LEMMA EpochInitially == EpochInit => EpochInv
BY EpochAssumption DEF EpochInit, EpochInv, MemoriesOK, EpochOK, RequestsOK, RequestOK, CachedOK

(* An answer holds nothing that its filters leave out or that was deleted when its search   *)
(* began, whatever the epoch still names and however searches overlap.                      *)
THEOREM NothingStale == EpochSpec => []NothingStaleIsServed
<1>1. EpochInv => NothingStaleIsServed
  <2> SUFFICES ASSUME EpochInv, NEW s \in Search, search[s].op \in {"order", "write"}
               PROVE  search[s].found \subseteq search[s].filter \ search[s].gone
    BY DEF NothingStaleIsServed
  <2>1. RequestOK(search[s]) /\ search[s] # NoRequest
    BY UnderWay DEF NoRequest
  <2>2. QED BY <2>1 DEF RequestOK
<1>2. QED
  BY <1>1, EpochInitially, EpochStep, PTL DEF EpochSpec

(* Two answers under one hash never disagree on which of two memories comes first. *)
THEOREM OrdersAgree == EpochSpec => OrderIsStable
<1>1. EpochInv /\ [EpochNext]_epochVars =>
        [\A s \in Search :
           /\ ServeCompiled(s) /\ cached # None => Agree(cached, Served(s))
           /\ Write(s) /\ cached # None => Agree(cached, Written(s))]_epochVars
  <2> SUFFICES ASSUME EpochInv, NEW s \in Search, cached # None
               PROVE  /\ ServeCompiled(s) => Agree(cached, Served(s))
                      /\ Write(s) => Agree(cached, Written(s))
    OBVIOUS
  <2>1. IsAnswer(cached)
    BY DEF EpochInv, CachedOK
  <2>2. ServeCompiled(s) => Agree(cached, Served(s))
    BY <2>1, AnswersAreOrdered, AnswersAgree DEF ServeCompiled
  <2>3. Write(s) => Agree(cached, Written(s))
    BY <2>1, AnswersAreOrdered, AnswersAgree DEF Write
  <2>4. QED BY <2>2, <2>3
<1>2. QED
  BY <1>1, EpochInitially, EpochStep, PTL DEF EpochSpec, OrderIsStable

(* A recompilation keeps what the epoch had for its search, unless the epoch was replaced   *)
(* since the search looked at it.                                                           *)
THEOREM EntriesAreKept == EpochSpec => CompiledEntriesAreKept
<1>1. EpochInv /\ [EpochNext]_epochVars =>
        [\A s \in Search :
           Write(s) /\ epoch # None /\ epoch' # epoch /\ search[s].fresh =>
             ToSet(epoch) \cap search[s].filter \cap Live \subseteq ToSet(epoch')]_epochVars
  <2> SUFFICES ASSUME EpochInv, NEW s \in Search, Write(s), epoch # None, epoch' # epoch,
                      search[s].fresh
               PROVE  ToSet(epoch) \cap search[s].filter \cap Live \subseteq ToSet(epoch')
    OBVIOUS
  <2>1. AtStage(s, "write") /\ epoch' = NewEpoch(s)
    BY DEF Write
  <2>2. ToSet(epoch') = search[s].found
    BY <2>1, AnswersAreOrdered
  <2>3. RequestOK(search[s]) /\ search[s] # NoRequest
    BY <2>1, UnderWay DEF AtStage, NoRequest
  <2>4. QED BY <2>1, <2>2, <2>3 DEF RequestOK, AtStage
<1>2. QED
  BY <1>1, EpochInitially, EpochStep, PTL DEF EpochSpec, CompiledEntriesAreKept

(* Requests that have found something, epochs that name something, answers that say something. *)
SomethingIsFound ==
  /\ \A s \in Search : search[s] # NoRequest => search[s].found # {}
  /\ epoch # None => epoch # <<>>
  /\ cached # None => cached.ids # <<>> /\ cached.list # <<>>

(* Lists without repetitions are as long as there are memories, at most. *)
LEMMA ListsAreOrders ==
  ASSUME NEW ids, IsEpoch(ids), ids # <<>>
  PROVE  ids \in Order
<1>1. PICK n \in Nat \ {0} : n = Len(ids) /\ DOMAIN ids = 1..n /\ ids \in [1..n -> Memory]
  BY DEF IsEpoch
<1>2. IsFiniteSet(Memory) /\ Cardinality(Memory) = MaxMemories
  <2>1. MaxMemories \in Nat
    BY EpochAssumption
  <2>2. QED BY <2>1, FS_Interval DEF Memory
<1>3. IsFiniteSet(1..n) /\ Cardinality(1..n) = n
  BY FS_Interval
<1>4. n <= MaxMemories
  <2> SUFFICES ASSUME MaxMemories < n PROVE FALSE
    BY EpochAssumption
  <2>1. \E i, j \in 1..n : i # j /\ ids[i] = ids[j]
    BY <1>1, <1>2, <1>3, FS_PigeonHole
  <2>2. QED BY <1>1, <2>1 DEF IsEpoch
<1>5. n \in 1..MaxMemories
  BY <1>1, <1>4, EpochAssumption
<1>6. QED BY <1>1, <1>5 DEF Order, IsEpoch

(* An answer lists no memory twice. *)
LEMMA AnswersAreOrders ==
  ASSUME NEW answer, IsAnswer(answer), answer.ids # <<>>, answer.list # <<>>
  PROVE  {answer.ids, answer.list} \subseteq Order
<1>1. PICK list : list = answer.list
  OBVIOUS
<1>2. IsEpoch(list)
  <2>1. list \in Seq(Memory)
    BY <1>1 DEF IsAnswer
  <2>2. ASSUME NEW i \in DOMAIN list, NEW j \in DOMAIN list, list[i] = list[j], i < j PROVE FALSE
    <3>1. Precedes(answer.ids, list[i], list[j])
      BY <1>1, <2>2 DEF IsAnswer
    <3>2. list[i] \in Memory /\ list[j] \in Memory
      BY <2>1
    <3>3. ~Precedes(answer.ids, list[j], list[i])
      BY <3>1, <3>2, PrecedesIsStrict DEF IsAnswer
    <3>4. QED BY <2>2, <3>1, <3>3
  <2>3. \A i \in DOMAIN list : i \in Nat
    BY <2>1
  <2>4. ASSUME NEW i \in DOMAIN list, NEW j \in DOMAIN list, list[i] = list[j] PROVE i = j
    <3>1. ~(i < j) /\ ~(j < i)
      BY <2>2, <2>4
    <3>2. QED BY <2>3, <3>1
  <2>5. QED BY <2>1, <2>4 DEF IsEpoch
<1>3. list \in Order
  BY <1>1, <1>2, ListsAreOrders
<1>4. answer.ids \in Order
  BY ListsAreOrders DEF IsAnswer
<1>5. QED BY <1>1, <1>3, <1>4

(* A step of one request that keeps what it found. *)
LEMMA FoundByOne ==
  ASSUME EpochInv, SomethingIsFound, NEW s \in Search, NEW r, Become(s, r), UNCHANGED <<epoch, cached>>,
         r = NoRequest \/ r.found # {}
  PROVE  SomethingIsFound'
<1>1. search' = [q \in Search |-> IF q = s THEN r ELSE search[q]]
  BY DEF Become, EpochInv, RequestsOK
<1>2. QED BY <1>1 DEF SomethingIsFound

(* An answer that is kept says something. *)
LEMMA KeptSaysSomething ==
  ASSUME SomethingIsFound, NEW answer, Keep(answer), answer.ids # <<>>
  PROVE  cached' # None => cached'.ids # <<>> /\ cached'.list # <<>>
<1>1. cached' = answer => Len(answer.list) > 1 \/ cached' = cached
  BY DEF Keep
<1>2. CASE cached' = cached
  BY <1>2 DEF SomethingIsFound
<1>3. CASE cached' # cached /\ cached' # None
  <2>1. cached' = answer /\ Len(answer.list) > 1
    BY <1>3 DEF Keep
  <2>2. answer.list # <<>>
    BY <2>1
  <2>3. QED BY <2>1, <2>2
<1>4. QED BY <1>2, <1>3

(* No step loses what was found. *)
LEMMA FoundStep ==
  ASSUME EpochInv, SomethingIsFound, [EpochNext]_epochVars
  PROVE  SomethingIsFound'
<1>1. CASE WriteMemory \/ (\E n \in Memory : DeleteMemory(n)) \/ UNCHANGED epochVars
  BY <1>1 DEF WriteMemory, DeleteMemory, epochVars, SomethingIsFound
<1>2. CASE \E s \in Search : Query(s) \/ Peek(s) \/ FailPeek(s) \/ Load(s) \/ Recompile(s) \/ FirstCompile(s)
  <2>1. PICK s \in Search : Query(s) \/ Peek(s) \/ FailPeek(s) \/ Load(s) \/ Recompile(s) \/ FirstCompile(s)
    BY <1>2
  <2>2. CASE Query(s)
    <3>1. PICK r : Become(s, r) /\ r.found # {}
      <4>1. PICK filter \in Filters, max \in MaxResults : \E found \in SUBSET (Live \cap filter) :
              /\ found # {}
              /\ Become(s, [op |-> "peek", filter |-> filter, max |-> max, found |-> found,
                            missing |-> {}, fresh |-> FALSE, gone |-> deleted])
        BY <2>2 DEF Query
      <4>2. QED BY <4>1
    <3>2. QED BY <2>2, <3>1, FoundByOne DEF Query
  <2>3. CASE Peek(s) \/ FailPeek(s) \/ Load(s) \/ Recompile(s) \/ FirstCompile(s)
    <3>1. PICK r : r = search[s]
      OBVIOUS
    <3>2. r.op # "idle"
      BY <2>3, <3>1 DEF Peek, FailPeek, Load, Recompile, FirstCompile, AtStage
    <3>3. r \in Asked(written, deleted) /\ r # NoRequest
      BY <3>1, <3>2, UnderWay DEF NoRequest
    <3>4. r.found # {}
      BY <3>1, <3>3 DEF SomethingIsFound
    <3>5. PICK q : Become(s, q) /\ q.found # {} /\ UNCHANGED <<epoch, cached>>
      <4>1. CASE Peek(s)
        <5>1. PICK q : q = IF epoch = None THEN [r EXCEPT !.op = "order"]
                           ELSE [r EXCEPT !.op = "load", !.fresh = TRUE, !.missing = Missing(r.found)]
          OBVIOUS
        <5>2. q.found = r.found
          BY <3>3, <5>1 DEF Asked
        <5>3. QED BY <3>1, <3>4, <4>1, <5>1, <5>2 DEF Peek
      <4>2. CASE FailPeek(s)
        <5>1. PICK q : q = [r EXCEPT !.op = "order"]
          OBVIOUS
        <5>2. q.found = r.found
          BY <3>3, <5>1 DEF Asked
        <5>3. QED BY <3>1, <3>4, <4>2, <5>1, <5>2 DEF FailPeek
      <4>3. CASE Load(s)
        <5>1. PICK q : q = [r EXCEPT !.op = "order", !.missing = {},
                                     !.found = @ \cup (r.missing \cap Loadable(r.filter))]
          OBVIOUS
        <5>2. r.found \subseteq q.found
          BY <3>3, <5>1 DEF Asked
        <5>3. q.found # {}
          BY <3>4, <5>2
        <5>4. QED BY <3>1, <4>3, <5>1, <5>3 DEF Load
      <4>4. CASE Recompile(s) \/ FirstCompile(s)
        <5>1. PICK q : q = [r EXCEPT !.op = "write"]
          OBVIOUS
        <5>2. q.found = r.found
          BY <3>3, <5>1 DEF Asked
        <5>3. QED BY <3>1, <3>4, <4>4, <5>1, <5>2 DEF Recompile, FirstCompile
      <4>5. QED BY <2>3, <4>1, <4>2, <4>3, <4>4
    <3>6. QED BY <3>5, FoundByOne
  <2>4. QED BY <2>1, <2>2, <2>3
<1>3. ASSUME NEW s \in Search, ServeCompiled(s) PROVE SomethingIsFound'
  <2>1. Served(s).ids = epoch /\ epoch # <<>>
    BY <1>3 DEF ServeCompiled, Served, Answer, SomethingIsFound
  <2>2. Keep(Served(s)) /\ Become(s, NoRequest) /\ epoch' = epoch
    BY <1>3 DEF ServeCompiled
  <2>3. PICK answer : answer = Served(s)
    OBVIOUS
  <2>4. cached' # None => cached'.ids # <<>> /\ cached'.list # <<>>
    BY <2>1, <2>2, <2>3, KeptSaysSomething DEF Keep
  <2>5. \A q \in Search : search'[q] # NoRequest => search'[q] = search[q]
    BY <2>2 DEF Become, EpochInv, RequestsOK
  <2>6. QED BY <2>2, <2>4, <2>5 DEF SomethingIsFound
<1>4. ASSUME NEW s \in Search, Write(s) PROVE SomethingIsFound'
  <2>1. AtStage(s, "write") /\ Keep(Written(s)) /\ epoch' \in {NewEpoch(s), epoch}
    BY <1>4 DEF Write
  <2>2. NewEpoch(s) # <<>>
    <3>1. ToSet(NewEpoch(s)) = search[s].found
      BY <2>1, AnswersAreOrdered
    <3>2. search[s].found # {}
      BY <2>1 DEF AtStage, NoRequest, SomethingIsFound
    <3>3. QED BY <3>1, <3>2 DEF ToSet
  <2>3. Written(s).ids = NewEpoch(s)
    BY DEF Written, Answer, Hash
  <2>4. PICK answer : answer = Written(s)
    OBVIOUS
  <2>5. cached' # None => cached'.ids # <<>> /\ cached'.list # <<>>
    BY <2>1, <2>2, <2>3, <2>4, KeptSaysSomething DEF Keep
  <2>6. \A q \in Search : search'[q] # NoRequest =>
          /\ search[q] # NoRequest
          /\ search'[q] = search[q] \/ search'[q] = [search[q] EXCEPT !.fresh = FALSE]
    BY <1>4 DEF Write, Outdated, EpochInv, RequestsOK
  <2>7. ASSUME NEW q \in Search, search'[q] # NoRequest PROVE search'[q].found # {}
    <3>1. PICK r : r = search[q]
      OBVIOUS
    <3>2. r \in Asked(written, deleted) /\ r.found # {}
      BY <2>6, <2>7, <3>1 DEF SomethingIsFound, EpochInv, RequestsOK, RequestOK
    <3>3. PICK t : t = [r EXCEPT !.fresh = FALSE]
      OBVIOUS
    <3>4. t.found = r.found
      BY <3>2, <3>3 DEF Asked
    <3>5. QED BY <2>6, <2>7, <3>1, <3>2, <3>3, <3>4
  <2>8. QED BY <2>1, <2>2, <2>5, <2>7 DEF SomethingIsFound
<1>5. CASE Expire
  <2>1. epoch' = None /\ search' = Outdated /\ UNCHANGED cached
    BY <1>5 DEF Expire
  <2>2. ASSUME NEW q \in Search, search'[q] # NoRequest PROVE search'[q].found # {}
    <3>1. PICK r : r = search[q]
      OBVIOUS
    <3>2. r # NoRequest /\ search'[q] = [r EXCEPT !.fresh = FALSE]
      BY <2>1, <2>2, <3>1 DEF Outdated
    <3>3. r \in Asked(written, deleted) /\ r.found # {}
      BY <3>1, <3>2 DEF SomethingIsFound, EpochInv, RequestsOK, RequestOK
    <3>4. PICK t : t = [r EXCEPT !.fresh = FALSE]
      OBVIOUS
    <3>5. t.found = r.found
      BY <3>3, <3>4 DEF Asked
    <3>6. QED BY <3>2, <3>3, <3>4, <3>5
  <2>3. QED BY <2>1, <2>2 DEF SomethingIsFound
<1>6. QED
  BY <1>1, <1>2, <1>3, <1>4, <1>5 DEF EpochNext

(* Epochs, requests and answers stay well formed: no list names a memory twice. *)
THEOREM EpochTypesHold == EpochSpec => []EpochTypeOK
<1>1. EpochInit => SomethingIsFound
  BY DEF EpochInit, SomethingIsFound
<1>2. EpochInv /\ SomethingIsFound => EpochTypeOK
  <2> SUFFICES ASSUME EpochInv, SomethingIsFound PROVE EpochTypeOK
    OBVIOUS
  <2>1. written \in 0..MaxMemories /\ deleted \subseteq 1..written /\ 1..written \subseteq Memory
    BY EpochAssumption DEF EpochInv, MemoriesOK, Memory
  <2>2. epoch = None \/ epoch \in Order
    BY ListsAreOrders DEF EpochInv, EpochOK, SomethingIsFound
  <2>3. cached = None \/ {cached.ids, cached.list} \subseteq Order
    BY AnswersAreOrders DEF EpochInv, CachedOK, SomethingIsFound
  <2>4. ASSUME NEW s \in Search PROVE search[s] = NoRequest \/ search[s] \in Request
    <3>1. search[s] = NoRequest \/ search[s] \in Asked(written, deleted)
      BY DEF EpochInv, RequestsOK, RequestOK
    <3>2. Asked(written, deleted) \subseteq Request
      BY <2>1 DEF Asked, Request
    <3>3. QED BY <3>1, <3>2
  <2>5. QED BY <2>1, <2>2, <2>3, <2>4 DEF EpochTypeOK
<1>3. EpochInv /\ SomethingIsFound /\ [EpochNext]_epochVars => SomethingIsFound'
  BY FoundStep
<1>4. QED BY <1>1, <1>2, <1>3, EpochInitially, EpochStep, PTL DEF EpochSpec

-----------------------------------------------------------------------------
(* The delivery of notifications *)

(* The message m comes before n in a list. *)
Before(order, m, n) ==
  \E a, b \in DOMAIN order : a < b /\ order[a] = m /\ order[b] = n

(* What two copies e and f have to be, when e is ahead of f on the way to a client. *)
Fit(order, e, f) ==
  /\ e.msg # f.msg
  /\ e.attempt = 0 /\ f.attempt = 0 => Before(order, e.msg, f.msg)

Follows(order, p, q) == \A i \in DOMAIN p, j \in DOMAIN q : Fit(order, p[i], q[j])
FitWithin(order, q) == \A i, j \in DOMAIN q : i < j => Fit(order, q[i], q[j])
ComeFrom(order, q) == \A i \in DOMAIN q : \E a \in DOMAIN order : order[a] = q[i].msg

(* The copies that were sent, the one in hand and those in the queue, as one line. *)
InLine(order, p, hand, q) ==
  /\ FitWithin(order, p) /\ FitWithin(order, q)
  /\ Follows(order, p, hand) /\ Follows(order, hand, q) /\ Follows(order, p, q)
  /\ ComeFrom(order, p) /\ ComeFrom(order, hand) /\ ComeFrom(order, q)

Hand(s) == IF sub[s].state = "sending" THEN <<sub[s].env>> ELSE <<>>

LinesOK == \A s \in Session : InLine(pushed[s], sent[s], Hand(s), queue[s])

(* A broadcast has still to reach its targets, and whoever it may yet find. *)
ToPush(m, s) ==
  \/ cast[m].stage \in {"none", "embedding"}
  \/ cast[m].stage = "pushing" /\ s \in cast[m].targets

CastsOK == \A m \in Message, s \in Session : ToPush(m, s) => m \notin PushedTo(s)

(* A session that is not wired yet has no subscriber, and one connection. *)
WiringOK ==
  /\ \A s \in Session : s \notin minted => sub[s] = NoTask
  /\ \A c \in Conn : wiring[c] # None =>
       /\ wiring[c] \in minted /\ sub[wiring[c]] = NoTask
       /\ \A d \in Conn : wiring[d] = wiring[c] => d = c

PushInv == PushTypeOK /\ LinesOK /\ CastsOK /\ WiringOK /\ NothingVanishes

-----------------------------------------------------------------------------
(* Lines of copies *)

(* A queue that loses its head, which goes to the subscriber, *)
LEMMA LinePopped ==
  ASSUME NEW order \in Seq(Message), NEW p \in Seq(Envelope), NEW q \in Seq(Envelope),
         q # <<>>, InLine(order, p, <<>>, q)
  PROVE  InLine(order, p, <<Head(q)>>, Tail(q))
<1>1. /\ Tail(q) \in Seq(Envelope) /\ Head(q) = q[1] /\ Len(q) \in Nat \ {0}
      /\ DOMAIN Tail(q) = 1..(Len(q) - 1) /\ DOMAIN q = 1..Len(q)
      /\ \A i \in DOMAIN Tail(q) : Tail(q)[i] = q[i + 1] /\ i + 1 \in DOMAIN q
  OBVIOUS
<1>2. DOMAIN <<Head(q)>> = {1} /\ <<Head(q)>>[1] = q[1]
  BY <1>1
<1> PICK hand : hand = <<Head(q)>>
  OBVIOUS
<1> PICK rest : rest = Tail(q)
  OBVIOUS
<1>3. /\ DOMAIN hand = {1} /\ hand[1] = q[1] /\ 1 \in DOMAIN q /\ DOMAIN rest = 1..(Len(q) - 1)
      /\ \A i \in DOMAIN rest : rest[i] = q[i + 1] /\ i + 1 \in DOMAIN q
  BY <1>1, <1>2
<1>4. FitWithin(order, rest)
  BY <1>1, <1>3 DEF InLine, FitWithin
<1>5. Follows(order, p, hand) /\ Follows(order, p, rest)
  BY <1>1, <1>3 DEF InLine, Follows
<1>6. Follows(order, hand, rest)
  <2> SUFFICES ASSUME NEW j \in DOMAIN rest PROVE Fit(order, q[1], rest[j])
    BY <1>3 DEF Follows
  <2>1. 1 < j + 1 /\ j + 1 \in DOMAIN q /\ rest[j] = q[j + 1]
    BY <1>3, <1>1
  <2>2. QED BY <1>3, <2>1 DEF InLine, FitWithin
<1>7. ComeFrom(order, hand) /\ ComeFrom(order, rest)
  <2>1. ComeFrom(order, q)
    BY DEF InLine
  <2>2. QED BY <1>3, <2>1 DEF ComeFrom
<1>8. InLine(order, p, hand, rest)
  BY <1>4, <1>5, <1>6, <1>7 DEF InLine
<1>9. QED BY <1>8

(* a copy that is sent, *)
LEMMA LineSent ==
  ASSUME NEW order \in Seq(Message), NEW p \in Seq(Envelope), NEW q \in Seq(Envelope),
         NEW e \in Envelope, InLine(order, p, <<e>>, q)
  PROVE  InLine(order, Append(p, e), <<>>, q)
<1> PICK hand : hand = <<e>>
  OBVIOUS
<1> PICK line : line = Append(p, e)
  OBVIOUS
<1> PICK none : none = <<>>
  OBVIOUS
<1>1. DOMAIN hand = {1} /\ hand[1] = e /\ DOMAIN none = {}
  OBVIOUS
<1>2. /\ Len(p) \in Nat /\ DOMAIN p = 1..Len(p) /\ DOMAIN line = 1..(Len(p) + 1)
      /\ line[Len(p) + 1] = e /\ \A i \in 1..Len(p) : line[i] = p[i]
  OBVIOUS
<1>3. InLine(order, p, hand, q)
  OBVIOUS
<1>4. FitWithin(order, line)
  BY <1>1, <1>2, <1>3 DEF InLine, FitWithin, Follows
<1>5. Follows(order, line, q)
  BY <1>1, <1>2, <1>3 DEF InLine, Follows
<1>6. ComeFrom(order, line) /\ ComeFrom(order, none) /\ Follows(order, none, q) /\ Follows(order, line, none)
  BY <1>1, <1>2, <1>3 DEF InLine, ComeFrom, Follows
<1>7. InLine(order, line, none, q)
  BY <1>3, <1>4, <1>5, <1>6 DEF InLine
<1>8. QED BY <1>7

(* one that goes to the end of the queue again, counted, *)
LEMMA LineRetried ==
  ASSUME NEW order \in Seq(Message), NEW p \in Seq(Envelope), NEW q \in Seq(Envelope),
         NEW e \in Envelope, InLine(order, p, <<e>>, q),
         NEW f \in Envelope, f.msg = e.msg, f.attempt # 0
  PROVE  InLine(order, p, <<>>, Append(q, f))
<1> PICK hand : hand = <<e>>
  OBVIOUS
<1> PICK line : line = Append(q, f)
  OBVIOUS
<1> PICK none : none = <<>>
  OBVIOUS
<1>1. DOMAIN hand = {1} /\ hand[1] = e /\ DOMAIN none = {}
  OBVIOUS
<1>2. /\ Len(q) \in Nat /\ DOMAIN q = 1..Len(q) /\ DOMAIN line = 1..(Len(q) + 1)
      /\ line[Len(q) + 1] = f /\ \A i \in 1..Len(q) : line[i] = q[i]
  OBVIOUS
<1>3. InLine(order, p, hand, q)
  OBVIOUS
<1>4. \A i \in DOMAIN q : Fit(order, q[i], f)
  BY <1>1, <1>3 DEF InLine, Follows, Fit
<1>5. \A i \in DOMAIN p : Fit(order, p[i], f)
  BY <1>1, <1>3 DEF InLine, Follows, Fit
<1>6. FitWithin(order, line)
  BY <1>2, <1>3, <1>4 DEF InLine, FitWithin
<1>7. Follows(order, p, line) /\ Follows(order, none, line) /\ Follows(order, p, none)
  BY <1>1, <1>2, <1>3, <1>5 DEF InLine, Follows
<1>8. ComeFrom(order, line) /\ ComeFrom(order, none)
  BY <1>1, <1>2, <1>3 DEF InLine, ComeFrom
<1>9. InLine(order, p, none, line)
  BY <1>3, <1>6, <1>7, <1>8 DEF InLine
<1>10. QED BY <1>9

(* one that is dropped, or a queue that is, *)
LEMMA LineDropped ==
  ASSUME NEW order, NEW p, NEW hand, NEW q, InLine(order, p, hand, q)
  PROVE  InLine(order, p, <<>>, q) /\ InLine(order, p, hand, <<>>)
<1> PICK none : none = <<>>
  OBVIOUS
<1>1. DOMAIN none = {}
  OBVIOUS
<1>2. InLine(order, p, none, q) /\ InLine(order, p, hand, none)
  BY <1>1 DEF InLine, FitWithin, Follows, ComeFrom
<1>3. QED BY <1>2

(* and a new message that is pushed. *)
LEMMA LinePushed ==
  ASSUME NEW order \in Seq(Message), NEW p \in Seq(Envelope), NEW hand \in Seq(Envelope),
         NEW q \in Seq(Envelope), NEW m \in Message, NEW e \in Envelope, e.msg = m,
         \A a \in DOMAIN order : order[a] # m, InLine(order, p, hand, q)
  PROVE  InLine(Append(order, m), p, hand, Append(q, e))
<1> PICK next : next = Append(order, m)
  OBVIOUS
<1> PICK line : line = Append(q, e)
  OBVIOUS
<1>1. /\ Len(order) \in Nat /\ DOMAIN order = 1..Len(order) /\ DOMAIN next = 1..(Len(order) + 1)
      /\ next[Len(order) + 1] = m /\ \A a \in 1..Len(order) : next[a] = order[a]
  OBVIOUS
<1>2. /\ Len(q) \in Nat /\ DOMAIN q = 1..Len(q) /\ DOMAIN line = 1..(Len(q) + 1)
      /\ line[Len(q) + 1] = e /\ \A i \in 1..Len(q) : line[i] = q[i]
  OBVIOUS
<1>3. \A f, g : Fit(order, f, g) => Fit(next, f, g)
  <2> SUFFICES ASSUME NEW k, NEW n, Before(order, k, n) PROVE Before(next, k, n)
    BY DEF Fit
  <2>1. PICK a \in DOMAIN order, b \in DOMAIN order : a < b /\ order[a] = k /\ order[b] = n
    BY DEF Before
  <2>2. a \in DOMAIN next /\ b \in DOMAIN next /\ next[a] = k /\ next[b] = n
    BY <1>1, <2>1
  <2>3. QED BY <2>1, <2>2 DEF Before
<1>4. \A f : (\E a \in DOMAIN order : order[a] = f.msg) => Fit(next, f, e)
  <2> SUFFICES ASSUME NEW f, NEW a \in DOMAIN order, order[a] = f.msg PROVE Fit(next, f, e)
    OBVIOUS
  <2>1. f.msg # m
    OBVIOUS
  <2>2. a < Len(order) + 1 /\ a \in DOMAIN next /\ Len(order) + 1 \in DOMAIN next
    BY <1>1
  <2>3. next[a] = f.msg /\ next[Len(order) + 1] = e.msg
    BY <1>1
  <2>4. Before(next, f.msg, e.msg)
    BY <2>2, <2>3 DEF Before
  <2>5. QED BY <2>1, <2>4 DEF Fit
<1>5. /\ \A i \in DOMAIN p : Fit(next, p[i], e)
      /\ \A i \in DOMAIN hand : Fit(next, hand[i], e)
      /\ \A i \in DOMAIN q : Fit(next, q[i], e)
  BY <1>4 DEF InLine, ComeFrom
<1>6. FitWithin(next, p) /\ FitWithin(next, line)
  BY <1>2, <1>3, <1>5 DEF InLine, FitWithin
<1>7. Follows(next, p, hand) /\ Follows(next, hand, line) /\ Follows(next, p, line)
  BY <1>2, <1>3, <1>5 DEF InLine, Follows
<1>8. \A f : (\E a \in DOMAIN order : order[a] = f.msg) => (\E a \in DOMAIN next : next[a] = f.msg)
  BY <1>1
<1>9. ComeFrom(next, p) /\ ComeFrom(next, hand)
  BY <1>8 DEF InLine, ComeFrom
<1>10. ComeFrom(next, line)
  <2>1. ComeFrom(order, q)
    BY DEF InLine
  <2>2. \A i \in 1..Len(q) : \E a \in DOMAIN next : next[a] = line[i].msg
    <3> TAKE i \in 1..Len(q)
    <3>1. PICK a \in DOMAIN order : order[a] = q[i].msg
      BY <1>2, <2>1 DEF ComeFrom
    <3>2. a \in DOMAIN next /\ next[a] = order[a]
      BY <1>1
    <3>3. QED BY <1>2, <3>1, <3>2
  <2>3. \E a \in DOMAIN next : next[a] = line[Len(q) + 1].msg
    <3>1. Len(order) + 1 \in DOMAIN next /\ next[Len(order) + 1] = line[Len(q) + 1].msg
      BY <1>1, <1>2
    <3>2. QED BY <3>1
  <2>4. \A i \in DOMAIN line : i \in 1..Len(q) \/ i = Len(q) + 1
    BY <1>2
  <2>5. QED BY <2>2, <2>3, <2>4 DEF ComeFrom
<1>11. InLine(next, p, hand, line)
  BY <1>6, <1>7, <1>9, <1>10 DEF InLine
<1>12. QED BY <1>11

-----------------------------------------------------------------------------
(* Steps of the delivery *)

(* The messages in a queue. *)
Messages(q) == {q[i].msg : i \in DOMAIN q}

(* The messages of a queue that gains or loses one. *)
LEMMA MessagesOf ==
  ASSUME NEW q \in Seq(Envelope), NEW e \in Envelope
  PROVE  /\ Messages(Append(q, e)) = Messages(q) \cup {e.msg}
         /\ q # <<>> => /\ Messages(q) = Messages(Tail(q)) \cup {Head(q).msg}
                        /\ Head(q) \in Envelope /\ Tail(q) \in Seq(Envelope)
<1>1. Messages(Append(q, e)) = Messages(q) \cup {e.msg}
  <2>1. PICK line : line = Append(q, e)
    OBVIOUS
  <2>2. /\ Len(q) \in Nat /\ DOMAIN q = 1..Len(q) /\ DOMAIN line = 1..(Len(q) + 1)
        /\ line[Len(q) + 1] = e /\ \A i \in 1..Len(q) : line[i] = q[i]
    BY <2>1
  <2>3. 1..(Len(q) + 1) = 1..Len(q) \cup {Len(q) + 1}
    BY <2>2
  <2>4. Messages(line) = Messages(q) \cup {e.msg}
    BY <2>2, <2>3 DEF Messages
  <2>5. QED BY <2>1, <2>4
<1>2. ASSUME q # <<>>
      PROVE  /\ Messages(q) = Messages(Tail(q)) \cup {Head(q).msg}
             /\ Head(q) \in Envelope /\ Tail(q) \in Seq(Envelope)
  <2>1. PICK rest : rest = Tail(q)
    OBVIOUS
  <2>2. /\ Len(q) \in Nat \ {0} /\ DOMAIN q = 1..Len(q) /\ DOMAIN rest = 1..(Len(q) - 1)
        /\ Head(q) = q[1] /\ \A i \in 1..(Len(q) - 1) : rest[i] = q[i + 1]
        /\ rest \in Seq(Envelope) /\ q[1] \in Envelope
    BY <1>2, <2>1
  <2>3. \A i \in 1..Len(q) : i = 1 \/ i - 1 \in 1..(Len(q) - 1)
    BY <2>2
  <2>4. \A i \in 1..Len(q) : i = 1 \/ (i - 1 \in DOMAIN rest /\ rest[i - 1] = q[i])
    BY <2>2, <2>3
  <2>5. \A i \in DOMAIN rest : i + 1 \in DOMAIN q /\ rest[i] = q[i + 1]
    BY <2>2
  <2>6. 1 \in DOMAIN q
    BY <2>2
  <2>7. Messages(q) = Messages(rest) \cup {q[1].msg}
    <3>1. \A i \in DOMAIN q : q[i].msg \in Messages(rest) \cup {q[1].msg}
      BY <2>2, <2>4 DEF Messages
    <3>2. \A i \in DOMAIN rest : rest[i].msg \in Messages(q)
      BY <2>5 DEF Messages
    <3>3. q[1].msg \in Messages(q)
      BY <2>6 DEF Messages
    <3>4. Messages(q) \subseteq Messages(rest) \cup {q[1].msg}
      BY <3>1 DEF Messages
    <3>5. Messages(rest) \subseteq Messages(q)
      BY <3>2 DEF Messages
    <3>6. QED BY <3>3, <3>4, <3>5
  <2>8. QED BY <2>1, <2>2, <2>7
<1>3. QED BY <1>1, <1>2

(* The fields of a task. *)
LEMMA TaskFields ==
  ASSUME NEW t \in Task
  PROVE  /\ t.state \in {"none", "popping", "sending"}
         /\ t.state = "none" => t = NoTask
         /\ t.state = "popping" => t.conn \in Conn
         /\ t.state = "sending" => t.conn \in Conn /\ t.env \in Envelope
BY DEF Task, NoTask

(* The fields of a broadcast. *)
LEMMA CastFields ==
  ASSUME NEW t \in Cast
  PROVE  /\ t.stage \in {"none", "embedding", "pushing", "done"}
         /\ t.stage = "none" => t = NoCast
         /\ t.stage = "embedding" => t.writer \in Session \cup {None}
         /\ t.stage = "pushing" => t.targets \in SUBSET Session
BY DEF Cast, NoCast, Done

(* What a step makes of a broadcast. *)
LEMMA CastsBuilt ==
  /\ Done \in Cast /\ NoCast \in Cast /\ Done.stage = "done" /\ NoCast.stage = "none"
  /\ \A w \in Session \cup {None} : /\ [stage |-> "embedding", writer |-> w] \in Cast
                                    /\ [stage |-> "embedding", writer |-> w].stage = "embedding"
  /\ \A targets \in SUBSET Session :
       /\ PushingTo(targets) \in Cast
       /\ PushingTo(targets).stage \in {"pushing", "done"}
       /\ PushingTo(targets).stage = "pushing" => PushingTo(targets).targets = targets
BY DEF Cast, NoCast, Done, PushingTo

(* The copy in hand. *)
LEMMA Hands ==
  ASSUME PushTypeOK, NEW s \in Session
  PROVE  /\ Hand(s) \in Seq(Envelope)
         /\ sub[s].state = "sending" => Hand(s) = <<sub[s].env>> /\ sub[s].env \in Envelope
         /\ sub[s].state # "sending" => Hand(s) = <<>>
<1>1. sub[s] \in Task
  BY DEF PushTypeOK
<1>2. sub[s].state = "sending" => sub[s].env \in Envelope
  BY <1>1, TaskFields
<1>3. QED BY <1>2 DEF Hand

(* The steps that move no copy. *)
LEMMA LinesStay ==
  ASSUME PushInv, UNCHANGED <<queue, sent, pushed>>,
         \A s \in Session : sub'[s] = sub[s] \/ (sub'[s].state # "sending" /\ InFlight(s) \subseteq dropped'[s]),
         \A s \in Session : dropped[s] \subseteq dropped'[s]
  PROVE  LinesOK' /\ NothingVanishes'
<1>1. ASSUME NEW s \in Session PROVE Hand(s)' = Hand(s) \/ Hand(s)' = <<>>
  BY DEF Hand
<1>2. ASSUME NEW s \in Session PROVE InLine(pushed[s], sent[s], Hand(s), queue[s])'
  <2>1. InLine(pushed[s], sent[s], Hand(s), queue[s]) /\ InLine(pushed[s], sent[s], <<>>, queue[s])
    BY LineDropped DEF PushInv, LinesOK
  <2>2. PICK hand : hand = Hand(s)'
    OBVIOUS
  <2>3. InLine(pushed[s], sent[s], hand, queue[s])
    BY <1>1, <2>1, <2>2
  <2>4. QED BY <2>2, <2>3 DEF InLine, FitWithin, Follows, ComeFrom, Fit, Before
<1>3. ASSUME NEW s \in Session PROVE InFlight(s) \subseteq InFlight(s)' \cup dropped'[s]
  BY DEF InFlight
<1>4. ASSUME NEW s \in Session
      PROVE  PushedTo(s)' \subseteq Queued(s)' \cup InFlight(s)' \cup SentTo(s)' \cup dropped'[s]
  <2>1. PushedTo(s)' = PushedTo(s) /\ Queued(s)' = Queued(s) /\ SentTo(s)' = SentTo(s)
    BY DEF PushedTo, Queued, SentTo
  <2>2. PushedTo(s) \subseteq Queued(s) \cup InFlight(s) \cup SentTo(s) \cup dropped[s]
    BY DEF PushInv, NothingVanishes
  <2>3. QED BY <1>3, <2>1, <2>2
<1>5. QED BY <1>2, <1>4 DEF LinesOK, NothingVanishes

(* The steps that move a copy of one session, and push nothing. *)
LEMMA LineMoves ==
  ASSUME PushInv, NEW s \in Session, UNCHANGED pushed,
         \A q \in Session \ {s} : queue'[q] = queue[q] /\ sent'[q] = sent[q] /\ sub'[q] = sub[q]
                                  /\ dropped'[q] = dropped[q],
         InLine(pushed[s], sent'[s], Hand(s)', queue'[s]),
         Queued(s) \cup InFlight(s) \cup SentTo(s) \cup dropped[s]
           \subseteq Queued(s)' \cup InFlight(s)' \cup SentTo(s)' \cup dropped'[s]
  PROVE  LinesOK' /\ NothingVanishes'
<1>1. ASSUME NEW q \in Session PROVE InLine(pushed[q], sent[q], Hand(q), queue[q])'
  <2>1. CASE q = s
    BY <2>1 DEF InLine, FitWithin, Follows, ComeFrom, Fit, Before
  <2>2. CASE q # s
    <3>1. Hand(q)' = Hand(q)
      BY <2>2 DEF Hand
    <3>2. InLine(pushed[q], sent[q], Hand(q), queue[q])
      BY DEF PushInv, LinesOK
    <3>3. QED BY <2>2, <3>1, <3>2 DEF InLine, FitWithin, Follows, ComeFrom, Fit, Before
  <2>3. QED BY <2>1, <2>2
<1>2. ASSUME NEW q \in Session
      PROVE  PushedTo(q)' \subseteq Queued(q)' \cup InFlight(q)' \cup SentTo(q)' \cup dropped'[q]
  <2>1. PushedTo(q) \subseteq Queued(q) \cup InFlight(q) \cup SentTo(q) \cup dropped[q]
    BY DEF PushInv, NothingVanishes
  <2>2. PushedTo(q)' = PushedTo(q)
    BY DEF PushedTo
  <2>3. CASE q = s
    BY <2>1, <2>2, <2>3
  <2>4. CASE q # s
    BY <2>1, <2>2, <2>4 DEF Queued, InFlight, SentTo
  <2>5. QED BY <2>3, <2>4
<1>3. QED BY <1>1, <1>2 DEF LinesOK, NothingVanishes

(* The steps that push nothing leave what there is to push, if no broadcast turns back. *)
LEMMA CastsStay ==
  ASSUME PushInv, UNCHANGED <<pushed, cast>>
  PROVE  CastsOK'
BY DEF PushInv, CastsOK, ToPush, PushedTo

(* A broadcast that goes on, and pushes nothing. *)
LEMMA CastMoves ==
  ASSUME PushInv, UNCHANGED pushed, NEW m \in Message, NEW t, cast' = [cast EXCEPT ![m] = t],
         \A s \in Session : \/ t.stage = "done"
                            \/ cast[m].stage \in {"none", "embedding"}
                            \/ t.stage = "pushing" /\ cast[m].stage = "pushing"
                               /\ t.targets \subseteq cast[m].targets
  PROVE  CastsOK'
<1>1. cast' = [k \in Message |-> IF k = m THEN t ELSE cast[k]]
  BY DEF PushInv, PushTypeOK
<1>2. ASSUME NEW k \in Message, NEW s \in Session, ToPush(k, s)' PROVE ToPush(k, s)
  BY <1>1, <1>2 DEF ToPush
<1>3. \A s \in Session : PushedTo(s)' = PushedTo(s)
  BY DEF PushedTo
<1>4. QED BY <1>2, <1>3 DEF CastsOK, PushInv

(* The wiring, when no task starts and no registration does. *)
LEMMA WiringStays ==
  ASSUME PushInv, minted' = minted,
         \A s \in Session : sub[s] = NoTask => sub'[s] = NoTask,
         \A c \in Conn : wiring'[c] \in {None, wiring[c]}
  PROVE  WiringOK'
BY DEF PushInv, PushTypeOK, WiringOK

(* Registrations *)
LEMMA RegisterDelivers ==
  ASSUME PushInv, NEW c \in Conn, Register(c) \/ RegisterOffline(c)
  PROVE  PushInv'
<1>1. PICK s \in Session \ minted :
        /\ conn' = [conn EXCEPT ![c].sid = s] /\ minted' = minted \cup {s}
        /\ wiring' \in {wiring, [wiring EXCEPT ![c] = s]} /\ active' \in {active, active \cup {s}}
        /\ UNCHANGED <<queue, closing, sub, cast, sent, pushed, dropped>>
  <2>1. NewSession \subseteq Session \ minted
    BY DEF NewSession, First
  <2>2. QED BY <2>1 DEF Register, RegisterOffline, valkey
<1>2. PushTypeOK'
  <2>1. conn'\in [Conn -> Connection]
    <3>1. conn[c] \in Connection
      BY DEF PushInv, PushTypeOK
    <3>2. [conn[c] EXCEPT !.sid = s] \in Connection
      BY <3>1 DEF Connection
    <3>3. QED BY <1>1, <3>2 DEF PushInv, PushTypeOK
  <2>2. QED BY <1>1, <2>1 DEF PushInv, PushTypeOK
<1>3. LinesOK' /\ NothingVanishes'
  BY <1>1, LinesStay
<1>4. CastsOK'
  BY <1>1, CastsStay
<1>5. WiringOK'
  <2>1. sub[s] = NoTask /\ \A d \in Conn : wiring[d] # s
    BY <1>1, PushAssumption DEF PushInv, WiringOK
  <2>2. \A d \in Conn : wiring'[d] = wiring[d] \/ (d = c /\ wiring'[d] = s)
    BY <1>1 DEF PushInv, PushTypeOK
  <2>3. QED BY <1>1, <2>1, <2>2 DEF PushInv, WiringOK
<1>6. QED BY <1>2, <1>3, <1>4, <1>5 DEF PushInv

(* A subscriber that starts *)
LEMMA WireDelivers ==
  ASSUME PushInv, NEW c \in Conn, Wire(c)
  PROVE  PushInv'
<1>1. PICK s : s = wiring[c]
  OBVIOUS
<1>2. /\ s \in Session /\ s \in minted /\ sub[s] = NoTask
      /\ \A d \in Conn : wiring[d] = s => d = c
  BY <1>1 DEF Wire, PushInv, PushTypeOK, WiringOK
<1>3. PICK t : t = [state |-> "popping", conn |-> c]
  OBVIOUS
<1>4. t \in Task /\ t.state = "popping"
  BY <1>3 DEF Task
<1>5. /\ sub' = [sub EXCEPT ![s] = t] /\ conn' = [conn EXCEPT ![c].cleanup = Hooked(c, s)]
      /\ wiring' = [wiring EXCEPT ![c] = None]
      /\ UNCHANGED <<active, queue, closing, cast, sent, pushed, dropped, minted>>
  BY <1>1, <1>3 DEF Wire, valkey, history
<1>6. PushTypeOK'
  <2>1. conn' \in [Conn -> Connection]
    <3>1. conn[c] \in Connection
      BY DEF PushInv, PushTypeOK
    <3>2. Hooked(c, s) \in Session \cup {None}
      BY <1>2, <3>1 DEF Hooked, Connection
    <3>3. [conn[c] EXCEPT !.cleanup = Hooked(c, s)] \in Connection
      BY <3>1, <3>2 DEF Connection
    <3>4. QED BY <1>5, <3>3 DEF PushInv, PushTypeOK
  <2>2. sub' \in [Session -> Task]
    BY <1>4, <1>5 DEF PushInv, PushTypeOK
  <2>3. QED BY <1>5, <2>1, <2>2 DEF PushInv, PushTypeOK
<1>7. LinesOK' /\ NothingVanishes'
  <2>1. \A q \in Session : sub'[q] = sub[q] \/ (q = s /\ sub'[q].state # "sending")
    BY <1>4, <1>5 DEF PushInv, PushTypeOK
  <2>2. InFlight(s) = {}
    BY <1>2 DEF InFlight, NoTask
  <2>3. QED BY <1>5, <2>1, <2>2, LinesStay
<1>8. CastsOK'
  BY <1>5, CastsStay
<1>9. WiringOK'
  <2>1. \A q \in Session : q # s => sub'[q] = sub[q]
    BY <1>5 DEF PushInv, PushTypeOK
  <2>2. \A d \in Conn : wiring'[d] = IF d = c THEN None ELSE wiring[d]
    BY <1>5 DEF PushInv, PushTypeOK
  <2>3. \A d \in Conn : wiring'[d] # None => wiring'[d] = wiring[d] /\ wiring'[d] # s /\ wiring[d] \in Session
    BY <1>2, <2>2 DEF PushInv, PushTypeOK
  <2>4. QED BY <1>2, <1>5, <2>1, <2>3 DEF PushInv, WiringOK
<1>10. QED BY <1>6, <1>7, <1>8, <1>9 DEF PushInv

(* and one whose connection closes *)
LEMMA DisconnectDelivers ==
  ASSUME PushInv, NEW c \in Conn, Disconnect(c)
  PROVE  PushInv'
<1>1. PICK s : s = conn[c].cleanup
  OBVIOUS
<1>2. conn[c] \in Connection /\ s \in Session \cup {None}
  BY <1>1 DEF PushInv, PushTypeOK, Connection
<1>3. /\ conn' = [conn EXCEPT ![c].state = "closed", ![c].sid = None]
      /\ closing' = [closing EXCEPT ![c] = s] /\ wiring' = [wiring EXCEPT ![c] = None]
      /\ UNCHANGED <<active, queue, cast, sent, pushed, minted>>
  BY <1>1 DEF Disconnect, valkey
<1>4. NoTask \in Task /\ NoTask.state # "sending"
  BY DEF NoTask, Task
<1>5. /\ sub' \in [Session -> Task] /\ dropped' \in [Session -> SUBSET Message]
      /\ \A q \in Session : dropped[q] \subseteq dropped'[q]
      /\ \A q \in Session : sub'[q] = sub[q] \/ (sub'[q] = NoTask /\ InFlight(q) \subseteq dropped'[q])
  <2>1. CASE s = None
    BY <1>1, <2>1 DEF Disconnect, PushInv, PushTypeOK
  <2>2. CASE s # None
    <3>1. /\ s \in Session /\ sub' = [sub EXCEPT ![s] = NoTask]
          /\ dropped' = [dropped EXCEPT ![s] = @ \cup InFlight(s)]
      BY <1>1, <1>2, <2>2 DEF Disconnect
    <3>2. InFlight(s) \subseteq Message
      <4>1. sub[s] \in Task
        BY <3>1 DEF PushInv, PushTypeOK
      <4>2. sub[s].state = "sending" => sub[s].env.msg \in Message
        BY <4>1, TaskFields DEF Envelope
      <4>3. QED BY <4>2 DEF InFlight
    <3>3. QED BY <1>4, <3>1, <3>2 DEF PushInv, PushTypeOK
  <2>3. QED BY <2>1, <2>2
<1>6. PushTypeOK'
  <2>1. [conn[c] EXCEPT !.state = "closed", !.sid = None] \in Connection
    BY <1>2 DEF Connection
  <2>2. QED BY <1>2, <1>3, <1>5, <2>1 DEF PushInv, PushTypeOK
<1>7. LinesOK' /\ NothingVanishes'
  BY <1>3, <1>4, <1>5, LinesStay
<1>8. CastsOK'
  BY <1>3, CastsStay
<1>9. WiringOK'
  <2>1. \A d \in Conn : wiring'[d] \in {None, wiring[d]}
    BY <1>3 DEF PushInv, PushTypeOK
  <2>2. QED BY <1>3, <1>5, <2>1, WiringStays
<1>10. QED BY <1>6, <1>7, <1>8, <1>9 DEF PushInv

(* A queue that is emptied. *)
LEMMA QueueCleared ==
  ASSUME PushInv, NEW s \in Session, queue' = [queue EXCEPT ![s] = <<>>],
         dropped' = [dropped EXCEPT ![s] = @ \cup Queued(s)],
         UNCHANGED <<sub, cast, sent, pushed, minted, wiring>>
  PROVE  /\ queue' \in [Session -> Seq(Envelope)] /\ dropped' \in [Session -> SUBSET Message]
         /\ LinesOK' /\ CastsOK' /\ WiringOK' /\ NothingVanishes'
<1>1. queue[s] \in Seq(Envelope) /\ queue'[s] = <<>> /\ dropped'[s] = dropped[s] \cup Queued(s)
  BY DEF PushInv, PushTypeOK
<1>2. Queued(s) \subseteq Message
  <2>1. \A i \in DOMAIN queue[s] : queue[s][i] \in Envelope
    BY <1>1
  <2>2. QED BY <2>1 DEF Queued, Envelope
<1>3. queue' \in [Session -> Seq(Envelope)] /\ dropped' \in [Session -> SUBSET Message]
  BY <1>2 DEF PushInv, PushTypeOK
<1>4. InLine(pushed[s], sent'[s], Hand(s)', queue'[s])
  <2>1. InLine(pushed[s], sent[s], Hand(s), <<>>)
    BY LineDropped DEF PushInv, LinesOK
  <2>2. Hand(s)' = Hand(s)
    BY DEF Hand
  <2>3. QED BY <1>1, <2>1, <2>2
<1>5. InFlight(s)' = InFlight(s) /\ SentTo(s)' = SentTo(s)
  BY DEF InFlight, SentTo
<1>6. \A q \in Session \ {s} : queue'[q] = queue[q] /\ dropped'[q] = dropped[q]
  BY DEF PushInv, PushTypeOK
<1>7. LinesOK' /\ NothingVanishes'
  BY <1>1, <1>4, <1>5, <1>6, LineMoves
<1>8. CastsOK' /\ WiringOK'
  BY CastsStay, WiringStays
<1>9. QED BY <1>3, <1>7, <1>8

(* The session of a closed connection goes. *)
LEMMA DeregisterDelivers ==
  ASSUME PushInv, NEW c \in Conn, Deregister(c) \/ FailDeregister(c)
  PROVE  PushInv'
<1>1. CASE Deregister(c)
  <2>1. PICK s : s = closing[c]
    OBVIOUS
  <2>2. /\ s \in Session /\ active' = active \ {s} /\ queue' = [queue EXCEPT ![s] = <<>>]
        /\ dropped' = [dropped EXCEPT ![s] = @ \cup Queued(s)]
        /\ closing' = [closing EXCEPT ![c] = None]
        /\ UNCHANGED <<conn, wiring, sub, cast, sent, pushed, minted>>
    BY <1>1, <2>1 DEF Deregister, PushInv, PushTypeOK
  <2>3. /\ queue' \in [Session -> Seq(Envelope)] /\ dropped' \in [Session -> SUBSET Message]
        /\ LinesOK' /\ CastsOK' /\ WiringOK' /\ NothingVanishes'
    BY <2>2, QueueCleared
  <2>4. PushTypeOK'
    BY <2>2, <2>3 DEF PushInv, PushTypeOK
  <2>5. QED BY <2>3, <2>4 DEF PushInv
<1>2. CASE FailDeregister(c)
  <2>1. closing' = [closing EXCEPT ![c] = None] /\ UNCHANGED <<active, queue, conn, wiring, sub, cast,
                                                               sent, pushed, dropped, minted>>
    BY <1>2 DEF FailDeregister, valkey, history
  <2>2. PushTypeOK'
    BY <2>1 DEF PushInv, PushTypeOK
  <2>3. LinesOK' /\ NothingVanishes' /\ CastsOK' /\ WiringOK'
    BY <2>1, LinesStay, CastsStay, WiringStays
  <2>4. QED BY <2>2, <2>3 DEF PushInv
<1>3. QED BY <1>1, <1>2

(* The time of a queue is over. *)
LEMMA ExpiryDelivers ==
  ASSUME PushInv, NEW s \in Session, ExpireQueue(s)
  PROVE  PushInv'
<1>1. /\ queue' = [queue EXCEPT ![s] = <<>>] /\ dropped' = [dropped EXCEPT ![s] = @ \cup Queued(s)]
      /\ UNCHANGED <<active, conn, wiring, closing, sub, cast, sent, pushed, minted>>
  BY DEF ExpireQueue
<1>2. /\ queue' \in [Session -> Seq(Envelope)] /\ dropped' \in [Session -> SUBSET Message]
      /\ LinesOK' /\ CastsOK' /\ WiringOK' /\ NothingVanishes'
  BY <1>1, QueueCleared
<1>3. PushTypeOK'
  BY <1>1, <1>2 DEF PushInv, PushTypeOK
<1>4. QED BY <1>2, <1>3 DEF PushInv

(* Broadcasts that push nothing yet, or skip a target *)
LEMMA CastDelivers ==
  ASSUME PushInv, NEW m \in Message, NEW t \in Cast, cast' = [cast EXCEPT ![m] = t],
         \/ t.stage = "done"
         \/ cast[m].stage \in {"none", "embedding"}
         \/ t.stage = "pushing" /\ cast[m].stage = "pushing" /\ t.targets \subseteq cast[m].targets,
         UNCHANGED <<valkey, conn, wiring, closing, sub, history>>
  PROVE  PushInv'
<1>1. UNCHANGED <<active, queue, conn, wiring, closing, sub, sent, pushed, dropped, minted>>
  BY DEF valkey, history
<1>2. PushTypeOK'
  BY <1>1 DEF PushInv, PushTypeOK
<1>3. CastsOK'
  BY <1>1, CastMoves
<1>4. LinesOK' /\ NothingVanishes' /\ WiringOK'
  BY <1>1, LinesStay, WiringStays
<1>5. QED BY <1>2, <1>3, <1>4 DEF PushInv

(* The steps of a broadcast before it pushes, and those that push nothing. *)
LEMMA BroadcastDelivers ==
  ASSUME PushInv, NEW m \in Message,
         \/ \E c \in Conn : StartBroadcast(c, m)
         \/ Enumerate(m) \/ FailBroadcast(m) \/ \E s \in Session : SkipTarget(m, s)
  PROVE  PushInv'
<1>1. CASE \E c \in Conn : StartBroadcast(c, m)
  <2>1. PICK c \in Conn : StartBroadcast(c, m)
    BY <1>1
  <2>2. PICK w \in WriterIds(c) :
          cast' = [cast EXCEPT ![m] = IF active \ {w} = {} THEN Done
                                      ELSE [stage |-> "embedding", writer |-> w]]
    BY <2>1 DEF StartBroadcast
  <2>3. w \in Session \cup {None}
    BY DEF WriterIds, PushInv, PushTypeOK, Connection
  <2>4. PICK t : t = IF active \ {w} = {} THEN Done ELSE [stage |-> "embedding", writer |-> w]
    OBVIOUS
  <2>5. t \in Cast /\ cast' = [cast EXCEPT ![m] = t]
    BY <2>2, <2>3, <2>4, CastsBuilt
  <2>6. cast[m].stage = "none"
    BY <2>1 DEF StartBroadcast, NewMessage, First, NoCast
  <2>7. QED BY <2>1, <2>5, <2>6, CastDelivers DEF StartBroadcast
<1>2. CASE Enumerate(m) \/ FailBroadcast(m)
  <2>1. PICK t : t = IF Enumerate(m) THEN PushingTo(active \ {cast[m].writer}) ELSE Done
    OBVIOUS
  <2>2. active \ {cast[m].writer} \in SUBSET Session
    BY DEF PushInv, PushTypeOK
  <2>3. t \in Cast
    BY <2>1, <2>2, CastsBuilt
  <2>4. /\ cast[m].stage = "embedding" /\ cast' = [cast EXCEPT ![m] = t]
        /\ UNCHANGED <<valkey, conn, wiring, closing, sub, history>>
    BY <1>2, <2>1 DEF Enumerate, FailBroadcast
  <2>5. QED BY <2>3, <2>4, CastDelivers
<1>3. CASE \E s \in Session : SkipTarget(m, s)
  <2>1. PICK s \in Session : SkipTarget(m, s)
    BY <1>3
  <2>2. PICK targets : targets = cast[m].targets
    OBVIOUS
  <2>3. PICK t : t = PushingTo(targets \ {s})
    OBVIOUS
  <2>4. /\ cast[m].stage = "pushing" /\ cast' = [cast EXCEPT ![m] = t]
        /\ UNCHANGED <<valkey, conn, wiring, closing, sub, history>>
    BY <2>1, <2>2, <2>3 DEF SkipTarget, WithoutTarget, PushInv, PushTypeOK
  <2>5. targets \in SUBSET Session
    BY <2>2, <2>4, CastFields DEF PushInv, PushTypeOK
  <2>6. t \in Cast /\ t.stage \in {"pushing", "done"} /\ (t.stage = "pushing" => t.targets = targets \ {s})
    BY <2>3, <2>5, CastsBuilt
  <2>7. QED BY <2>2, <2>4, <2>6, CastDelivers
<1>4. QED BY <1>1, <1>2, <1>3

(* A push *)
LEMMA PushDelivers ==
  ASSUME PushInv, NEW m \in Message, NEW s \in Session, PushTo(m, s)
  PROVE  PushInv'
<1>1. PICK targets : targets = cast[m].targets
  OBVIOUS
<1>2. PICK t : t = PushingTo(targets \ {s})
  OBVIOUS
<1>3. PICK e : e = [msg |-> m, attempt |-> 0]
  OBVIOUS
<1>4. e \in Envelope /\ e.msg = m
  BY <1>3, PushAssumption DEF Envelope
<1>5. /\ cast[m].stage = "pushing" /\ s \in targets
      /\ queue' = [queue EXCEPT ![s] = Append(@, e)]
      /\ pushed' = [pushed EXCEPT ![s] = Append(@, m)]
      /\ cast' = [cast EXCEPT ![m] = t]
      /\ UNCHANGED <<active, conn, wiring, closing, sub, sent, dropped, minted>>
  BY <1>1, <1>2, <1>3 DEF PushTo, WithoutTarget, Enqueued, PushInv, PushTypeOK
<1>6. targets \in SUBSET Session
  BY <1>1, <1>5, CastFields DEF PushInv, PushTypeOK
<1>7. t \in Cast /\ t.stage \in {"pushing", "done"} /\ (t.stage = "pushing" => t.targets = targets \ {s})
  BY <1>2, <1>6, CastsBuilt
<1>8. /\ queue[s] \in Seq(Envelope) /\ pushed[s] \in Seq(Message) /\ sent[s] \in Seq(Envelope)
      /\ queue'[s] = Append(queue[s], e) /\ pushed'[s] = Append(pushed[s], m)
      /\ \A q \in Session \ {s} : queue'[q] = queue[q] /\ pushed'[q] = pushed[q]
  BY <1>5 DEF PushInv, PushTypeOK
<1>9. PushTypeOK'
  BY <1>4, <1>5, <1>7, <1>8 DEF PushInv, PushTypeOK
<1>10. \A a \in DOMAIN pushed[s] : pushed[s][a] # m
  BY <1>1, <1>5 DEF PushInv, CastsOK, ToPush, PushedTo
<1>11. \A q \in Session : Hand(q)' = Hand(q) /\ InFlight(q)' = InFlight(q) /\ SentTo(q)' = SentTo(q)
  BY <1>5 DEF Hand, InFlight, SentTo
<1>12. LinesOK'
  <2> SUFFICES ASSUME NEW q \in Session PROVE InLine(pushed[q], sent[q], Hand(q), queue[q])'
    BY DEF LinesOK
  <2>1. InLine(pushed[q], sent[q], Hand(q), queue[q])
    BY DEF PushInv, LinesOK
  <2>2. InLine(pushed'[q], sent[q], Hand(q), queue'[q])
    <3>1. CASE q = s
      <4>1. Hand(s) \in Seq(Envelope)
        BY Hands DEF PushInv
      <4>2. InLine(Append(pushed[s], m), sent[s], Hand(s), Append(queue[s], e))
        BY <1>4, <1>8, <1>10, <2>1, <3>1, <4>1, LinePushed
      <4>3. QED BY <1>8, <3>1, <4>2
    <3>2. CASE q # s
      BY <1>8, <2>1, <3>2
    <3>3. QED BY <3>1, <3>2
  <2>3. InLine(pushed'[q], sent'[q], Hand(q)', queue'[q])
    BY <1>5, <1>11, <2>2
  <2>4. QED BY <2>3 DEF InLine, FitWithin, Follows, ComeFrom, Fit, Before
<1>13. ASSUME NEW q \in Session, q # s
       PROVE  PushedTo(q)' = PushedTo(q) /\ Queued(q)' = Queued(q)
  BY <1>8, <1>13 DEF PushedTo, Queued
<1>14. PushedTo(s)' = PushedTo(s) \cup {m} /\ Queued(s) \cup {m} \subseteq Queued(s)'
  <2>1. PICK old : old = pushed[s]
    OBVIOUS
  <2>3. /\ DOMAIN Append(old, m) = 1..(Len(old) + 1) /\ DOMAIN old = 1..Len(old) /\ Len(old) \in Nat
        /\ Append(old, m)[Len(old) + 1] = m /\ \A a \in 1..Len(old) : Append(old, m)[a] = old[a]
    BY <1>8, <2>1
  <2>5. {Append(old, m)[i] : i \in 1..(Len(old) + 1)} = {old[i] : i \in 1..Len(old)} \cup {m}
    BY <2>3
  <2>6. PushedTo(s)' = PushedTo(s) \cup {m}
    BY <1>8, <2>1, <2>3, <2>5 DEF PushedTo
  <2>8. Queued(s)' = Queued(s) \cup {m}
    <3>1. Queued(s) = Messages(queue[s]) /\ Queued(s)' = Messages(Append(queue[s], e))
      BY <1>8 DEF Queued, Messages
    <3>2. QED BY <1>4, <1>8, <3>1, MessagesOf
  <2>9. QED BY <2>6, <2>8
<1>15. NothingVanishes'
  <2> SUFFICES ASSUME NEW q \in Session
               PROVE  PushedTo(q)' \subseteq Queued(q)' \cup InFlight(q)' \cup SentTo(q)' \cup dropped'[q]
    BY DEF NothingVanishes
  <2>1. PushedTo(q) \subseteq Queued(q) \cup InFlight(q) \cup SentTo(q) \cup dropped[q]
    BY DEF PushInv, NothingVanishes
  <2>2. CASE q = s
    BY <1>5, <1>11, <1>14, <2>1, <2>2
  <2>3. CASE q # s
    BY <1>5, <1>11, <1>13, <2>1, <2>3
  <2>4. QED BY <2>2, <2>3
<1>16. CastsOK'
  <2> SUFFICES ASSUME NEW k \in Message, NEW q \in Session, ToPush(k, q)' PROVE k \notin PushedTo(q)'
    BY DEF CastsOK
  <2>1. cast' = [n \in Message |-> IF n = m THEN t ELSE cast[n]]
    BY <1>5 DEF PushInv, PushTypeOK
  <2>2. ToPush(k, q) /\ (k = m => q # s)
    BY <1>1, <1>5, <1>7, <2>1 DEF ToPush
  <2>3. k \notin PushedTo(q)
    BY <2>2 DEF PushInv, CastsOK
  <2>4. CASE q = s
    BY <1>14, <2>2, <2>3, <2>4
  <2>5. CASE q # s
    BY <1>13, <2>3, <2>5
  <2>6. QED BY <2>4, <2>5
<1>17. WiringOK'
  BY <1>5, WiringStays
<1>18. QED BY <1>9, <1>12, <1>15, <1>16, <1>17 DEF PushInv

(* The subscriber: it pops, *)
LEMMA PopDelivers ==
  ASSUME PushInv, NEW s \in Session, Pop(s)
  PROVE  PushInv'
<1>1. queue[s] \in Seq(Envelope) /\ queue[s] # <<>> /\ sent[s] \in Seq(Envelope) /\ sub[s] \in Task
      /\ pushed[s] \in Seq(Message)
  BY DEF Pop, PushInv, PushTypeOK
<1>2. PICK e : e = Head(queue[s])
  OBVIOUS
<1>3. PICK t : t = [state |-> "sending", conn |-> sub[s].conn, env |-> e]
  OBVIOUS
<1>4. e \in Envelope /\ Tail(queue[s]) \in Seq(Envelope)
      /\ Messages(queue[s]) = Messages(Tail(queue[s])) \cup {e.msg}
  BY <1>1, <1>2, MessagesOf
<1>5. t \in Task /\ t.state = "sending" /\ t.env = e
  BY <1>1, <1>3, <1>4, TaskFields DEF Pop, Task
<1>6. /\ sub[s].state = "popping"
      /\ sub' = [sub EXCEPT ![s] = t] /\ queue' = [queue EXCEPT ![s] = Tail(@)]
      /\ UNCHANGED <<active, conn, wiring, closing, cast, sent, pushed, dropped, minted>>
  BY <1>2, <1>3 DEF Pop, history, PushInv, PushTypeOK
<1>7. sub'[s] = t /\ queue'[s] = Tail(queue[s]) /\ sent'[s] = sent[s]
      /\ \A q \in Session \ {s} : sub'[q] = sub[q] /\ queue'[q] = queue[q]
  BY <1>6 DEF PushInv, PushTypeOK
<1>8. PushTypeOK'
  BY <1>4, <1>5, <1>6 DEF PushInv, PushTypeOK
<1>9. InLine(pushed[s], sent'[s], Hand(s)', queue'[s])
  <2>1. Hand(s) = <<>> /\ Hand(s)' = <<e>>
    BY <1>5, <1>6, <1>7 DEF Hand
  <2>2. InLine(pushed[s], sent[s], <<>>, queue[s])
    BY <2>1 DEF PushInv, LinesOK
  <2>3. QED BY <1>1, <1>2, <1>7, <2>1, <2>2, LinePopped
<1>10. Queued(s) \cup InFlight(s) \cup SentTo(s) \cup dropped[s]
         \subseteq Queued(s)' \cup InFlight(s)' \cup SentTo(s)' \cup dropped'[s]
  <2>1. Queued(s) = Messages(queue[s]) /\ Queued(s)' = Messages(Tail(queue[s]))
    BY <1>7 DEF Queued, Messages
  <2>2. InFlight(s) = {} /\ InFlight(s)' = {e.msg} /\ SentTo(s)' = SentTo(s)
    BY <1>5, <1>6, <1>7 DEF InFlight, SentTo
  <2>3. QED BY <1>4, <1>6, <2>1, <2>2
<1>11. LinesOK' /\ NothingVanishes'
  BY <1>6, <1>7, <1>9, <1>10, LineMoves
<1>12. CastsOK'
  BY <1>6, CastsStay
<1>13. WiringOK'
  <2>1. \A q \in Session : sub[q] = NoTask => sub'[q] = NoTask
    BY <1>6, <1>7 DEF NoTask
  <2>2. QED BY <1>6, <2>1, WiringStays
<1>14. QED BY <1>8, <1>11, <1>12, <1>13 DEF PushInv

(* sends, or fails to and puts back or drops. *)
LEMMA SendDelivers ==
  ASSUME PushInv, NEW s \in Session, Send(s) \/ Retry(s) \/ Discard(s)
  PROVE  PushInv'
<1>1. queue[s] \in Seq(Envelope) /\ sent[s] \in Seq(Envelope) /\ sub[s] \in Task /\ pushed[s] \in Seq(Message)
  BY DEF PushInv, PushTypeOK
<1>2. PICK e : e = sub[s].env
  OBVIOUS
<1>3. sub[s].state = "sending" /\ e \in Envelope /\ sub[s].conn \in Conn
  BY <1>1, <1>2, TaskFields DEF Send, Retry, Discard
<1>4. PICK t : t = Popping(s)
  OBVIOUS
<1>5. t \in Task /\ t.state = "popping"
  BY <1>3, <1>4 DEF Popping, Task
<1>6. sub' = [sub EXCEPT ![s] = t] /\ UNCHANGED <<active, conn, wiring, closing, cast, pushed, minted>>
  BY <1>4 DEF Send, Retry, Discard, valkey, history
<1>7. sub'[s] = t /\ \A q \in Session \ {s} : sub'[q] = sub[q]
  BY <1>6 DEF PushInv, PushTypeOK
<1>8. InLine(pushed[s], sent[s], <<e>>, queue[s]) /\ Hand(s)' = <<>>
  BY <1>2, <1>3, <1>5, <1>7 DEF PushInv, LinesOK, Hand
<1>9. InFlight(s) = {e.msg} /\ InFlight(s)' = {}
  BY <1>2, <1>3, <1>5, <1>7 DEF InFlight
<1>10. CastsOK'
  BY <1>6, CastsStay
<1>11. WiringOK'
  <2>1. \A q \in Session : sub[q] = NoTask => sub'[q] = NoTask
    BY <1>3, <1>7 DEF NoTask
  <2>2. QED BY <1>6, <2>1, WiringStays
<1>12. CASE Send(s)
  <2>1. sent' = [sent EXCEPT ![s] = Append(@, e)] /\ UNCHANGED <<queue, dropped>>
    BY <1>2, <1>12 DEF Send, valkey
  <2>2. sent'[s] = Append(sent[s], e) /\ queue'[s] = queue[s]
        /\ \A q \in Session \ {s} : sent'[q] = sent[q]
    BY <2>1 DEF PushInv, PushTypeOK
  <2>3. InLine(pushed[s], sent'[s], Hand(s)', queue'[s])
    BY <1>1, <1>3, <1>8, <2>2, LineSent
  <2>4. SentTo(s)' = SentTo(s) \cup {e.msg} /\ Queued(s)' = Queued(s)
    BY <1>1, <1>3, <2>1, <2>2, MessagesOf DEF SentTo, Queued, Messages
  <2>5. LinesOK' /\ NothingVanishes'
    BY <1>6, <1>7, <1>9, <2>1, <2>2, <2>3, <2>4, LineMoves
  <2>6. PushTypeOK'
    BY <1>3, <1>5, <1>6, <2>1 DEF PushInv, PushTypeOK
  <2>7. QED BY <1>10, <1>11, <2>5, <2>6 DEF PushInv
<1>13. CASE Retry(s)
  <2>1. PICK f : f = Again(e)
    OBVIOUS
  <2>2. f \in Envelope /\ f.msg = e.msg /\ f.attempt # 0
    <3>1. e.msg \in Message /\ e.attempt \in 0..(MaxAttempts - 1) /\ ~(e.attempt >= MaxAttempts - 1)
      BY <1>2, <1>3, <1>13 DEF Retry, LastAttempt, Envelope
    <3>2. e = [msg |-> e.msg, attempt |-> e.attempt]
      BY <1>3 DEF Envelope
    <3>3. f = [msg |-> e.msg, attempt |-> e.attempt + 1]
      BY <2>1, <3>2 DEF Again
    <3>4. e.attempt + 1 \in 0..(MaxAttempts - 1) /\ e.attempt + 1 # 0
      BY <3>1, PushAssumption
    <3>5. QED BY <3>1, <3>3, <3>4 DEF Envelope
  <2>3. queue' = [queue EXCEPT ![s] = Append(@, f)] /\ UNCHANGED <<sent, dropped>>
    BY <1>2, <1>13, <2>1 DEF Retry, Enqueued, history
  <2>4. queue'[s] = Append(queue[s], f) /\ sent'[s] = sent[s]
        /\ \A q \in Session \ {s} : queue'[q] = queue[q]
    BY <2>3 DEF PushInv, PushTypeOK
  <2>5. InLine(pushed[s], sent'[s], Hand(s)', queue'[s])
    BY <1>1, <1>3, <1>8, <2>2, <2>4, LineRetried
  <2>6. Queued(s)' = Queued(s) \cup {e.msg} /\ SentTo(s)' = SentTo(s)
    <3>1. Queued(s) = Messages(queue[s]) /\ Queued(s)' = Messages(Append(queue[s], f))
      BY <2>4 DEF Queued, Messages
    <3>2. QED BY <1>1, <2>2, <2>4, <3>1, MessagesOf DEF SentTo
  <2>7. LinesOK' /\ NothingVanishes'
    BY <1>6, <1>7, <1>9, <2>3, <2>4, <2>5, <2>6, LineMoves
  <2>8. PushTypeOK'
    BY <1>5, <1>6, <2>2, <2>3 DEF PushInv, PushTypeOK
  <2>9. QED BY <1>10, <1>11, <2>7, <2>8 DEF PushInv
<1>14. CASE Discard(s)
  <2>1. dropped' = [dropped EXCEPT ![s] = @ \cup InFlight(s)] /\ UNCHANGED <<queue, sent>>
    BY <1>14 DEF Discard, valkey
  <2>2. PushTypeOK'
    BY <1>3, <1>5, <1>6, <1>9, <2>1 DEF PushInv, PushTypeOK, Envelope
  <2>3. \A q \in Session : dropped[q] \subseteq dropped'[q]
    BY <2>1 DEF PushInv, PushTypeOK
  <2>4. InFlight(s) \subseteq dropped'[s]
    BY <2>1 DEF PushInv, PushTypeOK
  <2>5. \A q \in Session : sub'[q] = sub[q] \/ (sub'[q].state # "sending" /\ InFlight(q) \subseteq dropped'[q])
    BY <1>5, <1>7, <2>4
  <2>6. LinesOK' /\ NothingVanishes'
    BY <1>6, <2>1, <2>3, <2>5, LinesStay
  <2>7. QED BY <1>10, <1>11, <2>2, <2>6 DEF PushInv
<1>15. QED BY <1>12, <1>13, <1>14

(* The server dies. *)
LEMMA CrashDelivers ==
  ASSUME PushInv, Crash
  PROVE  PushInv'
<1>1. /\ conn' = [c \in Conn |-> IF Open(c) THEN [conn[c] EXCEPT !.state = "closed", !.sid = None]
                                 ELSE conn[c]]
      /\ wiring' = [c \in Conn |-> None] /\ closing' = [c \in Conn |-> None]
      /\ sub' = [s \in Session |-> NoTask]
      /\ cast' = [m \in Message |-> IF cast[m] = NoCast THEN NoCast ELSE Done]
      /\ dropped' = [s \in Session |-> dropped[s] \cup InFlight(s)]
      /\ UNCHANGED <<active, queue, sent, pushed, minted>>
  BY DEF Crash, valkey
<1>2. NoTask \in Task /\ NoTask.state # "sending"
  BY DEF NoTask, Task
<1>3. \A s \in Session : InFlight(s) \subseteq Message
  <2> TAKE s \in Session
  <2>1. sub[s] \in Task
    BY DEF PushInv, PushTypeOK
  <2>2. sub[s].state = "sending" => sub[s].env.msg \in Message
    BY <2>1, TaskFields DEF Envelope
  <2>3. QED BY <2>2 DEF InFlight
<1>4. PushTypeOK'
  <2>1. conn' \in [Conn -> Connection]
    <3>1. \A c \in Conn : conn[c] \in Connection
      BY DEF PushInv, PushTypeOK
    <3>2. \A c \in Conn : [conn[c] EXCEPT !.state = "closed", !.sid = None] \in Connection
      BY <3>1 DEF Connection
    <3>3. QED BY <1>1, <3>1, <3>2
  <2>2. cast' \in [Message -> Cast]
    BY <1>1, CastsBuilt
  <2>3. dropped' \in [Session -> SUBSET Message]
    BY <1>1, <1>3 DEF PushInv, PushTypeOK
  <2>4. QED BY <1>1, <1>2, <2>1, <2>2, <2>3 DEF PushInv, PushTypeOK
<1>5. LinesOK' /\ NothingVanishes'
  <2>1. \A s \in Session : sub'[s].state # "sending" /\ InFlight(s) \subseteq dropped'[s]
                           /\ dropped[s] \subseteq dropped'[s]
    BY <1>1, <1>2
  <2>2. QED BY <1>1, <2>1, LinesStay
<1>6. CastsOK'
  <2> SUFFICES ASSUME NEW m \in Message, NEW s \in Session, ToPush(m, s)' PROVE m \notin PushedTo(s)'
    BY DEF CastsOK
  <2>1. cast'[m].stage \in {"none", "embedding", "pushing"}
    BY DEF ToPush
  <2>2. cast[m] = NoCast
    BY <1>1, <2>1, CastsBuilt
  <2>3. ToPush(m, s)
    BY <2>2, CastsBuilt DEF ToPush
  <2>4. QED BY <1>1, <2>3 DEF PushInv, CastsOK, PushedTo
<1>7. WiringOK'
  BY <1>1, WiringStays DEF PushInv, PushTypeOK
<1>8. QED BY <1>4, <1>5, <1>6, <1>7 DEF PushInv

(* The invariant of the delivery. *)
LEMMA PushInitially == PushInit => PushInv
<1> SUFFICES ASSUME PushInit PROVE PushInv
  OBVIOUS
<1>1. PushTypeOK
  <2>1. conn \in [Conn -> Connection]
    BY DEF PushInit, Connection
  <2>2. sub \in [Session -> Task] /\ cast \in [Message -> Cast]
    BY CastsBuilt DEF PushInit, Task
  <2>3. QED BY <2>1, <2>2 DEF PushInit, PushTypeOK
<1>2. LinesOK
  <2> SUFFICES ASSUME NEW s \in Session PROVE InLine(pushed[s], sent[s], Hand(s), queue[s])
    BY DEF LinesOK
  <2>1. PICK none : none = <<>>
    OBVIOUS
  <2>2. DOMAIN none = {} /\ pushed[s] = none /\ sent[s] = none /\ queue[s] = none /\ Hand(s) = none
    BY <2>1 DEF PushInit, Hand, NoTask
  <2>3. InLine(none, none, none, none)
    BY <2>2 DEF InLine, FitWithin, Follows, ComeFrom
  <2>4. QED BY <2>2, <2>3
<1>3. CastsOK /\ NothingVanishes
  BY DEF PushInit, CastsOK, NothingVanishes, PushedTo
<1>4. WiringOK
  BY DEF PushInit, WiringOK
<1>5. QED BY <1>1, <1>2, <1>3, <1>4 DEF PushInv

(* No step of the delivery breaks the invariant. *)
LEMMA PushStep ==
  ASSUME PushInv, [PushNext]_pushVars
  PROVE  PushInv'
<1>1. ASSUME NEW c \in Conn,
             \/ Register(c) \/ RegisterOffline(c) \/ Wire(c)
             \/ Disconnect(c) \/ Deregister(c) \/ FailDeregister(c)
      PROVE  PushInv'
  BY <1>1, RegisterDelivers, WireDelivers, DisconnectDelivers, DeregisterDelivers
<1>2. ASSUME NEW m \in Message,
             \/ \E c \in Conn : StartBroadcast(c, m)
             \/ Enumerate(m) \/ FailBroadcast(m)
             \/ \E s \in Session : PushTo(m, s) \/ SkipTarget(m, s)
      PROVE  PushInv'
  BY <1>2, BroadcastDelivers, PushDelivers
<1>3. ASSUME NEW s \in Session, SubscriberStep(s) \/ ExpireQueue(s) PROVE PushInv'
  BY <1>3, PopDelivers, SendDelivers, ExpiryDelivers DEF SubscriberStep
<1>4. CASE Crash
  BY <1>4, CrashDelivers
<1>5. CASE UNCHANGED pushVars
  <2>1. UNCHANGED <<active, queue, conn, wiring, closing, sub, cast, sent, pushed, dropped, minted>>
    BY <1>5 DEF pushVars
  <2>2. LinesOK' /\ NothingVanishes' /\ CastsOK' /\ WiringOK'
    BY <2>1, LinesStay, CastsStay, WiringStays
  <2>3. PushTypeOK'
    BY <2>1 DEF PushInv, PushTypeOK
  <2>4. QED BY <2>2, <2>3 DEF PushInv
<1>6. QED BY <1>1, <1>2, <1>3, <1>4, <1>5 DEF PushNext

(* Whatever clients, broadcasts and Valkey do: the state is well formed. *)
THEOREM PushTypesHold == PushSpec => []PushTypeOK
<1>1. PushInv => PushTypeOK
  BY DEF PushInv
<1>2. QED BY <1>1, PushInitially, PushStep, PTL DEF PushSpec

(* No client is sent a notification twice for one session, however often it is retried. *)
THEOREM SentOnce == PushSpec => []AtMostOnce
<1>1. PushInv => AtMostOnce
  <2> SUFFICES ASSUME PushInv, NEW s \in Session, NEW i \in DOMAIN sent[s], NEW j \in DOMAIN sent[s],
                      sent[s][i].msg = sent[s][j].msg
               PROVE  i = j
    BY DEF AtMostOnce
  <2>1. i \in Nat /\ j \in Nat
    BY DEF PushInv, PushTypeOK
  <2>2. \A k, l \in DOMAIN sent[s] : k < l => sent[s][k].msg # sent[s][l].msg
    BY DEF PushInv, LinesOK, InLine, FitWithin, Fit
  <2>3. QED BY <2>1, <2>2
<1>2. QED BY <1>1, PushInitially, PushStep, PTL DEF PushSpec

(* What is sent at the first attempt arrives in the order in which it was pushed. *)
THEOREM SentInOrder == PushSpec => []FirstAttemptsInOrder
<1>1. PushInv => FirstAttemptsInOrder
  <2> SUFFICES ASSUME PushInv, NEW s \in Session, NEW j \in DOMAIN sent[s], NEW i \in 1 .. j - 1,
                      sent[s][i].attempt = 0, sent[s][j].attempt = 0
               PROVE  Before(pushed[s], sent[s][i].msg, sent[s][j].msg)
    BY DEF FirstAttemptsInOrder, Before
  <2>1. i \in DOMAIN sent[s] /\ i < j
    <3>1. sent[s] \in Seq(Envelope)
      BY DEF PushInv, PushTypeOK
    <3>2. QED BY <3>1
  <2>2. QED BY <2>1 DEF PushInv, LinesOK, InLine, FitWithin, Fit
<1>2. QED BY <1>1, PushInitially, PushStep, PTL DEF PushSpec

(* No notification is lost but where the code may drop it. *)
THEOREM NothingIsLost == PushSpec => []NothingVanishes
<1>1. PushInv => NothingVanishes
  BY DEF PushInv
<1>2. QED BY <1>1, PushInitially, PushStep, PTL DEF PushSpec
=============================================================================
