------------------------------- MODULE AgentQueue -------------------------------
(***************************************************************************)
(* The work queue of an agent in Valkey and the loop that serves it        *)
(* (memoryhub_agents/queue.py, lifecycle.py). Producers of work items are  *)
(* outside the repository.                                                 *)
(***************************************************************************)
EXTENDS Naturals, Sequences, Agents

CONSTANTS
    Item,          \* work items, numbered in the order in which they are enqueued
    Poison,        \* items on which the plugin raises every time, as it may on any
    Malformed      \* items that are not JSON

ASSUME QueueAssumption ==
    /\ Item \subseteq Nat /\ None \notin Item
    /\ Poison \subseteq Item /\ Malformed \subseteq Item

VARIABLES
    work,      \* the list in Valkey, what is popped next first
    runner,    \* each instance: its process, its _running flag and the item it has popped
    finished,  \* history: how often the plugin has returned for each item
    lost       \* history: items that were popped and are nowhere

queueVars == <<work, runner, finished, lost>>

Down == [state |-> "down", item |-> None]
Idle == [state |-> "up", item |-> None]
Runner == [state : {"down", "up", "stopping"}, item : Item \cup {None}]

QueueInit ==
    /\ work = <<>>
    /\ runner = [i \in Instance |-> Down]
    /\ finished = [t \in Item |-> 0]
    /\ lost = {}

Waiting == {work[k] : k \in DOMAIN work}
Held == {runner[i].item : i \in Instance} \ {None}
NeverEnqueued == {t \in Item : t \notin Waiting \cup Held \cup lost /\ finished[t] = 0}

\* LPUSH; dequeue takes from the other end.
Enqueue ==
    /\ \E t \in NeverEnqueued :
        /\ \A u \in NeverEnqueued : t <= u
        /\ work' = Append(work, t)
    /\ UNCHANGED <<runner, finished, lost>>

\* run: connect to Valkey and to the server, then loop.
StartRunner(i) ==
    /\ runner[i].state = "down"
    /\ runner' = [runner EXCEPT ![i] = Idle]
    /\ UNCHANGED <<work, finished, lost>>

\* _handle_signal: the loop ends when the item in hand has been processed.
Signal(i) ==
    /\ runner[i].state = "up"
    /\ runner' = [runner EXCEPT ![i].state = "stopping"]
    /\ UNCHANGED <<work, finished, lost>>

\* The flag is read between items only.
Exit(i) ==
    /\ runner[i] = [state |-> "stopping", item |-> None]
    /\ runner' = [runner EXCEPT ![i] = Down]
    /\ UNCHANGED <<work, finished, lost>>

Peeked(q) == q
Popped(q) == Tail(q)

\* BRPOP, which a loop that was told to stop may still be blocked in.
Dequeue(i) ==
    /\ runner[i].state # "down" /\ runner[i].item = None /\ work # <<>>
    /\ work' = Popped(work)
    /\ IF Head(work) \in Malformed
       THEN /\ runner' = [runner EXCEPT ![i] = Down]
            /\ lost' = lost \cup {Head(work)}
       ELSE /\ runner' = [runner EXCEPT ![i].item = Head(work)]
            /\ UNCHANGED lost
    /\ UNCHANGED finished

Process(i) ==
    LET t == runner[i].item IN
    /\ t # None /\ t \notin Poison
    /\ finished' = [finished EXCEPT ![t] = @ + 1]
    /\ runner' = [runner EXCEPT ![i].item = None]
    /\ UNCHANGED <<work, lost>>

RequeuedAtHead(t) == <<t>> \o work
Requeued(t) == Append(work, t)

\* The plugin raised: the item goes back, where new items go, however often it failed.
Requeue(i) ==
    LET t == runner[i].item IN
    /\ t # None
    /\ work' = Requeued(t)
    /\ runner' = [runner EXCEPT ![i].item = None]
    /\ UNCHANGED <<finished, lost>>

InHand(i) == {runner[i].item} \ {None}

\* The process dies, or Valkey refuses the requeue, which ends the loop: the item that
\* was popped is lost.
LoseRunner(i) ==
    /\ runner[i].state # "down"
    /\ runner' = [runner EXCEPT ![i] = Down]
    /\ lost' = lost \cup InHand(i)
    /\ UNCHANGED <<work, finished>>

LoopStep(i) == Dequeue(i) \/ Process(i) \/ Requeue(i) \/ Exit(i)

-----------------------------------------------------------------------------
QueueTypeOK ==
    /\ work \in Seq(Item)
    /\ runner \in [Instance -> Runner]
    /\ finished \in [Item -> Nat]
    /\ lost \subseteq Item

\* No item is in two places or processed twice: it is in the list once, or popped by
\* one instance, or processed, or lost.
ItemsAreHandledOnce ==
    /\ \A k, l \in DOMAIN work : work[k] = work[l] => k = l
    /\ \A i, j \in Instance : runner[i].item = runner[j].item => i = j \/ runner[i].item = None
    /\ Waiting \cap Held = {}
    /\ (Waiting \cup Held) \cap lost = {}
    /\ \A t \in Item : finished[t] > 0 => finished[t] = 1 /\ t \notin Waiting \cup Held \cup lost

\* An item on which the plugin does not always fail is processed or lost in the end, although
\* items that always fail are retried for ever: they queue up behind it.
GoodItemsAreServed ==
    \A t \in Item \ Poison : t \in Waiting ~> finished[t] > 0 \/ t \in lost
=============================================================================
