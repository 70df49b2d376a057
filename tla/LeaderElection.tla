----------------------------- MODULE LeaderElection -----------------------------
(***************************************************************************)
(* The lock in Valkey by which instances of a singleton agent elect a      *)
(* leader (memoryhub_agents/leader.py). Each action is one command. The    *)
(* clock is a countdown of the key's time to live.                         *)
(***************************************************************************)
EXTENDS Naturals, Agents

CONSTANTS
    TTL,         \* ttl_seconds, in ticks
    SlowCalls    \* whether a tick may pass between the two commands of a release

ASSUME LeaderAssumption ==
    /\ TTL \in Nat \ {0}
    /\ SlowCalls \in BOOLEAN

VARIABLES
    lock,      \* the value of lock_key, or None
    ttl,       \* what remains of its time to live; 0 when there is none
    believes,  \* is_leader: _holder_id is not None
    step,      \* the command that a call of each instance has yet to make
    lease      \* history: what remains of the time that an instance knows it has bought

leaderVars == <<lock, ttl, believes, step, lease>>

LeaderInit ==
    /\ lock = None
    /\ ttl = 0
    /\ believes = [i \in Instance |-> FALSE]
    /\ step = [i \in Instance |-> "none"]
    /\ lease = [i \in Instance |-> 0]

NoExpiry == 0
NewTtl == TTL

\* try_acquire: SET NX EX.
Acquire(i) ==
    /\ step[i] = "none" /\ lock = None
    /\ lock' = i
    /\ ttl' = NewTtl
    /\ believes' = [believes EXCEPT ![i] = TRUE]
    /\ lease' = [lease EXCEPT ![i] = TTL]
    /\ UNCHANGED step

FailAcquire(i) ==
    /\ step[i] = "none" /\ lock # None
    /\ step' = [step EXCEPT ![i] = "check"]
    /\ UNCHANGED <<lock, ttl, believes, lease>>

\* GET: the instance may hold it already. It keeps its belief when it does not.
CheckHolder(i) ==
    /\ step[i] = "check"
    /\ step' = [step EXCEPT ![i] = IF lock = i THEN "renew" ELSE "none"]
    /\ UNCHANGED <<lock, ttl, believes, lease>>

\* EXPIRE: renews the lock of whoever has it by now, if anybody.
Renew(i) ==
    /\ step[i] = "renew"
    /\ ttl' = IF lock = None THEN 0 ELSE NewTtl
    /\ believes' = [believes EXCEPT ![i] = TRUE]
    /\ lease' = [lease EXCEPT ![i] = IF lock = i THEN TTL ELSE @]
    /\ step' = [step EXCEPT ![i] = "none"]
    /\ UNCHANGED lock

\* heartbeat: GET, and EXPIRE if the value is ours.
Heartbeat(i) ==
    /\ step[i] = "none" /\ believes[i]
    /\ IF lock = i
       THEN step' = [step EXCEPT ![i] = "renew"] /\ UNCHANGED believes
       ELSE believes' = [believes EXCEPT ![i] = FALSE] /\ UNCHANGED step
    /\ UNCHANGED <<lock, ttl, lease>>

DeletesAnyway(i) == TRUE
DeletesNext(i) == lock = i

\* release: GET, and DELETE if the value is ours.
Release(i) ==
    /\ step[i] = "none" /\ believes[i]
    /\ IF DeletesNext(i)
       THEN step' = [step EXCEPT ![i] = "delete"] /\ UNCHANGED believes
       ELSE believes' = [believes EXCEPT ![i] = FALSE] /\ UNCHANGED step
    /\ UNCHANGED <<lock, ttl, lease>>

\* DELETE removes the lock of whoever has it by now.
DeleteLock(i) ==
    /\ step[i] = "delete"
    /\ lock' = None
    /\ ttl' = 0
    /\ believes' = [believes EXCEPT ![i] = FALSE]
    /\ lease' = [lease EXCEPT ![i] = 0]
    /\ step' = [step EXCEPT ![i] = "none"]

\* The process dies; its key stays in Valkey.
LoseInstance(i) ==
    /\ believes' = [believes EXCEPT ![i] = FALSE]
    /\ step' = [step EXCEPT ![i] = "none"]
    /\ lease' = [lease EXCEPT ![i] = 0]
    /\ UNCHANGED <<lock, ttl>>

Prompt == SlowCalls \/ \A i \in Instance : step[i] # "delete"
Left(n) == IF n = 0 THEN 0 ELSE n - 1

Tick ==
    /\ Prompt
    /\ ttl # 0 \/ \E i \in Instance : lease[i] # 0
    /\ ttl' = Left(ttl)
    /\ lock' = IF ttl = 1 THEN None ELSE lock
    /\ lease' = [i \in Instance |-> Left(lease[i])]
    /\ UNCHANGED <<believes, step>>

ElectionStep(i) ==
    \/ Acquire(i) \/ FailAcquire(i) \/ CheckHolder(i) \/ Renew(i)
    \/ Heartbeat(i) \/ Release(i) \/ DeleteLock(i)

-----------------------------------------------------------------------------
LeaderTypeOK ==
    /\ lock \in Instance \cup {None}
    /\ ttl \in 0 .. TTL
    /\ believes \in [Instance -> BOOLEAN]
    /\ step \in [Instance -> {"none", "check", "renew", "delete"}]
    /\ lease \in [Instance -> 0 .. TTL]

\* While the time that an instance has bought by its last SET or EXPIRE has not run
\* out, no other instance's has not either: leaders that keep to their lease exclude
\* each other, whatever is_leader says of those that do not.
LeasesAreExclusive ==
    \A i, j \in Instance : lease[i] > 0 /\ lease[j] > 0 => i = j

\* The lock of an instance that died, or that no longer believes in it, does not stay:
\* another can take over (leader.py: "the lock expires and another instance can").
DeadLeaderIsReplaced ==
    \A i \in Instance : (lock = i /\ ~believes[i]) ~> (lock # i \/ believes[i])
=============================================================================
