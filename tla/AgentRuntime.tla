------------------------------ MODULE AgentRuntime ------------------------------
(***************************************************************************)
(* Instances of an agent of memoryhub-agents: a process that serves a work *)
(* queue and may take part in an election. A process that dies loses its   *)
(* part of both.                                                           *)
(***************************************************************************)
EXTENDS LeaderElection, AgentQueue

CONSTANT MaxStops    \* how often processes are stopped or die, in all

ASSUME StopsAssumption == MaxStops \in Nat

VARIABLE stops       \* how often they were

runtimeVars == <<leaderVars, queueVars, stops>>

Alive(i) == runner[i].state # "down"
MayStop == stops < MaxStops /\ stops' = stops + 1

RuntimeInit == LeaderInit /\ QueueInit /\ stops = 0

Election(i) == Alive(i) /\ ElectionStep(i) /\ UNCHANGED <<queueVars, stops>>
Clock == Tick /\ UNCHANGED <<queueVars, stops>>
Produce == Enqueue /\ UNCHANGED <<leaderVars, stops>>
Loop(i) == LoopStep(i) /\ (IF runner'[i].state = "down" THEN LoseInstance(i) ELSE UNCHANGED leaderVars)
           /\ UNCHANGED stops
Start(i) == StartRunner(i) /\ UNCHANGED <<leaderVars, stops>>
Terminate(i) == MayStop /\ Signal(i) /\ UNCHANGED leaderVars
Die(i) == MayStop /\ LoseRunner(i) /\ LoseInstance(i)

RuntimeNext ==
    \/ Clock \/ Produce
    \/ \E i \in Instance : Election(i) \/ Loop(i) \/ Start(i) \/ Terminate(i) \/ Die(i)

RuntimeSpec == RuntimeInit /\ [][RuntimeNext]_runtimeVars

\* Time passes, processes are restarted by the cluster, a running loop goes on, and
\* an item that is tried for ever, and can succeed, does.
Serve(t) == \E i \in Instance :
    runner[i].item = t /\ Process(i) /\ UNCHANGED <<leaderVars, stops>>
FairRuntime ==
    /\ RuntimeSpec
    /\ WF_runtimeVars(Clock)
    /\ \A i \in Instance : WF_runtimeVars(Loop(i)) /\ WF_runtimeVars(Start(i))
    /\ \A t \in Item \ (Poison \cup Malformed) : SF_runtimeVars(Serve(t))

-----------------------------------------------------------------------------
RuntimeTypeOK == LeaderTypeOK /\ QueueTypeOK /\ stops \in 0 .. MaxStops
=============================================================================
