--------------------------------- MODULE Agents ---------------------------------
(* What the parts of the agent runtime share (memoryhub_agents/config.py). *)

EXTENDS Valkey

CONSTANT Instance    \* AGENT_ID of each instance of an agent; set, and set differently

ASSUME InstanceAssumption == None \notin Instance
=============================================================================
