--------------------------------- MODULE Callers ---------------------------------
(* What the tools of the MCP server have in common, whatever they work on. *)

CONSTANTS
  User,
  Client,   \* the calls that can be in progress
  None
==============================================================================
