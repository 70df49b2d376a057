--------------------------------- MODULE Valkey ---------------------------------
(* What the users of the Valkey server share: the agents' lock and work queue, the queues *)
(* of notifications, and the compilation epochs.                                           *)

CONSTANT None    \* nil: there is nothing under the key
=============================================================================
