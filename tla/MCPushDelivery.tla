------------------------------ MODULE MCPushDelivery ------------------------------
(* Small instances of PushDelivery for TLC. *)
EXTENDS PushDelivery
=============================================================================
