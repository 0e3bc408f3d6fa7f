--------------------------- MODULE MCMessageQueue ---------------------------
(* The instance of MessageQueue that TLC checks.                           *)
EXTENDS MessageQueue
=============================================================================
