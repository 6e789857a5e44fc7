------------------------- MODULE MCActionExecution --------------------------
(* Instances of ActionExecution for TLC.                                   *)
EXTENDS ActionExecution

Every == DOMAIN Capabilities
=============================================================================
