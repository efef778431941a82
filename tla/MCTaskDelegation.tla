----------------------------- MODULE MCTaskDelegation -----------------------------
(* Tasks whose decisions name no entity, all of which target "general". *)
EXTENDS TaskDelegation

MCTarget == {"general"}
================================================================================
