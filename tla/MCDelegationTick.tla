-------------------------- MODULE MCDelegationTick --------------------------
(* A plan of two subtasks, one of which waits for the other.  With a third   *)
(* the liveness check outgrows its time.                                     *)
EXTENDS DelegationTick

MCDependsOn == [s \in Subtasks |-> IF s = "write" THEN {"research"} ELSE {}]
MCPayer == [s \in Subtasks |-> "prime"]
=============================================================================
