-------------------------- MODULE MCPriorityMutex --------------------------
(* Small instances of the PriorityMutex specification for TLC.             *)
EXTENDS PriorityMutex, TLC

CONSTANTS t1, t2, t3

\* t2 is of the task that owns the resource of mutex 1, and releases it, too.
Sibling == {<<t2, 1>>}
HoldersOnly == {}

Rising == [t \in Thread |-> ((t1 :> 1) @@ (t2 :> 2) @@ (t3 :> 4))[t]]
=============================================================================
