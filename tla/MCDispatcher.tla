---------------------------- MODULE MCDispatcher ----------------------------
(* Small instances of the Dispatcher specification for TLC.                *)
EXTENDS Dispatcher, TLC

CONSTANTS u1, u2, u3, w1, w2, s1

NoWorkers == <<>>
OneWorker == <<w1>>
Service == <<s1>>
ServiceAndWorker == <<s1, w1>>
TwoWorkers == <<w1, w2>>

\* u1 < u2 < u3; workers are more urgent than u1 and u2, and the service is
\* more urgent than all of them (8000 against the default of user threads).
MCPriority == (u1 :> 2) @@ (u2 :> 3) @@ (u3 :> 6) @@ (s1 :> 9) @@ (w1 :> 4) @@ (w2 :> 5)
Prio == [t \in Threads |-> MCPriority[t]]

NoPeriod == [t \in User |-> 0]
PeriodicU2 == [t \in User |-> IF t = u2 THEN 2 ELSE 0]
AtOnce == [t \in User |-> 0]
LateU2 == [t \in User |-> IF t = u2 THEN 3 ELSE 0]
=============================================================================
