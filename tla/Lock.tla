-------------------------------- MODULE Lock --------------------------------
(***************************************************************************)
(* What class Mutex promises, without priorities and scheduling: a set of  *)
(* locks, each held by at most one thread, which its holder gives back or  *)
(* a client that is entitled to; a thread that has asked for a lock and    *)
(* waits does nothing else.                                                *)
(***************************************************************************)
CONSTANTS
  Client, Locks, Nobody,
  Entitled   \* <<t, m>>: client t may also free lock m without having it

VARIABLES
  holder,   \* the client that has each lock, or Nobody
  wants     \* the lock each waiting client waits for, or Nobody

Init ==
  /\ holder = [m \in Locks |-> Nobody]
  /\ wants = [t \in Client |-> Nobody]

\* The client asks for a lock that is taken, and waits.
Wait(t, m) ==
  /\ wants[t] = Nobody
  /\ holder[m] \notin {t, Nobody}
  /\ wants' = [wants EXCEPT ![t] = m]
  /\ UNCHANGED holder

\* The client gets a free lock, at once or after it has waited for it.
Take(t, m) ==
  /\ wants[t] \in {Nobody, m}
  /\ holder[m] = Nobody
  /\ holder' = [holder EXCEPT ![m] = t]
  /\ wants' = [wants EXCEPT ![t] = Nobody]

\* The client frees a lock that it has, or that it is entitled to free.
Give(t, m) ==
  /\ wants[t] = Nobody
  /\ holder[m] = t \/ <<t, m>> \in Entitled
  /\ holder' = [holder EXCEPT ![m] = Nobody]
  /\ UNCHANGED wants

Next == \E t \in Client, m \in Locks : Wait(t, m) \/ Take(t, m) \/ Give(t, m)

Spec == Init /\ [][Next]_<<holder, wants>>
=============================================================================
