---------------------------- MODULE MessageQueue ----------------------------
(***************************************************************************)
(* What a socket promises about the messages of its peer, which are        *)
(* numbered: those that find room are received once and in order.          *)
(***************************************************************************)
EXTENDS Integers, Sequences

CONSTANT Capacity

VARIABLES
  arrived,   \* number of the last message that has arrived
  queue,     \* messages that wait to be received
  taken      \* messages that have been received

Init == arrived = 0 /\ queue = <<>> /\ taken = <<>>

Arrive ==
  /\ arrived' = arrived + 1
  /\ queue' = IF Len(queue) < Capacity THEN Append(queue, arrived') ELSE queue
  /\ UNCHANGED taken

Take ==
  /\ queue # <<>>
  /\ queue' = Tail(queue)
  /\ taken' = Append(taken, Head(queue))
  /\ UNCHANGED arrived

Next == Arrive \/ Take

Spec == Init /\ [][Next]_<<arrived, queue, taken>>
=============================================================================
