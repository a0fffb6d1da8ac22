--------------------------- MODULE SocketsProofs ---------------------------
(***************************************************************************)
(* Proofs about module Sockets, for any number of threads and messages and *)
(* any size of the ring and of the backlog.                                *)
(***************************************************************************)
EXTENDS Sockets, TLAPS

-----------------------------------------------------------------------------
(* The inductive invariant.                                                *)

\* A socket has its pcb unless the connection was closed, and has it while
\* connected() is called.
PcbKnown ==
  /\ ~arg => peer \in {"closed", "dropped"}
  /\ npc = "store" => arg

\* comStackMutex protects what the network thread does, until a first listen()
\* without a pcb releases it; after that the socket never has a pcb again.
NetHolds ==
  /\ npc = "wait" \/ com = Net
       \/ (~arg /\ hasListeningThread /\ \A t \in Thread : pc[t] # "listenSpin")
  /\ \A t \in Thread : pc[t] = "listenSpin" => hasListeningThread

\* The flag of a sender is overwritten only by a state that admits no other, or
\* by a new connection.
SenderFlagged ==
  overtaken \/ \A t \in Thread : InSend(t) => "sending" \in state \/ "connected" \notin state

\* The state says whether the socket is connected, disconnected or listening;
\* connected without a pcb it is only until disconnected() has been called.
StateKnown ==
  /\ state \cap {"connected", "disconnected", "listening"} # {}
  /\ "connected" \in state /\ ~arg => npc = "closed"

\* A blocked thread is registered, or about to be unblocked.
Registered ==
  \A t \in Thread \ cut : Blocked(t) => blockedThread = t \/ (npc = "unblock" /\ target = t)

IInv ==
  /\ TypeOK /\ PcbKnown /\ NetHolds /\ SenderFlagged /\ SendExclusive
  /\ StateKnown /\ Registered /\ NoLostReceiver

-----------------------------------------------------------------------------
(* Types of what the operators that several actions share leave behind.    *)

\* recvfrom() takes a message out of the ring or leaves it alone.
ReceivedOK ==
  /\ pbuf_list \in [Slot -> Message \cup {0}]
  /\ head_id \in Slot /\ last_id \in Slot
  /\ arrived \in 0..MaxMessages /\ taken \in Seq(Message)
  /\ pc \in [Thread -> ThreadStates]

\* The next slot is a slot.
LEMMA NextSlotType ==
  ASSUME NEW i \in Slot
  PROVE  NextSlot(i) \in Slot
BY SocketsAssumption DEF Slot, NextSlot

\* Types after the end of recvfrom().
LEMMA ReceivedType ==
  ASSUME TypeOK, NEW t \in Thread, NEW large \in BOOLEAN, Received(t, large)
  PROVE  ReceivedOK'
<1> DEFINE m == pbuf_list[head_id]
<1>1. CASE hasData /\ (m \in Long => large)
  <2>1. m \in Message
    BY <1>1 DEF TypeOK, hasData
  <2>2. /\ taken' = Append(taken, m)
        /\ pbuf_list' = [pbuf_list EXCEPT ![head_id] = 0]
        /\ head_id' = NextSlot(head_id)
        /\ pc' = [pc EXCEPT ![t] = "ack"]
        /\ UNCHANGED <<last_id, arrived>>
    BY <1>1 DEF Received, Goto
  <2>3. taken' \in Seq(Message)
    BY <2>1, <2>2 DEF TypeOK
  <2>4. head_id' \in Slot
    BY <2>2, NextSlotType DEF TypeOK
  <2>5. pc' \in [Thread -> ThreadStates]
    BY <2>2 DEF TypeOK, ThreadStates
  <2> QED  BY <2>2, <2>3, <2>4, <2>5 DEF TypeOK, ReceivedOK
<1>2. CASE ~(hasData /\ (m \in Long => large))
  <2>1. pc' = [pc EXCEPT ![t] = "idle"] /\ UNCHANGED bufferVars
    BY <1>2 DEF Received, Goto
  <2>2. pc' \in [Thread -> ThreadStates]
    BY <2>1 DEF TypeOK, ThreadStates
  <2> QED  BY <2>1, <2>2 DEF TypeOK, ReceivedOK, bufferVars
<1> QED  BY <1>1, <1>2

\* listen() blocks, returns a connection or fails.
ListenOK ==
  /\ blockedThread \in Thread \cup {None} /\ sendBlockedThread \in Thread \cup {None}
  /\ acceptedConnections \in 0..Backlog
  /\ pbuf_list \in [Slot -> Message \cup {0}]
  /\ head_id \in Slot /\ last_id \in Slot
  /\ arrived \in 0..MaxMessages /\ taken \in Seq(Message)
  /\ pc \in [Thread -> ThreadStates]
  /\ cut \subseteq Thread /\ overtaken \in BOOLEAN

\* Types after listen().
LEMMA ListenWaitType ==
  ASSUME TypeOK, NEW t \in Thread, ListenWait(t)
  PROVE  ListenOK'
<1>1. acceptedConnections' \in 0..Backlog
  BY SocketsAssumption DEF TypeOK, ListenWait
<1>2. pc' \in [Thread -> ThreadStates] /\ blockedThread' \in Thread \cup {None}
  BY DEF TypeOK, ThreadStates, ListenWait, Goto
<1> QED  BY <1>1, <1>2 DEF TypeOK, ListenOK, ListenWait, bufferVars

-----------------------------------------------------------------------------
(* Every action keeps the invariant.                                       *)

\* The network thread takes comStackMutex.
LEMMA NetBeginInv ==
  ASSUME IInv, NetBegin
  PROVE  IInv'
<1>1. /\ TypeOK /\ PcbKnown /\ NetHolds /\ SenderFlagged /\ SendExclusive
      /\ StateKnown /\ Registered /\ NoLostReceiver
  BY DEF IInv
<1>2. TypeOK'
  BY <1>1 DEF TypeOK, ThreadStates, NetBegin, socketVars, sleepers, listenVars,
     bufferVars
<1>3. PcbKnown' /\ StateKnown'
  BY <1>1 DEF TypeOK, PcbKnown, StateKnown, NetBegin, socketVars, sleepers,
     listenVars, bufferVars
<1>4. NetHolds'
  BY <1>1 DEF TypeOK, NetHolds, NetBegin, socketVars, sleepers, listenVars,
     bufferVars
<1>5. SenderFlagged' /\ SendExclusive'
  BY <1>1, SocketsAssumption DEF TypeOK, PcbKnown, SenderFlagged, SendExclusive,
     InSend, NetBegin, socketVars, sleepers, listenVars, bufferVars
<1>6. Registered'
  BY <1>1 DEF TypeOK, Registered, Blocked, NetBegin, socketVars, sleepers,
     listenVars, bufferVars
<1>7. NoLostReceiver'
  BY <1>1 DEF TypeOK, Registered, NoLostReceiver, Answered, hasData, Blocked,
     NetBegin, socketVars, sleepers, listenVars, bufferVars
<1> QED  BY <1>2, <1>3, <1>4, <1>5, <1>6, <1>7 DEF IInv

\* The network thread releases comStackMutex.
LEMMA NetDoneInv ==
  ASSUME IInv, NetDone
  PROVE  IInv'
<1>1. /\ TypeOK /\ PcbKnown /\ NetHolds /\ SenderFlagged /\ SendExclusive
      /\ StateKnown /\ Registered /\ NoLostReceiver
  BY DEF IInv
<1>2. TypeOK'
  BY <1>1 DEF TypeOK, ThreadStates, NetDone, socketVars, sleepers, listenVars,
     bufferVars
<1>3. PcbKnown' /\ StateKnown'
  BY <1>1 DEF TypeOK, PcbKnown, StateKnown, NetDone, socketVars, sleepers,
     listenVars, bufferVars
<1>4. NetHolds'
  BY <1>1 DEF TypeOK, NetHolds, NetDone, socketVars, sleepers, listenVars,
     bufferVars
<1>5. SenderFlagged' /\ SendExclusive'
  BY <1>1, SocketsAssumption DEF TypeOK, PcbKnown, SenderFlagged, SendExclusive,
     InSend, NetDone, socketVars, sleepers, listenVars, bufferVars
<1>6. Registered'
  BY <1>1 DEF TypeOK, Registered, Blocked, NetDone, socketVars, sleepers,
     listenVars, bufferVars
<1>7. NoLostReceiver'
  BY <1>1 DEF TypeOK, Registered, NoLostReceiver, Answered, hasData, Blocked,
     NetDone, socketVars, sleepers, listenVars, bufferVars
<1> QED  BY <1>2, <1>3, <1>4, <1>5, <1>6, <1>7 DEF IInv

\* The handshake ends.
LEMMA NetConnectedInv ==
  ASSUME IInv, NetConnected
  PROVE  IInv'
<1>1. /\ TypeOK /\ PcbKnown /\ NetHolds /\ SenderFlagged /\ SendExclusive
      /\ StateKnown /\ Registered /\ NoLostReceiver
  BY DEF IInv
<1>2. TypeOK'
  BY <1>1 DEF TypeOK, ThreadStates, NetConnected, socketVars, sleepers,
     listenVars, bufferVars
<1>3. PcbKnown' /\ StateKnown'
  BY <1>1 DEF TypeOK, PcbKnown, StateKnown, NetConnected, socketVars, sleepers,
     listenVars, bufferVars
<1>4. NetHolds'
  BY <1>1 DEF TypeOK, NetHolds, NetConnected, socketVars, sleepers, listenVars,
     bufferVars
<1>5. SenderFlagged' /\ SendExclusive'
  BY <1>1 DEF TypeOK, SenderFlagged, SendExclusive, InSend, NetConnected,
     socketVars, sleepers, listenVars, bufferVars
<1>6. Registered'
  BY <1>1 DEF TypeOK, Registered, Blocked, NetConnected, socketVars, sleepers,
     listenVars, bufferVars
<1>7. NoLostReceiver'
  BY <1>1 DEF TypeOK, Registered, NoLostReceiver, Answered, hasData, Blocked,
     NetConnected, socketVars, sleepers, listenVars, bufferVars
<1> QED  BY <1>2, <1>3, <1>4, <1>5, <1>6, <1>7 DEF IInv

\* connected() overwrites the state: the senders that are there are overtaken.
LEMMA NetStoreInv ==
  ASSUME IInv, NetStore
  PROVE  IInv'
<1>1. /\ TypeOK /\ PcbKnown /\ NetHolds /\ SenderFlagged /\ SendExclusive
      /\ StateKnown /\ Registered /\ NoLostReceiver
  BY DEF IInv
<1>2. TypeOK'
  BY <1>1 DEF TypeOK, ThreadStates, NetStore, sleepers, listenVars, bufferVars
<1>3. PcbKnown' /\ StateKnown'
  BY <1>1 DEF TypeOK, PcbKnown, StateKnown, NetStore, sleepers, listenVars,
     bufferVars
<1>4. NetHolds'
  BY <1>1 DEF TypeOK, NetHolds, NetStore, sleepers, listenVars, bufferVars
<1>5. SenderFlagged' /\ SendExclusive'
  BY <1>1 DEF TypeOK, SenderFlagged, SendExclusive, InSend, NetStore, sleepers,
     listenVars, bufferVars
<1>6. Registered'
  BY <1>1 DEF TypeOK, Registered, Blocked, NetStore, sleepers, listenVars,
     bufferVars
<1>7. NoLostReceiver'
  BY <1>1 DEF TypeOK, Registered, NoLostReceiver, Answered, hasData, Blocked,
     NetStore, sleepers, listenVars, bufferVars
<1> QED  BY <1>2, <1>3, <1>4, <1>5, <1>6, <1>7 DEF IInv

\* connected() reads blockedThread.
LEMMA NetTestInv ==
  ASSUME IInv, NetTest
  PROVE  IInv'
<1>1. /\ TypeOK /\ PcbKnown /\ NetHolds /\ SenderFlagged /\ SendExclusive
      /\ StateKnown /\ Registered /\ NoLostReceiver
  BY DEF IInv
<1>2. TypeOK'
  BY <1>1 DEF TypeOK, ThreadStates, NetTest, socketVars, sleepers, listenVars,
     bufferVars
<1>3. PcbKnown' /\ StateKnown'
  BY <1>1 DEF TypeOK, PcbKnown, StateKnown, NetTest, socketVars, sleepers,
     listenVars, bufferVars
<1>4. NetHolds'
  BY <1>1 DEF TypeOK, NetHolds, NetTest, socketVars, sleepers, listenVars,
     bufferVars
<1>5. SenderFlagged' /\ SendExclusive'
  BY <1>1 DEF TypeOK, SenderFlagged, SendExclusive, InSend, NetTest, socketVars,
     sleepers, listenVars, bufferVars
<1>6. Registered'
  BY <1>1 DEF TypeOK, Registered, Blocked, NetTest, socketVars, sleepers,
     listenVars, bufferVars
<1>7. NoLostReceiver'
  BY <1>1 DEF TypeOK, Registered, NoLostReceiver, Answered, hasData, Blocked,
     NetTest, socketVars, sleepers, listenVars, bufferVars
<1> QED  BY <1>2, <1>3, <1>4, <1>5, <1>6, <1>7 DEF IInv

\* connected() unblocks the registered thread.
LEMMA NetWakeInv ==
  ASSUME IInv, NetWake
  PROVE  IInv'
<1>1. /\ TypeOK /\ PcbKnown /\ NetHolds /\ SenderFlagged /\ SendExclusive
      /\ StateKnown /\ Registered /\ NoLostReceiver
  BY DEF IInv
<1>2. TypeOK'
  BY <1>1 DEF TypeOK, ThreadStates, NetWake, Unblock, Woken, socketVars, sleepers,
     listenVars, bufferVars
<1>3. PcbKnown' /\ StateKnown'
  BY <1>1 DEF TypeOK, PcbKnown, StateKnown, NetWake, Unblock, Woken, socketVars,
     sleepers, listenVars, bufferVars
<1>4. NetHolds'
  BY <1>1 DEF TypeOK, NetHolds, NetWake, Unblock, Woken, socketVars, sleepers,
     listenVars, bufferVars
<1>5. SenderFlagged' /\ SendExclusive'
  BY <1>1 DEF TypeOK, SenderFlagged, SendExclusive, InSend, NetWake, Unblock,
     Woken, socketVars, sleepers, listenVars, bufferVars
<1>6. Registered'
  BY <1>1 DEF TypeOK, Registered, Blocked, NetWake, Unblock, Woken, socketVars,
     sleepers, listenVars, bufferVars
<1>7. NoLostReceiver'
  BY <1>1 DEF TypeOK, Registered, NoLostReceiver, Answered, hasData, Blocked,
     NetWake, Unblock, Woken, socketVars, sleepers, listenVars, bufferVars
<1> QED  BY <1>2, <1>3, <1>4, <1>5, <1>6, <1>7 DEF IInv

\* connected() clears blockedThread: who blocks there is cut off.
LEMMA NetForgetInv ==
  ASSUME IInv, NetForget
  PROVE  IInv'
<1>1. /\ TypeOK /\ PcbKnown /\ NetHolds /\ SenderFlagged /\ SendExclusive
      /\ StateKnown /\ Registered /\ NoLostReceiver
  BY DEF IInv
<1>2. TypeOK'
  BY <1>1 DEF TypeOK, ThreadStates, NetForget, Register, listenVars, bufferVars
<1>3. PcbKnown' /\ StateKnown'
  BY <1>1 DEF TypeOK, PcbKnown, StateKnown, NetForget, Register, listenVars,
     bufferVars
<1>4. NetHolds'
  BY <1>1 DEF TypeOK, NetHolds, NetForget, Register, listenVars, bufferVars
<1>5. SenderFlagged' /\ SendExclusive'
  BY <1>1 DEF TypeOK, SenderFlagged, SendExclusive, InSend, NetForget, Register,
     listenVars, bufferVars
<1>6. Registered'
  BY <1>1 DEF TypeOK, Registered, Blocked, NetForget, Register, listenVars,
     bufferVars
<1>7. NoLostReceiver'
  BY <1>1, SocketsAssumption DEF TypeOK, StateKnown, Registered, NoLostReceiver,
     Answered, hasData, Blocked, NetForget, Register, listenVars, bufferVars
<1> QED  BY <1>2, <1>3, <1>4, <1>5, <1>6, <1>7 DEF IInv

\* The peer does not answer, or with RST.
LEMMA NetRefusedInv ==
  ASSUME IInv, NEW rst \in BOOLEAN, NetRefused(rst)
  PROVE  IInv'
<1>1. /\ TypeOK /\ PcbKnown /\ NetHolds /\ SenderFlagged /\ SendExclusive
      /\ StateKnown /\ Registered /\ NoLostReceiver
  BY DEF IInv
<1>2. TypeOK'
  BY <1>1 DEF TypeOK, ThreadStates, NetRefused, socketVars, sleepers, listenVars,
     bufferVars
<1>3. PcbKnown' /\ StateKnown'
  BY <1>1 DEF TypeOK, PcbKnown, StateKnown, NetRefused, socketVars, sleepers,
     listenVars, bufferVars
<1>4. NetHolds'
  BY <1>1 DEF TypeOK, NetHolds, NetRefused, socketVars, sleepers, listenVars,
     bufferVars
<1>5. SenderFlagged' /\ SendExclusive'
  BY <1>1 DEF TypeOK, SenderFlagged, SendExclusive, InSend, NetRefused,
     socketVars, sleepers, listenVars, bufferVars
<1>6. Registered'
  BY <1>1 DEF TypeOK, Registered, Blocked, NetRefused, socketVars, sleepers,
     listenVars, bufferVars
<1>7. NoLostReceiver'
  BY <1>1 DEF TypeOK, Registered, NoLostReceiver, Answered, hasData, Blocked,
     NetRefused, socketVars, sleepers, listenVars, bufferVars
<1> QED  BY <1>2, <1>3, <1>4, <1>5, <1>6, <1>7 DEF IInv

\* addMessage() moves the registered thread to threadToUnblock.
LEMMA NetMessageInv ==
  ASSUME IInv, NetMessage
  PROVE  IInv'
<1>1. /\ TypeOK /\ PcbKnown /\ NetHolds /\ SenderFlagged /\ SendExclusive
      /\ StateKnown /\ Registered /\ NoLostReceiver
  BY DEF IInv
<1>2. TypeOK'
  <2>1. arrived + 1 \in Message /\ arrived' \in 0..MaxMessages
    BY <1>1, SocketsAssumption DEF TypeOK, Message, NetMessage
  <2>2. NextSlot(last_id) \in Slot
    BY <1>1, NextSlotType DEF TypeOK
  <2>3. pbuf_list' \in [Slot -> Message \cup {0}] /\ last_id' \in Slot
    BY <1>1, <2>1, <2>2 DEF TypeOK, NetMessage, AddPbuf
  <2> QED
    BY <2>1, <2>3, <1>1 DEF TypeOK, NetMessage, listenVars
<1>3. PcbKnown' /\ StateKnown'
  BY <1>1 DEF TypeOK, PcbKnown, StateKnown, NetMessage, AddPbuf, NextSlot,
     listenVars
<1>4. NetHolds'
  BY <1>1 DEF TypeOK, NetHolds, NetMessage, AddPbuf, NextSlot, listenVars
<1>5. SenderFlagged' /\ SendExclusive'
  BY <1>1 DEF TypeOK, SenderFlagged, SendExclusive, InSend, NetMessage, AddPbuf,
     NextSlot, listenVars
<1>6. Registered'
  BY <1>1 DEF TypeOK, Registered, Blocked, NetMessage, AddPbuf, NextSlot,
     listenVars
<1>7. NoLostReceiver'
  BY <1>1 DEF TypeOK, Registered, NoLostReceiver, Answered, hasData, Blocked,
     NetMessage, AddPbuf, NextSlot, listenVars
<1> QED  BY <1>2, <1>3, <1>4, <1>5, <1>6, <1>7 DEF IInv

\* The thread that the network thread remembered is unblocked.
LEMMA NetUnblockInv ==
  ASSUME IInv, NetUnblock
  PROVE  IInv'
<1>1. /\ TypeOK /\ PcbKnown /\ NetHolds /\ SenderFlagged /\ SendExclusive
      /\ StateKnown /\ Registered /\ NoLostReceiver
  BY DEF IInv
<1>2. TypeOK'
  BY <1>1 DEF TypeOK, ThreadStates, NetUnblock, Unblock, Woken, socketVars,
     sleepers, listenVars, bufferVars
<1>3. PcbKnown' /\ StateKnown'
  BY <1>1 DEF TypeOK, PcbKnown, StateKnown, NetUnblock, Unblock, Woken,
     socketVars, sleepers, listenVars, bufferVars
<1>4. NetHolds'
  BY <1>1 DEF TypeOK, NetHolds, NetUnblock, Unblock, Woken, socketVars, sleepers,
     listenVars, bufferVars
<1>5. SenderFlagged' /\ SendExclusive'
  BY <1>1 DEF TypeOK, SenderFlagged, SendExclusive, InSend, NetUnblock, Unblock,
     Woken, socketVars, sleepers, listenVars, bufferVars
<1>6. Registered'
  BY <1>1, SocketsAssumption DEF TypeOK, Registered, Blocked, NetUnblock, Unblock,
     Woken, socketVars, sleepers, listenVars, bufferVars
<1>7. NoLostReceiver'
  BY <1>1, SocketsAssumption DEF TypeOK, StateKnown, Registered, NoLostReceiver,
     Answered, hasData, Blocked, NetUnblock, Unblock, Woken, socketVars, sleepers,
     listenVars, bufferVars
<1> QED  BY <1>2, <1>3, <1>4, <1>5, <1>6, <1>7 DEF IInv

\* The connection is gone; disconnected() is going to be called.
LEMMA NetClosedInv ==
  ASSUME IInv, NetClosed
  PROVE  IInv'
<1>1. /\ TypeOK /\ PcbKnown /\ NetHolds /\ SenderFlagged /\ SendExclusive
      /\ StateKnown /\ Registered /\ NoLostReceiver
  BY DEF IInv
<1>2. TypeOK'
  BY <1>1 DEF TypeOK, ThreadStates, NetClosed, sleepers, listenVars, bufferVars
<1>3. PcbKnown' /\ StateKnown'
  BY <1>1 DEF TypeOK, PcbKnown, StateKnown, NetClosed, sleepers, listenVars,
     bufferVars
<1>4. NetHolds'
  BY <1>1 DEF TypeOK, NetHolds, NetClosed, sleepers, listenVars, bufferVars
<1>5. SenderFlagged' /\ SendExclusive'
  BY <1>1 DEF TypeOK, SenderFlagged, SendExclusive, InSend, NetClosed, sleepers,
     listenVars, bufferVars
<1>6. Registered'
  BY <1>1 DEF TypeOK, Registered, Blocked, NetClosed, sleepers, listenVars,
     bufferVars
<1>7. NoLostReceiver'
  BY <1>1 DEF TypeOK, Registered, NoLostReceiver, Answered, hasData, Blocked,
     NetClosed, sleepers, listenVars, bufferVars
<1> QED  BY <1>2, <1>3, <1>4, <1>5, <1>6, <1>7 DEF IInv

\* The connection is reset or given up; disconnected() is going to be called.
LEMMA NetErrorInv ==
  ASSUME IInv, NEW rst \in BOOLEAN, NetError(rst)
  PROVE  IInv'
<1>1. /\ TypeOK /\ PcbKnown /\ NetHolds /\ SenderFlagged /\ SendExclusive
      /\ StateKnown /\ Registered /\ NoLostReceiver
  BY DEF IInv
<1>2. TypeOK'
  BY <1>1 DEF TypeOK, ThreadStates, NetError, socketVars, sleepers, listenVars,
     bufferVars
<1>3. PcbKnown' /\ StateKnown'
  BY <1>1 DEF TypeOK, PcbKnown, StateKnown, NetError, socketVars, sleepers,
     listenVars, bufferVars
<1>4. NetHolds'
  BY <1>1 DEF TypeOK, NetHolds, NetError, socketVars, sleepers, listenVars,
     bufferVars
<1>5. SenderFlagged' /\ SendExclusive'
  BY <1>1 DEF TypeOK, SenderFlagged, SendExclusive, InSend, NetError, socketVars,
     sleepers, listenVars, bufferVars
<1>6. Registered'
  BY <1>1 DEF TypeOK, Registered, Blocked, NetError, socketVars, sleepers,
     listenVars, bufferVars
<1>7. NoLostReceiver'
  BY <1>1 DEF TypeOK, Registered, NoLostReceiver, Answered, hasData, Blocked,
     NetError, socketVars, sleepers, listenVars, bufferVars
<1> QED  BY <1>2, <1>3, <1>4, <1>5, <1>6, <1>7 DEF IInv

\* disconnected() overwrites the state.
LEMMA NetDisconnectInv ==
  ASSUME IInv, NetDisconnect
  PROVE  IInv'
<1>1. /\ TypeOK /\ PcbKnown /\ NetHolds /\ SenderFlagged /\ SendExclusive
      /\ StateKnown /\ Registered /\ NoLostReceiver
  BY DEF IInv
<1>2. TypeOK'
  BY <1>1 DEF TypeOK, ThreadStates, NetDisconnect, sleepers, listenVars,
     bufferVars
<1>3. PcbKnown' /\ StateKnown'
  BY <1>1 DEF TypeOK, PcbKnown, StateKnown, NetDisconnect, sleepers, listenVars,
     bufferVars
<1>4. NetHolds'
  BY <1>1 DEF TypeOK, NetHolds, NetDisconnect, sleepers, listenVars, bufferVars
<1>5. SenderFlagged' /\ SendExclusive'
  BY <1>1 DEF TypeOK, SenderFlagged, SendExclusive, InSend, NetDisconnect,
     sleepers, listenVars, bufferVars
<1>6. Registered'
  BY <1>1 DEF TypeOK, Registered, Blocked, NetDisconnect, sleepers, listenVars,
     bufferVars
<1>7. NoLostReceiver'
  BY <1>1 DEF TypeOK, Registered, NoLostReceiver, Answered, hasData, Blocked,
     NetDisconnect, sleepers, listenVars, bufferVars
<1> QED  BY <1>2, <1>3, <1>4, <1>5, <1>6, <1>7 DEF IInv

\* disconnected() unblocks the registered thread.
LEMMA NetDisconnectedInv ==
  ASSUME IInv, NetDisconnected
  PROVE  IInv'
<1>1. /\ TypeOK /\ PcbKnown /\ NetHolds /\ SenderFlagged /\ SendExclusive
      /\ StateKnown /\ Registered /\ NoLostReceiver
  BY DEF IInv
<1>2. TypeOK'
  BY <1>1 DEF TypeOK, ThreadStates, NetDisconnected, Unblock, Woken, listenVars,
     bufferVars
<1>3. PcbKnown' /\ StateKnown'
  BY <1>1 DEF TypeOK, PcbKnown, StateKnown, NetDisconnected, Unblock, Woken,
     listenVars, bufferVars
<1>4. NetHolds'
  BY <1>1 DEF TypeOK, NetHolds, NetDisconnected, Unblock, Woken, listenVars,
     bufferVars
<1>5. SenderFlagged' /\ SendExclusive'
  BY <1>1 DEF TypeOK, SenderFlagged, SendExclusive, InSend, NetDisconnected,
     Unblock, Woken, listenVars, bufferVars
<1>6. Registered'
  BY <1>1 DEF TypeOK, Registered, Blocked, NetDisconnected, Unblock, Woken,
     listenVars, bufferVars
<1>7. NoLostReceiver'
  BY <1>1, SocketsAssumption DEF TypeOK, StateKnown, Registered, NoLostReceiver,
     Answered, hasData, Blocked, NetDisconnected, Unblock, Woken, listenVars,
     bufferVars
<1> QED  BY <1>2, <1>3, <1>4, <1>5, <1>6, <1>7 DEF IInv

\* An acknowledgement is going to unblock a sender.
LEMMA NetSentInv ==
  ASSUME IInv, NetSent
  PROVE  IInv'
<1>1. /\ TypeOK /\ PcbKnown /\ NetHolds /\ SenderFlagged /\ SendExclusive
      /\ StateKnown /\ Registered /\ NoLostReceiver
  BY DEF IInv
<1>2. TypeOK'
  BY <1>1 DEF TypeOK, ThreadStates, NetSent, socketVars, sleepers, listenVars,
     bufferVars
<1>3. PcbKnown' /\ StateKnown'
  BY <1>1 DEF TypeOK, PcbKnown, StateKnown, NetSent, socketVars, sleepers,
     listenVars, bufferVars
<1>4. NetHolds'
  BY <1>1 DEF TypeOK, NetHolds, NetSent, socketVars, sleepers, listenVars,
     bufferVars
<1>5. SenderFlagged' /\ SendExclusive'
  BY <1>1 DEF TypeOK, SenderFlagged, SendExclusive, InSend, NetSent, socketVars,
     sleepers, listenVars, bufferVars
<1>6. Registered'
  BY <1>1 DEF TypeOK, Registered, Blocked, NetSent, socketVars, sleepers,
     listenVars, bufferVars
<1>7. NoLostReceiver'
  BY <1>1 DEF TypeOK, Registered, NoLostReceiver, Answered, hasData, Blocked,
     NetSent, socketVars, sleepers, listenVars, bufferVars
<1> QED  BY <1>2, <1>3, <1>4, <1>5, <1>6, <1>7 DEF IInv

\* tcp_sent_wrapper() clears sendBlockedThread.
LEMMA NetSentClearInv ==
  ASSUME IInv, NetSentClear
  PROVE  IInv'
<1>1. /\ TypeOK /\ PcbKnown /\ NetHolds /\ SenderFlagged /\ SendExclusive
      /\ StateKnown /\ Registered /\ NoLostReceiver
  BY DEF IInv
<1>2. TypeOK'
  BY <1>1 DEF TypeOK, ThreadStates, NetSentClear, listenVars, bufferVars
<1>3. PcbKnown' /\ StateKnown'
  BY <1>1 DEF TypeOK, PcbKnown, StateKnown, NetSentClear, listenVars, bufferVars
<1>4. NetHolds'
  BY <1>1 DEF TypeOK, NetHolds, NetSentClear, listenVars, bufferVars
<1>5. SenderFlagged' /\ SendExclusive'
  BY <1>1 DEF TypeOK, SenderFlagged, SendExclusive, InSend, NetSentClear,
     listenVars, bufferVars
<1>6. Registered'
  BY <1>1 DEF TypeOK, Registered, Blocked, NetSentClear, listenVars, bufferVars
<1>7. NoLostReceiver'
  BY <1>1 DEF TypeOK, Registered, NoLostReceiver, Answered, hasData, Blocked,
     NetSentClear, listenVars, bufferVars
<1> QED  BY <1>2, <1>3, <1>4, <1>5, <1>6, <1>7 DEF IInv

\* accepted() looks at the state.
LEMMA NetAcceptInv ==
  ASSUME IInv, NetAccept
  PROVE  IInv'
<1>1. /\ TypeOK /\ PcbKnown /\ NetHolds /\ SenderFlagged /\ SendExclusive
      /\ StateKnown /\ Registered /\ NoLostReceiver
  BY DEF IInv
<1>2. TypeOK'
  BY <1>1 DEF TypeOK, ThreadStates, NetAccept, socketVars, sleepers, listenVars,
     bufferVars
<1>3. PcbKnown' /\ StateKnown'
  BY <1>1 DEF TypeOK, PcbKnown, StateKnown, NetAccept, socketVars, sleepers,
     listenVars, bufferVars
<1>4. NetHolds'
  BY <1>1 DEF TypeOK, NetHolds, NetAccept, socketVars, sleepers, listenVars,
     bufferVars
<1>5. SenderFlagged' /\ SendExclusive'
  BY <1>1 DEF TypeOK, SenderFlagged, SendExclusive, InSend, NetAccept, socketVars,
     sleepers, listenVars, bufferVars
<1>6. Registered'
  BY <1>1 DEF TypeOK, Registered, Blocked, NetAccept, socketVars, sleepers,
     listenVars, bufferVars
<1>7. NoLostReceiver'
  BY <1>1 DEF TypeOK, Registered, NoLostReceiver, Answered, hasData, Blocked,
     NetAccept, socketVars, sleepers, listenVars, bufferVars
<1> QED  BY <1>2, <1>3, <1>4, <1>5, <1>6, <1>7 DEF IInv

\* A new connection is going to unblock the thread that listens.
LEMMA NetAcceptedInv ==
  ASSUME IInv, NetAccepted
  PROVE  IInv'
<1>1. /\ TypeOK /\ PcbKnown /\ NetHolds /\ SenderFlagged /\ SendExclusive
      /\ StateKnown /\ Registered /\ NoLostReceiver
  BY DEF IInv
<1>2. TypeOK'
  BY <1>1, SocketsAssumption DEF TypeOK, ThreadStates, Message, Slot, NetAccepted,
     sleepers, bufferVars
<1>3. PcbKnown' /\ StateKnown'
  BY <1>1 DEF TypeOK, PcbKnown, StateKnown, NetAccepted, sleepers, bufferVars
<1>4. NetHolds'
  BY <1>1 DEF TypeOK, NetHolds, NetAccepted, sleepers, bufferVars
<1>5. SenderFlagged' /\ SendExclusive'
  BY <1>1 DEF TypeOK, SenderFlagged, SendExclusive, InSend, NetAccepted, sleepers,
     bufferVars
<1>6. Registered'
  BY <1>1 DEF TypeOK, Registered, Blocked, NetAccepted, sleepers, bufferVars
<1>7. NoLostReceiver'
  BY <1>1 DEF TypeOK, Registered, NoLostReceiver, Answered, hasData, Blocked,
     NetAccepted, sleepers, bufferVars
<1> QED  BY <1>2, <1>3, <1>4, <1>5, <1>6, <1>7 DEF IInv

\* A packet for somebody else.
LEMMA NetOtherInv ==
  ASSUME IInv, NetOther
  PROVE  IInv'
<1>1. /\ TypeOK /\ PcbKnown /\ NetHolds /\ SenderFlagged /\ SendExclusive
      /\ StateKnown /\ Registered /\ NoLostReceiver
  BY DEF IInv
<1>2. TypeOK'
  BY <1>1 DEF TypeOK, ThreadStates, NetOther, socketVars, sleepers, listenVars,
     bufferVars
<1>3. PcbKnown' /\ StateKnown'
  BY <1>1 DEF TypeOK, PcbKnown, StateKnown, NetOther, socketVars, sleepers,
     listenVars, bufferVars
<1>4. NetHolds'
  BY <1>1 DEF TypeOK, NetHolds, NetOther, socketVars, sleepers, listenVars,
     bufferVars
<1>5. SenderFlagged' /\ SendExclusive'
  BY <1>1 DEF TypeOK, SenderFlagged, SendExclusive, InSend, NetOther, socketVars,
     sleepers, listenVars, bufferVars
<1>6. Registered'
  BY <1>1 DEF TypeOK, Registered, Blocked, NetOther, socketVars, sleepers,
     listenVars, bufferVars
<1>7. NoLostReceiver'
  BY <1>1 DEF TypeOK, Registered, NoLostReceiver, Answered, hasData, Blocked,
     NetOther, socketVars, sleepers, listenVars, bufferVars
<1> QED  BY <1>2, <1>3, <1>4, <1>5, <1>6, <1>7 DEF IInv

\* recvfrom() goes on after block(); whoever is registered now is cut off.
LEMMA RecvEndInv ==
  ASSUME IInv, NEW t \in Thread, NEW large \in BOOLEAN, RecvEnd(t, large)
  PROVE  IInv'
<1>1. /\ TypeOK /\ PcbKnown /\ NetHolds /\ SenderFlagged /\ SendExclusive
      /\ StateKnown /\ Registered /\ NoLostReceiver
  BY DEF IInv
<1>2. TypeOK'
  <2>1. ReceivedOK'
    BY <1>1, ReceivedType DEF RecvEnd
  <2>2. blockedThread' = None /\ cut' \subseteq Thread
    BY <1>1 DEF TypeOK, RecvEnd, Register
  <2> QED
    BY <2>1, <2>2, <1>1 DEF TypeOK, ReceivedOK, RecvEnd, listenVars, netVars
<1>3. PcbKnown' /\ StateKnown'
  BY <1>1 DEF TypeOK, PcbKnown, StateKnown, RecvEnd, Register, Received, NextSlot,
     Goto, listenVars, bufferVars, netVars
<1>4. NetHolds'
  BY <1>1 DEF TypeOK, NetHolds, RecvEnd, Register, Received, NextSlot, Goto,
     listenVars, bufferVars, netVars
<1>5. SenderFlagged' /\ SendExclusive'
  BY <1>1 DEF TypeOK, SenderFlagged, SendExclusive, InSend, RecvEnd, Register,
     Received, NextSlot, Goto, listenVars, bufferVars, netVars
<1>6. Registered'
  BY <1>1 DEF TypeOK, Registered, Blocked, RecvEnd, Register, Received, NextSlot,
     Goto, listenVars, bufferVars, netVars
<1>7. NoLostReceiver'
  BY <1>1 DEF TypeOK, Registered, NoLostReceiver, Answered, hasData, Blocked,
     RecvEnd, Register, Received, NextSlot, Goto, listenVars, bufferVars, netVars
<1> QED  BY <1>2, <1>3, <1>4, <1>5, <1>6, <1>7 DEF IInv

\* received() passes through comStackMutex.
LEMMA AckInv ==
  ASSUME IInv, NEW t \in Thread, Ack(t)
  PROVE  IInv'
<1>1. /\ TypeOK /\ PcbKnown /\ NetHolds /\ SenderFlagged /\ SendExclusive
      /\ StateKnown /\ Registered /\ NoLostReceiver
  BY DEF IInv
<1>2. TypeOK'
  BY <1>1 DEF TypeOK, ThreadStates, Ack, Goto, StackFree, socketVars, sleepers,
     listenVars, bufferVars, netVars
<1>3. PcbKnown' /\ StateKnown'
  BY <1>1 DEF TypeOK, PcbKnown, StateKnown, Ack, Goto, StackFree, socketVars,
     sleepers, listenVars, bufferVars, netVars
<1>4. NetHolds'
  BY <1>1, SocketsAssumption DEF TypeOK, PcbKnown, NetHolds, Ack, Goto, StackFree,
     socketVars, sleepers, listenVars, bufferVars, netVars
<1>5. SenderFlagged' /\ SendExclusive'
  BY <1>1 DEF TypeOK, SenderFlagged, SendExclusive, InSend, Ack, Goto, StackFree,
     socketVars, sleepers, listenVars, bufferVars, netVars
<1>6. Registered'
  BY <1>1 DEF TypeOK, Registered, Blocked, Ack, Goto, StackFree, socketVars,
     sleepers, listenVars, bufferVars, netVars
<1>7. NoLostReceiver'
  BY <1>1 DEF TypeOK, Registered, NoLostReceiver, Answered, hasData, Blocked, Ack,
     Goto, StackFree, socketVars, sleepers, listenVars, bufferVars, netVars
<1> QED  BY <1>2, <1>3, <1>4, <1>5, <1>6, <1>7 DEF IInv

\* connect() of a connected socket takes its pcb away.
LEMMA DisconnectInv ==
  ASSUME IInv, NEW t \in Thread, Disconnect(t)
  PROVE  IInv'
<1>1. /\ TypeOK /\ PcbKnown /\ NetHolds /\ SenderFlagged /\ SendExclusive
      /\ StateKnown /\ Registered /\ NoLostReceiver
  BY DEF IInv
<1>2. TypeOK'
  BY <1>1 DEF TypeOK, ThreadStates, Disconnect, ConnectBlock, Register, Goto,
     StackFree, listenVars, bufferVars
<1>3. PcbKnown' /\ StateKnown'
  BY <1>1, SocketsAssumption DEF TypeOK, PcbKnown, NetHolds, StateKnown,
     Disconnect, ConnectBlock, Register, Goto, StackFree, listenVars, bufferVars
<1>4. NetHolds'
  BY <1>1, SocketsAssumption DEF TypeOK, PcbKnown, NetHolds, Disconnect,
     ConnectBlock, Register, Goto, StackFree, listenVars, bufferVars
<1>5. SenderFlagged' /\ SendExclusive'
  BY <1>1 DEF TypeOK, SenderFlagged, SendExclusive, InSend, Disconnect,
     ConnectBlock, Register, Goto, StackFree, listenVars, bufferVars
<1>6. Registered'
  BY <1>1 DEF TypeOK, Registered, Blocked, Disconnect, ConnectBlock, Register,
     Goto, StackFree, listenVars, bufferVars
<1>7. NoLostReceiver'
  BY <1>1 DEF TypeOK, Registered, NoLostReceiver, Answered, hasData, Blocked,
     Disconnect, ConnectBlock, Register, Goto, StackFree, listenVars, bufferVars
<1> QED  BY <1>2, <1>3, <1>4, <1>5, <1>6, <1>7 DEF IInv

\* connect() registers its thread and blocks.
LEMMA ConnectInv ==
  ASSUME IInv, NEW t \in Thread, Connect(t)
  PROVE  IInv'
<1>1. /\ TypeOK /\ PcbKnown /\ NetHolds /\ SenderFlagged /\ SendExclusive
      /\ StateKnown /\ Registered /\ NoLostReceiver
  BY DEF IInv
<1>2. TypeOK'
  BY <1>1 DEF TypeOK, ThreadStates, Connect, ConnectBlock, Register, Dialled,
     Goto, StackFree, listenVars, bufferVars
<1>3. PcbKnown' /\ StateKnown'
  BY <1>1 DEF TypeOK, PcbKnown, StateKnown, Connect, ConnectBlock, Register,
     Dialled, Goto, StackFree, listenVars, bufferVars
<1>4. NetHolds'
  BY <1>1, SocketsAssumption DEF TypeOK, PcbKnown, NetHolds, Connect,
     ConnectBlock, Register, Dialled, Goto, StackFree, listenVars, bufferVars
<1>5. SenderFlagged' /\ SendExclusive'
  BY <1>1 DEF TypeOK, SenderFlagged, SendExclusive, InSend, Connect, ConnectBlock,
     Register, Dialled, Goto, StackFree, listenVars, bufferVars
<1>6. Registered'
  BY <1>1 DEF TypeOK, Registered, Blocked, Connect, ConnectBlock, Register,
     Dialled, Goto, StackFree, listenVars, bufferVars
<1>7. NoLostReceiver'
  BY <1>1 DEF TypeOK, Registered, NoLostReceiver, Answered, hasData, Blocked,
     Connect, ConnectBlock, Register, Dialled, Goto, StackFree, listenVars,
     bufferVars
<1> QED  BY <1>2, <1>3, <1>4, <1>5, <1>6, <1>7 DEF IInv

\* connect() goes on after block().
LEMMA ConnectEndInv ==
  ASSUME IInv, NEW t \in Thread, ConnectEnd(t)
  PROVE  IInv'
<1>1. /\ TypeOK /\ PcbKnown /\ NetHolds /\ SenderFlagged /\ SendExclusive
      /\ StateKnown /\ Registered /\ NoLostReceiver
  BY DEF IInv
<1>2. TypeOK'
  BY <1>1 DEF TypeOK, ThreadStates, ConnectEnd, Register, Goto, listenVars,
     bufferVars, netVars
<1>3. PcbKnown' /\ StateKnown'
  BY <1>1 DEF TypeOK, PcbKnown, StateKnown, ConnectEnd, Register, Goto,
     listenVars, bufferVars, netVars
<1>4. NetHolds'
  BY <1>1 DEF TypeOK, NetHolds, ConnectEnd, Register, Goto, listenVars,
     bufferVars, netVars
<1>5. SenderFlagged' /\ SendExclusive'
  BY <1>1 DEF TypeOK, SenderFlagged, SendExclusive, InSend, ConnectEnd, Register,
     Goto, listenVars, bufferVars, netVars
<1>6. Registered'
  BY <1>1 DEF TypeOK, Registered, Blocked, ConnectEnd, Register, Goto, listenVars,
     bufferVars, netVars
<1>7. NoLostReceiver'
  BY <1>1 DEF TypeOK, Registered, NoLostReceiver, Answered, hasData, Blocked,
     ConnectEnd, Register, Goto, listenVars, bufferVars, netVars
<1> QED  BY <1>2, <1>3, <1>4, <1>5, <1>6, <1>7 DEF IInv

\* listen() sets the pcb to listen.
LEMMA ListenInv ==
  ASSUME IInv, NEW t \in Thread, Listen(t)
  PROVE  IInv'
<1>1. /\ TypeOK /\ PcbKnown /\ NetHolds /\ SenderFlagged /\ SendExclusive
      /\ StateKnown /\ Registered /\ NoLostReceiver
  BY DEF IInv
<1>2. TypeOK'
  <2>1. CASE /\ peer' = (IF peer = "dropped" THEN "dropped" ELSE "listen")
             /\ arg' = TRUE
             /\ ListenWait(t)
    <3>1. ListenOK'
      BY <2>1, <1>1, ListenWaitType
    <3>2. UNCHANGED <<npc, target>> /\ com' = None
      BY <2>1 DEF Listen, ListenWait
    <3> QED
      BY <2>1, <3>1, <3>2, <1>1 DEF TypeOK, ListenOK, Listen
  <2>2. CASE /\ Goto(t, "idle")
             /\ UNCHANGED <<sleepers, arg, acceptedConnections, bufferVars, netVars, cut,
                            overtaken>>
    BY <2>2, <1>1 DEF TypeOK, ThreadStates, Listen, Goto, sleepers, bufferVars, netVars
  <2> QED  BY <2>1, <2>2 DEF Listen
<1>3. PcbKnown' /\ StateKnown'
  BY <1>1 DEF TypeOK, PcbKnown, StateKnown, Listen, ListenWait, Goto, StackFree,
     sleepers, bufferVars, netVars
<1>4. NetHolds'
  BY <1>1, SocketsAssumption DEF TypeOK, PcbKnown, NetHolds, Listen, ListenWait,
     Goto, StackFree, sleepers, bufferVars, netVars
<1>5. SenderFlagged' /\ SendExclusive'
  BY <1>1, SocketsAssumption DEF TypeOK, PcbKnown, SenderFlagged, SendExclusive,
     InSend, Listen, ListenWait, Goto, StackFree, sleepers, bufferVars, netVars
<1>6. Registered'
  BY <1>1, SocketsAssumption DEF TypeOK, Registered, Blocked, Listen, ListenWait,
     Goto, StackFree, sleepers, bufferVars, netVars
<1>7. NoLostReceiver'
  BY <1>1, SocketsAssumption DEF TypeOK, StateKnown, Registered, NoLostReceiver,
     Answered, hasData, Blocked, Listen, ListenWait, Goto, StackFree, sleepers,
     bufferVars, netVars
<1> QED  BY <1>2, <1>3, <1>4, <1>5, <1>6, <1>7 DEF IInv

\* listen() goes on after block().
LEMMA ListenEndInv ==
  ASSUME IInv, NEW t \in Thread, ListenEnd(t)
  PROVE  IInv'
<1>1. /\ TypeOK /\ PcbKnown /\ NetHolds /\ SenderFlagged /\ SendExclusive
      /\ StateKnown /\ Registered /\ NoLostReceiver
  BY DEF IInv
<1>2. TypeOK'
  BY <1>1, SocketsAssumption DEF TypeOK, ThreadStates, Message, Slot, ListenEnd,
     Register, Goto, bufferVars, netVars
<1>3. PcbKnown' /\ StateKnown'
  BY <1>1 DEF TypeOK, PcbKnown, StateKnown, ListenEnd, Register, Goto, bufferVars,
     netVars
<1>4. NetHolds'
  BY <1>1 DEF TypeOK, NetHolds, ListenEnd, Register, Goto, bufferVars, netVars
<1>5. SenderFlagged' /\ SendExclusive'
  BY <1>1 DEF TypeOK, SenderFlagged, SendExclusive, InSend, ListenEnd, Register,
     Goto, bufferVars, netVars
<1>6. Registered'
  BY <1>1 DEF TypeOK, Registered, Blocked, ListenEnd, Register, Goto, bufferVars,
     netVars
<1>7. NoLostReceiver'
  BY <1>1 DEF TypeOK, Registered, NoLostReceiver, Answered, hasData, Blocked,
     ListenEnd, Register, Goto, bufferVars, netVars
<1> QED  BY <1>2, <1>3, <1>4, <1>5, <1>6, <1>7 DEF IInv

\* send() is done, fails without a pcb or waits for room.
LEMMA SendInv ==
  ASSUME IInv, NEW t \in Thread, Send(t)
  PROVE  IInv'
<1>1. /\ TypeOK /\ PcbKnown /\ NetHolds /\ SenderFlagged /\ SendExclusive
      /\ StateKnown /\ Registered /\ NoLostReceiver
  BY DEF IInv
<1>2. TypeOK'
  <2>1. PICK l \in {"idle", "sendBlocked"} : pc' = [pc EXCEPT ![t] = l]
    BY DEF Send, SendEnd, Goto
  <2>2. pc' \in [Thread -> ThreadStates]
    BY <2>1, <1>1 DEF TypeOK, ThreadStates
  <2>3. /\ state' \subseteq {"connected", "disconnected", "listening", "sending"}
        /\ com' \in Thread \cup {Net, None}
        /\ sendBlockedThread' \in Thread \cup {None}
    BY <1>1 DEF Send, SendEnd, TypeOK
  <2>4. overtaken' \in BOOLEAN
    BY <1>1 DEF Send, SendEnd, TypeOK
  <2>5. UNCHANGED <<blockedThread, arg, listenVars, bufferVars, netVars, cut>>
    BY DEF Send
  <2> QED
    BY <2>2, <2>3, <2>4, <2>5, <1>1 DEF TypeOK, listenVars, bufferVars, netVars
<1>3. PcbKnown' /\ StateKnown'
  BY <1>1 DEF TypeOK, PcbKnown, StateKnown, Send, SendEnd, Goto, StackFree,
     listenVars, bufferVars, netVars
<1>4. NetHolds'
  BY <1>1, SocketsAssumption DEF TypeOK, PcbKnown, NetHolds, Send, SendEnd, Goto,
     StackFree, listenVars, bufferVars, netVars
<1>5. SenderFlagged' /\ SendExclusive'
  BY <1>1, SocketsAssumption DEF TypeOK, PcbKnown, SenderFlagged, SendExclusive,
     InSend, Send, SendEnd, Goto, StackFree, listenVars, bufferVars, netVars
<1>6. Registered'
  BY <1>1 DEF TypeOK, Registered, Blocked, Send, SendEnd, Goto, StackFree,
     listenVars, bufferVars, netVars
<1>7. NoLostReceiver'
  BY <1>1 DEF TypeOK, Registered, NoLostReceiver, Answered, hasData, Blocked,
     Send, SendEnd, Goto, StackFree, listenVars, bufferVars, netVars
<1> QED  BY <1>2, <1>3, <1>4, <1>5, <1>6, <1>7 DEF IInv

\* send() after block().
LEMMA SendAgainInv ==
  ASSUME IInv, NEW t \in Thread, SendAgain(t)
  PROVE  IInv'
<1>1. /\ TypeOK /\ PcbKnown /\ NetHolds /\ SenderFlagged /\ SendExclusive
      /\ StateKnown /\ Registered /\ NoLostReceiver
  BY DEF IInv
<1>2. TypeOK'
  BY <1>1 DEF TypeOK, ThreadStates, SendAgain, SendEnd, Goto, StackFree, sleepers,
     listenVars, bufferVars, netVars
<1>3. PcbKnown' /\ StateKnown'
  BY <1>1 DEF TypeOK, PcbKnown, StateKnown, SendAgain, SendEnd, Goto, StackFree,
     sleepers, listenVars, bufferVars, netVars
<1>4. NetHolds'
  BY <1>1, SocketsAssumption DEF TypeOK, PcbKnown, NetHolds, SendAgain, SendEnd,
     Goto, StackFree, sleepers, listenVars, bufferVars, netVars
<1>5. SenderFlagged' /\ SendExclusive'
  BY <1>1 DEF TypeOK, SenderFlagged, SendExclusive, InSend, SendAgain, SendEnd,
     Goto, StackFree, sleepers, listenVars, bufferVars, netVars
<1>6. Registered'
  BY <1>1 DEF TypeOK, Registered, Blocked, SendAgain, SendEnd, Goto, StackFree,
     sleepers, listenVars, bufferVars, netVars
<1>7. NoLostReceiver'
  BY <1>1 DEF TypeOK, Registered, NoLostReceiver, Answered, hasData, Blocked,
     SendAgain, SendEnd, Goto, StackFree, sleepers, listenVars, bufferVars,
     netVars
<1> QED  BY <1>2, <1>3, <1>4, <1>5, <1>6, <1>7 DEF IInv

\* A timeout unblocks a thread.
LEMMA TimeoutInv ==
  ASSUME IInv, NEW t \in Thread, Timeout(t)
  PROVE  IInv'
<1>1. /\ TypeOK /\ PcbKnown /\ NetHolds /\ SenderFlagged /\ SendExclusive
      /\ StateKnown /\ Registered /\ NoLostReceiver
  BY DEF IInv
<1>2. TypeOK'
  <2>1. pc[t] \in ThreadStates /\ Woken(pc[t]) \in ThreadStates
    BY <1>1 DEF TypeOK, ThreadStates, Woken
  <2>2. t # None
    BY SocketsAssumption
  <2>3. pc' = [pc EXCEPT ![t] = Woken(pc[t])]
    BY <2>2, <1>1 DEF Timeout, Unblock, TypeOK
  <2>4. pc' \in [Thread -> ThreadStates]
    BY <2>1, <2>3, <1>1 DEF TypeOK
  <2> QED
    BY <2>4, <1>1 DEF TypeOK, Timeout, socketVars, sleepers, listenVars, bufferVars,
       netVars
<1>3. PcbKnown' /\ StateKnown'
  BY <1>1 DEF TypeOK, PcbKnown, StateKnown, Timeout, Unblock, Woken, socketVars,
     sleepers, listenVars, bufferVars, netVars
<1>4. NetHolds'
  BY <1>1 DEF TypeOK, NetHolds, Timeout, Unblock, Woken, socketVars, sleepers,
     listenVars, bufferVars, netVars
<1>5. SenderFlagged' /\ SendExclusive'
  BY <1>1 DEF TypeOK, SenderFlagged, SendExclusive, InSend, Timeout, Unblock,
     Woken, socketVars, sleepers, listenVars, bufferVars, netVars
<1>6. Registered'
  BY <1>1 DEF TypeOK, Registered, Blocked, Timeout, Unblock, Woken, socketVars,
     sleepers, listenVars, bufferVars, netVars
<1>7. NoLostReceiver'
  BY <1>1 DEF TypeOK, Registered, NoLostReceiver, Answered, hasData, Blocked,
     Timeout, Unblock, Woken, socketVars, sleepers, listenVars, bufferVars,
     netVars
<1> QED  BY <1>2, <1>3, <1>4, <1>5, <1>6, <1>7 DEF IInv

\* connect(), before comStackMutex.
LEMMA ConnectBeginInv ==
  ASSUME IInv, NEW t \in Thread, ConnectBegin(t)
  PROVE  IInv'
<1>1. /\ TypeOK /\ PcbKnown /\ NetHolds /\ SenderFlagged /\ SendExclusive
      /\ StateKnown /\ Registered /\ NoLostReceiver
  BY DEF IInv
<1>2. TypeOK'
  <2>1. PICK l \in {"discSpin", "connSpin"} : pc' = [pc EXCEPT ![t] = l]
    BY DEF ConnectBegin, Goto
  <2>2. pc' \in [Thread -> ThreadStates]
    BY <2>1, <1>1 DEF TypeOK, ThreadStates
  <2>3. state' \subseteq {"connected", "disconnected", "listening", "sending"}
    BY <1>1 DEF ConnectBegin, TypeOK
  <2>4. UNCHANGED <<blockedThread, sendBlockedThread, arg, listenVars, bufferVars, com,
                    netVars, cut, overtaken>>
    BY DEF ConnectBegin, sleepers
  <2> QED
    BY <2>2, <2>3, <2>4, <1>1 DEF TypeOK, listenVars, bufferVars, netVars
<1>3. PcbKnown' /\ StateKnown'
  <2>1. /\ UNCHANGED <<arg, peer, npc>>
        /\ state' = {"disconnected"} \/ (state' = state /\ arg)
    BY DEF ConnectBegin, netVars, listenVars
  <2> QED  BY <1>1, <2>1 DEF PcbKnown, StateKnown
<1>4. NetHolds'
  BY <1>1 DEF TypeOK, NetHolds, ConnectBegin, Goto, sleepers, listenVars,
     bufferVars, netVars
<1>5. SenderFlagged' /\ SendExclusive'
  BY <1>1 DEF TypeOK, SenderFlagged, SendExclusive, InSend, ConnectBegin, Goto,
     sleepers, listenVars, bufferVars, netVars
<1>6. Registered'
  BY <1>1 DEF TypeOK, Registered, Blocked, ConnectBegin, Goto, sleepers,
     listenVars, bufferVars, netVars
<1>7. NoLostReceiver'
  BY <1>1, SocketsAssumption DEF TypeOK, StateKnown, Registered, NoLostReceiver,
     Answered, hasData, Blocked, ConnectBegin, Goto, sleepers, listenVars,
     bufferVars, netVars
<1> QED  BY <1>2, <1>3, <1>4, <1>5, <1>6, <1>7 DEF IInv

\* listen(), before comStackMutex.
LEMMA ListenBeginInv ==
  ASSUME IInv, NEW t \in Thread, ListenBegin(t)
  PROVE  IInv'
<1>1. /\ TypeOK /\ PcbKnown /\ NetHolds /\ SenderFlagged /\ SendExclusive
      /\ StateKnown /\ Registered /\ NoLostReceiver
  BY DEF IInv
<1>2. TypeOK'
  <2>1. PICK l \in {"listenSpin", "idle", "listenBlocked"} : pc' = [pc EXCEPT ![t] = l]
    BY DEF ListenBegin, ListenWait, Goto
  <2>2. pc' \in [Thread -> ThreadStates]
    BY <2>1, <1>1 DEF TypeOK, ThreadStates
  <2>3. /\ blockedThread' \in {blockedThread, t} /\ com' \in {com, None}
        /\ state' = {"listening"} /\ hasListeningThread' = TRUE
        /\ UNCHANGED <<peer, sendBlockedThread, arg, bufferVars, npc, target, cut, overtaken>>
    BY DEF ListenBegin, ListenWait, sleepers
  <2>4. acceptedConnections' \in 0..Backlog
    BY <1>1, SocketsAssumption DEF TypeOK, ListenBegin, ListenWait
  <2> QED
    BY <2>2, <2>3, <2>4, <1>1 DEF TypeOK, bufferVars
<1>3. PcbKnown' /\ StateKnown'
  BY <1>1 DEF TypeOK, PcbKnown, StateKnown, ListenBegin, ListenWait, Goto,
     sleepers, bufferVars
<1>4. NetHolds'
  BY <1>1 DEF TypeOK, NetHolds, ListenBegin, ListenWait, Goto, sleepers,
     bufferVars
<1>5. SenderFlagged' /\ SendExclusive'
  BY <1>1, SocketsAssumption DEF TypeOK, PcbKnown, SenderFlagged, SendExclusive,
     InSend, ListenBegin, ListenWait, Goto, sleepers, bufferVars
<1>6. Registered'
  BY <1>1, SocketsAssumption DEF TypeOK, Registered, Blocked, ListenBegin,
     ListenWait, Goto, sleepers, bufferVars
<1>7. NoLostReceiver'
  BY <1>1, SocketsAssumption DEF TypeOK, StateKnown, Registered, NoLostReceiver,
     Answered, hasData, Blocked, ListenBegin, ListenWait, Goto, sleepers,
     bufferVars
<1> QED  BY <1>2, <1>3, <1>4, <1>5, <1>6, <1>7 DEF IInv

\* sendto() admits a sender only without the flag.
LEMMA SendBeginInv ==
  ASSUME IInv, NEW t \in Thread, SendBegin(t)
  PROVE  IInv'
<1>1. /\ TypeOK /\ PcbKnown /\ NetHolds /\ SenderFlagged /\ SendExclusive
      /\ StateKnown /\ Registered /\ NoLostReceiver
  BY DEF IInv
<1>2. TypeOK'
  BY <1>1 DEF TypeOK, ThreadStates, SendBegin, Goto, sleepers, listenVars,
     bufferVars, netVars
<1>3. PcbKnown' /\ StateKnown'
  BY <1>1 DEF TypeOK, PcbKnown, StateKnown, SendBegin, Goto, sleepers, listenVars,
     bufferVars, netVars
<1>4. NetHolds'
  BY <1>1 DEF TypeOK, NetHolds, SendBegin, Goto, sleepers, listenVars, bufferVars,
     netVars
<1>5. SenderFlagged' /\ SendExclusive'
  BY <1>1 DEF TypeOK, SenderFlagged, SendExclusive, InSend, SendBegin, Goto,
     sleepers, listenVars, bufferVars, netVars
<1>6. Registered'
  BY <1>1 DEF TypeOK, Registered, Blocked, SendBegin, Goto, sleepers, listenVars,
     bufferVars, netVars
<1>7. NoLostReceiver'
  BY <1>1 DEF TypeOK, Registered, NoLostReceiver, Answered, hasData, Blocked,
     SendBegin, Goto, sleepers, listenVars, bufferVars, netVars
<1> QED  BY <1>2, <1>3, <1>4, <1>5, <1>6, <1>7 DEF IInv

\* recvfrom() with data.
LEMMA RecvDataInv ==
  ASSUME IInv, NEW t \in Thread, NEW large \in BOOLEAN, RecvData(t, large)
  PROVE  IInv'
<1>1. /\ TypeOK /\ PcbKnown /\ NetHolds /\ SenderFlagged /\ SendExclusive
      /\ StateKnown /\ Registered /\ NoLostReceiver
  BY DEF IInv
<1>2. TypeOK'
  <2>1. ReceivedOK'
    BY <1>1, ReceivedType DEF RecvData
  <2> QED
    BY <2>1, <1>1 DEF TypeOK, ReceivedOK, RecvData, socketVars, sleepers,
       listenVars, netVars
<1>3. PcbKnown' /\ StateKnown'
  BY <1>1 DEF TypeOK, PcbKnown, StateKnown, RecvData, Received, NextSlot, Goto,
     socketVars, sleepers, listenVars, bufferVars, netVars
<1>4. NetHolds'
  BY <1>1 DEF TypeOK, NetHolds, RecvData, Received, NextSlot, Goto, socketVars,
     sleepers, listenVars, bufferVars, netVars
<1>5. SenderFlagged' /\ SendExclusive'
  BY <1>1 DEF TypeOK, SenderFlagged, SendExclusive, InSend, RecvData, Received,
     NextSlot, Goto, socketVars, sleepers, listenVars, bufferVars, netVars
<1>6. Registered'
  BY <1>1 DEF TypeOK, Registered, Blocked, RecvData, Received, NextSlot, Goto,
     socketVars, sleepers, listenVars, bufferVars, netVars
<1>7. NoLostReceiver'
  BY <1>1 DEF TypeOK, Registered, NoLostReceiver, Answered, hasData, Blocked,
     RecvData, Received, NextSlot, Goto, socketVars, sleepers, listenVars,
     bufferVars, netVars
<1> QED  BY <1>2, <1>3, <1>4, <1>5, <1>6, <1>7 DEF IInv

\* recvfrom() without data registers its thread and blocks.
LEMMA RecvWaitInv ==
  ASSUME IInv, NEW t \in Thread, RecvWait(t)
  PROVE  IInv'
<1>1. /\ TypeOK /\ PcbKnown /\ NetHolds /\ SenderFlagged /\ SendExclusive
      /\ StateKnown /\ Registered /\ NoLostReceiver
  BY DEF IInv
<1>2. TypeOK'
  BY <1>1 DEF TypeOK, ThreadStates, RecvWait, Goto, listenVars, bufferVars,
     netVars
<1>3. PcbKnown' /\ StateKnown'
  BY <1>1 DEF TypeOK, PcbKnown, StateKnown, RecvWait, Goto, listenVars,
     bufferVars, netVars
<1>4. NetHolds'
  BY <1>1 DEF TypeOK, NetHolds, RecvWait, Goto, listenVars, bufferVars, netVars
<1>5. SenderFlagged' /\ SendExclusive'
  BY <1>1 DEF TypeOK, SenderFlagged, SendExclusive, InSend, RecvWait, Goto,
     listenVars, bufferVars, netVars
<1>6. Registered'
  BY <1>1, SocketsAssumption DEF TypeOK, Registered, Blocked, RecvWait, Goto,
     listenVars, bufferVars, netVars
<1>7. NoLostReceiver'
  BY <1>1, SocketsAssumption DEF TypeOK, StateKnown, Registered, NoLostReceiver,
     Answered, hasData, Blocked, RecvWait, Goto, listenVars, bufferVars, netVars
<1> QED  BY <1>2, <1>3, <1>4, <1>5, <1>6, <1>7 DEF IInv

-----------------------------------------------------------------------------
\* The socket after bind() satisfies the invariant.
LEMMA InitInv ==
  Init => IInv
<1> SUFFICES ASSUME Init PROVE IInv
  OBVIOUS
<1>1. TypeOK
  <2>1. 0 \in Slot /\ 0 \in 0..Backlog /\ 0 \in 0..MaxMessages
    BY SocketsAssumption DEF Slot
  <2>2. pbuf_list \in [Slot -> Message \cup {0}] /\ taken \in Seq(Message)
    BY DEF Init
  <2>3. pc \in [Thread -> ThreadStates]
    BY DEF Init, ThreadStates
  <2> QED  BY <2>1, <2>2, <2>3 DEF Init, TypeOK
<1>2. PcbKnown /\ StateKnown /\ NetHolds
  BY DEF Init, PcbKnown, StateKnown, NetHolds
<1>3. SenderFlagged /\ SendExclusive
  BY SocketsAssumption DEF Init, SenderFlagged, SendExclusive, InSend
<1>4. Registered /\ NoLostReceiver
  BY DEF Init, Registered, NoLostReceiver, Answered, Blocked
<1> QED  BY <1>1, <1>2, <1>3, <1>4 DEF IInv

\* Every step of every thread and of the network keeps it.
LEMMA NextInv ==
  IInv /\ [Next]_vars => IInv'
<1> SUFFICES ASSUME IInv, [Next]_vars PROVE IInv'
  OBVIOUS
<1>1. CASE UNCHANGED vars
  BY <1>1 DEF vars, socketVars, sleepers, listenVars, bufferVars, netVars, IInv, TypeOK,
     PcbKnown, NetHolds, StateKnown, SenderFlagged, SendExclusive, InSend, Registered,
     NoLostReceiver, Answered, hasData, Blocked
<1>2. CASE NetStep
  BY <1>2, NetBeginInv, NetDoneInv, NetConnectedInv, NetStoreInv, NetTestInv, NetWakeInv,
     NetForgetInv, NetRefusedInv, NetMessageInv, NetUnblockInv, NetClosedInv, NetErrorInv,
     NetDisconnectInv, NetDisconnectedInv, NetSentInv, NetSentClearInv, NetAcceptInv,
     NetAcceptedInv, NetOtherInv
     DEF NetStep
<1>3. ASSUME NEW t \in Thread, ThreadStep(t)
      PROVE  IInv'
  BY <1>3, RecvEndInv, AckInv, DisconnectInv, ConnectInv, ConnectEndInv, ListenInv,
     ListenEndInv, SendInv, SendAgainInv
     DEF ThreadStep
<1>4. ASSUME NEW t \in Thread,
             \/ Timeout(t) \/ ConnectBegin(t) \/ ListenBegin(t) \/ SendBegin(t)
             \/ RecvWait(t) \/ \E large \in BOOLEAN : RecvData(t, large)
      PROVE  IInv'
  BY <1>4, TimeoutInv, ConnectBeginInv, ListenBeginInv, SendBeginInv, RecvDataInv,
     RecvWaitInv
<1> QED  BY <1>1, <1>2, <1>3, <1>4 DEF Next

\* The invariant holds in every reachable state.
THEOREM Invariance ==
  Spec => []IInv
BY InitInv, NextInv, PTL DEF Spec

\* The fields of the socket, the indices of the ring and the program counters
\* keep their types.
THEOREM TypeCorrect ==
  Spec => []TypeOK
<1>1. IInv => TypeOK
  BY DEF IInv
<1> QED  BY <1>1, Invariance, PTL

\* SOCKET_SENDING keeps a second thread out of send(), except for a sender whose
\* connection was reset and made again under it, and comStackMutex is left locked
\* only by a send() without a pcb.
THEOREM OneSender ==
  Spec => []SendExclusive
<1>1. IInv => SendExclusive
  BY DEF IInv
<1> QED  BY <1>1, Invariance, PTL

\* No thread that blocks in recvfrom() or listen() is forgotten when what it
\* waits for is there or the connection is gone, unless another thread or
\* connected() has overwritten its entry in blockedThread.
THEOREM ReceiversAreWoken ==
  Spec => []NoLostReceiver
<1>1. IInv => NoLostReceiver
  BY DEF IInv
<1> QED  BY <1>1, Invariance, PTL

-----------------------------------------------------------------------------
(* The ring of messages refines module MessageQueue.                       *)

\* The slots from head_id up to last_id, in the order of the ring.
InRing(p) ==
  IF head_id <= last_id THEN head_id <= p /\ p < last_id ELSE head_id <= p \/ p < last_id

\* The slots in use are those between the indices; the others are cleared.
RingSound == \A p \in Slot : pbuf_list[p] # 0 <=> InRing(p)

\* Slots are numbers, and a number below twice the size is reduced by
\* subtracting the size once.
LEMMA ModSize ==
  ASSUME NEW x \in Nat, x < 2 * SIZE
  PROVE  x % SIZE = IF x < SIZE THEN x ELSE x - SIZE
<1>1. SIZE \in Nat \ {0}
  BY SocketsAssumption
<1>2. CASE x < SIZE
  BY <1>1, <1>2
<1>3. CASE ~(x < SIZE)
  BY <1>1, <1>3
<1> QED  BY <1>2, <1>3

\* The slot of the i-th message.
SlotOf(i) == IF head_id + i - 1 < SIZE THEN head_id + i - 1 ELSE head_id + i - 1 - SIZE

\* The number of messages in the ring.
Used == IF head_id <= last_id THEN last_id - head_id ELSE last_id - head_id + SIZE

\* The sequence that the ring stands for.
LEMMA QueueFacts ==
  ASSUME TypeOK
  PROVE  /\ Used \in 0..(SIZE - 1)
         /\ queue = [i \in 1..Used |-> pbuf_list[SlotOf(i)]]
         /\ \A i \in 1..Used : SlotOf(i) \in Slot
         /\ queue \in Seq(Message \cup {0}) /\ Len(queue) = Used
<1>1. SIZE \in Nat \ {0} /\ head_id \in 0..(SIZE - 1) /\ last_id \in 0..(SIZE - 1)
  BY SocketsAssumption DEF TypeOK, Slot
<1>2. Used \in 0..(SIZE - 1)
  BY <1>1 DEF Used
<1>3. (last_id - head_id + SIZE) % SIZE = Used
  <2>1. last_id - head_id + SIZE \in Nat /\ last_id - head_id + SIZE < 2 * SIZE
    BY <1>1
  <2> QED  BY <2>1, <1>1, ModSize DEF Used
<1>4. ASSUME NEW i \in 1..Used
      PROVE  (head_id + i - 1) % SIZE = SlotOf(i) /\ SlotOf(i) \in Slot
  <2>1. head_id + i - 1 \in Nat /\ head_id + i - 1 < 2 * SIZE
    BY <1>1, <1>2
  <2> QED  BY <2>1, <1>1, ModSize DEF SlotOf, Slot
<1>5. queue = [i \in 1..Used |-> pbuf_list[SlotOf(i)]]
  <2>1. queue = [i \in 1..Used |-> pbuf_list[(head_id + i - 1) % SIZE]]
    BY <1>3 DEF queue
  <2> QED  BY <2>1, <1>4
<1>6. queue \in Seq(Message \cup {0}) /\ Len(queue) = Used
  <2>1. \A i \in 1..Used : pbuf_list[SlotOf(i)] \in Message \cup {0}
    BY <1>4 DEF TypeOK
  <2>2. Used \in Nat
    BY <1>1, <1>2
  <2> QED  BY <2>1, <2>2, <1>5
<1> QED  BY <1>2, <1>4, <1>5, <1>6

\* The same, to be used for the next state, too.
QueueIs == queue = [i \in 1..Used |-> pbuf_list[SlotOf(i)]]

\* QueueIs follows from the types.
LEMMA QueueValue ==
  TypeOK => QueueIs
BY QueueFacts DEF QueueIs

\* addMessage(): the message goes to the end of the queue, or is lost.
LEMMA ArriveStep ==
  ASSUME TypeOK, TypeOK', RingSound, NetMessage
  PROVE  RingSound' /\ Promise!Arrive
<1>1. SIZE \in Nat \ {0} /\ head_id \in 0..(SIZE - 1) /\ last_id \in 0..(SIZE - 1)
  BY SocketsAssumption DEF TypeOK, Slot
<1>2. PICK m : m = arrived + 1
  OBVIOUS
<1>3. arrived' = m /\ AddPbuf(m) /\ UNCHANGED <<head_id, taken>> /\ m \in Message
  BY <1>2, SocketsAssumption DEF NetMessage, TypeOK, Message
<1>4. m # 0
  BY <1>3 DEF Message
<1>5. CASE NextSlot(last_id) = head_id
  <2>1. UNCHANGED <<pbuf_list, head_id, last_id>>
    BY <1>3, <1>5 DEF AddPbuf
  <2>2. RingSound'
    BY <2>1 DEF RingSound, InRing
  <2>3. queue' = queue
    BY <2>1 DEF queue
  <2>4. Used = SIZE - 1
    BY <1>1, <1>5 DEF NextSlot, Used
  <2>5. ~(Len(queue) < SIZE - 1)
    BY <2>4, <1>1, QueueFacts
  <2> QED  BY <2>2, <2>3, <2>5, <1>2, <1>3 DEF Promise!Arrive
<1>6. CASE NextSlot(last_id) # head_id
  <2>1. /\ pbuf_list' = [pbuf_list EXCEPT ![last_id] = m]
        /\ last_id' = NextSlot(last_id) /\ head_id' = head_id
    BY <1>3, <1>6 DEF AddPbuf
  <2>2. pbuf_list \in [Slot -> Message \cup {0}] /\ last_id \in Slot
    BY DEF TypeOK
  <2>3. last_id' = IF last_id + 1 >= SIZE THEN 0 ELSE last_id + 1
    BY <2>1 DEF NextSlot
  <2>4. last_id' # head_id
    BY <2>1, <1>6
  <2>5. RingSound'
    <3> SUFFICES ASSUME NEW p \in Slot PROVE (pbuf_list'[p] # 0) <=> InRing(p)'
      BY DEF RingSound
    <3>1. (pbuf_list[p] # 0) <=> InRing(p)
      BY DEF RingSound
    <3>2. p \in 0..(SIZE - 1)
      BY DEF Slot
    <3>3. CASE p = last_id
      <4>1. pbuf_list'[p] = m
        BY <3>3, <2>1, <2>2
      <4>2. InRing(p)'
        BY <3>3, <2>1, <2>3, <2>4, <1>1 DEF InRing
      <4> QED  BY <4>1, <4>2, <1>4
    <3>4. CASE p # last_id
      <4>1. pbuf_list'[p] = pbuf_list[p]
        BY <3>4, <2>1, <2>2
      <4>2. InRing(p)' <=> InRing(p)
        BY <3>2, <3>4, <2>1, <2>3, <2>4, <1>1 DEF InRing
      <4> QED  BY <4>1, <4>2, <3>1
    <3> QED  BY <3>3, <3>4
  <2>6. Used < SIZE - 1 /\ Used' = Used + 1
    BY <2>1, <2>3, <2>4, <1>1 DEF Used
  <2>7. queue' = Append(queue, m)
    <3>1. /\ Used \in 0..(SIZE - 1) /\ Len(queue) = Used
          /\ queue = [i \in 1..Used |-> pbuf_list[SlotOf(i)]]
          /\ queue \in Seq(Message \cup {0})
          /\ \A i \in 1..Used : SlotOf(i) \in Slot
      BY QueueFacts
    <3>2. queue' = [i \in 1..(Used + 1) |-> pbuf_list'[SlotOf(i)]]
      <4>1. QueueIs'
        BY QueueValue, PTL
      <4> QED  BY <4>1, <2>1, <2>6 DEF QueueIs, SlotOf
    <3>3. \A i \in 1..Used : SlotOf(i) # last_id
      BY <3>1, <1>1 DEF SlotOf, Used
    <3>4. SlotOf(Used + 1) = last_id
      BY <1>1 DEF SlotOf, Used
    <3>5. \A i \in 1..Used : pbuf_list'[SlotOf(i)] = queue[i]
      BY <3>1, <3>3, <2>1, <2>2
    <3>6. pbuf_list'[SlotOf(Used + 1)] = m
      BY <3>4, <2>1, <2>2
    <3>7. Append(queue, m) = [i \in 1..(Used + 1) |-> IF i = Used + 1 THEN m ELSE queue[i]]
      BY <3>1
    <3>8. \A i \in 1..(Used + 1) : i \in 1..Used \/ i = Used + 1
      BY <3>1
    <3> QED  BY <3>2, <3>5, <3>6, <3>7, <3>8
  <2>8. Len(queue) < SIZE - 1
    BY <2>6, QueueFacts
  <2> QED  BY <2>5, <2>7, <2>8, <1>2, <1>3 DEF Promise!Arrive
<1> QED  BY <1>5, <1>6

\* recvfrom(): the first message of the queue is taken, or the queue stays.
LEMMA TakeStep ==
  ASSUME TypeOK, TypeOK', RingSound, NEW t \in Thread, NEW large \in BOOLEAN,
         Received(t, large)
  PROVE  RingSound' /\ (Promise!Take \/ UNCHANGED <<arrived, queue, taken>>)
<1>1. SIZE \in Nat \ {0} /\ head_id \in 0..(SIZE - 1) /\ last_id \in 0..(SIZE - 1)
  BY SocketsAssumption DEF TypeOK, Slot
<1>2. CASE UNCHANGED bufferVars
  BY <1>2 DEF bufferVars, RingSound, InRing, queue
<1>3. CASE hasData /\ ~UNCHANGED bufferVars
  <2>1. /\ taken' = Append(taken, pbuf_list[head_id])
        /\ pbuf_list' = [pbuf_list EXCEPT ![head_id] = 0]
        /\ head_id' = NextSlot(head_id)
        /\ UNCHANGED <<last_id, arrived>>
    BY <1>3 DEF Received
  <2>2. pbuf_list \in [Slot -> Message \cup {0}] /\ head_id \in Slot
    BY DEF TypeOK
  <2>3. head_id # last_id
    <3>1. InRing(head_id)
      BY <1>3, <2>2 DEF hasData, RingSound
    <3> QED  BY <3>1, <1>1 DEF InRing
  <2>4. head_id' = IF head_id + 1 >= SIZE THEN 0 ELSE head_id + 1
    BY <2>1 DEF NextSlot
  <2>5. RingSound'
    <3> SUFFICES ASSUME NEW p \in Slot PROVE (pbuf_list'[p] # 0) <=> InRing(p)'
      BY DEF RingSound
    <3>1. (pbuf_list[p] # 0) <=> InRing(p)
      BY DEF RingSound
    <3>2. p \in 0..(SIZE - 1)
      BY DEF Slot
    <3>3. CASE p = head_id
      <4>1. pbuf_list'[p] = 0
        BY <3>3, <2>1, <2>2
      <4>2. ~InRing(p)'
        BY <3>3, <2>1, <2>3, <2>4, <1>1 DEF InRing
      <4> QED  BY <4>1, <4>2
    <3>4. CASE p # head_id
      <4>1. pbuf_list'[p] = pbuf_list[p]
        BY <3>4, <2>1, <2>2
      <4>2. InRing(p)' <=> InRing(p)
        BY <3>2, <3>4, <2>1, <2>3, <2>4, <1>1 DEF InRing
      <4> QED  BY <4>1, <4>2, <3>1
    <3> QED  BY <3>3, <3>4
  <2>6. Used > 0 /\ Used' = Used - 1
    BY <2>1, <2>3, <2>4, <1>1 DEF Used
  <2>7. /\ Used \in 0..(SIZE - 1) /\ Len(queue) = Used
        /\ queue = [i \in 1..Used |-> pbuf_list[SlotOf(i)]]
        /\ queue \in Seq(Message \cup {0})
        /\ \A i \in 1..Used : SlotOf(i) \in Slot
    BY QueueFacts
  <2>8. queue # <<>> /\ Head(queue) = pbuf_list[head_id]
    <3>1. queue[1] = pbuf_list[SlotOf(1)]
      BY <2>6, <2>7
    <3>2. SlotOf(1) = head_id
      BY <1>1 DEF SlotOf
    <3> QED  BY <3>1, <3>2, <2>6, <2>7
  <2>9. queue' = Tail(queue)
    <3>1. queue' = [i \in 1..Used' |-> pbuf_list'[SlotOf(i)']]
      <4>1. QueueIs'
        BY QueueValue, PTL
      <4> QED  BY <4>1 DEF QueueIs
    <3>2. ASSUME NEW i \in 1..(Used - 1)
          PROVE  SlotOf(i)' = SlotOf(i + 1) /\ i + 1 \in 1..Used /\ SlotOf(i + 1) # head_id
      BY <2>1, <2>4, <2>7, <1>1 DEF SlotOf
    <3>3. ASSUME NEW i \in 1..(Used - 1)
          PROVE  pbuf_list'[SlotOf(i)'] = queue[i + 1]
      <4>1. SlotOf(i + 1) \in Slot /\ i + 1 \in 1..Used
        BY <3>2, <2>7
      <4>2. pbuf_list'[SlotOf(i + 1)] = pbuf_list[SlotOf(i + 1)]
        BY <4>1, <3>2, <2>1, <2>2
      <4> QED  BY <4>1, <4>2, <3>2, <2>7
    <3>4. Tail(queue) = [i \in 1..(Used - 1) |-> queue[i + 1]]
      BY <2>6, <2>7
    <3> QED  BY <3>1, <3>3, <3>4, <2>6
  <2> QED  BY <2>1, <2>5, <2>8, <2>9 DEF Promise!Take
<1> QED  BY <1>2, <1>3 DEF Received

\* All other steps leave the ring alone.
LEMMA RingStep ==
  ASSUME IInv, IInv', RingSound, [Next]_vars
  PROVE  RingSound' /\ [Promise!Next]_<<arrived, queue, taken>>
<1>1. TypeOK /\ TypeOK'
  BY DEF IInv
<1>2. CASE UNCHANGED bufferVars
  BY <1>2 DEF bufferVars, RingSound, InRing, queue
<1>3. CASE NetMessage
  BY <1>1, <1>3, ArriveStep DEF Promise!Next
<1>4. ASSUME NEW t \in Thread, NEW large \in BOOLEAN, Received(t, large)
      PROVE  RingSound' /\ [Promise!Next]_<<arrived, queue, taken>>
  BY <1>1, <1>4, TakeStep DEF Promise!Next
<1>5. \/ UNCHANGED bufferVars
      \/ NetMessage
      \/ \E t \in Thread, large \in BOOLEAN : Received(t, large)
  <2>1. CASE NetStep
    BY <2>1 DEF NetStep, NetBegin, NetDone, NetConnected, NetStore, NetTest, NetWake,
       NetForget, NetRefused, NetUnblock, NetClosed, NetError, NetDisconnect,
       NetDisconnected, NetSent, NetSentClear, NetAccept, NetAccepted, NetOther
  <2>2. ASSUME NEW t \in Thread, ThreadStep(t)
        PROVE  UNCHANGED bufferVars \/ \E large \in BOOLEAN : Received(t, large)
    BY <2>2 DEF ThreadStep, RecvEnd, Ack, Disconnect, Connect, ConnectBlock,
       ConnectEnd, Listen, ListenWait, ListenEnd, Send, SendAgain
  <2>3. ASSUME NEW t \in Thread,
               \/ Timeout(t) \/ ConnectBegin(t) \/ ListenBegin(t) \/ SendBegin(t)
               \/ RecvWait(t) \/ \E large \in BOOLEAN : RecvData(t, large)
        PROVE  UNCHANGED bufferVars \/ \E large \in BOOLEAN : Received(t, large)
    BY <2>3 DEF Timeout, ConnectBegin, ListenBegin, ListenWait, SendBegin, RecvData, RecvWait
  <2>4. CASE UNCHANGED vars
    BY <2>4 DEF vars
  <2> QED  BY <2>1, <2>2, <2>3, <2>4 DEF Next
<1> QED  BY <1>2, <1>3, <1>4, <1>5

\* The empty ring is the empty queue.
LEMMA RingInit ==
  Init => RingSound /\ Promise!Init
<1> SUFFICES ASSUME Init PROVE RingSound /\ Promise!Init
  OBVIOUS
<1>1. RingSound
  BY DEF Init, RingSound, InRing, Slot
<1>2. TypeOK
  BY InitInv DEF IInv
<1>3. Used = 0
  BY DEF Init, Used
<1>4. queue = <<>>
  BY <1>2, <1>3, QueueFacts
<1> QED  BY <1>1, <1>4 DEF Init, Promise!Init

\* The ring of pbufs implements module MessageQueue: messages are received once,
\* in order, and lost only when the ring is full.
THEOREM RingIsQueue ==
  Spec => ImplementsQueue
<1>1. Spec => []RingSound
  BY RingInit, RingStep, Invariance, PTL DEF Spec
<1> QED
  BY <1>1, RingInit, RingStep, Invariance, PTL DEF Spec, ImplementsQueue, Promise!Spec
=============================================================================
