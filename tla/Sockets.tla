------------------------------ MODULE Sockets ------------------------------
(***************************************************************************)
(* A TCP socket (Socket, FixedSizePBufList, TCPTransportProtocol) that is  *)
(* bound, connects to a peer or listens, and is used by several threads of *)
(* a task.                                                                 *)
(*                                                                         *)
(* A system call runs with interrupts disabled: it is one step up to the   *)
(* points where the thread blocks or spins for comStackMutex.  The network *)
(* thread takes packets from the device and calls the lwIP stack, which    *)
(* calls back, all with interrupts enabled: a callback is one step for     *)
(* each access to shared data outside m_lock.                              *)
(*                                                                         *)
(* Of lwIP the state of the pcb is modelled, as far as tcp_connect() and   *)
(* tcp_listen() test it, and the callbacks that can come in that state:    *)
(*   idle     CLOSED; bound, or its first SYN was answered with RST        *)
(*   syn      SYN_SENT                                                     *)
(*   open     ESTABLISHED                                                  *)
(*   reset    CLOSED by a RST, freed; it keeps the error callback          *)
(*   resyn    SYN_SENT again, after that                                   *)
(*   dead     freed after too many retransmissions, with its old state     *)
(*   closed   closed by the peer, CLOSED sooner or later                   *)
(*   dropped  closed by disconnect(): no callback finds the socket         *)
(*   listen   LISTEN                                                       *)
(* The socket keeps a pcb that lwIP has freed.  What happens once lwIP has *)
(* given the memory to another connection is not modelled.                 *)
(***************************************************************************)
EXTENDS Integers, Sequences, FiniteSets

CONSTANTS
  Thread, None,
  Net,            \* the network thread
  SIZE,           \* entries of the message buffer (20)
  MaxMessages,    \* bound on the messages of the peer
  Backlog,        \* entries of acceptedConnections
  Long            \* the messages that a small receive buffer cannot hold

Slot == 0..(SIZE - 1)
Message == 1..MaxMessages

ASSUME SocketsAssumption ==
  /\ SIZE \in Nat \ {0} /\ MaxMessages \in Nat /\ Backlog \in Nat
  /\ Long \subseteq Message
  /\ Net \notin Thread /\ None \notin Thread /\ Net # None

VARIABLES
  state,              \* the flags of the socket's state
  blockedThread, sendBlockedThread,
  arg,                \* the socket has a pcb (arg # 0)
  hasListeningThread,
  acceptedConnections, \* number of new sockets that wait for listen()
  pbuf_list, head_id, last_id,
  com,                \* holder of comStackMutex
  pc,                 \* what each thread does
  npc,                \* how far the network thread is
  target,             \* threadToUnblock
  peer,               \* the pcb, see above
  arrived,            \* number of messages passed to addMessage()
  taken,              \* messages received so far
  cut,                \* blocked threads whose registration was overwritten
  overtaken           \* a new connection has dropped SOCKET_SENDING of a sender

sleepers == <<blockedThread, sendBlockedThread>>
listenVars == <<hasListeningThread, acceptedConnections>>
socketVars == <<state, sleepers, arg, listenVars>>
bufferVars == <<pbuf_list, head_id, last_id, arrived, taken>>
netVars == <<npc, target, peer>>
vars == <<socketVars, bufferVars, com, pc, netVars, cut, overtaken>>

ThreadStates ==
  {"idle", "recvBlocked", "recvWoken", "ack",
   "discSpin", "connSpin", "connBlocked", "connWoken",
   "listenSpin", "listenBlocked", "listenWoken", "sendSpin", "sendBlocked", "sendWoken"}

TypeOK ==
  /\ state \subseteq {"connected", "disconnected", "listening", "sending"}
  /\ blockedThread \in Thread \cup {None} /\ sendBlockedThread \in Thread \cup {None}
  /\ arg \in BOOLEAN /\ hasListeningThread \in BOOLEAN
  /\ acceptedConnections \in 0..Backlog
  /\ pbuf_list \in [Slot -> Message \cup {0}]
  /\ head_id \in Slot /\ last_id \in Slot
  /\ com \in Thread \cup {Net, None}
  /\ pc \in [Thread -> ThreadStates]
  /\ npc \in {"wait", "input", "store", "connected", "wake", "forget", "unblock",
             "closed", "disconnected", "sent", "accept", "done"}
  /\ target \in Thread \cup {None}
  /\ peer \in {"idle", "syn", "open", "reset", "resyn", "dead", "closed", "dropped",
              "listen"}
  /\ arrived \in 0..MaxMessages /\ taken \in Seq(Message)
  /\ cut \subseteq Thread /\ overtaken \in BOOLEAN

\* The socket after bind().
Init ==
  /\ state = {"disconnected"}
  /\ blockedThread = None /\ sendBlockedThread = None
  /\ arg = TRUE /\ hasListeningThread = FALSE /\ acceptedConnections = 0
  /\ pbuf_list = [i \in Slot |-> 0] /\ head_id = 0 /\ last_id = 0
  /\ com = None
  /\ pc = [t \in Thread |-> "idle"]
  /\ npc = "wait" /\ target = None /\ peer = "idle"
  /\ arrived = 0 /\ taken = <<>>
  /\ cut = {} /\ overtaken = FALSE

hasData == pbuf_list[head_id] # 0

\* Mutation of NextSlot: no wrap-around.
NextSlotOnwards(i) == i + 1

NextSlot(i) == IF i + 1 >= SIZE THEN 0 ELSE i + 1
Goto(t, label) == pc' = [pc EXCEPT ![t] = label]

\* comStackMutex->acquire() succeeds for a free mutex and for its holder.
StackFree(t) == com \in {None, t}

-----------------------------------------------------------------------------
\* The thread s becomes ready if it is blocked.
Woken(s) ==
  CASE s = "recvBlocked" -> "recvWoken"
    [] s = "connBlocked" -> "connWoken"
    [] s = "listenBlocked" -> "listenWoken"
    [] s = "sendBlocked" -> "sendWoken"
    [] OTHER -> s

\* Thread::unblock() of t, which may be None.
Unblock(t) ==
  IF t = None THEN UNCHANGED pc ELSE pc' = [pc EXCEPT ![t] = Woken(@)]

Blocked(t) == pc[t] \in {"recvBlocked", "connBlocked", "listenBlocked"}

\* blockedThread is overwritten with x by thread t (or by the network thread,
\* with t = None): a blocked thread that was registered is cut off.
Register(x, t) ==
  /\ blockedThread' = x
  /\ cut' = {u \in cut \ {t} : Blocked(u)}
              \cup {u \in Thread \ {t} : blockedThread = u /\ Blocked(u)}

-----------------------------------------------------------------------------
\* The end of recvfrom(): getFirst(), and received() for what it returned.  A
\* packet that is longer than the buffer is an error and stays where it is.
Received(t, large) ==
  IF hasData /\ (pbuf_list[head_id] \in Long => large)
  THEN /\ taken' = Append(taken, pbuf_list[head_id])
       /\ pbuf_list' = [pbuf_list EXCEPT ![head_id] = 0]
       /\ head_id' = NextSlot(head_id)
       /\ Goto(t, "ack")
       /\ UNCHANGED <<last_id, arrived>>
  ELSE Goto(t, "idle") /\ UNCHANGED bufferVars

\* recvfrom() with data in the buffer.
RecvData(t, large) ==
  /\ pc[t] = "idle" /\ hasData
  /\ Received(t, large)
  /\ UNCHANGED <<socketVars, com, netVars, cut, overtaken>>

\* Mutation of RecvWait: the thread does not look for data before it blocks.
RecvWaitUnchecked(t) ==
  /\ pc[t] = "idle"
  /\ "disconnected" \notin state /\ blockedThread = None
  /\ blockedThread' = t
  /\ Goto(t, "recvBlocked")
  /\ UNCHANGED <<state, sendBlockedThread, arg, listenVars, bufferVars, com, netVars,
                 cut, overtaken>>

\* recvfrom() with MSG_WAIT and without data.  The other cases without data
\* (no MSG_WAIT, disconnected, another thread waits) return an error.
RecvWait(t) ==
  /\ pc[t] = "idle" /\ ~hasData
  /\ "disconnected" \notin state /\ blockedThread = None
  /\ blockedThread' = t
  /\ Goto(t, "recvBlocked")
  /\ UNCHANGED <<state, sendBlockedThread, arg, listenVars, bufferVars, com, netVars,
                 cut, overtaken>>

\* recvfrom() after block(): woken by data, by a disconnect or by the timeout.
\* The length of the buffer, an argument of the call, matters only now.
RecvEnd(t, large) ==
  /\ pc[t] = "recvWoken"
  /\ Register(None, t)
  /\ Received(t, large)
  /\ UNCHANGED <<state, sendBlockedThread, arg, listenVars, com, netVars, overtaken>>

\* TCPTransportProtocol::received(), under comStackMutex.
Ack(t) ==
  /\ pc[t] = "ack" /\ StackFree(t)
  /\ com' = None
  /\ Goto(t, "idle")
  /\ UNCHANGED <<socketVars, bufferVars, netVars, cut, overtaken>>

\* The timeout of block(), found by the kernel service thread.
Timeout(t) ==
  /\ Blocked(t) \/ pc[t] = "sendBlocked"
  /\ Unblock(t)
  /\ UNCHANGED <<socketVars, bufferVars, com, netVars, cut, overtaken>>

-----------------------------------------------------------------------------
\* connect(), up to the first comStackMutex->acquire(): of disconnect() for a
\* connected socket with a pcb, otherwise of TCPTransportProtocol::connect().
ConnectBegin(t) ==
  /\ pc[t] = "idle" /\ "listening" \notin state
  /\ IF "connected" \in state /\ arg
     THEN Goto(t, "discSpin") /\ UNCHANGED state
     ELSE Goto(t, "connSpin") /\ state' = {"disconnected"}
  /\ UNCHANGED <<sleepers, arg, listenVars, bufferVars, com, netVars, cut, overtaken>>

\* The thread that connects blocks, whatever became of its request.
ConnectBlock(t) ==
  /\ StackFree(t) /\ com' = None
  /\ Register(t, t)
  /\ Goto(t, "connBlocked")
  /\ UNCHANGED <<sendBlockedThread, listenVars, bufferVars, npc, target, overtaken>>

\* disconnect() takes the pcb away, so that nothing is sent afterwards.
Disconnect(t) ==
  /\ pc[t] = "discSpin"
  /\ ConnectBlock(t)
  /\ state' = {"disconnected"} /\ arg' = FALSE /\ peer' = "dropped"

\* The pcb after tcp_connect(), which accepts every pcb that is CLOSED, also
\* one that was reset and freed, and gives up without a route or memory.
Dialled ==
  CASE arg /\ peer = "idle" -> {"idle", "syn"}
    [] arg /\ peer = "reset" -> {"reset", "resyn"}
    [] OTHER -> {peer}

Connect(t) ==
  /\ pc[t] = "connSpin"
  /\ ConnectBlock(t)
  /\ peer' \in Dialled
  /\ UNCHANGED <<state, arg>>

ConnectEnd(t) ==
  /\ pc[t] = "connWoken"
  /\ Register(None, t)
  /\ Goto(t, "idle")
  /\ UNCHANGED <<state, sendBlockedThread, arg, listenVars, bufferVars, com,
                 netVars, overtaken>>

\* listen() after TCPTransportProtocol::listen(): a connection that waits is
\* returned, which makes it a resource of the task; otherwise the thread blocks.
ListenWait(t) ==
  /\ IF blockedThread # None
     THEN Goto(t, "idle") /\ UNCHANGED <<blockedThread, acceptedConnections>>
     ELSE IF acceptedConnections = 0
     THEN /\ blockedThread' = t
          /\ Goto(t, "listenBlocked")
          /\ UNCHANGED acceptedConnections
     ELSE /\ acceptedConnections' = acceptedConnections - 1
          /\ Goto(t, "idle")
          /\ UNCHANGED blockedThread
  /\ UNCHANGED <<sendBlockedThread, bufferVars, npc, target, cut, overtaken>>

\* listen(): for the first call the pcb has to be set to listen.  Without a pcb
\* TCPTransportProtocol::listen() releases comStackMutex, whoever holds it.
ListenBegin(t) ==
  /\ pc[t] = "idle"
  /\ state' = {"listening"}
  /\ hasListeningThread' = TRUE
  /\ UNCHANGED <<peer, arg>>
  /\ IF ~hasListeningThread /\ arg
     THEN /\ Goto(t, "listenSpin")
          /\ UNCHANGED <<sleepers, acceptedConnections, bufferVars, com, npc, target,
                         cut, overtaken>>
     ELSE /\ com' = IF hasListeningThread THEN com ELSE None
          /\ ListenWait(t)

\* tcp_listen() of the pcb that the socket had when listen() was called: refused
\* unless it is CLOSED, or without memory.  A new pcb takes its place; after
\* disconnect() its callbacks do not find the socket.
Listen(t) ==
  /\ pc[t] = "listenSpin" /\ StackFree(t)
  /\ com' = None
  /\ \/ /\ peer \in {"idle", "reset", "closed", "dropped"}
        /\ peer' = IF peer = "dropped" THEN "dropped" ELSE "listen"
        /\ arg' = TRUE
        /\ ListenWait(t)
     \/ /\ Goto(t, "idle")
        /\ UNCHANGED <<sleepers, arg, acceptedConnections, bufferVars, netVars, cut,
                       overtaken>>
  /\ UNCHANGED <<state, hasListeningThread>>

\* "got unblocked! maybe new connection?"
ListenEnd(t) ==
  /\ pc[t] = "listenWoken"
  /\ acceptedConnections' = IF acceptedConnections > 0 THEN acceptedConnections - 1 ELSE 0
  /\ Register(None, t)
  /\ Goto(t, "idle")
  /\ UNCHANGED <<state, sendBlockedThread, arg, hasListeningThread, bufferVars, com,
                 netVars, overtaken>>

\* Mutation of SendBegin: a second sender is not rejected.
SendBeginTogether(t) ==
  /\ pc[t] = "idle"
  /\ "connected" \in state
  /\ state' = state \cup {"sending"}
  /\ Goto(t, "sendSpin")
  /\ UNCHANGED <<sleepers, arg, listenVars, bufferVars, com, netVars, cut, overtaken>>

\* sendto(): "already another thread in send! not allowed!"
SendBegin(t) ==
  /\ pc[t] = "idle"
  /\ "connected" \in state /\ "sending" \notin state
  /\ state' = state \cup {"sending"}
  /\ Goto(t, "sendSpin")
  /\ UNCHANGED <<sleepers, arg, listenVars, bufferVars, com, netVars, cut, overtaken>>

InSend(t) == pc[t] \in {"sendSpin", "sendBlocked", "sendWoken"}

\* sendto() ends.  With the last thread that leaves it is forgotten that a new
\* connection came in between.
SendEnd(t) ==
  /\ state' = state \ {"sending"}
  /\ Goto(t, "idle")
  /\ overtaken' = (overtaken /\ \E u \in Thread \ {t} : InSend(u))

\* TCPTransportProtocol::send() with comStackMutex: without a pcb it returns
\* and keeps the mutex; with no room in lwIP it waits; otherwise it is done.
Send(t) ==
  /\ pc[t] = "sendSpin" /\ StackFree(t)
  /\ \/ /\ com' = IF arg THEN None ELSE t
        /\ SendEnd(t)
        /\ UNCHANGED sendBlockedThread
     \/ /\ arg
        /\ com' = None
        /\ sendBlockedThread' = t
        /\ Goto(t, "sendBlocked")
        /\ UNCHANGED <<state, overtaken>>
  /\ UNCHANGED <<blockedThread, arg, listenVars, bufferVars, netVars, cut>>

\* "try again!"
SendAgain(t) ==
  /\ pc[t] = "sendWoken" /\ StackFree(t)
  /\ com' = None
  /\ SendEnd(t)
  /\ UNCHANGED <<sleepers, arg, listenVars, bufferVars, netVars, cut>>

-----------------------------------------------------------------------------
\* The network thread takes comStackMutex and passes a packet to lwIP.  The
\* timers of lwIP, which the kernel service thread runs under the same mutex,
\* lead to the same callbacks.
NetBegin ==
  /\ npc = "wait" /\ com = None
  /\ com' = Net
  /\ npc' = "input"
  /\ UNCHANGED <<socketVars, bufferVars, pc, target, peer, cut, overtaken>>

NetDone ==
  /\ npc = "done"
  /\ com' = None
  /\ npc' = "wait"
  /\ UNCHANGED <<socketVars, bufferVars, pc, target, peer, cut, overtaken>>

\* The SYN is answered: tcp_connected() -> Socket::connected() looks at the
\* state ...
NetConnected ==
  /\ npc = "input" /\ peer \in {"syn", "resyn"}
  /\ peer' = "open"
  /\ npc' = IF "listening" \in state THEN "done" ELSE "store"
  /\ UNCHANGED <<socketVars, bufferVars, com, pc, target, cut, overtaken>>

\* ... stores the new one, whatever flags it has by now ...
NetStore ==
  /\ npc = "store"
  /\ state' = {"connected"}
  /\ overtaken' = \E t \in Thread : InSend(t)
  /\ npc' = "connected"
  /\ UNCHANGED <<sleepers, arg, listenVars, bufferVars, com, pc, target, peer, cut>>

\* ... tests blockedThread ...
NetTest ==
  /\ npc = "connected"
  /\ target' = blockedThread
  /\ npc' = IF blockedThread # None THEN "wake" ELSE "done"
  /\ UNCHANGED <<socketVars, bufferVars, com, pc, peer, cut, overtaken>>

\* ... unblocks it, which may run at once.  The pointer is the one that was
\* tested or is read again, as the compiler has it; a thread that has timed out
\* meanwhile has reset it, and unblock() of no thread is taken to do nothing.
NetWake ==
  /\ npc = "wake"
  /\ Unblock(target) \/ Unblock(blockedThread)
  /\ target' = None
  /\ npc' = "forget"
  /\ UNCHANGED <<socketVars, bufferVars, com, peer, cut, overtaken>>

\* ... and forgets it.  The pcb stored after that is the one the socket has.
NetForget ==
  /\ npc = "forget"
  /\ Register(None, None)
  /\ npc' = "done"
  /\ UNCHANGED <<state, sendBlockedThread, arg, listenVars, bufferVars, com, pc,
                 target, peer, overtaken>>

\* The SYN is answered with RST or not at all.  The error callback is registered
\* in tcp_connected(): before the first connection nobody is told.
NetRefused(rst) ==
  /\ npc = "input" /\ peer \in {"syn", "resyn"}
  /\ peer' = IF ~rst THEN "dead" ELSE IF peer = "syn" THEN "idle" ELSE "reset"
  /\ npc' = IF peer = "syn" THEN "done" ELSE "closed"
  /\ UNCHANGED <<socketVars, bufferVars, com, pc, target, cut, overtaken>>

\* Mutation of AddPbuf: no check for a full list.
AddPbufOverwrite(m) ==
  /\ pbuf_list' = [pbuf_list EXCEPT ![last_id] = m]
  /\ last_id' = NextSlot(last_id)

\* addPbuf(): one slot stays free; a message without room is lost.
AddPbuf(m) ==
  IF NextSlot(last_id) = head_id
  THEN UNCHANGED <<pbuf_list, last_id>>
  ELSE /\ pbuf_list' = [pbuf_list EXCEPT ![last_id] = m]
       /\ last_id' = NextSlot(last_id)

\* Mutation of NetMessage: the waiting thread is not looked for.
NetMessageUnheard ==
  /\ npc = "input" /\ peer = "open" /\ arrived < MaxMessages
  /\ arrived' = arrived + 1
  /\ AddPbuf(arrived + 1)
  /\ npc' = "done"
  /\ UNCHANGED <<socketVars, head_id, taken, com, pc, target, peer, cut, overtaken>>

\* tcp_recv_wrapper() -> addMessage(): the critical section ...
NetMessage ==
  /\ npc = "input" /\ peer = "open" /\ arrived < MaxMessages
  /\ arrived' = arrived + 1
  /\ AddPbuf(arrived + 1)
  /\ target' = blockedThread
  /\ blockedThread' = None
  /\ npc' = "unblock"
  /\ UNCHANGED <<state, sendBlockedThread, arg, listenVars, head_id, taken, com, pc,
                 peer, cut, overtaken>>

\* ... and unblock() after it.
NetUnblock ==
  /\ npc = "unblock"
  /\ Unblock(target)
  /\ target' = None
  /\ npc' = "done"
  /\ UNCHANGED <<socketVars, bufferVars, com, peer, cut, overtaken>>

\* The peer closes: tcp_recv_wrapper() without a pbuf takes the pcb away.
NetClosed ==
  /\ npc = "input" /\ peer = "open"
  /\ peer' = "closed"
  /\ arg' = FALSE
  /\ npc' = "closed"
  /\ UNCHANGED <<state, sleepers, listenVars, bufferVars, com, pc, target, cut,
                 overtaken>>

\* The connection is reset or given up: tcp_err_wrapper() leaves the pcb with the
\* socket.  It is called for a pcb that waits for its last ACK, too.
NetError(rst) ==
  /\ npc = "input" /\ peer \in {"open", "closed"}
  /\ peer' = IF peer = "closed" THEN "closed" ELSE IF rst THEN "reset" ELSE "dead"
  /\ npc' = "closed"
  /\ UNCHANGED <<socketVars, bufferVars, com, pc, target, cut, overtaken>>

\* disconnected(): the new state ...
NetDisconnect ==
  /\ npc = "closed"
  /\ state' = {"disconnected"}
  /\ npc' = "disconnected"
  /\ UNCHANGED <<sleepers, arg, listenVars, bufferVars, com, pc, target, peer,
                 cut, overtaken>>

\* ... and the critical section.
NetDisconnected ==
  /\ npc = "disconnected"
  /\ Unblock(blockedThread)
  /\ blockedThread' = None
  /\ npc' = "done"
  /\ UNCHANGED <<state, sendBlockedThread, arg, listenVars, bufferVars, com,
                 target, peer, cut, overtaken>>

\* tcp_sent_wrapper(): the thread is read ...
NetSent ==
  /\ npc = "input" /\ peer \in {"open", "closed"}
  /\ target' = sendBlockedThread
  /\ npc' = IF sendBlockedThread # None THEN "sent" ELSE "done"
  /\ UNCHANGED <<socketVars, bufferVars, com, pc, peer, cut, overtaken>>

\* ... and cleared; the thread that was read is unblocked after that.
NetSentClear ==
  /\ npc = "sent"
  /\ sendBlockedThread' = None
  /\ npc' = "unblock"
  /\ UNCHANGED <<state, blockedThread, arg, listenVars, bufferVars, com, pc, target,
                 peer, cut, overtaken>>

\* tcp_accept_wrapper() -> accepted(): the tests ...
NetAccept ==
  /\ npc = "input" /\ peer = "listen" /\ arg
  /\ npc' = IF "listening" \in state THEN "accept" ELSE "done"
  /\ UNCHANGED <<socketVars, bufferVars, com, pc, target, peer, cut, overtaken>>

\* ... and the critical section; a connection for which there is no room is
\* deleted.
NetAccepted ==
  /\ npc = "accept"
  /\ IF acceptedConnections < Backlog
     THEN /\ acceptedConnections' = acceptedConnections + 1
          /\ target' = blockedThread
          /\ npc' = "unblock"
     ELSE npc' = "done" /\ UNCHANGED <<acceptedConnections, target>>
  /\ UNCHANGED <<state, sleepers, arg, hasListeningThread, bufferVars, com, pc,
                 peer, cut, overtaken>>

\* A packet that is none of the socket's business.
NetOther ==
  /\ npc = "input"
  /\ npc' = "done"
  /\ UNCHANGED <<socketVars, bufferVars, com, pc, target, peer, cut, overtaken>>

NetStep ==
  \/ NetBegin \/ NetDone \/ NetOther
  \/ NetConnected \/ NetStore \/ NetTest \/ NetWake \/ NetForget
  \/ NetMessage \/ NetUnblock \/ NetSent \/ NetSentClear \/ NetAccept \/ NetAccepted
  \/ NetClosed \/ NetDisconnect \/ NetDisconnected
  \/ \E rst \in BOOLEAN : NetRefused(rst) \/ NetError(rst)

ThreadStep(t) ==
  \/ Ack(t) \/ Disconnect(t) \/ Connect(t) \/ ConnectEnd(t)
  \/ Listen(t) \/ ListenEnd(t) \/ Send(t) \/ SendAgain(t)
  \/ \E large \in BOOLEAN : RecvEnd(t, large)

Next ==
  \/ NetStep
  \/ \E t \in Thread :
       \/ ThreadStep(t) \/ Timeout(t) \/ ConnectBegin(t) \/ ListenBegin(t) \/ SendBegin(t)
       \/ RecvWait(t) \/ \E large \in BOOLEAN : RecvData(t, large)

Spec == Init /\ [][Next]_vars

\* The network thread makes progress, which has nothing to wait for while it
\* works on a packet.  Blocking without a timeout is allowed, so timeouts are not
\* relied on.
Fairness == WF_vars(NetStep)

FairSpec == Spec /\ Fairness

-----------------------------------------------------------------------------
\* The messages in the buffer, from head_id to last_id.
queue ==
  LET n == (last_id - head_id + SIZE) % SIZE
  IN  [i \in 1..n |-> pbuf_list[(head_id + i - 1) % SIZE]]
Promise == INSTANCE MessageQueue WITH Capacity <- SIZE - 1

\* Whatever threads receive at the same time and however often the buffer is
\* full, the ring of pbufs with its two indices and cleared slots is a queue:
\* no message is received twice, out of order, or lost while fewer than SIZE - 1
\* messages wait.
ImplementsQueue == Promise!Spec

\* "hold up to 20 messages till overflow": a message is lost only if SIZE
\* messages wait already.
HoldsSizeMessages ==
  [][arrived' # arrived /\ queue' = queue => Len(queue) = SIZE]_vars

\* What a blocked thread waits for is there.
Answered(t) ==
  \/ pc[t] = "recvBlocked" /\ hasData
  \/ pc[t] = "listenBlocked" /\ acceptedConnections > 0

\* A thread that blocks in recvfrom() or listen() is not forgotten: if a message
\* or a new connection waits, or the connection is gone, the network thread is
\* on its way to unblock it.  The exception are threads whose entry in
\* blockedThread was overwritten, by connected(), by connect(), or by another
\* thread that returns from block().
NoLostReceiver ==
  \A t \in Thread \ cut :
    Answered(t) \/ (pc[t] = "recvBlocked" /\ "disconnected" \in state) =>
      \/ npc = "unblock" /\ target = t
      \/ npc \in {"closed", "disconnected"} /\ blockedThread = t

\* "already another thread in send! not allowed!": SOCKET_SENDING keeps a second
\* thread out of TCPTransportProtocol::send() although callbacks overwrite the
\* whole state, unless a sender of a connection that was reset is still there
\* when connected() announces a new one.  comStackMutex is left locked by a
\* thread only if the socket has no pcb any more, because the peer has closed
\* the connection under it or another thread has, with connect().
SendExclusive ==
  /\ overtaken \/ \A t, u \in Thread : InSend(t) /\ InSend(u) => t = u
  /\ com \in Thread => ~arg /\ peer \in {"closed", "dropped"}

\* "we got unblocked! now there might be some data!": a thread that waits in
\* recvfrom() while a message is in the buffer, or in listen() while there is a
\* new connection, gets on without its timeout and whatever the other threads do,
\* unless it was cut off.
ReceiverServed == \A t \in Thread : Answered(t) ~> (~Blocked(t) \/ t \in cut)
=============================================================================
