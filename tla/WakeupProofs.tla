---------------------------- MODULE WakeupProofs ----------------------------
(***************************************************************************)
(* For any threads, priorities and times: no thread of the dispatcher is   *)
(* lost, each one can be woken from the list it is in, none is released    *)
(* early, and the CPU is not given to a thread while a more urgent one is  *)
(* ready and no timer interrupt is pending.                                *)
(*                                                                         *)
(* The invariant IInv of DispatcherProofs says where threads are.  On top  *)
(* of it, KeptInv relates places to sleep times and to the end of threads  *)
(* (no hypothesis on interrupts), CallInv says what the windows inside     *)
(* Thread::block and Thread::sigwait leave, if no interrupt is taken       *)
(* there, and SignalInv what a pending wait for a signal looks like, for   *)
(* threads of tasks that are never stopped.                                *)
(***************************************************************************)
EXTENDS DispatcherProofs

Placements == Listed(lists) \cup Running

\* A sleeping thread has a wake-up time; a ready or running one has none left.
SleepTimes ==
  \A t \in Threads :
    /\ t \in Members(lists, "sleep") => sleepTime[t] > 0
    /\ t \in Members(lists, "ready") \cup Running => sleepTime[t] = 0

\* A thread that has ended is a user thread, and is nowhere.
EndedGone ==
  \A t \in Threads : "Term" \in status[t] => t \in User /\ t \notin Placements

KeptInv == SleepTimes /\ EndedGone /\ NoThreadLost

\* The stretches of Thread::block and Thread::sigwait before the list update.
Window == {"block", "sigwait"}

\* Without nested interrupts only the running thread is in a window.
WindowRuns ==
  \A t \in Threads : inCall[t] \in Window => phase = "run" /\ cur = t

\* What the thread has recorded when it is in a window.
WindowFlags ==
  \A t \in Threads :
    /\ inCall[t] = "block" => "Blocked" \in status[t]
    /\ inCall[t] = "sigwait" => "Signal" \in status[t] /\ signal[t] # 0

\* A thread in the wait list waits for a signal and for nothing else.
Waits(t) == status[t] \cap Holds = {} /\ "Signal" \in status[t] /\ signal[t] # 0
WaitersWait == \A t \in Threads : t \in Members(lists, "wait") => Waits(t)

\* A thread in the blocked list is flagged as blocked or stopped.
BlockedHeld ==
  \A t \in Threads : t \in Members(lists, "blocked") => status[t] \cap Holds # {}

CallInv == WindowRuns /\ WindowFlags /\ WaitersWait /\ BlockedHeld

\* A thread that has a signal to wait for is in the wait list or about to enter
\* it, or signal() has taken the flag from it, unless it belongs to a task that
\* may be stopped; workers never wait for a signal.
SignalInv ==
  /\ \A t \in Threads \ MayStop : signal[t] # 0 =>
       \/ t \in Members(lists, "wait")
       \/ "Signal" \notin status[t]
       \/ inCall[t] = "sigwait"
  /\ \A w \in Workers : signal[w] = 0

\* What every step is shown to keep, under the conditions each part needs.
Atomic == ~NestedInterrupts
Kept ==
  /\ KeptInv'
  /\ Atomic /\ CallInv => CallInv'
  /\ Atomic /\ CallInv /\ SignalInv => SignalInv'

-----------------------------------------------------------------------------
(***************************************************************************)
(* Moving a thread, in terms of the members of the lists.                  *)
(***************************************************************************)

\* The step moves thread t to list n and no other thread.
MovesTo(t, n) ==
  \A m \in ListNames :
    Members(lists', m) = IF m = n THEN Members(lists, m) \cup {t}
                         ELSE Members(lists, m) \ {t}

\* What the list lemmas call moved, in these terms.
LEMMA MovedMoves ==
  ASSUME Disjoint(lists), NEW t, NEW n \in ListNames, Moved(Threads, lists, lists', t, n)
  PROVE  MovesTo(t, n)
BY DEF Moved, MovesTo

\* SingleCPUDispatcher::unblock puts the thread where its sleep time says.
LEMMA UnblockMoves ==
  ASSUME IInv, NEW t \in Threads, Unblock(t, sleepTime)
  PROVE  MovesTo(t, IF sleepTime[t] > 0 THEN "sleep" ELSE "ready")
<1>1. Placed /\ ListType /\ PriorityType /\ Disjoint(lists)
  BY InvFacts
<1>2. "sleep" \in ListNames /\ "ready" \in ListNames
  BY DEF ListNames
<1>3. CASE sleepTime[t] > 0
  <2>1. lists' = AddTail(lists, "sleep", t)
    BY <1>3 DEF Unblock
  <2>2. Moved(Threads, lists, lists', t, "sleep")
    BY <1>1, <1>2, <2>1, AddTailMoves DEF ListType
  <2> QED  BY <1>1, <1>2, <1>3, <2>2, MovedMoves
<1>4. CASE ~(sleepTime[t] > 0)
  <2>1. lists' = EnterReady(lists, t, EnterPriority(t))
    BY <1>4 DEF Unblock
  <2>2. Moved(Threads, lists, lists', t, "ready")
    BY <1>1, <2>1, EnterReadyMoves DEF ListType
  <2> QED  BY <1>1, <1>2, <1>4, <2>2, MovedMoves
<1> QED  BY <1>3, <1>4

\* LinkedList::addTail.
LEMMA AddTailMovesTo ==
  ASSUME IInv, NEW t \in Threads, NEW n \in ListNames, lists' = AddTail(lists, n, t)
  PROVE  MovesTo(t, n)
<1>1. Disjoint(lists) /\ ListType
  BY InvFacts
<1>2. Moved(Threads, lists, lists', t, n)
  BY <1>1, AddTailMoves DEF ListType
<1> QED  BY <1>1, <1>2, MovedMoves

\* RateMonotonicThreadScheduler::enter of a thread that is not in its queue.
LEMMA EnterMovesTo ==
  ASSUME IInv, NEW t \in Threads, t \notin Members(lists, "ready"),
         NEW e, e \in {EnterPriority(t), ComputedPriority(t)}, NEW next,
         Enter(t, e, next)
  PROVE  phase' = next /\ MovesTo(t, "ready")
<1>1. Placed /\ PriorityType /\ Disjoint(lists)
  BY InvFacts
<1>2. phase' = next /\ Moved(Threads, lists, lists', t, "ready")
  BY <1>1, EnterPlaces
<1> QED  BY <1>1, <1>2, MovedMoves DEF ListNames

\* SingleCPUDispatcher::sleep of a thread that is not in the sleep list.
LEMMA SleepMovesTo ==
  ASSUME IInv, NEW t \in Threads, t \notin Members(lists, "sleep"), NEW wake, NEW next,
         Sleep(t, wake, next)
  PROVE  phase' = next /\ MovesTo(t, "sleep")
<1>1. Placed /\ Disjoint(lists)
  BY InvFacts
<1>2. phase' = next /\ Moved(Threads, lists, lists', t, "sleep")
  BY <1>1, SleepPlaces
<1> QED  BY <1>1, <1>2, MovedMoves DEF ListNames

\* What a step leaves of a thread that it does not move: its times, and its
\* flags but for "Blocked" of a thread that stays stopped.
Frame(x) ==
  /\ sleepTime'[x] = sleepTime[x] /\ instance'[x] = instance[x]
  /\ "Term" \in status'[x] <=> "Term" \in status[x]
  /\ "Ready" \in status'[x] <=> "Ready" \in status[x]
  /\ "Signal" \in status'[x] <=> "Signal" \in status[x]
  /\ "Stopped" \in status'[x] <=> "Stopped" \in status[x]
  /\ "Blocked" \in status'[x] => "Blocked" \in status[x]
  /\ "Blocked" \in status[x] => "Blocked" \in status'[x] \/ "Stopped" \in status[x]

\* A wait for a signal ends at most for the running thread.
SignalFrame ==
  \A x \in Threads : signal'[x] = signal[x] \/ (signal'[x] = 0 /\ x = cur)

\* The members of the lists and the running thread after a move.
LEMMA MovePlaces ==
  ASSUME IInv, NEW t \in Threads, NEW n \in ListNames, MovesTo(t, n),
         (cur' = None /\ cur = t) \/ (cur' = cur /\ cur # t)
  PROVE  /\ \A m \in ListNames : \A x : x # t =>
              (x \in Members(lists', m) <=> x \in Members(lists, m))
         /\ \A m \in ListNames : t \in Members(lists', m) <=> m = n
         /\ \A x : x # t => (x \in Running' <=> x \in Running)
         /\ t \notin Running'
         /\ Placements' = Placements \cup {t}
<1>1. \A m \in ListNames : \A x : x # t =>
        (x \in Members(lists', m) <=> x \in Members(lists, m))
  BY DEF MovesTo
<1>2. \A m \in ListNames : t \in Members(lists', m) <=> m = n
  BY DEF MovesTo
<1>3. t # None
  BY ThreadsAssumption
<1>4. (\A x : x # t => (x \in Running' <=> x \in Running)) /\ t \notin Running'
  BY <1>3 DEF Running
<1>5. Placements' = Placements \cup {t}
  <2>1. \A x : x # t => (x \in Listed(lists') <=> x \in Listed(lists))
    BY <1>1 DEF Listed
  <2>2. t \in Listed(lists')
    BY <1>2 DEF Listed
  <2> QED  BY <1>4, <2>1, <2>2 DEF Placements
<1> QED  BY <1>1, <1>2, <1>4, <1>5

\* A step that moves one thread keeps the invariants.
LEMMA MoveKept ==
  ASSUME IInv, KeptInv, NEW t \in Threads, NEW n \in ListNames, MovesTo(t, n),
         (cur' = None /\ cur = t) \/ (cur' = cur /\ cur # t),
         \A x \in Threads : x # t => Frame(x),
         SignalFrame,
         "Term" \notin status'[t],
         n = "sleep" => sleepTime'[t] > 0,
         n = "ready" => sleepTime'[t] = 0,
         Atomic /\ CallInv =>
           /\ \A x \in Threads : /\ inCall'[x] \notin Window
                                 /\ x # t => inCall[x] \notin Window
           /\ n = "wait" => Waits(t)'
           /\ n = "blocked" => status'[t] \cap Holds # {},
         Atomic /\ CallInv /\ SignalInv =>
           (t \notin MayStop /\ signal'[t] # 0 => n = "wait" \/ "Signal" \notin status'[t])
  PROVE  Kept
<1>1. /\ \A m \in ListNames : \A x : x # t =>
           (x \in Members(lists', m) <=> x \in Members(lists, m))
      /\ \A m \in ListNames : t \in Members(lists', m) <=> m = n
      /\ \A x : x # t => (x \in Running' <=> x \in Running)
      /\ t \notin Running'
      /\ Placements' = Placements \cup {t}
  BY MovePlaces
<1>2. "ready" \in ListNames /\ "sleep" \in ListNames /\ "blocked" \in ListNames
      /\ "wait" \in ListNames
  BY DEF ListNames
<1>3. SleepTimes'
  <2> SUFFICES ASSUME NEW x \in Threads
               PROVE  /\ x \in Members(lists', "sleep") => sleepTime'[x] > 0
                      /\ x \in Members(lists', "ready") \cup Running' => sleepTime'[x] = 0
    BY DEF SleepTimes
  <2>1. CASE x = t
    BY <1>1, <1>2, <2>1
  <2>2. CASE x # t
    <3>1. sleepTime'[x] = sleepTime[x]
      BY <2>2 DEF Frame
    <3> QED  BY <1>1, <1>2, <2>2, <3>1 DEF KeptInv, SleepTimes
  <2> QED  BY <2>1, <2>2
<1>4. EndedGone'
  <2> SUFFICES ASSUME NEW x \in Threads, "Term" \in status'[x]
               PROVE  x \in User /\ x \notin Placements'
    BY DEF EndedGone
  <2> QED  BY <1>1 DEF KeptInv, EndedGone, Frame
<1>5. NoThreadLost'
  <2> SUFFICES ASSUME NEW x \in Threads, "Term" \notin status'[x],
                      x \in Workers \/ instance'[x] = 2 \/ "Ready" \in status'[x]
               PROVE  x \in Placements'
    BY DEF NoThreadLost, Placements
  <2> QED  BY <1>1 DEF KeptInv, NoThreadLost, Frame, Placements
<1>6. ASSUME Atomic, CallInv  PROVE CallInv'
  <2>1. WindowRuns' /\ WindowFlags'
    BY <1>6 DEF WindowRuns, WindowFlags, Window
  <2>2. \A x \in Threads : x # t /\ x \in Members(lists, "wait") => Waits(x)'
    <3> SUFFICES ASSUME NEW x \in Threads, x # t, x \in Members(lists, "wait")
                 PROVE  status'[x] \cap Holds = {} /\ "Signal" \in status'[x] /\ signal'[x] # 0
      BY DEF Waits
    <3>1. status[x] \cap Holds = {} /\ "Signal" \in status[x] /\ signal[x] # 0
      BY <1>6 DEF CallInv, WaitersWait, Waits
    <3>2. x # cur
      <4>1. cur # None => cur \notin Members(lists, "wait")
        BY <1>2, InvFacts
      <4> QED  BY <4>1, ThreadsAssumption
    <3>3. signal'[x] = signal[x]
      BY <3>2 DEF SignalFrame
    <3> QED  BY <3>1, <3>3 DEF Frame, Holds
  <2>3. WaitersWait'
    BY <1>1, <1>2, <1>6, <2>2 DEF WaitersWait
  <2>4. \A x \in Threads : x # t /\ x \in Members(lists, "blocked") => status'[x] \cap Holds # {}
    <3> SUFFICES ASSUME NEW x \in Threads, x # t, x \in Members(lists, "blocked")
                 PROVE  status'[x] \cap Holds # {}
      OBVIOUS
    <3>1. status[x] \cap Holds # {}
      BY <1>6 DEF CallInv, BlockedHeld
    <3> QED  BY <3>1 DEF Frame, Holds
  <2>5. BlockedHeld'
    BY <1>1, <1>2, <1>6, <2>4 DEF BlockedHeld
  <2> QED  BY <2>1, <2>3, <2>5 DEF CallInv
<1>7. ASSUME Atomic, CallInv, SignalInv  PROVE SignalInv'
  <2>1. \A w \in Workers : signal'[w] = 0
    BY <1>7 DEF SignalInv, SignalFrame, Threads
  <2>2. ASSUME NEW x \in Threads \ MayStop, signal'[x] # 0
        PROVE  \/ x \in Members(lists', "wait")
               \/ "Signal" \notin status'[x]
               \/ inCall'[x] = "sigwait"
    <3>1. CASE x = t
      BY <1>1, <1>2, <1>7, <2>2, <3>1
    <3>2. CASE x # t
      <4>1. signal[x] # 0
        BY <2>2 DEF SignalFrame
      <4>2. inCall[x] # "sigwait"
        BY <1>7, <3>2 DEF Window
      <4> QED  BY <1>1, <1>2, <1>7, <3>2, <4>1, <4>2 DEF SignalInv, Frame
    <3> QED  BY <3>1, <3>2
  <2> QED  BY <2>1, <2>2 DEF SignalInv
<1> QED  BY <1>3, <1>4, <1>5, <1>6, <1>7 DEF Kept, KeptInv

\* Where nobody is in a window: while no thread runs, and while the running
\* thread is in none.
LEMMA Calm ==
  ASSUME IInv, CallInv, phase # "run" \/ cur = None \/ inCall[cur] \notin Window
  PROVE  \A x \in Threads : inCall[x] \notin Window
BY ThreadsAssumption DEF CallInv, WindowRuns

\* A step that moves no thread keeps what is said of places, sleep times and
\* ended threads.
LEMMA StayKeepsPlaces ==
  ASSUME IInv, KeptInv, UNCHANGED <<lists, cur>>,
         \A x \in Threads :
           /\ sleepTime'[x] = sleepTime[x] /\ instance'[x] = instance[x]
           /\ "Term" \in status'[x] <=> "Term" \in status[x]
           /\ "Ready" \in status'[x] => "Ready" \in status[x] \/ x \in Placements
  PROVE  KeptInv'
<1>1. Placements' = Placements /\ Running' = Running
  BY DEF Placements, Running
<1>2. SleepTimes'
  BY <1>1 DEF KeptInv, SleepTimes
<1>3. EndedGone'
  BY <1>1 DEF KeptInv, EndedGone
<1>4. NoThreadLost'
  BY <1>1 DEF KeptInv, NoThreadLost, Placements
<1> QED  BY <1>2, <1>3, <1>4 DEF KeptInv

\* A step outside the windows that moves no thread and keeps its flags.
LEMMA FrameKept ==
  ASSUME IInv, KeptInv, UNCHANGED <<lists, cur>>, SignalFrame,
         \A x \in Threads : Frame(x),
         Atomic /\ CallInv =>
           \A x \in Threads : inCall[x] \notin Window /\ inCall'[x] \notin Window
  PROVE  Kept
<1>1. KeptInv'
  BY StayKeepsPlaces DEF Frame
<1>2. \A m \in ListNames : Members(lists', m) = Members(lists, m)
  OBVIOUS
<1>3. "blocked" \in ListNames /\ "wait" \in ListNames
  BY DEF ListNames
<1>4. ASSUME Atomic, CallInv  PROVE CallInv'
  <2>1. WindowRuns' /\ WindowFlags'
    BY <1>4 DEF WindowRuns, WindowFlags, Window
  <2>2. WaitersWait'
    <3> SUFFICES ASSUME NEW x \in Threads, x \in Members(lists, "wait")
                 PROVE  status'[x] \cap Holds = {} /\ "Signal" \in status'[x] /\ signal'[x] # 0
      BY <1>2, <1>3 DEF Waits, WaitersWait
    <3>1. status[x] \cap Holds = {} /\ "Signal" \in status[x] /\ signal[x] # 0
      BY <1>4 DEF CallInv, WaitersWait, Waits
    <3>2. x # cur
      <4>1. cur # None => cur \notin Members(lists, "wait")
        BY <1>3, InvFacts
      <4> QED  BY <4>1, ThreadsAssumption
    <3>3. signal'[x] = signal[x]
      BY <3>2 DEF SignalFrame
    <3> QED  BY <3>1, <3>3 DEF Frame, Holds
  <2>3. BlockedHeld'
    <3> SUFFICES ASSUME NEW x \in Threads, x \in Members(lists, "blocked")
                 PROVE  status'[x] \cap Holds # {}
      BY <1>2, <1>3 DEF BlockedHeld
    <3>1. status[x] \cap Holds # {}
      BY <1>4 DEF CallInv, BlockedHeld
    <3> QED  BY <3>1 DEF Frame, Holds
  <2> QED  BY <2>1, <2>2, <2>3 DEF CallInv
<1>5. ASSUME Atomic, CallInv, SignalInv  PROVE SignalInv'
  <2>1. \A w \in Workers : signal'[w] = 0
    BY <1>5 DEF SignalInv, SignalFrame, Threads
  <2>2. ASSUME NEW x \in Threads \ MayStop, signal'[x] # 0
        PROVE  x \in Members(lists', "wait") \/ "Signal" \notin status'[x]
    <3>1. signal[x] # 0 /\ inCall[x] # "sigwait"
      BY <1>5, <2>2 DEF SignalFrame, Window
    <3> QED  BY <1>2, <1>3, <1>5, <3>1 DEF SignalInv, Frame
  <2> QED  BY <2>1, <2>2 DEF SignalInv
<1> QED  BY <1>1, <1>4, <1>5 DEF Kept

-----------------------------------------------------------------------------
(***************************************************************************)
(* dispatch(), the delivery of signals, the clock and its interrupt.       *)
(***************************************************************************)

\* A step that changes none of what the invariants are about.
LEMMA IdleKept ==
  ASSUME IInv, KeptInv,
         UNCHANGED <<lists, cur, status, sleepTime, instance, signal, inCall>>,
         phase' = phase \/ (Atomic /\ CallInv => \A x \in Threads : inCall[x] \notin Window)
  PROVE  Kept
<1>1. SignalFrame /\ \A x \in Threads : Frame(x)
  BY DEF SignalFrame, Frame
<1>2. CASE Atomic /\ CallInv => \A x \in Threads : inCall[x] \notin Window
  BY <1>1, <1>2, FrameKept
<1>3. CASE phase' = phase
  <2>1. KeptInv'
    BY <1>1, StayKeepsPlaces DEF Frame
  <2>2. CallInv => CallInv'
    BY <1>3 DEF CallInv, WindowRuns, WindowFlags, WaitersWait, Waits, BlockedHeld
  <2>3. SignalInv => SignalInv'
    BY DEF SignalInv
  <2> QED  BY <2>1, <2>2, <2>3 DEF Kept
<1> QED  BY <1>2, <1>3

\* dispatch() keeps the invariants.
LEMMA DispatchKept ==
  ASSUME IInv, KeptInv, DispatchStep  PROVE Kept
<1> USE ThreadsAssumption
<1>1. /\ status \in [Threads -> SUBSET Flags] /\ sleepTime \in [Threads -> Nat]
      /\ signal \in [Threads -> Signals \cup {0}] /\ instance \in [Threads -> {1, 2}]
      /\ "ready" \in ListNames /\ "sleep" \in ListNames /\ "wait" \in ListNames
      /\ \A n \in ListNames : Members(lists, n) \subseteq Threads
  BY InvFacts DEF IInv, TypeOK, ListNames
<1>2. phase # "run"
  BY DEF DispatchStep, DispatchBegin, ScanWake, ScanSkip, RunNext, RunIdle, ScanEnds
<1>3. Atomic /\ CallInv => \A x \in Threads : inCall[x] \notin Window
  BY <1>2, Calm
<1>4. CASE DispatchBegin
  <2>1. cur' = None /\ UNCHANGED <<status, sleepTime, instance, signal, inCall>>
    BY <1>4 DEF DispatchBegin
  <2>2. CASE cur = None
    <3>1. UNCHANGED <<lists, cur>>
      BY <1>4, <2>1, <2>2 DEF DispatchBegin
    <3> QED  BY <1>3, <2>1, <3>1, IdleKept
  <2>3. CASE cur # None
    <3>1. cur \in Threads /\ \A n \in ListNames : cur \notin Members(lists, n)
      BY <2>3, InvFacts
    <3>2. MovesTo(cur, "ready")
      <4>1. Enter(cur, EnterPriority(cur), "scan")
        BY <1>4, <2>3 DEF DispatchBegin
      <4> QED  BY <1>1, <3>1, <4>1, EnterMovesTo
    <3>3. cur \in Running /\ cur \in Placements
      BY <2>3 DEF Running, Placements
    <3>4. sleepTime[cur] = 0 /\ "Term" \notin status[cur]
      BY <3>1, <3>3 DEF KeptInv, SleepTimes, EndedGone
    <3>5. SignalFrame /\ \A x \in Threads : Frame(x)
      BY <2>1 DEF SignalFrame, Frame
    <3>6. ASSUME Atomic, CallInv, SignalInv
          PROVE  cur \notin MayStop /\ signal'[cur] # 0 => "Signal" \notin status'[cur]
      BY <1>1, <1>3, <2>1, <3>1, <3>6 DEF SignalInv, Window
    <3> QED  BY <1>1, <1>3, <2>1, <3>1, <3>2, <3>4, <3>5, <3>6, MoveKept
  <2> QED  BY <2>2, <2>3
<1>5. CASE ScanWake
  <2> DEFINE t == Sleeper
  <2>1. /\ status' = [status EXCEPT ![t] = @ \cup {"Ready"}]
        /\ sleepTime' = [sleepTime EXCEPT ![t] = 0]
        /\ Enter(t, EnterPriority(t), "scan")
        /\ UNCHANGED <<cur, instance, signal, inCall>>
        /\ scan <= Len(lists["sleep"])
    BY <1>5 DEF ScanWake
  <2>2. t \in Members(lists, "sleep")
    <3>1. lists["sleep"] \in Seq(Threads) /\ scan \in Nat /\ scan >= 1
      BY DEF IInv, TypeOK, ListNames
    <3>2. scan \in DOMAIN lists["sleep"]
      BY <2>1, <3>1
    <3> QED  BY <3>2 DEF Sleeper, Members, ToSet
  <2> HIDE DEF t
  <2>3. t \in Threads /\ t \in Placements /\ t # cur
        /\ t \notin Members(lists, "ready") /\ t \notin Members(lists, "wait")
    <3>1. t \in Threads /\ t \in Listed(lists)
      BY <1>1, <2>2 DEF Listed
    <3>2. t \notin Members(lists, "ready") /\ t \notin Members(lists, "wait")
      BY <1>1, <2>2, InvFacts DEF Disjoint
    <3>3. t # cur
      BY <1>1, <2>2, <3>1, InvFacts
    <3> QED  BY <3>1, <3>2, <3>3 DEF Placements
  <2>4. MovesTo(t, "ready")
    BY <1>1, <2>1, <2>3, EnterMovesTo
  <2>5. SignalFrame /\ \A x \in Threads : x # t => Frame(x)
    BY <1>1, <2>1, <2>3 DEF SignalFrame, Frame
  <2>6. sleepTime'[t] = 0 /\ "Term" \notin status'[t]
    BY <1>1, <2>1, <2>3 DEF KeptInv, EndedGone
  <2>7. ASSUME Atomic, CallInv, SignalInv
        PROVE  t \notin MayStop /\ signal'[t] # 0 => "Signal" \notin status'[t]
    <3>1. inCall[t] # "sigwait"
      BY <1>3, <2>3, <2>7 DEF Window
    <3> QED  BY <1>1, <2>1, <2>3, <2>7, <3>1 DEF SignalInv
  <2> QED  BY <1>1, <1>3, <2>1, <2>3, <2>4, <2>5, <2>6, <2>7, MoveKept
<1>6. CASE ScanSkip \/ RunIdle
  <2>1. UNCHANGED <<lists, cur, status, sleepTime, instance, signal, inCall>>
    BY <1>6 DEF ScanSkip, RunIdle, ScanEnds, attrVars, IInv, RestInv, ScanIdle
  <2> QED  BY <1>3, <2>1, IdleKept
<1>7. CASE RunNext
  <2> DEFINE t == Head(lists["ready"])
  <2>1. /\ lists["ready"] # <<>> /\ cur = None /\ cur' = t /\ lists' = TakeHead(lists)
        /\ instance' = [instance EXCEPT ![t] = 2]
        /\ status' = [status EXCEPT ![t] = @ \ {"New"}]
        /\ signal' \in {signal, [signal EXCEPT ![t] = 0]}
        /\ UNCHANGED <<inCall, sleepTime>>
    BY <1>7 DEF RunNext, ScanEnds, IInv, RestInv, ScanIdle
  <2>2. lists \in [ListNames -> Seq(Threads)] /\ Disjoint(lists)
    BY InvFacts DEF ListType
  <2>3. /\ t \in Threads
        /\ \A n \in ListNames : Members(TakeHead(lists), n) = Members(lists, n) \ {t}
    BY <2>1, <2>2, TakeHeadLists, TakeHeadSound
  <2>4. t \in Members(lists, "ready")
    <3>1. lists["ready"] \in Seq(Threads)
      BY <1>1, <2>2
    <3>2. t = lists["ready"][1] /\ 1 \in DOMAIN lists["ready"]
      BY <2>1, <3>1
    <3> QED  BY <3>2 DEF Members, ToSet
  <2> HIDE DEF t
  <2>5. /\ \A n \in ListNames : Members(lists', n) = Members(lists, n) \ {t}
        /\ Running' = {t} /\ Running = {}
        /\ \A n \in ListNames : n # "ready" => t \notin Members(lists, n)
    BY <1>1, <2>1, <2>2, <2>3, <2>4 DEF Running, Disjoint
  <2>6. Placements' = Placements /\ t \in Placements
    <3>1. Listed(lists) = Listed(lists') \cup {t}
      BY <1>1, <2>4, <2>5 DEF Listed
    <3> QED  BY <2>5, <3>1 DEF Placements
  <2>7. \A x \in Threads :
          /\ sleepTime'[x] = sleepTime[x]
          /\ "Term" \in status'[x] <=> "Term" \in status[x]
          /\ "Ready" \in status'[x] <=> "Ready" \in status[x]
          /\ "Signal" \in status'[x] <=> "Signal" \in status[x]
          /\ status'[x] \cap Holds = status[x] \cap Holds
          /\ x # t => instance'[x] = instance[x] /\ signal'[x] = signal[x]
    BY <1>1, <2>1, <2>3 DEF Holds
  <2>8. KeptInv'
    <3>1. SleepTimes'
      BY <1>1, <2>4, <2>5, <2>7 DEF KeptInv, SleepTimes
    <3>2. EndedGone'
      BY <2>6, <2>7 DEF KeptInv, EndedGone
    <3>3. NoThreadLost'
      BY <2>6, <2>7 DEF KeptInv, NoThreadLost, Placements
    <3> QED  BY <3>1, <3>2, <3>3 DEF KeptInv
  <2>9. ASSUME Atomic, CallInv  PROVE CallInv'
    <3>1. WindowRuns' /\ WindowFlags'
      BY <1>3, <2>1, <2>9 DEF WindowRuns, WindowFlags, Window
    <3>2. "blocked" \in ListNames
      BY DEF ListNames
    <3>3. WaitersWait'
      <4> SUFFICES ASSUME NEW x \in Threads, x \in Members(lists', "wait")
                   PROVE  status'[x] \cap Holds = {} /\ "Signal" \in status'[x] /\ signal'[x] # 0
        BY DEF Waits, WaitersWait
      <4>1. x \in Members(lists, "wait") /\ x # t
        BY <1>1, <2>5
      <4> QED  BY <2>7, <2>9, <4>1 DEF CallInv, WaitersWait, Waits
    <3>4. BlockedHeld'
      BY <2>5, <2>7, <2>9, <3>2 DEF CallInv, BlockedHeld
    <3> QED  BY <3>1, <3>3, <3>4 DEF CallInv
  <2>10. ASSUME Atomic, CallInv, SignalInv  PROVE SignalInv'
    <3>1. \A w \in Workers : signal'[w] = 0
      BY <1>1, <2>1, <2>3, <2>10 DEF SignalInv, Threads
    <3>2. \A x \in Threads : signal'[x] # 0 => signal[x] # 0
      BY <1>1, <2>1, <2>3
    <3>3. \A x \in Threads : x \in Members(lists, "wait") => x \in Members(lists', "wait")
      BY <1>1, <2>5
    <3> QED  BY <2>1, <2>7, <2>10, <3>1, <3>2, <3>3 DEF SignalInv
  <2> QED  BY <2>8, <2>9, <2>10 DEF Kept
<1> QED  BY <1>4, <1>5, <1>6, <1>7 DEF DispatchStep

\* Facts about one thread u that is in a list, and the types in use.
LEMMA ListedFacts ==
  ASSUME IInv, KeptInv, NEW n \in ListNames, NEW u \in Members(lists, n)
  PROVE  /\ u \in Threads /\ u \in Placements /\ u # cur /\ "Term" \notin status[u]
         /\ \A m \in ListNames : m # n => u \notin Members(lists, m)
<1>1. u \in Threads /\ u \in Listed(lists)
  BY InvFacts DEF Listed
<1>2. u # cur
  BY <1>1, InvFacts, ThreadsAssumption
<1>3. \A m \in ListNames : m # n => u \notin Members(lists, m)
  BY InvFacts DEF Disjoint
<1>4. u \in Placements
  BY <1>1 DEF Placements
<1> QED  BY <1>1, <1>2, <1>3, <1>4 DEF KeptInv, EndedGone

\* signal(), the clock and the timer interrupt keep the invariants.
LEMMA DeliverKept ==
  ASSUME IInv, KeptInv, Deliver \/ ClockTick \/ TimerIRQ  PROVE Kept
<1> USE ThreadsAssumption
<1>1. /\ status \in [Threads -> SUBSET Flags] /\ sleepTime \in [Threads -> Nat]
      /\ "ready" \in ListNames /\ "sleep" \in ListNames /\ "wait" \in ListNames
      /\ "blocked" \in ListNames
  BY DEF IInv, TypeOK, ListNames
<1>2. CASE SignalEnd
  <2>1. UNCHANGED <<lists, cur, status, sleepTime, instance, signal, inCall>>
        /\ phase # "run"
    BY <1>2 DEF SignalEnd, attrVars
  <2> QED  BY <2>1, Calm, IdleKept
<1>3. CASE ClockTick
  <2>1. UNCHANGED <<lists, cur, status, sleepTime, instance, signal, inCall, phase>>
    BY <1>3 DEF ClockTick, attrVars
  <2> QED  BY <2>1, IdleKept
<1>4. CASE TimerIRQ
  <2>1. UNCHANGED <<lists, cur, status, sleepTime, instance, signal, inCall>>
        /\ (Atomic => cur = None \/ inCall[cur] \notin Window)
    BY <1>4 DEF TimerIRQ, attrVars, InterruptsEnabled, Atomic, Window
  <2> QED  BY <2>1, Calm, IdleKept
<1>5. CASE SignalVisit
  <2> DEFINE t == Head(todo)
  <2>1. /\ phase = "signal" /\ todo # <<>>
        /\ UNCHANGED <<cur, sleepTime, instance, signal, inCall>>
        /\ IF signal[t] # raised
           THEN UNCHANGED <<lists, status, effectivePriority, phase>>
           ELSE /\ status' = [status EXCEPT ![t] = @ \ {"Signal"}]
                /\ IF "Stopped" \in status[t]
                   THEN UNCHANGED <<lists, effectivePriority, phase>>
                   ELSE IF "Blocked" \in status[t] \/ sleepTime[t] > 0
                   THEN /\ lists' = AddTail(lists, IF "Blocked" \in status[t]
                                                   THEN "blocked" ELSE "sleep", t)
                        /\ UNCHANGED <<effectivePriority, phase>>
                   ELSE Enter(t, EnterPriority(t), phase)
    BY <1>5 DEF SignalVisit
  <2>2. t \in Members(lists, "wait")
    <3>1. ToSet(todo) \subseteq Members(lists, "wait") /\ todo \in Seq(Threads)
      BY <2>1 DEF IInv, RestInv, TodoWaits, TypeOK
    <3>2. 1 \in DOMAIN todo /\ t = todo[1]
      BY <2>1, <3>1
    <3> QED  BY <3>1, <3>2 DEF ToSet
  <2> HIDE DEF t
  <2>3. /\ t \in Threads /\ t # cur /\ "Term" \notin status[t]
        /\ t \notin Members(lists, "ready")
    BY <1>1, <2>2, ListedFacts
  <2>4. Atomic /\ CallInv => \A x \in Threads : inCall[x] \notin Window
    BY <2>1, Calm
  <2>5. SignalFrame
    BY <2>1 DEF SignalFrame
  <2>6. CASE signal[t] # raised
    BY <2>1, <2>4, <2>6, IdleKept
  <2>7. CASE signal[t] = raised
    <3>1. status' = [status EXCEPT ![t] = @ \ {"Signal"}]
      BY <2>1, <2>7
    <3>2. \A x \in Threads : x # t => Frame(x)
      BY <1>1, <2>1, <2>3, <3>1 DEF Frame
    <3>3. "Term" \notin status'[t] /\ "Signal" \notin status'[t]
          /\ status'[t] \cap Holds = status[t] \cap Holds
      BY <1>1, <2>3, <3>1 DEF Holds
    <3>4. ASSUME "Stopped" \in status[t]  PROVE Kept
      <4>1. UNCHANGED <<lists, cur>>
        BY <2>1, <2>7, <3>4
      <4>2. KeptInv'
        BY <1>1, <2>1, <2>3, <3>1, <4>1, StayKeepsPlaces
      <4>3. ~CallInv
        BY <2>2, <2>3, <3>4 DEF CallInv, WaitersWait, Waits, Holds
      <4> QED  BY <4>2, <4>3 DEF Kept
    <3>5. ASSUME NEW n \in {"ready", "sleep", "blocked"}, MovesTo(t, n),
                 n = "sleep" => sleepTime[t] > 0,
                 n = "ready" => sleepTime[t] = 0,
                 n = "blocked" => "Blocked" \in status[t]
          PROVE  Kept
      <4>1. n \in ListNames /\ n # "wait" /\ sleepTime'[t] = sleepTime[t]
        BY <1>1, <2>1
      <4>2. n = "blocked" => status'[t] \cap Holds # {}
        BY <3>3, <3>5 DEF Holds
      <4> QED  BY <2>1, <2>3, <2>4, <2>5, <3>2, <3>3, <3>5, <4>1, <4>2, MoveKept
    <3>6. CASE "Stopped" \notin status[t] /\ "Blocked" \in status[t]
      <4>1. MovesTo(t, "blocked")
        BY <1>1, <2>1, <2>3, <2>7, <3>6, AddTailMovesTo
      <4> QED  BY <3>5, <3>6, <4>1
    <3>7. CASE "Stopped" \notin status[t] /\ "Blocked" \notin status[t] /\ sleepTime[t] > 0
      <4>1. MovesTo(t, "sleep")
        BY <1>1, <2>1, <2>3, <2>7, <3>7, AddTailMovesTo
      <4> QED  BY <3>5, <3>7, <4>1
    <3>8. CASE "Stopped" \notin status[t] /\ "Blocked" \notin status[t] /\ ~(sleepTime[t] > 0)
      <4>1. MovesTo(t, "ready")
        BY <1>1, <2>1, <2>3, <2>7, <3>8, EnterMovesTo
      <4>2. sleepTime[t] = 0
        BY <1>1, <2>3, <3>8
      <4> QED  BY <3>5, <4>1, <4>2
    <3> QED  BY <3>4, <3>6, <3>7, <3>8
  <2> QED  BY <2>6, <2>7
<1> QED  BY <1>2, <1>3, <1>4, <1>5 DEF Deliver

-----------------------------------------------------------------------------
(***************************************************************************)
(* Threads that wake others.                                               *)
(***************************************************************************)

\* A blocked or stopped thread is in a list or runs, and has not ended.
LEMMA HeldFacts ==
  ASSUME IInv, KeptInv, NEW u \in Threads, status[u] \cap Holds # {}
  PROVE  u \in Placements /\ "Term" \notin status[u]
BY DEF IInv, PlaceInv, HeldListed, KeptInv, EndedGone, Placements

\* SingleCPUDispatcher::unblock of a thread u that does not run, is flagged as
\* held and not as held afterwards.
LEMMA UnblockKept ==
  ASSUME IInv, KeptInv, NEW u \in Threads, u # cur, status[u] \cap Holds # {},
         Unblock(u, sleepTime), cur' = cur, SignalFrame,
         \A x \in Threads : x # u => Frame(x),
         sleepTime'[u] = sleepTime[u],
         "Term" \in status'[u] => "Term" \in status[u],
         "Signal" \in status'[u] => "Signal" \in status[u],
         Atomic /\ CallInv =>
           \A x \in Threads : inCall[x] \notin Window /\ inCall'[x] \notin Window
  PROVE  Kept
<1>1. "ready" \in ListNames /\ "sleep" \in ListNames
  BY DEF ListNames
<1>2. PICK n \in {"ready", "sleep"} : /\ MovesTo(u, n)
                                      /\ n = "sleep" <=> sleepTime[u] > 0
  BY UnblockMoves
<1>3. n = "ready" => sleepTime'[u] = 0
  BY <1>2 DEF IInv, TypeOK
<1>4. "Term" \notin status'[u]
  BY HeldFacts
<1>5. ASSUME Atomic, CallInv, SignalInv
      PROVE  u \notin MayStop /\ signal'[u] # 0 => "Signal" \notin status'[u]
  <2>1. u \notin Members(lists, "wait")
    BY <1>5 DEF CallInv, WaitersWait, Waits
  <2>2. signal'[u] # 0 => signal[u] # 0
    BY DEF SignalFrame
  <2>3. inCall[u] # "sigwait"
    BY <1>5 DEF Window
  <2> QED  BY <1>5, <2>1, <2>2, <2>3 DEF SignalInv
<1>6. n \in ListNames /\ n # "wait" /\ n # "blocked"
  BY <1>1
<1> QED  BY <1>2, <1>3, <1>4, <1>5, <1>6, MoveKept

\* Thread::unblock of a blocked thread u that does not run.
LEMMA ThreadUnblockKept ==
  ASSUME IInv, KeptInv, NEW u \in Threads, u # cur, "Blocked" \in status[u],
         ThreadUnblock(u), UNCHANGED <<cur, sleepTime, instance, inCall>>, SignalFrame,
         Atomic /\ CallInv => \A x \in Threads : inCall[x] \notin Window
  PROVE  Kept
<1>1. status \in [Threads -> SUBSET Flags]
      /\ status' = [status EXCEPT ![u] = UnblockedStatus(u)]
  BY DEF IInv, TypeOK, ThreadUnblock
<1>2. \A x \in Threads : x # u => Frame(x)
  BY <1>1 DEF Frame
<1>3. CASE "Stopped" \in status[u]
  <2>1. UNCHANGED <<lists, cur>>
    BY <1>3 DEF ThreadUnblock
  <2>2. status'[u] = status[u] \ {"Blocked"}
    BY <1>1, <1>3 DEF UnblockedStatus
  <2>3. Frame(u)
    BY <1>3, <2>2 DEF Frame
  <2> QED  BY <1>2, <2>1, <2>3, FrameKept
<1>4. CASE "Stopped" \notin status[u]
  <2>1. Unblock(u, sleepTime)
    BY <1>4 DEF ThreadUnblock
  <2>2. status'[u] = (status[u] \ {"Blocked"}) \cup {"Ready"}
    BY <1>1, <1>4 DEF UnblockedStatus
  <2>3. status[u] \cap Holds # {}
    BY DEF Holds
  <2>4. /\ "Term" \in status'[u] => "Term" \in status[u]
        /\ "Signal" \in status'[u] => "Signal" \in status[u]
    BY <2>2
  <2> QED  BY <1>2, <1>4, <2>1, <2>3, <2>4, UnblockKept
<1> QED  BY <1>3, <1>4

-----------------------------------------------------------------------------
(***************************************************************************)
(* System calls of a user thread.                                          *)
(***************************************************************************)

\* Types, and what is known of the running user thread.
LEMMA CallerFacts ==
  ASSUME IInv, KeptInv, NEW t \in Threads, cur = t
  PROVE  /\ status \in [Threads -> SUBSET Flags] /\ sleepTime \in [Threads -> Nat]
         /\ signal \in [Threads -> Signals \cup {0}] /\ instance \in [Threads -> {1, 2}]
         /\ inCall \in [Threads -> CallPoints] /\ now \in Nat
         /\ "ready" \in ListNames /\ "sleep" \in ListNames /\ "wait" \in ListNames
         /\ "blocked" \in ListNames
         /\ \A n \in ListNames : t \notin Members(lists, n)
         /\ inCall[t] # "block" => status[t] \cap Holds = {}
         /\ "Term" \notin status[t] /\ sleepTime[t] = 0 /\ t # None
<1>1. t # None /\ t \in Running /\ t \in Placements
  BY ThreadsAssumption DEF Running, Placements
<1>2. "Term" \notin status[t] /\ sleepTime[t] = 0
  BY <1>1 DEF KeptInv, SleepTimes, EndedGone
<1> QED  BY <1>1, <1>2, InvFacts DEF IInv, TypeOK, ListNames

\* The calls with which the running user thread gives up the CPU.
LEMMA LeaveKept ==
  ASSUME IInv, KeptInv, NEW t \in User,
         \/ \E d \in Delays : ThreadSleep(t, d)
         \/ BlockEnd(t) \/ SigwaitEnd(t) \/ InstanceEnds(t)
  PROVE  Kept
<1> USE ThreadsAssumption, NumbersAssumption
<1>1. t \in Threads /\ cur = t /\ phase = "run"
  BY DEF ThreadSleep, BlockEnd, SigwaitEnd, InstanceEnds, Runs, Threads
<1>2. /\ status \in [Threads -> SUBSET Flags] /\ sleepTime \in [Threads -> Nat]
      /\ signal \in [Threads -> Signals \cup {0}] /\ instance \in [Threads -> {1, 2}]
      /\ inCall \in [Threads -> CallPoints] /\ now \in Nat
      /\ "ready" \in ListNames /\ "sleep" \in ListNames /\ "wait" \in ListNames
      /\ "blocked" \in ListNames
      /\ \A n \in ListNames : t \notin Members(lists, n)
      /\ inCall[t] # "block" => status[t] \cap Holds = {}
      /\ "Term" \notin status[t] /\ sleepTime[t] = 0 /\ t # None
  BY <1>1, CallerFacts
<1>3. CallInv => \A x \in Threads : x # t => inCall[x] \notin Window
  BY <1>1 DEF CallInv, WindowRuns
<1>4. ASSUME NEW d \in Delays, ThreadSleep(t, d)  PROVE Kept
  <2>1. /\ sleepTime' = [sleepTime EXCEPT ![t] = now + d]
        /\ status' = [status EXCEPT ![t] = @ \ {"Ready"}]
        /\ cur' = None /\ Sleep(t, sleepTime', "dispatch") /\ inCall[t] = "none"
        /\ UNCHANGED <<instance, signal, inCall>>
    BY <1>4 DEF ThreadSleep, WakeTime, Runs, attrVars
  <2>2. MovesTo(t, "sleep")
    BY <1>1, <1>2, <2>1, SleepMovesTo
  <2>3. SignalFrame /\ \A x \in Threads : x # t => Frame(x)
    BY <1>1, <1>2, <2>1 DEF SignalFrame, Frame
  <2>4. sleepTime'[t] = now + d /\ d > 0
    BY <1>1, <1>2, <2>1
  <2>5. sleepTime'[t] > 0 /\ "Term" \notin status'[t]
    BY <1>1, <1>2, <2>1, <2>4
  <2>6. CallInv => \A x \in Threads : inCall'[x] \notin Window
    BY <1>3, <2>1 DEF Window
  <2>7. ASSUME SignalInv  PROVE t \notin MayStop /\ signal'[t] # 0 => "Signal" \notin status'[t]
    BY <1>1, <1>2, <2>1, <2>7 DEF SignalInv
  <2> QED  BY <1>1, <1>2, <1>3, <2>1, <2>2, <2>3, <2>5, <2>6, <2>7, MoveKept
<1>5. CASE InstanceEnds(t)
  <2>1. /\ arrivalTime' = [arrivalTime EXCEPT ![t] = @ + Period[t]]
        /\ sleepTime' = [sleepTime EXCEPT ![t] = arrivalTime'[t]]
        /\ status' = [status EXCEPT ![t] = {"New"}] /\ Period[t] > 0
        /\ cur' = None /\ Sleep(t, sleepTime', "dispatch") /\ inCall[t] = "none"
        /\ UNCHANGED <<instance, signal, inCall>>
    BY <1>5 DEF InstanceEnds, Runs
  <2>2. MovesTo(t, "sleep")
    BY <1>1, <1>2, <2>1, SleepMovesTo
  <2>3. SignalFrame /\ \A x \in Threads : x # t => Frame(x)
    BY <1>1, <1>2, <2>1 DEF SignalFrame, Frame
  <2>4. arrivalTime \in [Threads -> Nat] /\ Period[t] \in Nat
    BY DEF IInv, TypeOK
  <2>5. sleepTime'[t] = arrivalTime[t] + Period[t]
    BY <1>1, <1>2, <2>1, <2>4
  <2>6. sleepTime'[t] > 0
    BY <1>1, <2>1, <2>4, <2>5
  <2>7. status'[t] = {"New"}
    BY <1>1, <1>2, <2>1
  <2>8. CallInv => \A x \in Threads : inCall'[x] \notin Window
    BY <1>3, <2>1 DEF Window
  <2> QED  BY <1>1, <1>2, <1>3, <2>1, <2>2, <2>3, <2>6, <2>7, <2>8, MoveKept
<1>6. CASE BlockEnd(t)
  <2>1. /\ inCall[t] = "block" /\ inCall' = [inCall EXCEPT ![t] = "none"]
        /\ lists' = AddTail(lists, "blocked", t) /\ cur' = None
        /\ UNCHANGED <<status, sleepTime, instance, signal>>
    BY <1>6 DEF BlockEnd, attrVars
  <2>2. MovesTo(t, "blocked")
    BY <1>1, <1>2, <2>1, AddTailMovesTo
  <2>3. SignalFrame /\ \A x \in Threads : Frame(x)
    BY <2>1 DEF SignalFrame, Frame
  <2>4. CallInv => /\ status'[t] \cap Holds # {}
                   /\ \A x \in Threads : inCall'[x] \notin Window
    BY <1>1, <1>2, <1>3, <2>1 DEF CallInv, WindowFlags, Holds, Window
  <2>5. ASSUME SignalInv  PROVE t \notin MayStop /\ signal'[t] # 0 => "Signal" \notin status'[t]
    BY <1>1, <1>2, <2>1, <2>5 DEF SignalInv
  <2> QED  BY <1>1, <1>2, <1>3, <2>1, <2>2, <2>3, <2>4, <2>5, MoveKept
<1>7. CASE SigwaitEnd(t)
  <2>1. /\ inCall[t] = "sigwait" /\ inCall' = [inCall EXCEPT ![t] = "none"]
        /\ lists' = AddTail(lists, "wait", t) /\ cur' = None
        /\ UNCHANGED <<status, sleepTime, instance, signal>>
    BY <1>7 DEF SigwaitEnd, attrVars
  <2>2. MovesTo(t, "wait")
    BY <1>1, <1>2, <2>1, AddTailMovesTo
  <2>3. SignalFrame /\ \A x \in Threads : Frame(x)
    BY <2>1 DEF SignalFrame, Frame
  <2>4. CallInv => \A x \in Threads : inCall'[x] \notin Window
    BY <1>1, <1>2, <1>3, <2>1 DEF Window
  <2>5. ASSUME CallInv  PROVE Waits(t)'
    <3>1. status[t] \cap Holds = {} /\ "Signal" \in status[t] /\ signal[t] # 0
      BY <1>1, <1>2, <2>1, <2>5 DEF CallInv, WindowFlags
    <3> QED  BY <2>1, <3>1 DEF Waits
  <2> QED  BY <1>1, <1>2, <1>3, <2>1, <2>2, <2>3, <2>4, <2>5, MoveKept
<1> QED  BY <1>4, <1>5, <1>6, <1>7

\* The steps of a user thread that move no thread.
LEMMA EnterWindowKept ==
  ASSUME IInv, KeptInv, NEW t \in User,
         \/ \E d \in Timeouts : BlockBegin(t, d)
         \/ \E sig \in Signals : SigwaitBegin(t, sig) \/ SignalBegin(t, sig)
  PROVE  Kept
<1> USE ThreadsAssumption, NumbersAssumption
<1>1. t \in Threads /\ cur = t /\ phase = "run" /\ inCall[t] = "none"
      /\ UNCHANGED <<lists, cur, sleepTime, instance>>
  BY DEF BlockBegin, SigwaitBegin, SignalBegin, Runs, Threads, attrVars
<1>2. /\ status \in [Threads -> SUBSET Flags]
      /\ signal \in [Threads -> Signals \cup {0}]
      /\ inCall \in [Threads -> CallPoints]
      /\ "wait" \in ListNames /\ "blocked" \in ListNames
      /\ \A n \in ListNames : t \notin Members(lists, n)
      /\ "Term" \notin status[t]
  BY <1>1, CallerFacts
<1>3. CallInv => \A x \in Threads : inCall[x] \notin Window
  BY <1>1, Calm DEF Window
<1>4. CASE \E sig \in Signals : SignalBegin(t, sig)
  <2>1. UNCHANGED <<status, signal, inCall>>
    BY <1>4 DEF SignalBegin
  <2> QED  BY <1>1, <1>3, <2>1, IdleKept
<1>5. ASSUME NEW f \in {"Blocked", "Signal"}, NEW c \in Window,
             status' = [status EXCEPT ![t] = (@ \ {"Ready"}) \cup {f}],
             inCall' = [inCall EXCEPT ![t] = c], phase' = phase,
             \A x \in Threads : x # t => signal'[x] = signal[x],
             c = "block" => f = "Blocked" /\ signal' = signal,
             c = "sigwait" => f = "Signal" /\ signal'[t] # 0
      PROVE  Kept
  <2>1. \A x \in Threads : x # t => status'[x] = status[x] /\ inCall'[x] = inCall[x]
    BY <1>1, <1>2, <1>5
  <2>2. inCall'[t] = c /\ f \in status'[t]
        /\ ("Term" \in status'[t] => "Term" \in status[t])
        /\ ("Ready" \notin status'[t])
        /\ ("Signal" \in status'[t] => "Signal" \in status[t] \/ f = "Signal")
    BY <1>1, <1>2, <1>5
  <2>3. KeptInv'
    BY <1>1, <1>2, <2>1, <2>2, StayKeepsPlaces
  <2>4. ASSUME CallInv  PROVE CallInv'
    <3>1. WindowRuns'
      BY <1>1, <1>3, <1>5, <2>1, <2>4 DEF WindowRuns
    <3>2. WindowFlags'
      BY <1>1, <1>3, <1>5, <2>1, <2>2, <2>4 DEF WindowFlags, Window
    <3>3. WaitersWait' /\ BlockedHeld'
      BY <1>1, <1>2, <1>5, <2>1, <2>4 DEF CallInv, WaitersWait, Waits, BlockedHeld
    <3> QED  BY <3>1, <3>2, <3>3 DEF CallInv
  <2>5. ASSUME CallInv, SignalInv  PROVE SignalInv'
    <3>1. \A w \in Workers : w \in Threads /\ w # t
      BY DEF Threads
    <3>2. \A w \in Workers : signal'[w] = 0
      BY <1>5, <2>5, <3>1 DEF SignalInv
    <3>3. ASSUME NEW x \in Threads \ MayStop, x # t, signal'[x] # 0
          PROVE  x \in Members(lists', "wait") \/ "Signal" \notin status'[x]
      BY <1>1, <1>3, <1>5, <2>1, <2>5, <3>3 DEF SignalInv, Window
    <3>4. CASE c = "sigwait"
      BY <2>2, <3>2, <3>3, <3>4 DEF SignalInv
    <3>5. CASE c = "block"
      <4>1. t \notin MayStop /\ signal'[t] # 0 => "Signal" \notin status'[t]
        BY <1>1, <1>2, <1>5, <2>2, <2>5, <3>5 DEF SignalInv
      <4> QED  BY <3>2, <3>3, <4>1 DEF SignalInv
    <3> QED  BY <3>4, <3>5 DEF Window
  <2> QED  BY <2>3, <2>4, <2>5 DEF Kept
<1>6. ASSUME NEW d \in Timeouts, BlockBegin(t, d)  PROVE Kept
  <2>1. /\ status' = [status EXCEPT ![t] = (@ \ {"Ready"}) \cup {"Blocked"}]
        /\ inCall' = [inCall EXCEPT ![t] = "block"] /\ phase' = phase
        /\ signal' = signal
    BY <1>6 DEF BlockBegin
  <2>2. "block" \in Window /\ "block" # "sigwait"
    BY DEF Window
  <2> QED  BY <1>5, <2>1, <2>2
<1>7. ASSUME NEW sig \in Signals, SigwaitBegin(t, sig)  PROVE Kept
  <2>1. /\ status' = [status EXCEPT ![t] = (@ \ {"Ready"}) \cup {"Signal"}]
        /\ inCall' = [inCall EXCEPT ![t] = "sigwait"] /\ phase' = phase
        /\ signal' = [signal EXCEPT ![t] = sig]
    BY <1>7 DEF SigwaitBegin
  <2>2. signal'[t] # 0 /\ \A x \in Threads : x # t => signal'[x] = signal[x]
    BY <1>1, <1>2, <2>1
  <2>3. "sigwait" \in Window /\ "block" # "sigwait"
    BY DEF Window
  <2> QED  BY <1>5, <2>1, <2>2, <2>3
<1> QED  BY <1>4, <1>6, <1>7

\* The threads a running thread unblocks, and those it stops and resumes.
LEMMA OtherKept ==
  ASSUME CallersFollowContract, IInv, KeptInv, NEW t \in Threads, NEW u \in User,
         \/ UnblockOther(t, u)
         \/ u \in MayStop /\ (ThreadStop(t, u) \/ ThreadResume(t, u))
  PROVE  Kept
<1> USE ThreadsAssumption
<1>1. /\ cur = t /\ phase = "run" /\ inCall[t] = "none" /\ u \in Threads
      /\ UNCHANGED <<sleepTime, instance, signal, inCall>>
  BY DEF UnblockOther, ThreadStop, ThreadResume, Runs, Threads, attrVars
<1>2. /\ status \in [Threads -> SUBSET Flags]
      /\ "wait" \in ListNames /\ "blocked" \in ListNames
      /\ status[t] \cap Holds = {}
  BY <1>1, CallerFacts
<1>3. CallInv => \A x \in Threads : inCall[x] \notin Window /\ inCall'[x] \notin Window
  BY <1>1, Calm DEF Window
<1>4. SignalFrame
  BY <1>1 DEF SignalFrame
<1>5. CASE UnblockOther(t, u)
  <2>1. "Blocked" \in status[u] /\ ThreadUnblock(u) /\ cur' = cur
    BY <1>5 DEF UnblockOther
  <2>2. u # cur
    BY <1>1, <1>2, <2>1 DEF Holds
  <2> QED  BY <1>1, <1>3, <1>4, <2>1, <2>2, ThreadUnblockKept
<1>6. CASE u \in MayStop /\ ThreadStop(t, u)
  <2>1. /\ status' = [status EXCEPT ![u] = @ \cup {"Stopped"}]
        /\ "Term" \notin status[u] /\ u \in MayStop
    BY <1>6 DEF ThreadStop
  <2>2. /\ \A x \in Threads : x # u => Frame(x)
        /\ "Term" \notin status'[u] /\ status'[u] \cap Holds # {}
        /\ ("Ready" \in status'[u] => "Ready" \in status[u])
    BY <1>1, <1>2, <2>1 DEF Frame, Holds
  <2>3. CASE "Blocked" \in status[u]
    <3>1. UNCHANGED <<lists, cur, phase>>
      BY <1>6, <2>3 DEF ThreadStop
    <3>2. KeptInv'
      BY <1>1, <2>1, <2>2, <3>1, StayKeepsPlaces DEF Frame
    <3>3. ASSUME CallInv  PROVE CallInv'
      <4>1. WindowRuns' /\ WindowFlags'
        BY <1>3, <3>3 DEF WindowRuns, WindowFlags, Window
      <4>2. u \notin Members(lists, "wait")
        BY <1>1, <2>3, <3>3 DEF CallInv, WaitersWait, Waits, Holds
      <4>3. \A x \in Threads : x # u => status'[x] = status[x]
        BY <1>1, <1>2, <2>1
      <4>4. WaitersWait'
        BY <1>1, <3>1, <3>3, <4>2, <4>3 DEF CallInv, WaitersWait, Waits
      <4>5. BlockedHeld'
        BY <2>2, <3>1, <3>3, <4>3 DEF CallInv, BlockedHeld
      <4> QED  BY <4>1, <4>4, <4>5 DEF CallInv
    <3>4. ASSUME SignalInv  PROVE SignalInv'
      BY <1>1, <2>1, <2>2, <3>1, <3>4 DEF SignalInv, Frame
    <3> QED  BY <3>2, <3>3, <3>4 DEF Kept
  <2>4. CASE "Blocked" \notin status[u]
    <3>1. /\ lists' = AddTail(lists, "blocked", u)
          /\ cur' = IF u = t THEN None ELSE cur
      BY <1>6, <2>4 DEF ThreadStop
    <3>2. MovesTo(u, "blocked")
      BY <1>1, <1>2, <3>1, AddTailMovesTo
    <3>3. (cur' = None /\ cur = u) \/ (cur' = cur /\ cur # u)
      BY <1>1, <3>1
    <3> QED  BY <1>1, <1>2, <1>3, <1>4, <2>1, <2>2, <3>2, <3>3, MoveKept
  <2> QED  BY <2>3, <2>4
<1>7. CASE u \in MayStop /\ ThreadResume(t, u)
  <2>1. "Stopped" \in status[u] /\ cur' = cur /\ u \in MayStop
    BY <1>7 DEF ThreadResume
  <2>2. u # cur /\ status[u] \cap Holds # {}
    BY <1>1, <1>2, <2>1 DEF Holds
  <2>3. CASE "Blocked" \in status[u]
    <3>1. /\ status' = [status EXCEPT ![u] = @ \ {"Stopped"}]
          /\ UNCHANGED lists
      BY <1>7, <2>3 DEF ThreadResume
    <3>2. /\ \A x \in Threads : x # u => status'[x] = status[x]
          /\ status'[u] = status[u] \ {"Stopped"}
      BY <1>1, <1>2, <3>1
    <3>3. KeptInv'
      BY <1>1, <2>1, <3>1, <3>2, StayKeepsPlaces
    <3>4. ASSUME CallInv  PROVE CallInv'
      <4>1. WindowRuns' /\ WindowFlags'
        BY <1>3, <3>4 DEF WindowRuns, WindowFlags, Window
      <4>2. u \notin Members(lists, "wait")
        BY <1>1, <2>2, <3>4 DEF CallInv, WaitersWait, Waits
      <4>3. WaitersWait'
        BY <1>1, <3>1, <3>2, <3>4, <4>2 DEF CallInv, WaitersWait, Waits
      <4>4. status'[u] \cap Holds # {}
        BY <2>3, <3>2 DEF Holds
      <4>5. BlockedHeld'
        BY <3>1, <3>2, <3>4, <4>4 DEF CallInv, BlockedHeld
      <4> QED  BY <4>1, <4>3, <4>5 DEF CallInv
    <3>5. ASSUME SignalInv  PROVE SignalInv'
      BY <1>1, <2>1, <3>1, <3>2, <3>5 DEF SignalInv
    <3> QED  BY <3>3, <3>4, <3>5 DEF Kept
  <2>4. CASE "Blocked" \notin status[u]
    <3>1. /\ status' = [status EXCEPT ![u] = (@ \ {"Stopped"}) \cup {"Ready"}]
          /\ Unblock(u, sleepTime)
      BY <1>7, <2>4 DEF ThreadResume
    <3>2. /\ \A x \in Threads : x # u => Frame(x)
          /\ status'[u] = (status[u] \ {"Stopped"}) \cup {"Ready"}
      BY <1>1, <1>2, <3>1 DEF Frame
    <3>3. /\ "Term" \in status'[u] => "Term" \in status[u]
          /\ "Signal" \in status'[u] => "Signal" \in status[u]
      BY <3>2
    <3> QED  BY <1>1, <1>3, <1>4, <2>1, <2>2, <3>1, <3>2, <3>3, UnblockKept
  <2> QED  BY <2>3, <2>4
<1> QED  BY <1>5, <1>6, <1>7

\* thread_run of a thread that has never been started.
LEMMA ThreadRunKept ==
  ASSUME CallersFollowContract, IInv, KeptInv, NEW t \in User, NEW u \in User,
         ThreadRun(t, u)
  PROVE  Kept
<1> USE ThreadsAssumption
<1>1. /\ cur = t /\ phase = "run" /\ inCall[t] = "none" /\ t \in Threads /\ u \in Threads
      /\ UNCHANGED <<cur, sleepTime, instance, signal, inCall>>
      /\ instance[u] = 1 /\ u \notin Listed(lists) /\ "Term" \notin status[u]
  BY DEF ThreadRun, Runs, NeverStarted, Threads
<1>2. /\ status \in [Threads -> SUBSET Flags] /\ sleepTime \in [Threads -> Nat]
      /\ "ready" \in ListNames /\ "sleep" \in ListNames /\ "wait" \in ListNames
  BY <1>1, CallerFacts
<1>3. u # cur
  BY <1>1 DEF IInv, RestInv, UserStarted
<1>4. \A n \in ListNames : u \notin Members(lists, n)
  BY <1>1 DEF Listed
<1>5. CallInv => \A x \in Threads : inCall[x] \notin Window /\ inCall'[x] \notin Window
  BY <1>1, Calm DEF Window
<1>6. ASSUME NEW n \in {"ready", "sleep"}, MovesTo(u, n),
             n = "sleep" => sleepTime[u] > 0, n = "ready" => sleepTime[u] = 0,
             status' \in {status, [status EXCEPT ![u] = @ \cup {"Ready"}]}
      PROVE  Kept
  <2>1. SignalFrame /\ \A x \in Threads : x # u => Frame(x)
    BY <1>1, <1>2, <1>6 DEF SignalFrame, Frame
  <2>2. "Term" \notin status'[u] /\ ("Signal" \in status'[u] => "Signal" \in status[u])
    BY <1>1, <1>2, <1>6
  <2>3. ASSUME CallInv, SignalInv  PROVE u \notin MayStop /\ signal'[u] # 0 => "Signal" \notin status'[u]
    BY <1>1, <1>2, <1>4, <1>5, <2>2, <2>3 DEF SignalInv, Window
  <2>4. n \in ListNames /\ n # "wait" /\ n # "blocked" /\ sleepTime'[u] = sleepTime[u]
    BY <1>1, <1>2
  <2> QED  BY <1>1, <1>3, <1>5, <1>6, <2>1, <2>2, <2>3, <2>4, MoveKept
<1>7. CASE sleepTime[u] > 0
  <2>1. Sleep(u, sleepTime, "dispatch") /\ UNCHANGED status
    BY <1>1, <1>7 DEF ThreadRun
  <2>2. MovesTo(u, "sleep")
    BY <1>1, <1>2, <1>4, <2>1, SleepMovesTo
  <2> QED  BY <1>6, <1>7, <2>1, <2>2
<1>8. CASE ~(sleepTime[u] > 0)
  <2>1. /\ Enter(u, ComputedPriority(u), "dispatch")
        /\ status' = [status EXCEPT ![u] = @ \cup {"Ready"}]
    BY <1>8 DEF ThreadRun
  <2>2. MovesTo(u, "ready")
    BY <1>1, <1>2, <1>4, <2>1, EnterMovesTo
  <2>3. sleepTime[u] = 0
    BY <1>1, <1>2, <1>8
  <2> QED  BY <1>6, <2>1, <2>2, <2>3
<1> QED  BY <1>7, <1>8

\* A worker gets a job.
LEMMA AssignJobKept ==
  ASSUME IInv, KeptInv, NEW t \in User, NEW w \in Workers, NEW kind,
         NEW d \in Delays, AssignJob(t, w, kind, d)
  PROVE  Kept
<1> USE ThreadsAssumption, NumbersAssumption
<1>1. /\ cur = t /\ phase = "run" /\ inCall[t] = "none" /\ t \in Threads /\ w \in Threads
      /\ UNCHANGED <<cur, signal, inCall>> /\ w # t /\ w \notin User
      /\ instance' = [instance EXCEPT ![w] = 1]
      /\ sleepTime' = [sleepTime EXCEPT ![w] = now + d]
      /\ status' = [status EXCEPT ![w] = UnblockedStatus(w)]
      /\ lists' = AddTail(lists, "sleep", w)
  BY DEF AssignJob, WakeTime, Runs, Threads
<1>2. /\ status \in [Threads -> SUBSET Flags] /\ sleepTime \in [Threads -> Nat]
      /\ instance \in [Threads -> {1, 2}] /\ now \in Nat
      /\ "sleep" \in ListNames /\ "wait" \in ListNames
  BY <1>1, CallerFacts
<1>3. MovesTo(w, "sleep")
  BY <1>1, <1>2, AddTailMovesTo
<1>4. SignalFrame /\ \A x \in Threads : x # w => Frame(x)
  BY <1>1, <1>2 DEF SignalFrame, Frame
<1>5. sleepTime'[w] = now + d /\ d > 0
  BY <1>1, <1>2
<1>6. sleepTime'[w] > 0
  BY <1>2, <1>5
<1>7. "Term" \notin status'[w]
  <2>1. "Term" \notin status[w]
    BY <1>1 DEF KeptInv, EndedGone
  <2> QED  BY <1>1, <1>2, <2>1 DEF UnblockedStatus
<1>8. CallInv => \A x \in Threads : inCall[x] \notin Window /\ inCall'[x] \notin Window
  BY <1>1, Calm DEF Window
<1>9. SignalInv => signal'[w] = 0
  BY <1>1 DEF SignalInv
<1> QED  BY <1>1, <1>2, <1>3, <1>4, <1>6, <1>7, <1>8, <1>9, MoveKept

\* The end of a thread.
LEMMA ThreadExitKept ==
  ASSUME IInv, KeptInv, NEW t \in User, ThreadExit(t)
  PROVE  Kept
<1> USE ThreadsAssumption
<1>1. /\ cur = t /\ cur' = None /\ phase = "run" /\ inCall[t] = "none" /\ t \in Threads
      /\ lists' = Detach(lists, t)
      /\ status' = [status EXCEPT ![t] = {"Term"}]
      /\ UNCHANGED <<sleepTime, instance, signal, inCall>>
  BY DEF ThreadExit, Runs, Threads, attrVars
<1>2. /\ status \in [Threads -> SUBSET Flags]
      /\ "ready" \in ListNames /\ "sleep" \in ListNames /\ "wait" \in ListNames
      /\ "blocked" \in ListNames
      /\ \A n \in ListNames : t \notin Members(lists, n)
      /\ t # None
  BY <1>1, CallerFacts
<1>3. \A n \in ListNames : Members(lists', n) = Members(lists, n)
  <2>1. lists \in [ListNames -> Seq(Threads)] /\ Disjoint(lists)
    BY InvFacts DEF ListType
  <2>2. \A n \in ListNames : Members(lists', n) = Members(lists, n) \ {t}
    BY <1>1, <2>1, DetachLists
  <2>3. ASSUME NEW n \in ListNames  PROVE Members(lists', n) = Members(lists, n)
    <3>1. t \notin Members(lists, n) /\ Members(lists', n) = Members(lists, n) \ {t}
      BY <1>2, <2>2
    <3> QED  BY <3>1
  <2> QED  BY <2>3
<1>4. /\ Running' = {} /\ Running = {t} /\ Listed(lists') = Listed(lists)
      /\ Placements' = Placements \ {t}
  <2>1. Running' = {} /\ Running = {t} /\ Listed(lists') = Listed(lists)
    BY <1>1, <1>2, <1>3 DEF Running, Listed
  <2>2. t \notin Listed(lists)
    BY <1>2 DEF Listed
  <2> QED  BY <2>1, <2>2 DEF Placements
<1>5. /\ status'[t] = {"Term"}
      /\ \A x \in Threads : x # t => status'[x] = status[x]
  BY <1>1, <1>2
<1>6. KeptInv'
  <2>1. SleepTimes'
    BY <1>1, <1>2, <1>3, <1>4 DEF KeptInv, SleepTimes
  <2>2. EndedGone'
    BY <1>4, <1>5 DEF KeptInv, EndedGone
  <2>3. NoThreadLost'
    BY <1>1, <1>4, <1>5 DEF KeptInv, NoThreadLost, Placements
  <2> QED  BY <2>1, <2>2, <2>3 DEF KeptInv
<1>7. CallInv => \A x \in Threads : inCall[x] \notin Window /\ inCall'[x] \notin Window
  BY <1>1, Calm DEF Window
<1>8. ASSUME CallInv  PROVE CallInv'
  <2>1. WindowRuns' /\ WindowFlags'
    BY <1>7, <1>8 DEF WindowRuns, WindowFlags, Window
  <2>2. WaitersWait' /\ BlockedHeld'
    BY <1>1, <1>2, <1>3, <1>5, <1>8 DEF CallInv, WaitersWait, Waits, BlockedHeld
  <2> QED  BY <2>1, <2>2 DEF CallInv
<1>9. ASSUME SignalInv  PROVE SignalInv'
  BY <1>1, <1>2, <1>3, <1>5, <1>9 DEF SignalInv
<1> QED  BY <1>6, <1>8, <1>9 DEF Kept

\* Every step of a user thread keeps the invariants.
LEMMA UserKept ==
  ASSUME CallersFollowContract, IInv, KeptInv, NEW t \in User, UserStep(t)
  PROVE  Kept
<1> USE ThreadsAssumption
<1>1. t \in Threads
  BY DEF Threads
<1>2. ASSUME NEW u \in User,
             \/ UnblockOther(t, u)
             \/ u \in MayStop /\ (ThreadStop(t, u) \/ ThreadResume(t, u))
      PROVE  Kept
  BY <1>1, <1>2, OtherKept
<1>3. ASSUME NEW u \in User, ThreadRun(t, u)  PROVE Kept
  BY <1>3, ThreadRunKept
<1>4. ASSUME NEW w \in Workers, NEW d \in Delays, NEW kind \in {"Timed", "Periodic"},
             AssignJob(t, w, kind, d)
      PROVE  Kept
  BY <1>4, AssignJobKept
<1>5. ASSUME \/ \E d \in Delays : ThreadSleep(t, d)
             \/ BlockEnd(t) \/ SigwaitEnd(t) \/ InstanceEnds(t)
      PROVE  Kept
  BY <1>5, LeaveKept
<1>6. ASSUME \/ \E d \in Timeouts : BlockBegin(t, d)
             \/ \E sig \in Signals : SigwaitBegin(t, sig) \/ SignalBegin(t, sig)
      PROVE  Kept
  BY <1>6, EnterWindowKept
<1>7. CASE ThreadExit(t)
  BY <1>7, ThreadExitKept
<1> QED  BY <1>2, <1>3, <1>4, <1>5, <1>6, <1>7 DEF UserStep

-----------------------------------------------------------------------------
(***************************************************************************)
(* Worker threads.                                                         *)
(***************************************************************************)

\* The walk of the timeout service passes by threads that are not to be woken.
LEMMA NoneBeforeFirst ==
  ASSUME NEW T, NEW q \in Seq(T), NEW k,
         k = SelectInSeq(q, LAMBDA t : TimedOut(t) /\ "Stopped" \notin status[t])
  PROVE  \A i \in 1..Len(q) : k = 0 \/ i < k =>
           ~(TimedOut(q[i]) /\ "Stopped" \notin status[q[i]])
<1> DEFINE I == {i \in 1..Len(q) : TimedOut(q[i]) /\ "Stopped" \notin status[q[i]]}
           x == Min(I)
<1>1. k = IF I # {} THEN x ELSE 0
  BY Zenon DEF SelectInSeq
<1>2. Len(q) \in Nat /\ I \subseteq 1..Len(q)
  OBVIOUS
<1>3. I # {} => x \in I /\ \A z \in I : x <= z
  <2> SUFFICES ASSUME I # {}  PROVE x \in I /\ \A z \in I : x <= z
    OBVIOUS
  <2>1. \E y \in I : \A z \in I : y <= z
    <3> HIDE DEF I
    <3> QED  BY <1>2, MinExists
  <2> QED  BY <2>1, Zenon DEF Min
<1> HIDE DEF x
<1> SUFFICES ASSUME NEW i \in 1..Len(q), k = 0 \/ i < k, i \in I
             PROVE  FALSE
  OBVIOUS
<1>4. I # {} /\ x \in I /\ x <= i /\ k = x
  BY <1>1, <1>3
<1> HIDE DEF I
<1> QED  BY <1>2, <1>4

\* The walk of the blocked list: it unblocks at most one thread, which is in
\* that list, and takes the flag "Blocked" only from stopped threads besides.
LEMMA ServiceKept ==
  ASSUME IInv, KeptInv, NEW w \in Workers, ServiceTimeouts(w)
  PROVE  Kept
<1> USE ThreadsAssumption
<1> DEFINE B == lists["blocked"]
           k == SelectInSeq(B, LAMBDA t : TimedOut(t) /\ "Stopped" \notin status[t])
           woken == {t \in Threads : /\ TimedOut(t)
                                     /\ \E i \in 1..Len(B) :
                                          B[i] = t /\ (k = 0 \/ i <= k)}
<1>1. /\ cur = w /\ phase = "run" /\ inCall[w] = "none" /\ w \in Threads
      /\ inCall' = [inCall EXCEPT ![w] = "served"]
      /\ UNCHANGED <<cur, sleepTime, instance, signal>>
  BY DEF ServiceTimeouts, Runs, Threads
<1>2. /\ status \in [Threads -> SUBSET Flags] /\ inCall \in [Threads -> CallPoints]
      /\ B \in Seq(Threads) /\ "blocked" \in ListNames
  BY DEF IInv, TypeOK, ListNames
<1>3. k = SelectInSeq(B, LAMBDA t : TimedOut(t) /\ "Stopped" \notin status[t])
  BY Zenon
<1> HIDE DEF B, k
<1>4. /\ k \in 0..Len(B) /\ Len(B) \in Nat
      /\ k # 0 => TimedOut(B[k]) /\ "Stopped" \notin status[B[k]]
      /\ \A i \in 1..Len(B) : k = 0 \/ i < k =>
           ~(TimedOut(B[i]) /\ "Stopped" \notin status[B[i]])
  <2>1. /\ k \in 0..Len(B)
        /\ k # 0 => TimedOut(B[k]) /\ "Stopped" \notin status[B[k]]
    BY <1>2, <1>3, FirstTimedOut
  <2>2. \A i \in 1..Len(B) : k = 0 \/ i < k =>
           ~(TimedOut(B[i]) /\ "Stopped" \notin status[B[i]])
    BY <1>2, <1>3, NoneBeforeFirst
  <2> QED  BY <1>2, <2>1, <2>2
<1>5. /\ status' = [t \in Threads |-> IF t \in woken THEN UnblockedStatus(t) ELSE status[t]]
      /\ IF k # 0 THEN Unblock(B[k], sleepTime)
         ELSE UNCHANGED <<lists, effectivePriority, timer, needReschedule>>
  BY Zenon DEF ServiceTimeouts, B, k
<1>6. \A x \in woken : "Stopped" \in status[x] \/ (k # 0 /\ x = B[k])
  <2> SUFFICES ASSUME NEW x \in woken, "Stopped" \notin status[x]
               PROVE  k # 0 /\ x = B[k]
    OBVIOUS
  <2>1. PICK i \in 1..Len(B) : B[i] = x /\ (k = 0 \/ i <= k)
    OBVIOUS
  <2>2. ~(k = 0 \/ i < k)
    BY <1>4, <2>1
  <2> QED  BY <1>4, <2>1, <2>2
<1>7. /\ k # 0 => B[k] \in woken
      /\ \A x \in woken : "Blocked" \in status[x]
  BY <1>2, <1>4 DEF TimedOut
<1> HIDE DEF woken
<1>8. \A x \in Threads : (k # 0 => x # B[k]) => Frame(x)
  <2> SUFFICES ASSUME NEW x \in Threads, k # 0 => x # B[k]  PROVE Frame(x)
    OBVIOUS
  <2>1. status'[x] = status[x]
        \/ (status'[x] = status[x] \ {"Blocked"} /\ "Stopped" \in status[x])
    BY <1>5, <1>6 DEF UnblockedStatus
  <2> QED  BY <1>1, <2>1 DEF Frame
<1>9. SignalFrame
  BY <1>1 DEF SignalFrame
<1>10. CallInv => \A x \in Threads : inCall[x] \notin Window /\ inCall'[x] \notin Window
  <2>1. CallInv => \A x \in Threads : inCall[x] \notin Window
    BY <1>1, Calm DEF Window
  <2> QED  BY <1>1, <1>2, <2>1 DEF Window
<1>11. CASE k = 0
  BY <1>1, <1>5, <1>8, <1>9, <1>10, <1>11, FrameKept
<1>12. CASE k # 0
  <2> DEFINE u == B[k]
  <2>1. u \in Threads /\ u \in Members(lists, "blocked")
    <3>1. k \in DOMAIN B
      BY <1>2, <1>4, <1>12
    <3>2. u \in ToSet(B) /\ u \in Threads
      BY <1>2, <3>1 DEF ToSet
    <3> QED  BY <3>2 DEF Members, B
  <2>2. Unblock(u, sleepTime) /\ u \in woken /\ "Stopped" \notin status[u]
    BY <1>4, <1>5, <1>7, <1>12
  <2>3. \A x \in Threads : x # u => Frame(x)
    BY <1>8, <1>12
  <2> HIDE DEF u
  <2>4. u # cur
    BY <1>2, <2>1, ListedFacts
  <2>5. status[u] \cap Holds # {} /\ status'[u] = (status[u] \ {"Blocked"}) \cup {"Ready"}
    BY <1>5, <1>7, <2>1, <2>2 DEF UnblockedStatus, Holds
  <2>6. /\ "Term" \in status'[u] => "Term" \in status[u]
        /\ "Signal" \in status'[u] => "Signal" \in status[u]
    BY <2>5
  <2> QED  BY <1>1, <1>9, <1>10, <2>1, <2>2, <2>3, <2>4, <2>5, <2>6, UnblockKept
<1> QED  BY <1>11, <1>12

\* The worker threads and the interrupts they serve keep the invariants.
LEMMA WorkerKept ==
  ASSUME CallersFollowContract, IInv, KeptInv, NEW w \in Workers,
         WorkerStep(w) \/ DeviceIRQ(w)
  PROVE  Kept
<1> USE ThreadsAssumption, NumbersAssumption
<1>1. w \in Threads /\ w \notin User
  BY DEF Threads
<1>2. CASE DeviceIRQ(w)
  <2>1. /\ "Blocked" \in status[w] /\ ThreadUnblock(w)
        /\ UNCHANGED <<cur, sleepTime, instance, inCall>>
        /\ Atomic => cur = None \/ inCall[cur] \notin Window
        /\ signal' = signal \/ (cur # None /\ signal' = [signal EXCEPT ![cur] = 0])
    BY <1>2 DEF DeviceIRQ, InterruptsEnabled, Atomic, Window
  <2>2. w # cur
    <3>1. cur # None /\ inCall[cur] # "block" => status[cur] \cap Holds = {}
      BY InvFacts
    <3>2. inCall[w] # "block"
      BY DEF IInv, RestInv, WorkersServe
    <3> QED  BY <1>1, <2>1, <3>1, <3>2 DEF Holds
  <2>3. SignalFrame
    <3>1. signal \in [Threads -> Signals \cup {0}]
      BY DEF IInv, TypeOK
    <3> QED  BY <2>1, <3>1 DEF SignalFrame
  <2> QED  BY <1>1, <2>1, <2>2, <2>3, Calm, ThreadUnblockKept
<1>3. ASSUME NEW u \in User, UnblockOther(w, u)  PROVE Kept
  BY <1>1, <1>3, OtherKept
<1>4. CASE ServiceTimeouts(w)
  BY <1>4, ServiceKept
<1>5. CASE WorkDone(w)
  <2>1. /\ cur = w /\ cur' = None /\ phase = "run"
        /\ inCall' = [inCall EXCEPT ![w] = "none"]
        /\ UNCHANGED <<instance, signal>>
    BY <1>5 DEF WorkDone
  <2>2. /\ status \in [Threads -> SUBSET Flags] /\ sleepTime \in [Threads -> Nat]
        /\ inCall \in [Threads -> CallPoints]
        /\ "sleep" \in ListNames /\ "blocked" \in ListNames
        /\ \A n \in ListNames : w \notin Members(lists, n)
        /\ "Term" \notin status[w]
    BY <1>1, <2>1, CallerFacts
  <2>3. CallInv => \A x \in Threads : /\ x # w => inCall[x] \notin Window
                                      /\ inCall'[x] \notin Window
    BY <2>1, <2>2 DEF CallInv, WindowRuns, Window
  <2>4. SignalInv => signal'[w] = 0
    BY <2>1 DEF SignalInv
  <2>5. SignalFrame
    BY <2>1 DEF SignalFrame
  <2>6. CASE job[w] = "Periodic"
    <3>1. /\ arrivalTime' = [arrivalTime EXCEPT ![w] = @ + JobPeriod]
          /\ sleepTime' = [sleepTime EXCEPT ![w] = arrivalTime'[w]]
          /\ status' = [status EXCEPT ![w] = (@ \ {"Ready"}) \cup {"New"}]
          /\ Sleep(w, sleepTime', "dispatch")
      BY <1>5, <2>6 DEF WorkDone
    <3>2. MovesTo(w, "sleep")
      BY <1>1, <2>2, <3>1, SleepMovesTo
    <3>3. \A x \in Threads : x # w => Frame(x)
      BY <1>1, <2>1, <2>2, <3>1 DEF Frame
    <3>4. arrivalTime \in [Threads -> Nat]
      BY DEF IInv, TypeOK
    <3>5. sleepTime'[w] = arrivalTime[w] + JobPeriod
      BY <1>1, <2>2, <3>1, <3>4
    <3>6. sleepTime'[w] > 0 /\ "Term" \notin status'[w]
      BY <1>1, <2>2, <3>1, <3>4, <3>5
    <3> QED  BY <1>1, <2>1, <2>2, <2>3, <2>4, <2>5, <3>2, <3>3, <3>6, MoveKept
  <2>7. CASE job[w] # "Periodic"
    <3>1. /\ status' = [status EXCEPT ![w] = (@ \ {"Ready"}) \cup {"New", "Blocked"}]
          /\ lists' = AddTail(lists, "blocked", w) /\ UNCHANGED sleepTime
      BY <1>5, <2>7 DEF WorkDone
    <3>2. MovesTo(w, "blocked")
      BY <1>1, <2>2, <3>1, AddTailMovesTo
    <3>3. \A x \in Threads : x # w => Frame(x)
      BY <1>1, <2>1, <2>2, <3>1 DEF Frame
    <3>4. "Term" \notin status'[w] /\ status'[w] \cap Holds # {}
      BY <1>1, <2>2, <3>1 DEF Holds
    <3> QED  BY <1>1, <2>1, <2>2, <2>3, <2>4, <2>5, <3>2, <3>3, <3>4, MoveKept
  <2> QED  BY <2>6, <2>7
<1> QED  BY <1>2, <1>3, <1>4, <1>5 DEF WorkerStep

-----------------------------------------------------------------------------
\* The invariants hold after boot.
LEMMA InitKept == Init => KeptInv /\ CallInv /\ SignalInv
<1> SUFFICES ASSUME Init  PROVE KeptInv /\ CallInv /\ SignalInv
  OBVIOUS
<1> USE ThreadsAssumption
<1>1. /\ Members(lists, "ready") = {MainThread}
      /\ Members(lists, "sleep") = {ServiceThread} \ {None}
      /\ Members(lists, "blocked") = Workers \ {ServiceThread}
      /\ Members(lists, "wait") = {}
  BY InitLists
<1>2. Running = {} /\ MainThread \in Threads /\ ServiceThread \notin User
  BY DEF Init, Running, Threads
<1>3. \A t \in Threads :
        /\ "Term" \notin status[t] /\ "Stopped" \notin status[t]
        /\ "Ready" \in status[t] => t \in {MainThread, ServiceThread}
        /\ t \in Workers \ {ServiceThread} => "Blocked" \in status[t]
        /\ instance[t] = 1 /\ signal[t] = 0 /\ inCall[t] = "none"
  BY DEF Init, Threads
<1>4. sleepTime[MainThread] = 0 /\ (ServiceThread # None => sleepTime[ServiceThread] = 1)
  BY <1>2 DEF Init, Threads
<1>5. SleepTimes
  BY <1>1, <1>2, <1>4 DEF SleepTimes
<1>6. EndedGone /\ NoThreadLost
  <2>1. \A t \in Workers \cup {MainThread} : t \in Listed(lists)
    <3>1. \A n \in ListNames : Members(lists, n) \subseteq Listed(lists)
      BY DEF Listed
    <3>2. \A t \in Workers : t # None
      BY DEF Threads
    <3>3. "ready" \in ListNames /\ "sleep" \in ListNames /\ "blocked" \in ListNames
      BY DEF ListNames
    <3> QED  BY <1>1, <3>1, <3>2, <3>3
  <2> QED  BY <1>3, <2>1 DEF EndedGone, NoThreadLost
<1>7. CallInv
  <2>1. WindowRuns /\ WindowFlags /\ WaitersWait
    BY <1>1, <1>3 DEF WindowRuns, WindowFlags, WaitersWait, Window
  <2>2. BlockedHeld
    BY <1>1, <1>3 DEF BlockedHeld, Holds
  <2> QED  BY <2>1, <2>2 DEF CallInv
<1>8. SignalInv
  BY <1>3 DEF SignalInv, Threads
<1> QED  BY <1>5, <1>6, <1>7, <1>8 DEF KeptInv

\* Every step keeps the invariants, if applications follow the contract.
LEMMA NextKept ==
  ASSUME CallersFollowContract  PROVE IInv /\ KeptInv /\ [Next]_vars => Kept
<1> SUFFICES ASSUME IInv, KeptInv, [Next]_vars  PROVE Kept
  OBVIOUS
<1>1. CASE UNCHANGED vars
  <2>1. UNCHANGED <<lists, cur, status, sleepTime, instance, signal, inCall, phase>>
    BY <1>1 DEF vars, attrVars
  <2> QED  BY <2>1, IdleKept
<1>2. CASE Next
  <2>1. IrqWorkers \subseteq Workers
    BY ThreadsAssumption
  <2> QED  BY <1>2, <2>1, DispatchKept, DeliverKept, UserKept, WorkerKept DEF Next
<1> QED  BY <1>1, <1>2

\* The part that does not depend on interrupts.
LEMMA KeptInvariant ==
  ASSUME CallersFollowContract  PROVE Spec => [](IInv /\ KeptInv)
<1>1. Init => IInv /\ KeptInv
  BY InitHolds, InitKept
<1>2. IInv /\ KeptInv /\ [Next]_vars => (IInv /\ KeptInv)'
  BY NextKeeps, NextKept DEF Kept
<1> QED  BY <1>1, <1>2, PTL DEF Spec

\* A worker, and a user thread that has been started and has not ended, runs or
\* is in a list the kernel will look at: no order of sleeping, blocking, waiting,
\* stopping, resuming, timeouts and interrupts loses a thread.
THEOREM ThreadsAreKept ==
  ASSUME CallersFollowContract  PROVE Spec => []NoThreadLost
<1>1. KeptInv => NoThreadLost
  BY DEF KeptInv
<1> QED  BY <1>1, KeptInvariant, PTL

\* Without nested interrupts the list a thread is in agrees with its flags, so
\* that Thread::unblock and signal() have an effect on every thread they are to
\* wake, and a thread that can run carries no flag that would hold it.
THEOREM ThreadsStayWakeable ==
  ASSUME CallersFollowContract, ~NestedInterrupts  PROVE Spec => []Wakeable
<1>1. Init => IInv /\ KeptInv /\ CallInv
  BY InitHolds, InitKept
<1>2. IInv /\ KeptInv /\ CallInv /\ [Next]_vars => (IInv /\ KeptInv /\ CallInv)'
  BY NextKeeps, NextKept DEF Kept, Atomic
<1>3. IInv /\ KeptInv /\ CallInv => Wakeable
  <2> SUFFICES ASSUME IInv, KeptInv, CallInv, NEW t \in Threads
               PROVE  /\ t \in Members(lists, "blocked") => status[t] \cap Holds # {}
                      /\ t \in Members(lists, "sleep") => sleepTime[t] > 0
                      /\ t \in Members(lists, "wait") => "Signal" \in status[t] /\ signal[t] # 0
                      /\ t \in Members(lists, "ready") \cup Running /\ inCall[t] # "block"
                           => status[t] \cap {"Blocked", "Stopped", "Term"} = {}
    BY DEF Wakeable, Holds
  <2>1. t \in Members(lists, "ready") \cup Running => t \in Placements
    BY DEF Placements, Listed, ListNames
  <2>2. t \in Members(lists, "ready") \cup Running => "Term" \notin status[t]
    BY <2>1 DEF KeptInv, EndedGone
  <2>3. t \in Members(lists, "ready") \cup Running /\ inCall[t] # "block"
          => status[t] \cap Holds = {}
    BY DEF IInv, PlaceInv, Clean
  <2> QED  BY <2>2, <2>3 DEF KeptInv, SleepTimes, CallInv, BlockedHeld, WaitersWait, Waits, Holds
<1> QED  BY <1>1, <1>2, <1>3, PTL DEF Spec

-----------------------------------------------------------------------------
(***************************************************************************)
(* Threads are not released early.                                         *)
(***************************************************************************)

\* No thread of the sleep list becomes ready in this step.
NoneReleased ==
  \A x \in Members(lists, "sleep") : x \notin Members(lists', "ready")

\* A move of one thread releases none, unless it is from sleep to ready.
LEMMA MoveReleases ==
  ASSUME IInv, NEW t, NEW n \in ListNames, MovesTo(t, n),
         n = "ready" => t \notin Members(lists, "sleep")
  PROVE  NoneReleased
<1>1. "ready" \in ListNames /\ "sleep" \in ListNames /\ "ready" # "sleep"
  BY DEF ListNames
<1>2. Members(lists, "ready") \cap Members(lists, "sleep") = {}
  BY <1>1, InvFacts DEF Disjoint
<1> QED  BY <1>1, <1>2 DEF MovesTo, NoneReleased

\* Nor does a step after which the lists have no new members.
LEMMA StayReleases ==
  ASSUME IInv, \A m \in ListNames : Members(lists', m) \subseteq Members(lists, m)
  PROVE  NoneReleased
<1>1. "ready" \in ListNames /\ "sleep" \in ListNames /\ "ready" # "sleep"
  BY DEF ListNames
<1>2. Members(lists, "ready") \cap Members(lists, "sleep") = {}
  BY <1>1, InvFacts DEF Disjoint
<1> QED  BY <1>1, <1>2 DEF NoneReleased

\* SingleCPUDispatcher::unblock leaves a thread with sleep time left asleep.
LEMMA UnblockReleases ==
  ASSUME IInv, KeptInv, NEW t \in Threads, Unblock(t, sleepTime)
  PROVE  NoneReleased
<1>1. "ready" \in ListNames /\ "sleep" \in ListNames
  BY DEF ListNames
<1>2. PICK n \in {"ready", "sleep"} : /\ MovesTo(t, n)
                                      /\ n = "sleep" <=> sleepTime[t] > 0
  BY UnblockMoves
<1>3. n = "ready" => t \notin Members(lists, "sleep")
  BY <1>2 DEF KeptInv, SleepTimes
<1> QED  BY <1>1, <1>2, <1>3, MoveReleases

\* A sleeping thread becomes ready only when dispatch() finds it due.
LEMMA Releases ==
  ASSUME CallersFollowContract, IInv, KeptInv, [Next]_vars
  PROVE  \A t \in Threads :
           t \in Members(lists, "sleep") /\ t \in Members(lists', "ready")
             => sleepTime[t] <= now + ARCH_DELAY
<1> USE ThreadsAssumption
<1>1. NoneReleased => \A t \in Threads :
           t \in Members(lists, "sleep") /\ t \in Members(lists', "ready")
             => sleepTime[t] <= now + ARCH_DELAY
  BY DEF NoneReleased
<1>2. "ready" \in ListNames /\ "sleep" \in ListNames /\ "blocked" \in ListNames
      /\ "wait" \in ListNames
  BY DEF ListNames
<1>3. cur # None => /\ cur \in Threads
                    /\ \A n \in ListNames : cur \notin Members(lists, n)
  BY InvFacts
<1>4. User \subseteq Threads /\ Workers \subseteq Threads /\ MayStop \subseteq User
      /\ IrqWorkers \subseteq Workers
  BY DEF Threads
<1>5. ASSUME UNCHANGED lists  PROVE NoneReleased
  BY <1>5, StayReleases
<1>6. ASSUME NEW t \in Threads, ThreadUnblock(t)  PROVE NoneReleased
  BY <1>5, <1>6, UnblockReleases DEF ThreadUnblock
<1>7. CASE ScanWake
  <2> DEFINE t == Sleeper
  <2>1. Due(t) /\ Enter(t, EnterPriority(t), "scan") /\ scan <= Len(lists["sleep"])
    BY <1>7 DEF ScanWake
  <2>2. t \in Members(lists, "sleep")
    <3>1. lists["sleep"] \in Seq(Threads) /\ scan \in Nat /\ scan >= 1
      BY DEF IInv, TypeOK, ListNames
    <3>2. scan \in DOMAIN lists["sleep"]
      BY <2>1, <3>1
    <3> QED  BY <3>2 DEF Sleeper, Members, ToSet
  <2> HIDE DEF t
  <2>3. t \in Threads /\ t \notin Members(lists, "ready")
    BY <1>2, <2>2, ListedFacts
  <2>4. MovesTo(t, "ready")
    BY <2>1, <2>3, EnterMovesTo
  <2>5. \A x \in Threads : x \in Members(lists, "sleep") /\ x \in Members(lists', "ready") => x = t
    <3>1. Members(lists, "ready") \cap Members(lists, "sleep") = {}
      BY <1>2, InvFacts DEF Disjoint
    <3> QED  BY <1>2, <2>4, <3>1 DEF MovesTo
  <2> QED  BY <2>1, <2>5 DEF Due
<1>8. CASE DispatchBegin
  <2>1. CASE cur = None
    BY <1>1, <1>5, <1>8, <2>1 DEF DispatchBegin
  <2>2. CASE cur # None
    <3>1. Enter(cur, EnterPriority(cur), "scan")
      BY <1>8, <2>2 DEF DispatchBegin
    <3>2. MovesTo(cur, "ready")
      BY <1>2, <1>3, <2>2, <3>1, EnterMovesTo
    <3> QED  BY <1>1, <1>2, <1>3, <2>2, <3>2, MoveReleases
  <2> QED  BY <2>1, <2>2
<1>9. CASE RunNext
  <2>1. lists \in [ListNames -> Seq(Threads)] /\ Disjoint(lists) /\ lists["ready"] # <<>>
        /\ lists' = TakeHead(lists)
    BY <1>9, InvFacts DEF ListType, RunNext
  <2>2. \A m \in ListNames : Members(lists', m) \subseteq Members(lists, m)
    BY <2>1, TakeHeadSound
  <2> QED  BY <1>1, <2>2, StayReleases
<1>10. CASE SignalVisit
  <2> DEFINE t == Head(todo)
  <2>1. /\ phase = "signal" /\ todo # <<>>
        /\ \/ UNCHANGED lists
           \/ lists' = AddTail(lists, "blocked", t)
           \/ lists' = AddTail(lists, "sleep", t)
           \/ Enter(t, EnterPriority(t), phase)
    BY <1>10 DEF SignalVisit
  <2>2. t \in Members(lists, "wait")
    <3>1. ToSet(todo) \subseteq Members(lists, "wait") /\ todo \in Seq(Threads)
      BY <2>1 DEF IInv, RestInv, TodoWaits, TypeOK
    <3>2. 1 \in DOMAIN todo /\ t = todo[1]
      BY <2>1, <3>1
    <3> QED  BY <3>1, <3>2 DEF ToSet
  <2> HIDE DEF t
  <2>3. t \in Threads /\ t \notin Members(lists, "ready") /\ t \notin Members(lists, "sleep")
    BY <1>2, <2>2, ListedFacts
  <2>4. ASSUME NEW n \in ListNames, lists' = AddTail(lists, n, t)  PROVE NoneReleased
    BY <2>3, <2>4, AddTailMovesTo, MoveReleases
  <2>5. ASSUME Enter(t, EnterPriority(t), phase)  PROVE NoneReleased
    BY <1>2, <2>3, <2>5, EnterMovesTo, MoveReleases
  <2> QED  BY <1>1, <1>2, <1>5, <2>1, <2>4, <2>5
<1>11. CASE \E t \in User : UserStep(t)
  <2>1. PICK t \in User : UserStep(t)
    BY <1>11
  <2>2. CASE \/ \E d \in Timeouts : BlockBegin(t, d)
             \/ \E sig \in Signals : SigwaitBegin(t, sig) \/ SignalBegin(t, sig)
    BY <1>1, <1>5, <2>2 DEF BlockBegin, SigwaitBegin, SignalBegin
  <2>3. CASE \E u \in User : UnblockOther(t, u)
    BY <1>1, <1>4, <1>6, <2>3 DEF UnblockOther
  <2>4. CASE BlockEnd(t) \/ SigwaitEnd(t)
    <3>1. PICK n \in {"blocked", "wait"} : lists' = AddTail(lists, n, t)
      BY <2>4 DEF BlockEnd, SigwaitEnd
    <3>2. n \in ListNames /\ n # "ready" /\ t \in Threads
      BY <1>2, <1>4
    <3> QED  BY <1>1, <3>1, <3>2, AddTailMovesTo, MoveReleases
  <2>5. CASE InstanceEnds(t) \/ \E d \in Delays : ThreadSleep(t, d)
    <3>1. cur = t /\ Sleep(t, sleepTime', "dispatch") /\ t \in Threads /\ t # None
      BY <1>4, <2>5 DEF InstanceEnds, ThreadSleep, Runs
    <3>2. MovesTo(t, "sleep")
      BY <1>2, <1>3, <3>1, SleepMovesTo
    <3> QED  BY <1>1, <1>2, <3>2, MoveReleases
  <2>6. CASE \E u \in User : ThreadRun(t, u)
    <3>1. PICK u \in User : ThreadRun(t, u)
      BY <2>6
    <3>2. u \in Threads /\ \A n \in ListNames : u \notin Members(lists, n)
      BY <1>4, <3>1 DEF ThreadRun, NeverStarted, Listed
    <3>3. PICK n \in {"ready", "sleep"} : MovesTo(u, n)
      <4>1. Sleep(u, sleepTime, "dispatch") \/ Enter(u, ComputedPriority(u), "dispatch")
        BY <3>1 DEF ThreadRun
      <4> QED  BY <1>2, <3>2, <4>1, SleepMovesTo, EnterMovesTo
    <3> QED  BY <1>1, <1>2, <3>2, <3>3, MoveReleases
  <2>7. CASE \E u \in MayStop : ThreadStop(t, u)
    <3>1. PICK u \in MayStop : UNCHANGED lists \/ lists' = AddTail(lists, "blocked", u)
      BY <2>7 DEF ThreadStop
    <3>2. u \in Threads /\ "blocked" # "ready"
      BY <1>4
    <3> QED  BY <1>1, <1>2, <1>5, <3>1, <3>2, AddTailMovesTo, MoveReleases
  <2>8. CASE \E u \in MayStop : ThreadResume(t, u)
    <3>1. PICK u \in MayStop : UNCHANGED lists \/ Unblock(u, sleepTime)
      BY <2>8 DEF ThreadResume
    <3>2. u \in Threads
      BY <1>4
    <3> QED  BY <1>1, <1>5, <3>1, <3>2, UnblockReleases
  <2>9. CASE ThreadExit(t)
    <3>1. lists \in [ListNames -> Seq(Threads)] /\ lists' = Detach(lists, t)
      BY <2>9, InvFacts DEF ListType, ThreadExit
    <3>2. \A m \in ListNames : Members(lists', m) \subseteq Members(lists, m)
      BY <3>1, DetachLists
    <3> QED  BY <1>1, <3>2, StayReleases
  <2>10. CASE \E w \in Workers, d \in Delays, kind \in {"Timed", "Periodic"} :
                AssignJob(t, w, kind, d)
    <3>1. PICK w \in Workers : lists' = AddTail(lists, "sleep", w)
      BY <2>10 DEF AssignJob
    <3>2. w \in Threads /\ "sleep" # "ready"
      BY <1>4
    <3> QED  BY <1>1, <1>2, <3>1, <3>2, AddTailMovesTo, MoveReleases
  <2> QED  BY <2>1, <2>2, <2>3, <2>4, <2>5, <2>6, <2>7, <2>8, <2>9, <2>10 DEF UserStep
<1>12. CASE \E w \in Workers : WorkerStep(w) \/ DeviceIRQ(w)
  <2>1. PICK w \in Workers : WorkerStep(w) \/ DeviceIRQ(w)
    BY <1>12
  <2>2. w \in Threads /\ w # None
    BY <1>4
  <2>3. CASE DeviceIRQ(w)
    BY <1>1, <1>6, <2>2, <2>3 DEF DeviceIRQ
  <2>4. CASE \E u \in User : UnblockOther(w, u)
    BY <1>1, <1>4, <1>6, <2>4 DEF UnblockOther
  <2>5. CASE ServiceTimeouts(w)
    <3> DEFINE B == lists["blocked"]
               k == SelectInSeq(B, LAMBDA t : TimedOut(t) /\ "Stopped" \notin status[t])
    <3>1. B \in Seq(Threads)
      BY DEF IInv, TypeOK, ListNames
    <3>2. k = SelectInSeq(B, LAMBDA t : TimedOut(t) /\ "Stopped" \notin status[t])
      BY Zenon
    <3>3. IF k # 0 THEN Unblock(B[k], sleepTime) ELSE UNCHANGED lists
      BY <2>5 DEF ServiceTimeouts
    <3> HIDE DEF B, k
    <3>4. k \in 0..Len(B)
      BY <3>1, <3>2, FirstTimedOut
    <3>5. CASE k = 0
      BY <1>1, <1>5, <3>3, <3>5
    <3>6. CASE k # 0
      <4>1. B[k] \in Threads
        BY <3>1, <3>4, <3>6
      <4> QED  BY <1>1, <3>3, <3>6, <4>1, UnblockReleases
    <3> QED  BY <3>5, <3>6
  <2>6. CASE WorkDone(w)
    <3>1. cur = w /\ (Sleep(w, sleepTime', "dispatch") \/ lists' = AddTail(lists, "blocked", w))
      BY <2>6 DEF WorkDone
    <3>2. PICK n \in {"sleep", "blocked"} : MovesTo(w, n)
      BY <1>2, <1>3, <2>2, <3>1, SleepMovesTo, AddTailMovesTo
    <3> QED  BY <1>1, <1>2, <3>2, MoveReleases
  <2> QED  BY <2>1, <2>3, <2>4, <2>5, <2>6 DEF WorkerStep
<1>13. CASE ScanSkip \/ RunIdle \/ SignalEnd \/ ClockTick \/ TimerIRQ \/ UNCHANGED vars
  BY <1>1, <1>5, <1>13 DEF ScanSkip, RunIdle, SignalEnd, ClockTick, TimerIRQ, vars
<1> QED
  BY <1>4, <1>7, <1>8, <1>9, <1>10, <1>11, <1>12, <1>13 DEF Next, DispatchStep, Deliver

\* Thread::sleep lasts: a thread in the sleep list, whoever put it there, becomes
\* ready only once its wake-up time is within the look-ahead of the dispatcher;
\* unblock(), a signal and task_resume leave it asleep until then.
THEOREM SleepIsNotCutShort ==
  ASSUME CallersFollowContract  PROVE Spec => NoEarlyRelease
<1>1. IInv /\ KeptInv /\ [Next]_vars =>
        [\A t \in Threads :
           t \in Members(lists, "sleep") /\ t \in Members(lists', "ready")
             => sleepTime[t] <= now + ARCH_DELAY]_vars
  BY Releases
<1> QED  BY <1>1, KeptInvariant, PTL DEF Spec, NoEarlyRelease

-----------------------------------------------------------------------------
(***************************************************************************)
(* A wait for a signal ends by the signal.                                 *)
(***************************************************************************)

\* The wait ends for a thread that is taken from the ready queue, or that is
\* restored after an interrupt: neither is in the wait list or in a window.
LEMMA WaitEnds ==
  ASSUME Atomic, IInv, KeptInv, CallInv, SignalInv, [Next]_vars
  PROVE  \A t \in Threads \ MayStop : signal[t] # 0 /\ signal'[t] = 0 => "Signal" \notin status[t]
<1> USE ThreadsAssumption, NumbersAssumption
<1>1. signal \in [Threads -> Signals \cup {0}] /\ "wait" \in ListNames /\ "ready" \in ListNames
  BY DEF IInv, TypeOK, ListNames
<1>2. CASE UNCHANGED signal
  BY <1>2
<1>3. ASSUME NEW x \in Threads, x \notin Members(lists, "wait"), inCall[x] \notin Window,
             signal' \in {signal, [signal EXCEPT ![x] = 0]}
      PROVE  \A t \in Threads \ MayStop : signal[t] # 0 /\ signal'[t] = 0 => "Signal" \notin status[t]
  BY <1>1, <1>3 DEF SignalInv, Window
<1>4. CASE RunNext
  <2> DEFINE x == Head(lists["ready"])
  <2>1. phase = "scan" /\ lists["ready"] # <<>> /\ signal' \in {signal, [signal EXCEPT ![x] = 0]}
    BY <1>4 DEF RunNext, ScanEnds
  <2>2. x \in Members(lists, "ready")
    <3>1. lists["ready"] \in Seq(Threads)
      BY <1>1 DEF IInv, TypeOK
    <3>2. x = lists["ready"][1] /\ 1 \in DOMAIN lists["ready"]
      BY <2>1, <3>1
    <3> QED  BY <3>2 DEF Members, ToSet
  <2> HIDE DEF x
  <2>3. x \in Threads /\ x \notin Members(lists, "wait")
    BY <1>1, <2>2, ListedFacts
  <2>4. inCall[x] \notin Window
    BY <2>1, <2>3, Calm
  <2> QED  BY <1>3, <2>1, <2>3, <2>4
<1>5. ASSUME NEW w \in Workers, DeviceIRQ(w)
      PROVE  \A t \in Threads \ MayStop : signal[t] # 0 /\ signal'[t] = 0 => "Signal" \notin status[t]
  <2>1. \/ UNCHANGED signal
        \/ /\ cur # None /\ inCall[cur] \notin Window
           /\ signal' = [signal EXCEPT ![cur] = 0]
    BY <1>5 DEF DeviceIRQ, InterruptsEnabled, Atomic, Window
  <2>2. cur # None => cur \in Threads /\ cur \notin Members(lists, "wait")
    BY <1>1, InvFacts
  <2> QED  BY <1>2, <1>3, <2>1, <2>2
<1>6. ASSUME NEW t \in User, UserStep(t)
      PROVE  \A x \in Threads \ MayStop : signal[x] # 0 /\ signal'[x] = 0 => "Signal" \notin status[x]
  <2>1. ASSUME NEW sig \in Signals, SigwaitBegin(t, sig)
        PROVE  \A x \in Threads \ MayStop : signal[x] # 0 /\ signal'[x] = 0 => "Signal" \notin status[x]
    <3>1. signal' = [signal EXCEPT ![t] = sig] /\ sig # 0
      BY <2>1 DEF SigwaitBegin
    <3> QED  BY <1>1, <3>1
  <2>2. UNCHANGED signal \/ \E sig \in Signals : SigwaitBegin(t, sig)
    BY <1>6 DEF UserStep, ThreadSleep, BlockBegin, BlockEnd, SigwaitEnd, SignalBegin,
                UnblockOther, ThreadRun, ThreadStop, ThreadResume, InstanceEnds,
                ThreadExit, AssignJob
  <2> QED  BY <1>2, <2>1, <2>2
<1>7. ASSUME NEW w \in Workers, WorkerStep(w)  PROVE UNCHANGED signal
  BY <1>7 DEF WorkerStep, UnblockOther, ServiceTimeouts, WorkDone
<1>8. CASE DispatchStep
  BY <1>2, <1>4, <1>8 DEF DispatchStep, DispatchBegin, ScanWake, ScanSkip, RunIdle
<1>9. CASE Deliver \/ ClockTick \/ TimerIRQ \/ UNCHANGED vars
  BY <1>2, <1>9 DEF Deliver, SignalVisit, SignalEnd, ClockTick, TimerIRQ, vars
<1>10. IrqWorkers \subseteq Workers
  OBVIOUS
<1> QED  BY <1>2, <1>5, <1>6, <1>7, <1>8, <1>9, <1>10 DEF Next

\* The waits of threads whose task is never stopped end by the signal.
UnstoppedWaitsEnd ==
  [][\A t \in Threads \ MayStop :
       signal[t] # 0 /\ signal'[t] = 0 => "Signal" \notin status[t]]_vars

\* Thread::sigwait: without nested interrupts, the kernel forgets the signal a
\* thread waits for only after signal() has taken the flag from the thread,
\* however the tasks of other threads are stopped and resumed meanwhile.
THEOREM SignalsEndOtherWaits ==
  ASSUME CallersFollowContract, ~NestedInterrupts  PROVE Spec => UnstoppedWaitsEnd
<1> DEFINE Inv == IInv /\ KeptInv /\ CallInv /\ SignalInv
<1>1. Init => Inv
  BY InitHolds, InitKept
<1>2. Inv /\ [Next]_vars => Inv'
  BY NextKeeps, NextKept DEF Kept, Atomic
<1>3. Inv /\ [Next]_vars =>
        [\A t \in Threads \ MayStop :
           signal[t] # 0 /\ signal'[t] = 0 => "Signal" \notin status[t]]_vars
  BY WaitEnds DEF Atomic
<1> HIDE DEF Inv
<1> QED  BY <1>1, <1>2, <1>3, PTL DEF Spec, UnstoppedWaitsEnd

\* Thread::sigwait: without nested interrupts and without stopped tasks, this is
\* so for every thread.
THEOREM SignalsEndWaits ==
  ASSUME CallersFollowContract, ~NestedInterrupts, MayStop = {}
  PROVE  Spec => WaitEndsBySignal
<1> DEFINE Ends(T) == \A t \in T : signal[t] # 0 /\ signal'[t] = 0 => "Signal" \notin status[t]
<1>1. [Ends(Threads \ MayStop)]_vars => [Ends(Threads)]_vars
  OBVIOUS
<1>2. /\ UnstoppedWaitsEnd <=> [][Ends(Threads \ MayStop)]_vars
      /\ WaitEndsBySignal <=> [][Ends(Threads)]_vars
  BY DEF UnstoppedWaitsEnd, WaitEndsBySignal
<1> HIDE DEF Ends
<1> QED  BY <1>1, <1>2, SignalsEndOtherWaits, PTL

-----------------------------------------------------------------------------
(***************************************************************************)
(* The most urgent ready thread has the CPU, or the timer is pending.      *)
(***************************************************************************)

\* Unless the timer is pending, no thread of the ready queue is more urgent
\* than the running one.  The clock has started, so that a timer set to 1 is
\* pending at once.
Urgent ==
  phase = "run" /\ timer > now =>
    \A x \in Members(lists, "ready") :
      cur # None /\ effectivePriority[cur] >= effectivePriority[x]
UrgencyInv == now >= 1 /\ Urgent

\* A step that only takes threads out of the ready queue.
LEMMA FewerReady ==
  ASSUME IInv, UrgencyInv, phase' = "run" => phase = "run", now' >= now, now' \in Nat,
         UNCHANGED <<cur, timer>>,
         \A x \in Members(lists', "ready") :
           /\ x \in Members(lists, "ready")
           /\ effectivePriority'[x] = effectivePriority[x],
         cur # None => effectivePriority'[cur] = effectivePriority[cur]
  PROVE  UrgencyInv'
<1>1. now \in Nat /\ timer \in Nat
  BY DEF IInv, TypeOK
<1>2. now' >= 1
  BY <1>1 DEF UrgencyInv
<1>3. Urgent'
  BY <1>1 DEF UrgencyInv, Urgent
<1> QED  BY <1>2, <1>3 DEF UrgencyInv

\* A thread that is unblocked and is more urgent makes the timer pending.
LEMMA UnblockUrgent ==
  ASSUME IInv, UrgencyInv, NEW t \in Threads, t # cur, Unblock(t, sleepTime),
         UNCHANGED <<cur, now>>, phase' = "run" => phase = "run"
  PROVE  UrgencyInv'
<1>1. /\ now \in Nat /\ timer \in Nat /\ effectivePriority \in [Threads -> Nat]
      /\ Members(lists, "ready") \subseteq Threads /\ "ready" \in ListNames
      /\ cur # None => cur \in Threads
  BY InvFacts DEF IInv, TypeOK, ListNames
<1>2. MovesTo(t, IF sleepTime[t] > 0 THEN "sleep" ELSE "ready")
  BY UnblockMoves
<1>3. CASE sleepTime[t] > 0
  <2>1. UNCHANGED <<effectivePriority, timer>>
    BY <1>3 DEF Unblock
  <2>2. Members(lists', "ready") \subseteq Members(lists, "ready")
    BY <1>1, <1>2, <1>3 DEF MovesTo
  <2> QED  BY <1>1, <2>1, <2>2, FewerReady
<1>4. CASE ~(sleepTime[t] > 0)
  <2> DEFINE e == EnterPriority(t)
  <2>1. /\ effectivePriority' = e
        /\ IF Preempts(t, e) THEN timer' = 1 ELSE UNCHANGED timer
    BY <1>4 DEF Unblock
  <2>2. e \in [Threads -> Nat] /\ \A x \in Threads : x # t => e[x] = effectivePriority[x]
    BY <1>1, NumbersAssumption DEF EnterPriority, ComputedPriority
  <2>3. Members(lists', "ready") = Members(lists, "ready") \cup {t}
    BY <1>1, <1>2, <1>4 DEF MovesTo
  <2> HIDE DEF e
  <2>4. CASE Preempts(t, e)
    <3>1. timer' = 1 /\ now' >= 1
      BY <1>1, <2>1, <2>4 DEF UrgencyInv
    <3>2. ~(timer' > now')
      BY <1>1, <3>1
    <3> QED  BY <3>1, <3>2 DEF UrgencyInv, Urgent
  <2>5. CASE ~Preempts(t, e)
    <3>1. cur # None /\ e[t] <= e[cur] /\ UNCHANGED timer
      BY <1>1, <2>1, <2>2, <2>5 DEF Preempts
    <3>2. ASSUME phase' = "run", timer' > now', NEW x \in Members(lists', "ready")
          PROVE  effectivePriority'[cur] >= effectivePriority'[x]
      <4>1. CASE x = t
        BY <1>1, <2>1, <2>2, <3>1, <4>1
      <4>2. CASE x # t
        <5>1. x \in Members(lists, "ready") /\ x \in Threads
          BY <1>1, <2>3, <3>2, <4>2
        <5>2. effectivePriority[cur] >= effectivePriority[x]
          BY <3>1, <3>2, <5>1 DEF UrgencyInv, Urgent
        <5> QED  BY <1>1, <2>1, <2>2, <3>1, <4>2, <5>1, <5>2
      <4> QED  BY <4>1, <4>2
    <3> QED  BY <3>1, <3>2 DEF UrgencyInv, Urgent
  <2> QED  BY <2>4, <2>5
<1> QED  BY <1>3, <1>4

\* A step into dispatch() or out of it without a thread to run.
LEMMA NotRunning ==
  ASSUME UrgencyInv, phase' # "run", now' = now
  PROVE  UrgencyInv'
BY DEF UrgencyInv, Urgent

\* dispatch() runs the head of the sorted queue, or nothing is ready.
LEMMA DispatchUrgent ==
  ASSUME IInv, IInv', UrgencyInv, DispatchStep  PROVE UrgencyInv'
<1>1. now' = now
  BY DEF DispatchStep, DispatchBegin, ScanWake, ScanSkip, RunNext, RunIdle, clockVars
<1>2. lists["ready"] \in Seq(Threads) /\ effectivePriority \in [Threads -> Nat]
      /\ "ready" \in ListNames /\ lists \in [ListNames -> Seq(Threads)] /\ Disjoint(lists)
  BY InvFacts DEF ListType, IInv, TypeOK, ListNames
<1>3. CASE RunNext
  <2> DEFINE q == lists["ready"]
             t == Head(q)
  <2>1. q # <<>> /\ cur' = t /\ lists' = TakeHead(lists) /\ UNCHANGED effectivePriority
    BY <1>3 DEF RunNext
  <2>2. t \in Threads /\ Members(lists', "ready") = Members(lists, "ready") \ {t}
    BY <1>2, <2>1, TakeHeadLists, TakeHeadSound
  <2>3. Descending(q, effectivePriority)
    BY DEF IInv, PlaceInv, ReadySorted
  <2>4. 1 \in DOMAIN q /\ t = q[1] /\ DOMAIN q \subseteq Nat
        /\ \A i \in DOMAIN q : i = 1 \/ 1 < i
    BY <1>2, <2>1
  <2> HIDE DEF q, t
  <2>5. \A x \in Members(lists', "ready") : effectivePriority[t] >= effectivePriority[x]
    <3> SUFFICES ASSUME NEW x \in Members(lists, "ready"), x # t
                 PROVE  effectivePriority[t] >= effectivePriority[x]
      BY <2>2
    <3>1. PICK i \in DOMAIN q : q[i] = x
      BY DEF Members, ToSet, q
    <3>2. 1 < i
      BY <2>4, <3>1
    <3> QED  BY <2>3, <2>4, <3>1, <3>2 DEF Descending
  <2>6. t # None
    BY <2>2, ThreadsAssumption
  <2> QED  BY <1>1, <2>1, <2>5, <2>6 DEF UrgencyInv, Urgent
<1>4. CASE RunIdle
  <2>1. lists["ready"] = <<>> /\ UNCHANGED lists
    BY <1>4 DEF RunIdle
  <2>2. Members(lists', "ready") = {}
    BY <2>1 DEF Members, ToSet
  <2> QED  BY <1>1, <2>2 DEF UrgencyInv, Urgent
<1>5. CASE DispatchBegin \/ ScanWake \/ ScanSkip
  <2>1. phase' # "run"
    BY <1>5 DEF DispatchBegin, ScanWake, ScanSkip, Enter
  <2> QED  BY <1>1, <2>1, NotRunning
<1> QED  BY <1>3, <1>4, <1>5 DEF DispatchStep

\* The other steps keep the queue in order with the running thread.
LEMMA NextUrgent ==
  ASSUME CallersFollowContract  PROVE IInv /\ IInv' /\ UrgencyInv /\ [Next]_vars => UrgencyInv'
<1> SUFFICES ASSUME IInv, IInv', UrgencyInv, [Next]_vars  PROVE UrgencyInv'
  OBVIOUS
<1> USE ThreadsAssumption
<1>1. now \in Nat /\ timer \in Nat /\ "ready" \in ListNames /\ "blocked" \in ListNames
      /\ "sleep" \in ListNames /\ User \subseteq Threads /\ Workers \subseteq Threads
      /\ MayStop \subseteq User /\ IrqWorkers \subseteq Workers
      /\ effectivePriority \in [Threads -> Nat] /\ inCall \in [Threads -> CallPoints]
      /\ \A n \in ListNames : Members(lists, n) \subseteq Threads
  BY InvFacts DEF IInv, TypeOK, ListNames, Threads
<1>2. cur # None => cur \in Threads /\ (inCall[cur] # "block" => status[cur] \cap Holds = {})
  BY InvFacts
<1>3. ASSUME UNCHANGED <<lists, cur, effectivePriority, timer, now>>,
             phase' = "run" => phase = "run"
      PROVE  UrgencyInv'
  BY <1>1, <1>3, FewerReady
<1>4. ASSUME NEW t \in Threads, t # cur, ThreadUnblock(t), UNCHANGED <<cur, now>>,
             phase' = "run" => phase = "run"
      PROVE  UrgencyInv'
  <2>1. CASE "Stopped" \in status[t]
    BY <1>3, <1>4, <2>1 DEF ThreadUnblock
  <2>2. CASE "Stopped" \notin status[t]
    BY <1>4, <2>2, UnblockUrgent DEF ThreadUnblock
  <2> QED  BY <2>1, <2>2
<1>5. ASSUME NEW t \in Threads, NEW u \in User, UnblockOther(t, u)  PROVE UrgencyInv'
  <2>1. /\ cur = t /\ inCall[t] = "none" /\ t # None /\ "Blocked" \in status[u]
        /\ ThreadUnblock(u) /\ UNCHANGED <<cur, now, phase>>
    BY <1>5 DEF UnblockOther, Runs
  <2>2. u # cur
    BY <1>2, <2>1 DEF Holds
  <2> QED  BY <1>1, <1>4, <2>1, <2>2
<1>6. CASE DispatchStep
  BY <1>6, DispatchUrgent
<1>7. CASE Deliver \/ TimerIRQ \/ UNCHANGED vars
  <2>1. CASE SignalVisit
    <3>1. now' = now /\ phase' # "run"
      BY <2>1 DEF SignalVisit, clockVars, Enter
    <3> QED  BY <3>1, NotRunning
  <2>2. CASE SignalEnd \/ TimerIRQ
    BY <2>2, NotRunning DEF SignalEnd, TimerIRQ, clockVars
  <2>3. CASE UNCHANGED vars
    BY <1>3, <2>3 DEF vars, clockVars, attrVars
  <2> QED  BY <1>7, <2>1, <2>2, <2>3 DEF Deliver
<1>8. CASE ClockTick
  <2>1. now' = now + 1 /\ UNCHANGED <<lists, cur, effectivePriority, timer, phase>>
    BY <1>8 DEF ClockTick, attrVars
  <2>2. now' \in Nat /\ now' >= now
    BY <1>1, <2>1
  <2> QED  BY <2>1, <2>2, FewerReady
<1>9. ASSUME NEW t \in User, UserStep(t)  PROVE UrgencyInv'
  <2>1. cur = t /\ t \in Threads /\ t # None /\ now' = now
    BY <1>1, <1>9 DEF UserStep, Runs, ThreadSleep, BlockBegin, BlockEnd, SigwaitBegin,
                      SigwaitEnd, SignalBegin, UnblockOther, ThreadRun, ThreadStop,
                      ThreadResume, InstanceEnds, ThreadExit, AssignJob, clockVars
  <2>2. CASE \/ \E d \in Delays : ThreadSleep(t, d)
             \/ \E sig \in Signals : SignalBegin(t, sig)
             \/ \E u \in User : ThreadRun(t, u)
             \/ \E u \in MayStop : ThreadResume(t, u)
             \/ BlockEnd(t) \/ SigwaitEnd(t) \/ InstanceEnds(t) \/ ThreadExit(t)
    <3>1. phase' # "run"
      BY <2>2 DEF ThreadSleep, SignalBegin, ThreadRun, ThreadResume, BlockEnd, SigwaitEnd,
                  InstanceEnds, ThreadExit, Enter, Sleep
    <3> QED  BY <2>1, <3>1, NotRunning
  <2>3. CASE \/ \E d \in Timeouts : BlockBegin(t, d)
             \/ \E sig \in Signals : SigwaitBegin(t, sig)
    BY <1>3, <2>3 DEF BlockBegin, SigwaitBegin, clockVars, attrVars
  <2>4. CASE \E u \in User : UnblockOther(t, u)
    BY <1>5, <2>1, <2>4
  <2>5. ASSUME NEW u \in MayStop, ThreadStop(t, u)  PROVE UrgencyInv'
    <3>1. CASE "Blocked" \in status[u]
      BY <1>3, <2>5, <3>1 DEF ThreadStop, clockVars, attrVars
    <3>2. CASE "Blocked" \notin status[u] /\ u = t
      <4>1. phase' # "run"
        BY <2>5, <3>2 DEF ThreadStop
      <4> QED  BY <2>1, <4>1, NotRunning
    <3>3. CASE "Blocked" \notin status[u] /\ u # t
      <4>1. /\ lists' = AddTail(lists, "blocked", u)
            /\ UNCHANGED <<cur, phase, effectivePriority, timer>>
        BY <2>5, <3>3 DEF ThreadStop, clockVars, attrVars
      <4>2. Members(lists', "ready") \subseteq Members(lists, "ready")
        <5>1. u \in Threads /\ "ready" # "blocked"
          BY <1>1
        <5>2. MovesTo(u, "blocked")
          BY <1>1, <4>1, <5>1, AddTailMovesTo
        <5> QED  BY <1>1, <5>1, <5>2 DEF MovesTo
      <4> QED  BY <1>1, <2>1, <4>1, <4>2, FewerReady
    <3> QED  BY <3>1, <3>2, <3>3
  <2>6. ASSUME NEW w \in Workers, NEW d \in Delays, NEW kind \in {"Timed", "Periodic"},
               AssignJob(t, w, kind, d)
        PROVE  UrgencyInv'
    <3>1. /\ lists' = AddTail(lists, "sleep", w)
          /\ effectivePriority' = [effectivePriority EXCEPT ![w] = Priority[w]]
          /\ UNCHANGED <<cur, phase, timer>>
      BY <2>6 DEF AssignJob, ComputedPriority, clockVars
    <3>2. w \in Threads /\ w # cur /\ "ready" # "sleep"
      BY <1>1, <2>1
    <3>3. Members(lists', "ready") = Members(lists, "ready") \ {w}
      <4>1. MovesTo(w, "sleep")
        BY <1>1, <3>1, <3>2, AddTailMovesTo
      <4> QED  BY <1>1, <3>2, <4>1 DEF MovesTo
    <3>4. \A x \in Threads : x # w => effectivePriority'[x] = effectivePriority[x]
      BY <1>1, <3>1
    <3>5. \A x \in Members(lists', "ready") :
            x \in Members(lists, "ready") /\ effectivePriority'[x] = effectivePriority[x]
      BY <1>1, <3>3, <3>4
    <3> QED  BY <1>1, <1>2, <2>1, <3>1, <3>2, <3>4, <3>5, FewerReady
  <2> QED  BY <1>9, <2>2, <2>3, <2>4, <2>5, <2>6 DEF UserStep
<1>10. ASSUME NEW w \in Workers, DeviceIRQ(w)  PROVE UrgencyInv'
  <2>1. /\ "Blocked" \in status[w] /\ ThreadUnblock(w) /\ UNCHANGED <<cur, now>>
        /\ phase = "run" /\ inCall[w] # "block"
    BY <1>10 DEF DeviceIRQ, InterruptsEnabled, IInv, RestInv, WorkersServe
  <2>2. w \in Threads /\ w # cur
    BY <1>1, <1>2, <2>1 DEF Holds
  <2> QED  BY <1>4, <2>1, <2>2
<1>11. ASSUME NEW w \in Workers, WorkerStep(w)  PROVE UrgencyInv'
  <2>1. CASE \E u \in User : UnblockOther(w, u)
    BY <1>1, <1>5, <2>1
  <2>2. CASE WorkDone(w)
    <3>1. phase' # "run" /\ now' = now
      BY <2>2 DEF WorkDone, Sleep, clockVars
    <3> QED  BY <3>1, NotRunning
  <2>3. CASE ServiceTimeouts(w)
    <3> DEFINE B == lists["blocked"]
               k == SelectInSeq(B, LAMBDA t : TimedOut(t) /\ "Stopped" \notin status[t])
    <3>1. B \in Seq(Threads)
      BY DEF IInv, TypeOK, ListNames
    <3>2. k = SelectInSeq(B, LAMBDA t : TimedOut(t) /\ "Stopped" \notin status[t])
      BY Zenon
    <3>3. /\ IF k # 0 THEN Unblock(B[k], sleepTime)
             ELSE UNCHANGED <<lists, effectivePriority, timer>>
          /\ UNCHANGED <<cur, now, phase>>
      BY <2>3 DEF ServiceTimeouts
    <3>4. \A i \in DOMAIN B : B[i] \in Members(lists, "blocked")
      BY DEF Members, ToSet
    <3> HIDE DEF B, k
    <3>5. k \in 0..Len(B)
      BY <3>1, <3>2, FirstTimedOut
    <3>6. CASE k = 0
      BY <1>3, <3>3, <3>6
    <3>7. CASE k # 0
      <4>1. k \in DOMAIN B
        BY <3>1, <3>5, <3>7
      <4>2. B[k] \in Threads /\ B[k] # cur
        <5>1. B[k] \in Members(lists, "blocked")
          BY <3>4, <4>1
        <5>2. cur # None => cur \notin Members(lists, "blocked")
          BY <1>1, InvFacts
        <5> QED  BY <1>1, <5>1, <5>2
      <4> QED  BY <3>3, <3>7, <4>2, UnblockUrgent
    <3> QED  BY <3>6, <3>7
  <2> QED  BY <1>11, <2>1, <2>2, <2>3 DEF WorkerStep
<1> QED  BY <1>1, <1>6, <1>7, <1>8, <1>9, <1>10, <1>11 DEF Next

\* The running thread is a most urgent one: unless a timer interrupt is pending,
\* no ready thread has a higher effective priority, and the CPU does not idle
\* while a thread is ready.  unblock() from calls, interrupts and the timeout
\* service makes the timer pending whenever it has to.
THEOREM MostUrgentRuns ==
  ASSUME CallersFollowContract  PROVE Spec => []NoPriorityInversion
<1>1. Init => IInv /\ UrgencyInv
  <2>1. Init => UrgencyInv
    BY DEF Init, UrgencyInv, Urgent
  <2> QED  BY <2>1, InitHolds
<1>2. IInv /\ UrgencyInv /\ [Next]_vars => (IInv /\ UrgencyInv)'
  BY NextKeeps, NextUrgent
<1>3. IInv /\ UrgencyInv => NoPriorityInversion
  <2> SUFFICES ASSUME IInv, UrgencyInv, phase = "run", timer > now, lists["ready"] # <<>>
               PROVE  /\ cur # None
                      /\ effectivePriority[cur] >= effectivePriority[Head(lists["ready"])]
    BY DEF NoPriorityInversion
  <2>1. Head(lists["ready"]) \in Members(lists, "ready")
    <3>1. lists["ready"] \in Seq(Threads)
      BY DEF IInv, TypeOK, ListNames
    <3>2. Head(lists["ready"]) = lists["ready"][1] /\ 1 \in DOMAIN lists["ready"]
      BY <3>1
    <3> QED  BY <3>2 DEF Members, ToSet
  <2> QED  BY <2>1 DEF UrgencyInv, Urgent
<1> QED  BY <1>1, <1>2, <1>3, PTL DEF Spec
=============================================================================
