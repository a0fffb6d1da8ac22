-------------------------- MODULE DispatcherProofs --------------------------
(***************************************************************************)
(* For any threads, priorities and times: the dispatcher keeps its types,  *)
(* every thread has one place, the ready queue is sorted, and no list      *)
(* operation fails its assertion.                                          *)
(*                                                                         *)
(* Types hold by themselves.  The other three need the contract of         *)
(* thread_run and task_resume, and one induction together: a thread is     *)
(* moved safely because it is not the running one, which follows from its  *)
(* flags (a running thread is neither blocked nor stopped, but for the     *)
(* window inside Thread::block), from the list it is in, or from never     *)
(* having been dispatched.                                                 *)
(***************************************************************************)
EXTENDS Dispatcher, ThreadListTheorems

\* The flags that keep a thread from the CPU.
Holds == {"Blocked", "Stopped"}

\* A thread that waits for the CPU or for a time, or runs, is neither blocked
\* nor stopped, unless it is in the window of Thread::block.
Clean ==
  \A t \in Members(lists, "ready") \cup Members(lists, "sleep") \cup Running :
    inCall[t] # "block" => status[t] \cap Holds = {}

\* A blocked or stopped thread is not lost.
HeldListed ==
  \A t \in Threads : status[t] \cap Holds # {} => t \in Listed(lists) \cup Running

\* A user thread that runs has been dispatched.
UserStarted == cur \in User => instance[cur] = 2

\* Workers neither call Thread::block nor belong to a task that is stopped.
WorkersServe ==
  \A w \in Workers : inCall[w] \in {"none", "served"} /\ "Stopped" \notin status[w]

\* The threads that signal() has still to visit are in the wait list.
TodoWaits ==
  phase = "signal" => NoDup(todo) /\ ToSet(todo) \subseteq Members(lists, "wait")

\* While dispatch() looks for the next thread, none runs.
ScanIdle == phase = "scan" => cur = None

\* The part that depends on where threads are, and the rest.
PlaceInv == OnePlace /\ ReadySorted /\ Clean /\ HeldListed
RestInv == NoSelfInsert /\ UserStarted /\ WorkersServe /\ TodoWaits /\ ScanIdle
IInv == TypeOK /\ PlaceInv /\ RestInv

-----------------------------------------------------------------------------
(***************************************************************************)
(* Types.                                                                  *)
(***************************************************************************)

ListType == lists \in [ListNames -> Seq(Threads)]
PriorityType == effectivePriority \in [Threads -> Nat]

\* The priorities with which a thread is entered into the ready queue.
LEMMA EnterPriorityType ==
  ASSUME PriorityType, NEW t \in Threads
  PROVE  /\ ComputedPriority(t) \in [Threads -> Nat]
         /\ EnterPriority(t) \in [Threads -> Nat]
BY NumbersAssumption DEF PriorityType, ComputedPriority, EnterPriority

\* RateMonotonicThreadScheduler::enter keeps the types.
LEMMA EnterTypes ==
  ASSUME ListType, PriorityType, NEW t \in Threads, NEW e \in [Threads -> Nat],
         NEW next \in Phases, Enter(t, e, next)
  PROVE  ListType' /\ PriorityType' /\ phase' \in Phases
<1>1. EnterReady(lists, t, e) \in [ListNames -> Seq(Threads)]
  BY EnterReadyMoves DEF Moved, ListType
<1>2. "halt" \in Phases
  BY DEF Phases
<1> QED  BY <1>1, <1>2 DEF Enter, ListType, PriorityType

\* SingleCPUDispatcher::sleep keeps the types.
LEMMA SleepTypes ==
  ASSUME ListType, NEW t \in Threads, NEW wake, NEW next \in Phases,
         Sleep(t, wake, next)
  PROVE  ListType' /\ phase' \in Phases
<1>1. EnterSleep(lists, t, wake) \in [ListNames -> Seq(Threads)]
  BY EnterSleepMoves DEF Moved, ListType
<1>2. "halt" \in Phases
  BY DEF Phases
<1> QED  BY <1>1, <1>2 DEF Sleep, ListType

\* LinkedList::addTail keeps the type of the lists.
LEMMA AddTailType ==
  ASSUME ListType, NEW t \in Threads, NEW n \in ListNames
  PROVE  AddTail(lists, n, t) \in [ListNames -> Seq(Threads)]
BY AddTailMoves DEF Moved, ListType

\* SingleCPUDispatcher::unblock keeps the types.
LEMMA UnblockTypes ==
  ASSUME ListType, PriorityType, timer \in Nat, needReschedule \in BOOLEAN,
         NEW t \in Threads, NEW wake, Unblock(t, wake)
  PROVE  ListType' /\ PriorityType' /\ timer' \in Nat /\ needReschedule' \in BOOLEAN
<1>1. EnterReady(lists, t, EnterPriority(t)) \in [ListNames -> Seq(Threads)]
  BY EnterReadyMoves DEF Moved, ListType
<1>2. AddTail(lists, "sleep", t) \in [ListNames -> Seq(Threads)]
  BY AddTailType DEF ListNames
<1>3. EnterPriority(t) \in [Threads -> Nat]
  BY EnterPriorityType
<1>4. CASE wake[t] > 0
  BY <1>2, <1>4 DEF Unblock, ListType, PriorityType
<1>5. CASE ~(wake[t] > 0)
  <2>1. lists' = EnterReady(lists, t, EnterPriority(t))
        /\ effectivePriority' = EnterPriority(t)
        /\ timer' \in {1, timer} /\ needReschedule' \in {TRUE, needReschedule}
    BY <1>5 DEF Unblock
  <2>2. needReschedule' \in BOOLEAN
    BY <2>1, Zenon
  <2> QED  BY <1>1, <1>3, <2>1, <2>2 DEF ListType, PriorityType
<1> QED  BY <1>4, <1>5

\* Thread::unblock keeps the types.
LEMMA ThreadUnblockTypes ==
  ASSUME TypeOK, NEW t \in Threads, ThreadUnblock(t)
  PROVE  /\ ListType' /\ PriorityType' /\ timer' \in Nat /\ needReschedule' \in BOOLEAN
         /\ status' \in [Threads -> SUBSET Flags]
<1>1. status' \in [Threads -> SUBSET Flags]
  BY DEF ThreadUnblock, UnblockedStatus, TypeOK, Flags
<1>2. ListType /\ PriorityType /\ timer \in Nat /\ needReschedule \in BOOLEAN
  BY DEF TypeOK, ListType, PriorityType
<1>3. CASE "Stopped" \in status[t]
  BY <1>1, <1>2, <1>3 DEF ThreadUnblock, ListType, PriorityType
<1>4. CASE "Stopped" \notin status[t]
  BY <1>1, <1>2, <1>4, UnblockTypes DEF ThreadUnblock
<1> QED  BY <1>3, <1>4

\* The dispatcher's own steps keep the types.
LEMMA DispatchTypes ==
  ASSUME TypeOK, DispatchStep \/ Deliver \/ ClockTick \/ TimerIRQ
  PROVE  TypeOK'
<1> USE ThreadsAssumption, NumbersAssumption
<1>1. ListType /\ PriorityType
  BY DEF TypeOK, ListType, PriorityType
<1>2. CASE DispatchBegin
  <2>1. ListType' /\ PriorityType' /\ phase' \in Phases
    <3>1. CASE cur = None
      BY <1>1, <1>2, <3>1 DEF DispatchBegin, ListType, PriorityType, Phases
    <3>2. CASE cur # None
      <4>1. cur \in Threads /\ "scan" \in Phases
        BY <3>2 DEF TypeOK, Phases
      <4>2. EnterPriority(cur) \in [Threads -> Nat]
        BY <1>1, <4>1, EnterPriorityType
      <4> QED  BY <1>1, <1>2, <3>2, <4>1, <4>2, EnterTypes DEF DispatchBegin
    <3> QED  BY <3>1, <3>2
  <2>2. scan' \in Nat \ {0} /\ cur' \in Threads \cup {None} /\ needReschedule' \in BOOLEAN
    <3>1. scan' = 1 /\ cur' = None /\ needReschedule' = FALSE
      BY <1>2 DEF DispatchBegin
    <3> HIDE NumbersAssumption
    <3>2. scan' \in Nat \ {0}
      BY <3>1
    <3> QED  BY <3>1, <3>2
  <2> QED  BY <1>2, <2>1, <2>2 DEF DispatchBegin, TypeOK, ListType, PriorityType
<1>3. ASSUME scan <= Len(lists["sleep"])  PROVE Sleeper \in Threads
  <2>1. lists["sleep"] \in Seq(Threads) /\ scan \in Nat /\ scan >= 1
    BY DEF TypeOK, ListNames
  <2> QED  BY <1>3, <2>1 DEF Sleeper
<1>4. CASE ScanWake
  <2>1. Sleeper \in Threads /\ "scan" \in Phases
    BY <1>3, <1>4 DEF ScanWake, Phases
  <2>2. EnterPriority(Sleeper) \in [Threads -> Nat]
    BY <1>1, <2>1, EnterPriorityType
  <2>3. ListType' /\ PriorityType' /\ phase' \in Phases
    BY <1>1, <1>4, <2>1, <2>2, EnterTypes DEF ScanWake
  <2>4. /\ status' \in [Threads -> SUBSET Flags]
        /\ sleepTime' \in [Threads -> Nat]
    BY <1>4, <2>1 DEF ScanWake, TypeOK, Flags
  <2> QED  BY <1>4, <2>3, <2>4 DEF ScanWake, TypeOK, ListType, PriorityType, loopVars, clockVars
<1>5. CASE ScanSkip
  <2>1. scan' \in Nat \ {0}
    BY <1>5 DEF ScanSkip, TypeOK
  <2> QED  BY <1>5, <2>1 DEF ScanSkip, TypeOK, attrVars, clockVars
<1>6. NextTimerEvent \in Nat
  BY <1>3 DEF NextTimerEvent, TypeOK
<1>7. CASE RunNext
  <2>1. lists["ready"] # <<>>
    BY <1>7 DEF RunNext
  <2>2. Head(lists["ready"]) \in Threads /\ TakeHead(lists) \in [ListNames -> Seq(Threads)]
    BY <1>1, <2>1, TakeHeadLists DEF ListType
  <2>3. /\ status' \in [Threads -> SUBSET Flags]
        /\ instance' \in [Threads -> {1, 2}]
        /\ signal' \in [Threads -> Signals \cup {0}]
    BY <1>7, <2>2 DEF RunNext, TypeOK, Flags
  <2> QED  BY <1>6, <1>7, <2>2, <2>3 DEF RunNext, TypeOK, Phases, loopVars
<1>8. CASE RunIdle
  BY <1>6, <1>8 DEF RunIdle, TypeOK, Phases, loopVars, attrVars
<1>9. CASE SignalVisit
  <2> DEFINE t == Head(todo)
  <2>1. t \in Threads /\ Tail(todo) \in Seq(Threads)
    BY <1>9 DEF SignalVisit, TypeOK
  <2>2. EnterPriority(t) \in [Threads -> Nat] /\ phase \in Phases
    BY <1>1, <2>1, EnterPriorityType DEF TypeOK
  <2>3. /\ AddTail(lists, "blocked", t) \in [ListNames -> Seq(Threads)]
        /\ AddTail(lists, "sleep", t) \in [ListNames -> Seq(Threads)]
    BY <1>1, <2>1, AddTailType DEF ListNames
  <2> HIDE DEF t
  <2>4. \/ UNCHANGED <<lists, effectivePriority, phase>>
        \/ /\ lists' \in {AddTail(lists, "blocked", t), AddTail(lists, "sleep", t)}
           /\ UNCHANGED <<effectivePriority, phase>>
        \/ Enter(t, EnterPriority(t), phase)
    BY <1>9 DEF SignalVisit, t
  <2>5. ListType' /\ PriorityType' /\ phase' \in Phases
    <3>1. CASE Enter(t, EnterPriority(t), phase)
      BY <1>1, <2>1, <2>2, <3>1, EnterTypes
    <3> QED  BY <1>1, <2>2, <2>3, <2>4, <3>1 DEF ListType, PriorityType
  <2>6. status' \in [Threads -> SUBSET Flags]
    <3>1. status' \in {status, [status EXCEPT ![t] = @ \ {"Signal"}]}
      BY <1>9 DEF SignalVisit, t
    <3>2. [status EXCEPT ![t] = @ \ {"Signal"}] \in [Threads -> SUBSET Flags]
      BY <2>1 DEF TypeOK
    <3> QED  BY <3>1, <3>2 DEF TypeOK
  <2> QED  BY <1>9, <2>1, <2>5, <2>6
           DEF SignalVisit, TypeOK, ListType, PriorityType, clockVars, t
<1>10. CASE SignalEnd
  BY <1>10 DEF SignalEnd, TypeOK, Phases, attrVars, clockVars, loopVars
<1>11. CASE ClockTick
  BY <1>11 DEF ClockTick, TypeOK, attrVars, loopVars
<1>12. CASE TimerIRQ
  BY <1>12 DEF TimerIRQ, TypeOK, Phases, attrVars, clockVars, loopVars
<1> QED
  BY <1>2, <1>4, <1>5, <1>7, <1>8, <1>9, <1>10, <1>11, <1>12 DEF DispatchStep, Deliver

\* The system calls of a user thread keep the types.
LEMMA UserTypes ==
  ASSUME TypeOK, NEW t \in User, UserStep(t)
  PROVE  TypeOK'
<1> USE ThreadsAssumption, NumbersAssumption
<1>1. ListType /\ PriorityType /\ t \in Threads /\ "dispatch" \in Phases
  BY DEF TypeOK, ListType, PriorityType, Threads, Phases
<1> USE DEF clockVars, loopVars, attrVars
<1>2. ASSUME NEW d \in Delays, ThreadSleep(t, d)  PROVE TypeOK'
  <2>1. sleepTime' \in [Threads -> Nat] /\ status' \in [Threads -> SUBSET Flags]
    BY <1>1, <1>2 DEF ThreadSleep, WakeTime, TypeOK
  <2>2. ListType' /\ phase' \in Phases
    BY <1>1, <1>2, SleepTypes DEF ThreadSleep
  <2> QED  BY <1>2, <2>1, <2>2 DEF ThreadSleep, TypeOK, ListType
<1>3. ASSUME NEW d \in Timeouts, BlockBegin(t, d)  PROVE TypeOK'
  <2>1. /\ blockTimeout' \in [Threads -> Nat] /\ status' \in [Threads -> SUBSET Flags]
        /\ inCall' \in [Threads -> CallPoints]
    <3>1. blockTimeout' \in [Threads -> Nat]
      BY <1>1, <1>3 DEF BlockBegin, TypeOK
    <3>2. status' \in [Threads -> SUBSET Flags]
      BY <1>1, <1>3 DEF BlockBegin, TypeOK, Flags
    <3>3. inCall' \in [Threads -> CallPoints]
      BY <1>1, <1>3 DEF BlockBegin, TypeOK, CallPoints
    <3> QED  BY <3>1, <3>2, <3>3
  <2> QED  BY <1>3, <2>1 DEF BlockBegin, TypeOK
<1>4. CASE BlockEnd(t)
  <2>1. AddTail(lists, "blocked", t) \in [ListNames -> Seq(Threads)]
    BY <1>1, AddTailType DEF ListNames
  <2>2. inCall' \in [Threads -> CallPoints]
    BY <1>1, <1>4 DEF BlockEnd, TypeOK, CallPoints
  <2> QED  BY <1>1, <1>4, <2>1, <2>2 DEF BlockEnd, TypeOK
<1>5. ASSUME NEW sig \in Signals, SigwaitBegin(t, sig)  PROVE TypeOK'
  <2>1. /\ signal' \in [Threads -> Signals \cup {0}]
        /\ status' \in [Threads -> SUBSET Flags]
        /\ inCall' \in [Threads -> CallPoints]
    BY <1>1, <1>5 DEF SigwaitBegin, TypeOK, Flags, CallPoints
  <2> QED  BY <1>5, <2>1 DEF SigwaitBegin, TypeOK
<1>6. CASE SigwaitEnd(t)
  <2>1. AddTail(lists, "wait", t) \in [ListNames -> Seq(Threads)]
    BY <1>1, AddTailType DEF ListNames
  <2>2. inCall' \in [Threads -> CallPoints]
    BY <1>1, <1>6 DEF SigwaitEnd, TypeOK, CallPoints
  <2> QED  BY <1>1, <1>6, <2>1, <2>2 DEF SigwaitEnd, TypeOK
<1>7. ASSUME NEW sig \in Signals, SignalBegin(t, sig)  PROVE TypeOK'
  BY <1>7 DEF SignalBegin, TypeOK, Phases, ListNames
<1>8. ASSUME NEW u \in User, UnblockOther(t, u)  PROVE TypeOK'
  <2>1. /\ ListType' /\ PriorityType' /\ timer' \in Nat /\ needReschedule' \in BOOLEAN
        /\ status' \in [Threads -> SUBSET Flags]
    BY <1>8, ThreadUnblockTypes DEF UnblockOther, Threads
  <2> QED  BY <1>8, <2>1 DEF UnblockOther, TypeOK, ListType, PriorityType
<1>9. ASSUME NEW u \in User, ThreadRun(t, u)  PROVE TypeOK'
  <2>1. u \in Threads /\ ComputedPriority(u) \in [Threads -> Nat]
    BY <1>1, EnterPriorityType DEF Threads
  <2>2. CASE instance[u] = 1 /\ sleepTime[u] > 0
    <3>1. ListType' /\ phase' \in Phases
      BY <1>1, <1>9, <2>1, <2>2, SleepTypes DEF ThreadRun
    <3> QED  BY <1>9, <2>1, <2>2, <3>1 DEF ThreadRun, TypeOK, ListType
  <2>3. CASE ~(instance[u] = 1 /\ sleepTime[u] > 0)
    <3>1. ListType' /\ PriorityType' /\ phase' \in Phases
      BY <1>1, <1>9, <2>1, <2>3, EnterTypes DEF ThreadRun
    <3>2. status' \in [Threads -> SUBSET Flags]
      <4>1. status' = [status EXCEPT ![u] = @ \cup {"Ready"}]
        BY <1>9, <2>3 DEF ThreadRun
      <4> QED  BY <2>1, <4>1 DEF TypeOK, Flags
    <3> QED  BY <1>9, <2>3, <3>1, <3>2 DEF ThreadRun, TypeOK, ListType, PriorityType
  <2> QED  BY <2>2, <2>3
<1>10. CASE InstanceEnds(t)
  <2>1. Period[t] \in Nat /\ ComputedPriority(t) \in [Threads -> Nat]
    BY <1>1, EnterPriorityType
  <2>2. /\ arrivalTime' \in [Threads -> Nat]
        /\ status' \in [Threads -> SUBSET Flags]
    BY <1>1, <1>10, <2>1 DEF InstanceEnds, TypeOK, Flags
  <2>3. sleepTime' \in [Threads -> Nat]
    BY <1>1, <1>10, <2>2 DEF InstanceEnds, TypeOK
  <2>4. ListType' /\ phase' \in Phases
    BY <1>1, <1>10, SleepTypes DEF InstanceEnds
  <2> QED  BY <1>10, <2>1, <2>2, <2>3, <2>4 DEF InstanceEnds, TypeOK, ListType
<1>11. CASE ThreadExit(t)
  <2>1. Detach(lists, t) \in [ListNames -> Seq(Threads)]
    BY <1>1, DetachLists DEF ListType
  <2>2. lists' \in [ListNames -> Seq(Threads)] /\ lists'["wait"] \in Seq(Threads)
    BY <1>11, <2>1 DEF ThreadExit, ListNames
  <2>3. status' \in [Threads -> SUBSET Flags]
    BY <1>1, <1>11 DEF ThreadExit, TypeOK, Flags
  <2> QED  BY <1>11, <2>2, <2>3 DEF ThreadExit, TypeOK, Phases, SIG_CHILD_TERMINATED
<1>12. ASSUME NEW u \in MayStop, ThreadStop(t, u)  PROVE TypeOK'
  <2>1. u \in Threads
    BY DEF Threads
  <2>2. AddTail(lists, "blocked", u) \in [ListNames -> Seq(Threads)]
    BY <1>1, <2>1, AddTailType DEF ListNames
  <2>3. status' \in [Threads -> SUBSET Flags]
    BY <1>12, <2>1 DEF ThreadStop, TypeOK, Flags
  <2> QED  BY <1>1, <1>12, <2>2, <2>3 DEF ThreadStop, TypeOK
<1>13. ASSUME NEW u \in MayStop, ThreadResume(t, u)  PROVE TypeOK'
  <2>1. u \in Threads
    BY DEF Threads
  <2>2. status' \in [Threads -> SUBSET Flags]
    <3>1. status' \in {[status EXCEPT ![u] = @ \ {"Stopped"}],
                       [status EXCEPT ![u] = (@ \ {"Stopped"}) \cup {"Ready"}]}
      BY <1>13 DEF ThreadResume
    <3>2. /\ [status EXCEPT ![u] = @ \ {"Stopped"}] \in [Threads -> SUBSET Flags]
          /\ [status EXCEPT ![u] = (@ \ {"Stopped"}) \cup {"Ready"}]
               \in [Threads -> SUBSET Flags]
      BY <2>1 DEF TypeOK, Flags
    <3> QED  BY <3>1, <3>2
  <2>3. ListType' /\ PriorityType' /\ timer' \in Nat /\ needReschedule' \in BOOLEAN
    <3>1. CASE "Blocked" \in status[u]
      BY <1>1, <1>13, <3>1 DEF ThreadResume, TypeOK, ListType, PriorityType
    <3>2. CASE "Blocked" \notin status[u]
      BY <1>1, <1>13, <2>1, <3>2, UnblockTypes DEF ThreadResume, TypeOK
    <3> QED  BY <3>1, <3>2
  <2> QED  BY <1>1, <1>13, <2>2, <2>3 DEF ThreadResume, TypeOK, ListType, PriorityType
<1>14. ASSUME NEW w \in Workers, NEW d \in Delays, NEW kind \in {"Timed", "Periodic"},
              AssignJob(t, w, kind, d)
       PROVE  TypeOK'
  <2>1. w \in Threads /\ now + d \in Nat /\ now \in Nat
    BY DEF Threads, TypeOK
  <2>2. ComputedPriority(w) \in [Threads -> Nat]
        /\ AddTail(lists, "sleep", w) \in [ListNames -> Seq(Threads)]
    BY <1>1, <2>1, EnterPriorityType, AddTailType DEF ListNames
  <2>3. /\ job' \in [Workers -> Jobs] /\ arrivalTime' \in [Threads -> Nat]
        /\ instance' \in [Threads -> {1, 2}] /\ sleepTime' \in [Threads -> Nat]
    BY <1>14, <2>1 DEF AssignJob, WakeTime, TypeOK, Jobs
  <2>4. status' \in [Threads -> SUBSET Flags]
    BY <1>14, <2>1 DEF AssignJob, TypeOK, Flags, UnblockedStatus
  <2> QED  BY <1>14, <2>2, <2>3, <2>4 DEF AssignJob, TypeOK
<1> QED
  BY <1>2, <1>3, <1>4, <1>5, <1>6, <1>7, <1>8, <1>9, <1>10, <1>11, <1>12, <1>13, <1>14
  DEF UserStep

\* The position SelectInSeq returns is that of a thread to wake, or 0.
LEMMA FirstTimedOut ==
  ASSUME NEW T, NEW q \in Seq(T), NEW k,
         k = SelectInSeq(q, LAMBDA t : TimedOut(t) /\ "Stopped" \notin status[t])
  PROVE  /\ k \in 0..Len(q)
         /\ k # 0 => TimedOut(q[k]) /\ "Stopped" \notin status[q[k]]
<1> DEFINE I == {i \in 1..Len(q) : TimedOut(q[i]) /\ "Stopped" \notin status[q[i]]}
           x == Min(I)
<1>1. k = IF I # {} THEN x ELSE 0
  BY Zenon DEF SelectInSeq
<1>2. Len(q) \in Nat /\ I \subseteq 1..Len(q)
  OBVIOUS
<1>3. I # {} => x \in I
  <2> SUFFICES ASSUME I # {}  PROVE x \in I
    OBVIOUS
  <2>1. \E y \in I : \A z \in I : y <= z
    <3> HIDE DEF I
    <3> QED  BY <1>2, MinExists
  <2> QED  BY <2>1, Zenon DEF Min
<1>6. \A i \in I : TimedOut(q[i]) /\ "Stopped" \notin status[q[i]]
  OBVIOUS
<1> HIDE DEF I, x
<1>4. CASE I = {}
  <2>1. k = 0
    BY <1>1, <1>4, Zenon
  <2> QED  BY <1>2, <2>1
<1>5. CASE I # {}
  <2>1. k \in 1..Len(q)
    BY <1>1, <1>2, <1>3, <1>5, Zenon
  <2>2. k \in 0..Len(q)
    BY <1>2, <2>1
  <2>3. TimedOut(q[k]) /\ "Stopped" \notin status[q[k]]
    BY <1>1, <1>3, <1>5, <1>6, Zenon
  <2> QED  BY <2>2, <2>3
<1> QED  BY <1>4, <1>5

\* The worker threads and the interrupts they serve keep the types.
LEMMA WorkerTypes ==
  ASSUME TypeOK, NEW w \in Workers, WorkerStep(w) \/ DeviceIRQ(w)
  PROVE  TypeOK'
<1> USE ThreadsAssumption, NumbersAssumption
<1>1. ListType /\ PriorityType /\ w \in Threads /\ "dispatch" \in Phases
  BY DEF TypeOK, ListType, PriorityType, Threads, Phases
<1> USE DEF clockVars, loopVars, attrVars
<1>2. CASE DeviceIRQ(w)
  <2>1. /\ ListType' /\ PriorityType' /\ timer' \in Nat /\ needReschedule' \in BOOLEAN
        /\ status' \in [Threads -> SUBSET Flags]
    BY <1>1, <1>2, ThreadUnblockTypes DEF DeviceIRQ
  <2>2. /\ phase' \in {phase, "dispatch"}
        /\ signal' \in {signal, [signal EXCEPT ![cur] = 0]}
    BY <1>2 DEF DeviceIRQ
  <2>3. phase' \in Phases /\ signal' \in [Threads -> Signals \cup {0}]
    BY <1>1, <2>2 DEF TypeOK
  <2> QED  BY <1>2, <2>1, <2>3 DEF DeviceIRQ, TypeOK, ListType, PriorityType
<1>3. ASSUME NEW u \in User, UnblockOther(w, u)  PROVE TypeOK'
  <2>1. /\ ListType' /\ PriorityType' /\ timer' \in Nat /\ needReschedule' \in BOOLEAN
        /\ status' \in [Threads -> SUBSET Flags]
    BY <1>3, ThreadUnblockTypes DEF UnblockOther, Threads
  <2> QED  BY <1>3, <2>1 DEF UnblockOther, TypeOK, ListType, PriorityType
<1>4. CASE ServiceTimeouts(w)
  <2> DEFINE B == lists["blocked"]
             k == SelectInSeq(B, LAMBDA t : TimedOut(t) /\ "Stopped" \notin status[t])
             woken == {t \in Threads : /\ TimedOut(t)
                                       /\ \E i \in 1..Len(B) :
                                            B[i] = t /\ (k = 0 \/ i <= k)}
  <2>1. B \in Seq(Threads)
    BY <1>1 DEF ListType, ListNames
  <2>9. k = SelectInSeq(B, LAMBDA t : TimedOut(t) /\ "Stopped" \notin status[t])
    BY Zenon
  <2> HIDE DEF B, k
  <2>2. k \in 0..Len(B)
    BY <2>1, <2>9, FirstTimedOut
  <2>3. /\ status' = [t \in Threads |-> IF t \in woken THEN UnblockedStatus(t) ELSE status[t]]
        /\ blockTimeout' = [t \in Threads |-> IF t \in woken THEN 0 ELSE blockTimeout[t]]
        /\ IF k # 0 THEN Unblock(B[k], sleepTime)
           ELSE UNCHANGED <<lists, effectivePriority, timer, needReschedule>>
    BY <1>4, Zenon DEF ServiceTimeouts, B, k
  <2>4. inCall' \in [Threads -> CallPoints]
    BY <1>1, <1>4 DEF ServiceTimeouts, TypeOK, CallPoints
  <2> HIDE DEF woken
  <2>5. \A t \in Threads : UnblockedStatus(t) \in SUBSET Flags
    BY DEF UnblockedStatus, TypeOK, Flags
  <2>6. status' \in [Threads -> SUBSET Flags] /\ blockTimeout' \in [Threads -> Nat]
    BY <2>3, <2>5 DEF TypeOK
  <2>7. ListType' /\ PriorityType' /\ timer' \in Nat /\ needReschedule' \in BOOLEAN
    <3>1. CASE k # 0
      <4>1. B[k] \in Threads
        BY <2>1, <2>2, <3>1
      <4> QED  BY <1>1, <2>3, <3>1, <4>1, UnblockTypes DEF TypeOK
    <3>2. CASE k = 0
      BY <1>1, <2>3, <3>2 DEF ListType, PriorityType, TypeOK
    <3> QED  BY <3>1, <3>2
  <2>8. UNCHANGED <<cur, sleepTime, arrivalTime, instance, signal, job, now, phase, loopVars>>
    BY <1>4 DEF ServiceTimeouts
  <2> QED  BY <2>4, <2>6, <2>7, <2>8 DEF TypeOK, ListType, PriorityType
<1>5. CASE WorkDone(w)
  <2>1. inCall' \in [Threads -> CallPoints] /\ cur' \in Threads \cup {None}
    BY <1>1, <1>5 DEF WorkDone, TypeOK, CallPoints
  <2>2. UNCHANGED <<instance, effectivePriority, signal, clockVars, loopVars>>
    BY <1>5 DEF WorkDone
  <2>3. CASE job[w] = "Periodic"
    <3>1. /\ arrivalTime' = [arrivalTime EXCEPT ![w] = @ + JobPeriod]
          /\ sleepTime' = [sleepTime EXCEPT ![w] = arrivalTime'[w]]
          /\ status' = [status EXCEPT ![w] = (@ \ {"Ready"}) \cup {"New"}]
          /\ Sleep(w, sleepTime', "dispatch")
          /\ UNCHANGED <<blockTimeout, job>>
      BY <1>5, <2>3 DEF WorkDone
    <3>2. arrivalTime' \in [Threads -> Nat] /\ status' \in [Threads -> SUBSET Flags]
      BY <1>1, <3>1 DEF TypeOK, Flags
    <3>3. sleepTime' \in [Threads -> Nat]
      BY <1>1, <3>1, <3>2 DEF TypeOK
    <3>4. ListType' /\ phase' \in Phases
      BY <1>1, <3>1, SleepTypes
    <3> QED  BY <2>1, <2>2, <3>1, <3>2, <3>3, <3>4 DEF TypeOK, ListType
  <2>4. CASE job[w] # "Periodic"
    <3>1. /\ job' = [job EXCEPT ![w] = IF @ = "IRQ" THEN "IRQ" ELSE "None"]
          /\ status' = [status EXCEPT ![w] = (@ \ {"Ready"}) \cup {"New", "Blocked"}]
          /\ blockTimeout' = [blockTimeout EXCEPT ![w] = 0]
          /\ lists' = AddTail(lists, "blocked", w)
          /\ phase' = "dispatch"
          /\ UNCHANGED <<arrivalTime, sleepTime>>
      BY <1>5, <2>4 DEF WorkDone
    <3>2. /\ job' \in [Workers -> Jobs] /\ status' \in [Threads -> SUBSET Flags]
          /\ blockTimeout' \in [Threads -> Nat]
      BY <1>1, <3>1 DEF TypeOK, Flags, Jobs
    <3>3. AddTail(lists, "blocked", w) \in [ListNames -> Seq(Threads)]
      BY <1>1, AddTailType DEF ListNames
    <3> QED  BY <1>1, <2>1, <2>2, <3>1, <3>2, <3>3 DEF TypeOK
  <2> QED  BY <2>3, <2>4
<1> QED  BY <1>2, <1>3, <1>4, <1>5 DEF WorkerStep

\* The initial lists: the main thread is ready, the service thread sleeps and
\* the other workers are blocked.
LEMMA InitLists ==
  ASSUME Init
  PROVE  /\ ListType
         /\ Disjoint(lists)
         /\ Members(lists, "ready") = {MainThread}
         /\ Members(lists, "sleep") = {ServiceThread} \ {None}
         /\ Members(lists, "blocked") = Workers \ {ServiceThread}
         /\ Members(lists, "wait") = {}
<1> USE ThreadsAssumption
<1>1. /\ lists["ready"] = <<MainThread>>
      /\ lists["sleep"] = IF ServiceThread = None THEN <<>> ELSE <<ServiceThread>>
      /\ lists["blocked"] = RemoveFirst(WorkerSeq, ServiceThread)
      /\ lists["wait"] = <<>>
      /\ lists = [n \in ListNames |-> lists[n]]
  BY DEF Init, ListNames
<1>2. WorkerSeq \in Seq(Workers) /\ NoDup(WorkerSeq) /\ ToSet(WorkerSeq) = Workers
  BY DEF NoDup, Workers
<1>3. /\ lists["blocked"] \in Seq(Workers) /\ NoDup(lists["blocked"])
      /\ ToSet(lists["blocked"]) = Workers \ {ServiceThread}
  BY <1>1, <1>2, RemoveFirstSub, RemoveFirstExact
<1>4. MainThread \in Threads /\ ServiceThread \in Threads \cup {None} /\ Workers \subseteq Threads
  BY DEF Threads
<1>5. lists["blocked"] \in Seq(Threads)
  BY <1>3, <1>4
<1>6. \A n \in ListNames : lists[n] \in Seq(Threads)
  <2>1. lists["ready"] \in Seq(Threads) /\ lists["wait"] \in Seq(Threads)
    BY <1>1, <1>4
  <2>2. lists["sleep"] \in Seq(Threads)
    BY <1>1, <1>4
  <2> QED  BY <1>5, <2>1, <2>2 DEF ListNames
<1>7. ListType
  BY <1>1, <1>6 DEF ListType
<1>8. /\ Members(lists, "ready") = {MainThread}
      /\ Members(lists, "sleep") = {ServiceThread} \ {None}
      /\ Members(lists, "blocked") = Workers \ {ServiceThread}
      /\ Members(lists, "wait") = {}
  <2>1. ToSet(<<MainThread>>) = {MainThread} /\ ToSet(<<ServiceThread>>) = {ServiceThread}
        /\ ToSet(<<>>) = {}
    <3>1. ASSUME NEW x  PROVE ToSet(<<x>>) = {x}
      <4> DEFINE q == <<x>>
      <4>1. DOMAIN q = {1} /\ q[1] = x
        OBVIOUS
      <4> HIDE DEF q
      <4>2. ToSet(q) = {x}
        BY <4>1 DEF ToSet
      <4> QED  BY <4>2 DEF q
    <3>2. ToSet(<<>>) = {}
      BY DEF ToSet
    <3> QED  BY <3>1, <3>2, Zenon
  <2> QED  BY <1>1, <1>3, <2>1 DEF Members
<1>9. \A n \in ListNames : NoDup(lists[n])
  BY <1>1, <1>3 DEF ListNames, NoDup
<1>10. \A n, m \in ListNames : n # m => Members(lists, n) \cap Members(lists, m) = {}
  BY <1>8 DEF ListNames
<1> QED  BY <1>7, <1>8, <1>9, <1>10 DEF Disjoint

\* The initial state has the types.
LEMMA InitTypes == Init => TypeOK
<1> SUFFICES ASSUME Init  PROVE TypeOK
  OBVIOUS
<1> USE ThreadsAssumption, NumbersAssumption
<1>1. lists \in [ListNames -> Seq(Threads)]
  BY InitLists DEF ListType
<1>2. status \in [Threads -> SUBSET Flags]
  BY DEF Init, Flags
<1>3. /\ sleepTime \in [Threads -> Nat] /\ blockTimeout \in [Threads -> Nat]
      /\ arrivalTime \in [Threads -> Nat] /\ instance \in [Threads -> {1, 2}]
      /\ effectivePriority \in [Threads -> Nat] /\ signal \in [Threads -> Signals \cup {0}]
  BY DEF Init
<1>4. job \in [Workers -> Jobs] /\ inCall \in [Threads -> CallPoints]
  BY DEF Init, Jobs, CallPoints
<1>5. /\ cur \in Threads \cup {None} /\ now \in Nat /\ timer \in Nat
      /\ needReschedule \in BOOLEAN /\ phase \in Phases /\ scan \in Nat \ {0}
      /\ raised \in Nat /\ todo \in Seq(Threads)
  <2>1. /\ cur = None /\ now = 1 /\ timer = MAX_UINT8 /\ needReschedule = FALSE
        /\ phase = "dispatch" /\ scan = 1 /\ raised = 0 /\ todo = <<>>
    BY DEF Init
  <2>2. MAX_UINT8 \in Nat
    OBVIOUS
  <2> HIDE ThreadsAssumption, NumbersAssumption
  <2>3. now \in Nat /\ scan \in Nat \ {0} /\ raised \in Nat
    BY <2>1
  <2>4. todo \in Seq(Threads)
    BY <2>1
  <2> QED  BY <2>1, <2>2, <2>3, <2>4 DEF Phases
<1> QED  BY <1>1, <1>2, <1>3, <1>4, <1>5 DEF TypeOK

\* Every step keeps the types.
LEMMA NextTypes == TypeOK /\ [Next]_vars => TypeOK'
<1> SUFFICES ASSUME TypeOK, [Next]_vars  PROVE TypeOK'
  OBVIOUS
<1>1. CASE UNCHANGED vars
  BY <1>1 DEF vars, TypeOK, attrVars, clockVars, loopVars
<1>2. IrqWorkers \subseteq Workers
  BY ThreadsAssumption
<1> QED  BY <1>1, <1>2, DispatchTypes, UserTypes, WorkerTypes DEF Next

\* All state of the kernel's threads keeps its type, also when applications
\* break the contract of thread_run and task_resume and with nested interrupts.
THEOREM TypeCorrect == Spec => []TypeOK
BY InitTypes, NextTypes, PTL DEF Spec

-----------------------------------------------------------------------------
(***************************************************************************)
(* Places.                                                                 *)
(***************************************************************************)

Placed == ListType /\ Disjoint(lists) /\ ReadySorted

\* The order of a queue does not depend on the priority of another thread.
LEMMA OrderIgnoresOthers ==
  ASSUME NEW q \in Seq(Threads), NEW old \in [Threads -> Nat], NEW t, NEW p,
         t \notin ToSet(q), Descending(q, old)
  PROVE  Descending(q, [old EXCEPT ![t] = p])
<1>1. \A i \in DOMAIN q : q[i] \in Threads /\ q[i] # t
  BY DEF ToSet
<1>2. \A i \in DOMAIN q : [old EXCEPT ![t] = p][q[i]] = old[q[i]]
  BY <1>1
<1> DEFINE new == [old EXCEPT ![t] = p]
<1> HIDE DEF new
<1>3. \A i \in DOMAIN q : new[q[i]] = old[q[i]]
  BY <1>2 DEF new
<1>4. Descending(q, new)
  BY <1>3 DEF Descending
<1> QED  BY <1>4 DEF new

\* A thread that is not in the ready queue is entered without a failed
\* assertion, and the queue stays sorted.
LEMMA EnterPlaces ==
  ASSUME PriorityType, Placed, NEW t \in Threads, t \notin Members(lists, "ready"),
         NEW e, e \in {EnterPriority(t), ComputedPriority(t)},
         NEW next, Enter(t, e, next)
  PROVE  /\ phase' = next
         /\ Moved(Threads, lists, lists', t, "ready")
         /\ Placed'
<1>1. lists["ready"] \in Seq(Threads)
  BY DEF Placed, ListType, ListNames
<1>2. ~SelfInsertReady(lists, t, e)
  <2> DEFINE q == lists["ready"]
             k == LastNotBelow(q, t, e)
  <2> SUFFICES ASSUME k # 0, q[k] = t  PROVE FALSE
    BY Zenon DEF SelfInsertReady
  <2>1. k \in 0..Len(q)
    BY <1>1, LastNotBelowPosition
  <2>2. t \notin ToSet(q)
    BY DEF Members
  <2> HIDE DEF k, q
  <2>3. k \in DOMAIN q
    BY <1>1, <2>1 DEF q
  <2> QED  BY <2>2, <2>3 DEF ToSet
<1>3. phase' = next /\ lists' = EnterReady(lists, t, e) /\ effectivePriority' = e
  BY <1>2 DEF Enter
<1>4. Moved(Threads, lists, lists', t, "ready")
  BY <1>3, EnterReadyMoves DEF Placed, ListType
<1>5. Descending(lists'["ready"], e)
  <2>1. CASE e = effectivePriority
    BY <1>3, <2>1, EnterReadySorted DEF Placed, ListType, ReadySorted, PriorityType
  <2>2. CASE e = [effectivePriority EXCEPT ![t] = Priority[t]]
    <3>1. Priority[t] \in Nat
      BY NumbersAssumption
    <3>2. Descending(EnterReady(lists, t, [effectivePriority EXCEPT ![t] = Priority[t]])["ready"],
                     [effectivePriority EXCEPT ![t] = Priority[t]])
      BY <3>1, EnterReadyRaised DEF Placed, ListType, ReadySorted, PriorityType
    <3> QED  BY <1>3, <2>2, <3>2
  <2> QED  BY <2>1, <2>2 DEF EnterPriority, ComputedPriority
<1>6. Placed'
  BY <1>3, <1>4, <1>5 DEF Placed, ListType, ReadySorted, Moved
<1> QED  BY <1>3, <1>4, <1>6

\* A thread that is not in the sleep list is put there without a failed
\* assertion; the ready queue keeps its order.
LEMMA SleepPlaces ==
  ASSUME Placed, NEW t \in Threads, t \notin Members(lists, "sleep"),
         NEW wake, NEW next, Sleep(t, wake, next)
  PROVE  /\ phase' = next
         /\ Moved(Threads, lists, lists', t, "sleep")
         /\ Descending(lists'["ready"], effectivePriority)
<1>1. lists["sleep"] \in Seq(Threads)
  BY DEF Placed, ListType, ListNames
<1>2. ~SelfInsertSleep(lists, t, wake)
  <2> DEFINE q == lists["sleep"]
             k == LastNotAbove(q, t, wake)
  <2> SUFFICES ASSUME k # 0, q[k] = t  PROVE FALSE
    BY Zenon DEF SelfInsertSleep
  <2>1. k \in 0..Len(q)
    BY <1>1, LastNotAbovePosition
  <2>2. t \notin ToSet(q)
    BY DEF Members
  <2> HIDE DEF k, q
  <2>3. k \in DOMAIN q
    BY <1>1, <2>1 DEF q
  <2> QED  BY <2>2, <2>3 DEF ToSet
<1>3. phase' = next /\ lists' = EnterSleep(lists, t, wake)
  BY <1>2 DEF Sleep
<1>4. Moved(Threads, lists, lists', t, "sleep")
  BY <1>3, EnterSleepMoves DEF Placed, ListType
<1>5. Descending(EnterSleep(lists, t, wake)["ready"], effectivePriority)
  <2>1. "sleep" \in ListNames /\ "sleep" # "ready"
    BY DEF ListNames
  <2> QED  BY <2>1, MoveKeepsSorted DEF Placed, ListType, ReadySorted
<1> QED  BY <1>3, <1>4, <1>5

\* LinkedList::addTail to a list other than the ready queue.
LEMMA AddTailPlaces ==
  ASSUME Placed, NEW t \in Threads, NEW n \in ListNames, n # "ready",
         lists' = AddTail(lists, n, t)
  PROVE  /\ Moved(Threads, lists, lists', t, n)
         /\ Descending(lists'["ready"], effectivePriority)
<1>1. Moved(Threads, lists, AddTail(lists, n, t), t, n)
  BY AddTailMoves DEF Placed, ListType
<1>2. Descending(AddTail(lists, n, t)["ready"], effectivePriority)
  BY MoveKeepsSorted DEF Placed, ListType, ReadySorted
<1> QED  BY <1>1, <1>2

\* SingleCPUDispatcher::unblock, wherever the thread is.
LEMMA UnblockPlaces ==
  ASSUME PriorityType, Placed, NEW t \in Threads, NEW wake, Unblock(t, wake)
  PROVE  /\ \E n \in {"ready", "sleep"} : Moved(Threads, lists, lists', t, n)
         /\ ReadySorted'
<1>1. CASE wake[t] > 0
  <2>1. "sleep" \in ListNames /\ "sleep" # "ready"
    BY DEF ListNames
  <2>2. lists' = AddTail(lists, "sleep", t) /\ effectivePriority' = effectivePriority
    BY <1>1 DEF Unblock
  <2> QED  BY <2>1, <2>2, AddTailPlaces DEF ReadySorted
<1>2. CASE ~(wake[t] > 0)
  <2> DEFINE e == EnterPriority(t)
  <2>1. lists' = EnterReady(lists, t, e) /\ effectivePriority' = e
    BY <1>2 DEF Unblock
  <2>2. Moved(Threads, lists, lists', t, "ready")
    BY <2>1, EnterReadyMoves DEF Placed, ListType
  <2>3. Descending(lists'["ready"], e)
    <3>1. CASE e = effectivePriority
      BY <2>1, <3>1, EnterReadySorted DEF Placed, ListType, ReadySorted, PriorityType
    <3>2. CASE e = [effectivePriority EXCEPT ![t] = Priority[t]]
      <4>1. Priority[t] \in Nat
        BY NumbersAssumption
      <4>2. Descending(EnterReady(lists, t, [effectivePriority EXCEPT ![t] = Priority[t]])["ready"],
                       [effectivePriority EXCEPT ![t] = Priority[t]])
        BY <4>1, EnterReadyRaised DEF Placed, ListType, ReadySorted, PriorityType
      <4> QED  BY <2>1, <3>2, <4>2
    <3> QED  BY <3>1, <3>2 DEF EnterPriority, ComputedPriority
  <2> QED  BY <2>1, <2>2, <2>3 DEF ReadySorted
<1> QED  BY <1>1, <1>2

\* A step that moves one thread t, which does not run afterwards, and gives no
\* other thread a flag that holds it.
LEMMA MoveStep ==
  ASSUME IInv, NEW t \in Threads, NEW n \in ListNames,
         Moved(Threads, lists, lists', t, n), ReadySorted',
         cur' = None \/ cur' = cur, cur' # t, cur' = None => cur \in {None, t},
         \A x \in Threads : x # t =>
           /\ status'[x] \cap Holds \subseteq status[x]
           /\ inCall[x] = "block" => inCall'[x] = "block",
         n \in {"ready", "sleep"} => inCall'[t] = "block" \/ status'[t] \cap Holds = {}
  PROVE  PlaceInv'
<1> USE ThreadsAssumption DEF IInv, PlaceInv
<1>1. /\ Disjoint(lists) /\ Running \cap Listed(lists) = {}
      /\ cur \in Threads \cup {None} /\ None \notin Threads
  BY DEF OnePlace, TypeOK
<1>2. /\ Disjoint(lists')
      /\ \A m \in ListNames :
           Members(lists', m) = IF m = n THEN (Members(lists, n) \ {t}) \cup {t}
                                ELSE Members(lists, m) \ {t}
  BY <1>1 DEF Moved
<1>3. \A m \in ListNames : Members(lists', m) \subseteq Members(lists, m) \cup {t}
  BY <1>2
<1>4. Listed(lists') = Listed(lists) \cup {t}
  <2>1. Listed(lists') \subseteq Listed(lists) \cup {t}
    BY <1>3 DEF Listed
  <2>2. \A m \in ListNames : Members(lists, m) \ {t} \subseteq Members(lists', m)
    BY <1>2
  <2>3. t \in Members(lists', n)
    BY <1>2
  <2> QED  BY <2>1, <2>2, <2>3 DEF Listed
<1>5. Running' \subseteq Running \ {t} /\ Running \subseteq Running' \cup {t}
  BY <1>1 DEF Running
<1>6. OnePlace'
  BY <1>1, <1>2, <1>4, <1>5 DEF OnePlace
<1>7. \A m \in ListNames : \A x \in Members(lists, m) : x \in Threads
  BY DEF TypeOK, Members, ToSet
<1>8. Clean'
  <2> SUFFICES ASSUME NEW x \in Members(lists', "ready") \cup Members(lists', "sleep")
                                  \cup Running',
                      inCall'[x] # "block"
               PROVE  status'[x] \cap Holds = {}
    BY DEF Clean
  <2>1. "ready" \in ListNames /\ "sleep" \in ListNames
    BY DEF ListNames
  <2>2. CASE x = t
    <3>1. n \in {"ready", "sleep"}
      BY <1>2, <1>5, <2>1, <2>2
    <3> QED  BY <2>2, <3>1
  <2>3. CASE x # t
    <3>1. x \in Members(lists, "ready") \cup Members(lists, "sleep") \cup Running
      BY <1>3, <1>5, <2>1, <2>3
    <3>2. x \in Threads
      BY <1>1, <1>7, <2>1, <3>1 DEF Running
    <3>3. inCall[x] # "block" /\ status'[x] \cap Holds \subseteq status[x]
      BY <2>3, <3>2
    <3> QED  BY <3>1, <3>3 DEF Clean
  <2> QED  BY <2>2, <2>3
<1>9. HeldListed'
  <2> SUFFICES ASSUME NEW x \in Threads, status'[x] \cap Holds # {}
               PROVE  x \in Listed(lists') \cup Running'
    BY DEF HeldListed
  <2>1. CASE x = t
    BY <1>4, <2>1
  <2>2. CASE x # t
    <3>1. status[x] \cap Holds # {}
      BY <2>2
    <3> QED  BY <1>4, <1>5, <3>1 DEF HeldListed
  <2> QED  BY <2>1, <2>2
<1> QED  BY <1>6, <1>8, <1>9

\* A step that moves no thread: flags that hold a thread are only given to one
\* that is in the window of Thread::block, or is where such threads are.
LEMMA StayStep ==
  ASSUME IInv, UNCHANGED <<lists, cur, effectivePriority>>,
         \A x \in Threads :
           \/ inCall'[x] = "block"
           \/ /\ status'[x] \cap Holds \subseteq status[x]
              /\ inCall[x] # "block"
           \/ inCall[x] # "block" /\ status[x] \cap Holds # {},
         \A x \in Threads : status'[x] \cap Holds # {} =>
           status[x] \cap Holds # {} \/ x = cur
  PROVE  PlaceInv'
<1> USE ThreadsAssumption DEF IInv, PlaceInv
<1>1. Running' = Running /\ \A m \in ListNames : Members(lists', m) = Members(lists, m)
  BY DEF Running, Members
<1>2. OnePlace' /\ ReadySorted'
  BY <1>1 DEF OnePlace, ReadySorted
<1>3. \A m \in ListNames : \A x \in Members(lists, m) : x \in Threads
  BY DEF TypeOK, Members, ToSet
<1>4. Clean'
  <2> SUFFICES ASSUME NEW x \in Members(lists, "ready") \cup Members(lists, "sleep")
                                  \cup Running,
                      inCall'[x] # "block"
               PROVE  status'[x] \cap Holds = {}
    BY <1>1 DEF Clean, ListNames
  <2>1. x \in Threads
    BY <1>3 DEF ListNames, Running, TypeOK
  <2>2. inCall[x] # "block" => status[x] \cap Holds = {}
    BY DEF Clean
  <2> QED  BY <2>1, <2>2
<1>5. HeldListed'
  <2> SUFFICES ASSUME NEW x \in Threads, status'[x] \cap Holds # {}
               PROVE  x \in Listed(lists) \cup Running
    BY <1>1 DEF HeldListed
  <2>1. CASE status[x] \cap Holds # {}
    BY <2>1 DEF HeldListed
  <2>2. CASE x = cur
    BY <2>2 DEF Running
  <2> QED  BY <2>1, <2>2
<1> QED  BY <1>2, <1>4, <1>5

\* What the invariant says of the lists in the form the list lemmas need.
LEMMA InvFacts ==
  ASSUME IInv
  PROVE  /\ Placed /\ ListType /\ PriorityType /\ Disjoint(lists)
         /\ Running \cap Listed(lists) = {}
         /\ \A n \in ListNames : Members(lists, n) \subseteq Threads
         /\ cur # None => /\ cur \in Threads
                          /\ \A n \in ListNames : cur \notin Members(lists, n)
                          /\ inCall[cur] # "block" => status[cur] \cap Holds = {}
<1> USE DEF IInv, PlaceInv
<1>1. Placed /\ ListType /\ PriorityType /\ Disjoint(lists)
      /\ Running \cap Listed(lists) = {}
  BY DEF Placed, ListType, PriorityType, TypeOK, OnePlace
<1>2. \A n \in ListNames : Members(lists, n) \subseteq Threads
  BY DEF TypeOK, Members, ToSet
<1>3. ASSUME cur # None
      PROVE  /\ cur \in Threads
             /\ \A n \in ListNames : cur \notin Members(lists, n)
             /\ inCall[cur] # "block" => status[cur] \cap Holds = {}
  <2>1. cur \in Threads /\ cur \in Running
    BY <1>3 DEF TypeOK, Running
  <2>2. cur \notin Listed(lists)
    BY <1>1, <2>1
  <2> QED  BY <2>1, <2>2 DEF Listed, Clean
<1> QED  BY <1>1, <1>2, <1>3

\* The part of the invariant that is not about places, for a step that leaves
\* the phase, the flag "Stopped" of workers and the running thread in order.
LEMMA RestStep ==
  ASSUME IInv, phase' \in {"run", "dispatch", "scan"}, ScanIdle',
         cur' = None \/ (cur' = cur /\ \A u \in User : instance'[u] = instance[u]),
         \A w \in Workers : /\ inCall'[w] \in {"none", "served"}
                            /\ "Stopped" \in status'[w] => "Stopped" \in status[w]
  PROVE  RestInv'
<1> USE ThreadsAssumption DEF IInv, RestInv
<1>1. NoSelfInsert' /\ TodoWaits'
  BY DEF NoSelfInsert, TodoWaits
<1>2. UserStarted'
  BY DEF UserStarted, Threads
<1>3. WorkersServe'
  BY DEF WorkersServe
<1> QED  BY <1>1, <1>2, <1>3

\* dispatch() keeps the invariant.
LEMMA DispatchPlaces ==
  ASSUME IInv, DispatchStep  PROVE PlaceInv' /\ RestInv'
<1> USE ThreadsAssumption
<1>1. /\ Placed /\ ListType /\ PriorityType /\ Disjoint(lists)
      /\ \A n \in ListNames : Members(lists, n) \subseteq Threads
  BY InvFacts
<1>2. \A w \in Workers : inCall[w] \in {"none", "served"} /\ w \in Threads
  BY DEF IInv, RestInv, WorkersServe, Threads
<1>3. CASE DispatchBegin
  <2>1. /\ cur' = None /\ UNCHANGED <<status, inCall, instance>>
        /\ IF cur = None THEN phase' = "scan" /\ UNCHANGED <<lists, effectivePriority>>
           ELSE Enter(cur, EnterPriority(cur), "scan")
    BY <1>3 DEF DispatchBegin
  <2>2. CASE cur = None
    <3>1. PlaceInv'
      BY <2>1, <2>2, StayStep
    <3>2. RestInv'
      BY <1>2, <2>1, <2>2, RestStep DEF ScanIdle
    <3> QED  BY <3>1, <3>2
  <2>3. CASE cur # None
    <3>1. /\ cur \in Threads /\ cur \notin Members(lists, "ready")
          /\ inCall[cur] # "block" => status[cur] \cap Holds = {}
      BY <2>3, InvFacts DEF ListNames
    <3>2. phase' = "scan" /\ Moved(Threads, lists, lists', cur, "ready") /\ Placed'
      BY <1>1, <2>1, <2>3, <3>1, EnterPlaces
    <3>3. "ready" \in ListNames /\ ReadySorted'
      BY <3>2 DEF ListNames, Placed
    <3>4. PlaceInv'
      BY <2>1, <3>1, <3>2, <3>3, MoveStep
    <3>5. RestInv'
      BY <1>2, <2>1, <3>2, RestStep DEF ScanIdle
    <3> QED  BY <3>4, <3>5
  <2> QED  BY <2>2, <2>3
<1>4. CASE ScanWake
  <2>1. /\ scan <= Len(lists["sleep"])
        /\ status' = [status EXCEPT ![Sleeper] = @ \cup {"Ready"}]
        /\ Enter(Sleeper, EnterPriority(Sleeper), "scan")
        /\ UNCHANGED <<cur, inCall, instance>>
    BY <1>4 DEF ScanWake
  <2>2. Sleeper \in Members(lists, "sleep")
    <3>1. lists["sleep"] \in Seq(Threads) /\ scan \in Nat /\ scan >= 1
      BY DEF IInv, TypeOK, ListNames
    <3>2. scan \in DOMAIN lists["sleep"]
      BY <2>1, <3>1
    <3> QED  BY <3>2 DEF Sleeper, Members, ToSet
  <2> DEFINE t == Sleeper
  <2> HIDE DEF t
  <2>3. t \in Members(lists, "sleep")
    BY <2>2 DEF t
  <2>4. t \in Threads /\ t \notin Members(lists, "ready") /\ t # cur
    <3>1. "ready" \in ListNames /\ "sleep" \in ListNames /\ "ready" # "sleep"
      BY DEF ListNames
    <3>2. cur # None => cur \notin Members(lists, "sleep")
      BY <3>1, InvFacts
    <3> QED  BY <1>1, <2>3, <3>1, <3>2 DEF Disjoint
  <2>5. Enter(t, EnterPriority(t), "scan") /\ status' = [status EXCEPT ![t] = @ \cup {"Ready"}]
    BY <2>1 DEF t
  <2>6. phase' = "scan" /\ Moved(Threads, lists, lists', t, "ready") /\ Placed'
    BY <1>1, <2>4, <2>5, EnterPlaces
  <2>7. "ready" \in ListNames /\ ReadySorted'
    BY <2>6 DEF ListNames, Placed
  <2>8. status \in [Threads -> SUBSET Flags]
    BY DEF IInv, TypeOK
  <2>9. \A x \in Threads : status'[x] \cap Holds = status[x] \cap Holds
    BY <2>5, <2>8 DEF Holds
  <2>10. inCall[t] # "block" => status[t] \cap Holds = {}
    BY <2>3 DEF IInv, PlaceInv, Clean
  <2>11. PlaceInv'
    BY <2>1, <2>4, <2>6, <2>7, <2>9, <2>10, MoveStep
  <2>12. RestInv'
    <3>1. \A w \in Workers : "Stopped" \in status'[w] => "Stopped" \in status[w]
      BY <1>2, <2>9 DEF Holds
    <3>2. ScanIdle'
      BY <1>4, <2>1 DEF ScanWake, IInv, RestInv, ScanIdle
    <3> QED  BY <1>2, <2>1, <2>6, <3>1, <3>2, RestStep
  <2> QED  BY <2>11, <2>12
<1>5. CASE ScanSkip \/ RunIdle
  <2>1. UNCHANGED <<lists, effectivePriority, status, inCall, instance>>
        /\ phase' \in {"run", "scan"} /\ cur' = cur /\ cur = None
    BY <1>5 DEF ScanSkip, RunIdle, ScanEnds, attrVars, IInv, RestInv, ScanIdle
  <2>2. PlaceInv'
    BY <2>1, StayStep
  <2>3. RestInv'
    BY <1>2, <2>1, RestStep DEF ScanIdle
  <2> QED  BY <2>2, <2>3
<1>6. CASE RunNext
  <2> DEFINE t == Head(lists["ready"])
  <2>1. /\ lists["ready"] # <<>> /\ cur = None /\ cur' = t /\ lists' = TakeHead(lists)
        /\ instance' = [instance EXCEPT ![t] = 2]
        /\ status' = [status EXCEPT ![t] = @ \ {"New"}]
        /\ phase' = "run" /\ UNCHANGED <<inCall, effectivePriority>>
    BY <1>6 DEF RunNext, ScanEnds, IInv, RestInv, ScanIdle
  <2>2. t \in Threads /\ TakeHead(lists) \in [ListNames -> Seq(Threads)]
    BY <1>1, <2>1, TakeHeadLists DEF ListType
  <2>3. /\ Disjoint(TakeHead(lists))
        /\ \A n \in ListNames : Members(TakeHead(lists), n) = Members(lists, n) \ {t}
    BY <1>1, <2>1, TakeHeadSound DEF ListType
  <2>4. Descending(TakeHead(lists)["ready"], effectivePriority)
    BY <1>1, <2>1, TakeHeadSorted DEF ListType, Placed, ReadySorted
  <2>5. t \in Members(lists, "ready")
    <3>1. lists["ready"] \in Seq(Threads)
      BY <1>1 DEF ListType, ListNames
    <3>2. t = lists["ready"][1] /\ 1 \in DOMAIN lists["ready"]
      BY <2>1, <3>1
    <3> QED  BY <3>2 DEF Members, ToSet
  <2> HIDE DEF t
  <2>6. /\ \A n \in ListNames : Members(lists', n) = Members(lists, n) \ {t}
        /\ Running' = {t} /\ Running = {}
    BY <2>1, <2>2, <2>3 DEF Running
  <2>7. OnePlace'
    BY <2>1, <2>3, <2>6 DEF OnePlace, Listed
  <2>8. ReadySorted'
    BY <2>1, <2>4 DEF ReadySorted
  <2>9. \A x \in Threads : status'[x] \cap Holds = status[x] \cap Holds
    BY <2>1, <2>2 DEF IInv, TypeOK, Holds
  <2>10. Clean'
    <3> SUFFICES ASSUME NEW x \in Members(lists', "ready") \cup Members(lists', "sleep")
                                    \cup Running',
                        inCall'[x] # "block"
                 PROVE  status'[x] \cap Holds = {}
      BY DEF Clean
    <3>1. x \in Members(lists, "ready") \cup Members(lists, "sleep")
      BY <2>5, <2>6 DEF ListNames
    <3>2. x \in Threads
      BY <1>1, <3>1 DEF ListNames
    <3> QED  BY <2>1, <2>9, <3>1, <3>2 DEF IInv, PlaceInv, Clean
  <2>11. HeldListed'
    <3>1. Listed(lists) \subseteq Listed(lists') \cup {t}
      BY <2>6 DEF Listed
    <3> QED  BY <2>6, <2>9, <3>1 DEF HeldListed, IInv, PlaceInv
  <2>12. RestInv'
    <3>1. UserStarted'
      BY <2>1, <2>2 DEF UserStarted, IInv, TypeOK
    <3>2. \A w \in Workers : "Stopped" \notin status'[w]
      BY <1>2, <2>9 DEF Holds, IInv, RestInv, WorkersServe
    <3> QED  BY <1>2, <2>1, <3>1, <3>2
             DEF RestInv, NoSelfInsert, TodoWaits, WorkersServe, ScanIdle
  <2> QED  BY <2>7, <2>8, <2>10, <2>11, <2>12 DEF PlaceInv
<1> QED  BY <1>3, <1>4, <1>5, <1>6 DEF DispatchStep

\* Delivering a signal keeps the invariant, and so do the clock and its timer.
LEMMA DeliverPlaces ==
  ASSUME IInv, Deliver \/ ClockTick \/ TimerIRQ  PROVE PlaceInv' /\ RestInv'
<1> USE ThreadsAssumption
<1>1. /\ Placed /\ ListType /\ PriorityType /\ Disjoint(lists)
      /\ \A n \in ListNames : Members(lists, n) \subseteq Threads
  BY InvFacts
<1>2. \A w \in Workers : inCall[w] \in {"none", "served"} /\ w \in Threads
  BY DEF IInv, RestInv, WorkersServe, Threads
<1>3. CASE SignalEnd \/ ClockTick \/ TimerIRQ
  <2>1. UNCHANGED <<lists, cur, effectivePriority, status, inCall, instance>>
        /\ phase' \in {"run", "dispatch"}
    BY <1>3 DEF SignalEnd, ClockTick, TimerIRQ, attrVars
  <2>2. PlaceInv'
    BY <2>1, StayStep
  <2>3. RestInv'
    BY <1>2, <2>1, RestStep DEF ScanIdle
  <2> QED  BY <2>2, <2>3
<1>4. CASE SignalVisit
  <2> DEFINE t == Head(todo)
             rest == Tail(todo)
  <2>1. /\ phase = "signal" /\ todo # <<>> /\ todo' = rest
        /\ UNCHANGED <<cur, inCall, instance>>
        /\ IF signal[t] # raised
           THEN UNCHANGED <<lists, status, effectivePriority, phase>>
           ELSE /\ status' = [status EXCEPT ![t] = @ \ {"Signal"}]
                /\ IF "Stopped" \in status[t]
                   THEN UNCHANGED <<lists, effectivePriority, phase>>
                   ELSE IF "Blocked" \in status[t] \/ sleepTime[t] > 0
                   THEN /\ lists' = AddTail(lists, IF "Blocked" \in status[t]
                                                   THEN "blocked" ELSE "sleep", t)
                        /\ UNCHANGED <<effectivePriority, phase>>
                   ELSE Enter(t, EnterPriority(t), phase)
    BY <1>4 DEF SignalVisit
  <2>2. NoDup(todo) /\ ToSet(todo) \subseteq Members(lists, "wait") /\ todo \in Seq(Threads)
    BY <2>1 DEF IInv, RestInv, TodoWaits, TypeOK
  <2>3. /\ t \in Threads /\ t \in ToSet(todo) /\ NoDup(rest)
        /\ ToSet(rest) \subseteq ToSet(todo) \ {t}
    <3>1. /\ DOMAIN todo = 1..Len(todo) /\ Len(todo) \in Nat /\ Len(todo) > 0
          /\ t = todo[1] /\ DOMAIN rest = 1..(Len(todo) - 1)
          /\ \A i \in 1..(Len(todo) - 1) : rest[i] = todo[i + 1]
      BY <2>1, <2>2
    <3> HIDE DEF t, rest
    <3>2. 1 \in DOMAIN todo /\ \A i \in DOMAIN rest :
            i + 1 \in DOMAIN todo /\ i + 1 # 1 /\ rest[i] = todo[i + 1]
      BY <3>1
    <3>3. \A i, j \in DOMAIN rest : i + 1 = j + 1 => i = j
      BY <3>1
    <3>4. NoDup(rest)
      BY <2>2, <3>2, <3>3 DEF NoDup
    <3>5. t \in ToSet(todo) /\ t \in Threads
      BY <2>2, <3>1, <3>2 DEF ToSet
    <3>6. ToSet(rest) \subseteq ToSet(todo) \ {t}
      BY <2>2, <3>1, <3>2 DEF ToSet, NoDup
    <3> QED  BY <3>4, <3>5, <3>6
  <2> HIDE DEF t, rest
  <2>4. "wait" \in ListNames /\ "ready" \in ListNames /\ "sleep" \in ListNames
        /\ "blocked" \in ListNames
    BY DEF ListNames
  <2>5. t \in Members(lists, "wait") /\ t \notin Members(lists, "ready")
    BY <1>1, <2>2, <2>3, <2>4 DEF Disjoint
  <2>6. t # cur
    <3>1. cur # None => cur \notin Members(lists, "wait")
      BY <2>4, InvFacts
    <3> QED  BY <2>3, <2>5, <3>1
  <2>7. status \in [Threads -> SUBSET Flags]
    BY DEF IInv, TypeOK
  <2>8. \A x \in Threads : status'[x] \cap Holds = status[x] \cap Holds
    BY <2>1, <2>7 DEF Holds
  <2>9. ASSUME UNCHANGED <<lists, effectivePriority, phase>>
        PROVE  PlaceInv' /\ Members(lists', "wait") = Members(lists, "wait")
               /\ phase' = phase
    <3>1. PlaceInv'
      BY <2>1, <2>8, <2>9, StayStep
    <3> QED  BY <2>9, <3>1 DEF Members
  <2>10. ASSUME NEW n \in {"ready", "blocked", "sleep"},
                Moved(Threads, lists, lists', t, n), ReadySorted', phase' = phase,
                n \in {"ready", "sleep"} => status[t] \cap Holds = {}
         PROVE  PlaceInv' /\ Members(lists', "wait") = Members(lists, "wait") \ {t}
                /\ phase' = phase
    <3>1. PlaceInv'
      BY <2>1, <2>3, <2>4, <2>6, <2>8, <2>10, MoveStep
    <3> QED  BY <1>1, <2>4, <2>10, <3>1 DEF Moved
  <2>11. /\ PlaceInv' /\ phase' = phase
         /\ Members(lists, "wait") \ {t} \subseteq Members(lists', "wait")
    <3>1. CASE signal[t] # raised \/ "Stopped" \in status[t]
      BY <2>1, <2>9, <3>1
    <3>2. CASE signal[t] = raised /\ "Stopped" \notin status[t]
               /\ ("Blocked" \in status[t] \/ sleepTime[t] > 0)
      <4> DEFINE n == IF "Blocked" \in status[t] THEN "blocked" ELSE "sleep"
      <4>1. lists' = AddTail(lists, n, t) /\ UNCHANGED <<effectivePriority, phase>>
        BY <2>1, <3>2
      <4>2. n \in ListNames /\ n # "ready"
        BY <2>4
      <4>3. n \in {"ready", "sleep"} => status[t] \cap Holds = {}
        BY <3>2 DEF Holds
      <4>6. n \in {"ready", "blocked", "sleep"}
        OBVIOUS
      <4> HIDE DEF n
      <4>4. Moved(Threads, lists, lists', t, n) /\ Descending(lists'["ready"], effectivePriority)
        BY <1>1, <2>3, <4>1, <4>2, AddTailPlaces
      <4>5. ReadySorted'
        BY <4>1, <4>4 DEF ReadySorted
      <4> QED  BY <2>10, <4>1, <4>3, <4>4, <4>5, <4>6
    <3>3. CASE signal[t] = raised /\ "Stopped" \notin status[t]
               /\ ~("Blocked" \in status[t] \/ sleepTime[t] > 0)
      <4>1. Enter(t, EnterPriority(t), phase)
        BY <2>1, <3>3
      <4>2. phase' = phase /\ Moved(Threads, lists, lists', t, "ready") /\ Placed'
        BY <1>1, <2>3, <2>5, <4>1, EnterPlaces
      <4>3. ReadySorted' /\ status[t] \cap Holds = {}
        BY <3>3, <4>2 DEF Placed, Holds
      <4> QED  BY <2>10, <4>2, <4>3
    <3> QED  BY <3>1, <3>2, <3>3
  <2>12. RestInv'
    <3>1. TodoWaits'
      BY <2>1, <2>2, <2>3, <2>11 DEF TodoWaits
    <3>2. NoSelfInsert' /\ UserStarted' /\ ScanIdle'
      BY <2>1, <2>11 DEF IInv, RestInv, NoSelfInsert, UserStarted, ScanIdle
    <3>3. WorkersServe'
      BY <1>2, <2>1, <2>8 DEF IInv, RestInv, WorkersServe, Holds
    <3> QED  BY <3>1, <3>2, <3>3 DEF RestInv
  <2> QED  BY <2>11, <2>12
<1> QED  BY <1>3, <1>4 DEF Deliver

\* A step that moves one thread, the running one or another, and goes on with
\* that or with dispatch().
LEMMA OneMoves ==
  ASSUME IInv, NEW t \in Threads, NEW n \in ListNames,
         Moved(Threads, lists, lists', t, n), ReadySorted',
         \/ cur' = None /\ cur = t
         \/ cur' = cur /\ cur # t /\ \A u \in User : instance'[u] = instance[u],
         \A x \in Threads : x # t =>
           /\ status'[x] \cap Holds \subseteq status[x]
           /\ inCall'[x] = inCall[x] \/ x \in Workers,
         n \in {"ready", "sleep"} => status'[t] \cap Holds = {},
         \A w \in Workers : /\ inCall'[w] \in {"none", "served"}
                            /\ "Stopped" \in status'[w] => "Stopped" \in status[w],
         phase' \in {"run", "dispatch"}
  PROVE  PlaceInv' /\ RestInv'
<1> USE ThreadsAssumption
<1>1. \A w \in Workers : inCall[w] # "block"
  BY DEF IInv, RestInv, WorkersServe
<1>2. \A x \in Threads : x # t =>
        /\ status'[x] \cap Holds \subseteq status[x]
        /\ inCall[x] = "block" => inCall'[x] = "block"
  BY <1>1
<1>3. cur' # t /\ (cur' = None \/ cur' = cur) /\ (cur' = None => cur \in {None, t})
  OBVIOUS
<1>4. PlaceInv'
  BY <1>2, <1>3, MoveStep
<1>5. ScanIdle'
  BY DEF ScanIdle
<1>6. RestInv'
  BY <1>5, RestStep
<1> QED  BY <1>4, <1>6

\* Thread::unblock of a blocked thread that does not run.
LEMMA ThreadUnblockPlaces ==
  ASSUME IInv, NEW t \in Threads, "Blocked" \in status[t], t # cur,
         inCall[t] # "block" \/ t \in User, ThreadUnblock(t),
         UNCHANGED <<cur, inCall, instance>>, phase' \in {"run", "dispatch"}
  PROVE  PlaceInv' /\ RestInv'
<1> USE ThreadsAssumption
<1>1. /\ Placed /\ ListType /\ PriorityType
      /\ \A w \in Workers : inCall[w] \in {"none", "served"} /\ w \in Threads
      /\ status \in [Threads -> SUBSET Flags]
  BY InvFacts DEF IInv, RestInv, WorkersServe, Threads, TypeOK
<1>2. status' = [status EXCEPT ![t] = UnblockedStatus(t)]
  BY DEF ThreadUnblock
<1>3. /\ \A x \in Threads : x # t => status'[x] = status[x]
      /\ status'[t] = UnblockedStatus(t)
  BY <1>1, <1>2
<1>4. \A x \in Threads : status'[x] \cap Holds \subseteq status[x]
  BY <1>1, <1>3 DEF UnblockedStatus, Holds
<1>5. \A w \in Workers : "Stopped" \in status'[w] => "Stopped" \in status[w]
  BY <1>1, <1>4 DEF Holds
<1>6. CASE "Stopped" \in status[t]
  <2>1. UNCHANGED <<lists, effectivePriority>>
    BY <1>6 DEF ThreadUnblock
  <2>2. PlaceInv'
    BY <1>4, <2>1, StayStep
  <2>3. RestInv'
    BY <1>1, <1>5, RestStep DEF ScanIdle
  <2> QED  BY <2>2, <2>3
<1>7. CASE "Stopped" \notin status[t]
  <2>1. Unblock(t, sleepTime)
    BY <1>7 DEF ThreadUnblock
  <2>2. PICK n \in {"ready", "sleep"} : Moved(Threads, lists, lists', t, n)
    BY <1>1, <2>1, UnblockPlaces
  <2>3. ReadySorted' /\ n \in ListNames
    BY <1>1, <2>1, UnblockPlaces DEF ListNames
  <2>4. status'[t] \cap Holds = {}
    BY <1>3, <1>7 DEF UnblockedStatus, Holds
  <2> QED  BY <1>1, <1>4, <1>5, <2>2, <2>3, <2>4, OneMoves
<1> QED  BY <1>6, <1>7

\* The calls with which the running user thread gives up the CPU.
LEMMA LeavePlaces ==
  ASSUME IInv, NEW t \in User,
         \/ \E d \in Delays : ThreadSleep(t, d)
         \/ BlockEnd(t) \/ SigwaitEnd(t) \/ InstanceEnds(t)
  PROVE  PlaceInv' /\ RestInv'
<1> USE ThreadsAssumption
<1>1. /\ Placed /\ ListType /\ PriorityType
      /\ \A w \in Workers : /\ inCall[w] \in {"none", "served"}
                            /\ w \in Threads /\ w # t
      /\ status \in [Threads -> SUBSET Flags] /\ inCall \in [Threads -> CallPoints]
      /\ t \in Threads /\ t # None
  BY InvFacts DEF IInv, RestInv, WorkersServe, Threads, TypeOK
<1>2. cur = t
  BY DEF ThreadSleep, BlockEnd, SigwaitEnd, InstanceEnds, Runs
<1>3. \A n \in ListNames : t \notin Members(lists, n)
  BY <1>1, <1>2, InvFacts
<1>4. "sleep" \in ListNames /\ "blocked" \in ListNames /\ "wait" \in ListNames
      /\ "sleep" # "ready" /\ "blocked" # "ready" /\ "wait" # "ready"
  BY DEF ListNames
<1>5. ASSUME NEW n \in {"sleep", "blocked", "wait"},
             Moved(Threads, lists, lists', t, n), ReadySorted', cur' = None,
             phase' = "dispatch",
             \A x \in Threads : x # t => status'[x] = status[x] /\ inCall'[x] = inCall[x],
             n = "sleep" => status'[t] \cap Holds = {}
      PROVE  PlaceInv' /\ RestInv'
  BY <1>1, <1>2, <1>4, <1>5, OneMoves
<1>6. ASSUME NEW d \in Delays, ThreadSleep(t, d)  PROVE PlaceInv' /\ RestInv'
  <2>1. /\ status' = [status EXCEPT ![t] = @ \ {"Ready"}]
        /\ cur' = None /\ Sleep(t, sleepTime', "dispatch")
        /\ UNCHANGED <<inCall, effectivePriority>> /\ inCall[t] = "none"
    BY <1>6 DEF ThreadSleep, Runs, attrVars
  <2>2. /\ phase' = "dispatch" /\ Moved(Threads, lists, lists', t, "sleep")
        /\ Descending(lists'["ready"], effectivePriority)
    BY <1>1, <1>3, <1>4, <2>1, SleepPlaces
  <2>3. ReadySorted'
    BY <2>1, <2>2 DEF ReadySorted
  <2>4. status[t] \cap Holds = {}
    BY <1>1, <1>2, <2>1, InvFacts
  <2>5. status'[t] \cap Holds = {} /\ \A x \in Threads : x # t => status'[x] = status[x]
    BY <1>1, <2>1, <2>4 DEF Holds
  <2> QED  BY <1>5, <2>1, <2>2, <2>3, <2>5
<1>7. CASE BlockEnd(t) \/ SigwaitEnd(t)
  <2>1. PICK n \in {"blocked", "wait"} : lists' = AddTail(lists, n, t)
    BY <1>7 DEF BlockEnd, SigwaitEnd
  <2>2. /\ cur' = None /\ phase' = "dispatch" /\ UNCHANGED <<status, effectivePriority>>
        /\ inCall' = [inCall EXCEPT ![t] = "none"]
    BY <1>7 DEF BlockEnd, SigwaitEnd, attrVars
  <2>3. Moved(Threads, lists, lists', t, n) /\ Descending(lists'["ready"], effectivePriority)
    BY <1>1, <1>4, <2>1, AddTailPlaces
  <2>4. ReadySorted'
    BY <2>2, <2>3 DEF ReadySorted
  <2>5. \A x \in Threads : x # t => status'[x] = status[x] /\ inCall'[x] = inCall[x]
    BY <1>1, <2>2
  <2>6. n # "sleep"
    OBVIOUS
  <2> QED  BY <1>5, <2>2, <2>3, <2>4, <2>5, <2>6
<1>8. CASE InstanceEnds(t)
  <2>1. /\ status' = [status EXCEPT ![t] = {"New"}]
        /\ cur' = None /\ Sleep(t, sleepTime', "dispatch")
        /\ UNCHANGED inCall
        /\ effectivePriority' = [effectivePriority EXCEPT ![t] = Priority[t]]
    BY <1>8 DEF InstanceEnds, ComputedPriority
  <2>2. /\ phase' = "dispatch" /\ Moved(Threads, lists, lists', t, "sleep")
        /\ Descending(lists'["ready"], effectivePriority)
    BY <1>1, <1>3, <1>4, <2>1, SleepPlaces
  <2>3. t \notin Members(lists', "ready") /\ lists'["ready"] \in Seq(Threads)
    BY <1>1, <1>3, <2>2 DEF Moved, Placed, ListNames
  <2>4. Descending(lists'["ready"], [effectivePriority EXCEPT ![t] = Priority[t]])
    <3>1. effectivePriority \in [Threads -> Nat] /\ t \notin ToSet(lists'["ready"])
      BY <1>1, <2>3 DEF PriorityType, Members
    <3> QED  BY <2>2, <2>3, <3>1, OrderIgnoresOthers
  <2>5. ReadySorted'
    BY <2>1, <2>4 DEF ReadySorted
  <2>6. status'[t] \cap Holds = {} /\ \A x \in Threads : x # t => status'[x] = status[x]
    BY <1>1, <2>1 DEF Holds
  <2> QED  BY <1>5, <2>1, <2>2, <2>5, <2>6
<1> QED  BY <1>6, <1>7, <1>8

\* The steps of a user thread that move no thread.
LEMMA StayPlaces ==
  ASSUME IInv, NEW t \in User,
         \/ \E d \in Timeouts : BlockBegin(t, d)
         \/ \E sig \in Signals : SigwaitBegin(t, sig) \/ SignalBegin(t, sig)
  PROVE  PlaceInv' /\ RestInv'
<1> USE ThreadsAssumption
<1>1. /\ \A w \in Workers : /\ inCall[w] \in {"none", "served"}
                            /\ w \in Threads /\ w # t
      /\ status \in [Threads -> SUBSET Flags] /\ inCall \in [Threads -> CallPoints]
      /\ t \in Threads /\ t # None
  BY DEF IInv, RestInv, WorkersServe, Threads, TypeOK
<1>2. /\ cur = t /\ phase = "run" /\ inCall[t] = "none"
      /\ UNCHANGED <<lists, cur, effectivePriority, instance>>
  BY DEF BlockBegin, SigwaitBegin, SignalBegin, Runs, attrVars
<1>3. CASE \E d \in Timeouts : BlockBegin(t, d)
  <2>1. /\ status' = [status EXCEPT ![t] = (@ \ {"Ready"}) \cup {"Blocked"}]
        /\ inCall' = [inCall EXCEPT ![t] = "block"] /\ phase' = phase
    BY <1>3 DEF BlockBegin
  <2>2. \A x \in Threads : IF x = t THEN inCall'[x] = "block"
                           ELSE status'[x] = status[x] /\ inCall'[x] = inCall[x]
    BY <1>1, <2>1
  <2>3. PlaceInv'
    BY <1>2, <2>2, StayStep
  <2>4. RestInv'
    BY <1>1, <1>2, <2>1, <2>2, RestStep DEF ScanIdle
  <2> QED  BY <2>3, <2>4
<1>4. CASE \E sig \in Signals : SigwaitBegin(t, sig)
  <2>1. /\ status' = [status EXCEPT ![t] = (@ \ {"Ready"}) \cup {"Signal"}]
        /\ inCall' = [inCall EXCEPT ![t] = "sigwait"] /\ phase' = phase
    BY <1>4 DEF SigwaitBegin
  <2>2. \A x \in Threads : /\ status'[x] \cap Holds = status[x] \cap Holds
                           /\ x # t => inCall'[x] = inCall[x]
    BY <1>1, <2>1 DEF Holds
  <2>3. \A x \in Threads : inCall[x] = "block" => inCall'[x] = "block"
    BY <1>2, <2>2
  <2>4. PlaceInv'
    BY <1>2, <2>2, <2>3, StayStep
  <2>5. \A w \in Workers : /\ inCall'[w] \in {"none", "served"}
                           /\ "Stopped" \in status'[w] => "Stopped" \in status[w]
    BY <1>1, <2>2 DEF Holds
  <2>6. RestInv'
    BY <1>2, <2>1, <2>5, RestStep DEF ScanIdle
  <2> QED  BY <2>4, <2>6
<1>5. CASE \E sig \in Signals : SignalBegin(t, sig)
  <2>1. phase' = "signal" /\ todo' = lists["wait"] /\ UNCHANGED <<status, inCall>>
    BY <1>5 DEF SignalBegin
  <2>2. PlaceInv'
    BY <1>2, <2>1, StayStep
  <2>3. NoDup(lists["wait"])
    BY InvFacts DEF Disjoint, ListNames
  <2>4. TodoWaits'
    BY <1>2, <2>1, <2>3 DEF TodoWaits, Members
  <2>5. NoSelfInsert' /\ UserStarted' /\ WorkersServe' /\ ScanIdle'
    BY <1>2, <2>1
    DEF IInv, RestInv, NoSelfInsert, UserStarted, WorkersServe, ScanIdle
  <2> QED  BY <2>2, <2>4, <2>5 DEF RestInv
<1> QED  BY <1>3, <1>4, <1>5

\* A running thread is neither blocked nor stopped: a thread that is, is
\* another one.  The threads a task unblocks, stops and resumes.
LEMMA OtherPlaces ==
  ASSUME CallersFollowContract, IInv, NEW t \in Threads, inCall[t] = "none",
         NEW u \in User,
         UnblockOther(t, u) \/ ThreadStop(t, u) \/ ThreadResume(t, u)
  PROVE  PlaceInv' /\ RestInv'
<1> USE ThreadsAssumption
<1>1. /\ Placed /\ ListType /\ PriorityType
      /\ \A w \in Workers : /\ inCall[w] \in {"none", "served"}
                            /\ w \in Threads /\ w # u
      /\ status \in [Threads -> SUBSET Flags] /\ inCall \in [Threads -> CallPoints]
      /\ u \in Threads /\ t # None
  BY InvFacts DEF IInv, RestInv, WorkersServe, Threads, TypeOK
<1>2. cur = t /\ phase = "run" /\ UNCHANGED <<inCall, instance>>
  BY DEF UnblockOther, ThreadStop, ThreadResume, Runs, attrVars
<1>3. status[t] \cap Holds = {}
  BY <1>1, <1>2, InvFacts
<1>4. CASE UnblockOther(t, u)
  <2>1. "Blocked" \in status[u] /\ ThreadUnblock(u) /\ cur' = cur /\ phase' = phase
    BY <1>4 DEF UnblockOther
  <2>2. u # cur
    BY <1>2, <1>3, <2>1 DEF Holds
  <2> QED  BY <1>1, <1>2, <2>1, <2>2, ThreadUnblockPlaces
<1>5. CASE ThreadStop(t, u)
  <2>1. /\ status' = [status EXCEPT ![u] = @ \cup {"Stopped"}]
        /\ UNCHANGED effectivePriority
    BY <1>5 DEF ThreadStop, attrVars
  <2>2. \A x \in Threads : x # u => status'[x] = status[x]
    BY <1>1, <2>1
  <2>3. CASE "Blocked" \in status[u]
    <3>1. UNCHANGED <<lists, cur, phase>>
      BY <1>5, <2>3 DEF ThreadStop
    <3>2. \A x \in Threads :
            status'[x] \cap Holds # {} => status[x] \cap Holds # {} \/ x = cur
      BY <2>2, <2>3 DEF Holds
    <3>3. \A x \in Threads :
           \/ inCall'[x] = "block"
           \/ /\ status'[x] \cap Holds \subseteq status[x]
              /\ inCall[x] # "block"
           \/ inCall[x] # "block" /\ status[x] \cap Holds # {}
      BY <1>2, <2>2, <2>3 DEF Holds
    <3>4. PlaceInv'
      BY <2>1, <3>1, <3>2, <3>3, StayStep
    <3>5. RestInv'
      BY <1>1, <1>2, <2>2, <3>1, RestStep DEF ScanIdle
    <3> QED  BY <3>4, <3>5
  <2>4. CASE "Blocked" \notin status[u]
    <3>1. /\ lists' = AddTail(lists, "blocked", u)
          /\ cur' = IF u = t THEN None ELSE cur
          /\ phase' = IF u = t THEN "dispatch" ELSE phase
      BY <1>5, <2>4 DEF ThreadStop
    <3>2. "blocked" \in ListNames /\ "blocked" # "ready"
      BY DEF ListNames
    <3>3. /\ Moved(Threads, lists, lists', u, "blocked")
          /\ Descending(lists'["ready"], effectivePriority)
      BY <1>1, <3>1, <3>2, AddTailPlaces
    <3>4. ReadySorted'
      BY <2>1, <3>3 DEF ReadySorted
    <3>5. (cur' = None /\ cur = u) \/ (cur' = cur /\ cur # u)
      BY <1>2, <3>1
    <3>6. phase' \in {"run", "dispatch"}
      BY <1>2, <3>1
    <3> QED  BY <1>1, <1>2, <2>2, <3>2, <3>3, <3>4, <3>5, <3>6, OneMoves
  <2> QED  BY <2>3, <2>4
<1>6. CASE ThreadResume(t, u)
  <2>1. "Stopped" \in status[u] /\ phase' = "dispatch" /\ cur' = cur
    BY <1>6 DEF ThreadResume
  <2>2. u # cur
    BY <1>2, <1>3, <2>1 DEF Holds
  <2>3. CASE "Blocked" \in status[u]
    <3>1. /\ status' = [status EXCEPT ![u] = @ \ {"Stopped"}]
          /\ UNCHANGED <<lists, effectivePriority>>
      BY <1>6, <2>3 DEF ThreadResume
    <3>2. \A x \in Threads : status'[x] \cap Holds \subseteq status[x]
      BY <1>1, <3>1
    <3>3. PlaceInv'
      BY <1>2, <2>1, <3>1, <3>2, StayStep
    <3>4. RestInv'
      BY <1>1, <1>2, <2>1, <3>1, RestStep DEF ScanIdle
    <3> QED  BY <3>3, <3>4
  <2>4. CASE "Blocked" \notin status[u]
    <3>1. /\ status' = [status EXCEPT ![u] = (@ \ {"Stopped"}) \cup {"Ready"}]
          /\ Unblock(u, sleepTime)
      BY <1>6, <2>4 DEF ThreadResume
    <3>2. PICK n \in {"ready", "sleep"} : Moved(Threads, lists, lists', u, n)
      BY <1>1, <3>1, UnblockPlaces
    <3>3. ReadySorted' /\ n \in ListNames
      BY <1>1, <3>1, UnblockPlaces DEF ListNames
    <3>4. /\ status'[u] \cap Holds = {}
          /\ \A x \in Threads : x # u => status'[x] = status[x]
      BY <1>1, <2>4, <3>1 DEF Holds
    <3> QED  BY <1>1, <1>2, <2>1, <2>2, <3>2, <3>3, <3>4, OneMoves
  <2> QED  BY <2>3, <2>4
<1> QED  BY <1>4, <1>5, <1>6

\* thread_run of a thread that has never been started.
LEMMA ThreadRunPlaces ==
  ASSUME CallersFollowContract, IInv, NEW t \in User, NEW u \in User, ThreadRun(t, u)
  PROVE  PlaceInv' /\ RestInv'
<1> USE ThreadsAssumption
<1>1. /\ Placed /\ ListType /\ PriorityType
      /\ \A w \in Workers : /\ inCall[w] \in {"none", "served"}
                            /\ w \in Threads /\ w # u
      /\ status \in [Threads -> SUBSET Flags]
      /\ u \in Threads /\ t # None
  BY InvFacts DEF IInv, RestInv, WorkersServe, Threads, TypeOK
<1>2. /\ cur = t /\ phase = "run" /\ UNCHANGED <<cur, inCall, instance>>
      /\ instance[u] = 1 /\ u \notin Listed(lists)
  BY DEF ThreadRun, Runs, NeverStarted
<1>3. u # cur
  BY <1>2 DEF IInv, RestInv, UserStarted
<1>4. u \notin Members(lists, "ready") /\ u \notin Members(lists, "sleep")
      /\ "sleep" \in ListNames /\ "ready" \in ListNames
  BY <1>2 DEF Listed, ListNames
<1>5. status[u] \cap Holds = {}
  BY <1>1, <1>2, <1>3 DEF IInv, PlaceInv, HeldListed, Running
<1>6. ASSUME NEW n \in {"ready", "sleep"}, Moved(Threads, lists, lists', u, n),
             ReadySorted', phase' = "dispatch",
             \A x \in Threads : status'[x] \cap Holds = status[x] \cap Holds
      PROVE  PlaceInv' /\ RestInv'
  <2>1. \A w \in Workers : "Stopped" \in status'[w] => "Stopped" \in status[w]
    BY <1>1, <1>6 DEF Holds
  <2>2. status'[u] \cap Holds = {}
    BY <1>1, <1>5, <1>6
  <2>3. \A x \in Threads : status'[x] \cap Holds \subseteq status[x]
    BY <1>6
  <2> QED  BY <1>1, <1>2, <1>3, <1>4, <1>6, <2>1, <2>2, <2>3, OneMoves
<1>7. CASE instance[u] = 1 /\ sleepTime[u] > 0
  <2>1. /\ Sleep(u, sleepTime, "dispatch") /\ UNCHANGED status
        /\ effectivePriority' = [effectivePriority EXCEPT ![u] = Priority[u]]
    BY <1>7 DEF ThreadRun, ComputedPriority
  <2>2. /\ phase' = "dispatch" /\ Moved(Threads, lists, lists', u, "sleep")
        /\ Descending(lists'["ready"], effectivePriority)
    BY <1>1, <1>4, <2>1, SleepPlaces
  <2>3. u \notin Members(lists', "ready") /\ lists'["ready"] \in Seq(Threads)
    BY <1>1, <1>4, <2>2 DEF Moved, Placed
  <2>4. Descending(lists'["ready"], [effectivePriority EXCEPT ![u] = Priority[u]])
    <3>1. effectivePriority \in [Threads -> Nat] /\ u \notin ToSet(lists'["ready"])
      BY <1>1, <2>3 DEF PriorityType, Members
    <3> QED  BY <2>2, <2>3, <3>1, OrderIgnoresOthers
  <2>5. ReadySorted'
    BY <2>1, <2>4 DEF ReadySorted
  <2> QED  BY <1>6, <2>1, <2>2, <2>5
<1>8. CASE ~(instance[u] = 1 /\ sleepTime[u] > 0)
  <2>1. /\ status' = [status EXCEPT ![u] = @ \cup {"Ready"}]
        /\ Enter(u, ComputedPriority(u), "dispatch")
    BY <1>8 DEF ThreadRun
  <2>2. phase' = "dispatch" /\ Moved(Threads, lists, lists', u, "ready") /\ Placed'
    BY <1>1, <1>4, <2>1, EnterPlaces
  <2>3. ReadySorted'
    BY <2>2 DEF Placed
  <2>4. \A x \in Threads : status'[x] \cap Holds = status[x] \cap Holds
    BY <1>1, <2>1 DEF Holds
  <2> QED  BY <1>6, <2>2, <2>3, <2>4
<1> QED  BY <1>7, <1>8

\* A worker gets a job; it is not the running thread, which is of a user task.
LEMMA AssignJobPlaces ==
  ASSUME IInv, NEW t \in User, NEW w \in Workers, NEW kind, NEW d,
         AssignJob(t, w, kind, d)
  PROVE  PlaceInv' /\ RestInv'
<1> USE ThreadsAssumption
<1>1. /\ Placed /\ ListType /\ PriorityType
      /\ \A v \in Workers : /\ inCall[v] \in {"none", "served"}
                            /\ v \in Threads /\ "Stopped" \notin status[v]
      /\ status \in [Threads -> SUBSET Flags] /\ instance \in [Threads -> {1, 2}]
      /\ t # w /\ \A u \in User : u \in Threads /\ u # w
  BY InvFacts DEF IInv, RestInv, WorkersServe, Threads, TypeOK
<1>2. /\ cur = t /\ phase = "run" /\ UNCHANGED <<cur, inCall, phase>>
      /\ instance' = [instance EXCEPT ![w] = 1]
      /\ status' = [status EXCEPT ![w] = UnblockedStatus(w)]
      /\ effectivePriority' = [effectivePriority EXCEPT ![w] = Priority[w]]
      /\ lists' = AddTail(lists, "sleep", w)
  BY DEF AssignJob, Runs, ComputedPriority
<1>3. "sleep" \in ListNames /\ "ready" \in ListNames /\ "sleep" # "ready"
  BY DEF ListNames
<1>4. Moved(Threads, lists, lists', w, "sleep") /\ Descending(lists'["ready"], effectivePriority)
  BY <1>1, <1>2, <1>3, AddTailPlaces
<1>5. w \notin Members(lists', "ready") /\ lists'["ready"] \in Seq(Threads)
  <2>1. Members(lists', "ready") = Members(lists, "ready") \ {w}
    BY <1>1, <1>3, <1>4 DEF Moved, Placed
  <2> QED  BY <1>3, <1>4, <2>1 DEF Moved
<1>6. Descending(lists'["ready"], [effectivePriority EXCEPT ![w] = Priority[w]])
  <2>1. effectivePriority \in [Threads -> Nat] /\ w \notin ToSet(lists'["ready"])
    BY <1>1, <1>5 DEF PriorityType, Members
  <2> QED  BY <1>4, <1>5, <2>1, OrderIgnoresOthers
<1>7. ReadySorted'
  BY <1>2, <1>6 DEF ReadySorted
<1>8. /\ status'[w] \cap Holds = {}
      /\ \A x \in Threads : x # w => status'[x] = status[x]
  BY <1>1, <1>2 DEF UnblockedStatus, Holds
<1>9. \A v \in Workers : "Stopped" \in status'[v] => "Stopped" \in status[v]
  BY <1>1, <1>8 DEF Holds
<1>10. \A u \in User : instance'[u] = instance[u]
  BY <1>1, <1>2
<1> QED  BY <1>1, <1>2, <1>3, <1>4, <1>7, <1>8, <1>9, <1>10, OneMoves

\* The end of a thread; afterwards no thread runs and the siblings that wait
\* for the end are visited.
LEMMA ThreadExitPlaces ==
  ASSUME IInv, NEW t \in User, ThreadExit(t)
  PROVE  PlaceInv' /\ RestInv'
<1> USE ThreadsAssumption
<1>1. /\ lists \in [ListNames -> Seq(Threads)] /\ Disjoint(lists)
      /\ Descending(lists["ready"], effectivePriority)
      /\ \A n \in ListNames : Members(lists, n) \subseteq Threads
      /\ status \in [Threads -> SUBSET Flags] /\ t \in Threads
      /\ \A v \in Workers : v \in Threads /\ v # t
  BY InvFacts DEF ListType, Placed, ReadySorted, IInv, TypeOK, Threads
<1>2. /\ cur = t /\ cur' = None /\ lists' = Detach(lists, t)
      /\ status' = [status EXCEPT ![t] = {"Term"}]
      /\ phase' = "signal" /\ todo' = lists'["wait"]
      /\ UNCHANGED <<inCall, effectivePriority>>
  BY DEF ThreadExit, Runs, attrVars
<1>3. /\ Disjoint(lists')
      /\ \A n \in ListNames : Members(lists', n) = Members(lists, n) \ {t}
      /\ Descending(lists'["ready"], effectivePriority)
  BY <1>1, <1>2, DetachLists
<1>4. Running' = {} /\ Running = {t} /\ None \notin Threads
  BY <1>1, <1>2 DEF Running
<1>5. OnePlace' /\ ReadySorted'
  BY <1>2, <1>3, <1>4 DEF OnePlace, ReadySorted
<1>6. /\ status'[t] \cap Holds = {}
      /\ \A x \in Threads : x # t => status'[x] = status[x]
  BY <1>1, <1>2 DEF Holds
<1>7. Clean'
  <2> SUFFICES ASSUME NEW x \in Members(lists', "ready") \cup Members(lists', "sleep"),
                      inCall'[x] # "block"
               PROVE  status'[x] \cap Holds = {}
    BY <1>4 DEF Clean
  <2>1. x \in Members(lists, "ready") \cup Members(lists, "sleep") /\ x \in Threads /\ x # t
    BY <1>1, <1>3 DEF ListNames
  <2>2. inCall[x] # "block" => status[x] \cap Holds = {}
    BY <2>1 DEF IInv, PlaceInv, Clean
  <2> QED  BY <1>2, <1>6, <2>1, <2>2
<1>8. HeldListed'
  <2>1. Listed(lists) \subseteq Listed(lists') \cup {t}
    BY <1>3 DEF Listed
  <2> QED  BY <1>4, <1>6, <2>1 DEF HeldListed, IInv, PlaceInv
<1>9. TodoWaits'
  BY <1>2, <1>3 DEF TodoWaits, Disjoint, Members, ListNames
<1>10. NoSelfInsert' /\ UserStarted' /\ WorkersServe' /\ ScanIdle'
  BY <1>1, <1>2, <1>6
  DEF IInv, RestInv, NoSelfInsert, UserStarted, WorkersServe, ScanIdle, Threads
<1> QED  BY <1>5, <1>7, <1>8, <1>9, <1>10 DEF PlaceInv, RestInv

\* Every step of a user thread keeps the invariant.
LEMMA UserPlaces ==
  ASSUME CallersFollowContract, IInv, NEW t \in User, UserStep(t)
  PROVE  PlaceInv' /\ RestInv'
<1> USE ThreadsAssumption
<1>1. t \in Threads
  BY DEF Threads
<1>2. ASSUME NEW u \in User,
             UnblockOther(t, u) \/ ThreadStop(t, u) \/ ThreadResume(t, u)
      PROVE  PlaceInv' /\ RestInv'
  <2>1. inCall[t] = "none"
    BY <1>2 DEF UnblockOther, ThreadStop, ThreadResume, Runs
  <2> QED  BY <1>1, <1>2, <2>1, OtherPlaces
<1>3. ASSUME NEW u \in User, ThreadRun(t, u)  PROVE PlaceInv' /\ RestInv'
  BY <1>3, ThreadRunPlaces
<1>4. ASSUME NEW w \in Workers, NEW d \in Delays, NEW kind \in {"Timed", "Periodic"},
             AssignJob(t, w, kind, d)
      PROVE  PlaceInv' /\ RestInv'
  BY <1>4, AssignJobPlaces
<1>5. ASSUME \/ \E d \in Delays : ThreadSleep(t, d)
             \/ BlockEnd(t) \/ SigwaitEnd(t) \/ InstanceEnds(t)
      PROVE  PlaceInv' /\ RestInv'
  BY <1>5, LeavePlaces
<1>6. ASSUME \/ \E d \in Timeouts : BlockBegin(t, d)
             \/ \E sig \in Signals : SigwaitBegin(t, sig) \/ SignalBegin(t, sig)
      PROVE  PlaceInv' /\ RestInv'
  BY <1>6, StayPlaces
<1>7. CASE ThreadExit(t)
  BY <1>7, ThreadExitPlaces
<1> QED  BY <1>2, <1>3, <1>4, <1>5, <1>6, <1>7 DEF UserStep

\* The walk of the blocked list moves at most one thread, from that list.
LEMMA ServicePlaces ==
  ASSUME IInv, NEW w \in Workers, ServiceTimeouts(w)
  PROVE  PlaceInv' /\ RestInv'
<1> USE ThreadsAssumption
<1>1. /\ Placed /\ ListType /\ PriorityType
      /\ \A v \in Workers : /\ inCall[v] \in {"none", "served"} /\ v \in Threads
      /\ status \in [Threads -> SUBSET Flags] /\ inCall \in [Threads -> CallPoints]
  BY InvFacts DEF IInv, RestInv, WorkersServe, Threads, TypeOK
<1> DEFINE B == lists["blocked"]
           k == SelectInSeq(B, LAMBDA t : TimedOut(t) /\ "Stopped" \notin status[t])
           woken == {t \in Threads : /\ TimedOut(t)
                                     /\ \E i \in 1..Len(B) :
                                          B[i] = t /\ (k = 0 \/ i <= k)}
<1>2. B \in Seq(Threads)
  BY <1>1 DEF ListType, ListNames
<1>3. k = SelectInSeq(B, LAMBDA t : TimedOut(t) /\ "Stopped" \notin status[t])
  BY Zenon
<1> HIDE DEF B, k
<1>4. /\ k \in 0..Len(B)
      /\ k # 0 => TimedOut(B[k]) /\ "Stopped" \notin status[B[k]]
  BY <1>2, <1>3, FirstTimedOut
<1>5. /\ status' = [t \in Threads |-> IF t \in woken THEN UnblockedStatus(t) ELSE status[t]]
      /\ IF k # 0 THEN Unblock(B[k], sleepTime)
         ELSE UNCHANGED <<lists, effectivePriority, timer, needReschedule>>
  BY Zenon DEF ServiceTimeouts, B, k
<1>6. /\ cur = w /\ phase = "run" /\ inCall' = [inCall EXCEPT ![w] = "served"]
      /\ UNCHANGED <<cur, instance, phase>>
  BY DEF ServiceTimeouts, Runs
<1>7. k # 0 => B[k] \in woken
  BY <1>2, <1>4
<1> HIDE DEF woken
<1>8. \A x \in Threads : UnblockedStatus(x) \cap Holds \subseteq status[x]
  BY <1>1 DEF UnblockedStatus, Holds
<1>9. \A x \in Threads : status'[x] \cap Holds \subseteq status[x]
  BY <1>5, <1>8
<1>10. \A v \in Workers : /\ inCall'[v] \in {"none", "served"}
                          /\ "Stopped" \in status'[v] => "Stopped" \in status[v]
  BY <1>1, <1>6, <1>9 DEF Holds
<1>11. \A x \in Threads : inCall'[x] = inCall[x] \/ x \in Workers
  BY <1>1, <1>6
<1>12. CASE k = 0
  <2>1. UNCHANGED <<lists, effectivePriority>>
    BY <1>5, <1>12
  <2>2. \A x \in Threads : inCall[x] = "block" => inCall'[x] = "block"
    BY <1>1, <1>11
  <2>3. PlaceInv'
    BY <1>6, <1>9, <2>1, <2>2, StayStep
  <2>4. RestInv'
    BY <1>6, <1>10, RestStep DEF ScanIdle
  <2> QED  BY <2>3, <2>4
<1>13. CASE k # 0
  <2> DEFINE u == B[k]
  <2>1. u \in Threads /\ u \in Members(lists, "blocked")
    <3>1. k \in DOMAIN B
      BY <1>2, <1>4, <1>13
    <3>2. u \in ToSet(B) /\ u \in Threads
      BY <1>2, <3>1 DEF ToSet
    <3> QED  BY <3>2 DEF Members, B
  <2>2. Unblock(u, sleepTime) /\ u \in woken /\ "Stopped" \notin status[u]
    BY <1>4, <1>5, <1>7, <1>13
  <2> HIDE DEF u
  <2>3. PICK n \in {"ready", "sleep"} : Moved(Threads, lists, lists', u, n)
    BY <1>1, <2>1, <2>2, UnblockPlaces
  <2>4. ReadySorted' /\ n \in ListNames
    BY <1>1, <2>1, <2>2, UnblockPlaces DEF ListNames
  <2>5. u # cur
    <3>1. cur # None => cur \notin Members(lists, "blocked")
      BY InvFacts DEF ListNames
    <3> QED  BY <2>1, <3>1
  <2>6. status'[u] \cap Holds = {}
    BY <1>1, <1>5, <2>1, <2>2 DEF UnblockedStatus, Holds
  <2> QED  BY <1>6, <1>9, <1>10, <1>11, <2>1, <2>3, <2>4, <2>5, <2>6, OneMoves
<1> QED  BY <1>12, <1>13

\* The worker threads and the interrupts they serve keep the invariant.
LEMMA WorkerPlaces ==
  ASSUME CallersFollowContract, IInv, NEW w \in Workers, WorkerStep(w) \/ DeviceIRQ(w)
  PROVE  PlaceInv' /\ RestInv'
<1> USE ThreadsAssumption
<1>1. /\ Placed /\ ListType /\ PriorityType
      /\ \A v \in Workers : /\ inCall[v] \in {"none", "served"} /\ v \in Threads
                            /\ "Stopped" \notin status[v]
      /\ status \in [Threads -> SUBSET Flags] /\ inCall \in [Threads -> CallPoints]
      /\ w # None /\ w \notin User
  BY InvFacts DEF IInv, RestInv, WorkersServe, Threads, TypeOK
<1>2. CASE DeviceIRQ(w)
  <2>1. /\ "Blocked" \in status[w] /\ ThreadUnblock(w) /\ UNCHANGED <<cur, inCall, instance>>
        /\ phase = "run" /\ phase' \in {phase, "dispatch"}
    BY <1>2 DEF DeviceIRQ, InterruptsEnabled
  <2>2. w # cur
    <3>1. cur # None /\ inCall[cur] # "block" => status[cur] \cap Holds = {}
      BY InvFacts
    <3> QED  BY <1>1, <2>1, <3>1 DEF Holds
  <2> QED  BY <1>1, <2>1, <2>2, ThreadUnblockPlaces
<1>3. ASSUME NEW u \in User, UnblockOther(w, u)  PROVE PlaceInv' /\ RestInv'
  <2>1. inCall[w] = "none"
    BY <1>3 DEF UnblockOther, Runs
  <2> QED  BY <1>1, <1>3, <2>1, OtherPlaces
<1>4. CASE ServiceTimeouts(w)
  BY <1>4, ServicePlaces
<1>5. CASE WorkDone(w)
  <2>1. /\ cur = w /\ cur' = None /\ inCall' = [inCall EXCEPT ![w] = "none"]
        /\ UNCHANGED effectivePriority
    BY <1>5 DEF WorkDone
  <2>2. "sleep" \in ListNames /\ "blocked" \in ListNames
        /\ "sleep" # "ready" /\ "blocked" # "ready"
    BY DEF ListNames
  <2>3. w \notin Members(lists, "sleep") /\ status[w] \cap Holds = {}
    BY <1>1, <2>1, <2>2, InvFacts
  <2>4. ASSUME NEW n \in {"sleep", "blocked"}, Moved(Threads, lists, lists', w, n),
               Descending(lists'["ready"], effectivePriority), phase' = "dispatch",
               \A x \in Threads : x # w => status'[x] = status[x],
               "Stopped" \notin status'[w], n = "sleep" => status'[w] \cap Holds = {}
        PROVE  PlaceInv' /\ RestInv'
    <3>1. ReadySorted'
      BY <2>1, <2>4 DEF ReadySorted
    <3>2. \A v \in Workers : /\ inCall'[v] \in {"none", "served"}
                             /\ "Stopped" \in status'[v] => "Stopped" \in status[v]
      BY <1>1, <2>1, <2>4
    <3>3. \A x \in Threads : x # w => inCall'[x] = inCall[x]
      BY <1>1, <2>1
    <3> QED  BY <1>1, <2>1, <2>2, <2>4, <3>1, <3>2, <3>3, OneMoves
  <2>5. CASE job[w] = "Periodic"
    <3>1. /\ status' = [status EXCEPT ![w] = (@ \ {"Ready"}) \cup {"New"}]
          /\ Sleep(w, sleepTime', "dispatch")
      BY <1>5, <2>5 DEF WorkDone
    <3>2. /\ phase' = "dispatch" /\ Moved(Threads, lists, lists', w, "sleep")
          /\ Descending(lists'["ready"], effectivePriority)
      BY <1>1, <2>3, <3>1, SleepPlaces
    <3>3. /\ status'[w] \cap Holds = {}
          /\ \A x \in Threads : x # w => status'[x] = status[x]
      BY <1>1, <2>3, <3>1 DEF Holds
    <3>4. "Stopped" \notin status'[w]
      BY <3>3 DEF Holds
    <3> QED  BY <2>4, <3>2, <3>3, <3>4
  <2>6. CASE job[w] # "Periodic"
    <3>1. /\ status' = [status EXCEPT ![w] = (@ \ {"Ready"}) \cup {"New", "Blocked"}]
          /\ lists' = AddTail(lists, "blocked", w) /\ phase' = "dispatch"
      BY <1>5, <2>6 DEF WorkDone
    <3>2. /\ Moved(Threads, lists, lists', w, "blocked")
          /\ Descending(lists'["ready"], effectivePriority)
      BY <1>1, <2>2, <3>1, AddTailPlaces
    <3>3. /\ "Stopped" \notin status'[w]
          /\ \A x \in Threads : x # w => status'[x] = status[x]
      BY <1>1, <3>1
    <3> QED  BY <2>4, <3>1, <3>2, <3>3
  <2> QED  BY <2>5, <2>6
<1> QED  BY <1>2, <1>3, <1>4, <1>5 DEF WorkerStep

-----------------------------------------------------------------------------
\* The invariant holds after boot.
LEMMA InitHolds == Init => IInv
<1> SUFFICES ASSUME Init  PROVE IInv
  OBVIOUS
<1> USE ThreadsAssumption
<1>1. TypeOK
  BY InitTypes
<1>2. /\ Disjoint(lists) /\ Members(lists, "ready") = {MainThread}
      /\ Members(lists, "sleep") = {ServiceThread} \ {None}
      /\ Members(lists, "blocked") = Workers \ {ServiceThread}
  BY InitLists
<1>3. cur = None /\ phase = "dispatch" /\ Running = {}
  BY DEF Init, Running
<1>4. OnePlace
  BY <1>2, <1>3 DEF OnePlace
<1>5. ReadySorted
  <2>1. lists["ready"] = <<MainThread>>
    BY DEF Init, ListNames
  <2>2. \A i, j \in DOMAIN lists["ready"] : ~(i < j)
    BY <2>1
  <2> QED  BY <2>2 DEF ReadySorted, Descending
<1>6. \A t \in Threads : /\ status[t] \cap Holds # {} => t \in Workers \ {ServiceThread}
                         /\ "Stopped" \notin status[t] /\ inCall[t] = "none"
  BY DEF Init, Holds, Threads
<1>7. Clean
  <2> SUFFICES ASSUME NEW t \in {MainThread} \cup ({ServiceThread} \ {None})
               PROVE  status[t] \cap Holds = {}
    BY <1>2, <1>3 DEF Clean
  <2> QED  BY <1>6 DEF Threads
<1>8. HeldListed
  BY <1>2, <1>6 DEF HeldListed, Listed, ListNames
<1>9. NoSelfInsert /\ UserStarted /\ WorkersServe /\ TodoWaits /\ ScanIdle
  BY <1>3, <1>6
  DEF NoSelfInsert, UserStarted, WorkersServe, TodoWaits, ScanIdle, Threads
<1> QED  BY <1>1, <1>4, <1>5, <1>7, <1>8, <1>9 DEF IInv, PlaceInv, RestInv

\* Every step keeps the invariant, if applications follow the contract.
LEMMA NextKeeps ==
  ASSUME CallersFollowContract  PROVE IInv /\ [Next]_vars => IInv'
<1> SUFFICES ASSUME IInv, [Next]_vars  PROVE IInv'
  OBVIOUS
<1>1. TypeOK'
  BY NextTypes DEF IInv
<1>2. CASE UNCHANGED vars
  <2>1. UNCHANGED <<lists, cur, status, instance, effectivePriority, inCall, phase, todo>>
    BY <1>2 DEF vars, attrVars, loopVars
  <2>2. PlaceInv'
    BY <2>1, StayStep
  <2>3. RestInv'
    BY <2>1
    DEF IInv, RestInv, NoSelfInsert, UserStarted, WorkersServe, TodoWaits, ScanIdle, Members
  <2> QED  BY <1>1, <2>2, <2>3 DEF IInv
<1>3. CASE Next
  <2>1. IrqWorkers \subseteq Workers
    BY ThreadsAssumption
  <2>2. CASE DispatchStep
    BY <1>1, <2>2, DispatchPlaces DEF IInv
  <2>3. CASE Deliver \/ ClockTick \/ TimerIRQ
    BY <1>1, <2>3, DeliverPlaces DEF IInv
  <2>4. ASSUME NEW t \in User, UserStep(t)  PROVE IInv'
    BY <1>1, <2>4, UserPlaces DEF IInv
  <2>5. ASSUME NEW w \in Workers, WorkerStep(w) \/ DeviceIRQ(w)  PROVE IInv'
    BY <1>1, <2>5, WorkerPlaces DEF IInv
  <2> QED  BY <1>3, <2>1, <2>2, <2>3, <2>4, <2>5 DEF Next
<1> QED  BY <1>2, <1>3

\* A thread is in one list at most, once, and in none while it runs: the walks
\* of dispatch(), signal() and the timeout service never meet a thread twice,
\* and no thread is run from two queues.
THEOREM ThreadsHaveOnePlace ==
  ASSUME CallersFollowContract  PROVE Spec => []OnePlace
<1>1. IInv => OnePlace
  BY DEF IInv, PlaceInv
<1> QED  BY <1>1, InitHolds, NextKeeps, PTL DEF Spec

\* The ready queue is always in the order of effective priorities, so that
\* getNext(), which takes the head, runs a most urgent thread.
THEOREM QueueStaysSorted ==
  ASSUME CallersFollowContract  PROVE Spec => []ReadySorted
<1>1. IInv => ReadySorted
  BY DEF IInv, PlaceInv
<1> QED  BY <1>1, InitHolds, NextKeeps, PTL DEF Spec

\* The assertion of LinkedList::insertAfter never fails: no thread is entered
\* into a queue behind itself.
THEOREM AssertionHolds ==
  ASSUME CallersFollowContract  PROVE Spec => []NoSelfInsert
<1>1. IInv => NoSelfInsert
  BY DEF IInv, RestInv
<1> QED  BY <1>1, InitHolds, NextKeeps, PTL DEF Spec
=============================================================================
