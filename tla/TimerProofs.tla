---------------------------- MODULE TimerProofs ----------------------------
(***************************************************************************)
(* The timer is programmed early enough: while a thread runs, no more      *)
(* urgent thread has a wake-up time before the next timer interrupt.       *)
(*                                                                         *)
(* getNextTimerEvent() stops its walk of the sleep list at the first       *)
(* thread that can preempt the next one.  This is the earliest one only if *)
(* the list is ordered by wake-up time.  SingleCPUDispatcher::sleep keeps  *)
(* the order, SingleCPUDispatcher::unblock of a thread with sleep time     *)
(* left appends, and so breaks it.  The theorem is about systems in which  *)
(* this does not happen: no task is stopped while it sleeps, and kernel    *)
(* workers serve interrupts or the kernel service, but no callbacks.       *)
(***************************************************************************)
EXTENDS WakeupProofs

\* Nothing is appended to the sleep list.
NoTailInserts == MayStop = {} /\ Workers \subseteq IrqWorkers \cup {ServiceThread}

\* The order that SingleCPUDispatcher::sleep keeps.
SleepOrdered == Ascending(lists["sleep"], sleepTime)

\* A thread that unblock() or signal() may wake has no sleep time left.
AwakeElsewhere ==
  \A t \in Threads :
    "Blocked" \in status[t] \/ t \in Members(lists, "wait") => sleepTime[t] = 0

\* No worker is free for a callback.
JobsFixed == \A w \in Workers : job[w] \in {"IRQ", "Periodic"}

\* The walk has passed by threads that cannot preempt the next one.
ScanPassed ==
  phase = "scan" =>
    \A i \in DOMAIN lists["sleep"] :
      i < scan => effectivePriority[lists["sleep"][i]] < NextPriority

Parts == SleepOrdered /\ AwakeElsewhere /\ ScanPassed /\ TimerCoversSleepers
TimerInv == Parts /\ JobsFixed

\* What holds before and after every step.
Base == IInv /\ KeptInv

-----------------------------------------------------------------------------
\* The types and names that the steps below need.
LEMMA BaseFacts ==
  ASSUME Base
  PROVE  /\ lists \in [ListNames -> Seq(Threads)] /\ Disjoint(lists)
         /\ lists["sleep"] \in Seq(Threads) /\ lists["ready"] \in Seq(Threads)
         /\ "ready" \in ListNames /\ "sleep" \in ListNames /\ "wait" \in ListNames
         /\ "blocked" \in ListNames
         /\ \A n \in ListNames : Members(lists, n) \subseteq Threads
         /\ status \in [Threads -> SUBSET Flags] /\ sleepTime \in [Threads -> Nat]
         /\ effectivePriority \in [Threads -> Nat] /\ timer \in Nat /\ now \in Nat
         /\ scan \in Nat \ {0} /\ job \in [Workers -> Jobs] /\ arrivalTime \in [Threads -> Nat]
         /\ Running \subseteq Threads
         /\ \A t \in Members(lists, "ready") \cup Running : sleepTime[t] = 0
         /\ \A t \in Members(lists, "sleep") : sleepTime[t] > 0
<1>1. \A n \in ListNames : Members(lists, n) \subseteq Threads
  BY InvFacts DEF Base
<1>2. Running \subseteq Threads
  BY DEF Base, IInv, TypeOK, Running
<1>3. Disjoint(lists)
  BY InvFacts DEF Base
<1>4. "ready" \in ListNames /\ "sleep" \in ListNames
  BY DEF ListNames
<1>5. /\ \A t \in Members(lists, "ready") \cup Running : sleepTime[t] = 0
      /\ \A t \in Members(lists, "sleep") : sleepTime[t] > 0
  BY <1>1, <1>2, <1>4 DEF Base, KeptInv, SleepTimes
<1> QED  BY <1>1, <1>2, <1>3, <1>5 DEF Base, IInv, TypeOK, ListNames

\* A step that only takes threads out of the sleep list, and sets the timer to
\* "at once" if at all.
LEMMA ThinStep ==
  ASSUME Base, Base', Parts,
         Thinned(lists["sleep"], lists'["sleep"]),
         \A x \in Members(lists', "sleep") : sleepTime'[x] = sleepTime[x],
         phase' = "scan" => scan' = 1,
         phase' = "run" =>
           /\ phase = "run" /\ cur' = cur /\ timer' \in {timer, 1}
           /\ \A x \in Members(lists', "sleep") \cup Running :
                effectivePriority'[x] = effectivePriority[x]
  PROVE  SleepOrdered' /\ ScanPassed' /\ TimerCoversSleepers'
<1>1. /\ lists'["sleep"] \in Seq(Threads) /\ sleepTime' \in [Threads -> Nat]
      /\ Members(lists', "sleep") \subseteq Threads
      /\ \A x \in Members(lists', "sleep") : sleepTime'[x] > 0
  <2>1. /\ lists'["sleep"] \in Seq(Threads) /\ sleepTime' \in [Threads -> Nat]
    BY DEF Base, IInv, TypeOK, ListNames
  <2>2. Members(lists', "sleep") \subseteq Threads
    BY <2>1 DEF Members, ToSet
  <2> QED  BY <2>1, <2>2 DEF Base, KeptInv, SleepTimes
<1>2. SleepOrdered'
  BY ThinnedAscending DEF Parts, SleepOrdered, Members
<1>3. ScanPassed'
  BY <1>1 DEF ScanPassed
<1>4. TimerCoversSleepers'
  <2> SUFFICES ASSUME phase' = "run", NEW x \in Members(lists', "sleep"),
                      cur' = None \/ effectivePriority'[x] > effectivePriority'[cur']
               PROVE  timer' <= sleepTime'[x]
    BY DEF TimerCoversSleepers
  <2>1. x \in Members(lists, "sleep")
    BY DEF Thinned, Members
  <2>2. cur = None \/ effectivePriority[x] > effectivePriority[cur]
    BY DEF Running
  <2>3. timer <= sleepTime[x]
    BY <2>1, <2>2 DEF Parts, TimerCoversSleepers
  <2>4. sleepTime'[x] \in Nat /\ sleepTime'[x] > 0
    BY <1>1
  <2> QED  BY <2>3, <2>4
<1> QED  BY <1>2, <1>3, <1>4

\* A step that neither sets sleep times nor flags threads as blocked, but for
\* those that are awake.
LEMMA AwakeStep ==
  ASSUME Base, AwakeElsewhere,
         \A x \in Threads :
           \/ sleepTime'[x] \in {sleepTime[x], 0}
           \/ "Blocked" \notin status'[x] /\ x \notin Members(lists', "wait"),
         \A x \in Threads :
           "Blocked" \in status'[x] \/ x \in Members(lists', "wait") =>
             \/ "Blocked" \in status[x] \/ x \in Members(lists, "wait")
             \/ x \in Members(lists, "ready") \cup Running
  PROVE  AwakeElsewhere'
<1>1. \A t \in Members(lists, "ready") \cup Running : sleepTime[t] = 0
  BY BaseFacts
<1> QED  BY <1>1 DEF AwakeElsewhere

\* A step that leaves the lists, the sleep times and the priorities alone.
LEMMA StayTimer ==
  ASSUME Base, Base', Parts, UNCHANGED <<lists, sleepTime, effectivePriority>>,
         \A x \in Threads : "Blocked" \in status'[x] => "Blocked" \in status[x] \/ x \in Running,
         phase' = "scan" => scan' = 1,
         phase' = "run" => phase = "run" /\ UNCHANGED <<cur, timer>>
  PROVE  Parts'
<1>1. AwakeElsewhere'
  BY AwakeStep DEF Parts
<1>2. Thinned(lists["sleep"], lists'["sleep"])
  BY DEF Thinned
<1>3. SleepOrdered' /\ ScanPassed' /\ TimerCoversSleepers'
  BY <1>2, ThinStep
<1> QED  BY <1>1, <1>3 DEF Parts

\* A step that moves a thread to a list other than the sleep list.
LEMMA MoveTimer ==
  ASSUME Base, Base', Parts, NEW t \in Threads, NEW n \in ListNames, n # "sleep",
         MovesTo(t, n), Thinned(lists["sleep"], lists'["sleep"]),
         n = "wait" => t \in Running,
         \A x \in Threads : x # t => sleepTime'[x] = sleepTime[x],
         sleepTime'[t] \in {sleepTime[t], 0},
         \A x \in Threads : "Blocked" \in status'[x] => "Blocked" \in status[x] \/ x \in Running,
         phase' = "run" =>
           /\ phase = "run" /\ cur' = cur /\ cur # t /\ timer' \in {timer, 1}
           /\ \A x \in Threads : x # t => effectivePriority'[x] = effectivePriority[x]
  PROVE  /\ SleepOrdered' /\ AwakeElsewhere'
         /\ (phase' = "scan" => scan' = 1) => Parts'
<1>1. /\ "sleep" \in ListNames /\ "wait" \in ListNames /\ Running \subseteq Threads
      /\ Members(lists, "sleep") \subseteq Threads
  BY BaseFacts
<1>2. /\ Members(lists', "sleep") = Members(lists, "sleep") \ {t}
      /\ Members(lists', "wait") = IF n = "wait" THEN Members(lists, "wait") \cup {t}
                                   ELSE Members(lists, "wait") \ {t}
  BY <1>1 DEF MovesTo
<1>3. \A x \in Members(lists', "sleep") : sleepTime'[x] = sleepTime[x]
  BY <1>1, <1>2
<1>4. AwakeElsewhere'
  <2>1. \A x \in Threads : sleepTime'[x] \in {sleepTime[x], 0}
    OBVIOUS
  <2>2. \A x \in Threads : "Blocked" \in status'[x] \/ x \in Members(lists', "wait") =>
          "Blocked" \in status[x] \/ x \in Members(lists, "wait") \/ x \in Running
    BY <1>2
  <2> QED  BY <2>1, <2>2, AwakeStep DEF Parts
<1>5. SleepOrdered'
  BY <1>3, ThinnedAscending DEF Parts, SleepOrdered, Members
<1>6. ASSUME phase' = "scan" => scan' = 1  PROVE Parts'
  <2>1. phase' = "run" => \A x \in Members(lists', "sleep") \cup Running :
                            effectivePriority'[x] = effectivePriority[x]
    BY <1>1, <1>2 DEF Running
  <2>2. SleepOrdered' /\ ScanPassed' /\ TimerCoversSleepers'
    BY <1>3, <1>6, <2>1, ThinStep
  <2> QED  BY <1>4, <2>2 DEF Parts
<1> QED  BY <1>4, <1>5, <1>6

\* SingleCPUDispatcher::sleep keeps the order, with the new wake-up times.
LEMMA SleepOrder ==
  ASSUME Base, SleepOrdered, NEW t \in Threads, t \notin Members(lists, "sleep"),
         NEW wake \in [Threads -> Nat], \A x \in Threads : x # t => wake[x] = sleepTime[x]
  PROVE  Ascending(EnterSleep(lists, t, wake)["sleep"], wake)
<1>1. lists \in [ListNames -> Seq(Threads)] /\ sleepTime \in [Threads -> Nat]
  BY BaseFacts
<1>2. Ascending(lists["sleep"], sleepTime)
  BY DEF SleepOrdered
<1> QED  BY <1>1, <1>2, EnterSleepAscending, ZenonT(60)

\* SingleCPUDispatcher::sleep.
LEMMA SleepTimer ==
  ASSUME Base, Base', Parts, NEW t \in Threads, t \notin Members(lists, "sleep"),
         Sleep(t, sleepTime', "dispatch"),
         \A x \in Threads : x # t => sleepTime'[x] = sleepTime[x],
         "Blocked" \notin status'[t],
         \A x \in Threads : "Blocked" \in status'[x] => "Blocked" \in status[x]
  PROVE  Parts'
<1>1. phase' = "dispatch" /\ MovesTo(t, "sleep")
  BY SleepMovesTo DEF Base
<1>2. lists' = EnterSleep(lists, t, sleepTime')
  BY <1>1 DEF Sleep
<1>3. /\ lists \in [ListNames -> Seq(Threads)] /\ "wait" \in ListNames
  BY BaseFacts
<1>4. sleepTime' \in [Threads -> Nat]
  BY DEF Base, IInv, TypeOK
<1>5. SleepOrdered'
  <2>1. \A x \in Threads : x # t => sleepTime'[x] = sleepTime[x]
    OBVIOUS
  <2>2. Ascending(EnterSleep(lists, t, sleepTime')["sleep"], sleepTime')
    BY <1>4, <2>1, SleepOrder DEF Parts
  <2> QED  BY <1>2, <2>2 DEF SleepOrdered
<1>6. Members(lists', "wait") = Members(lists, "wait") \ {t}
  BY <1>1, <1>3 DEF MovesTo
<1>7. AwakeElsewhere'
  BY <1>6, AwakeStep DEF Parts
<1> QED  BY <1>1, <1>5, <1>7 DEF Parts, ScanPassed, TimerCoversSleepers

\* RateMonotonicThreadScheduler::enter thins out the sleep list, if it is in it.
LEMMA EnterThins ==
  ASSUME Base, NEW t \in Threads, NEW e, NEW next, Enter(t, e, next)
  PROVE  Thinned(lists["sleep"], lists'["sleep"])
BY BaseFacts, SleepThinned DEF Enter

\* SingleCPUDispatcher::unblock of a thread without sleep time left.
LEMMA UnblockTimer ==
  ASSUME Base, Base', Parts, NEW t \in Threads, t # cur, sleepTime[t] = 0,
         Unblock(t, sleepTime), UNCHANGED <<cur, sleepTime>>,
         phase = "run", phase' \in {"run", "dispatch"},
         \A x \in Threads : "Blocked" \in status'[x] => "Blocked" \in status[x]
  PROVE  Parts'
<1>1. /\ lists \in [ListNames -> Seq(Threads)] /\ effectivePriority \in [Threads -> Nat]
      /\ "ready" \in ListNames
  BY BaseFacts
<1>2. /\ lists' = EnterReady(lists, t, EnterPriority(t))
      /\ effectivePriority' = EnterPriority(t) /\ timer' \in {timer, 1}
  BY DEF Unblock
<1>3. MovesTo(t, "ready")
  <2>1. MovesTo(t, IF sleepTime[t] > 0 THEN "sleep" ELSE "ready")
    BY UnblockMoves DEF Base
  <2> QED  BY <2>1
<1>4. Thinned(lists["sleep"], lists'["sleep"])
  BY <1>1, <1>2, SleepThinned
<1>5. \A x \in Threads : x # t => effectivePriority'[x] = effectivePriority[x]
  BY <1>1, <1>2 DEF EnterPriority, ComputedPriority
<1> QED  BY <1>1, <1>2, <1>3, <1>4, <1>5, MoveTimer

\* Thread::unblock of a thread that is blocked.
LEMMA ThreadUnblockTimer ==
  ASSUME Base, Base', Parts, NEW t \in Threads, t # cur, "Blocked" \in status[t],
         ThreadUnblock(t), UNCHANGED <<cur, sleepTime>>,
         phase = "run", phase' \in {"run", "dispatch"}
  PROVE  Parts'
<1>1. status \in [Threads -> SUBSET Flags] /\ sleepTime[t] = 0
  BY BaseFacts DEF Parts, AwakeElsewhere
<1>2. \A x \in Threads : "Blocked" \in status'[x] => "Blocked" \in status[x]
  BY <1>1 DEF ThreadUnblock, UnblockedStatus
<1>3. CASE "Stopped" \in status[t]
  BY <1>2, <1>3, StayTimer DEF ThreadUnblock
<1>4. CASE "Stopped" \notin status[t]
  BY <1>1, <1>2, <1>4, UnblockTimer DEF ThreadUnblock
<1> QED  BY <1>3, <1>4

-----------------------------------------------------------------------------
\* The priority of the head does not fall when the scan wakes a thread.
LEMMA HeadRises ==
  ASSUME Base, Base', NEW t \in Threads, MovesTo(t, "ready"), lists["ready"] # <<>>,
         t \notin Members(lists, "ready"),
         \A x \in Threads : x # t => effectivePriority'[x] = effectivePriority[x]
  PROVE  NextPriority' >= NextPriority
<1> DEFINE q == lists["ready"]
           r == lists'["ready"]
           h == Head(q)
<1>1. q \in Seq(Threads) /\ "ready" \in ListNames
  BY BaseFacts
<1>2. r \in Seq(Threads) /\ effectivePriority' \in [Threads -> Nat]
  BY DEF Base, IInv, TypeOK, ListNames
<1>3. h = q[1] /\ 1 \in DOMAIN q /\ h \in Threads
  BY <1>1
<1>4. h \in Members(lists, "ready")
  BY <1>3 DEF Members, ToSet
<1>5. h # t /\ h \in Members(lists', "ready")
  BY <1>1, <1>4 DEF MovesTo
<1>6. PICK i \in DOMAIN r : r[i] = h
  BY <1>5 DEF Members, ToSet
<1>7. Descending(r, effectivePriority')
  BY DEF Base, IInv, PlaceInv, ReadySorted
<1>8. NextPriority = effectivePriority[h]
  BY DEF NextPriority
<1>9. r # <<>> /\ Head(r) = r[1] /\ 1 \in DOMAIN r /\ (i = 1 \/ 1 < i)
  BY <1>2, <1>6
<1>10. NextPriority' = effectivePriority'[r[1]]
  BY <1>9 DEF NextPriority
<1> HIDE DEF q, r, h
<1>11. effectivePriority'[h] = effectivePriority[h] /\ effectivePriority'[h] \in Nat
  BY <1>2, <1>3, <1>5
<1>12. effectivePriority'[r[1]] >= effectivePriority'[h]
  <2>1. CASE i = 1
    BY <1>6, <1>11, <2>1
  <2>2. CASE 1 < i
    BY <1>6, <1>7, <1>9, <2>2 DEF Descending
  <2> QED  BY <1>9, <2>1, <2>2
<1> QED  BY <1>8, <1>10, <1>11, <1>12

\* getNextTimerEvent wakes the thread at hand; the ones in front of it keep
\* their positions.
LEMMA ScanWakeTimer ==
  ASSUME Base, Base', Parts, ScanWake  PROVE Parts'
<1> DEFINE t == Sleeper
           q == lists["sleep"]
<1>1. /\ phase = "scan" /\ scan \in 1..Len(q)
      /\ status' = [status EXCEPT ![t] = @ \cup {"Ready"}]
      /\ sleepTime' = [sleepTime EXCEPT ![t] = 0]
      /\ Enter(t, EnterPriority(t), "scan") /\ scan' = scan /\ cur' = cur
  BY BaseFacts DEF ScanWake, loopVars
<1>2. /\ q \in Seq(Threads) /\ Disjoint(lists) /\ lists \in [ListNames -> Seq(Threads)]
      /\ "ready" \in ListNames /\ "sleep" \in ListNames
      /\ status \in [Threads -> SUBSET Flags] /\ sleepTime \in [Threads -> Nat]
      /\ effectivePriority \in [Threads -> Nat]
  BY BaseFacts
<1>3. t = q[scan] /\ t \in Threads /\ t \in Members(lists, "sleep")
  <2>1. t = q[scan]
    BY DEF Sleeper
  <2>2. scan \in DOMAIN q
    BY <1>1, <1>2
  <2> QED  BY <1>2, <2>1, <2>2 DEF Members, ToSet
<1>4. t \notin Members(lists, "ready")
  BY <1>2, <1>3 DEF Disjoint
<1> HIDE DEF t
<1>5. phase' = "scan" /\ MovesTo(t, "ready")
  BY <1>1, <1>3, <1>4, EnterMovesTo DEF Base
<1>6. /\ lists' = EnterReady(lists, t, EnterPriority(t))
      /\ effectivePriority' = EnterPriority(t)
  BY <1>1, <1>5 DEF Enter
<1>7. \A x \in Threads : x # t => effectivePriority'[x] = effectivePriority[x]
  BY <1>2, <1>6 DEF EnterPriority, ComputedPriority
<1>8. Thinned(q, lists'["sleep"])
  BY <1>1, <1>3, EnterThins
<1>9. SleepOrdered' /\ AwakeElsewhere'
  <2>1. /\ \A x \in Threads : x # t => sleepTime'[x] = sleepTime[x]
        /\ sleepTime'[t] \in {sleepTime[t], 0}
        /\ \A x \in Threads : "Blocked" \in status'[x] => "Blocked" \in status[x]
    BY <1>1, <1>2, <1>3
  <2> QED  BY <1>2, <1>3, <1>5, <1>8, <2>1, MoveTimer
<1>10. ScanPassed'
  <2> DEFINE r == lists'["sleep"]
  <2>1. r = RemoveFirst(q, q[scan])
    <3>1. EnterReady(lists, t, EnterPriority(t))["sleep"] = Detach(lists, t)["sleep"]
      <4>1. Detach(lists, t) \in [ListNames -> Seq(Threads)]
        BY <1>2, DetachLists
      <4> QED  BY <1>2, <4>1 DEF EnterReady
    <3> QED  BY <1>2, <1>3, <1>6, <3>1 DEF Detach
  <2>2. NoDup(q)
    BY <1>2 DEF Disjoint
  <2>3. \A i \in DOMAIN r : i < scan => i \in DOMAIN q /\ r[i] = q[i]
    BY <1>1, <1>2, <2>1, <2>2, RemoveFirstPrefix
  <2>4. ASSUME NEW i \in DOMAIN r, i < scan
        PROVE  effectivePriority'[r[i]] < NextPriority'
    <3>1. i \in DOMAIN q /\ r[i] = q[i] /\ scan \in DOMAIN q
      BY <1>1, <1>2, <2>3, <2>4
    <3>2. q[i] # t /\ q[i] \in Threads
      <4>1. i # scan
        BY <1>1, <1>2, <2>4, <3>1
      <4> QED  BY <1>2, <1>3, <2>2, <3>1, <4>1 DEF NoDup
    <3>3. effectivePriority[q[i]] < NextPriority /\ effectivePriority[q[i]] \in Nat
      BY <1>1, <1>2, <2>4, <3>1, <3>2 DEF Parts, ScanPassed
    <3>4. lists["ready"] # <<>> /\ NextPriority \in Nat
      <4>1. NextPriority \in Nat
        BY <1>2, BaseFacts DEF NextPriority
      <4>2. NextPriority # 0
        BY <3>3, <4>1
      <4> QED  BY <4>1, <4>2 DEF NextPriority
    <3>5. NextPriority' >= NextPriority
      BY <1>3, <1>4, <1>5, <1>7, <3>4, HeadRises
    <3>6. NextPriority' \in Nat
      <4>1. lists'["ready"] \in Seq(Threads) /\ effectivePriority' \in [Threads -> Nat]
        BY DEF Base, IInv, TypeOK, ListNames
      <4> QED  BY <4>1 DEF NextPriority
    <3>7. effectivePriority'[r[i]] = effectivePriority[q[i]]
      BY <1>7, <3>1, <3>2
    <3> QED  BY <3>3, <3>4, <3>5, <3>6, <3>7
  <2> HIDE DEF r
  <2>5. \A i \in DOMAIN r : i < scan => effectivePriority'[r[i]] < NextPriority'
    BY <2>4
  <2> QED  BY <1>1, <2>5 DEF ScanPassed, r
<1>11. TimerCoversSleepers'
  BY <1>5 DEF TimerCoversSleepers
<1> QED  BY <1>9, <1>10, <1>11 DEF Parts

\* At the end of the scan the timer covers all sleepers: those in front cannot
\* preempt the thread that runs next, those behind wake up no earlier.
LEMMA ScanEndsTimer ==
  ASSUME Base, Parts, ScanEnds,
         NEW x \in Members(lists, "sleep"), effectivePriority[x] >= NextPriority
  PROVE  NextTimerEvent <= sleepTime[x]
<1> DEFINE q == lists["sleep"]
<1>1. /\ q \in Seq(Threads) /\ effectivePriority \in [Threads -> Nat]
      /\ lists["ready"] \in Seq(Threads) /\ scan \in Nat \ {0}
      /\ sleepTime \in [Threads -> Nat]
  BY BaseFacts
<1>2. PICK i \in DOMAIN q : q[i] = x
  BY DEF Members, ToSet
<1>3. NextPriority \in Nat /\ x \in Threads /\ i \in 1..Len(q)
  <2>1. NextPriority \in Nat
    BY <1>1 DEF NextPriority
  <2>2. i \in 1..Len(q)
    BY <1>1, <1>2
  <2>3. x \in Threads
    BY <1>1, <1>2
  <2> QED  BY <2>1, <2>2, <2>3
<1>4. ~(i < scan)
  BY <1>1, <1>2, <1>3 DEF ScanEnds, Parts, ScanPassed
<1>5. scan \in DOMAIN q /\ NextTimerEvent = sleepTime[q[scan]]
  <2>1. scan <= Len(q)
    BY <1>1, <1>3, <1>4
  <2>2. scan \in DOMAIN q
    BY <1>1, <2>1
  <2> QED  BY <2>1, <2>2 DEF NextTimerEvent, Sleeper
<1>6. Ascending(q, sleepTime)
  BY DEF Parts, SleepOrdered
<1> HIDE DEF q
<1>7. CASE i = scan
  BY <1>1, <1>2, <1>3, <1>5, <1>7
<1>8. CASE scan < i
  BY <1>2, <1>5, <1>6, <1>8 DEF Ascending
<1> QED  BY <1>1, <1>3, <1>4, <1>7, <1>8

\* dispatch().
LEMMA DispatchTimer ==
  ASSUME Base, Base', Parts, DispatchStep  PROVE Parts'
<1>1. /\ lists \in [ListNames -> Seq(Threads)] /\ effectivePriority \in [Threads -> Nat]
      /\ lists["sleep"] \in Seq(Threads) /\ lists["ready"] \in Seq(Threads)
      /\ "ready" \in ListNames /\ "sleep" \in ListNames /\ "wait" \in ListNames
      /\ scan \in Nat \ {0} /\ Running \subseteq Threads /\ Disjoint(lists)
      /\ Members(lists, "sleep") \subseteq Threads
  BY BaseFacts
<1>2. CASE DispatchBegin
  <2>1. scan' = 1 /\ UNCHANGED <<status, sleepTime>>
    BY <1>2 DEF DispatchBegin
  <2>2. CASE cur = None
    BY <1>2, <2>1, <2>2, StayTimer DEF DispatchBegin
  <2>3. CASE cur # None
    <3>1. Enter(cur, EnterPriority(cur), "scan") /\ cur \in Threads
          /\ cur \notin Members(lists, "ready")
      BY <1>1, <1>2, <2>3, InvFacts DEF DispatchBegin, Base
    <3>2. phase' = "scan" /\ MovesTo(cur, "ready")
      BY <3>1, EnterMovesTo DEF Base
    <3>3. Thinned(lists["sleep"], lists'["sleep"])
      BY <3>1, EnterThins
    <3> QED  BY <1>1, <2>1, <3>1, <3>2, <3>3, MoveTimer
  <2> QED  BY <2>2, <2>3
<1>3. CASE ScanWake
  BY <1>3, ScanWakeTimer
<1>4. CASE ScanSkip
  <2>1. /\ phase = "scan" /\ phase' = "scan" /\ scan' = scan + 1
        /\ effectivePriority[Sleeper] < NextPriority
        /\ UNCHANGED <<lists, status, sleepTime, effectivePriority>>
    BY <1>4 DEF ScanSkip, attrVars
  <2>2. NextPriority' = NextPriority
    BY <2>1 DEF NextPriority
  <2>3. ScanPassed'
    <3> SUFFICES ASSUME NEW i \in DOMAIN lists["sleep"], i < scan + 1
                 PROVE  effectivePriority[lists["sleep"][i]] < NextPriority
      BY <2>1, <2>2 DEF ScanPassed
    <3>1. i = scan \/ i < scan
      BY <1>1
    <3> QED  BY <2>1, <3>1 DEF Parts, ScanPassed, Sleeper
  <2> QED  BY <2>1, <2>3 DEF Parts, SleepOrdered, AwakeElsewhere, TimerCoversSleepers
<1>5. CASE RunNext
  <2> DEFINE h == Head(lists["ready"])
  <2>1. /\ ScanEnds /\ lists["ready"] # <<>> /\ cur' = h /\ lists' = TakeHead(lists)
        /\ timer' = NextTimerEvent /\ phase' = "run"
        /\ status' = [status EXCEPT ![h] = @ \ {"New"}]
        /\ UNCHANGED <<sleepTime, effectivePriority>>
    BY <1>5 DEF RunNext
  <2>2. lists'["sleep"] = lists["sleep"] /\ lists'["wait"] = lists["wait"]
    BY <1>1, <2>1 DEF TakeHead
  <2>3. h \in Threads /\ h # None /\ NextPriority = effectivePriority[h]
    BY <1>1, <2>1, ThreadsAssumption DEF NextPriority
  <2> HIDE DEF h
  <2>4. TimerCoversSleepers'
    <3> SUFFICES ASSUME NEW x \in Members(lists, "sleep"),
                        effectivePriority[x] > effectivePriority[h]
                 PROVE  NextTimerEvent <= sleepTime[x]
      BY <2>1, <2>2, <2>3 DEF TimerCoversSleepers, Members
    <3>1. effectivePriority[x] >= NextPriority
      BY <1>1, <2>3
    <3> QED  BY <2>1, <3>1, ScanEndsTimer
  <2>5. status \in [Threads -> SUBSET Flags]
    BY BaseFacts
  <2>6. AwakeElsewhere'
    BY <2>1, <2>2, <2>3, <2>5 DEF Parts, AwakeElsewhere, Members
  <2> QED  BY <2>1, <2>2, <2>4, <2>6 DEF Parts, SleepOrdered, ScanPassed
<1>6. CASE RunIdle
  <2>1. /\ ScanEnds /\ lists["ready"] = <<>> /\ cur' = None
        /\ timer' = NextTimerEvent /\ phase' = "run"
        /\ UNCHANGED <<lists, status, sleepTime, effectivePriority>>
    BY <1>6 DEF RunIdle, attrVars
  <2>2. TimerCoversSleepers'
    <3> SUFFICES ASSUME NEW x \in Members(lists, "sleep")
                 PROVE  NextTimerEvent <= sleepTime[x]
      BY <2>1 DEF TimerCoversSleepers
    <3>1. effectivePriority[x] >= NextPriority
      BY <1>1, <2>1 DEF NextPriority
    <3> QED  BY <2>1, <3>1, ScanEndsTimer
  <2> QED  BY <2>1, <2>2 DEF Parts, SleepOrdered, ScanPassed, AwakeElsewhere
<1> QED  BY <1>2, <1>3, <1>4, <1>5, <1>6 DEF DispatchStep

\* signal() and the clock.  A thread in the wait list has no sleep time, so
\* signal() does not append it to the sleep list.
LEMMA DeliverTimer ==
  ASSUME Base, Base', Parts, Deliver \/ ClockTick \/ TimerIRQ  PROVE Parts'
<1>1. CASE SignalEnd \/ ClockTick \/ TimerIRQ
  BY <1>1, StayTimer DEF SignalEnd, ClockTick, TimerIRQ, attrVars, clockVars
<1>2. CASE SignalVisit
  <2> DEFINE t == Head(todo)
  <2>1. phase = "signal" /\ todo # <<>> /\ todo \in Seq(Threads) /\ UNCHANGED <<cur, sleepTime>>
    BY <1>2 DEF SignalVisit, Base, IInv, TypeOK
  <2>2. t \in Threads /\ t \in Members(lists, "wait")
    <3>1. t \in Threads /\ t \in ToSet(todo)
      BY <2>1 DEF ToSet
    <3> QED  BY <2>1, <3>1 DEF Base, IInv, RestInv, TodoWaits
  <2>3. /\ lists \in [ListNames -> Seq(Threads)] /\ Disjoint(lists)
        /\ status \in [Threads -> SUBSET Flags]
        /\ "ready" \in ListNames /\ "blocked" \in ListNames /\ "wait" \in ListNames
    BY BaseFacts
  <2>4. sleepTime[t] = 0 /\ t \notin Members(lists, "ready")
    BY <2>2, <2>3 DEF Parts, AwakeElsewhere, Disjoint
  <2>5. CASE signal[t] # raised
    BY <1>2, <2>1, <2>5, StayTimer DEF SignalVisit
  <2>6. CASE signal[t] = raised
    <3>1. /\ status' = [status EXCEPT ![t] = @ \ {"Signal"}]
          /\ IF "Stopped" \in status[t] THEN UNCHANGED <<lists, effectivePriority, phase>>
             ELSE IF "Blocked" \in status[t]
             THEN lists' = AddTail(lists, "blocked", t) /\ UNCHANGED phase
             ELSE Enter(t, EnterPriority(t), phase)
      BY <1>2, <2>4, <2>6 DEF SignalVisit
    <3> HIDE DEF t
    <3>2. \A x \in Threads : "Blocked" \in status'[x] => "Blocked" \in status[x]
      BY <2>2, <2>3, <3>1
    <3>3. CASE "Stopped" \in status[t]
      BY <2>1, <3>1, <3>2, <3>3, StayTimer
    <3>4. CASE "Stopped" \notin status[t] /\ "Blocked" \in status[t]
      <4>1. lists' = AddTail(lists, "blocked", t) /\ phase' = "signal"
        BY <2>1, <3>1, <3>4
      <4>2. MovesTo(t, "blocked") /\ Thinned(lists["sleep"], lists'["sleep"])
        BY <2>2, <2>3, <4>1, AddTailMovesTo, SleepThinned DEF Base
      <4> QED  BY <2>1, <2>2, <2>3, <3>2, <4>1, <4>2, MoveTimer
    <3>5. CASE "Stopped" \notin status[t] /\ "Blocked" \notin status[t]
      <4>1. Enter(t, EnterPriority(t), phase)
        BY <3>1, <3>5
      <4>2. phase' = "signal" /\ MovesTo(t, "ready")
        BY <2>1, <2>2, <2>4, <4>1, EnterMovesTo DEF Base
      <4>3. Thinned(lists["sleep"], lists'["sleep"])
        BY <2>2, <4>1, EnterThins
      <4> QED  BY <2>1, <2>2, <2>3, <3>2, <4>2, <4>3, MoveTimer
    <3> QED  BY <3>3, <3>4, <3>5
  <2> QED  BY <2>5, <2>6
<1> QED  BY <1>1, <1>2 DEF Deliver

\* The running thread goes to sleep, blocks or waits for a signal.
LEMMA LeaveTimer ==
  ASSUME Base, Base', Parts, NEW t \in Threads, cur = t,
         \/ \E d \in Delays : ThreadSleep(t, d)
         \/ t \in User /\ InstanceEnds(t)
         \/ BlockEnd(t) \/ SigwaitEnd(t)
         \/ t \in Workers /\ WorkDone(t)
  PROVE  Parts'
<1>1. /\ status \in [Threads -> SUBSET Flags] /\ sleepTime \in [Threads -> Nat]
      /\ "wait" \in ListNames /\ "blocked" \in ListNames /\ "sleep" \in ListNames
      /\ \A n \in ListNames : t \notin Members(lists, n)
      /\ inCall[t] # "block" => status[t] \cap Holds = {}
      /\ t # None /\ t \in Running
  BY CallerFacts DEF Base, Running
<1>2. lists \in [ListNames -> Seq(Threads)]
  BY BaseFacts
<1>3. ASSUME NEW n \in {"wait", "blocked"}, lists' = AddTail(lists, n, t), sleepTime' = sleepTime,
             \A x \in Threads : "Blocked" \in status'[x] => "Blocked" \in status[x] \/ x \in Running,
             phase' = "dispatch"
      PROVE  Parts'
  <2>1. n \in ListNames /\ n # "sleep"
    BY <1>1, <1>3
  <2>2. MovesTo(t, n) /\ Thinned(lists["sleep"], lists'["sleep"])
    BY <1>2, <1>3, <2>1, AddTailMovesTo, SleepThinned DEF Base
  <2> QED  BY <1>1, <1>3, <2>1, <2>2, MoveTimer
<1>4. ASSUME Sleep(t, sleepTime', "dispatch"), \A x \in Threads : x # t => sleepTime'[x] = sleepTime[x],
             inCall[t] # "block",
             \A x \in Threads : "Blocked" \in status'[x] => "Blocked" \in status[x]
      PROVE  Parts'
  <2>1. "Blocked" \notin status'[t]
    BY <1>1, <1>4 DEF Holds
  <2> QED  BY <1>1, <1>4, <2>1, SleepTimer
<1>5. CASE \E d \in Delays : ThreadSleep(t, d)
  BY <1>1, <1>4, <1>5 DEF ThreadSleep, Runs
<1>6. CASE t \in User /\ InstanceEnds(t)
  BY <1>1, <1>4, <1>6 DEF InstanceEnds, Runs
<1>7. CASE BlockEnd(t)
  BY <1>3, <1>7 DEF BlockEnd
<1>8. CASE SigwaitEnd(t)
  BY <1>3, <1>8 DEF SigwaitEnd
<1>9. CASE t \in Workers /\ WorkDone(t)
  <2>1. inCall[t] # "block"
    BY <1>9 DEF WorkDone
  <2>2. CASE job[t] = "Periodic"
    <3>1. /\ sleepTime' = [sleepTime EXCEPT ![t] = arrivalTime'[t]]
          /\ status' = [status EXCEPT ![t] = (@ \ {"Ready"}) \cup {"New"}]
          /\ Sleep(t, sleepTime', "dispatch")
      BY <1>9, <2>2 DEF WorkDone
    <3> QED  BY <1>1, <1>4, <2>1, <3>1
  <2>3. CASE job[t] # "Periodic"
    <3>1. /\ status' = [status EXCEPT ![t] = (@ \ {"Ready"}) \cup {"New", "Blocked"}]
          /\ lists' = AddTail(lists, "blocked", t) /\ phase' = "dispatch"
          /\ sleepTime' = sleepTime
      BY <1>9, <2>3 DEF WorkDone
    <3> QED  BY <1>1, <1>3, <3>1
  <2> QED  BY <2>2, <2>3
<1> QED  BY <1>5, <1>6, <1>7, <1>8, <1>9

\* sc_thread_run of a thread that is in no list.
LEMMA ThreadRunTimer ==
  ASSUME CallersFollowContract, Base, Base', Parts,
         NEW t \in Threads, NEW u \in Threads, ThreadRun(t, u)
  PROVE  Parts'
<1>1. /\ status \in [Threads -> SUBSET Flags] /\ sleepTime \in [Threads -> Nat]
      /\ lists \in [ListNames -> Seq(Threads)]
      /\ "ready" \in ListNames /\ "sleep" \in ListNames
  BY BaseFacts
<1>2. \A n \in ListNames : u \notin Members(lists, n)
  BY DEF ThreadRun, NeverStarted, Listed
<1>3. UNCHANGED <<cur, sleepTime>>
  BY DEF ThreadRun
<1>4. CASE instance[u] = 1 /\ sleepTime[u] > 0
  <2>1. Sleep(u, sleepTime', "dispatch") /\ UNCHANGED status
    BY <1>3, <1>4 DEF ThreadRun
  <2>2. "Blocked" \notin status[u]
    BY <1>1, <1>4 DEF Parts, AwakeElsewhere
  <2> QED  BY <1>1, <1>2, <1>3, <2>1, <2>2, SleepTimer
<1>5. CASE ~(instance[u] = 1 /\ sleepTime[u] > 0)
  <2>1. /\ status' = [status EXCEPT ![u] = @ \cup {"Ready"}]
        /\ Enter(u, ComputedPriority(u), "dispatch")
    BY <1>5 DEF ThreadRun
  <2>2. phase' = "dispatch" /\ MovesTo(u, "ready")
    BY <1>1, <1>2, <2>1, EnterMovesTo DEF Base
  <2>3. Thinned(lists["sleep"], lists'["sleep"])
    BY <2>1, EnterThins
  <2>4. \A x \in Threads : "Blocked" \in status'[x] => "Blocked" \in status[x]
    BY <1>1, <2>1
  <2> QED  BY <1>1, <1>3, <2>2, <2>3, <2>4, MoveTimer
<1> QED  BY <1>4, <1>5

\* A thread ends.
LEMMA ThreadExitTimer ==
  ASSUME Base, Base', Parts, NEW t \in User, ThreadExit(t)  PROVE Parts'
<1>1. /\ cur = t /\ t \in Threads /\ lists' = Detach(lists, t) /\ phase' = "signal"
      /\ status' = [status EXCEPT ![t] = {"Term"}] /\ UNCHANGED sleepTime
  BY DEF ThreadExit, Runs, Threads
<1>2. /\ status \in [Threads -> SUBSET Flags] /\ lists \in [ListNames -> Seq(Threads)]
      /\ Disjoint(lists) /\ "wait" \in ListNames
  BY BaseFacts
<1>3. Thinned(lists["sleep"], lists'["sleep"])
  BY <1>1, <1>2, SleepThinned
<1>4. Members(lists', "wait") = Members(lists, "wait") \ {t}
  BY <1>1, <1>2, DetachLists
<1>5. AwakeElsewhere'
  BY <1>1, <1>2, <1>4, AwakeStep DEF Parts
<1>6. SleepOrdered' /\ ScanPassed' /\ TimerCoversSleepers'
  BY <1>1, <1>3, ThinStep
<1> QED  BY <1>5, <1>6 DEF Parts

\* Thread::unblock for another thread, from kernel code or an interrupt.
LEMMA WakesTimer ==
  ASSUME Base, Base', Parts, NEW u \in Threads,
         \/ \E t \in Threads : UnblockOther(t, u)
         \/ u \in Workers /\ DeviceIRQ(u)
  PROVE  Parts'
<1>1. cur # None => cur \in Threads /\ (inCall[cur] # "block" => status[cur] \cap Holds = {})
  BY InvFacts DEF Base
<1>2. CASE \E t \in Threads : UnblockOther(t, u)
  <2>1. /\ cur # None /\ inCall[cur] = "none" /\ "Blocked" \in status[u] /\ ThreadUnblock(u)
        /\ UNCHANGED <<cur, sleepTime, phase>> /\ phase = "run"
    BY <1>2, ThreadsAssumption DEF UnblockOther, Runs
  <2>2. u # cur
    BY <1>1, <2>1 DEF Holds
  <2> QED  BY <2>1, <2>2, ThreadUnblockTimer
<1>3. CASE u \in Workers /\ DeviceIRQ(u)
  <2>1. /\ "Blocked" \in status[u] /\ ThreadUnblock(u) /\ UNCHANGED <<cur, sleepTime>>
        /\ phase = "run" /\ phase' \in {"run", "dispatch"} /\ inCall[u] # "block"
    BY <1>3 DEF DeviceIRQ, InterruptsEnabled, Base, IInv, RestInv, WorkersServe
  <2>2. u # cur
    BY <1>1, <2>1, ThreadsAssumption DEF Holds
  <2> QED  BY <2>1, <2>2, ThreadUnblockTimer
<1> QED  BY <1>2, <1>3

\* KernelServiceThread::callbackFunc unblocks a thread that is blocked, and so
\* has no sleep time left.
LEMMA ServiceTimer ==
  ASSUME Base, Base', Parts, NEW w \in Workers, ServiceTimeouts(w)  PROVE Parts'
<1> DEFINE B == lists["blocked"]
           k == SelectInSeq(B, LAMBDA t : TimedOut(t) /\ "Stopped" \notin status[t])
<1>1. /\ B \in Seq(Threads) /\ status \in [Threads -> SUBSET Flags] /\ "blocked" \in ListNames
      /\ \A n \in ListNames : Members(lists, n) \subseteq Threads
  <2>1. B \in Seq(Threads)
    BY DEF Base, IInv, TypeOK, ListNames
  <2> QED  BY <2>1, BaseFacts
<1>2. k = SelectInSeq(B, LAMBDA t : TimedOut(t) /\ "Stopped" \notin status[t])
  BY Zenon
<1>3. /\ IF k # 0 THEN Unblock(B[k], sleepTime)
         ELSE UNCHANGED <<lists, effectivePriority, timer>>
      /\ UNCHANGED <<cur, sleepTime, phase>> /\ phase = "run"
      /\ \A x \in Threads : status'[x] \in {status[x], UnblockedStatus(x)}
  BY DEF ServiceTimeouts, Runs
<1>4. \A i \in DOMAIN B : B[i] \in Members(lists, "blocked")
  BY DEF Members, ToSet
<1> HIDE DEF B, k
<1>5. \A x \in Threads : "Blocked" \in status'[x] => "Blocked" \in status[x]
  BY <1>1, <1>3 DEF UnblockedStatus
<1>6. k \in 0..Len(B) /\ (k # 0 => TimedOut(B[k]))
  BY <1>1, <1>2, FirstTimedOut
<1>7. CASE k = 0
  BY <1>3, <1>5, <1>7, StayTimer
<1>8. CASE k # 0
  <2>1. k \in DOMAIN B
    BY <1>1, <1>6, <1>8
  <2>2. B[k] \in Members(lists, "blocked") /\ B[k] \in Threads
    BY <1>1, <1>4, <2>1
  <2>3. B[k] # cur
    <3>1. cur # None => cur \notin Members(lists, "blocked")
      BY <1>1, InvFacts DEF Base
    <3> QED  BY <2>2, <3>1, ThreadsAssumption
  <2>4. sleepTime[B[k]] = 0
    BY <1>6, <1>8, <2>2 DEF TimedOut, Parts, AwakeElsewhere
  <2> QED  BY <1>3, <1>5, <1>8, <2>2, <2>3, <2>4, UnblockTimer
<1> QED  BY <1>7, <1>8

\* A worker that serves an interrupt or the kernel service keeps its job.
LEMMA NextJobs ==
  ASSUME Base, JobsFixed, [Next]_vars  PROVE JobsFixed'
<1>1. job \in [Workers -> Jobs]
  BY BaseFacts
<1>2. ASSUME NEW w \in Workers, WorkDone(w)  PROVE JobsFixed'
  <2>1. job' = job \/ job' = [job EXCEPT ![w] = IF @ = "IRQ" THEN "IRQ" ELSE "None"]
    BY <1>2 DEF WorkDone
  <2>2. job[w] # "Periodic" => job[w] = "IRQ"
    BY DEF JobsFixed
  <2>3. job' = job
    <3>1. CASE job[w] = "Periodic"
      BY <1>2, <3>1 DEF WorkDone
    <3>2. CASE job[w] = "IRQ"
      BY <1>1, <2>1, <3>2
    <3> QED  BY <2>2, <3>1, <3>2
  <2> QED  BY <2>3 DEF JobsFixed
<1>3. ASSUME NEW t, NEW w \in Workers, NEW kind, NEW d, AssignJob(t, w, kind, d)  PROVE JobsFixed'
  BY <1>3 DEF AssignJob, JobsFixed
<1>4. ASSUME job' = job  PROVE JobsFixed'
  BY <1>4 DEF JobsFixed
<1>5. CASE DispatchStep
  BY <1>4, <1>5 DEF DispatchStep, DispatchBegin, ScanWake, ScanSkip, RunNext, RunIdle
<1>6. CASE Deliver \/ ClockTick \/ TimerIRQ \/ \E w \in IrqWorkers : DeviceIRQ(w)
  BY <1>4, <1>6 DEF Deliver, SignalVisit, SignalEnd, ClockTick, TimerIRQ, DeviceIRQ
<1>7. ASSUME NEW t \in User, UserStep(t)  PROVE JobsFixed'
  <2>1. CASE \E w \in Workers, d \in Delays, kind \in {"Timed", "Periodic"} : AssignJob(t, w, kind, d)
    BY <1>3, <2>1
  <2>2. CASE ~\E w \in Workers, d \in Delays, kind \in {"Timed", "Periodic"} : AssignJob(t, w, kind, d)
    <3>1. job' = job
      BY <1>7, <2>2 DEF UserStep, ThreadSleep, BlockBegin, BlockEnd, SigwaitBegin, SigwaitEnd,
                        SignalBegin, UnblockOther, ThreadRun, ThreadStop, ThreadResume,
                        InstanceEnds, ThreadExit
    <3> QED  BY <1>4, <3>1
  <2> QED  BY <2>1, <2>2
<1>8. ASSUME NEW w \in Workers, WorkerStep(w)  PROVE JobsFixed'
  <2>1. CASE WorkDone(w)
    BY <1>2, <2>1
  <2>2. CASE (\E u \in User : UnblockOther(w, u)) \/ ServiceTimeouts(w)
    BY <1>4, <2>2 DEF UnblockOther, ServiceTimeouts
  <2> QED  BY <1>8, <2>1, <2>2 DEF WorkerStep
<1>9. CASE UNCHANGED vars
  BY <1>4, <1>9 DEF vars
<1> QED  BY <1>5, <1>6, <1>7, <1>8, <1>9 DEF Next

\* Every step keeps the invariant.
LEMMA NextTimer ==
  ASSUME CallersFollowContract, NoTailInserts  PROVE Base /\ Base' /\ TimerInv /\ [Next]_vars => TimerInv'
<1> SUFFICES ASSUME Base, Base', TimerInv, [Next]_vars  PROVE Parts'
  BY NextJobs DEF TimerInv
<1>1. Parts /\ JobsFixed
  BY DEF TimerInv
<1>2. User \subseteq Threads /\ Workers \subseteq Threads /\ IrqWorkers \subseteq Workers
  BY ThreadsAssumption DEF Threads
<1>3. CASE DispatchStep
  BY <1>1, <1>3, DispatchTimer
<1>4. CASE Deliver \/ ClockTick \/ TimerIRQ
  BY <1>1, <1>4, DeliverTimer
<1>5. CASE \E w \in IrqWorkers : DeviceIRQ(w)
  BY <1>1, <1>2, <1>5, WakesTimer
<1>6. ASSUME NEW t \in User, UserStep(t)  PROVE Parts'
  <2>1. cur = t /\ t \in Threads /\ t # None /\ status \in [Threads -> SUBSET Flags] /\ Running = {t}
    <3>1. cur = t
      BY <1>6 DEF UserStep, Runs, ThreadSleep, BlockBegin, BlockEnd, SigwaitBegin,
                  SigwaitEnd, SignalBegin, UnblockOther, ThreadRun, ThreadStop,
                  ThreadResume, InstanceEnds, ThreadExit, AssignJob
    <3> QED  BY <1>2, <3>1, BaseFacts, ThreadsAssumption DEF Running
  <2>2. CASE (\E d \in Delays : ThreadSleep(t, d)) \/ InstanceEnds(t) \/ BlockEnd(t) \/ SigwaitEnd(t)
    BY <1>1, <2>1, <2>2, LeaveTimer
  <2>3. CASE \E d \in Timeouts : BlockBegin(t, d)
    <3>1. /\ status' = [status EXCEPT ![t] = (@ \ {"Ready"}) \cup {"Blocked"}] /\ phase = "run"
          /\ UNCHANGED <<lists, sleepTime, effectivePriority, phase, cur, timer>>
      BY <2>3 DEF BlockBegin, Runs, attrVars, clockVars
    <3> QED  BY <1>1, <2>1, <3>1, StayTimer
  <2>4. CASE \E sig \in Signals : SigwaitBegin(t, sig)
    <3>1. /\ status' = [status EXCEPT ![t] = (@ \ {"Ready"}) \cup {"Signal"}] /\ phase = "run"
          /\ UNCHANGED <<lists, sleepTime, effectivePriority, phase, cur, timer>>
      BY <2>4 DEF SigwaitBegin, Runs, attrVars, clockVars
    <3> QED  BY <1>1, <2>1, <3>1, StayTimer
  <2>5. CASE \E sig \in Signals : SignalBegin(t, sig)
    BY <1>1, <2>5, StayTimer DEF SignalBegin, attrVars
  <2>6. CASE \E u \in User : UnblockOther(t, u)
    BY <1>1, <1>2, <2>1, <2>6, WakesTimer
  <2>7. CASE \E u \in User : ThreadRun(t, u)
    BY <1>1, <1>2, <2>1, <2>7, ThreadRunTimer
  <2>8. CASE ThreadExit(t)
    BY <1>1, <2>8, ThreadExitTimer
  <2>9. MayStop = {}
    BY DEF NoTailInserts
  <2>10. ~\E w \in Workers, d \in Delays, kind \in {"Timed", "Periodic"} : AssignJob(t, w, kind, d)
    BY <1>1 DEF AssignJob, JobsFixed
  <2> QED  BY <1>6, <2>2, <2>3, <2>4, <2>5, <2>6, <2>7, <2>8, <2>9, <2>10 DEF UserStep
<1>7. ASSUME NEW w \in Workers, WorkerStep(w)  PROVE Parts'
  <2>1. CASE \E u \in User : UnblockOther(w, u)
    BY <1>1, <1>2, <2>1, WakesTimer
  <2>2. CASE ServiceTimeouts(w)
    BY <1>1, <2>2, ServiceTimer
  <2>3. CASE WorkDone(w)
    BY <1>1, <1>2, <2>3, LeaveTimer DEF WorkDone
  <2> QED  BY <1>7, <2>1, <2>2, <2>3 DEF WorkerStep
<1>8. CASE UNCHANGED vars
  <2>1. UNCHANGED <<lists, cur, status, sleepTime, effectivePriority, timer, phase, scan>>
    BY <1>8 DEF vars, attrVars, clockVars, loopVars
  <2> QED  BY <1>1, <2>1 DEF Parts, SleepOrdered, AwakeElsewhere, ScanPassed, NextPriority,
                             TimerCoversSleepers
<1> QED  BY <1>3, <1>4, <1>5, <1>6, <1>7, <1>8 DEF Next

\* Boot leaves at most the service thread in the sleep list.
LEMMA InitTimer ==
  ASSUME NoTailInserts  PROVE Init => TimerInv
<1> SUFFICES ASSUME Init  PROVE TimerInv
  OBVIOUS
<1>1. /\ phase = "dispatch" /\ lists["sleep"] \in {<<>>, <<ServiceThread>>}
      /\ Members(lists, "wait") = {}
  BY InitLists DEF Init, ListNames
<1>2. SleepOrdered
  BY <1>1 DEF SleepOrdered, Ascending
<1>3. AwakeElsewhere
  BY <1>1, ThreadsAssumption DEF Init, AwakeElsewhere, Threads
<1>4. JobsFixed
  BY DEF Init, JobsFixed, NoTailInserts
<1> QED  BY <1>1, <1>2, <1>3, <1>4 DEF TimerInv, Parts, ScanPassed, TimerCoversSleepers

\* The timer is never programmed later than the wake-up of a thread that would
\* preempt the running one, from the end of dispatch() through every call and
\* interrupt until the next dispatch: the walk of getNextTimerEvent may stop
\* where it does, as long as unblock() and signal() append nothing to the
\* sleep list.
THEOREM TimerIsEarlyEnough ==
  ASSUME CallersFollowContract, NoTailInserts  PROVE Spec => []TimerCoversSleepers
<1> DEFINE Inv == Base /\ TimerInv
<1>1. Init => Inv
  BY InitHolds, InitKept, InitTimer DEF Base
<1>2. Inv /\ [Next]_vars => Inv'
  <2>1. Base /\ [Next]_vars => Base'
    BY NextKeeps, NextKept DEF Base, Kept
  <2> QED  BY <2>1, NextTimer
<1>3. Inv => TimerCoversSleepers
  BY DEF TimerInv, Parts
<1> HIDE DEF Inv
<1> QED  BY <1>1, <1>2, <1>3, PTL DEF Spec

\* When dispatch() ends, the timer is programmed no later than the wake-up of
\* any thread that preempts the one that is given the CPU: where nothing is
\* appended to the sleep list, "this is the earliest time point we need to be
\* interrupted" is true of the place where getNextTimerEvent() stops.  The run
\* dispatcher_rm_timer shows that it is not where jobs are appended.
THEOREM WalkEndsAtEarliest ==
  ASSUME CallersFollowContract, NoTailInserts  PROVE Spec => NextTimerEventIsEarliest
<1> DEFINE Inv == Base /\ TimerInv
           Earliest == phase = "scan" /\ phase' = "run" =>
                         \A t \in Members(lists', "sleep") :
                           cur' = None \/ effectivePriority[t] > effectivePriority[cur']
                             => timer' <= sleepTime[t]
<1>1. Init => Inv
  BY InitHolds, InitKept, InitTimer DEF Base
<1>2. Inv /\ [Next]_vars => Inv'
  <2>1. Base /\ [Next]_vars => Base'
    BY NextKeeps, NextKept DEF Base, Kept
  <2> QED  BY <2>1, NextTimer
<1>3. Inv /\ [Next]_vars => [Earliest]_vars
  <2> SUFFICES ASSUME Inv, [Next]_vars, phase = "scan", phase' = "run"
               PROVE  \A t \in Members(lists', "sleep") :
                        cur' = None \/ effectivePriority[t] > effectivePriority[cur']
                          => timer' <= sleepTime[t]
    OBVIOUS
  <2>1. TimerCoversSleepers'
    <3>1. TimerInv'
      BY <1>2
    <3> QED  BY <3>1 DEF TimerInv, Parts
  <2>2. RunNext \/ RunIdle
    <3>1. phase' # phase
      OBVIOUS
    <3>2. DispatchStep
      BY <3>1 DEF Next, Deliver, SignalVisit, SignalEnd, ClockTick, TimerIRQ, DeviceIRQ,
                  UserStep, WorkerStep, Runs, ThreadSleep, BlockBegin, BlockEnd, SigwaitBegin,
                  SigwaitEnd, SignalBegin, UnblockOther, ThreadRun, ThreadStop, ThreadResume,
                  InstanceEnds, ThreadExit, AssignJob, ServiceTimeouts, WorkDone, clockVars, vars
    <3> QED  BY <3>1, <3>2 DEF DispatchStep, DispatchBegin, ScanWake, ScanSkip, Enter
  <2>3. UNCHANGED <<sleepTime, effectivePriority>>
    BY <2>2 DEF RunNext, RunIdle, attrVars
  <2> QED  BY <2>1, <2>3 DEF TimerCoversSleepers
<1>4. NextTimerEventIsEarliest <=> [][Earliest]_vars
  BY DEF NextTimerEventIsEarliest
<1> HIDE DEF Inv, Earliest
<1> QED  BY <1>1, <1>2, <1>3, <1>4, PTL DEF Spec
=============================================================================
