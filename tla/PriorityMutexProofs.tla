------------------------ MODULE PriorityMutexProofs ------------------------
(***************************************************************************)
(* Class Mutex is a lock, for any number of threads and mutexes and any    *)
(* number of inheritance slots, and priority inheritance keeps the ready   *)
(* queue in order.                                                         *)
(*                                                                         *)
(* The type invariant is not inductive: acquire() boosts m_pThread when it *)
(* finds m_locked set, so the two fields must agree, and a thread in the   *)
(* middle of a call must have an argument.  The place of a thread is only  *)
(* kept because a spinning thread never boosts itself: it would enter the  *)
(* ready queue while it is the running thread.                             *)
(*                                                                         *)
(* At the end: waiting threads are counted, an inherited priority ends     *)
(* with the last release of a thread that calls with interrupts disabled   *)
(* and has lost no mutex to the release() of another thread, and           *)
(* inheritance wakes no thread that sleeps without a mutex.                *)
(***************************************************************************)
EXTENDS PriorityMutex, ThreadListTheorems

\* The flag and the owner of a mutex agree.
LockedIffHeld == \A m \in Mutex : m_locked[m] <=> m_pThread[m] # None

\* A thread inside a call has the mutex of the call, and does not hold the
\* mutex it spins for.
CallHasMutex == \A t \in Thread : pc[t] # "idle" => arg[t] \in Mutex
SpinnerWaits == \A t \in Thread : pc[t] = "spin" => m_pThread[arg[t]] # t

\* The part about the lists: type, place and order.
SchedInv ==
  /\ lists \in [ListNames -> Seq(Thread)]
  /\ cur \in Thread \cup {None}
  /\ timer \in BOOLEAN
  /\ OnePlace
  /\ ReadySorted

\* The part about mutexes and priorities.
MutexInv ==
  /\ pc \in [Thread -> {"idle", "spin", "released", "pop"}]
  /\ arg \in [Thread -> Mutex \cup {None}]
  /\ m_locked \in [Mutex -> BOOLEAN]
  /\ m_pThread \in [Mutex -> Thread \cup {None}]
  /\ waitingThreads \in [Mutex -> Int]
  /\ robbed \subseteq Thread
  /\ effectivePriority \in [Thread -> Nat]
  /\ ref \in [Thread -> [Slots -> Mutex \cup {None}]]
  /\ priorities \in [Thread -> [Slots -> Nat]]
  /\ highestPrio \in [Thread -> Nat]
  /\ LockedIffHeld
  /\ CallHasMutex
  /\ SpinnerWaits

IInv == SchedInv /\ MutexInv

-----------------------------------------------------------------------------
\* Lists in which every thread has one place and the ready queue is sorted.
Sound(L, key) ==
  /\ L \in [ListNames -> Seq(Thread)]
  /\ Disjoint(L)
  /\ Descending(L["ready"], key)

\* The invariant holds in the initial states.
LEMMA InitHolds == Init => IInv
<1> SUFFICES ASSUME Init  PROVE IInv
  OBVIOUS
<1> USE MutexAssumption
<1>1. SetToSeq(Thread) \in Seq(Thread) /\ NoDup(SetToSeq(Thread))
  BY SetToSeqExact
<1>2. lists \in [ListNames -> Seq(Thread)]
  BY <1>1 DEF Init, ListNames
<1>3. OnePlace
  <2>1. \A n \in ListNames : n # "sleep" => lists[n] = <<>>
    BY DEF Init
  <2>2. \A n \in ListNames : NoDup(lists[n])
    <3>1. NoDup(lists["sleep"])
      BY <1>1 DEF Init, ListNames
    <3> QED  BY <2>1, <3>1 DEF NoDup
  <2>3. \A n \in ListNames : n # "sleep" => Members(lists, n) = {}
    BY <2>1 DEF Members, ToSet
  <2>4. \A n \in ListNames : Members(lists, n) \subseteq Thread
    BY <1>2 DEF Members, ToSet
  <2>5. cur \notin Listed(lists)
    BY <2>4 DEF Listed, Init
  <2> QED  BY <2>2, <2>3, <2>5 DEF OnePlace, Disjoint
<1>4. ReadySorted
  BY DEF Init, ReadySorted, Descending, ListNames
<1>5. cur \in Thread \cup {None} /\ timer \in BOOLEAN
  BY DEF Init
<1>6. MutexInv
  BY DEF Init, MutexInv, LockedIffHeld, CallHasMutex, SpinnerWaits
<1> QED  BY <1>2, <1>3, <1>4, <1>5, <1>6 DEF IInv, SchedInv

\* dispatch() begins by putting the running thread into the ready queue.
LEMMA ReinsertedSound ==
  ASSUME IInv
  PROVE  Sound(Reinserted, effectivePriority)
<1>1. lists \in [ListNames -> Seq(Thread)] /\ Disjoint(lists)
      /\ Descending(lists["ready"], effectivePriority)
      /\ effectivePriority \in [Thread -> Nat]
  BY DEF IInv, SchedInv, MutexInv, OnePlace, ReadySorted
<1>2. CASE cur = None
  BY <1>1, <1>2 DEF Reinserted, Sound
<1>3. CASE cur # None
  <2>1. cur \in Thread
    BY <1>3 DEF IInv, SchedInv
  <2>2. Moved(Thread, lists, EnterReady(lists, cur, effectivePriority), cur, "ready")
    BY <1>1, <2>1, EnterReadyMoves
  <2>3. Descending(EnterReady(lists, cur, effectivePriority)["ready"], effectivePriority)
    BY <1>1, <2>1, EnterReadySorted
  <2> QED  BY <1>1, <1>3, <2>2, <2>3 DEF Reinserted, Sound, Moved
<1> QED  BY <1>2, <1>3

\* The head of a sound ready queue becomes the running thread.
LEMMA RunHeadKeeps ==
  ASSUME NEW L, Sound(L, effectivePriority), RunHead(L),
         effectivePriority' = effectivePriority, timer' \in BOOLEAN
  PROVE  SchedInv'
<1> USE MutexAssumption
<1>1. "ready" \in ListNames
  BY DEF ListNames
<1>2. CASE L["ready"] = <<>>
  <2>1. cur' = None /\ lists' = L
    BY <1>1, <1>2 DEF RunHead, Sound
  <2>2. \A n \in ListNames : Members(L, n) \subseteq Thread
    BY DEF Sound, Members, ToSet
  <2>3. None \notin Listed(L)
    BY <2>2 DEF Listed
  <2> QED  BY <2>1, <2>3 DEF Sound, SchedInv, OnePlace, ReadySorted
<1>3. CASE L["ready"] # <<>>
  <2> DEFINE h == Head(L["ready"])
             E == TakeHead(L)
  <2>1. cur' = h /\ lists' = E
    BY <1>1, <1>3 DEF RunHead, Sound
  <2>2. L \in [ListNames -> Seq(Thread)] /\ Disjoint(L)
        /\ Descending(L["ready"], effectivePriority)
    BY DEF Sound
  <2>3. /\ E \in [ListNames -> Seq(Thread)] /\ h \in Thread
        /\ Disjoint(E)
        /\ \A n \in ListNames : Members(E, n) = Members(L, n) \ {h}
    BY <1>3, <2>2, TakeHeadLists, TakeHeadSound
  <2>4. Descending(E["ready"], effectivePriority)
    BY <1>3, <2>2, TakeHeadSorted
  <2> HIDE DEF h, E
  <2>5. h \notin Listed(E)
    BY <2>3 DEF Listed
  <2> QED  BY <2>1, <2>3, <2>4, <2>5 DEF SchedInv, OnePlace, ReadySorted
<1> QED  BY <1>2, <1>3

\* A step that changes neither the lists nor the priority of a listed thread.
LEMMA SchedUnchanged ==
  ASSUME IInv, UNCHANGED <<lists, cur, effectivePriority>>, timer' \in BOOLEAN
  PROVE  SchedInv'
BY DEF IInv, SchedInv, OnePlace, ReadySorted

\* pushPriority of a thread that is not running moves it to its new position
\* in the ready queue, and fills at most one slot.
LEMMA PushKeeps ==
  ASSUME IInv, NEW h \in Thread, h # cur, NEW p \in Nat, NEW m \in Mutex,
         PushPriority(h, p, m), cur' = cur, timer' \in BOOLEAN
  PROVE  /\ SchedInv'
         /\ effectivePriority' \in [Thread -> Nat]
         /\ ref' \in [Thread -> [Slots -> Mutex \cup {None}]]
         /\ priorities' \in [Thread -> [Slots -> Nat]]
<1>1. /\ lists \in [ListNames -> Seq(Thread)] /\ Disjoint(lists)
      /\ cur \notin Listed(lists) /\ cur \in Thread \cup {None}
      /\ Descending(lists["ready"], effectivePriority)
  BY DEF IInv, SchedInv, OnePlace, ReadySorted
<1>2. /\ effectivePriority \in [Thread -> Nat]
      /\ ref \in [Thread -> [Slots -> Mutex \cup {None}]]
      /\ priorities \in [Thread -> [Slots -> Nat]]
  BY DEF IInv, MutexInv
<1>3. CASE p <= effectivePriority[h]
  <2>1. UNCHANGED <<effectivePriority, ref, priorities, lists>>
    BY <1>3 DEF PushPriority, prioVars
  <2> QED  BY <1>2, <2>1, SchedUnchanged
<1>4. CASE ~(p <= effectivePriority[h])
  <2> DEFINE free == {i \in Slots : ref[h][i] = None}
             first == CHOOSE i \in free : \A j \in free : i <= j
             e == [effectivePriority EXCEPT ![h] = p]
  <2>1. /\ IF free = {} THEN UNCHANGED <<ref, priorities>>
           ELSE /\ ref' = [ref EXCEPT ![h][first] = m]
                /\ priorities' = [priorities EXCEPT ![h][first] = effectivePriority[h]]
        /\ effectivePriority' = e
        /\ lists' = EnterReady(lists, h, e)
    BY <1>4 DEF PushPriority
  <2>2. e \in [Thread -> Nat] /\ \A x \in Thread : x # h => e[x] = effectivePriority[x]
    BY <1>2
  <2>3. /\ ref' \in [Thread -> [Slots -> Mutex \cup {None}]]
        /\ priorities' \in [Thread -> [Slots -> Nat]]
    <3> HIDE DEF free, first
    <3>1. CASE free = {}
      BY <1>2, <2>1, <3>1
    <3>2. CASE free # {}
      <4>1. /\ ref' = [ref EXCEPT ![h] = [ref[h] EXCEPT ![first] = m]]
            /\ priorities' = [priorities EXCEPT
                                ![h] = [priorities[h] EXCEPT ![first] = effectivePriority[h]]]
        BY <1>2, <2>1, <3>2
      <4>2. [ref[h] EXCEPT ![first] = m] \in [Slots -> Mutex \cup {None}]
        BY <1>2
      <4>3. [priorities[h] EXCEPT ![first] = effectivePriority[h]] \in [Slots -> Nat]
        BY <1>2
      <4> QED  BY <1>2, <4>1, <4>2, <4>3
    <3> QED  BY <3>1, <3>2
  <2> HIDE DEF e
  <2>4. Moved(Thread, lists, lists', h, "ready")
    BY <1>1, <2>1, EnterReadyMoves
  <2>5. Descending(lists'["ready"], e)
    <3>1. Descending(EnterReady(lists, h, e)["ready"], e)
      BY <1>1, <1>2, EnterReadyRaised DEF e
    <3> QED  BY <2>1, <3>1
  <2>6. Disjoint(lists') /\ lists' \in [ListNames -> Seq(Thread)]
    BY <1>1, <2>4 DEF Moved
  <2>7. cur \notin Listed(lists')
    <3>1. \A n \in ListNames : Members(lists', n) \subseteq Members(lists, n) \cup {h}
      BY <1>1, <2>4 DEF Moved
    <3> QED  BY <1>1, <3>1 DEF Listed
  <2>8. SchedInv'
    BY <1>1, <2>1, <2>5, <2>6, <2>7 DEF SchedInv, OnePlace, ReadySorted
  <2> QED  BY <2>1, <2>2, <2>3, <2>8
<1> QED  BY <1>3, <1>4

\* One attempt to get a mutex that the caller does not hold.
LEMMA AttemptKeeps ==
  ASSUME IInv, NEW t \in Thread, NEW m \in Mutex, NEW blocking \in BOOLEAN,
         NEW w \in Int, cur = t, m_pThread[m] # t, arg'[t] = m,
         \A x \in Thread : x # t => arg'[x] = arg[x],
         arg' \in [Thread -> Mutex \cup {None}],
         Attempt(t, m, blocking, w), UNCHANGED <<cur, robbed, highestPrio>>
  PROVE  IInv'
<1> USE DEF IInv, MutexInv
<1>1. timer \in BOOLEAN
  BY DEF SchedInv
<1>2. CASE ~m_locked[m]
  <2>1. SchedInv'
    BY <1>1, <1>2, SchedUnchanged DEF Attempt, prioVars
  <2>2. MutexInv'
    <3>1. UNCHANGED <<effectivePriority, ref, priorities>>
      BY <1>2 DEF Attempt, prioVars
    <3>2. /\ m_locked' = [m_locked EXCEPT ![m] = TRUE]
          /\ m_pThread' = [m_pThread EXCEPT ![m] = t]
          /\ waitingThreads' = [waitingThreads EXCEPT ![m] = w - 1]
          /\ pc' = [pc EXCEPT ![t] = "idle"]
      BY <1>2 DEF Attempt
    <3>3. LockedIffHeld'
      BY <3>2, MutexAssumption DEF LockedIffHeld
    <3>4. CallHasMutex'
      BY <3>2 DEF CallHasMutex
    <3>5. SpinnerWaits'
      BY <3>2 DEF SpinnerWaits, CallHasMutex
    <3> QED  BY <3>1, <3>2, <3>3, <3>4, <3>5
  <2> QED  BY <2>1, <2>2
<1>3. CASE m_locked[m]
  <2>1. /\ PushPriority(m_pThread[m], effectivePriority[t] + 1, m)
        /\ waitingThreads' = [waitingThreads EXCEPT ![m] = w]
        /\ pc' = [pc EXCEPT ![t] = IF blocking THEN "spin" ELSE "idle"]
        /\ timer' = (timer \/ blocking)
        /\ UNCHANGED <<m_locked, m_pThread>>
    BY <1>3 DEF Attempt
  <2>2. m_pThread[m] \in Thread /\ m_pThread[m] # cur
    BY <1>3 DEF LockedIffHeld
  <2>3. effectivePriority[t] + 1 \in Nat
    OBVIOUS
  <2>4. timer' \in BOOLEAN
    BY <1>1, <2>1
  <2>5. /\ SchedInv'
        /\ effectivePriority' \in [Thread -> Nat]
        /\ ref' \in [Thread -> [Slots -> Mutex \cup {None}]]
        /\ priorities' \in [Thread -> [Slots -> Nat]]
    BY <2>1, <2>2, <2>3, <2>4, PushKeeps
  <2>6. LockedIffHeld' /\ CallHasMutex' /\ SpinnerWaits'
    BY <2>1 DEF LockedIffHeld, CallHasMutex, SpinnerWaits
  <2>7. /\ pc' \in [Thread -> {"idle", "spin", "released", "pop"}]
        /\ waitingThreads' \in [Mutex -> Int]
        /\ m_locked' \in [Mutex -> BOOLEAN]
        /\ m_pThread' \in [Mutex -> Thread \cup {None}]
        /\ highestPrio' \in [Thread -> Nat]
    BY <2>1
  <2> QED  BY <2>5, <2>6, <2>7
<1> QED  BY <1>2, <1>3

\* popPriority: the slots of the mutex, and the highest priority that the
\* thread keeps without them.
MySlots(t) == {i \in Slots : ref[t][i] = arg[t]}
OtherSlots(t) == {i \in Slots \ MySlots(t) : ref[t][i] # None}
OtherPriorities(t) == {priorities[t][i] : i \in OtherSlots(t)} \cup {Priority[t]}
HighestOther(t) == CHOOSE p \in OtherPriorities(t) : \A q \in OtherPriorities(t) : q <= p

\* The loop of popPriority ends with one of those priorities, and with none
\* below the thread's own.
LEMMA HighestOtherBounds ==
  ASSUME IInv, NEW t \in Thread
  PROVE  /\ HighestOther(t) \in OtherPriorities(t)
         /\ HighestOther(t) \in Nat /\ HighestOther(t) >= Priority[t]
<1> USE MutexAssumption
<1>1. /\ OtherPriorities(t) \subseteq Nat /\ Priority[t] \in OtherPriorities(t)
      /\ OtherPriorities(t) # {}
  BY DEF IInv, MutexInv, OtherPriorities, OtherSlots
<1>2. IsFiniteSet(OtherPriorities(t))
  <2>1. IsFiniteSet(Slots)
    BY FS_Interval DEF Slots
  <2>2. IsFiniteSet(OtherSlots(t))
    BY <2>1, FS_Subset DEF OtherSlots
  <2>3. IsFiniteSet({priorities[t][i] : i \in OtherSlots(t)})
    <3> DEFINE f == [i \in OtherSlots(t) |-> priorities[t][i]]
    <3>1. f \in Surjection(OtherSlots(t), {priorities[t][i] : i \in OtherSlots(t)})
      BY DEF Surjection
    <3> QED  BY <2>2, <3>1, FS_Surjection
  <2> QED  BY <2>3, FS_AddElement DEF OtherPriorities
<1>3. \E p \in OtherPriorities(t) : \A q \in OtherPriorities(t) : p >= q
  BY <1>1, <1>2, FiniteMaxExists
<1>4. \E p \in OtherPriorities(t) : \A q \in OtherPriorities(t) : q <= p
  BY <1>1, <1>3
<1>5. /\ HighestOther(t) \in OtherPriorities(t)
      /\ \A q \in OtherPriorities(t) : q <= HighestOther(t)
  BY <1>4 DEF HighestOther
<1> QED  BY <1>1, <1>5

\* What the first half of popPriority, and release() without it, change.
LEMMA PopBeginCases ==
  ASSUME NEW t \in Thread, PopBegin(t)
  PROVE  \/ /\ waitingThreads[arg[t]] > 0 /\ MySlots(t) # {}
            /\ ref' = [ref EXCEPT ![t] =
                         [i \in Slots |-> IF i \in MySlots(t) THEN None ELSE ref[t][i]]]
            /\ priorities' = [priorities EXCEPT ![t] =
                         [i \in Slots |-> IF i \in MySlots(t) THEN 0 ELSE priorities[t][i]]]
            /\ highestPrio' = [highestPrio EXCEPT ![t] = HighestOther(t)]
            /\ pc' = [pc EXCEPT ![t] = "pop"]
         \/ /\ ~(waitingThreads[arg[t]] > 0 /\ MySlots(t) # {})
            /\ pc' = [pc EXCEPT ![t] = "idle"]
            /\ UNCHANGED <<ref, priorities, highestPrio>>
BY DEF PopBegin, MySlots, OtherSlots, OtherPriorities, HighestOther

\* The calls of a thread, and the timer interrupt, keep the invariant.
LEMMA NextKeeps == IInv /\ [Next]_vars => IInv'
<1> SUFFICES ASSUME IInv, [Next]_vars  PROVE IInv'
  OBVIOUS
<1> USE MutexAssumption DEF IInv
<1>1. ASSUME NEW t \in Thread, NEW m \in Mutex, NEW blocking \in BOOLEAN,
             AcquireBegin(t, m, blocking)
      PROVE  IInv'
  <2>1. /\ cur = t /\ m_pThread[m] # t
        /\ arg' = [arg EXCEPT ![t] = m]
        /\ Attempt(t, m, blocking, waitingThreads[m] + 1)
        /\ UNCHANGED <<cur, robbed, highestPrio>>
    <3>1. m \in Nat /\ ~(m < m)
      OBVIOUS
    <3> QED  BY <1>1, <3>1 DEF AcquireBegin, At, Held
  <2>2. waitingThreads[m] + 1 \in Int
    BY DEF MutexInv
  <2>3. arg'[t] = m /\ arg' \in [Thread -> Mutex \cup {None}]
        /\ \A x \in Thread : x # t => arg'[x] = arg[x]
    BY <2>1 DEF MutexInv
  <2> HIDE DEF IInv
  <2> QED  BY <2>1, <2>2, <2>3, AttemptKeeps
<1>2. ASSUME NEW t \in Thread, Spin(t)  PROVE IInv'
  <2>1. /\ cur = t /\ arg[t] \in Mutex /\ m_pThread[arg[t]] # t
        /\ arg' = arg
        /\ Attempt(t, arg[t], TRUE, waitingThreads[arg[t]])
        /\ UNCHANGED <<cur, robbed, highestPrio>>
    BY <1>2 DEF Spin, At, MutexInv, CallHasMutex, SpinnerWaits
  <2>2. waitingThreads[arg[t]] \in Int
    BY <2>1 DEF MutexInv
  <2>3. arg' \in [Thread -> Mutex \cup {None}]
    BY <2>1 DEF MutexInv
  <2> HIDE DEF IInv
  <2> QED  BY <2>1, <2>2, <2>3, AttemptKeeps
<1>3. ASSUME NEW t \in Thread, NEW m \in Mutex, Release(t, m)  PROVE IInv'
  <2>1. SchedInv'
    BY <1>3, SchedUnchanged DEF Release, schedVars, prioVars, SchedInv
  <2>2. MutexInv'
    <3>1. LockedIffHeld' /\ CallHasMutex' /\ SpinnerWaits'
      BY <1>3 DEF Release, MutexInv, LockedIffHeld, CallHasMutex, SpinnerWaits
    <3>2. robbed' \subseteq Thread
      BY <1>3 DEF Release, Robs, MutexInv
    <3> QED  BY <1>3, <3>1, <3>2 DEF Release, MutexInv, prioVars
  <2> QED  BY <2>1, <2>2
<1>4. ASSUME NEW t \in Thread, PopBegin(t)  PROVE IInv'
  <2>1. SchedInv'
    BY <1>4, SchedUnchanged DEF PopBegin, schedVars, SchedInv
  <2> DEFINE mine == MySlots(t)
             top == HighestOther(t)
  <2>2. top \in Nat
    BY HighestOtherBounds
  <2>3. MutexInv'
    <3>1. UNCHANGED <<arg, m_locked, m_pThread, waitingThreads, robbed, effectivePriority>>
      BY <1>4 DEF PopBegin, mutexVars
    <3>2. \/ /\ ref' = [ref EXCEPT ![t] =
                          [i \in Slots |-> IF i \in mine THEN None ELSE ref[t][i]]]
             /\ priorities' = [priorities EXCEPT ![t] =
                          [i \in Slots |-> IF i \in mine THEN 0 ELSE priorities[t][i]]]
             /\ highestPrio' = [highestPrio EXCEPT ![t] = top]
             /\ pc' = [pc EXCEPT ![t] = "pop"]
          \/ /\ pc' = [pc EXCEPT ![t] = "idle"]
             /\ UNCHANGED <<ref, priorities, highestPrio>>
      BY <1>4, PopBeginCases
    <3>3. pc[t] = "released"
      BY <1>4 DEF PopBegin, At
    <3> HIDE DEF mine, top
    <3>4. LockedIffHeld' /\ CallHasMutex' /\ SpinnerWaits'
      BY <3>1, <3>2, <3>3 DEF MutexInv, LockedIffHeld, CallHasMutex, SpinnerWaits
    <3>5. /\ ref' \in [Thread -> [Slots -> Mutex \cup {None}]]
          /\ priorities' \in [Thread -> [Slots -> Nat]]
          /\ highestPrio' \in [Thread -> Nat]
          /\ pc' \in [Thread -> {"idle", "spin", "released", "pop"}]
      <4>1. [i \in Slots |-> IF i \in mine THEN None ELSE ref[t][i]]
              \in [Slots -> Mutex \cup {None}]
        BY DEF MutexInv
      <4>2. [i \in Slots |-> IF i \in mine THEN 0 ELSE priorities[t][i]] \in [Slots -> Nat]
        BY DEF MutexInv
      <4> DEFINE r == [i \in Slots |-> IF i \in mine THEN None ELSE ref[t][i]]
                 s == [i \in Slots |-> IF i \in mine THEN 0 ELSE priorities[t][i]]
      <4>3. \/ /\ ref' = [ref EXCEPT ![t] = r]
               /\ priorities' = [priorities EXCEPT ![t] = s]
               /\ highestPrio' = [highestPrio EXCEPT ![t] = top]
               /\ pc' = [pc EXCEPT ![t] = "pop"]
            \/ /\ pc' = [pc EXCEPT ![t] = "idle"]
               /\ UNCHANGED <<ref, priorities, highestPrio>>
        BY <3>2
      <4>4. r \in [Slots -> Mutex \cup {None}] /\ s \in [Slots -> Nat]
        BY <4>1, <4>2
      <4>5. /\ ref \in [Thread -> [Slots -> Mutex \cup {None}]]
            /\ priorities \in [Thread -> [Slots -> Nat]]
            /\ highestPrio \in [Thread -> Nat]
            /\ pc \in [Thread -> {"idle", "spin", "released", "pop"}]
        BY DEF MutexInv
      <4> HIDE DEF r, s, IInv
      <4>6. CASE UNCHANGED <<ref, priorities, highestPrio>> /\ pc' = [pc EXCEPT ![t] = "idle"]
        BY <4>5, <4>6
      <4>7. CASE /\ ref' = [ref EXCEPT ![t] = r]
                 /\ priorities' = [priorities EXCEPT ![t] = s]
                 /\ highestPrio' = [highestPrio EXCEPT ![t] = top]
                 /\ pc' = [pc EXCEPT ![t] = "pop"]
        BY <2>2, <4>4, <4>5, <4>7
      <4> QED  BY <4>3, <4>6, <4>7
    <3> QED  BY <3>1, <3>4, <3>5 DEF MutexInv
  <2> QED  BY <2>1, <2>3
<1>5. ASSUME NEW t \in Thread, PopEnd(t)  PROVE IInv'
  <2>1. /\ cur = t /\ pc' = [pc EXCEPT ![t] = "idle"]
        /\ highestPrio' = [highestPrio EXCEPT ![t] = 0]
        /\ effectivePriority' \in {effectivePriority,
                                   [effectivePriority EXCEPT ![t] = highestPrio[t]]}
        /\ timer' \in BOOLEAN
        /\ UNCHANGED <<lists, cur, arg, m_locked, m_pThread, waitingThreads, robbed, ref, priorities>>
    BY <1>5 DEF PopEnd, At, mutexVars, SchedInv
  <2>2. effectivePriority' \in [Thread -> Nat]
        /\ \A x \in Thread : x # t => effectivePriority'[x] = effectivePriority[x]
    BY <2>1 DEF MutexInv
  <2>3. \A i \in DOMAIN lists["ready"] : lists["ready"][i] \in Thread \ {t}
    BY <2>1 DEF SchedInv, OnePlace, Listed, Members, ToSet, ListNames
  <2>4. ReadySorted'
    BY <2>1, <2>2, <2>3 DEF SchedInv, ReadySorted, Descending
  <2>5. SchedInv'
    BY <2>1, <2>4 DEF SchedInv, OnePlace
  <2>6. LockedIffHeld' /\ CallHasMutex' /\ SpinnerWaits'
    BY <2>1 DEF MutexInv, LockedIffHeld, CallHasMutex, SpinnerWaits
  <2>7. MutexInv'
    BY <2>1, <2>2, <2>6 DEF MutexInv
  <2> QED  BY <2>5, <2>7
<1>6. ASSUME UNCHANGED <<pc, arg, mutexVars, prioVars, highestPrio>>  PROVE MutexInv'
  BY <1>6 DEF MutexInv, mutexVars, prioVars, LockedIffHeld, CallHasMutex, SpinnerWaits
<1>7. CASE Preempt
  <2>1. RunHead(Reinserted) /\ timer' = FALSE
        /\ UNCHANGED <<pc, arg, mutexVars, prioVars, highestPrio>>
    BY <1>7 DEF Preempt
  <2>2. SchedInv'
    BY <2>1, ReinsertedSound, RunHeadKeeps DEF prioVars
  <2> QED  BY <1>6, <2>1, <2>2
<1>8. ASSUME NEW t \in Thread, Wake(t)  PROVE IInv'
  <2> DEFINE L == EnterReady(Reinserted, t, effectivePriority)
  <2>1. RunHead(L) /\ timer' = FALSE
        /\ UNCHANGED <<pc, arg, mutexVars, prioVars, highestPrio>>
    BY <1>8 DEF Wake
  <2>2. Sound(Reinserted, effectivePriority)
    BY ReinsertedSound
  <2>3. Moved(Thread, Reinserted, L, t, "ready")
    BY <2>2, EnterReadyMoves DEF Sound
  <2>4. Descending(L["ready"], effectivePriority)
    BY <2>2, EnterReadySorted DEF Sound, MutexInv
  <2>5. Sound(L, effectivePriority)
    BY <2>2, <2>3, <2>4 DEF Sound, Moved
  <2> HIDE DEF L
  <2>6. SchedInv'
    BY <2>1, <2>5, RunHeadKeeps DEF prioVars
  <2> QED  BY <1>6, <2>1, <2>6
<1>9. ASSUME NEW t \in Thread, Sleep(t)  PROVE IInv'
  <2> DEFINE L == AddTail(lists, "sleep", t)
  <2>1. RunHead(L) /\ timer' = FALSE
        /\ UNCHANGED <<pc, arg, mutexVars, prioVars, highestPrio>>
    BY <1>9 DEF Sleep
  <2>2. Sound(lists, effectivePriority) /\ "sleep" \in ListNames /\ "sleep" # "ready"
    BY DEF Sound, SchedInv, OnePlace, ReadySorted, ListNames
  <2>3. Moved(Thread, lists, L, t, "sleep")
    BY <2>2, AddTailMoves DEF Sound
  <2>4. Descending(L["ready"], effectivePriority)
    BY <2>2, MoveKeepsSorted DEF Sound
  <2>5. Sound(L, effectivePriority)
    BY <2>2, <2>3, <2>4 DEF Sound, Moved
  <2> HIDE DEF L
  <2>6. SchedInv'
    BY <2>1, <2>5, RunHeadKeeps DEF prioVars
  <2> QED  BY <1>6, <2>1, <2>6
<1>10. CASE UNCHANGED vars
  <2>1. SchedInv'
    BY <1>10, SchedUnchanged DEF vars, schedVars, prioVars, SchedInv
  <2> QED  BY <1>6, <1>10, <2>1 DEF vars
<1> QED
  BY <1>1, <1>2, <1>3, <1>4, <1>5, <1>7, <1>8, <1>9, <1>10 DEF Next

\* The inductive invariant holds in every reachable state.
LEMMA Invariant == Spec => []IInv
BY InitHolds, NextKeeps, PTL DEF Spec

\* Every variable of the mutex, its threads and the scheduler keeps its type;
\* in particular acquire() never boosts a thread that does not exist.
THEOREM TypeCorrect == Spec => []TypeOK
<1>1. IInv => TypeOK
  BY DEF IInv, SchedInv, MutexInv, TypeOK
<1> QED  BY <1>1, Invariant, PTL

\* No thread is ever in two scheduling lists, twice in one, or in a list while
\* it runs, although pushPriority takes threads out of the middle of a queue.
THEOREM ThreadsHaveOnePlace == Spec => []OnePlace
<1>1. IInv => OnePlace
  BY DEF IInv, SchedInv
<1> QED  BY <1>1, Invariant, PTL

\* The ready queue is sorted at all times, although the priorities of queued
\* threads change while they are in it.
THEOREM QueueStaysSorted == Spec => []ReadySorted
<1>1. IInv => ReadySorted
  BY DEF IInv, SchedInv
<1> QED  BY <1>1, Invariant, PTL

-----------------------------------------------------------------------------
\* A step of the lock, or none.
LockStep == LockSpec!Next \/ UNCHANGED <<m_pThread, wants>>

\* A step of Mutex::acquire is a step of the lock, or none.
LEMMA AttemptRefines ==
  ASSUME IInv, NEW t \in Thread, NEW m \in Mutex, NEW blocking \in BOOLEAN,
         NEW w \in Int, pc[t] = "idle" \/ (pc[t] = "spin" /\ arg[t] = m /\ blocking = TRUE),
         m_pThread[m] # t, arg' = [arg EXCEPT ![t] = m],
         Attempt(t, m, blocking, w)
  PROVE  LockStep
<1> USE MutexAssumption
<1>1. /\ pc \in [Thread -> {"idle", "spin", "released", "pop"}]
      /\ arg \in [Thread -> Mutex \cup {None}]
      /\ m_pThread \in [Mutex -> Thread \cup {None}]
      /\ m_locked[m] <=> m_pThread[m] # None
  BY DEF IInv, MutexInv, LockedIffHeld
<1>2. CASE ~m_locked[m]
  <2>1. m_pThread' = [m_pThread EXCEPT ![m] = t] /\ pc' = [pc EXCEPT ![t] = "idle"]
    BY <1>2 DEF Attempt
  <2>2. wants' = [wants EXCEPT ![t] = None]
    BY <1>1, <2>1 DEF wants
  <2>3. wants[t] \in {None, m}
    BY <1>1 DEF wants
  <2>4. LockSpec!Take(t, m)
    BY <1>1, <1>2, <2>1, <2>2, <2>3 DEF LockSpec!Take
  <2> QED  BY <2>4 DEF LockStep, LockSpec!Next
<1>3. CASE m_locked[m] /\ pc[t] = "idle" /\ blocking
  <2>1. m_pThread' = m_pThread /\ pc' = [pc EXCEPT ![t] = "spin"]
    BY <1>3 DEF Attempt
  <2>2. wants' = [wants EXCEPT ![t] = m] /\ wants[t] = None
    BY <1>1, <1>3, <2>1 DEF wants
  <2>3. LockSpec!Wait(t, m)
    BY <1>1, <1>3, <2>1, <2>2 DEF LockSpec!Wait
  <2> QED  BY <2>3 DEF LockStep, LockSpec!Next
<1>4. CASE m_locked[m] /\ (pc[t] = "spin" \/ ~blocking)
  <2>1. m_pThread' = m_pThread
        /\ pc' = [pc EXCEPT ![t] = IF blocking THEN "spin" ELSE "idle"]
    BY <1>4 DEF Attempt
  <2>2. pc' = pc
    BY <1>1, <1>4, <2>1
  <2>3. wants' = wants
    BY <1>1, <1>4, <2>2 DEF wants
  <2> QED  BY <2>1, <2>3 DEF LockStep
<1> QED  BY <1>2, <1>3, <1>4

\* Every step of the mutex is a step of the lock, or none.
LEMMA StepRefines ==
  IInv /\ [Next]_vars => [LockSpec!Next]_<<m_pThread, wants>>
<1> SUFFICES ASSUME IInv, [Next]_vars
             PROVE  LockStep
  BY DEF LockStep
<1> USE MutexAssumption
<1>1. /\ pc \in [Thread -> {"idle", "spin", "released", "pop"}]
      /\ arg \in [Thread -> Mutex \cup {None}]
      /\ m_pThread \in [Mutex -> Thread \cup {None}]
  BY DEF IInv, MutexInv
<1>2. ASSUME NEW t \in Thread, NEW m \in Mutex, NEW blocking \in BOOLEAN,
             AcquireBegin(t, m, blocking)
      PROVE  LockStep
  <2>1. /\ pc[t] = "idle" /\ m_pThread[m] # t
        /\ arg' = [arg EXCEPT ![t] = m]
        /\ Attempt(t, m, blocking, waitingThreads[m] + 1)
    <3>1. m \in Nat /\ ~(m < m)
      OBVIOUS
    <3> QED  BY <1>2, <3>1 DEF AcquireBegin, At, Held
  <2>2. waitingThreads[m] + 1 \in Int
    BY DEF IInv, MutexInv
  <2> QED  BY <2>1, <2>2, AttemptRefines
<1>3. ASSUME NEW t \in Thread, Spin(t)
      PROVE  LockStep
  <2>1. /\ pc[t] = "spin" /\ arg[t] \in Mutex /\ m_pThread[arg[t]] # t
        /\ Attempt(t, arg[t], TRUE, waitingThreads[arg[t]])
    BY <1>3 DEF Spin, At, IInv, MutexInv, CallHasMutex, SpinnerWaits
  <2>2. arg' = [arg EXCEPT ![t] = arg[t]]
    BY <1>1, <1>3 DEF Spin
  <2>3. waitingThreads[arg[t]] \in Int
    BY <2>1 DEF IInv, MutexInv
  <2> QED  BY <2>1, <2>2, <2>3, AttemptRefines
<1>4. ASSUME NEW t \in Thread, NEW m \in Mutex, Release(t, m)
      PROVE  LockSpec!Next
  <2>1. /\ pc[t] = "idle" /\ (m_pThread[m] = t \/ <<t, m>> \in Releasers)
        /\ m_pThread' = [m_pThread EXCEPT ![m] = None]
        /\ pc' = [pc EXCEPT ![t] = "released"] /\ arg' = [arg EXCEPT ![t] = m]
    BY <1>4 DEF Release, At
  <2>2. wants[t] = None /\ wants' = wants
    BY <1>1, <2>1 DEF wants
  <2>3. LockSpec!Give(t, m)
    BY <2>1, <2>2 DEF LockSpec!Give
  <2> QED  BY <2>3 DEF LockSpec!Next
<1>5. ASSUME NEW t \in Thread, PopBegin(t) \/ PopEnd(t)
      PROVE  UNCHANGED <<m_pThread, wants>>
  <2>1. /\ pc[t] \in {"released", "pop"} /\ m_pThread' = m_pThread /\ arg' = arg
        /\ \E l \in {"idle", "pop"} : pc' = [pc EXCEPT ![t] = l]
    BY <1>5 DEF PopBegin, PopEnd, At, mutexVars
  <2>2. wants' = wants
    BY <1>1, <2>1 DEF wants
  <2> QED  BY <2>1, <2>2
<1>6. ASSUME UNCHANGED <<pc, arg, mutexVars>>  PROVE UNCHANGED <<m_pThread, wants>>
  BY <1>6 DEF mutexVars, wants
<1>7. CASE Preempt \/ (\E t \in Thread : Wake(t) \/ Sleep(t)) \/ UNCHANGED vars
  BY <1>6, <1>7 DEF Preempt, Wake, Sleep, vars, LockStep
<1>8. TRUE \in BOOLEAN /\ FALSE \in BOOLEAN
  OBVIOUS
<1>9. ASSUME NEW t \in Thread, PopBegin(t) \/ PopEnd(t)  PROVE LockStep
  BY <1>5, <1>9 DEF LockStep
<1>10. ASSUME NEW t \in Thread, NEW m \in Mutex, Release(t, m)  PROVE LockStep
  BY <1>4, <1>10 DEF LockStep
<1> QED  BY <1>2, <1>3, <1>7, <1>8, <1>9, <1>10 DEF Next

\* Mutex::acquire and Mutex::release implement a lock, whichever threads call
\* release() of mutexes they do not hold: acquire() gives a mutex to nobody
\* while it has a holder, only release() by the holder or one of Releasers takes
\* it from the holder, and whoever waits does nothing else until it gets it.
THEOREM MutexIsLock == Spec => ImplementsLock
<1>1. Init => LockSpec!Init
  BY DEF Init, LockSpec!Init, wants
<1> QED  BY <1>1, StepRefines, Invariant, PTL DEF Spec, ImplementsLock, LockSpec!Spec

-----------------------------------------------------------------------------
\* The spinning threads of a mutex are finitely many; one more or one less
\* changes their number by one.
LEMMA SpinnersCount ==
  ASSUME NEW m
  PROVE  /\ IsFiniteSet(Spinners(m)) /\ Cardinality(Spinners(m)) \in Nat
         /\ \A t : t \notin Spinners(m)
              => Cardinality(Spinners(m) \cup {t}) = Cardinality(Spinners(m)) + 1
         /\ \A t : t \in Spinners(m)
              => Cardinality(Spinners(m) \ {t}) = Cardinality(Spinners(m)) - 1
<1>1. Spinners(m) \subseteq Thread
  BY DEF Spinners
<1>2. IsFiniteSet(Spinners(m))
  BY <1>1, MutexAssumption, FS_Subset, Zenon
<1>3. Cardinality(Spinners(m)) \in Nat
  BY <1>2, FS_CardinalityType
<1>4. ASSUME NEW t, t \notin Spinners(m)
      PROVE  Cardinality(Spinners(m) \cup {t}) = Cardinality(Spinners(m)) + 1
  BY <1>2, <1>4, FS_AddElement
<1>5. ASSUME NEW t, t \in Spinners(m)
      PROVE  Cardinality(Spinners(m) \ {t}) = Cardinality(Spinners(m)) - 1
  BY <1>2, <1>5, FS_RemoveElement
<1> QED  BY <1>2, <1>3, <1>4, <1>5

\* An attempt by a thread that is counted once in w keeps the count.
LEMMA AttemptCounts ==
  ASSUME IInv, WaitersCounted, NEW t \in Thread, NEW m \in Mutex,
         NEW blocking \in BOOLEAN, NEW w \in Int,
         \/ pc[t] = "idle" /\ w = waitingThreads[m] + 1
         \/ pc[t] = "spin" /\ arg[t] = m /\ blocking = TRUE /\ w = waitingThreads[m],
         arg' = [arg EXCEPT ![t] = m], Attempt(t, m, blocking, w)
  PROVE  WaitersCounted'
<1> USE DEF IInv, MutexInv
<1> SUFFICES ASSUME NEW k \in Mutex
             PROVE  waitingThreads'[k] >= Cardinality(Spinners(k)')
  BY DEF WaitersCounted
<1>1. /\ waitingThreads[k] >= Cardinality(Spinners(k)) /\ waitingThreads[k] \in Int
      /\ IsFiniteSet(Spinners(k)) /\ Cardinality(Spinners(k)) \in Nat
  BY SpinnersCount DEF WaitersCounted
<1>2. ASSUME NEW l, pc' = [pc EXCEPT ![t] = l]
      PROVE  Spinners(k)' = IF k = m /\ l = "spin" THEN Spinners(k) \cup {t}
                            ELSE Spinners(k) \ {t}
  BY <1>2 DEF Spinners
<1>3. t \in Spinners(k) <=> pc[t] = "spin" /\ arg[t] = k
  BY DEF Spinners
<1>4. /\ t \notin Spinners(k) =>
           /\ Cardinality(Spinners(k) \cup {t}) = Cardinality(Spinners(k)) + 1
           /\ Spinners(k) \ {t} = Spinners(k)
      /\ t \in Spinners(k) =>
           /\ Cardinality(Spinners(k) \ {t}) = Cardinality(Spinners(k)) - 1
           /\ Spinners(k) \cup {t} = Spinners(k)
  BY SpinnersCount
<1> DEFINE c == Cardinality(Spinners(k))
           l == IF m_locked[m] /\ blocking THEN "spin" ELSE "idle"
<1>5. /\ pc' = [pc EXCEPT ![t] = l]
      /\ waitingThreads' = [waitingThreads EXCEPT ![m] = IF m_locked[m] THEN w ELSE w - 1]
  BY DEF Attempt
<1>6. CASE k # m
  <2>1. t \notin Spinners(k)
    BY <1>3, <1>6
  <2>2. Spinners(k)' = Spinners(k)
    BY <1>2, <1>4, <1>5, <1>6, <2>1
  <2>3. waitingThreads'[k] = waitingThreads[k]
    BY <1>5, <1>6
  <2> QED  BY <1>1, <2>2, <2>3
<1>7. CASE k = m /\ pc[t] = "idle"
  <2>1. t \notin Spinners(k) /\ w = waitingThreads[k] + 1
    BY <1>3, <1>7
  <2>2. waitingThreads'[k] = IF m_locked[m] THEN w ELSE w - 1
    BY <1>5, <1>7
  <2>3. CASE l = "spin"
    <3>1. Cardinality(Spinners(k)') = c + 1
      BY <1>2, <1>4, <1>5, <1>7, <2>1, <2>3
    <3>2. m_locked[m]
      BY <2>3
    <3> HIDE DEF l, c
    <3> QED  BY <1>1, <2>1, <2>2, <3>1, <3>2 DEF c
  <2>4. CASE l # "spin"
    <3>1. Spinners(k)' = Spinners(k)
      BY <1>2, <1>4, <1>5, <1>7, <2>1, <2>4
    <3> HIDE DEF l
    <3> QED  BY <1>1, <2>1, <2>2, <3>1
  <2> QED  BY <2>3, <2>4
<1>8. CASE k = m /\ pc[t] = "spin"
  <2>1. t \in Spinners(k) /\ w = waitingThreads[k] /\ blocking = TRUE
    BY <1>3, <1>8
  <2>2. waitingThreads'[k] = IF m_locked[m] THEN w ELSE w - 1
    BY <1>5, <1>8
  <2>3. CASE l = "spin"
    <3>1. Spinners(k)' = Spinners(k)
      BY <1>2, <1>4, <1>5, <1>8, <2>1, <2>3
    <3>2. m_locked[m]
      BY <2>3
    <3> HIDE DEF l
    <3> QED  BY <1>1, <2>1, <2>2, <3>1, <3>2
  <2>4. CASE l # "spin"
    <3>1. Cardinality(Spinners(k)') = c - 1
      BY <1>2, <1>4, <1>5, <1>8, <2>1, <2>4
    <3>2. ~m_locked[m]
      BY <2>1, <2>4
    <3> HIDE DEF l, c
    <3> QED  BY <1>1, <2>1, <2>2, <3>1, <3>2 DEF c
  <2> QED  BY <2>3, <2>4
<1> QED  BY <1>6, <1>7, <1>8

\* The counter that release() tests never falls below the number of threads
\* that spin for the mutex, so that a boost they caused is not overlooked
\* while they still wait.
THEOREM WaitersAreCounted == Spec => []WaitersCounted
<1> USE MutexAssumption
<1>1. Init => WaitersCounted
  <2> SUFFICES ASSUME Init, NEW m \in Mutex
               PROVE  waitingThreads[m] >= Cardinality(Spinners(m))
    BY DEF WaitersCounted
  <2>1. Spinners(m) = {}
    BY DEF Init, Spinners
  <2>2. Cardinality(Spinners(m)) = 0
    BY <2>1, FS_EmptySet
  <2> QED  BY <2>2 DEF Init
<1>2. IInv /\ WaitersCounted /\ [Next]_vars => WaitersCounted'
  <2> SUFFICES ASSUME IInv, WaitersCounted, [Next]_vars  PROVE WaitersCounted'
    OBVIOUS
  <2>1. ASSUME NEW t \in Thread, NEW m \in Mutex, NEW blocking \in BOOLEAN,
               AcquireBegin(t, m, blocking)
        PROVE  WaitersCounted'
    <3>1. waitingThreads[m] + 1 \in Int
      <4>1. waitingThreads \in [Mutex -> Int]
        BY DEF IInv, MutexInv
      <4> QED  BY <4>1
    <3> QED  BY <2>1, <3>1, AttemptCounts DEF AcquireBegin, At
  <2>2. ASSUME NEW t \in Thread, Spin(t)  PROVE WaitersCounted'
    <3>1. /\ pc[t] = "spin" /\ arg[t] \in Mutex
          /\ Attempt(t, arg[t], TRUE, waitingThreads[arg[t]])
      BY <2>2 DEF Spin, At, IInv, MutexInv, CallHasMutex
    <3>2. arg' = [arg EXCEPT ![t] = arg[t]] /\ waitingThreads[arg[t]] \in Int
      BY <2>2, <3>1 DEF Spin, IInv, MutexInv
    <3> QED  BY <3>1, <3>2, AttemptCounts
  <2>3. ASSUME waitingThreads' = waitingThreads,
               \A m \in Mutex : Spinners(m)' = Spinners(m)
        PROVE  WaitersCounted'
    BY <2>3 DEF WaitersCounted
  <2>4. ASSUME NEW t \in Thread, NEW m \in Mutex, Release(t, m)  PROVE WaitersCounted'
    BY <2>3, <2>4 DEF Release, At, Spinners, IInv, MutexInv
  <2>5. ASSUME NEW t \in Thread, PopBegin(t) \/ PopEnd(t)  PROVE WaitersCounted'
    <3>1. /\ pc[t] \in {"released", "pop"} /\ UNCHANGED <<waitingThreads, arg>>
          /\ \E l \in {"idle", "pop"} : pc' = [pc EXCEPT ![t] = l]
      BY <2>5 DEF PopBegin, PopEnd, At, mutexVars
    <3> QED  BY <2>3, <3>1 DEF Spinners, IInv, MutexInv
  <2>6. CASE UNCHANGED <<pc, arg, mutexVars>>
    BY <2>3, <2>6 DEF mutexVars, Spinners
  <2>7. CASE Preempt \/ (\E t \in Thread : Wake(t) \/ Sleep(t)) \/ UNCHANGED vars
    BY <2>6, <2>7 DEF Preempt, Wake, Sleep, vars
  <2>8. TRUE \in BOOLEAN /\ FALSE \in BOOLEAN
    OBVIOUS
  <2> QED  BY <2>1, <2>2, <2>4, <2>5, <2>7, <2>8 DEF Next
<1> QED  BY <1>1, <1>2, Invariant, PTL DEF Spec

-----------------------------------------------------------------------------
(***************************************************************************)
(* An inherited priority ends.  A slot is the record of a boost; what has  *)
(* to be shown is that a thread above its own priority has a slot to give  *)
(* back, that the mutex of the slot is still to be released, and that      *)
(* release() then finds waitingThreads positive.                           *)
(***************************************************************************)

\* Threads that call release() with interrupts disabled.
UserThreads == Thread \ KernelThreads

\* Those of them whose mutexes no other thread has released.
Undisturbed == UserThreads \ robbed

\* Their release() is not preempted.
ReleaseRuns ==
  \A t \in UserThreads : pc[t] \in {"released", "pop"} => cur = t

\* A slot belongs to a mutex that the thread holds or is about to give its
\* slots up for, and somebody is counted as waiting for it.
SlotsCounted ==
  \A t \in Undisturbed : \A i \in Slots : ref[t][i] # None =>
    /\ m_pThread[ref[t][i]] = t \/ (pc[t] = "released" /\ arg[t] = ref[t][i])
    /\ waitingThreads[ref[t][i]] > 0

\* p is the thread's own priority, or the thread has a slot.
OwnOrSlot(t, p) == p = Priority[t] \/ \E i \in Slots : ref[t][i] # None

\* A boosted thread has a slot; in the middle of popPriority this is said of
\* the priority it is about to get, which is not taken for "none".
BoostHasSlot ==
  \A t \in Undisturbed :
    /\ pc[t] # "pop" => OwnOrSlot(t, effectivePriority[t])
    /\ pc[t] = "pop" => OwnOrSlot(t, highestPrio[t]) /\ highestPrio[t] > 0

BoostInv == ReleaseRuns /\ SlotsCounted /\ BoostHasSlot

\* What BoostEnds says of a thread, for the threads it can be said of.
UserBoostEnds ==
  \A t \in Undisturbed :
    Held(t) = {} /\ pc[t] \in {"idle", "spin"} => effectivePriority[t] = Priority[t]

\* There are slots, and no thread has priority 0, which popPriority takes for
\* "no priority".
BoostAssumption == MAX_PIP_PRIORITIES >= 1 /\ \A t \in Thread : Priority[t] > 0

\* pushPriority changes one thread; it fills a slot with the mutex, or finds
\* all of them taken, or leaves the priority as it is.
LEMMA PushSlots ==
  ASSUME IInv, MAX_PIP_PRIORITIES >= 1, NEW h \in Thread, NEW p \in Nat,
         NEW m \in Mutex, PushPriority(h, p, m)
  PROVE  /\ \A u \in Thread : u # h =>
              ref'[u] = ref[u] /\ effectivePriority'[u] = effectivePriority[u]
         /\ \A i \in Slots : ref'[h][i] # ref[h][i] => ref[h][i] = None /\ ref'[h][i] = m
         /\ \/ effectivePriority'[h] = effectivePriority[h]
            \/ \E i \in Slots : ref'[h][i] # None
<1> USE MutexAssumption
<1>1. /\ effectivePriority \in [Thread -> Nat]
      /\ ref \in [Thread -> [Slots -> Mutex \cup {None}]]
  BY DEF IInv, MutexInv
<1>2. CASE p <= effectivePriority[h]
  BY <1>2 DEF PushPriority, prioVars
<1>3. CASE ~(p <= effectivePriority[h])
  <2> DEFINE free == {i \in Slots : ref[h][i] = None}
             first == CHOOSE i \in free : \A j \in free : i <= j
  <2>1. /\ IF free = {} THEN ref' = ref ELSE ref' = [ref EXCEPT ![h][first] = m]
        /\ effectivePriority' = [effectivePriority EXCEPT ![h] = p]
    BY <1>3 DEF PushPriority
  <2>2. \A u \in Thread : u # h => effectivePriority'[u] = effectivePriority[u]
    BY <1>1, <2>1
  <2>3. CASE free = {}
    <3>1. 1 \in Slots
      BY DEF Slots
    <3>2. ref[h][1] # None
      BY <2>3, <3>1
    <3> QED  BY <2>1, <2>2, <2>3, <3>1, <3>2
  <2>4. CASE free # {}
    <3>1. free \subseteq 1..MAX_PIP_PRIORITIES
      BY DEF Slots
    <3>2. \E i \in free : \A j \in free : i <= j
      BY <2>4, <3>1, MinExists
    <3>3. first \in free
      BY <3>2
    <3>4. first \in Slots /\ ref[h][first] = None
      BY <3>3
    <3> HIDE DEF free, first
    <3>5. ref' = [ref EXCEPT ![h] = [ref[h] EXCEPT ![first] = m]]
      BY <1>1, <2>1, <2>4
    <3>6. /\ \A u \in Thread : u # h => ref'[u] = ref[u]
          /\ ref'[h] = [ref[h] EXCEPT ![first] = m]
      BY <1>1, <3>5
    <3>7. ref[h] \in [Slots -> Mutex \cup {None}]
      BY <1>1
    <3>8. ref'[h][first] = m /\ \A i \in Slots : i # first => ref'[h][i] = ref[h][i]
      BY <3>4, <3>6, <3>7
    <3>9. m # None
      OBVIOUS
    <3> QED  BY <2>2, <3>4, <3>6, <3>8, <3>9
  <2> QED  BY <2>3, <2>4
<1> QED  BY <1>2, <1>3

\* An attempt, by the running thread, to get a mutex it does not hold.
LEMMA AttemptBoosts ==
  ASSUME IInv, BoostInv, BoostAssumption, NEW t \in Thread, NEW m \in Mutex,
         NEW blocking \in BOOLEAN, NEW w \in Int,
         w > 0, w >= waitingThreads[m], cur = t, pc[t] \in {"idle", "spin"},
         m_pThread[m] # t, \A x \in Thread : x # t => arg'[x] = arg[x],
         Attempt(t, m, blocking, w), UNCHANGED <<cur, robbed, highestPrio>>
  PROVE  BoostInv'
<1> USE MutexAssumption DEF IInv, MutexInv
<1>1. UserThreads \subseteq Thread /\ Undisturbed \subseteq UserThreads
      /\ Undisturbed' = Undisturbed
  BY DEF UserThreads, Undisturbed
<1>2. CASE ~m_locked[m]
  <2>1. /\ m_pThread' = [m_pThread EXCEPT ![m] = t]
        /\ waitingThreads' = [waitingThreads EXCEPT ![m] = w - 1]
        /\ pc' = [pc EXCEPT ![t] = "idle"]
        /\ UNCHANGED <<effectivePriority, ref, priorities>>
    BY <1>2 DEF Attempt, prioVars
  <2>2. \A u \in Undisturbed : \A i \in Slots : ref[u][i] # m
    <3> SUFFICES ASSUME NEW u \in Undisturbed, NEW i \in Slots, ref[u][i] = m
                 PROVE  FALSE
      OBVIOUS
    <3>1. m_pThread[m] = None /\ m # None
      BY <1>2 DEF LockedIffHeld
    <3>2. pc[u] = "released"
      BY <1>1, <3>1 DEF BoostInv, SlotsCounted
    <3>3. u = t
      BY <1>1, <3>2 DEF BoostInv, ReleaseRuns
    <3> QED  BY <3>2, <3>3
  <2>3. ReleaseRuns'
    BY <1>1, <2>1 DEF BoostInv, ReleaseRuns
  <2>4. SlotsCounted'
    <3> SUFFICES ASSUME NEW u \in Undisturbed, NEW i \in Slots, ref[u][i] # None
                 PROVE  /\ \/ m_pThread'[ref[u][i]] = u
                           \/ pc'[u] = "released" /\ arg'[u] = ref[u][i]
                        /\ waitingThreads'[ref[u][i]] > 0
      BY <1>1, <2>1 DEF SlotsCounted
    <3>1. ref[u][i] \in Mutex /\ ref[u][i] # m
      BY <1>1, <2>2
    <3>2. m_pThread'[ref[u][i]] = m_pThread[ref[u][i]]
          /\ waitingThreads'[ref[u][i]] = waitingThreads[ref[u][i]]
      BY <2>1, <3>1
    <3>3. pc[u] = "released" => u # t
      OBVIOUS
    <3> QED  BY <1>1, <2>1, <3>2, <3>3 DEF BoostInv, SlotsCounted
  <2>5. BoostHasSlot'
    BY <1>1, <2>1 DEF BoostInv, BoostHasSlot, OwnOrSlot
  <2> QED  BY <2>3, <2>4, <2>5 DEF BoostInv
<1>3. CASE m_locked[m]
  <2> DEFINE h == m_pThread[m]
  <2>1. /\ PushPriority(h, effectivePriority[t] + 1, m)
        /\ waitingThreads' = [waitingThreads EXCEPT ![m] = w]
        /\ pc' = [pc EXCEPT ![t] = IF blocking THEN "spin" ELSE "idle"]
        /\ UNCHANGED <<m_locked, m_pThread>>
    BY <1>3 DEF Attempt
  <2>2. h \in Thread /\ h # t /\ effectivePriority[t] + 1 \in Nat
    BY <1>3 DEF LockedIffHeld
  <2>3. /\ \A u \in Thread : u # h =>
             ref'[u] = ref[u] /\ effectivePriority'[u] = effectivePriority[u]
        /\ \A i \in Slots : ref'[h][i] # ref[h][i] => ref[h][i] = None /\ ref'[h][i] = m
        /\ \/ effectivePriority'[h] = effectivePriority[h]
           \/ \E i \in Slots : ref'[h][i] # None
    BY <2>1, <2>2, PushSlots DEF BoostAssumption
  <2>4. ReleaseRuns'
    BY <1>1, <2>1 DEF BoostInv, ReleaseRuns
  <2>5. SlotsCounted'
    <3> SUFFICES ASSUME NEW u \in Undisturbed, NEW i \in Slots, ref'[u][i] # None
                 PROVE  /\ \/ m_pThread'[ref'[u][i]] = u
                           \/ pc'[u] = "released" /\ arg'[u] = ref'[u][i]
                        /\ waitingThreads'[ref'[u][i]] > 0
      BY <1>1 DEF SlotsCounted
    <3>1. CASE ref'[u][i] = ref[u][i]
      <4>1. ref[u][i] \in Mutex /\ ref[u][i] # None
        BY <1>1, <3>1
      <4>2. /\ m_pThread[ref[u][i]] = u \/ (pc[u] = "released" /\ arg[u] = ref[u][i])
            /\ waitingThreads[ref[u][i]] > 0
        BY <4>1 DEF BoostInv, SlotsCounted
      <4>3. waitingThreads'[ref[u][i]] > 0
        BY <2>1, <4>1, <4>2
      <4>4. pc[u] = "released" => pc'[u] = "released" /\ arg'[u] = arg[u]
        BY <1>1, <2>1
      <4> QED  BY <2>1, <3>1, <4>2, <4>3, <4>4
    <3>2. CASE ref'[u][i] # ref[u][i]
      <4>1. u = h /\ ref'[u][i] = m
        BY <1>1, <2>3, <3>2
      <4> QED  BY <2>1, <4>1
    <3> QED  BY <3>1, <3>2
  <2>6. BoostHasSlot'
    <3> SUFFICES ASSUME NEW u \in Undisturbed
                 PROVE  /\ pc'[u] # "pop" => OwnOrSlot(u, effectivePriority[u])'
                        /\ pc'[u] = "pop" => OwnOrSlot(u, highestPrio[u])' /\ highestPrio'[u] > 0
      BY <1>1 DEF BoostHasSlot
    <3>1. \A p : OwnOrSlot(u, p) => OwnOrSlot(u, p)'
      <4>1. ASSUME NEW i \in Slots, ref[u][i] # None  PROVE ref'[u][i] # None
        BY <1>1, <2>2, <2>3, <4>1
      <4> QED  BY <4>1 DEF OwnOrSlot
    <3>2. pc'[u] = "pop" <=> pc[u] = "pop"
      BY <1>1, <2>1
    <3>3. OwnOrSlot(u, effectivePriority[u]) => OwnOrSlot(u, effectivePriority[u])'
      BY <1>1, <2>3, <3>1 DEF OwnOrSlot
    <3> QED  BY <3>1, <3>2, <3>3 DEF BoostInv, BoostHasSlot
  <2> QED  BY <2>4, <2>5, <2>6 DEF BoostInv
<1> QED  BY <1>2, <1>3

\* The critical section of release(): the slots of the mutex wait for
\* popPriority now.
LEMMA ReleaseBoosts ==
  ASSUME IInv, BoostInv, NEW t \in Thread, NEW m \in Mutex, Release(t, m)
  PROVE  BoostInv'
<1> USE MutexAssumption DEF IInv, MutexInv
<1>1. UserThreads \subseteq Thread /\ Undisturbed \subseteq UserThreads
      /\ Undisturbed' \subseteq Undisturbed
  BY DEF UserThreads, Undisturbed, Release
<1>2. /\ cur = t /\ pc[t] = "idle"
      /\ m_pThread' = [m_pThread EXCEPT ![m] = None]
      /\ pc' = [pc EXCEPT ![t] = "released"]
      /\ arg' = [arg EXCEPT ![t] = m]
      /\ UNCHANGED <<cur, waitingThreads, effectivePriority, ref, highestPrio>>
  BY DEF Release, At, schedVars, prioVars
<1>3. ReleaseRuns'
  BY <1>1, <1>2 DEF BoostInv, ReleaseRuns
<1>4. SlotsCounted'
  <2> SUFFICES ASSUME NEW u \in Undisturbed', NEW i \in Slots, ref[u][i] # None
               PROVE  /\ \/ m_pThread'[ref[u][i]] = u
                         \/ pc'[u] = "released" /\ arg'[u] = ref[u][i]
                      /\ waitingThreads'[ref[u][i]] > 0
    BY <1>2 DEF SlotsCounted
  <2>0. u \in Undisturbed /\ u \in UserThreads /\ u \in Thread
    BY <1>1
  <2>1. ref[u][i] \in Mutex
    BY <2>0
  <2>2. pc[u] # "released"
    BY <1>2, <2>0 DEF BoostInv, ReleaseRuns
  <2>3. m_pThread[ref[u][i]] = u /\ waitingThreads[ref[u][i]] > 0
    BY <2>0, <2>2 DEF BoostInv, SlotsCounted
  <2>4. CASE ref[u][i] = m
    <3>1. u = t
      BY <2>0, <2>3, <2>4 DEF Release, Robs, Undisturbed
    <3> QED  BY <1>2, <2>3, <2>4, <3>1
  <2>5. CASE ref[u][i] # m
    BY <1>2, <2>1, <2>3, <2>5
  <2> QED  BY <2>4, <2>5
<1>5. BoostHasSlot'
  BY <1>1, <1>2 DEF BoostInv, BoostHasSlot, OwnOrSlot
<1> QED  BY <1>3, <1>4, <1>5 DEF BoostInv

\* The first half of popPriority frees the slots of the mutex; the priority it
\* settles on is the thread's own or belongs to a slot that is left.  If it is
\* not called, there was no slot of the mutex.
LEMMA PopBeginBoosts ==
  ASSUME IInv, BoostInv, BoostAssumption, NEW t \in Thread, PopBegin(t)
  PROVE  BoostInv'
<1> USE MutexAssumption
<1>1. UserThreads \subseteq Thread /\ Undisturbed \subseteq UserThreads
      /\ Undisturbed' = Undisturbed
  BY DEF UserThreads, Undisturbed, PopBegin, PopEnd, mutexVars
<1>2. /\ cur = t /\ pc[t] = "released" /\ arg[t] \in Mutex
      /\ UNCHANGED <<cur, arg, m_pThread, waitingThreads, effectivePriority>>
  BY DEF PopBegin, At, schedVars, mutexVars, IInv, MutexInv, CallHasMutex
<1>3. /\ ref \in [Thread -> [Slots -> Mutex \cup {None}]]
      /\ highestPrio \in [Thread -> Nat]
      /\ pc \in [Thread -> {"idle", "spin", "released", "pop"}]
  BY DEF IInv, MutexInv
<1> DEFINE r == [i \in Slots |-> IF i \in MySlots(t) THEN None ELSE ref[t][i]]
<1>4. CASE /\ ref' = [ref EXCEPT ![t] = r]
           /\ highestPrio' = [highestPrio EXCEPT ![t] = HighestOther(t)]
           /\ pc' = [pc EXCEPT ![t] = "pop"]
  <2>1. ref'[t] = r /\ \A u \in Thread : u # t => ref'[u] = ref[u]
    BY <1>3, <1>4
  <2>2. \A i \in Slots : ref'[t][i] # None =>
          i \notin MySlots(t) /\ ref'[t][i] = ref[t][i] /\ ref[t][i] # arg[t]
    BY <2>1 DEF MySlots
  <2>3. \A i \in OtherSlots(t) : i \in Slots /\ ref'[t][i] = ref[t][i] /\ ref[t][i] # None
    BY <2>1 DEF OtherSlots
  <2> HIDE DEF r
  <2>4. ReleaseRuns'
    BY <1>1, <1>2, <1>3, <1>4 DEF BoostInv, ReleaseRuns
  <2>5. SlotsCounted'
    <3> SUFFICES ASSUME NEW u \in Undisturbed, NEW i \in Slots, ref'[u][i] # None
                 PROVE  /\ \/ m_pThread[ref'[u][i]] = u
                           \/ pc'[u] = "released" /\ arg[u] = ref'[u][i]
                        /\ waitingThreads[ref'[u][i]] > 0
      BY <1>1, <1>2 DEF SlotsCounted
    <3>1. ref'[u][i] = ref[u][i] /\ (u = t => ref[u][i] # arg[t])
      BY <1>1, <2>1, <2>2
    <3>2. u # t => pc'[u] = pc[u]
      BY <1>1, <1>3, <1>4
    <3> QED  BY <3>1, <3>2 DEF BoostInv, SlotsCounted
  <2>6. BoostHasSlot'
    <3> SUFFICES ASSUME NEW u \in Undisturbed
                 PROVE  /\ pc'[u] # "pop" => OwnOrSlot(u, effectivePriority[u])'
                        /\ pc'[u] = "pop" => OwnOrSlot(u, highestPrio[u])' /\ highestPrio'[u] > 0
      BY <1>1 DEF BoostHasSlot
    <3>1. CASE u # t
      <4>1. ref'[u] = ref[u] /\ pc'[u] = pc[u] /\ highestPrio'[u] = highestPrio[u]
        BY <1>1, <1>3, <1>4, <2>1, <3>1
      <4> QED  BY <1>2, <4>1 DEF BoostInv, BoostHasSlot, OwnOrSlot
    <3>2. CASE u = t
      <4>1. pc'[t] = "pop" /\ highestPrio'[t] = HighestOther(t)
        BY <1>3, <1>4
      <4>2. /\ HighestOther(t) \in OtherPriorities(t)
            /\ HighestOther(t) \in Nat /\ HighestOther(t) >= Priority[t]
        BY HighestOtherBounds
      <4>3. HighestOther(t) > 0
        BY <4>2 DEF BoostAssumption
      <4>4. HighestOther(t) = Priority[t] \/ \E i \in OtherSlots(t) : TRUE
        BY <4>2 DEF OtherPriorities
      <4>5. OwnOrSlot(t, highestPrio[t])'
        BY <2>3, <4>1, <4>4 DEF OwnOrSlot
      <4> QED  BY <3>2, <4>1, <4>3, <4>5
    <3> QED  BY <3>1, <3>2
  <2> QED  BY <2>4, <2>5, <2>6 DEF BoostInv
<1>5. CASE /\ ~(waitingThreads[arg[t]] > 0 /\ MySlots(t) # {})
           /\ pc' = [pc EXCEPT ![t] = "idle"]
           /\ UNCHANGED <<ref, priorities, highestPrio>>
  <2>1. t \in Undisturbed => \A i \in Slots : ref[t][i] # arg[t]
    BY <1>2, <1>5 DEF BoostInv, SlotsCounted, MySlots
  <2>2. ReleaseRuns'
    BY <1>1, <1>2, <1>3, <1>5 DEF BoostInv, ReleaseRuns
  <2>3. SlotsCounted'
    <3> SUFFICES ASSUME NEW u \in Undisturbed, NEW i \in Slots, ref[u][i] # None
                 PROVE  /\ \/ m_pThread[ref[u][i]] = u
                           \/ pc'[u] = "released" /\ arg[u] = ref[u][i]
                        /\ waitingThreads[ref[u][i]] > 0
      BY <1>1, <1>2, <1>5 DEF SlotsCounted
    <3>1. u # t => pc'[u] = pc[u]
      BY <1>1, <1>3, <1>5
    <3> QED  BY <2>1, <3>1 DEF BoostInv, SlotsCounted
  <2>4. BoostHasSlot'
    <3>1. \A u \in Undisturbed : pc'[u] # pc[u] => u = t /\ pc'[u] = "idle"
      BY <1>1, <1>3, <1>5
    <3> QED  BY <1>1, <1>2, <1>5, <3>1 DEF BoostInv, BoostHasSlot, OwnOrSlot
  <2> QED  BY <2>2, <2>3, <2>4 DEF BoostInv
<1> QED  BY <1>4, <1>5, PopBeginCases

\* The second half sets the priority.
LEMMA PopEndBoosts ==
  ASSUME IInv, BoostInv, NEW t \in Thread, PopEnd(t)
  PROVE  BoostInv'
<1> USE MutexAssumption DEF IInv, MutexInv
<1>1. UserThreads \subseteq Thread /\ Undisturbed \subseteq UserThreads
      /\ Undisturbed' = Undisturbed
  BY DEF UserThreads, Undisturbed, PopBegin, PopEnd, mutexVars
<1>2. /\ cur = t /\ pc[t] = "pop" /\ pc' = [pc EXCEPT ![t] = "idle"]
      /\ highestPrio' = [highestPrio EXCEPT ![t] = 0]
      /\ highestPrio[t] # 0 =>
           effectivePriority' = [effectivePriority EXCEPT ![t] = highestPrio[t]]
      /\ highestPrio[t] = 0 => UNCHANGED effectivePriority
      /\ UNCHANGED <<cur, arg, m_pThread, waitingThreads, ref>>
  BY DEF PopEnd, At, mutexVars
<1>3. ReleaseRuns'
  BY <1>1, <1>2 DEF BoostInv, ReleaseRuns
<1>4. SlotsCounted'
  BY <1>1, <1>2 DEF BoostInv, SlotsCounted
<1>5. BoostHasSlot'
  <2> SUFFICES ASSUME NEW u \in Undisturbed
               PROVE  /\ pc'[u] # "pop" => OwnOrSlot(u, effectivePriority[u])'
                      /\ pc'[u] = "pop" => OwnOrSlot(u, highestPrio[u])' /\ highestPrio'[u] > 0
    BY <1>1 DEF BoostHasSlot
  <2>1. CASE u # t
    <3>1. /\ pc'[u] = pc[u] /\ highestPrio'[u] = highestPrio[u]
          /\ effectivePriority'[u] = effectivePriority[u]
      BY <1>1, <1>2, <2>1
    <3> QED  BY <1>2, <3>1 DEF BoostInv, BoostHasSlot, OwnOrSlot
  <2>2. CASE u = t
    <3>1. OwnOrSlot(t, highestPrio[t]) /\ highestPrio[t] > 0
      BY <1>2, <2>2 DEF BoostInv, BoostHasSlot
    <3>2. pc'[t] = "idle" /\ effectivePriority'[t] = highestPrio[t]
      BY <1>2, <3>1
    <3> QED  BY <1>2, <2>2, <3>1, <3>2 DEF OwnOrSlot
  <2> QED  BY <2>1, <2>2
<1> QED  BY <1>3, <1>4, <1>5 DEF BoostInv

\* The CPU is given away only outside release(), or by kernel threads.
LEMMA SwitchBoosts ==
  ASSUME IInv, BoostInv, InterruptsEnabled,
         UNCHANGED <<pc, arg, mutexVars, prioVars, highestPrio>>
  PROVE  BoostInv'
<1>1. \A u \in UserThreads : u # None /\ u \notin KernelThreads
  BY MutexAssumption DEF UserThreads
<1>2. \A u \in UserThreads : pc[u] \notin {"released", "pop"}
  BY <1>1 DEF BoostInv, ReleaseRuns, InterruptsEnabled
<1> QED
  BY <1>2 DEF BoostInv, ReleaseRuns, SlotsCounted, BoostHasSlot, OwnOrSlot, Undisturbed,
               mutexVars, prioVars

\* Every step keeps the relation between boosts, slots and waiting threads.
LEMMA BoostKeeps ==
  ASSUME BoostAssumption
  PROVE  IInv /\ WaitersCounted /\ BoostInv /\ [Next]_vars => BoostInv'
<1> SUFFICES ASSUME IInv, WaitersCounted, BoostInv, [Next]_vars  PROVE BoostInv'
  OBVIOUS
<1> USE MutexAssumption
<1>0. \A m \in Mutex : waitingThreads[m] \in Int /\ waitingThreads[m] >= 0
  <2>1. \A m \in Mutex : waitingThreads[m] \in Int
    BY DEF IInv, MutexInv
  <2>2. \A m \in Mutex : Cardinality(Spinners(m)) \in Nat
    BY SpinnersCount
  <2> QED  BY <2>1, <2>2 DEF WaitersCounted
<1>1. ASSUME NEW t \in Thread, NEW m \in Mutex, NEW blocking \in BOOLEAN,
             AcquireBegin(t, m, blocking)
      PROVE  BoostInv'
  <2>1. /\ cur = t /\ pc[t] = "idle" /\ m_pThread[m] # t
        /\ arg' = [arg EXCEPT ![t] = m]
        /\ Attempt(t, m, blocking, waitingThreads[m] + 1)
        /\ UNCHANGED <<cur, robbed, highestPrio>>
    <3>1. m \in Nat /\ ~(m < m)
      OBVIOUS
    <3> QED  BY <1>1, <3>1 DEF AcquireBegin, At, Held
  <2>2. \A x \in Thread : x # t => arg'[x] = arg[x]
    BY <2>1 DEF IInv, MutexInv
  <2>3. /\ waitingThreads[m] + 1 \in Int /\ waitingThreads[m] + 1 > 0
        /\ waitingThreads[m] + 1 >= waitingThreads[m]
    BY <1>0
  <2> QED  BY <2>1, <2>2, <2>3, AttemptBoosts
<1>2. ASSUME NEW t \in Thread, Spin(t)  PROVE BoostInv'
  <2>1. /\ cur = t /\ pc[t] = "spin" /\ arg[t] \in Mutex /\ m_pThread[arg[t]] # t
        /\ arg' = arg
        /\ Attempt(t, arg[t], TRUE, waitingThreads[arg[t]])
        /\ UNCHANGED <<cur, robbed, highestPrio>>
    BY <1>2 DEF Spin, At, IInv, MutexInv, CallHasMutex, SpinnerWaits
  <2>2. waitingThreads[arg[t]] \in Int /\ waitingThreads[arg[t]] > 0
    <3>1. t \in Spinners(arg[t])
      BY <2>1 DEF Spinners
    <3>2. /\ Cardinality(Spinners(arg[t])) - 1 \in Nat
          /\ Cardinality(Spinners(arg[t])) \in Nat
      <4>1. /\ IsFiniteSet(Spinners(arg[t]))
            /\ Cardinality(Spinners(arg[t])) \in Nat
            /\ Cardinality(Spinners(arg[t]) \ {t}) = Cardinality(Spinners(arg[t])) - 1
        BY <3>1, SpinnersCount
      <4>2. Cardinality(Spinners(arg[t]) \ {t}) \in Nat
        BY <4>1, FS_Subset, FS_CardinalityType
      <4> QED  BY <4>1, <4>2
    <3>3. waitingThreads[arg[t]] >= Cardinality(Spinners(arg[t]))
      BY <2>1 DEF WaitersCounted
    <3>4. waitingThreads[arg[t]] \in Int
      BY <1>0, <2>1
    <3> QED  BY <3>2, <3>3, <3>4
  <2>3. waitingThreads[arg[t]] >= waitingThreads[arg[t]]
    BY <2>2
  <2> QED  BY <2>1, <2>2, <2>3, AttemptBoosts
<1>3. ASSUME NEW t \in Thread, Wake(t)  PROVE BoostInv'
  BY <1>3, SwitchBoosts DEF Wake
<1>4. ASSUME NEW t \in Thread, Sleep(t)  PROVE BoostInv'
  BY <1>4, SwitchBoosts DEF Sleep, At, InterruptsEnabled
<1>5. CASE Preempt
  BY <1>5, SwitchBoosts DEF Preempt
<1>6. CASE UNCHANGED vars
  BY <1>6 DEF vars, schedVars, mutexVars, prioVars,
              BoostInv, ReleaseRuns, SlotsCounted, BoostHasSlot, OwnOrSlot, Undisturbed
<1> QED
  BY <1>1, <1>2, <1>3, <1>4, <1>5, <1>6, ReleaseBoosts, PopBeginBoosts, PopEndBoosts
     DEF Next

\* A thread that calls with interrupts disabled, holds no mutex and has lost
\* none to another thread's release() runs at its own priority, whatever the
\* kernel threads do.
LEMMA BoostInvSuffices == IInv /\ BoostInv => UserBoostEnds
<1> SUFFICES ASSUME IInv, BoostInv, NEW t \in Undisturbed, Held(t) = {},
                    pc[t] \in {"idle", "spin"}
             PROVE  effectivePriority[t] = Priority[t]
  BY DEF UserBoostEnds
<1>1. \A i \in Slots : ref[t][i] = None
  <2> SUFFICES ASSUME NEW i \in Slots, ref[t][i] # None  PROVE FALSE
    OBVIOUS
  <2>1. ref[t][i] \in Mutex
    BY DEF IInv, MutexInv, UserThreads, Undisturbed
  <2>2. m_pThread[ref[t][i]] = t
    BY DEF BoostInv, SlotsCounted
  <2> QED  BY <2>1, <2>2 DEF Held
<1> QED  BY <1>1 DEF BoostInv, BoostHasSlot, OwnOrSlot

\* An inherited priority ends with the last release() of a thread that calls
\* with interrupts disabled, also among kernel threads that are preempted
\* inside theirs, and among threads that release mutexes of others: only the
\* threads they take a mutex from keep what they have inherited.
THEOREM UserBoostsEnd ==
  ASSUME BoostAssumption
  PROVE  Spec => []UserBoostEnds
<1>1. Init => BoostInv
  BY MutexAssumption DEF Init, BoostInv, ReleaseRuns, SlotsCounted, BoostHasSlot,
                         OwnOrSlot, UserThreads, Undisturbed
<1>2. IInv /\ WaitersCounted /\ BoostInv /\ [Next]_vars => BoostInv'
  BY BoostKeeps
<1> QED
  BY <1>1, <1>2, BoostInvSuffices, Invariant, WaitersAreCounted, PTL DEF Spec

\* BoostEnds, if all threads use the mutexes through system calls, for any set
\* of Releasers.
THEOREM BoostsEnd ==
  ASSUME BoostAssumption, KernelThreads = {}
  PROVE  Spec => []BoostEnds
<1>1. UserBoostEnds => BoostEnds
  BY DEF UserBoostEnds, BoostEnds, UserThreads, Undisturbed
<1> QED  BY <1>1, UserBoostsEnd, PTL

-----------------------------------------------------------------------------
(***************************************************************************)
(* Inheritance and sleep.  pushPriority enters the holder of a mutex into  *)
(* the ready queue whatever list it is in, the sleep list included.  This  *)
(* cuts no sleep short if threads do not sleep while they hold a mutex:    *)
(* then no thread of the sleep list is the holder of anything.             *)
(***************************************************************************)

\* Threads that do not sleep as holders (outside MayNap) hold nothing there.
SleepersHoldNothing ==
  \A t \in Thread \ MayNap : t \in Members(lists, "sleep") => Held(t) = {}

\* What a step does to sleep, ownership and priorities: a thread enters the
\* sleep list only by Sleep, a mutex goes to the running thread only, and the
\* lists stay as they are then; a priority changes only for the running thread
\* and for holders.
SleepStep ==
  /\ \A x \in Members(lists', "sleep") :
       \/ x \in Members(lists, "sleep")
       \/ UNCHANGED m_pThread /\ (Held(x) = {} \/ x \in MayNap)
  /\ \A m \in Mutex : m_pThread'[m] \in {m_pThread[m], None, cur}
  /\ UNCHANGED m_pThread \/ UNCHANGED lists
  /\ \A x \in Thread :
       effectivePriority'[x] # effectivePriority[x] => x = cur \/ Held(x) # {}

\* Mutex::acquire moves nobody into the sleep list.
LEMMA AttemptSleeps ==
  ASSUME IInv, NEW m \in Mutex, NEW blocking, NEW w, cur \in Thread,
         Attempt(cur, m, blocking, w)
  PROVE  SleepStep
<1>1. /\ m_pThread \in [Mutex -> Thread \cup {None}] /\ LockedIffHeld
      /\ effectivePriority \in [Thread -> Nat]
      /\ lists \in [ListNames -> Seq(Thread)] /\ Disjoint(lists)
      /\ "sleep" \in ListNames
  BY DEF IInv, SchedInv, MutexInv, OnePlace, ListNames
<1>2. CASE ~m_locked[m]
  <2>1. m_pThread' = [m_pThread EXCEPT ![m] = cur] /\ UNCHANGED <<lists, effectivePriority>>
    BY <1>2 DEF Attempt, prioVars
  <2> QED  BY <1>1, <2>1 DEF SleepStep
<1>3. CASE m_locked[m]
  <2> DEFINE h == m_pThread[m]
             p == effectivePriority[cur] + 1
             e == [effectivePriority EXCEPT ![h] = p]
  <2>1. UNCHANGED m_pThread /\ PushPriority(h, p, m)
    BY <1>3 DEF Attempt
  <2>2. h \in Thread /\ Held(h) # {}
    BY <1>1, <1>3 DEF LockedIffHeld, Held
  <2>3. \/ UNCHANGED <<effectivePriority, lists>>
        \/ effectivePriority' = e /\ lists' = EnterReady(lists, h, e)
    BY <2>1 DEF PushPriority, prioVars
  <2>4. \A x \in Thread : effectivePriority'[x] # effectivePriority[x] => x = h
    BY <1>1, <2>3
  <2> HIDE DEF e, h
  <2>5. Members(lists', "sleep") \subseteq Members(lists, "sleep")
    <3>1. CASE lists' = lists
      BY <3>1
    <3>2. CASE lists' = EnterReady(lists, h, e)
      <4>1. Moved(Thread, lists, lists', h, "ready")
        BY <1>1, <2>2, <3>2, EnterReadyMoves
      <4> QED  BY <1>1, <4>1 DEF Moved
    <3> QED  BY <2>3, <3>1, <3>2
  <2> QED  BY <1>1, <2>1, <2>2, <2>4, <2>5 DEF SleepStep
<1> QED  BY <1>2, <1>3

\* dispatch() puts nobody to sleep.
LEMMA RunHeadSleeps ==
  ASSUME NEW L, Sound(L, effectivePriority), RunHead(L)
  PROVE  Members(lists', "sleep") \subseteq Members(L, "sleep")
<1>1. L \in [ListNames -> Seq(Thread)] /\ Disjoint(L) /\ "sleep" \in ListNames
  BY DEF Sound, ListNames
<1>2. CASE L["ready"] = <<>>
  BY <1>2 DEF RunHead
<1>3. CASE L["ready"] # <<>>
  <2>1. lists' = TakeHead(L)
    BY <1>3 DEF RunHead
  <2>2. Members(TakeHead(L), "sleep") = Members(L, "sleep") \ {Head(L["ready"])}
    BY <1>1, <1>3, TakeHeadLists
  <2> QED  BY <2>1, <2>2
<1> QED  BY <1>2, <1>3

\* A thread that dispatch() puts back was not asleep.
LEMMA ReinsertedSleeps ==
  ASSUME IInv
  PROVE  Members(Reinserted, "sleep") \subseteq Members(lists, "sleep")
<1>1. lists \in [ListNames -> Seq(Thread)] /\ Disjoint(lists) /\ "sleep" \in ListNames
  BY DEF IInv, SchedInv, OnePlace, ListNames
<1>2. CASE cur = None
  BY <1>2 DEF Reinserted
<1>3. CASE cur # None
  <2>1. cur \in Thread
    BY <1>3 DEF IInv, SchedInv
  <2>2. Moved(Thread, lists, EnterReady(lists, cur, effectivePriority), cur, "ready")
    BY <1>1, <2>1, EnterReadyMoves
  <2> QED  BY <1>1, <1>3, <2>2 DEF Moved, Reinserted
<1> QED  BY <1>2, <1>3

\* Every step is such a step.
LEMMA NextSleeps == ASSUME IInv, [Next]_vars  PROVE SleepStep
<1>1. /\ m_pThread \in [Mutex -> Thread \cup {None}] /\ effectivePriority \in [Thread -> Nat]
      /\ lists \in [ListNames -> Seq(Thread)] /\ Disjoint(lists) /\ "sleep" \in ListNames
  BY DEF IInv, SchedInv, MutexInv, OnePlace, ListNames
<1>2. ASSUME NEW t \in Thread, NEW m \in Mutex, NEW blocking, AcquireBegin(t, m, blocking)
      PROVE  SleepStep
  <2>1. cur = t /\ Attempt(t, m, blocking, waitingThreads[m] + 1)
    BY <1>2 DEF AcquireBegin, At
  <2> QED  BY <2>1, AttemptSleeps
<1>3. ASSUME NEW t \in Thread, Spin(t)  PROVE SleepStep
  <2>1. cur = t /\ arg[t] \in Mutex /\ Attempt(t, arg[t], TRUE, waitingThreads[arg[t]])
    BY <1>3 DEF Spin, At, IInv, MutexInv, CallHasMutex
  <2> QED  BY <2>1, AttemptSleeps
<1>4. ASSUME NEW t \in Thread, NEW m \in Mutex, Release(t, m)  PROVE SleepStep
  <2>1. m_pThread' = [m_pThread EXCEPT ![m] = None] /\ UNCHANGED <<lists, effectivePriority>>
    BY <1>4 DEF Release, schedVars, prioVars
  <2> QED  BY <1>1, <2>1 DEF SleepStep
<1>5. ASSUME UNCHANGED <<m_pThread, lists>>,
             \A x \in Thread : x # cur => effectivePriority'[x] = effectivePriority[x]
      PROVE  SleepStep
  BY <1>5 DEF SleepStep
<1>6. ASSUME NEW t \in Thread, PopBegin(t) \/ PopEnd(t)  PROVE SleepStep
  <2>1. /\ cur = t /\ UNCHANGED <<m_pThread, lists>>
        /\ effectivePriority' \in {effectivePriority,
                                   [effectivePriority EXCEPT ![t] = highestPrio[t]]}
    BY <1>6 DEF PopBegin, PopEnd, At, schedVars, mutexVars
  <2>2. \A x \in Thread : x # cur => effectivePriority'[x] = effectivePriority[x]
    BY <1>1, <2>1
  <2> QED  BY <1>5, <2>1, <2>2
<1>7. ASSUME UNCHANGED <<m_pThread, effectivePriority>>,
             \A x \in Members(lists', "sleep") :
               x \in Members(lists, "sleep") \/ Held(x) = {} \/ x \in MayNap
      PROVE  SleepStep
  BY <1>7 DEF SleepStep
<1>8. CASE Preempt
  <2>1. RunHead(Reinserted) /\ UNCHANGED <<m_pThread, effectivePriority>>
    BY <1>8 DEF Preempt, mutexVars, prioVars
  <2>2. Members(lists', "sleep") \subseteq Members(lists, "sleep")
    BY <2>1, ReinsertedSound, RunHeadSleeps, ReinsertedSleeps
  <2> QED  BY <1>7, <2>1, <2>2
<1>9. ASSUME NEW t \in Thread, Wake(t)  PROVE SleepStep
  <2> DEFINE L == EnterReady(Reinserted, t, effectivePriority)
  <2>1. RunHead(L) /\ UNCHANGED <<m_pThread, effectivePriority>>
    BY <1>9 DEF Wake, mutexVars, prioVars
  <2>2. Sound(Reinserted, effectivePriority)
    BY ReinsertedSound
  <2>3. Moved(Thread, Reinserted, L, t, "ready")
    BY <2>2, EnterReadyMoves DEF Sound
  <2>4. Descending(L["ready"], effectivePriority)
    BY <1>1, <2>2, EnterReadySorted DEF Sound
  <2>5. Sound(L, effectivePriority) /\ Members(L, "sleep") \subseteq Members(Reinserted, "sleep")
    BY <1>1, <2>2, <2>3, <2>4 DEF Sound, Moved
  <2> HIDE DEF L
  <2>6. Members(lists', "sleep") \subseteq Members(lists, "sleep")
    BY <2>1, <2>5, RunHeadSleeps, ReinsertedSleeps
  <2> QED  BY <1>7, <2>1, <2>6
<1>10. ASSUME NEW t \in Thread, Sleep(t)  PROVE SleepStep
  <2> DEFINE L == AddTail(lists, "sleep", t)
  <2>1. RunHead(L) /\ UNCHANGED <<m_pThread, effectivePriority>>
        /\ (Held(t) = {} \/ t \in MayNap)
    BY <1>10 DEF Sleep, mutexVars, prioVars
  <2>2. Sound(lists, effectivePriority) /\ "sleep" # "ready"
    BY DEF IInv, Sound, SchedInv, OnePlace, ReadySorted
  <2>3. Moved(Thread, lists, L, t, "sleep")
    BY <1>1, <2>2, AddTailMoves DEF Sound
  <2>4. Descending(L["ready"], effectivePriority)
    BY <1>1, <2>2, MoveKeepsSorted DEF Sound
  <2>5. Sound(L, effectivePriority)
        /\ Members(L, "sleep") \subseteq Members(lists, "sleep") \cup {t}
    BY <1>1, <2>2, <2>3, <2>4 DEF Sound, Moved
  <2> HIDE DEF L
  <2>6. Members(lists', "sleep") \subseteq Members(lists, "sleep") \cup {t}
    BY <2>1, <2>5, RunHeadSleeps
  <2> QED  BY <1>7, <2>1, <2>6
<1>11. CASE UNCHANGED vars
  BY <1>5, <1>11 DEF vars, schedVars, mutexVars, prioVars
<1> QED
  BY <1>2, <1>3, <1>4, <1>6, <1>8, <1>9, <1>10, <1>11 DEF Next

\* Threads that may not nap keep away from the sleep list while they hold.
LEMMA SleepersKeep == IInv /\ SleepersHoldNothing /\ [Next]_vars => SleepersHoldNothing'
<1> SUFFICES ASSUME IInv, SleepersHoldNothing, [Next]_vars,
                    NEW t \in Thread \ MayNap, t \in Members(lists', "sleep"),
                    NEW m \in Mutex, m_pThread'[m] = t
             PROVE  FALSE
  BY DEF SleepersHoldNothing, Held
<1>1. SleepStep
  BY NextSleeps
<1>2. t # None /\ Held(t) # {} => t \notin Members(lists, "sleep")
  BY MutexAssumption DEF SleepersHoldNothing
<1>3. CASE UNCHANGED m_pThread
  <2>1. Held(t) # {}
    BY <1>3 DEF Held
  <2> QED  BY <1>1, <1>2, <2>1, MutexAssumption DEF SleepStep
<1>4. CASE UNCHANGED lists
  <2>1. t \in Members(lists, "sleep") /\ m_pThread[m] # t
    BY <1>2, <1>4, MutexAssumption DEF Held
  <2>2. t # cur
    BY <2>1 DEF IInv, SchedInv, OnePlace, Listed, ListNames
  <2> QED  BY <1>1, <2>1, <2>2, MutexAssumption DEF SleepStep
<1> QED  BY <1>1, <1>3, <1>4 DEF SleepStep

\* The sleep of a thread that does not sleep as a holder ends at its time and
\* not by inheritance: its priority is the same when it leaves the sleep list.
SleepOfOthersLasts ==
  [][\A t \in Thread \ MayNap :
       t \in Members(lists, "sleep") /\ t \notin Members(lists', "sleep")
         => effectivePriority'[t] = effectivePriority[t]]_vars

\* PriorityThread::pushPriority: for any threads, mutexes, priorities and slots,
\* raising the priority of a holder ends the sleep of no thread that gives its
\* mutexes back before it sleeps, whatever other threads do.
THEOREM InheritanceLetsSleep == Spec => SleepOfOthersLasts
<1> DEFINE Lasts == \A t \in Thread \ MayNap :
                      t \in Members(lists, "sleep") /\ t \notin Members(lists', "sleep")
                        => effectivePriority'[t] = effectivePriority[t]
<1>1. Init => SleepersHoldNothing
  BY MutexAssumption DEF Init, SleepersHoldNothing, Held
<1>2. IInv /\ SleepersHoldNothing /\ [Next]_vars => SleepersHoldNothing'
  BY SleepersKeep
<1>3. IInv /\ SleepersHoldNothing /\ [Next]_vars => [Lasts]_vars
  <2> SUFFICES ASSUME IInv, SleepersHoldNothing, [Next]_vars,
                      NEW t \in Thread \ MayNap, t \in Members(lists, "sleep")
               PROVE  effectivePriority'[t] = effectivePriority[t]
    OBVIOUS
  <2>1. Held(t) = {}
    BY DEF SleepersHoldNothing
  <2>2. t # cur
    BY DEF IInv, SchedInv, OnePlace, Listed, ListNames
  <2> QED  BY <2>1, <2>2, NextSleeps DEF SleepStep
<1>4. SleepOfOthersLasts <=> [][Lasts]_vars
  BY DEF SleepOfOthersLasts
<1> HIDE DEF Lasts
<1> QED  BY <1>1, <1>2, <1>3, <1>4, Invariant, PTL DEF Spec

\* SleepLasts, if no thread sleeps while it holds a mutex; the run mutex_sleep
\* shows that it fails if one does.
THEOREM SleepsLast ==
  ASSUME MayNap = {}  PROVE Spec => SleepLasts
<1> DEFINE Lasts(T) == \A t \in T :
                         t \in Members(lists, "sleep") /\ t \notin Members(lists', "sleep")
                           => effectivePriority'[t] = effectivePriority[t]
<1>1. [Lasts(Thread \ MayNap)]_vars => [Lasts(Thread)]_vars
  OBVIOUS
<1>2. /\ SleepOfOthersLasts <=> [][Lasts(Thread \ MayNap)]_vars
      /\ SleepLasts <=> [][Lasts(Thread)]_vars
  BY DEF SleepOfOthersLasts, SleepLasts
<1> HIDE DEF Lasts
<1> QED  BY <1>1, <1>2, InheritanceLetsSleep, PTL
=============================================================================
