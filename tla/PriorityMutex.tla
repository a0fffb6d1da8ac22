--------------------------- MODULE PriorityMutex ---------------------------
(***************************************************************************)
(* Mutex::acquire and Mutex::release with the priority inheritance of      *)
(* PriorityThread::pushPriority and popPriority, on one CPU.               *)
(*                                                                         *)
(* A thread that finds a mutex taken does not leave the ready queue: it    *)
(* spins, and on every attempt lifts the holder above itself and raises a  *)
(* timer interrupt, so that the scheduler runs the holder next.  A step is *)
(* a stretch of code that runs with interrupts disabled; the dispatcher,   *)
(* specified by module Dispatcher, is one step here.                       *)
(***************************************************************************)
EXTENDS ThreadLists, FiniteSets

CONSTANTS
  Thread,              \* the threads that use the mutexes
  None,                \* no thread; no mutex
  Mutex,               \* mutexes, numbers that give the locking order
  Priority,            \* initialPriority of each thread
  MAX_PIP_PRIORITIES,  \* slots for inherited priorities per thread
  KernelThreads,       \* threads that call with interrupts enabled
  MayTry,              \* threads that also call acquire(res, false)
  MayNap,              \* threads that sleep while they hold a mutex
  Releasers,           \* <<t, m>>: t calls release() of m without holding it, too
  MaxRobbed            \* bound on the number of threads that lose a mutex that way

ASSUME MutexAssumption ==
  /\ IsFiniteSet(Thread)
  /\ None \notin Thread /\ None \notin Mutex
  /\ Mutex \subseteq Nat \ {0}
  /\ Priority \in [Thread -> Nat]
  /\ MAX_PIP_PRIORITIES \in Nat
  /\ KernelThreads \subseteq Thread
  /\ MayTry \subseteq Thread /\ MayNap \subseteq Thread
  /\ Releasers \subseteq Thread \X Mutex /\ MaxRobbed \in Nat

VARIABLES
  lists,              \* ready queue and sleep list of the dispatcher
  cur,                \* pCurrentRunningThread
  timer,              \* setTimer(1) has raised the timer interrupt
  pc,                 \* how far each thread is in acquire() or release()
  arg,                \* the mutex of that call
  m_locked, m_pThread, waitingThreads,
  robbed,             \* history: threads whose mutex another thread has released
  effectivePriority,
  ref, priorities,    \* the inheritance slots of each thread
  highestPrio         \* local of popPriority

schedVars == <<lists, cur, timer>>
mutexVars == <<m_locked, m_pThread, waitingThreads, robbed>>
prioVars == <<effectivePriority, ref, priorities>>
vars == <<schedVars, pc, arg, mutexVars, prioVars, highestPrio>>

Slots == 1..MAX_PIP_PRIORITIES

TypeOK ==
  /\ lists \in [ListNames -> Seq(Thread)]
  /\ cur \in Thread \cup {None}
  /\ timer \in BOOLEAN
  /\ pc \in [Thread -> {"idle", "spin", "released", "pop"}]
  /\ arg \in [Thread -> Mutex \cup {None}]
  /\ m_locked \in [Mutex -> BOOLEAN]
  /\ m_pThread \in [Mutex -> Thread \cup {None}]
  /\ waitingThreads \in [Mutex -> Int]
  /\ robbed \subseteq Thread
  /\ effectivePriority \in [Thread -> Nat]
  /\ ref \in [Thread -> [Slots -> Mutex \cup {None}]]
  /\ priorities \in [Thread -> [Slots -> Nat]]
  /\ highestPrio \in [Thread -> Nat]

\* All threads are asleep; the dispatcher has nothing to run yet.
Init ==
  /\ lists = [n \in ListNames |-> IF n = "sleep" THEN SetToSeq(Thread) ELSE <<>>]
  /\ cur = None
  /\ timer = FALSE
  /\ pc = [t \in Thread |-> "idle"]
  /\ arg = [t \in Thread |-> None]
  /\ m_locked = [m \in Mutex |-> FALSE]
  /\ m_pThread = [m \in Mutex |-> None]
  /\ waitingThreads = [m \in Mutex |-> 0]
  /\ robbed = {}
  /\ effectivePriority = Priority
  /\ ref = [t \in Thread |-> [i \in Slots |-> None]]
  /\ priorities = [t \in Thread |-> [i \in Slots |-> 0]]
  /\ highestPrio = [t \in Thread |-> 0]

Held(t) == {m \in Mutex : m_pThread[m] = t}

\* Interrupts are disabled in a system call, but not while acquire() spins;
\* kernel threads run with interrupts enabled.
InterruptsEnabled ==
  cur # None => pc[cur] \in {"idle", "spin"} \/ cur \in KernelThreads

\* setTimer(1) makes the interrupt controller raise the interrupt at once, so
\* it is taken before the thread executes anything with interrupts enabled.
At(t, label) == cur = t /\ pc[t] = label /\ ~(timer /\ InterruptsEnabled)

-----------------------------------------------------------------------------
\* Mutation of PushPriority: the search for a slot runs one too far.
PushPriorityOverrun(t, p, m) ==
  IF p <= effectivePriority[t]
  THEN UNCHANGED <<prioVars, lists>>
  ELSE LET n == MAX_PIP_PRIORITIES + 1
           taken == {i \in Slots : ref[t][i] # None}
           first == CHOOSE i \in (1..n) \ taken : \A j \in (1..n) \ taken : i <= j
           e == [effectivePriority EXCEPT ![t] = p]
       IN  /\ ref' = [ref EXCEPT ![t] = [i \in Slots \cup {first} |->
                                          IF i = first THEN m ELSE ref[t][i]]]
           /\ UNCHANGED priorities
           /\ effectivePriority' = e
           /\ lists' = EnterReady(lists, t, e)

\* Mutation of PushPriority: the thread keeps its place in the ready queue.
PushPriorityInPlace(t, p, m) ==
  /\ effectivePriority' = [effectivePriority EXCEPT
                             ![t] = IF p <= @ THEN @ ELSE p]
  /\ UNCHANGED <<ref, priorities, lists>>

\* Mutation of PushPriority: no inheritance (HAS_PRIORITY is not defined).
PushPriorityNot(t, p, m) == UNCHANGED <<prioVars, lists>>

\* PriorityThread::pushPriority(p, m) of thread t, which is not the running
\* one.  Without a free slot the priority is raised all the same.  The thread
\* is taken out of whatever list it is in and entered into the ready queue.
PushPriority(t, p, m) ==
  IF p <= effectivePriority[t]
  THEN UNCHANGED <<prioVars, lists>>
  ELSE LET free == {i \in Slots : ref[t][i] = None}
           first == CHOOSE i \in free : \A j \in free : i <= j
           e == [effectivePriority EXCEPT ![t] = p]
       IN  /\ IF free = {}
              THEN UNCHANGED <<ref, priorities>>
              ELSE /\ ref' = [ref EXCEPT ![t][first] = m]
                   /\ priorities' = [priorities EXCEPT
                                       ![t][first] = effectivePriority[t]]
           /\ effectivePriority' = e
           /\ lists' = EnterReady(lists, t, e)

\* One iteration of the loop of Mutex::acquire by t, with w threads waiting.
Attempt(t, m, blocking, w) ==
  IF ~m_locked[m]
  THEN /\ m_locked' = [m_locked EXCEPT ![m] = TRUE]
       /\ m_pThread' = [m_pThread EXCEPT ![m] = t]
       /\ waitingThreads' = [waitingThreads EXCEPT ![m] = w - 1]
       /\ pc' = [pc EXCEPT ![t] = "idle"]
       /\ UNCHANGED <<lists, timer, prioVars>>
  ELSE /\ PushPriority(m_pThread[m], effectivePriority[t] + 1, m)
       /\ waitingThreads' = [waitingThreads EXCEPT ![m] = w]
       /\ pc' = [pc EXCEPT ![t] = IF blocking THEN "spin" ELSE "idle"]
       /\ timer' = (timer \/ blocking)
       /\ UNCHANGED <<m_locked, m_pThread>>

\* Mutation of AcquireBegin: the caller is not counted as waiting.
AcquireBeginUncounted(t, m, blocking) ==
  /\ At(t, "idle")
  /\ \A k \in Held(t) : k < m
  /\ ~blocking => waitingThreads[m] < Cardinality(Thread)
  /\ arg' = [arg EXCEPT ![t] = m]
  /\ Attempt(t, m, blocking, waitingThreads[m])
  /\ UNCHANGED <<cur, robbed, highestPrio>>

\* acquire(pRes, blocking), up to the end of its first iteration.  A thread
\* takes mutexes in ascending order; acquiring what it holds returns at once,
\* which is a stuttering step.
\* acquire(pRes, false) returns an error and leaves waitingThreads counted up:
\* the code has no decrement on that path, so the count is capped here.
AcquireBegin(t, m, blocking) ==
  /\ At(t, "idle")
  /\ \A k \in Held(t) : k < m
  /\ ~blocking => waitingThreads[m] < Cardinality(Thread)
  /\ arg' = [arg EXCEPT ![t] = m]
  /\ Attempt(t, m, blocking, waitingThreads[m] + 1)
  /\ UNCHANGED <<cur, robbed, highestPrio>>

Spin(t) ==
  /\ At(t, "spin")
  /\ Attempt(t, arg[t], TRUE, waitingThreads[arg[t]])
  /\ UNCHANGED <<cur, arg, robbed, highestPrio>>

\* Whom the release of m by t takes the mutex from.
Robs(t, m) == {m_pThread[m]} \ {t, None}

\* Mutation of Release: the holder is not reset.
ReleaseStale(t, m) ==
  /\ At(t, "idle")
  /\ m_pThread[m] = t \/ <<t, m>> \in Releasers
  /\ m_locked' = [m_locked EXCEPT ![m] = FALSE]
  /\ robbed' = robbed \cup Robs(t, m) /\ Cardinality(robbed') <= MaxRobbed
  /\ pc' = [pc EXCEPT ![t] = "released"]
  /\ arg' = [arg EXCEPT ![t] = m]
  /\ UNCHANGED <<schedVars, m_pThread, waitingThreads, prioVars, highestPrio>>

\* release(): the critical section.  It does not look at m_pThread: the mutex is
\* free afterwards, whoever had it.  Besides the holder there call it a thread of
\* the task that owns the resource (Resource::release), listen() on a socket
\* without pcb, and the outer of two nested users of a mutex, after the inner
\* one, whose acquire() returned at once, has released it.
Release(t, m) ==
  /\ At(t, "idle")
  /\ m_pThread[m] = t \/ <<t, m>> \in Releasers
  /\ m_locked' = [m_locked EXCEPT ![m] = FALSE]
  /\ m_pThread' = [m_pThread EXCEPT ![m] = None]
  /\ robbed' = robbed \cup Robs(t, m) /\ Cardinality(robbed') <= MaxRobbed
  /\ pc' = [pc EXCEPT ![t] = "released"]
  /\ arg' = [arg EXCEPT ![t] = m]
  /\ UNCHANGED <<schedVars, waitingThreads, prioVars, highestPrio>>

\* release() after RESTORE_IRQS: popPriority of the caller, which need not be
\* the thread that had the mutex, is called only if some thread waits now;
\* first the slots of the mutex are cleared ...
PopBegin(t) ==
  /\ At(t, "released")
  /\ LET m == arg[t]
         mine == {i \in Slots : ref[t][i] = m}
         others == {priorities[t][i] : i \in {j \in Slots \ mine : ref[t][j] # None}}
                     \cup {Priority[t]}
     IN  IF waitingThreads[m] > 0 /\ mine # {}
         THEN /\ ref' = [ref EXCEPT ![t] =
                           [i \in Slots |-> IF i \in mine THEN None ELSE ref[t][i]]]
              /\ priorities' = [priorities EXCEPT ![t] =
                           [i \in Slots |-> IF i \in mine THEN 0 ELSE priorities[t][i]]]
              /\ highestPrio' = [highestPrio EXCEPT ![t] =
                           CHOOSE p \in others : \A q \in others : q <= p]
              /\ pc' = [pc EXCEPT ![t] = "pop"]
         ELSE /\ pc' = [pc EXCEPT ![t] = "idle"]
              /\ UNCHANGED <<ref, priorities, highestPrio>>
  /\ UNCHANGED <<schedVars, arg, mutexVars, effectivePriority>>

\* ... then, after a point where interrupts are enabled, the priority is set.
PopEnd(t) ==
  /\ At(t, "pop")
  /\ pc' = [pc EXCEPT ![t] = "idle"]
  /\ highestPrio' = [highestPrio EXCEPT ![t] = 0]
  /\ IF highestPrio[t] # 0
     THEN /\ effectivePriority' = [effectivePriority EXCEPT ![t] = highestPrio[t]]
          /\ timer' = TRUE
     ELSE UNCHANGED <<effectivePriority, timer>>
  /\ UNCHANGED <<lists, cur, arg, mutexVars, ref, priorities>>

-----------------------------------------------------------------------------
\* dispatch(): the head of the ready queue of L runs.
RunHead(L) ==
  /\ cur' = IF L["ready"] = <<>> THEN None ELSE Head(L["ready"])
  /\ lists' = IF L["ready"] = <<>> THEN L ELSE TakeHead(L)

\* The running thread back in the ready queue, as dispatch() begins.
Reinserted == IF cur = None THEN lists
              ELSE EnterReady(lists, cur, effectivePriority)

\* The timer interrupt that setTimer(1) has raised.
Preempt ==
  /\ timer /\ InterruptsEnabled
  /\ timer' = FALSE
  /\ RunHead(Reinserted)
  /\ UNCHANGED <<pc, arg, mutexVars, prioVars, highestPrio>>

\* The timer interrupt at the end of t's sleep.
Wake(t) ==
  /\ InterruptsEnabled
  /\ t \in Members(lists, "sleep")
  /\ timer' = FALSE
  /\ RunHead(EnterReady(Reinserted, t, effectivePriority))
  /\ UNCHANGED <<pc, arg, mutexVars, prioVars, highestPrio>>

\* The running thread sleeps.
Sleep(t) ==
  /\ At(t, "idle")
  /\ Held(t) = {} \/ t \in MayNap
  /\ timer' = FALSE
  /\ RunHead(AddTail(lists, "sleep", t))
  /\ UNCHANGED <<pc, arg, mutexVars, prioVars, highestPrio>>

Next ==
  \/ Preempt
  \/ \E t \in Thread :
       \/ \E m \in Mutex : AcquireBegin(t, m, TRUE) \/ Release(t, m)
       \/ t \in MayTry /\ \E m \in Mutex : AcquireBegin(t, m, FALSE)
       \/ Spin(t) \/ PopBegin(t) \/ PopEnd(t)
       \/ Wake(t) \/ Sleep(t)

Spec == Init /\ [][Next]_vars

\* The CPU executes the kernel code of the running thread, a raised timer
\* interrupt is taken, and a mutex whose holder gets the CPU again and again is
\* released by it one day.
Fairness ==
  /\ SF_vars(Preempt)
  /\ WF_vars(\E t \in Thread : Spin(t) \/ PopBegin(t) \/ PopEnd(t))
  /\ \A m \in Mutex : SF_vars(\E t \in Thread : m_pThread[m] = t /\ Release(t, m))

FairSpec == Spec /\ Fairness

-----------------------------------------------------------------------------
\* "Provides mutex functionality (-> a binary semaphore)": the spinning threads
\* and the holders behave as clients of the locks of module Lock.  A mutex is
\* never given to a thread while another one has it, and it is taken away from
\* its holder only by a release() of a thread in Releasers.
wants == [t \in Thread |-> IF pc[t] = "spin" THEN arg[t] ELSE None]
LockSpec == INSTANCE Lock WITH Client <- Thread, Locks <- Mutex, Nobody <- None,
                               Entitled <- Releasers,
                               holder <- m_pThread, wants <- wants
ImplementsLock == LockSpec!Spec

\* release() drops an inherited priority only if waitingThreads is positive: no
\* thread that still waits for the mutex goes uncounted.
Spinners(m) == {t \in Thread : pc[t] = "spin" /\ arg[t] = m}
WaitersCounted == \A m \in Mutex : waitingThreads[m] >= Cardinality(Spinners(m))

\* "reset the priority of the currentRunning thread as it might have been
\* boosted by higher priority waiting threads": a thread that has released
\* every mutex runs at its own priority again.  popPriority is called for the
\* thread that calls release(), so a thread whose mutex another one has
\* released may keep what it has inherited.
BoostEnds ==
  \A t \in Thread \ robbed :
    Held(t) = {} /\ pc[t] \in {"idle", "spin"} => effectivePriority[t] = Priority[t]

\* No thread is in two places (the one LinkedListItem of each thread).
OnePlace ==
  /\ Disjoint(lists)
  /\ cur \notin Listed(lists)

\* The ready queue stays sorted although priorities of queued threads change.
ReadySorted == Descending(lists["ready"], effectivePriority)

\* "Tries to increase the priority of the thread": inheriting a priority does
\* not end the sleep of the holder.
SleepLasts ==
  [][\A t \in Thread :
       t \in Members(lists, "sleep") /\ t \notin Members(lists', "sleep")
         => effectivePriority'[t] = effectivePriority[t]]_vars

\* "if we can not get the lock dispatch and give the running thread the higher
\* priority": the most urgent thread gets the mutex it waits for, although it
\* spins at a higher priority than the holder began with, unless a thread has
\* kept an inherited priority because another one has released its mutex.
UrgentAcquires ==
  \A t \in Thread :
    (\A u \in Thread \ {t} : Priority[u] < Priority[t])
    => (pc[t] = "spin" ~> pc[t] # "spin" \/ robbed # {})
=============================================================================
