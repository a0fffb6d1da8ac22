----------------------------- MODULE Dispatcher -----------------------------
(***************************************************************************)
(* Threads, the rate monotonic scheduler and the dispatcher of a           *)
(* single-CPU ORCOS kernel: SingleCPUDispatcher, Thread, RealTimeThread,   *)
(* RateMonotonicThreadScheduler, the worker threads of the KernelTask, the *)
(* timeout service of the KernelServiceThread, and the system calls and    *)
(* interrupts that drive them.                                             *)
(*                                                                         *)
(* A step is one stretch of code that runs with interrupts disabled, or    *)
(* one that touches no shared state.  dispatch() never returns, so a       *)
(* handler that ends in it sets `phase' to "dispatch"; until the next      *)
(* thread runs only the steps of dispatch() are enabled, one per iteration *)
(* of its loops.                                                           *)
(***************************************************************************)
EXTENDS ThreadLists

CONSTANTS
  User,                  \* threads of user tasks
  WorkerSeq,             \* worker threads of the KernelTask, oldest first
  None,                  \* no thread: the idle thread runs
  MainThread,            \* the user thread that boot has made ready
  ServiceThread,         \* worker of the KernelServiceThread, or None
  IrqWorkers,            \* workers that serve an interrupt
  MayStop,               \* user threads of tasks that task_stop names
  Priority,              \* priority given by computePriority
  Period,                \* period of a user thread, 0: not periodic
  Arrival,               \* arrival time of a new user thread, 0: at once
  Delays,                \* durations passed to sleep and to callback jobs
  Timeouts,              \* timeouts passed to Thread::block, 0: none
  Signals,               \* signal numbers, a set of positive numbers
  JobPeriod,             \* period of periodic jobs
  ARCH_DELAY,            \* look-ahead of the dispatcher
  MaxTime,               \* bound on the clock
  MAX_UINT8,             \* "no timer event"
  NestedInterrupts,      \* ENABLE_NESTED_INTERRUPTS of the build
  CallersFollowContract  \* applications start a thread once and resume
                         \* only what they have stopped

Workers == ToSet(WorkerSeq)
Threads == User \cup Workers

\* SIG_CHILD_TERMINATED, raised when a thread of the task ends.
SIG_CHILD_TERMINATED == 1

ASSUME ThreadsAssumption ==
  /\ WorkerSeq \in Seq(Workers)
  /\ \A i, j \in DOMAIN WorkerSeq : WorkerSeq[i] = WorkerSeq[j] => i = j
  /\ User \cap Workers = {}
  /\ None \notin Threads
  /\ MainThread \in User
  /\ ServiceThread \in Workers \cup {None}
  /\ IrqWorkers \subseteq Workers \ {ServiceThread}
  /\ MayStop \subseteq User

ASSUME NumbersAssumption ==
  /\ Priority \in [Threads -> Nat]
  /\ Period \in [User -> Nat]
  /\ Arrival \in [User -> Nat]
  /\ Delays \subseteq Nat \ {0}
  /\ Timeouts \subseteq Nat
  /\ Signals \subseteq Nat \ {0}
  /\ JobPeriod \in Nat \ {0}
  /\ ARCH_DELAY \in Nat
  /\ MaxTime \in Nat
  /\ MAX_UINT8 \in Nat
  /\ NestedInterrupts \in BOOLEAN
  /\ CallersFollowContract \in BOOLEAN

VARIABLES
  lists,           \* ready queue, sleep, blocked and wait list
  cur,             \* pCurrentRunningThread
  status,          \* the status flags of each thread
  sleepTime,       \* absolute wake-up time, 0: not sleeping
  blockTimeout,    \* absolute timeout of a blocked thread, 0: none
  arrivalTime,     \* arrival of the current instance; time of the job
  instance,        \* 1 until a thread is dispatched for the first time
  effectivePriority,
  signal,          \* signal a thread waits for, 0: none
  job,             \* job of each worker; "None": in nonWorkingThreads
  inCall,          \* how far each thread is inside a kernel call
  now,             \* theClock->getClockCycles()
  timer,           \* time the timer interrupt is programmed to
  needReschedule,
  phase,           \* what the CPU executes
  scan,            \* position in the sleep list while dispatching
  raised,          \* signal being delivered
  todo             \* threads signal() has not visited yet

clockVars == <<now, timer, needReschedule>>
loopVars == <<scan, raised, todo>>
attrVars == <<arrivalTime, instance, effectivePriority>>
vars == <<lists, cur, status, sleepTime, blockTimeout, attrVars, signal,
          job, inCall, clockVars, phase, loopVars>>

Flags == {"New", "Ready", "Blocked", "Term", "Stopped", "Signal"}
Phases == {"run", "dispatch", "scan", "signal", "halt"}
\* "block", "sigwait": between the flags and the list update of Thread::block
\* and Thread::sigwait; "served": the service thread has walked the list.
CallPoints == {"none", "block", "sigwait", "served"}
Jobs == {"None", "IRQ", "Timed", "Periodic"}

TypeOK ==
  /\ lists \in [ListNames -> Seq(Threads)]
  /\ cur \in Threads \cup {None}
  /\ status \in [Threads -> SUBSET Flags]
  /\ sleepTime \in [Threads -> Nat]
  /\ blockTimeout \in [Threads -> Nat]
  /\ arrivalTime \in [Threads -> Nat]
  /\ instance \in [Threads -> {1, 2}]
  /\ effectivePriority \in [Threads -> Nat]
  /\ signal \in [Threads -> Signals \cup {0}]
  /\ job \in [Workers -> Jobs]
  /\ inCall \in [Threads -> CallPoints]
  /\ now \in Nat
  /\ timer \in Nat
  /\ needReschedule \in BOOLEAN
  /\ phase \in Phases
  /\ scan \in Nat \ {0}
  /\ raised \in Nat
  /\ todo \in Seq(Threads)

(***************************************************************************)
(* Boot: the workers have been constructed and blocked, the service thread *)
(* has been given its periodic job (with offset 0: it is due at once), and *)
(* the main thread is ready.                                               *)
(***************************************************************************)
Init ==
  /\ lists = [n \in ListNames |->
                CASE n = "ready" -> <<MainThread>>
                  [] n = "sleep" -> IF ServiceThread = None
                                    THEN <<>> ELSE <<ServiceThread>>
                  [] n = "blocked" -> RemoveFirst(WorkerSeq, ServiceThread)
                  [] OTHER -> <<>>]
  /\ cur = None
  /\ status = [t \in Threads |->
                 IF t \in {MainThread, ServiceThread} THEN {"New", "Ready"}
                 ELSE IF t \in User THEN {"New"} ELSE {"New", "Blocked"}]
  /\ sleepTime = [t \in Threads |->
                    IF t = ServiceThread THEN 1
                    ELSE IF t \in User \ {MainThread} THEN Arrival[t] ELSE 0]
  /\ blockTimeout = [t \in Threads |-> 0]
  /\ arrivalTime = [t \in Threads |->
                      IF t \in User THEN Arrival[t]
                      ELSE IF t = ServiceThread THEN 1 ELSE 0]
  /\ instance = [t \in Threads |-> 1]
  /\ effectivePriority = Priority
  /\ signal = [t \in Threads |-> 0]
  /\ job = [w \in Workers |-> IF w = ServiceThread THEN "Periodic"
                              ELSE IF w \in IrqWorkers THEN "IRQ" ELSE "None"]
  /\ inCall = [t \in Threads |-> "none"]
  /\ now = 1
  /\ timer = MAX_UINT8
  /\ needReschedule = FALSE
  /\ phase = "dispatch"
  /\ scan = 1
  /\ raised = 0
  /\ todo = <<>>

-----------------------------------------------------------------------------
(***************************************************************************)
(* Pieces of the scheduler and the dispatcher that several steps share.    *)
(***************************************************************************)

\* RateMonotonicThreadScheduler::computePriority: the priority of the thread is
\* a function of its period and of the priority it was created with.
ComputedPriority(t) == [effectivePriority EXCEPT ![t] = Priority[t]]

\* RateMonotonicThreadScheduler::enter computes the priority of a thread that
\* has not been dispatched yet.
EnterPriority(t) ==
  IF instance[t] = 1 THEN ComputedPriority(t) ELSE effectivePriority

\* RateMonotonicThreadScheduler::enter for a thread without sleep time left,
\* with the priorities e.
\* LinkedList::insertAfter asserts that the item is not its own predecessor;
\* a failed assertion loops forever with interrupts disabled.
Enter(t, e, next) ==
  IF SelfInsertReady(lists, t, e)
  THEN /\ phase' = "halt"
       /\ UNCHANGED <<lists, effectivePriority>>
  ELSE /\ phase' = next
       /\ lists' = EnterReady(lists, t, e)
       /\ effectivePriority' = e

\* SingleCPUDispatcher::sleep for a thread whose new wake-up time is wake[t].
Sleep(t, wake, next) ==
  IF SelfInsertSleep(lists, t, wake)
  THEN phase' = "halt" /\ UNCHANGED lists
  ELSE phase' = next /\ lists' = EnterSleep(lists, t, wake)

\* Mutation of Preempts: the comparison the other way round.
PreemptsSwapped(t, e) == cur = None \/ e[t] < e[cur]

\* With the priorities e the unblocked thread t is to run at once.
Preempts(t, e) == cur = None \/ e[t] > e[cur]

\* SingleCPUDispatcher::unblock: a thread with sleep time left goes to the end
\* of the sleep list, any other one to the ready queue; if it is more urgent
\* than the running thread a timer interrupt is raised at once.
Unblock(t, wake) ==
  LET e == EnterPriority(t) IN
  IF wake[t] > 0
  THEN /\ lists' = AddTail(lists, "sleep", t)
       /\ UNCHANGED <<effectivePriority, timer, needReschedule>>
  ELSE /\ lists' = EnterReady(lists, t, e)
       /\ effectivePriority' = e
       /\ IF Preempts(t, e)
          THEN needReschedule' = TRUE /\ timer' = 1
          ELSE UNCHANGED <<timer, needReschedule>>

\* Mutation of UnblockedStatus: the flag "Blocked" is not cleared.
UnblockedStatusKept(t) ==
  IF "Stopped" \in status[t] THEN status[t] ELSE status[t] \cup {"Ready"}

\* The status Thread::unblock leaves: a stopped thread only loses its flag.
UnblockedStatus(t) ==
  IF "Stopped" \in status[t] THEN status[t] \ {"Blocked"}
  ELSE (status[t] \ {"Blocked"}) \cup {"Ready"}

\* Thread::unblock() of a blocked thread, sleepTime unchanged.
ThreadUnblock(t) ==
  /\ status' = [status EXCEPT ![t] = UnblockedStatus(t)]
  /\ IF "Stopped" \in status[t]
     THEN UNCHANGED <<lists, effectivePriority, timer, needReschedule>>
     ELSE Unblock(t, sleepTime)

\* Interrupts are enabled while a thread or the idle thread runs, and inside a
\* system call only if the build allows nested interrupts.
InterruptsEnabled ==
  /\ phase = "run"
  /\ cur # None /\ ~NestedInterrupts => inCall[cur] \in {"none", "served"}

\* Thread t executes its own code.
Runs(t) == phase = "run" /\ cur = t /\ inCall[t] = "none"

-----------------------------------------------------------------------------
(***************************************************************************)
(* dispatch()                                                              *)
(***************************************************************************)

\* The interrupted thread goes back to the ready queue.
DispatchBegin ==
  /\ phase = "dispatch"
  /\ needReschedule' = FALSE
  /\ cur' = None
  /\ scan' = 1
  /\ IF cur = None
     THEN phase' = "scan" /\ UNCHANGED <<lists, effectivePriority>>
     ELSE Enter(cur, EnterPriority(cur), "scan")
  /\ UNCHANGED <<status, sleepTime, blockTimeout, arrivalTime, instance,
                 signal, job, inCall, now, timer, raised, todo>>

\* Priority of the thread that will run if the scan ends now.
NextPriority == IF lists["ready"] = <<>> THEN 0
                ELSE effectivePriority[Head(lists["ready"])]

Sleeper == lists["sleep"][scan]

\* Mutation of Due: the look-ahead is one tick too long.
DueEarly(t) == sleepTime[t] <= now + ARCH_DELAY + 1

Due(t) == sleepTime[t] <= now + ARCH_DELAY

\* getNextTimerEvent: the sleep time of the thread at hand is over.
ScanWake ==
  /\ phase = "scan"
  /\ scan <= Len(lists["sleep"])
  /\ Due(Sleeper)
  /\ status' = [status EXCEPT ![Sleeper] = @ \cup {"Ready"}]
  /\ sleepTime' = [sleepTime EXCEPT ![Sleeper] = 0]
  /\ Enter(Sleeper, EnterPriority(Sleeper), "scan")
  /\ UNCHANGED <<cur, blockTimeout, arrivalTime, instance, signal, job, inCall,
                 clockVars, loopVars>>

\* getNextTimerEvent: it sleeps on and cannot preempt the next thread.
ScanSkip ==
  /\ phase = "scan"
  /\ scan <= Len(lists["sleep"])
  /\ ~Due(Sleeper)
  /\ effectivePriority[Sleeper] < NextPriority
  /\ scan' = scan + 1
  /\ UNCHANGED <<lists, cur, status, sleepTime, blockTimeout, attrVars, signal,
                 job, inCall, clockVars, phase, raised, todo>>

\* Mutation of NextTimerEvent: the last thread of the sleep list is missed.
NextTimerEventShort ==
  IF scan < Len(lists["sleep"]) THEN sleepTime[Sleeper] ELSE MAX_UINT8

\* The time getNextTimerEvent returns when the scan ends here.
NextTimerEvent ==
  IF scan <= Len(lists["sleep"]) THEN sleepTime[Sleeper] ELSE MAX_UINT8

ScanEnds ==
  /\ phase = "scan"
  /\ scan <= Len(lists["sleep"]) =>
       ~Due(Sleeper) /\ effectivePriority[Sleeper] >= NextPriority

\* The timer is programmed and the head of the ready queue runs: callMain for
\* a new thread, else restoreContext, which also ends the wait for a signal.
RunNext ==
  /\ ScanEnds
  /\ lists["ready"] # <<>>
  /\ LET t == Head(lists["ready"]) IN
       /\ cur' = t
       /\ lists' = TakeHead(lists)
       /\ instance' = [instance EXCEPT ![t] = 2]
       /\ status' = [status EXCEPT ![t] = @ \ {"New"}]
       /\ signal' = IF "New" \in status[t] THEN signal
                    ELSE [signal EXCEPT ![t] = 0]
  /\ timer' = NextTimerEvent
  /\ phase' = "run"
  /\ UNCHANGED <<sleepTime, blockTimeout, arrivalTime, effectivePriority, job,
                 inCall, now, needReschedule, loopVars>>

\* Nothing is ready: the idle thread runs.
RunIdle ==
  /\ ScanEnds
  /\ lists["ready"] = <<>>
  /\ cur' = None
  /\ timer' = NextTimerEvent
  /\ phase' = "run"
  /\ UNCHANGED <<lists, status, sleepTime, blockTimeout, attrVars, signal, job,
                 inCall, now, needReschedule, loopVars>>

-----------------------------------------------------------------------------
(***************************************************************************)
(* The clock and the interrupts.                                           *)
(***************************************************************************)

ClockTick ==
  /\ phase = "run"
  /\ now < MaxTime
  /\ now' = now + 1
  /\ UNCHANGED <<lists, cur, status, sleepTime, blockTimeout, attrVars, signal,
                 job, inCall, timer, needReschedule, phase, loopVars>>

\* SCHED_TIMER_IRQ: theTimer->tick() dispatches.
TimerIRQ ==
  /\ InterruptsEnabled
  /\ timer <= now
  /\ phase' = "dispatch"
  /\ UNCHANGED <<lists, cur, status, sleepTime, blockTimeout, attrVars, signal,
                 job, inCall, clockVars, loopVars>>

\* Any other interrupt: handleInterruptIRQ unblocks the worker of the driver;
\* on the way out the interrupted thread is restored (which also ends a wait
\* for a signal) unless a rescheduling is pending or the CPU was idle.
DeviceIRQ(w) ==
  /\ InterruptsEnabled
  /\ job[w] = "IRQ"
  /\ "Blocked" \in status[w]
  /\ ThreadUnblock(w)
  /\ IF cur # None /\ ~needReschedule'
     THEN phase' = phase /\ signal' = [signal EXCEPT ![cur] = 0]
     ELSE phase' = "dispatch" /\ UNCHANGED signal
  /\ UNCHANGED <<cur, sleepTime, blockTimeout, arrivalTime, instance, job,
                 inCall, now, loopVars>>

-----------------------------------------------------------------------------
(***************************************************************************)
(* What a running user thread can do.                                      *)
(***************************************************************************)

\* Mutation of WakeTime: the difference the wrong way round.
WakeTimeSwapped(d) == d - now

\* The absolute time of an event that is d away.
WakeTime(d) == now + d

\* sc_sleep: Thread::sleep and SingleCPUDispatcher::sleep of the caller.
ThreadSleep(t, d) ==
  /\ Runs(t)
  /\ now + d <= MaxTime
  /\ sleepTime' = [sleepTime EXCEPT ![t] = WakeTime(d)]
  /\ status' = [status EXCEPT ![t] = @ \ {"Ready"}]
  /\ cur' = None
  /\ Sleep(t, sleepTime', "dispatch")
  /\ UNCHANGED <<blockTimeout, attrVars, signal, job, inCall, clockVars,
                 loopVars>>

\* Thread::block by the running thread, up to _disableInterrupts().
BlockBegin(t, timeout) ==
  /\ Runs(t)
  /\ now + timeout <= MaxTime
  /\ status' = [status EXCEPT ![t] = (@ \ {"Ready"}) \cup {"Blocked"}]
  /\ blockTimeout' = [blockTimeout EXCEPT
                        ![t] = IF timeout > 0 THEN now + timeout ELSE 0]
  /\ inCall' = [inCall EXCEPT ![t] = "block"]
  /\ UNCHANGED <<lists, cur, sleepTime, attrVars, signal, job, clockVars, phase,
                 loopVars>>

\* Thread::block after _disableInterrupts(): SingleCPUDispatcher::block.
BlockEnd(t) ==
  /\ phase = "run" /\ cur = t /\ inCall[t] = "block"
  /\ inCall' = [inCall EXCEPT ![t] = "none"]
  /\ lists' = AddTail(lists, "blocked", t)
  /\ cur' = None
  /\ phase' = "dispatch"
  /\ UNCHANGED <<status, sleepTime, blockTimeout, attrVars, signal, job,
                 clockVars, loopVars>>

\* Thread::sigwait up to the critical section of the dispatcher.
SigwaitBegin(t, sig) ==
  /\ Runs(t)
  /\ signal' = [signal EXCEPT ![t] = sig]
  /\ status' = [status EXCEPT ![t] = (@ \ {"Ready"}) \cup {"Signal"}]
  /\ inCall' = [inCall EXCEPT ![t] = "sigwait"]
  /\ UNCHANGED <<lists, cur, sleepTime, blockTimeout, attrVars, job, clockVars,
                 phase, loopVars>>

\* Mutation of SigwaitEnd: the thread is put on the sleep list.
SigwaitEndSleeping(t) ==
  /\ phase = "run" /\ cur = t /\ inCall[t] = "sigwait"
  /\ inCall' = [inCall EXCEPT ![t] = "none"]
  /\ lists' = AddTail(lists, "sleep", t)
  /\ cur' = None
  /\ phase' = "dispatch"
  /\ UNCHANGED <<status, sleepTime, blockTimeout, attrVars, signal, job,
                 clockVars, loopVars>>

\* SingleCPUDispatcher::sigwait.
SigwaitEnd(t) ==
  /\ phase = "run" /\ cur = t /\ inCall[t] = "sigwait"
  /\ inCall' = [inCall EXCEPT ![t] = "none"]
  /\ lists' = AddTail(lists, "wait", t)
  /\ cur' = None
  /\ phase' = "dispatch"
  /\ UNCHANGED <<status, sleepTime, blockTimeout, attrVars, signal, job,
                 clockVars, loopVars>>

\* sc_signal_signal: signal() visits the threads of the wait list, then the
\* caller dispatches.
SignalBegin(t, sig) ==
  /\ Runs(t)
  /\ phase' = "signal"
  /\ raised' = sig
  /\ todo' = lists["wait"]
  /\ UNCHANGED <<lists, cur, status, sleepTime, blockTimeout, attrVars, signal,
                 job, inCall, clockVars, scan>>

\* One iteration of SingleCPUDispatcher::signal(list, sig, sigvalue).
SignalVisit ==
  /\ phase = "signal"
  /\ todo # <<>>
  /\ todo' = Tail(todo)
  /\ LET t == Head(todo) IN
       IF signal[t] # raised
       THEN UNCHANGED <<lists, status, effectivePriority, phase>>
       ELSE /\ status' = [status EXCEPT ![t] = @ \ {"Signal"}]
            /\ IF "Stopped" \in status[t]
               THEN UNCHANGED <<lists, effectivePriority, phase>>
               ELSE IF "Blocked" \in status[t] \/ sleepTime[t] > 0
               THEN /\ lists' = AddTail(lists, IF "Blocked" \in status[t]
                                               THEN "blocked" ELSE "sleep", t)
                    /\ UNCHANGED <<effectivePriority, phase>>
               ELSE Enter(t, EnterPriority(t), phase)
  /\ UNCHANGED <<cur, sleepTime, blockTimeout, arrivalTime, instance, signal,
                 job, inCall, clockVars, scan, raised>>

SignalEnd ==
  /\ phase = "signal"
  /\ todo = <<>>
  /\ phase' = "dispatch"
  /\ UNCHANGED <<lists, cur, status, sleepTime, blockTimeout, attrVars, signal,
                 job, inCall, clockVars, loopVars>>

\* Kernel code on behalf of t (sockets, modules, devices) unblocks u.
UnblockOther(t, u) ==
  /\ Runs(t)
  /\ "Blocked" \in status[u]
  /\ ThreadUnblock(u)
  /\ UNCHANGED <<cur, sleepTime, blockTimeout, arrivalTime, instance, signal,
                 job, inCall, now, phase, loopVars>>

\* The application's part of the contract of thread_run: a thread is started
\* once.  The code tests "new and not ready" instead.
NeverStarted(u) == instance[u] = 1 /\ u \notin Listed(lists)

\* sc_thread_run(u): computePriority, Thread::run, dispatch.  A thread that
\* has not been dispatched before and has an arrival time sleeps until then.
ThreadRun(t, u) ==
  /\ Runs(t)
  /\ "New" \in status[u] /\ "Ready" \notin status[u]
  /\ "Term" \notin status[u]
  /\ CallersFollowContract => NeverStarted(u)
  /\ IF instance[u] = 1 /\ sleepTime[u] > 0
     THEN /\ Sleep(u, sleepTime, "dispatch")
          /\ effectivePriority' = ComputedPriority(u)
          /\ UNCHANGED status
     ELSE /\ status' = [status EXCEPT ![u] = @ \cup {"Ready"}]
          /\ Enter(u, ComputedPriority(u), "dispatch")
  /\ UNCHANGED <<cur, sleepTime, blockTimeout, arrivalTime, instance, signal,
                 job, inCall, clockVars, loopVars>>

\* TaskManager::terminateThread of a periodic thread, which only ends the
\* current instance: new context, next arrival, sleep until then.
InstanceEnds(t) ==
  /\ Runs(t)
  /\ Period[t] > 0
  /\ arrivalTime[t] <= MaxTime
  /\ arrivalTime' = [arrivalTime EXCEPT ![t] = @ + Period[t]]
  /\ status' = [status EXCEPT ![t] = {"New"}]
  /\ sleepTime' = [sleepTime EXCEPT ![t] = arrivalTime'[t]]
  /\ effectivePriority' = ComputedPriority(t)
  /\ cur' = None
  /\ Sleep(t, sleepTime', "dispatch")
  /\ UNCHANGED <<blockTimeout, instance, signal, job, inCall, clockVars,
                 loopVars>>

\* TaskManager::terminateThread of any other thread: its siblings that wait
\* for a child to end are signalled, then terminate_thread dispatches.
ThreadExit(t) ==
  /\ Runs(t)
  /\ Period[t] = 0
  /\ status' = [status EXCEPT ![t] = {"Term"}]
  /\ lists' = Detach(lists, t)
  /\ cur' = None
  /\ phase' = "signal"
  /\ raised' = SIG_CHILD_TERMINATED
  /\ todo' = lists'["wait"]
  /\ UNCHANGED <<sleepTime, blockTimeout, attrVars, signal, job, inCall,
                 clockVars, scan>>

\* sc_task_stop of the task of u: Thread::stop.
ThreadStop(t, u) ==
  /\ Runs(t)
  /\ "Term" \notin status[u]
  /\ status' = [status EXCEPT ![u] = @ \cup {"Stopped"}]
  /\ IF "Blocked" \in status[u]
     THEN UNCHANGED <<lists, cur, phase>>
     ELSE /\ lists' = AddTail(lists, "blocked", u)
          /\ cur' = IF u = t THEN None ELSE cur
          /\ phase' = IF u = t THEN "dispatch" ELSE phase
  /\ UNCHANGED <<sleepTime, blockTimeout, attrVars, signal, job, inCall,
                 clockVars, loopVars>>

\* sc_task_resume of the task of u: Thread::resume, then dispatch.
ThreadResume(t, u) ==
  /\ Runs(t)
  /\ "Term" \notin status[u]
  /\ CallersFollowContract => "Stopped" \in status[u]
  /\ IF "Blocked" \in status[u]
     THEN /\ status' = [status EXCEPT ![u] = @ \ {"Stopped"}]
          /\ UNCHANGED <<lists, effectivePriority, timer, needReschedule>>
     ELSE /\ status' = [status EXCEPT ![u] = (@ \ {"Stopped"}) \cup {"Ready"}]
          /\ Unblock(u, sleepTime)
  /\ phase' = "dispatch"
  /\ UNCHANGED <<cur, sleepTime, blockTimeout, arrivalTime, instance, signal,
                 job, inCall, now, loopVars>>

-----------------------------------------------------------------------------
(***************************************************************************)
(* Worker threads of the KernelTask.                                       *)
(***************************************************************************)

\* getCallbackThread and getPeriodicThread: an idle worker (the code takes the
\* head of nonWorkingThreads, here it is any one) gets a job that is due after
\* a delay, and is unblocked; its sleep time is not 0, so
\* SingleCPUDispatcher::unblock puts it at the end of the sleep list.
AssignJob(t, w, kind, d) ==
  /\ Runs(t)
  /\ job[w] = "None"
  /\ now + d <= MaxTime
  /\ job' = [job EXCEPT ![w] = kind]
  /\ arrivalTime' = [arrivalTime EXCEPT
                       ![w] = IF kind = "Timed" THEN WakeTime(d) ELSE now]
  /\ instance' = [instance EXCEPT ![w] = 1]
  /\ sleepTime' = [sleepTime EXCEPT ![w] = WakeTime(d)]
  /\ effectivePriority' = ComputedPriority(w)
  /\ status' = [status EXCEPT ![w] = UnblockedStatus(w)]
  /\ lists' = AddTail(lists, "sleep", w)
  /\ UNCHANGED <<cur, blockTimeout, signal, inCall, clockVars, phase, loopVars>>

\* The tail of KernelThread::work, with interrupts disabled.  A periodic job
\* sleeps until its next time; any other worker blocks, and is idle again
\* unless it serves an interrupt.
WorkDone(w) ==
  /\ phase = "run" /\ cur = w
  /\ inCall[w] = IF w = ServiceThread THEN "served" ELSE "none"
  /\ inCall' = [inCall EXCEPT ![w] = "none"]
  /\ cur' = None
  /\ IF job[w] = "Periodic"
     THEN /\ arrivalTime[w] <= MaxTime
          /\ arrivalTime' = [arrivalTime EXCEPT ![w] = @ + JobPeriod]
          /\ sleepTime' = [sleepTime EXCEPT ![w] = arrivalTime'[w]]
          /\ status' = [status EXCEPT ![w] = (@ \ {"Ready"}) \cup {"New"}]
          /\ Sleep(w, sleepTime', "dispatch")
          /\ UNCHANGED <<blockTimeout, job>>
     ELSE /\ job' = [job EXCEPT ![w] = IF @ = "IRQ" THEN "IRQ" ELSE "None"]
          /\ status' = [status EXCEPT
                          ![w] = (@ \ {"Ready"}) \cup {"New", "Blocked"}]
          /\ blockTimeout' = [blockTimeout EXCEPT ![w] = 0]
          /\ lists' = AddTail(lists, "blocked", w)
          /\ phase' = "dispatch"
          /\ UNCHANGED <<arrivalTime, sleepTime>>
  /\ UNCHANGED <<instance, effectivePriority, signal, clockVars, loopVars>>

\* Mutation of TimedOut: only the exact tick counts.
TimedOutNow(t) == "Blocked" \in status[t] /\ now = blockTimeout[t]

\* A blocked thread whose timeout has been reached.
TimedOut(t) == /\ "Blocked" \in status[t]
               /\ blockTimeout[t] > 0
               /\ now >= blockTimeout[t]

\* KernelServiceThread::callbackFunc, the walk of the blocked list.  unblock()
\* moves the item of a thread that is not stopped to another list, so that its
\* successor there ends the walk of the blocked list: the threads behind it
\* are left for the next round.
ServiceTimeouts(w) ==
  /\ Runs(w)
  /\ w = ServiceThread
  /\ inCall' = [inCall EXCEPT ![w] = "served"]
  /\ LET B == lists["blocked"]
         k == SelectInSeq(B, LAMBDA t : TimedOut(t) /\ "Stopped" \notin status[t])
         woken == {t \in Threads : /\ TimedOut(t)
                                   /\ \E i \in 1..Len(B) :
                                        B[i] = t /\ (k = 0 \/ i <= k)}
     IN  /\ status' = [t \in Threads |-> IF t \in woken THEN UnblockedStatus(t)
                                         ELSE status[t]]
         /\ blockTimeout' = [t \in Threads |-> IF t \in woken THEN 0
                                               ELSE blockTimeout[t]]
         /\ IF k # 0
            THEN Unblock(B[k], sleepTime)
            ELSE UNCHANGED <<lists, effectivePriority, timer, needReschedule>>
  /\ UNCHANGED <<cur, sleepTime, arrivalTime, instance, signal, job, now,
                 phase, loopVars>>

-----------------------------------------------------------------------------
DispatchStep == DispatchBegin \/ ScanWake \/ ScanSkip \/ RunNext \/ RunIdle

Deliver == SignalVisit \/ SignalEnd

UserStep(t) ==
  \/ \E d \in Delays : ThreadSleep(t, d)
  \/ \E d \in Timeouts : BlockBegin(t, d)
  \/ BlockEnd(t)
  \/ \E sig \in Signals : SigwaitBegin(t, sig) \/ SignalBegin(t, sig)
  \/ SigwaitEnd(t)
  \/ \E u \in User : UnblockOther(t, u) \/ ThreadRun(t, u)
  \/ \E u \in MayStop : ThreadStop(t, u) \/ ThreadResume(t, u)
  \/ InstanceEnds(t)
  \/ ThreadExit(t)
  \/ \E w \in Workers, d \in Delays, kind \in {"Timed", "Periodic"} :
       AssignJob(t, w, kind, d)

WorkerStep(w) ==
  \/ w # ServiceThread /\ \E u \in User : UnblockOther(w, u)
  \/ ServiceTimeouts(w)
  \/ WorkDone(w)

Next ==
  \/ DispatchStep
  \/ Deliver
  \/ ClockTick
  \/ TimerIRQ
  \/ \E w \in IrqWorkers : DeviceIRQ(w)
  \/ \E t \in User : UserStep(t)
  \/ \E w \in Workers : WorkerStep(w)

Spec == Init /\ [][Next]_vars

\* The CPU does not stop: code that runs with interrupts disabled goes on, and
\* the kernel's own worker threads finish their jobs.  The clock counts in
\* hardware and the timer interrupt stays pending until it is taken, so both get
\* through even if the running thread enters the kernel over and over (SF).
\* Nothing is assumed of user threads.
Fairness ==
  /\ WF_vars(DispatchStep)
  /\ WF_vars(Deliver)
  /\ SF_vars(ClockTick)
  /\ SF_vars(TimerIRQ)
  /\ \A t \in User : WF_vars(BlockEnd(t)) /\ WF_vars(SigwaitEnd(t))
  /\ \A w \in Workers : WF_vars(ServiceTimeouts(w)) /\ WF_vars(WorkDone(w))

FairSpec == Spec /\ Fairness

-----------------------------------------------------------------------------
(***************************************************************************)
(* Properties.                                                             *)
(***************************************************************************)

Running == IF cur = None THEN {} ELSE {cur}

\* A thread is in one place: no list holds it twice, no two lists hold it, and
\* the running thread is in none (the one LinkedListItem of a thread).
OnePlace ==
  /\ Disjoint(lists)
  /\ Running \cap Listed(lists) = {}

\* No thread is lost: a worker, and a user thread that has been started and
\* has not ended, runs or is in a list the kernel will look at.
NoThreadLost ==
  \A t \in Threads :
    /\ "Term" \notin status[t]
    /\ t \in Workers \/ instance[t] = 2 \/ "Ready" \in status[t]
    => t \in Listed(lists) \cup Running

\* The list a thread is in agrees with its flags, so that the call that is to
\* wake it takes effect: Thread::unblock does nothing unless the thread is
\* flagged as blocked, signal() nothing unless it waits for a signal.
Wakeable ==
  \A t \in Threads :
    /\ t \in Members(lists, "blocked") => status[t] \cap {"Blocked", "Stopped"} # {}
    /\ t \in Members(lists, "sleep") => sleepTime[t] > 0
    /\ t \in Members(lists, "wait") => "Signal" \in status[t] /\ signal[t] # 0
    /\ t \in Members(lists, "ready") \cup Running /\ inCall[t] # "block"
         => status[t] \cap {"Blocked", "Stopped", "Term"} = {}

\* The ready queue is ordered by effective priority, highest first; getNext()
\* takes its head without looking further.
ReadySorted == Descending(lists["ready"], effectivePriority)

\* Unless a timer interrupt is pending, no ready thread is more urgent than the
\* running one, and the CPU is not idle while a thread is ready.
NoPriorityInversion ==
  phase = "run" /\ timer > now /\ lists["ready"] # <<>>
    => /\ cur # None
       /\ effectivePriority[cur] >= effectivePriority[Head(lists["ready"])]

\* "The timer event [...] will be set, so that the running thread will only be
\* interrupted, if a thread with higher priority finishes 'sleeping'": it is
\* never programmed later than the wake-up of a thread that preempts.
TimerCoversSleepers ==
  phase = "run" =>
    \A t \in Members(lists, "sleep") :
      cur = None \/ effectivePriority[t] > effectivePriority[cur]
        => timer <= sleepTime[t]

\* RateMonotonicThreadScheduler::getNextTimerEvent: "we may stop here as this
\* is the earliest time point we need to be interrupted".  When dispatch() ends,
\* the timer is not later than the wake-up of a thread that preempts.
NextTimerEventIsEarliest ==
  [][phase = "scan" /\ phase' = "run" =>
       \A t \in Members(lists', "sleep") :
         cur' = None \/ effectivePriority[t] > effectivePriority[cur']
           => timer' <= sleepTime[t]]_vars

\* Thread::sleep sends a thread to sleep "until the given absolute timepoint is
\* reached": it does not become ready earlier (but for the look-ahead).
NoEarlyRelease ==
  [][\A t \in Threads :
       t \in Members(lists, "sleep") /\ t \in Members(lists', "ready")
         => sleepTime[t] <= now + ARCH_DELAY]_vars

\* Thread::sigwait "stops execution of the thread until the signal is raised":
\* a wait ends only for a thread that signal() has taken the flag from.
WaitEndsBySignal ==
  [][\A t \in Threads :
       signal[t] # 0 /\ signal'[t] = 0 => "Signal" \notin status[t]]_vars

\* "timeout specifies a timeout in clock ticks this thread shall be woken up
\* anyway": a thread blocked with a timeout does not stay on the blocked list,
\* unless it is stopped there.  Two rounds of the service must fit before the
\* bound of the clock.
TimeoutWakes ==
  \A t \in User :
    /\ t \in Members(lists, "blocked")
    /\ blockTimeout[t] > 0
    /\ blockTimeout[t] + 2 * JobPeriod <= MaxTime
    /\ now + 2 * JobPeriod <= MaxTime
    ~> t \notin Members(lists, "blocked") \/ "Stopped" \in status[t]

\* The most urgent thread runs again after its sleep, whatever the other
\* threads do: the timer preempts them.
UrgentSleeperRuns ==
  \A t \in Threads :
    (\A u \in Threads \ {t} : Priority[u] < Priority[t])
    => (t \in Members(lists, "sleep") /\ sleepTime[t] <= MaxTime ~> cur = t)

\* LinkedList::insertAfter: ASSERT((existingItem != llItem)).
NoSelfInsert == phase # "halt"
=============================================================================
