----------------------------- MODULE Resources -----------------------------
(***************************************************************************)
(* The life of a kernel resource: tasks that acquire and release it        *)
(* (Resource, Task, TaskManager), its removal, and its deferred deletion   *)
(* by the memory manager's service and the idle thread                     *)
(* (SequentialFitMemManager).                                              *)
(*                                                                         *)
(* A system call runs with interrupts disabled and is one step, unless it  *)
(* spins for the mutex of the resource.  service() runs in a kernel thread *)
(* and idleEnter() in the idle thread, both with interrupts enabled.  Any  *)
(* ready thread may run; the idle thread runs only if no thread is ready.  *)
(* The kernel is built without SYSFS_SUPPORT, with which the directory of  *)
(* a task that ends would be one more deferred deletion.                   *)
(***************************************************************************)
EXTENDS Integers, FiniteSets

CONSTANTS
  Task, Thread, Resource, None,
  owner,                \* the task of each thread
  Partition,            \* resources with a mutex, removed with their device;
                        \* the others are files, which tasks may remove
  MayKill,              \* threads that call sc_task_kill()
  MayEnd,               \* threads that end by themselves or by a sibling
  MAX_TASK_RESOURCES,   \* entries in the table of a task
  SIZE                  \* entries of scheduledDeletion (40)

Item == Resource \cup Thread   \* threads are resources, too
Fd == 0..(MAX_TASK_RESOURCES - 1)
Pos == 0..(SIZE - 1)

ASSUME ResourcesAssumption ==
  /\ IsFiniteSet(Thread) /\ IsFiniteSet(Resource)
  /\ owner \in [Thread -> Task]
  /\ Partition \subseteq Resource /\ MayKill \subseteq Thread /\ MayEnd \subseteq Thread
  /\ MAX_TASK_RESOURCES \in Nat /\ SIZE \in Nat \ {0}
  /\ Thread \cap Resource = {} /\ None \notin Item

VARIABLES
  linked,       \* resources that a path leads to
  valid,        \* myResourceId # 0
  freed,        \* items whose memory has been given back
  refCounter,
  holder,       \* m_pThread of the mutex; it is locked unless None
  acquired,     \* acquiredResources of each task, by file descriptor
  pc, arg,      \* what each thread does, and the resource it spins for
  slots, startPos, count, safeNum,     \* scheduledDeletion, schedDeletion...
  spc, sstart, sfree, si,              \* service() and its locals
  idleTmp,      \* schedDeletionCount as read by idleEnter(), or None
  forced,       \* items deleted at once because the list was full
  refused,      \* resources whose acquire() failed after it took the mutex
  late          \* idleEnter() has stored a count that service() has lowered since

tableVars == <<linked, valid, freed, refCounter, holder, acquired, forced>>
ringVars == <<slots, startPos, count, safeNum>>
serviceVars == <<spc, sstart, sfree, si>>
vars == <<tableVars, pc, arg, ringVars, serviceVars, idleTmp, refused, late>>

TypeOK ==
  /\ linked \subseteq Resource /\ freed \subseteq Item
  /\ valid \in [Item -> BOOLEAN]
  /\ refCounter \in [Item -> Int]
  /\ holder \in [Resource -> Thread \cup {None}]
  /\ acquired \in [Task -> [Fd -> Resource \cup {None}]]
  /\ pc \in [Thread -> {"ready", "asleep", "spin", "dead"}]
  /\ arg \in [Thread -> Resource \cup {None}]
  /\ slots \in [Pos -> Item \cup {None}]
  /\ startPos \in Pos /\ count \in 0..SIZE /\ safeNum \in 0..SIZE
  /\ safeNum <= count \/ late
  /\ spc \in {"asleep", "scan"}
  /\ sstart \in Pos /\ sfree \in 0..SIZE /\ si \in 0..SIZE
  /\ idleTmp \in 0..SIZE \cup {None}
  /\ forced \subseteq Item /\ refused \subseteq Resource
  /\ late \in BOOLEAN

\* Every resource is linked and nobody has acquired one yet.
Init ==
  /\ linked = Resource /\ freed = {}
  /\ valid = [x \in Item |-> TRUE]
  /\ refCounter = [x \in Item |-> 0]
  /\ holder = [r \in Resource |-> None]
  /\ acquired = [k \in Task |-> [i \in Fd |-> None]]
  /\ pc = [t \in Thread |-> "ready"]
  /\ arg = [t \in Thread |-> None]
  /\ slots = [p \in Pos |-> None]
  /\ startPos = 0 /\ count = 0 /\ safeNum = 0
  /\ spc = "asleep" /\ sstart = 0 /\ sfree = 0 /\ si = 0
  /\ idleTmp = None
  /\ forced = {} /\ refused = {}
  /\ late = FALSE

Owned(k) == {acquired[k][i] : i \in Fd} \ {None}
Living(k) == {t \in Thread : owner[t] = k /\ pc[t] # "dead"}

\* No thread is ready; only then does the dispatcher run the idle thread.
AllAsleep == spc = "asleep" /\ \A t \in Thread : pc[t] \in {"asleep", "dead"}

-----------------------------------------------------------------------------
FirstFree(k) ==
  LET free == {i \in Fd : acquired[k][i] = None}
  IN  CHOOSE i \in free : \A j \in free : i <= j

\* Mutation of Acquired: the counter is not put back when the call fails.
AcquiredCounted(t, r) ==
  LET k == owner[t] IN
  /\ refCounter' = [refCounter EXCEPT ![r] = @ + 1]
  /\ IF valid[r] /\ \E i \in Fd : acquired[k][i] = None
     THEN acquired' = [acquired EXCEPT ![k][FirstFree(k)] = r]
     ELSE UNCHANGED acquired
  /\ UNCHANGED refused

\* Resource::acquire() once the mutex, if any, is taken.  A resource that has
\* been removed meanwhile, and a task without a free file descriptor, leave the
\* reference counter as it was and do not release the mutex.
Acquired(t, r) ==
  LET k == owner[t] IN
  IF valid[r] /\ \E i \in Fd : acquired[k][i] = None
  THEN /\ acquired' = [acquired EXCEPT ![k][FirstFree(k)] = r]
       /\ refCounter' = [refCounter EXCEPT ![r] = @ + 1]
       /\ UNCHANGED refused
  ELSE /\ refused' = IF r \in Partition THEN refused \cup {r} ELSE refused
       /\ UNCHANGED <<acquired, refCounter>>

\* One attempt of Mutex::acquire(), and the rest of the call if it succeeds.
Attempt(t, r) ==
  /\ IF r \in Partition /\ holder[r] \notin {None, t}
     THEN /\ pc' = [pc EXCEPT ![t] = "spin"]
          /\ arg' = [arg EXCEPT ![t] = r]
          /\ UNCHANGED <<holder, acquired, refCounter, refused>>
     ELSE /\ pc' = [pc EXCEPT ![t] = "ready"]
          /\ arg' = [arg EXCEPT ![t] = None]
          /\ holder' = [holder EXCEPT ![r] = IF r \in Partition THEN t ELSE None]
          /\ Acquired(t, r)
  /\ UNCHANGED <<linked, valid, freed, ringVars, serviceVars, idleTmp, forced, late>>

\* sc_fopen(): a task that owns the resource gets its descriptor again, which
\* is a stuttering step.
Open(t, r) ==
  /\ pc[t] = "ready"
  /\ r \in linked
  /\ r \notin Owned(owner[t])
  /\ Attempt(t, r)

\* The thread spins in Mutex::acquire().  What it would do with a freed mutex
\* is undefined and not modelled.
Spin(t) ==
  /\ pc[t] = "spin"
  /\ arg[t] \notin freed
  /\ Attempt(t, arg[t])

\* Mutation of ReleaseAll: the mutex stays locked.
ReleaseAllLocked(k, S) ==
  /\ acquired' = [acquired EXCEPT ![k] =
                    [i \in Fd |-> IF acquired[k][i] \in S THEN None ELSE acquired[k][i]]]
  /\ refCounter' = [r \in Item |-> IF r \in S THEN refCounter[r] - 1 ELSE refCounter[r]]
  /\ UNCHANGED holder

\* Resource::release() of the resources S of task k, by a thread of it; the
\* mutex is unlocked whichever thread locked it.
ReleaseAll(k, S) ==
  /\ acquired' = [acquired EXCEPT ![k] =
                    [i \in Fd |-> IF acquired[k][i] \in S THEN None ELSE acquired[k][i]]]
  /\ refCounter' = [r \in Item |-> IF r \in S THEN refCounter[r] - 1 ELSE refCounter[r]]
  /\ holder' = [r \in Resource |-> IF r \in S THEN None ELSE holder[r]]

\* sc_fclose()
Close(t, r) ==
  /\ pc[t] = "ready"
  /\ r \in Owned(owner[t])
  /\ ReleaseAll(owner[t], {r})
  /\ UNCHANGED <<linked, valid, freed, forced, pc, arg, ringVars, serviceVars, idleTmp,
                 refused, late>>

-----------------------------------------------------------------------------
MODULO(a, b) == IF a >= b THEN a - b ELSE a

\* ~Resource(): a resource with a positive counter n is taken out of the tables.
Tables(a, n, x) ==
  IF n > 0
  THEN [k \in Task |-> [i \in Fd |-> IF a[k][i] = x THEN None ELSE a[k][i]]]
  ELSE a

\* Mutation of Schedule: the test for room is off by one.
ScheduleOverrun(x) ==
  /\ count <= SIZE
  /\ valid' = [valid EXCEPT ![x] = FALSE]
  /\ slots' = [slots EXCEPT ![(startPos + count) % SIZE] = x]
  /\ count' = count + 1
  /\ UNCHANGED <<freed, forced>>

\* scheduleDeletion(): "no more space in scheduled deletion list" deletes at
\* once.
Schedule(x) ==
  /\ valid' = [valid EXCEPT ![x] = FALSE]
  /\ IF count < SIZE
     THEN /\ slots' = [slots EXCEPT ![MODULO(startPos + count, SIZE)] = x]
          /\ count' = count + 1
          /\ UNCHANGED <<freed, forced>>
     ELSE /\ freed' = freed \cup {x}
          /\ forced' = forced \cup {x}
          /\ UNCHANGED <<slots, count>>

\* What Schedule(x) does to tables a, with n references to x.
Scheduled(a, n, x) == IF count < SIZE THEN a ELSE Tables(a, n, x)

\* sc_fremove() of a file: only an owner may remove; it gives up the file first.
Remove(t, r) ==
  /\ pc[t] = "ready"
  /\ r \in (linked \cap Owned(owner[t])) \ Partition
  /\ linked' = linked \ {r}
  /\ LET k == owner[t]
         fd == CHOOSE i \in Fd : acquired[k][i] = r
     IN  acquired' = Scheduled([acquired EXCEPT ![k][fd] = None], refCounter[r] - 1, r)
  /\ refCounter' = [refCounter EXCEPT ![r] = @ - 1]
  /\ holder' = [holder EXCEPT ![r] = None]
  /\ Schedule(r)
  /\ UNCHANGED <<pc, arg, startPos, safeNum, serviceVars, idleTmp, refused, late>>

\* PartitionManager::unregisterBlockDevice(): the device of a partition is
\* gone, whoever uses the partition.
Unregister(r) ==
  /\ r \in linked \cap Partition
  /\ linked' = linked \ {r}
  /\ acquired' = Scheduled(acquired, refCounter[r], r)
  /\ Schedule(r)
  /\ UNCHANGED <<refCounter, holder, pc, arg, startPos, safeNum, serviceVars, idleTmp,
                 refused, late>>

\* terminateThread(t), called by t (sc_thread_exit) or by another thread of its
\* task (sc_thread_terminate).  The last thread gives back what the task owns.
TerminateThread(t, by) ==
  /\ t \in MayEnd /\ pc[t] # "dead" /\ pc[by] = "ready" /\ owner[by] = owner[t]
  /\ pc' = [pc EXCEPT ![t] = "dead"]
  /\ arg' = [arg EXCEPT ![t] = None]
  /\ IF Living(owner[t]) = {t}
     THEN ReleaseAll(owner[t], Owned(owner[t]))
     ELSE UNCHANGED <<acquired, refCounter, holder>>
  /\ Schedule(t)
  /\ UNCHANGED <<linked, startPos, safeNum, serviceVars, idleTmp, refused, late>>

\* sc_task_kill() of another task: its threads are removed, and not scheduled
\* for deletion.
KillTask(by, k) ==
  /\ by \in MayKill /\ pc[by] = "ready" /\ owner[by] # k /\ Living(k) # {}
  /\ pc' = [t \in Thread |-> IF owner[t] = k THEN "dead" ELSE pc[t]]
  /\ arg' = [t \in Thread |-> IF owner[t] = k THEN None ELSE arg[t]]
  /\ ReleaseAll(k, Owned(k))
  /\ UNCHANGED <<linked, valid, freed, forced, ringVars, serviceVars, idleTmp, refused, late>>

Sleep(t) ==
  /\ pc[t] = "ready"
  /\ pc' = [pc EXCEPT ![t] = "asleep"]
  /\ UNCHANGED <<tableVars, arg, ringVars, serviceVars, idleTmp, refused, late>>

Wake(t) ==
  /\ pc[t] = "asleep"
  /\ pc' = [pc EXCEPT ![t] = "ready"]
  /\ UNCHANGED <<tableVars, arg, ringVars, serviceVars, idleTmp, refused, late>>

-----------------------------------------------------------------------------
\* Mutation of ServiceBegin: everything in the list is taken to be safe.
ServiceBeginAll ==
  /\ spc = "asleep"
  /\ spc' = "scan"
  /\ sstart' = startPos /\ sfree' = count /\ si' = 0
  /\ UNCHANGED <<tableVars, pc, arg, ringVars, idleTmp, refused, late>>

\* service(), first critical section.
ServiceBegin ==
  /\ spc = "asleep"
  /\ spc' = "scan"
  /\ sstart' = startPos /\ sfree' = safeNum /\ si' = 0
  /\ UNCHANGED <<tableVars, pc, arg, ringVars, idleTmp, refused, late>>

IsDeletionSafe(x) == refCounter[x] <= 0

\* One iteration of the loop.  Nobody can find the resource any more, so its
\* counter cannot rise between the test and the deletion.
ServiceVisit ==
  /\ spc = "scan" /\ si < sfree
  /\ si' = si + 1
  /\ LET p == MODULO(sstart + si, SIZE)
         x == slots[p]
     IN  \/ /\ x = None
            /\ UNCHANGED <<valid, freed, forced, acquired, slots, count>>
         \/ /\ x # None /\ IsDeletionSafe(x)
            /\ slots' = [slots EXCEPT ![p] = None]
            /\ freed' = freed \cup {x}
            /\ UNCHANGED <<valid, forced, acquired, count>>
         \/ /\ x # None /\ ~IsDeletionSafe(x)
            /\ acquired' = Scheduled(acquired, refCounter[x], x)
            /\ Schedule(x)
  /\ UNCHANGED <<linked, refCounter, holder, pc, arg, startPos, safeNum, spc, sstart,
                 sfree, idleTmp, refused, late>>

\* Mutation of ServiceEnd: the list starts behind what was requeued, too.
ServiceEndAll ==
  /\ spc = "scan" /\ si = sfree
  /\ spc' = "asleep"
  /\ startPos' = MODULO(startPos + count, SIZE)
  /\ count' = 0 /\ safeNum' = 0
  /\ sstart' = 0 /\ sfree' = 0 /\ si' = 0     \* the locals end
  /\ UNCHANGED <<tableVars, pc, arg, slots, idleTmp, refused, late>>

\* service(), last critical section.
ServiceEnd ==
  /\ spc = "scan" /\ si = sfree
  /\ spc' = "asleep"
  /\ startPos' = MODULO(startPos + sfree, SIZE)
  /\ count' = count - sfree
  /\ safeNum' = 0
  /\ sstart' = 0 /\ sfree' = 0 /\ si' = 0     \* the locals end
  /\ UNCHANGED <<tableVars, pc, arg, slots, idleTmp, refused, late>>

\* idleEnter() reads the count ...
IdleLoad ==
  /\ AllAsleep /\ idleTmp = None
  /\ idleTmp' = count
  /\ UNCHANGED <<tableVars, pc, arg, ringVars, serviceVars, refused, late>>

\* Mutation of IdleStore: the count is not stored.
IdleStoreNot ==
  /\ AllAsleep /\ idleTmp # None
  /\ idleTmp' = None
  /\ UNCHANGED <<tableVars, pc, arg, ringVars, serviceVars, refused, late>>

\* ... and stores it, perhaps after other threads have run.  If service() has
\* run the list may be shorter by now; what follows is not modelled.
IdleStore ==
  /\ AllAsleep /\ idleTmp # None
  /\ safeNum' = idleTmp
  /\ idleTmp' = None
  /\ late' = (idleTmp > count)
  /\ UNCHANGED <<tableVars, pc, arg, slots, startPos, count, serviceVars, refused>>

Service == ServiceBegin \/ ServiceVisit \/ ServiceEnd

Step ==
  \/ \E t \in Thread :
       \/ \E r \in Resource : Open(t, r) \/ Close(t, r) \/ Remove(t, r)
       \/ \E u \in Thread : TerminateThread(u, t)
       \/ \E k \in Task : KillTask(t, k)
       \/ Spin(t) \/ Sleep(t) \/ Wake(t)
  \/ \E r \in Partition : Unregister(r)
  \/ Service
  \/ IdleLoad \/ IdleStore

\* What the kernel does once the count was stored late is left open.
Next == (~late /\ Step) \/ (late /\ UNCHANGED vars)

Spec == Init /\ [][Next]_vars

\* The service thread is periodic and kernel code makes progress; the idle
\* thread runs whenever no other thread is ready.
Fairness ==
  /\ WF_vars(~late /\ Service)
  /\ SF_vars(~late /\ IdleLoad) /\ SF_vars(~late /\ IdleStore)

FairSpec == Spec /\ Fairness

-----------------------------------------------------------------------------
\* "Number of tasks holding a reference to this resource" is exact, whichever
\* way a call fails; no task keeps a resource when its threads are gone; and no
\* table holds freed memory, even if the list of deletions was full.
References(r) == {e \in Task \X Fd : acquired[e[1]][e[2]] = r}
TablesSound ==
  \A r \in Resource :
    /\ r \notin freed => refCounter[r] = Cardinality(References(r))
    /\ r \in freed => References(r) = {}
    /\ \A e \in References(r) : Living(e[1]) # {}

\* "safe to delete as all threads are currently asleep": memory is given back
\* only when no path leads to the resource and no thread spins for it or runs
\* in it, although a spinning thread is not counted in refCounter.  What the
\* kernel deletes at once because the list is full is the exception.
NoUseAfterFree ==
  /\ linked \cap freed = {}
  /\ \A t \in Thread : pc[t] = "spin" => arg[t] \notin freed \ forced
  /\ \A t \in Thread \cap freed : pc[t] = "dead"

\* The mutex of a resource is not left locked by a task that does not own the
\* resource any more, however its threads end; only a call of acquire() that
\* fails after it took the mutex leaves it locked.
LockedIsOwned ==
  \A r \in Partition \ (freed \cup refused) :
    holder[r] # None => r \in Owned(owner[holder[r]])

\* The part of scheduledDeletion that service() has still to look at: every
\* item whose deletion has been scheduled is in it once, also while service()
\* requeues items, and nothing that has been freed is.
ToVisit == (IF spc = "scan" THEN si ELSE 0)..(count - 1)
Places(x) == {j \in ToVisit : slots[MODULO(startPos + j, SIZE)] = x}
ScheduledOnce ==
  ~late => \A x \in Item :
    Cardinality(Places(x)) = IF valid[x] \/ x \in freed THEN 0 ELSE 1

\* "Resources will be freed if the idle thread is executed once": if all threads
\* are asleep again and again, what is scheduled and not referenced is freed.
DeletedWhenIdle ==
  []<>AllAsleep =>
    \A x \in Resource : (~valid[x] /\ refCounter[x] = 0) ~> (x \in freed \/ late)
=============================================================================
