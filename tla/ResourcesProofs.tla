-------------------------- MODULE ResourcesProofs --------------------------
(***************************************************************************)
(* Proofs about module Resources, for any tasks, threads and resources and *)
(* any size of the tables and of the list of deletions.                    *)
(***************************************************************************)
EXTENDS Resources, WellFoundedInduction, FiniteSetTheorems, TLAPS

-----------------------------------------------------------------------------
(* The inductive invariant: the list of deletions.                         *)

\* What a path leads to, and a thread that has not ended, has not been given up.
InUseValid ==
  /\ \A r \in linked : valid[r] /\ r \notin freed
  /\ \A t \in Thread : pc[t] # "dead" => valid[t] /\ t \notin freed

\* service() looks at a prefix of the list, which nobody shortens meanwhile.
ScanSound == spc = "scan" => sstart = startPos /\ si <= sfree /\ sfree <= count

\* The entry j of the list, and the entries from lo on that hold x.
Entry(j) == slots[MODULO(startPos + j, SIZE)]
From(lo, x) == {j \in lo..(count - 1) : Entry(j) = x}
Lower == IF spc = "scan" THEN si ELSE 0

\* An item that was given up and is not freed has one entry to be visited.
ListedOnce ==
  ~late => \A x \in Item :
    IF valid[x] \/ x \in freed THEN From(Lower, x) = {}
    ELSE \E j \in From(Lower, x) : From(Lower, x) = {j}

\* The entries that service() may free now; no thread spins for one of them,
\* because all threads were asleep when idleEnter() stored the count.
SafePart == IF spc = "scan" THEN si..(sfree - 1) ELSE 0..(safeNum - 1)
SafeNotSpun ==
  ~late => \A t \in Thread : pc[t] = "spin" => \A j \in SafePart : Entry(j) # arg[t]

\* A thread spins for a resource with a mutex that it does not hold.
SpinKnown ==
  \A t \in Thread : pc[t] = "spin" => arg[t] \in Partition /\ holder[arg[t]] # t

ListInv ==
  TypeOK /\ InUseValid /\ ScanSound /\ ListedOnce /\ SafeNotSpun /\ SpinKnown /\ NoUseAfterFree

-----------------------------------------------------------------------------
(* The inductive invariant: the tables of the tasks.                       *)

\* A task has one descriptor for a resource.
OncePerTask ==
  \A k \in Task : \A i, j \in Fd :
    acquired[k][i] = acquired[k][j] /\ acquired[k][i] # None => i = j

\* The task that owns a resource with a mutex is the one that holds the mutex.
OwnerHolds ==
  \A r \in Partition, k \in Task :
    r \in Owned(k) => holder[r] # None /\ owner[holder[r]] = k

ReferencesFinite == \A r \in Resource : IsFiniteSet(References(r))

TableInv == OncePerTask /\ OwnerHolds /\ ReferencesFinite /\ TablesSound /\ LockedIsOwned

IInv == ListInv /\ TableInv

-----------------------------------------------------------------------------
(* Types.                                                                  *)

Tables2 == [Task -> [Fd -> Resource \cup {None}]]

\* A set of numbers that is not empty has a least element.
LEMMA LeastNumber ==
  ASSUME NEW T, T \subseteq Nat, T # {}
  PROVE  \E x \in T : \A y \in T : x <= y
<1>1. PICK x \in T : \A y \in T : ~(<<y, x>> \in OpToRel(<, Nat))
  BY WFMin, NatLessThanWellFounded
<1>2. \A y \in T : x <= y
  <2> SUFFICES ASSUME NEW y \in T PROVE x <= y
    OBVIOUS
  <2>1. x \in Nat /\ y \in Nat
    OBVIOUS
  <2>2. ~(<<y, x>> \in OpToRel(<, Nat))
    BY <1>1
  <2>3. ~(y < x)
    BY <2>1, <2>2 DEF OpToRel
  <2> QED  BY <2>1, <2>3
<1> QED  BY <1>2

\* The descriptor that is chosen is free.
LEMMA FirstFreeIsFree ==
  ASSUME NEW k \in Task, \E i \in Fd : acquired[k][i] = None
  PROVE  FirstFree(k) \in Fd /\ acquired[k][FirstFree(k)] = None
<1> DEFINE free == {i \in Fd : acquired[k][i] = None}
<1>1. free \subseteq Nat /\ free # {}
  BY ResourcesAssumption DEF Fd
<1>2. \E i \in free : \A j \in free : i <= j
  BY <1>1, LeastNumber
<1>3. FirstFree(k) \in free
  BY <1>2 DEF FirstFree
<1> QED  BY <1>3

\* What ~Resource() does to tables keeps their type.
LEMMA ScheduledType ==
  ASSUME NEW a \in Tables2, NEW n, NEW x
  PROVE  Scheduled(a, n, x) \in Tables2
BY DEF Scheduled, Tables, Tables2

\* scheduleDeletion() keeps the types, and does not shorten the list.
LEMMA ScheduleType ==
  ASSUME TypeOK, NEW x \in Item, Schedule(x)
  PROVE  /\ valid' \in [Item -> BOOLEAN]
         /\ slots' \in [Pos -> Item \cup {None}]
         /\ count' \in 0..SIZE /\ count <= count'
         /\ freed' \subseteq Item /\ forced' \subseteq Item
<1>1. SIZE \in Nat \ {0} /\ count \in 0..SIZE /\ startPos \in 0..(SIZE - 1)
  BY ResourcesAssumption DEF TypeOK, Pos
<1>2. valid' \in [Item -> BOOLEAN]
  BY DEF TypeOK, Schedule
<1>3. slots' \in [Pos -> Item \cup {None}]
  BY DEF TypeOK, Schedule
<1>4. count' \in 0..SIZE /\ count <= count'
  BY <1>1 DEF Schedule
<1>5. freed' \subseteq Item /\ forced' \subseteq Item
  BY DEF TypeOK, Schedule
<1> QED  BY <1>2, <1>3, <1>4, <1>5

\* Resource::release() keeps the types.
LEMMA ReleaseAllType ==
  ASSUME TypeOK, NEW k \in Task, NEW S \in SUBSET Resource, ReleaseAll(k, S)
  PROVE  /\ acquired' \in Tables2
         /\ refCounter' \in [Item -> Int]
         /\ holder' \in [Resource -> Thread \cup {None}]
<1>1. acquired \in Tables2 /\ acquired[k] \in [Fd -> Resource \cup {None}]
  BY DEF TypeOK, Tables2
<1>2. [i \in Fd |-> IF acquired[k][i] \in S THEN None ELSE acquired[k][i]]
        \in [Fd -> Resource \cup {None}]
  BY <1>1
<1>3. acquired' \in Tables2
  BY <1>1, <1>2 DEF ReleaseAll, Tables2
<1>4. refCounter' \in [Item -> Int] /\ holder' \in [Resource -> Thread \cup {None}]
  BY DEF TypeOK, ReleaseAll
<1> QED  BY <1>3, <1>4

\* Resource::acquire() keeps the types, whether it succeeds or fails.
LEMMA AcquiredType ==
  ASSUME TypeOK, NEW t \in Thread, NEW r \in Resource, Acquired(t, r)
  PROVE  /\ acquired' \in Tables2
         /\ refCounter' \in [Item -> Int]
         /\ refused' \subseteq Resource
<1>1. owner[t] \in Task
  BY ResourcesAssumption
<1>2. PICK k \in Task : k = owner[t]
  BY <1>1
<1>3. acquired \in Tables2 /\ acquired[k] \in [Fd -> Resource \cup {None}]
  BY DEF TypeOK, Tables2
<1>4. r \in Item /\ refCounter[r] \in Int /\ refCounter \in [Item -> Int]
  BY DEF TypeOK, Item
<1>5. CASE valid[r] /\ \E i \in Fd : acquired[k][i] = None
  <2>1. acquired' = [acquired EXCEPT ![k][FirstFree(k)] = r]
    BY <1>2, <1>5 DEF Acquired
  <2>2. acquired' \in Tables2
    BY <2>1, <1>3 DEF Tables2
  <2>3. refCounter' = [refCounter EXCEPT ![r] = @ + 1] /\ UNCHANGED refused
    BY <1>2, <1>5 DEF Acquired
  <2> QED  BY <2>2, <2>3, <1>4 DEF TypeOK
<1>6. CASE ~(valid[r] /\ \E i \in Fd : acquired[k][i] = None)
  <2>1. UNCHANGED <<acquired, refCounter>> /\ refused' \subseteq refused \cup {r}
    BY <1>2, <1>6 DEF Acquired
  <2> QED  BY <2>1, <1>3, <1>4 DEF TypeOK
<1> QED  BY <1>5, <1>6

\* An attempt to take the mutex keeps the types.
LEMMA AttemptType ==
  ASSUME TypeOK, NEW t \in Thread, NEW r \in Resource, Attempt(t, r)
  PROVE  TypeOK'
<1>1. CASE r \in Partition /\ holder[r] \notin {None, t}
  <2>1. /\ pc' = [pc EXCEPT ![t] = "spin"] /\ arg' = [arg EXCEPT ![t] = r]
        /\ UNCHANGED <<holder, acquired, refCounter, refused>>
        /\ UNCHANGED <<linked, valid, freed, ringVars, serviceVars, idleTmp, forced, late>>
    BY <1>1 DEF Attempt
  <2>2. pc' \in [Thread -> {"ready", "asleep", "spin", "dead"}]
        /\ arg' \in [Thread -> Resource \cup {None}]
    BY <2>1 DEF TypeOK
  <2> QED  BY <2>1, <2>2 DEF TypeOK, ringVars, serviceVars
<1>2. CASE ~(r \in Partition /\ holder[r] \notin {None, t})
  <2>1. /\ pc' = [pc EXCEPT ![t] = "ready"] /\ arg' = [arg EXCEPT ![t] = None]
        /\ holder' = [holder EXCEPT ![r] = IF r \in Partition THEN t ELSE None]
        /\ Acquired(t, r)
        /\ UNCHANGED <<linked, valid, freed, ringVars, serviceVars, idleTmp, forced, late>>
    BY <1>2 DEF Attempt
  <2>2. /\ pc' \in [Thread -> {"ready", "asleep", "spin", "dead"}]
        /\ arg' \in [Thread -> Resource \cup {None}]
        /\ holder' \in [Resource -> Thread \cup {None}]
    BY <2>1 DEF TypeOK
  <2>3. /\ acquired' \in [Task -> [Fd -> Resource \cup {None}]]
        /\ refCounter' \in [Item -> Int]
        /\ refused' \subseteq Resource
    BY <2>1, AcquiredType DEF Tables2
  <2> QED  BY <2>1, <2>2, <2>3 DEF TypeOK, ringVars, serviceVars
<1> QED  BY <1>1, <1>2

\* What a task owns are resources.
LEMMA OwnedType ==
  ASSUME TypeOK, NEW k \in Task
  PROVE  Owned(k) \subseteq Resource
BY DEF TypeOK, Owned

\* sc_fclose() keeps the types.
LEMMA CloseType ==
  ASSUME TypeOK, NEW t \in Thread, NEW r \in Resource, Close(t, r)
  PROVE  TypeOK'
<1>1. owner[t] \in Task
  BY ResourcesAssumption
<1>2. /\ acquired' \in [Task -> [Fd -> Resource \cup {None}]]
      /\ refCounter' \in [Item -> Int]
      /\ holder' \in [Resource -> Thread \cup {None}]
  BY <1>1, ReleaseAllType DEF Close, Tables2
<1> QED  BY <1>2 DEF TypeOK, Close, ringVars, serviceVars

\* sc_fremove() keeps the types.
LEMMA RemoveType ==
  ASSUME TypeOK, NEW t \in Thread, NEW r \in Resource, Remove(t, r)
  PROVE  TypeOK'
<1>1. PICK k \in Task : k = owner[t]
  BY ResourcesAssumption
<1>2. PICK fd : fd = CHOOSE i \in Fd : acquired[k][i] = r
  OBVIOUS
<1>3. acquired' = Scheduled([acquired EXCEPT ![k][fd] = None], refCounter[r] - 1, r)
  BY <1>1, <1>2 DEF Remove
<1>4. [acquired EXCEPT ![k][fd] = None] \in Tables2
  BY DEF TypeOK, Tables2
<1>5. acquired' \in [Task -> [Fd -> Resource \cup {None}]]
  BY <1>3, <1>4, ScheduledType DEF Tables2
<1>6. r \in Item
  BY DEF Item
<1>7. /\ valid' \in [Item -> BOOLEAN]
      /\ slots' \in [Pos -> Item \cup {None}]
      /\ count' \in 0..SIZE /\ count <= count'
      /\ freed' \subseteq Item /\ forced' \subseteq Item
  BY <1>6, ScheduleType DEF Remove
<1>8. refCounter' \in [Item -> Int] /\ holder' \in [Resource -> Thread \cup {None}]
  BY <1>6 DEF TypeOK, Remove
<1>9. safeNum <= count' \/ late
  BY <1>7 DEF TypeOK
<1> QED  BY <1>5, <1>7, <1>8, <1>9 DEF TypeOK, Remove, serviceVars

\* unregisterBlockDevice() keeps the types.
LEMMA UnregisterType ==
  ASSUME TypeOK, NEW r \in Resource, Unregister(r)
  PROVE  TypeOK'
<1>1. r \in Item /\ acquired \in Tables2
  BY DEF TypeOK, Item, Tables2
<1>2. acquired' \in [Task -> [Fd -> Resource \cup {None}]]
  BY <1>1, ScheduledType DEF Unregister, Tables2
<1>3. /\ valid' \in [Item -> BOOLEAN]
      /\ slots' \in [Pos -> Item \cup {None}]
      /\ count' \in 0..SIZE /\ count <= count'
      /\ freed' \subseteq Item /\ forced' \subseteq Item
  BY <1>1, ScheduleType DEF Unregister
<1>4. safeNum <= count' \/ late
  BY <1>3 DEF TypeOK
<1> QED  BY <1>2, <1>3, <1>4 DEF TypeOK, Unregister, serviceVars

\* terminateThread() keeps the types.
LEMMA TerminateThreadType ==
  ASSUME TypeOK, NEW t \in Thread, NEW by \in Thread, TerminateThread(t, by)
  PROVE  TypeOK'
<1>1. owner[t] \in Task /\ t \in Item
  BY ResourcesAssumption DEF Item
<1>2. Owned(owner[t]) \in SUBSET Resource
  BY <1>1, OwnedType
<1>3. /\ acquired' \in [Task -> [Fd -> Resource \cup {None}]]
      /\ refCounter' \in [Item -> Int]
      /\ holder' \in [Resource -> Thread \cup {None}]
  <2>1. CASE Living(owner[t]) = {t}
    BY <2>1, <1>1, <1>2, ReleaseAllType DEF TerminateThread, Tables2
  <2>2. CASE Living(owner[t]) # {t}
    BY <2>2 DEF TypeOK, TerminateThread
  <2> QED  BY <2>1, <2>2
<1>4. /\ valid' \in [Item -> BOOLEAN]
      /\ slots' \in [Pos -> Item \cup {None}]
      /\ count' \in 0..SIZE /\ count <= count'
      /\ freed' \subseteq Item /\ forced' \subseteq Item
  BY <1>1, ScheduleType DEF TerminateThread
<1>5. /\ pc' \in [Thread -> {"ready", "asleep", "spin", "dead"}]
      /\ arg' \in [Thread -> Resource \cup {None}]
  BY DEF TypeOK, TerminateThread
<1>6. safeNum <= count' \/ late
  BY <1>4 DEF TypeOK
<1> QED  BY <1>3, <1>4, <1>5, <1>6 DEF TypeOK, TerminateThread, serviceVars

\* sc_task_kill() keeps the types.
LEMMA KillTaskType ==
  ASSUME TypeOK, NEW by \in Thread, NEW k \in Task, KillTask(by, k)
  PROVE  TypeOK'
<1>1. Owned(k) \in SUBSET Resource
  BY OwnedType
<1>2. /\ acquired' \in [Task -> [Fd -> Resource \cup {None}]]
      /\ refCounter' \in [Item -> Int]
      /\ holder' \in [Resource -> Thread \cup {None}]
  BY <1>1, ReleaseAllType DEF KillTask, Tables2
<1>3. /\ pc' \in [Thread -> {"ready", "asleep", "spin", "dead"}]
      /\ arg' \in [Thread -> Resource \cup {None}]
  BY DEF TypeOK, KillTask
<1> QED  BY <1>2, <1>3 DEF TypeOK, KillTask, ringVars, serviceVars

\* A thread that sleeps or wakes keeps the types.
LEMMA SleepWakeType ==
  ASSUME TypeOK, NEW t \in Thread, Sleep(t) \/ Wake(t)
  PROVE  TypeOK'
<1>1. pc' \in [Thread -> {"ready", "asleep", "spin", "dead"}]
  BY DEF TypeOK, Sleep, Wake
<1>2. UNCHANGED <<tableVars, arg, ringVars, serviceVars, idleTmp, refused, late>>
  BY DEF Sleep, Wake
<1> QED  BY <1>1, <1>2 DEF TypeOK, tableVars, ringVars, serviceVars

\* service() keeps the types; it removes no more entries than there are.
LEMMA ServiceType ==
  ASSUME TypeOK, ScanSound, ~late, Service
  PROVE  TypeOK'
<1>1. /\ SIZE \in Nat \ {0} /\ count \in 0..SIZE /\ startPos \in 0..(SIZE - 1)
      /\ sfree \in 0..SIZE /\ si \in 0..SIZE /\ safeNum \in 0..count
  BY ResourcesAssumption DEF TypeOK, Pos
<1>2. CASE ServiceBegin
  BY <1>1, <1>2 DEF TypeOK, ServiceBegin, tableVars, ringVars
<1>3. CASE ServiceEnd
  <2>1. count - sfree \in 0..SIZE
    BY <1>1, <1>3 DEF ScanSound, ServiceEnd
  <2>2. MODULO(startPos + sfree, SIZE) \in Pos /\ 0 \in Pos
    BY <1>1 DEF MODULO, Pos
  <2> QED  BY <2>1, <2>2, <1>1, <1>3 DEF TypeOK, ServiceEnd, tableVars
<1>4. CASE ServiceVisit
  <2>1. PICK x : x = slots[MODULO(sstart + si, SIZE)]
    OBVIOUS
  <2>2. MODULO(sstart + si, SIZE) \in Pos
    BY <1>1, <1>4 DEF ServiceVisit, ScanSound, MODULO, Pos
  <2>3. x \in Item \cup {None}
    BY <2>1, <2>2 DEF TypeOK
  <2>4. si + 1 \in 0..SIZE
    BY <1>1, <1>4 DEF ServiceVisit
  <2>5. /\ valid' \in [Item -> BOOLEAN]
        /\ slots' \in [Pos -> Item \cup {None}]
        /\ count' \in 0..SIZE /\ count <= count'
        /\ freed' \subseteq Item /\ forced' \subseteq Item
    <3>1. CASE UNCHANGED <<valid, freed, forced, slots, count>>
      BY <3>1, <1>1 DEF TypeOK
    <3>2. CASE /\ x # None
               /\ slots' = [slots EXCEPT ![MODULO(sstart + si, SIZE)] = None]
               /\ freed' = freed \cup {x}
               /\ UNCHANGED <<valid, forced, count>>
      <4>1. slots' \in [Pos -> Item \cup {None}]
        BY <3>2 DEF TypeOK
      <4>2. valid' \in [Item -> BOOLEAN] /\ freed' \subseteq Item /\ forced' \subseteq Item
        BY <3>2, <2>3 DEF TypeOK
      <4>3. count' \in 0..SIZE /\ count <= count'
        BY <3>2, <1>1
      <4> QED  BY <4>1, <4>2, <4>3
    <3>3. CASE x # None /\ Schedule(x)
      BY <3>3, <2>3, ScheduleType
    <3>4. \/ UNCHANGED <<valid, freed, forced, slots, count>>
          \/ /\ x # None
             /\ slots' = [slots EXCEPT ![MODULO(sstart + si, SIZE)] = None]
             /\ freed' = freed \cup {x}
             /\ UNCHANGED <<valid, forced, count>>
          \/ x # None /\ Schedule(x)
      BY <2>1, <1>4 DEF ServiceVisit
    <3> QED  BY <3>1, <3>2, <3>3, <3>4
  <2>6. acquired' \in [Task -> [Fd -> Resource \cup {None}]]
    <3>1. acquired \in Tables2
      BY DEF TypeOK, Tables2
    <3>2. UNCHANGED acquired \/ acquired' = Scheduled(acquired, refCounter[x], x)
      BY <2>1, <1>4 DEF ServiceVisit
    <3> QED  BY <3>1, <3>2, ScheduledType DEF Tables2
  <2>7. safeNum <= count'
    BY <2>5, <1>1
  <2> QED  BY <2>4, <2>5, <2>6, <2>7, <1>4 DEF TypeOK, ServiceVisit
<1> QED  BY <1>2, <1>3, <1>4 DEF Service

\* idleEnter() keeps the types, and notices a count that is too high.
LEMMA IdleType ==
  ASSUME TypeOK, ~late, IdleLoad \/ IdleStore
  PROVE  TypeOK'
<1>1. CASE IdleLoad
  BY <1>1 DEF TypeOK, IdleLoad, tableVars, ringVars, serviceVars
<1>2. CASE IdleStore
  <2>1. SIZE \in Nat /\ idleTmp \in 0..SIZE /\ count \in 0..SIZE
    BY <1>2, ResourcesAssumption DEF TypeOK, IdleStore
  <2>2. /\ safeNum' = idleTmp /\ idleTmp' = None /\ late' = (idleTmp > count)
        /\ UNCHANGED <<tableVars, pc, arg, slots, startPos, count, serviceVars, refused>>
    BY <1>2 DEF IdleStore
  <2>3. late' \in BOOLEAN /\ count' = count
    BY <2>2
  <2>4. safeNum' <= count' \/ late'
    <3>1. CASE idleTmp > count
      BY <3>1, <2>2
    <3>2. CASE idleTmp <= count
      BY <3>2, <2>1, <2>2, <2>3
    <3> QED  BY <3>1, <3>2, <2>1
  <2> QED  BY <2>1, <2>2, <2>3, <2>4 DEF TypeOK, tableVars, serviceVars
<1> QED  BY <1>1, <1>2

-----------------------------------------------------------------------------
(* The list of deletions.                                                  *)

\* The entries of the list are in different slots.
LEMMA EntryPlaces ==
  ASSUME TypeOK, NEW i \in 0..(SIZE - 1), NEW j \in 0..(SIZE - 1)
  PROVE  /\ MODULO(startPos + i, SIZE) \in Pos
         /\ MODULO(startPos + i, SIZE) = MODULO(startPos + j, SIZE) => i = j
<1>1. SIZE \in Nat \ {0} /\ startPos \in 0..(SIZE - 1)
  BY ResourcesAssumption DEF TypeOK, Pos
<1> QED  BY <1>1 DEF MODULO, Pos

\* What service() may free now is a part of what it has still to look at.
LEMMA SafePartListed ==
  ASSUME ListInv, ~late, NEW j \in SafePart
  PROVE  j \in Lower..(count - 1) /\ j \in 0..(SIZE - 1)
<1>1. /\ SIZE \in Nat \ {0} /\ count \in 0..SIZE /\ safeNum \in 0..count
      /\ sfree \in 0..SIZE /\ si \in 0..SIZE
  BY ResourcesAssumption DEF ListInv, TypeOK
<1>2. CASE spc = "scan"
  BY <1>1, <1>2 DEF ListInv, ScanSound, SafePart, Lower
<1>3. CASE spc # "scan"
  BY <1>1, <1>3 DEF SafePart, Lower
<1> QED  BY <1>2, <1>3

\* The invariants of the list, of a step that leaves the list alone.  A thread
\* may only start to spin for what a path leads to.
LEMMA ListKept ==
  ASSUME ListInv, ~late,
         UNCHANGED <<linked, valid, freed, forced, ringVars, serviceVars, late>>,
         \A t \in Thread : pc'[t] # "dead" => pc[t] # "dead",
         \A t \in Thread : pc'[t] = "spin" =>
           (pc[t] = "spin" /\ arg'[t] = arg[t]) \/ arg'[t] \in linked
  PROVE  InUseValid' /\ ScanSound' /\ ListedOnce' /\ SafeNotSpun' /\ NoUseAfterFree'
<1> USE DEF ringVars, serviceVars
<1>1. InUseValid'
  BY DEF ListInv, InUseValid
<1>2. ScanSound'
  BY DEF ListInv, ScanSound
<1>3. (\A j : Entry(j)' = Entry(j)) /\ Lower' = Lower /\ SafePart' = SafePart
  BY DEF Entry, Lower, SafePart
<1>4. ListedOnce'
  BY <1>3 DEF ListInv, ListedOnce, From
<1>5. SafeNotSpun'
  <2> SUFFICES ASSUME NEW t \in Thread, pc'[t] = "spin", NEW j \in SafePart
               PROVE  Entry(j) # arg'[t]
    BY <1>3 DEF SafeNotSpun
  <2>1. CASE pc[t] = "spin" /\ arg'[t] = arg[t]
    BY <2>1 DEF ListInv, SafeNotSpun
  <2>2. CASE arg'[t] \in linked
    <3>1. arg'[t] \in Item /\ valid[arg'[t]]
      BY <2>2 DEF ListInv, TypeOK, InUseValid, Item
    <3>2. From(Lower, arg'[t]) = {}
      BY <3>1 DEF ListInv, ListedOnce
    <3> QED  BY <3>2, SafePartListed DEF From
  <2> QED  BY <2>1, <2>2
<1>6. NoUseAfterFree'
  <2>1. \A t \in Thread : pc'[t] = "spin" => arg'[t] \notin freed \ forced
    BY DEF ListInv, NoUseAfterFree
  <2>2. pc \in [Thread -> {"ready", "asleep", "spin", "dead"}]
    BY DEF ListInv, TypeOK
  <2>3. \A t \in Thread \cap freed : pc'[t] = "dead"
    BY DEF ListInv, NoUseAfterFree
  <2> QED  BY <2>1, <2>3 DEF ListInv, NoUseAfterFree
<1> QED  BY <1>1, <1>2, <1>4, <1>5, <1>6

\* scheduleDeletion() appends one entry, or none if the list is full.
LEMMA ScheduleEntries ==
  ASSUME TypeOK, NEW x \in Item, Schedule(x), UNCHANGED startPos
  PROVE  /\ \A j \in 0..(count - 1) : Entry(j)' = Entry(j)
         /\ count < SIZE => slots'[MODULO(startPos + count, SIZE)] = x
<1>1. SIZE \in Nat \ {0} /\ count \in 0..SIZE
  BY ResourcesAssumption DEF TypeOK
<1>2. CASE count < SIZE
  <2>1. slots' = [slots EXCEPT ![MODULO(startPos + count, SIZE)] = x]
    BY <1>2 DEF Schedule
  <2>2. count \in 0..(SIZE - 1) /\ \A j \in 0..(count - 1) : j \in 0..(SIZE - 1)
    BY <1>1, <1>2
  <2>3. slots'[MODULO(startPos + count, SIZE)] = x
    BY <2>1, <2>2, EntryPlaces DEF TypeOK
  <2>4. ASSUME NEW j \in 0..(count - 1) PROVE Entry(j)' = Entry(j)
    <3>1. j # count /\ j \in 0..(SIZE - 1)
      BY <1>1, <2>2
    <3>2. MODULO(startPos + j, SIZE) # MODULO(startPos + count, SIZE)
      BY <3>1, <2>2, EntryPlaces
    <3>3. MODULO(startPos + j, SIZE) \in Pos
      BY <3>1, EntryPlaces
    <3> QED  BY <3>2, <3>3, <2>1 DEF Entry, TypeOK
  <2> QED  BY <2>3, <2>4
<1>3. CASE ~(count < SIZE)
  BY <1>3 DEF Schedule, Entry
<1> QED  BY <1>2, <1>3

\* The entries for y from lo on, after x was appended.
LEMMA ScheduleFrom ==
  ASSUME TypeOK, NEW x \in Item, Schedule(x), UNCHANGED startPos,
         NEW lo \in 0..count, NEW y
  PROVE  /\ count < SIZE /\ y = x =>
              {j \in lo..(count' - 1) : Entry(j)' = y} = From(lo, y) \cup {count}
         /\ count >= SIZE \/ y # x =>
              {j \in lo..(count' - 1) : Entry(j)' = y} = From(lo, y)
<1>1. SIZE \in Nat \ {0} /\ count \in 0..SIZE /\ lo \in Nat /\ lo <= count
  BY ResourcesAssumption DEF TypeOK
<1>2. \A j \in lo..(count - 1) : Entry(j)' = Entry(j)
  BY <1>1, ScheduleEntries
<1>3. CASE count < SIZE
  <2>1. count' = count + 1 /\ \A j : j = count => Entry(j)' = x
    BY <1>3, ScheduleEntries DEF Schedule, Entry
  <2>2. \A j : j \in lo..(count' - 1) <=> j \in lo..(count - 1) \/ j = count
    BY <2>1, <1>1
  <2> QED  BY <2>1, <2>2, <1>2, <1>3, <1>1 DEF From
<1>4. CASE count >= SIZE
  <2>1. count' = count
    BY <1>4, <1>1 DEF Schedule
  <2> QED  BY <2>1, <1>2, <1>4, <1>1 DEF From
<1> QED  BY <1>1, <1>3, <1>4

\* The invariants of the list, of a step that gives up x, which nobody has
\* given up before.
LEMMA ScheduleList ==
  ASSUME ListInv, ~late, NEW x \in Item, valid[x], x \notin freed,
         Schedule(x), UNCHANGED <<startPos, safeNum, serviceVars, late>>,
         linked' \subseteq linked \ {x},
         \A t \in Thread : pc'[t] # "dead" => pc[t] # "dead" /\ t # x,
         \A t \in Thread : pc'[t] = "spin" => pc[t] = "spin" /\ arg'[t] = arg[t]
  PROVE  InUseValid' /\ ScanSound' /\ ListedOnce' /\ SafeNotSpun' /\ NoUseAfterFree'
<1>0. TypeOK /\ SIZE \in Nat \ {0} /\ count \in 0..SIZE /\ si \in 0..SIZE
  BY ResourcesAssumption DEF ListInv, TypeOK
<1>1. valid' = [valid EXCEPT ![x] = FALSE] /\ valid \in [Item -> BOOLEAN]
  BY <1>0 DEF Schedule, TypeOK
<1>2. /\ freed' = IF count < SIZE THEN freed ELSE freed \cup {x}
      /\ forced' = IF count < SIZE THEN forced ELSE forced \cup {x}
  BY DEF Schedule
<1>3. InUseValid'
  <2>1. ASSUME NEW r \in linked' PROVE valid'[r] /\ r \notin freed'
    <3>1. r \in linked /\ r # x /\ r \in Item
      BY <2>1, <1>0 DEF TypeOK, Item
    <3>2. valid[r] /\ r \notin freed
      BY <3>1 DEF ListInv, InUseValid
    <3> QED  BY <3>1, <3>2, <1>1, <1>2
  <2>2. ASSUME NEW t \in Thread, pc'[t] # "dead" PROVE valid'[t] /\ t \notin freed'
    <3>1. pc[t] # "dead" /\ t # x /\ t \in Item
      BY <2>2 DEF Item
    <3>2. valid[t] /\ t \notin freed
      BY <3>1 DEF ListInv, InUseValid
    <3> QED  BY <3>1, <3>2, <1>1, <1>2
  <2> QED  BY <2>1, <2>2 DEF InUseValid
<1>4. count <= count'
  BY <1>0, ScheduleType
<1>5. ScanSound'
  <2>1. count' \in Int /\ sfree \in Int
    BY <1>0, ScheduleType DEF TypeOK
  <2> QED  BY <2>1, <1>4, <1>0 DEF ListInv, ScanSound, serviceVars
<1>6. PICK lo : lo = Lower
  OBVIOUS
<1>7. lo \in 0..count /\ Lower' = lo
  <2>1. CASE spc = "scan"
    <3>1. si <= sfree /\ sfree <= count /\ sfree \in Int
      BY <2>1, <1>0 DEF ListInv, ScanSound, TypeOK
    <3> QED  BY <3>1, <2>1, <1>6, <1>0 DEF Lower, serviceVars
  <2>2. CASE spc # "scan"
    BY <2>2, <1>6, <1>0 DEF Lower, serviceVars
  <2> QED  BY <2>1, <2>2
<1>8. ListedOnce'
  <2> SUFFICES ASSUME NEW y \in Item
               PROVE  IF valid'[y] \/ y \in freed' THEN From(lo, y)' = {}
                      ELSE \E j \in From(lo, y)' : From(lo, y)' = {j}
    BY <1>7 DEF ListedOnce, From
  <2>1. /\ count < SIZE /\ y = x => From(lo, y)' = From(lo, y) \cup {count}
        /\ count >= SIZE \/ y # x => From(lo, y)' = From(lo, y)
    BY <1>0, <1>7, ScheduleFrom DEF From
  <2>2. IF valid[y] \/ y \in freed THEN From(lo, y) = {}
        ELSE \E j \in From(lo, y) : From(lo, y) = {j}
    BY <1>6 DEF ListInv, ListedOnce
  <2>3. CASE y # x
    <3>1. valid'[y] = valid[y] /\ (y \in freed' <=> y \in freed)
      BY <2>3, <1>1, <1>2
    <3>2. From(lo, y)' = From(lo, y)
      BY <2>1, <2>3
    <3> QED  BY <3>1, <3>2, <2>2
  <2>4. CASE y = x
    <3>1. From(lo, y) = {}
      BY <2>2, <2>4
    <3>2. CASE count < SIZE
      <4>1. ~valid'[y] /\ y \notin freed'
        BY <2>4, <3>2, <1>1, <1>2
      <4>2. From(lo, y)' = {count}
        BY <2>1, <2>4, <3>1, <3>2
      <4> QED  BY <4>1, <4>2
    <3>3. CASE count >= SIZE
      <4>1. y \in freed'
        BY <2>4, <3>3, <1>0, <1>2
      <4>2. From(lo, y)' = {}
        BY <2>1, <3>1, <3>3
      <4> QED  BY <4>1, <4>2
    <3> QED  BY <3>2, <3>3, <1>0
  <2> QED  BY <2>3, <2>4
<1>9. SafeNotSpun'
  <2>1. SafePart' = SafePart
    BY DEF SafePart, serviceVars
  <2>2. \A j \in SafePart : Entry(j)' = Entry(j)
    <3> SUFFICES ASSUME NEW j \in SafePart PROVE Entry(j)' = Entry(j)
      OBVIOUS
    <3>1. j \in Lower..(count - 1) /\ j \in 0..(SIZE - 1)
      BY SafePartListed
    <3>2. j \in 0..(count - 1)
      BY <3>1, <1>0, <1>6, <1>7
    <3> QED  BY <3>2, <1>0, ScheduleEntries
  <2> QED  BY <2>1, <2>2 DEF ListInv, SafeNotSpun
<1>10. NoUseAfterFree'
  <2>1. linked' \cap freed' = {}
    BY <1>2 DEF ListInv, NoUseAfterFree
  <2>2. \A t \in Thread : pc'[t] = "spin" => arg'[t] \notin freed' \ forced'
    BY <1>2 DEF ListInv, NoUseAfterFree
  <2>3. \A t \in Thread \cap freed' : pc'[t] = "dead"
    BY <1>2 DEF ListInv, NoUseAfterFree
  <2> QED  BY <2>1, <2>2, <2>3 DEF NoUseAfterFree
<1> QED  BY <1>3, <1>5, <1>8, <1>9, <1>10

\* service() takes its snapshot.
LEMMA ServiceBeginList ==
  ASSUME ListInv, ~late, ServiceBegin
  PROVE  InUseValid' /\ ScanSound' /\ ListedOnce' /\ SafeNotSpun' /\ NoUseAfterFree'
<1>1. /\ spc = "asleep" /\ spc' = "scan" /\ sstart' = startPos /\ sfree' = safeNum /\ si' = 0
      /\ UNCHANGED <<linked, valid, freed, forced, pc, arg, slots, startPos, count, safeNum, late>>
  BY DEF ServiceBegin, tableVars, ringVars
<1>2. InUseValid' /\ NoUseAfterFree'
  BY <1>1 DEF ListInv, InUseValid, NoUseAfterFree
<1>3. ScanSound'
  BY <1>1, ResourcesAssumption DEF ListInv, TypeOK, ScanSound
<1>4. Lower = 0 /\ Lower' = 0 /\ SafePart' = SafePart /\ \A j : Entry(j)' = Entry(j)
  BY <1>1 DEF Lower, SafePart, Entry
<1>5. ListedOnce'
  BY <1>1, <1>4 DEF ListInv, ListedOnce, From
<1>6. SafeNotSpun'
  BY <1>1, <1>4 DEF ListInv, SafeNotSpun
<1> QED  BY <1>2, <1>3, <1>5, <1>6

\* service() moves the start of the list behind what it has looked at.
LEMMA ServiceEndList ==
  ASSUME ListInv, ~late, ServiceEnd
  PROVE  InUseValid' /\ ScanSound' /\ ListedOnce' /\ SafeNotSpun' /\ NoUseAfterFree'
<1>1. /\ spc = "scan" /\ si = sfree /\ spc' = "asleep"
      /\ startPos' = MODULO(startPos + sfree, SIZE) /\ count' = count - sfree /\ safeNum' = 0
      /\ UNCHANGED <<linked, valid, freed, forced, pc, arg, slots, late>>
  BY DEF ServiceEnd, tableVars
<1>2. InUseValid' /\ NoUseAfterFree' /\ ScanSound'
  BY <1>1 DEF ListInv, InUseValid, NoUseAfterFree, ScanSound
<1>3. /\ SIZE \in Nat \ {0} /\ count \in 0..SIZE /\ startPos \in 0..(SIZE - 1)
      /\ sfree \in 0..count
  BY <1>1, ResourcesAssumption DEF ListInv, TypeOK, ScanSound, Pos
<1>4. SafePart' = {}
  BY <1>1 DEF SafePart
<1>5. SafeNotSpun'
  BY <1>4 DEF SafeNotSpun
<1>6. Lower = sfree /\ Lower' = 0
  BY <1>1 DEF Lower
<1>7. ASSUME NEW j \in 0..(count - sfree - 1) PROVE Entry(j)' = Entry(sfree + j)
  <2>1. MODULO(startPos' + j, SIZE) = MODULO(startPos + (sfree + j), SIZE)
    BY <1>1, <1>3, <1>7 DEF MODULO
  <2> QED  BY <2>1, <1>1 DEF Entry
<1>8. ListedOnce'
  <2> SUFFICES ASSUME NEW y \in Item
               PROVE  IF valid[y] \/ y \in freed THEN From(0, y)' = {}
                      ELSE \E j \in From(0, y)' : From(0, y)' = {j}
    BY <1>1, <1>6 DEF ListedOnce, From
  <2>0. From(0, y)' = {j \in 0..(count - sfree - 1) : Entry(sfree + j) = y}
    BY <1>1, <1>7 DEF From
  <2>1. CASE valid[y] \/ y \in freed
    <3>1. From(sfree, y) = {}
      BY <2>1, <1>6 DEF ListInv, ListedOnce
    <3>2. \A j \in 0..(count - sfree - 1) : sfree + j \in sfree..(count - 1)
      BY <1>3
    <3> QED  BY <3>1, <3>2, <2>0, <2>1 DEF From
  <2>2. CASE ~(valid[y] \/ y \in freed)
    <3>1. PICK h \in From(sfree, y) : From(sfree, y) = {h}
      BY <2>2, <1>6 DEF ListInv, ListedOnce
    <3>2. h \in sfree..(count - 1) /\ Entry(h) = y
      BY <3>1 DEF From
    <3>3. h - sfree \in 0..(count - sfree - 1) /\ sfree + (h - sfree) = h
      BY <3>2, <1>3
    <3>4. \A j \in 0..(count - sfree - 1) :
             Entry(sfree + j) = y => sfree + j \in From(sfree, y)
      BY <1>3 DEF From
    <3>5. \A j \in 0..(count - sfree - 1) : Entry(sfree + j) = y => j = h - sfree
      BY <3>1, <3>4, <3>2, <1>3
    <3>6. From(0, y)' = {h - sfree}
      BY <2>0, <3>2, <3>3, <3>5
    <3> QED  BY <3>6, <2>2
  <2> QED  BY <2>1, <2>2
<1> QED  BY <1>2, <1>5, <1>8

\* service() looks at one entry.  An item in that entry was given up and has no
\* other entry; no thread spins for it.
LEMMA ServiceVisitList ==
  ASSUME ListInv, ~late, ServiceVisit
  PROVE  InUseValid' /\ ScanSound' /\ ListedOnce' /\ SafeNotSpun' /\ NoUseAfterFree'
<1>1. /\ TypeOK /\ SIZE \in Nat \ {0} /\ count \in 0..SIZE /\ startPos \in 0..(SIZE - 1)
      /\ spc = "scan" /\ sstart = startPos /\ si \in Nat /\ sfree \in Nat /\ si < sfree
      /\ sfree <= count
  BY ResourcesAssumption DEF ListInv, TypeOK, ScanSound, Pos, ServiceVisit
<1>2. /\ si' = si + 1
      /\ UNCHANGED <<linked, pc, arg, startPos, safeNum, spc, sstart, sfree, late>>
  BY DEF ServiceVisit
<1>3. PICK p, x : p = MODULO(startPos + si, SIZE) /\ x = slots[p]
  OBVIOUS
<1>4. p \in Pos /\ x \in Item \cup {None} /\ Entry(si) = x
  <2>1. si \in 0..(SIZE - 1)
    BY <1>1
  <2> QED  BY <2>1, <1>1, <1>3, EntryPlaces DEF Entry, TypeOK
<1>5. PICK lo : lo = si + 1
  OBVIOUS
<1>6. lo \in 0..count /\ Lower' = lo /\ Lower = si
  BY <1>1, <1>2, <1>5 DEF Lower
<1>7. \A y : From(si, y) = IF y = x THEN From(lo, y) \cup {si} ELSE From(lo, y)
  <2>1. \A j : j \in si..(count - 1) <=> j \in lo..(count - 1) \/ j = si
    BY <1>1, <1>5
  <2> QED  BY <2>1, <1>4 DEF From
<1>8. \A y : si \notin From(lo, y)
  BY <1>1, <1>5 DEF From
<1>9. \A y \in Item : IF valid[y] \/ y \in freed THEN From(si, y) = {}
                      ELSE \E j \in From(si, y) : From(si, y) = {j}
  BY <1>6 DEF ListInv, ListedOnce
<1>10. x # None => x \in Item /\ ~valid[x] /\ x \notin freed /\ From(lo, x) = {}
  <2> SUFFICES ASSUME x # None
               PROVE  x \in Item /\ ~valid[x] /\ x \notin freed /\ From(lo, x) = {}
    OBVIOUS
  <2>1. x \in Item
    BY <1>4
  <2>2. si \in From(si, x)
    BY <1>7
  <2>3. ~(valid[x] \/ x \in freed)
    BY <2>1, <2>2, <1>9
  <2>4. PICK j \in From(si, x) : From(si, x) = {j}
    BY <2>1, <2>3, <1>9
  <2>5. From(lo, x) = {}
    BY <2>2, <2>4, <1>7, <1>8
  <2> QED  BY <2>1, <2>3, <2>5
<1>11. \A y \in Item : y # x => From(lo, y) = From(si, y)
  BY <1>7
<1>12. /\ SafePart = si..(sfree - 1) /\ SafePart' = lo..(sfree - 1)
       /\ \A j \in SafePart' : j \in SafePart /\ j # si /\ j \in 0..(count - 1)
  BY <1>1, <1>2, <1>5 DEF SafePart
<1>13. \A t \in Thread : pc[t] = "spin" =>
          arg[t] # x /\ \A j \in SafePart' : Entry(j) # arg[t]
  BY <1>1, <1>4, <1>12 DEF ListInv, SafeNotSpun
<1>14. x # None => x \notin linked /\ \A t \in Thread : t = x => pc[t] = "dead"
  BY <1>10 DEF ListInv, InUseValid
<1>15. CASE x = None /\ UNCHANGED <<valid, freed, forced, slots, count>>
  <2>1. InUseValid' /\ NoUseAfterFree'
    BY <1>15, <1>2 DEF ListInv, InUseValid, NoUseAfterFree
  <2>2. ScanSound'
    BY <1>15, <1>1, <1>2 DEF ScanSound
  <2>3. \A j : Entry(j)' = Entry(j)
    BY <1>15, <1>2 DEF Entry
  <2>4. \A y : From(lo, y)' = From(lo, y)
    BY <1>15, <2>3 DEF From
  <2>5. None \notin Item
    BY ResourcesAssumption
  <2>6. ListedOnce'
    <3>1. \A y : From(Lower, y)' = From(lo, y)
      BY <2>4, <1>6 DEF From
    <3>2. \A y \in Item : From(lo, y) = From(si, y)
      BY <1>11, <1>15, <2>5
    <3> QED  BY <3>1, <3>2, <1>9, <1>15 DEF ListedOnce
  <2>7. SafeNotSpun'
    BY <2>3, <1>13, <1>2 DEF SafeNotSpun
  <2> QED  BY <2>1, <2>2, <2>6, <2>7
<1>16. CASE /\ x # None
            /\ slots' = [slots EXCEPT ![p] = None]
            /\ freed' = freed \cup {x}
            /\ UNCHANGED <<valid, forced, count>>
  <2>1. InUseValid'
    BY <1>16, <1>2, <1>14 DEF ListInv, InUseValid
  <2>2. ScanSound'
    BY <1>16, <1>1, <1>2 DEF ScanSound
  <2>3. \A j \in 0..(count - 1) : j # si => Entry(j)' = Entry(j)
    <3> SUFFICES ASSUME NEW j \in 0..(count - 1), j # si PROVE Entry(j)' = Entry(j)
      OBVIOUS
    <3>1. j \in 0..(SIZE - 1) /\ si \in 0..(SIZE - 1)
      BY <1>1
    <3>2. MODULO(startPos + j, SIZE) # p /\ MODULO(startPos + j, SIZE) \in Pos
      BY <3>1, <1>1, <1>3, EntryPlaces
    <3> QED  BY <3>2, <1>16, <1>2, <1>1 DEF Entry, TypeOK
  <2>4. \A j \in lo..(count - 1) : j \in 0..(count - 1) /\ j # si
    BY <1>1, <1>5
  <2>5. \A y : From(Lower, y)' = From(lo, y)
    BY <2>3, <2>4, <1>16, <1>6 DEF From
  <2>6. ListedOnce'
    <3> SUFFICES ASSUME NEW y \in Item
                 PROVE  IF valid[y] \/ y \in freed' THEN From(lo, y) = {}
                        ELSE \E j \in From(lo, y) : From(lo, y) = {j}
      BY <2>5, <1>16 DEF ListedOnce
    <3>1. CASE y = x
      BY <3>1, <1>10, <1>16
    <3>2. CASE y # x
      <4>1. From(lo, y) = From(si, y) /\ (y \in freed' <=> y \in freed)
        BY <3>2, <1>11, <1>16
      <4> QED  BY <4>1, <1>9
    <3> QED  BY <3>1, <3>2
  <2>7. SafeNotSpun'
    BY <2>3, <1>12, <1>13, <1>2 DEF SafeNotSpun
  <2>8. NoUseAfterFree'
    BY <1>13, <1>14, <1>16, <1>2 DEF ListInv, NoUseAfterFree
  <2> QED  BY <2>1, <2>2, <2>6, <2>7, <2>8
<1>17. CASE x # None /\ Schedule(x)
  <2>0. x \in Item /\ ~valid[x] /\ x \notin freed /\ From(lo, x) = {}
    BY <1>10, <1>17
  <2>1. /\ valid' = valid
        /\ freed' = IF count < SIZE THEN freed ELSE freed \cup {x}
        /\ forced' = IF count < SIZE THEN forced ELSE forced \cup {x}
    BY <1>17, <2>0, <1>1 DEF Schedule, TypeOK
  <2>2. InUseValid'
    BY <2>1, <1>2, <1>14, <1>17 DEF ListInv, InUseValid
  <2>3. count <= count' /\ count' \in Int
    BY <1>17, <2>0, <1>1, ScheduleType
  <2>4. ScanSound'
    BY <2>3, <1>1, <1>2 DEF ScanSound
  <2>5. UNCHANGED startPos
    BY <1>2
  <2>6. \A j \in 0..(count - 1) : Entry(j)' = Entry(j)
    BY <1>17, <2>0, <2>5, <1>1, ScheduleEntries
  <2>7. ListedOnce'
    <3> SUFFICES ASSUME NEW y \in Item
                 PROVE  IF valid[y] \/ y \in freed' THEN From(lo, y)' = {}
                        ELSE \E j \in From(lo, y)' : From(lo, y)' = {j}
      BY <2>1, <1>6 DEF ListedOnce, From
    <3>1. /\ count < SIZE /\ y = x => From(lo, y)' = From(lo, y) \cup {count}
          /\ count >= SIZE \/ y # x => From(lo, y)' = From(lo, y)
      BY <1>17, <2>0, <2>5, <1>1, <1>6, ScheduleFrom DEF From
    <3>2. CASE y # x
      <4>1. From(lo, y)' = From(si, y) /\ (y \in freed' <=> y \in freed)
        BY <3>1, <3>2, <1>11, <2>1
      <4> QED  BY <4>1, <1>9
    <3>3. CASE y = x /\ count < SIZE
      BY <3>1, <3>3, <2>0, <2>1
    <3>4. CASE y = x /\ count >= SIZE
      <4>1. y \in freed'
        BY <3>4, <2>1, <1>1
      <4>2. From(lo, y)' = {}
        BY <3>1, <3>4, <2>0
      <4> QED  BY <4>1, <4>2
    <3> QED  BY <3>2, <3>3, <3>4, <1>1
  <2>8. SafeNotSpun'
    BY <2>6, <1>12, <1>13, <1>2 DEF SafeNotSpun
  <2>9. NoUseAfterFree'
    BY <1>14, <1>17, <2>1, <1>2 DEF ListInv, NoUseAfterFree
  <2> QED  BY <2>2, <2>4, <2>7, <2>8, <2>9
<1>18. \/ x = None /\ UNCHANGED <<valid, freed, forced, slots, count>>
       \/ /\ x # None
          /\ slots' = [slots EXCEPT ![p] = None]
          /\ freed' = freed \cup {x}
          /\ UNCHANGED <<valid, forced, count>>
       \/ x # None /\ Schedule(x)
  BY <1>1, <1>3 DEF ServiceVisit
<1> QED  BY <1>15, <1>16, <1>17, <1>18

\* idleEnter() stores the count while no thread spins.
LEMMA IdleStoreList ==
  ASSUME ListInv, ~late, IdleStore
  PROVE  InUseValid' /\ ScanSound' /\ ListedOnce' /\ SafeNotSpun' /\ NoUseAfterFree'
<1>1. /\ \A t \in Thread : pc[t] # "spin"
      /\ spc = "asleep" /\ spc' = "asleep"
      /\ UNCHANGED <<linked, valid, freed, forced, pc, arg, slots, startPos, count, serviceVars>>
  BY DEF IdleStore, AllAsleep, tableVars, serviceVars
<1>2. InUseValid' /\ NoUseAfterFree' /\ ScanSound'
  BY <1>1 DEF ListInv, InUseValid, NoUseAfterFree, ScanSound
<1>3. (\A j : Entry(j)' = Entry(j)) /\ Lower' = Lower
  BY <1>1 DEF Entry, Lower
<1>4. ListedOnce'
  BY <1>1, <1>3 DEF ListInv, ListedOnce, From
<1>5. SafeNotSpun'
  BY <1>1 DEF SafeNotSpun
<1> QED  BY <1>2, <1>4, <1>5

-----------------------------------------------------------------------------
(* Every action keeps the invariants of the list.                          *)

\* No thread starts to spin, and mutexes are at most unlocked.
LEMMA SpinKept ==
  ASSUME TypeOK, SpinKnown,
         \A t \in Thread : pc'[t] = "spin" => pc[t] = "spin" /\ arg'[t] = arg[t],
         \A r \in Resource : holder'[r] \in {holder[r], None}
  PROVE  SpinKnown'
<1> SUFFICES ASSUME NEW t \in Thread, pc'[t] = "spin"
             PROVE  arg'[t] \in Partition /\ holder'[arg'[t]] # t
  BY DEF SpinKnown
<1>1. pc[t] = "spin" /\ arg'[t] = arg[t]
  OBVIOUS
<1>2. arg[t] \in Partition /\ holder[arg[t]] # t
  BY <1>1 DEF SpinKnown
<1>3. arg[t] \in Resource /\ t # None
  BY <1>2, ResourcesAssumption DEF Item
<1> QED  BY <1>1, <1>2, <1>3

\* An attempt to take the mutex: a thread starts to spin only for a linked resource.
LEMMA AttemptList ==
  ASSUME ListInv, ~late, NEW t \in Thread, NEW r \in Resource, Attempt(t, r),
         \/ pc[t] = "ready" /\ r \in linked
         \/ pc[t] = "spin" /\ r = arg[t]
  PROVE  ListInv'
<1>0. TypeOK /\ SpinKnown /\ pc \in [Thread -> {"ready", "asleep", "spin", "dead"}]
      /\ arg \in [Thread -> Resource \cup {None}]
      /\ holder \in [Resource -> Thread \cup {None}]
  BY DEF ListInv, TypeOK
<1>1. TypeOK'
  BY <1>0, AttemptType
<1>2. UNCHANGED <<linked, valid, freed, forced, ringVars, serviceVars, late>>
  BY DEF Attempt
<1>3. CASE r \in Partition /\ holder[r] \notin {None, t}
  <2>1. /\ pc' = [pc EXCEPT ![t] = "spin"] /\ arg' = [arg EXCEPT ![t] = r]
        /\ UNCHANGED holder
    BY <1>3 DEF Attempt
  <2>2. \A u \in Thread : pc'[u] # "dead" => pc[u] # "dead"
    BY <2>1, <1>0
  <2>3. \A u \in Thread : pc'[u] = "spin" =>
           (pc[u] = "spin" /\ arg'[u] = arg[u]) \/ arg'[u] \in linked
    BY <2>1, <1>0
  <2>4. SpinKnown'
    BY <2>1, <1>0, <1>3 DEF SpinKnown
  <2> QED  BY <1>1, <1>2, <2>2, <2>3, <2>4, ListKept DEF ListInv
<1>4. CASE ~(r \in Partition /\ holder[r] \notin {None, t})
  <2>1. /\ pc' = [pc EXCEPT ![t] = "ready"] /\ arg' = [arg EXCEPT ![t] = None]
        /\ holder' = [holder EXCEPT ![r] = IF r \in Partition THEN t ELSE None]
    BY <1>4 DEF Attempt
  <2>2. \A u \in Thread : pc'[u] # "dead" => pc[u] # "dead"
    BY <2>1, <1>0
  <2>3. \A u \in Thread : pc'[u] = "spin" => u # t /\ pc[u] = "spin" /\ arg'[u] = arg[u]
    BY <2>1, <1>0
  <2>4. SpinKnown'
    <3> SUFFICES ASSUME NEW u \in Thread, pc'[u] = "spin"
                 PROVE  arg'[u] \in Partition /\ holder'[arg'[u]] # u
      BY DEF SpinKnown
    <3>1. u # t /\ arg'[u] = arg[u] /\ arg[u] \in Partition /\ holder[arg[u]] # u
      BY <2>3, <1>0 DEF SpinKnown
    <3>2. arg[u] \in Resource /\ u # None
      BY <3>1, ResourcesAssumption DEF Item
    <3> QED  BY <3>1, <3>2, <2>1, <1>0
  <2> QED  BY <1>1, <1>2, <2>2, <2>3, <2>4, ListKept DEF ListInv
<1> QED  BY <1>3, <1>4

\* sc_fopen() keeps the invariants of the list.
LEMMA OpenList ==
  ASSUME ListInv, ~late, NEW t \in Thread, NEW r \in Resource, Open(t, r)
  PROVE  ListInv'
BY AttemptList DEF Open

\* A thread that spins goes on, or takes the mutex.
LEMMA SpinList ==
  ASSUME ListInv, ~late, NEW t \in Thread, Spin(t)
  PROVE  ListInv'
<1>1. pc[t] = "spin" /\ arg[t] \in Resource
  BY ResourcesAssumption DEF Spin, ListInv, SpinKnown
<1> QED  BY <1>1, AttemptList DEF Spin

\* sc_fclose() leaves the list alone.
LEMMA CloseList ==
  ASSUME ListInv, ~late, NEW t \in Thread, NEW r \in Resource, Close(t, r)
  PROVE  ListInv'
<1>1. TypeOK /\ SpinKnown
  BY DEF ListInv
<1>2. TypeOK'
  BY <1>1, CloseType
<1>3. UNCHANGED <<linked, valid, freed, forced, ringVars, serviceVars, late>> /\ UNCHANGED <<pc, arg>>
  BY DEF Close
<1>4. \A s \in Resource : holder'[s] \in {holder[s], None}
  BY DEF Close, ReleaseAll
<1>5. SpinKnown'
  BY <1>1, <1>3, <1>4, SpinKept
<1> QED  BY <1>2, <1>3, <1>5, ListKept DEF ListInv

\* sc_task_kill() leaves the list alone.
LEMMA KillTaskList ==
  ASSUME ListInv, ~late, NEW by \in Thread, NEW k \in Task, KillTask(by, k)
  PROVE  ListInv'
<1>1. TypeOK /\ SpinKnown
  BY DEF ListInv
<1>2. TypeOK'
  BY <1>1, KillTaskType
<1>3. UNCHANGED <<linked, valid, freed, forced, ringVars, serviceVars, late>>
  BY DEF KillTask
<1>4. \A s \in Resource : holder'[s] \in {holder[s], None}
  BY DEF KillTask, ReleaseAll
<1>5. \A t \in Thread : /\ pc'[t] # "dead" => pc[t] # "dead"
                        /\ pc'[t] = "spin" => pc[t] = "spin" /\ arg'[t] = arg[t]
  BY DEF KillTask
<1>6. SpinKnown'
  BY <1>1, <1>5, <1>4, SpinKept
<1> QED  BY <1>2, <1>3, <1>5, <1>6, ListKept DEF ListInv

\* Sleeping and waking leave the list alone.
LEMMA SleepWakeList ==
  ASSUME ListInv, ~late, NEW t \in Thread, Sleep(t) \/ Wake(t)
  PROVE  ListInv'
<1>1. TypeOK /\ SpinKnown
  BY DEF ListInv
<1>2. TypeOK'
  BY <1>1, SleepWakeType
<1>3. UNCHANGED <<linked, valid, freed, forced, ringVars, serviceVars, late>> /\ UNCHANGED <<holder, arg>>
  BY DEF Sleep, Wake, tableVars
<1>4. \A u \in Thread : /\ pc'[u] # "dead" => pc[u] # "dead"
                        /\ pc'[u] = "spin" => pc[u] = "spin"
  BY <1>1 DEF Sleep, Wake, TypeOK
<1>5. SpinKnown'
  BY <1>1, <1>3, <1>4, SpinKept
<1> QED  BY <1>2, <1>3, <1>4, <1>5, ListKept DEF ListInv

\* Both steps of idleEnter() keep the invariants of the list.
LEMMA IdleList ==
  ASSUME ListInv, ~late, IdleLoad \/ IdleStore
  PROVE  ListInv'
<1>1. TypeOK /\ SpinKnown
  BY DEF ListInv
<1>2. TypeOK'
  BY <1>1, IdleType
<1>3. UNCHANGED <<holder, pc, arg>>
  BY DEF IdleLoad, IdleStore, tableVars
<1>4. SpinKnown'
  BY <1>1, <1>3, SpinKept
<1>5. CASE IdleLoad
  <2>1. UNCHANGED <<linked, valid, freed, forced, ringVars, serviceVars, late>>
    BY <1>5 DEF IdleLoad, tableVars
  <2> QED  BY <2>1, <1>2, <1>3, <1>4, ListKept DEF ListInv
<1>6. CASE IdleStore
  BY <1>6, <1>2, <1>4, IdleStoreList DEF ListInv
<1> QED  BY <1>5, <1>6

\* Every step of service() keeps the invariants of the list.
LEMMA ServiceList ==
  ASSUME ListInv, ~late, Service
  PROVE  ListInv'
<1>1. TypeOK /\ SpinKnown /\ ScanSound
  BY DEF ListInv
<1>2. TypeOK'
  BY <1>1, ServiceType
<1>3. UNCHANGED <<holder, pc, arg>>
  BY DEF Service, ServiceBegin, ServiceVisit, ServiceEnd, tableVars
<1>4. SpinKnown'
  BY <1>1, <1>3, SpinKept
<1> QED  BY <1>2, <1>4, ServiceBeginList, ServiceVisitList, ServiceEndList DEF ListInv, Service

\* sc_fremove() gives up a file that a path led to.
LEMMA RemoveList ==
  ASSUME ListInv, ~late, NEW t \in Thread, NEW r \in Resource, Remove(t, r)
  PROVE  ListInv'
<1>1. TypeOK /\ SpinKnown /\ r \in Item
  BY DEF ListInv, Item
<1>2. TypeOK'
  BY <1>1, RemoveType
<1>3. /\ UNCHANGED <<startPos, safeNum, serviceVars, late>> /\ UNCHANGED <<pc, arg>>
      /\ Schedule(r) /\ linked' = linked \ {r} /\ r \in linked
  BY DEF Remove
<1>4. valid[r] /\ r \notin freed
  BY <1>3 DEF ListInv, InUseValid
<1>5. \A u \in Thread : u # r
  BY ResourcesAssumption
<1>6. \A s \in Resource : holder'[s] \in {holder[s], None}
  BY <1>1 DEF Remove, TypeOK
<1>7. SpinKnown'
  BY <1>1, <1>3, <1>6, SpinKept
<1> QED  BY <1>1, <1>2, <1>3, <1>4, <1>5, <1>7, ScheduleList DEF ListInv

\* unregisterBlockDevice() gives up a partition that a path led to.
LEMMA UnregisterList ==
  ASSUME ListInv, ~late, NEW r \in Resource, Unregister(r)
  PROVE  ListInv'
<1>1. TypeOK /\ SpinKnown /\ r \in Item
  BY DEF ListInv, Item
<1>2. TypeOK'
  BY <1>1, UnregisterType
<1>3. /\ UNCHANGED <<startPos, safeNum, serviceVars, late>> /\ UNCHANGED <<holder, pc, arg>>
      /\ Schedule(r) /\ linked' = linked \ {r} /\ r \in linked
  BY DEF Unregister
<1>4. valid[r] /\ r \notin freed
  BY <1>3 DEF ListInv, InUseValid
<1>5. \A u \in Thread : u # r
  BY ResourcesAssumption
<1>7. SpinKnown'
  BY <1>1, <1>3, SpinKept
<1> QED  BY <1>1, <1>2, <1>3, <1>4, <1>5, <1>7, ScheduleList DEF ListInv

\* terminateThread() gives up a thread that has not ended before.
LEMMA TerminateThreadList ==
  ASSUME ListInv, ~late, NEW t \in Thread, NEW by \in Thread, TerminateThread(t, by)
  PROVE  ListInv'
<1>1. TypeOK /\ SpinKnown /\ t \in Item /\ t \notin Resource
  BY ResourcesAssumption DEF ListInv, Item
<1>2. TypeOK'
  BY <1>1, TerminateThreadType
<1>3. /\ UNCHANGED <<startPos, safeNum, serviceVars, late>> /\ UNCHANGED linked
      /\ Schedule(t) /\ pc[t] # "dead"
  BY DEF TerminateThread
<1>4. valid[t] /\ t \notin freed
  BY <1>3 DEF ListInv, InUseValid
<1>5. \A u \in Thread : /\ pc'[u] # "dead" => pc[u] # "dead" /\ u # t
                        /\ pc'[u] = "spin" => pc[u] = "spin" /\ arg'[u] = arg[u]
  BY <1>1 DEF TerminateThread, TypeOK
<1>6. \A s \in Resource : holder'[s] \in {holder[s], None}
  BY DEF TerminateThread, ReleaseAll
<1>7. SpinKnown'
  BY <1>1, <1>5, <1>6, SpinKept
<1>8. linked' \subseteq linked \ {t}
  BY <1>1, <1>3 DEF TypeOK
<1> QED  BY <1>1, <1>2, <1>3, <1>4, <1>5, <1>7, <1>8, ScheduleList DEF ListInv

-----------------------------------------------------------------------------
(* Every action keeps the invariants of the tables.                        *)

\* A step that leaves the tables alone.  Memory is given back only if no table
\* holds it, and a task with resources keeps a living thread.
LEMMA TablesKept ==
  ASSUME TypeOK, TableInv, UNCHANGED <<acquired, refCounter, holder, refused>>,
         freed \subseteq freed',
         \A r \in Resource : r \in freed' => r \in freed \/ References(r) = {},
         \A k \in Task : Living(k) # {} => Living(k)' # {}
  PROVE  TableInv'
<1>1. \A r : References(r)' = References(r)
  BY DEF References
<1>2. \A k : Owned(k)' = Owned(k)
  BY DEF Owned
<1>3. OncePerTask' /\ OwnerHolds' /\ ReferencesFinite'
  BY <1>1, <1>2 DEF TableInv, OncePerTask, OwnerHolds, ReferencesFinite
<1>4. TablesSound'
  <2> SUFFICES ASSUME NEW r \in Resource
               PROVE  /\ r \notin freed' => refCounter[r] = Cardinality(References(r))
                      /\ r \in freed' => References(r) = {}
                      /\ \A e \in References(r) : Living(e[1])' # {}
    BY <1>1 DEF TablesSound
  <2>1. \A e \in References(r) : e[1] \in Task
    BY DEF References
  <2> QED  BY <2>1 DEF TableInv, TablesSound
<1>5. LockedIsOwned'
  BY <1>2 DEF TableInv, LockedIsOwned
<1> QED  BY <1>3, <1>4, <1>5 DEF TableInv

\* A mutex that is free, or held by the thread of a task without the resource,
\* belongs to a resource that no task owns.
LEMMA NobodyOwns ==
  ASSUME TypeOK, OwnerHolds, NEW t \in Thread, NEW r \in Partition, holder[r] \in {None, t},
         r \notin Owned(owner[t]), NEW k \in Task
  PROVE  r \notin Owned(k)
BY DEF OwnerHolds

\* Resource::acquire() enters a resource that the task does not own yet.
LEMMA AcquiredTables ==
  ASSUME TypeOK, TableInv, NEW t \in Thread, NEW r \in Resource,
         pc[t] # "dead", r \notin freed, r \notin Owned(owner[t]),
         r \in Partition => holder[r] \in {None, t},
         Acquired(t, r), UNCHANGED freed,
         holder' = [holder EXCEPT ![r] = IF r \in Partition THEN t ELSE None],
         \A k \in Task : Living(k)' = Living(k)
  PROVE  TableInv'
<1>1. PICK k \in Task : k = owner[t]
  BY ResourcesAssumption
<1>2. None \notin Resource /\ Partition \subseteq Resource /\ r \in Item /\ None \notin Thread
  BY ResourcesAssumption DEF Item
<1>3. \A s \in Partition : s # r => holder'[s] = holder[s]
  BY <1>2 DEF TypeOK
<1>4. r \in Partition => holder'[r] = t
  BY DEF TypeOK
<1>5. r \in Partition => \A q \in Task : r \notin Owned(q)
  BY NobodyOwns DEF TableInv
<1>6. CASE ~(valid[r] /\ \E i \in Fd : acquired[k][i] = None)
  <2>1. /\ UNCHANGED <<acquired, refCounter>>
        /\ refused' = IF r \in Partition THEN refused \cup {r} ELSE refused
    BY <1>1, <1>6 DEF Acquired
  <2>2. (\A s : References(s)' = References(s)) /\ \A q : Owned(q)' = Owned(q)
    BY <2>1 DEF References, Owned
  <2>3. OncePerTask' /\ ReferencesFinite'
    BY <2>1, <2>2 DEF TableInv, OncePerTask, ReferencesFinite
  <2>4. OwnerHolds'
    BY <2>2, <1>3, <1>5 DEF TableInv, OwnerHolds
  <2>5. TablesSound'
    <3>1. \A s \in Resource : \A e \in References(s) : e[1] \in Task
      BY DEF References
    <3> QED  BY <2>1, <2>2, <3>1 DEF TableInv, TablesSound
  <2>6. LockedIsOwned'
    BY <2>1, <2>2, <1>3 DEF TableInv, LockedIsOwned
  <2> QED  BY <2>3, <2>4, <2>5, <2>6 DEF TableInv
<1>7. CASE valid[r] /\ \E i \in Fd : acquired[k][i] = None
  <2>1. PICK f \in Fd : f = FirstFree(k) /\ acquired[k][f] = None
    BY <1>7, FirstFreeIsFree
  <2>2. /\ acquired' = [acquired EXCEPT ![k][f] = r]
        /\ refCounter' = [refCounter EXCEPT ![r] = @ + 1]
        /\ UNCHANGED refused
    BY <1>1, <1>7, <2>1 DEF Acquired
  <2>3. \A q \in Task, i \in Fd :
          acquired'[q][i] = IF q = k /\ i = f THEN r ELSE acquired[q][i]
    BY <2>2 DEF TypeOK
  <2>4. \A i \in Fd : acquired[k][i] # r
    BY <1>1, <1>2 DEF Owned
  <2>5. OncePerTask'
    <3> SUFFICES ASSUME NEW q \in Task, NEW i \in Fd, NEW j \in Fd,
                        acquired'[q][i] = acquired'[q][j], acquired'[q][i] # None
                 PROVE  i = j
      BY DEF OncePerTask
    <3> QED  BY <2>3, <2>4 DEF TableInv, OncePerTask
  <2>6. \A q \in Task : Owned(q)' = IF q = k THEN Owned(q) \cup {r} ELSE Owned(q)
    <3> SUFFICES ASSUME NEW q \in Task
                 PROVE  Owned(q)' = IF q = k THEN Owned(q) \cup {r} ELSE Owned(q)
      OBVIOUS
    <3>1. CASE q # k
      <4>1. \A i \in Fd : acquired'[q][i] = acquired[q][i]
        BY <3>1, <2>3
      <4> QED  BY <4>1, <3>1 DEF Owned
    <3>2. CASE q = k
      <4>1. acquired'[k][f] = r /\ \A i \in Fd : i # f => acquired'[k][i] = acquired[k][i]
        BY <2>3
      <4> QED  BY <4>1, <2>1, <1>2, <3>2 DEF Owned
    <3> QED  BY <3>1, <3>2
  <2>7. OwnerHolds'
    <3> SUFFICES ASSUME NEW s \in Partition, NEW q \in Task, s \in Owned(q)'
                 PROVE  holder'[s] # None /\ owner[holder'[s]] = q
      BY DEF OwnerHolds
    <3>1. CASE s = r
      <4>1. q = k /\ holder'[s] = t
        BY <3>1, <2>6, <1>4, <1>5
      <4> QED  BY <4>1, <1>1, <1>2
    <3>2. CASE s # r
      <4>1. s \in Owned(q) /\ holder'[s] = holder[s]
        BY <3>2, <2>6, <1>3
      <4> QED  BY <4>1 DEF TableInv, OwnerHolds
    <3> QED  BY <3>1, <3>2
  <2>8. \A s \in Resource : s # r => References(s)' = References(s)
    <3> SUFFICES ASSUME NEW s \in Resource, s # r, NEW e \in Task \X Fd
                 PROVE  acquired'[e[1]][e[2]] = s <=> acquired[e[1]][e[2]] = s
      BY DEF References
    <3>1. e[1] \in Task /\ e[2] \in Fd
      OBVIOUS
    <3> QED  BY <3>1, <2>1, <2>3, <1>2
  <2>9. References(r)' = References(r) \cup {<<k, f>>} /\ <<k, f>> \notin References(r)
    <3>1. <<k, f>> \notin References(r)
      BY <2>4 DEF References
    <3>2. \A e \in Task \X Fd :
             acquired'[e[1]][e[2]] = r <=> acquired[e[1]][e[2]] = r \/ e = <<k, f>>
      <4> SUFFICES ASSUME NEW e \in Task \X Fd
                   PROVE  acquired'[e[1]][e[2]] = r <=> acquired[e[1]][e[2]] = r \/ e = <<k, f>>
        OBVIOUS
      <4>1. e[1] \in Task /\ e[2] \in Fd /\ (e = <<k, f>> <=> e[1] = k /\ e[2] = f)
        OBVIOUS
      <4> QED  BY <4>1, <2>3
    <3>3. <<k, f>> \in Task \X Fd
      OBVIOUS
    <3> QED  BY <3>1, <3>2, <3>3 DEF References
  <2>10. IsFiniteSet(References(r))
    BY DEF TableInv, ReferencesFinite
  <2>11. IsFiniteSet(References(r)') /\ Cardinality(References(r)') = Cardinality(References(r)) + 1
    BY <2>9, <2>10, FS_AddElement
  <2>12. ReferencesFinite'
    BY <2>8, <2>11 DEF TableInv, ReferencesFinite
  <2>13. TablesSound'
    <3> SUFFICES ASSUME NEW s \in Resource
                 PROVE  /\ s \notin freed => refCounter'[s] = Cardinality(References(s)')
                        /\ s \in freed => References(s)' = {}
                        /\ \A e \in References(s)' : Living(e[1])' # {}
      BY DEF TablesSound
    <3>1. \A e \in References(s)' : e[1] \in Task
      BY DEF References
    <3>2. CASE s # r
      <4>1. refCounter'[s] = refCounter[s]
        BY <3>2, <2>2 DEF TypeOK, Item
      <4> QED  BY <4>1, <3>1, <3>2, <2>8 DEF TableInv, TablesSound
    <3>3. CASE s = r
      <4>1. refCounter'[s] = refCounter[r] + 1
        BY <3>3, <2>2, <1>2 DEF TypeOK
      <4>2. refCounter[r] = Cardinality(References(r))
        BY DEF TableInv, TablesSound
      <4>3. t \in Living(k)
        BY <1>1 DEF Living
      <4>4. \A e \in References(s)' : Living(e[1])' # {}
        BY <3>1, <3>3, <4>3, <2>9 DEF TableInv, TablesSound
      <4> QED  BY <4>1, <4>2, <4>4, <3>3, <2>11
    <3> QED  BY <3>2, <3>3
  <2>14. LockedIsOwned'
    <3>1. ASSUME NEW s \in Partition, s \notin freed \cup refused, NEW u \in Thread, holder'[s] = u
          PROVE  s \in Owned(owner[u])'
      <4>1. owner[u] \in Task
        BY ResourcesAssumption
      <4>2. CASE s = r
        BY <4>1, <4>2, <3>1, <1>1, <1>4, <2>6
      <4>3. CASE s # r
        <5>1. holder[s] = u
          BY <4>3, <3>1, <1>3
        <5>2. s \in Owned(owner[u])
          BY <5>1, <3>1, <1>2 DEF TableInv, LockedIsOwned
        <5> QED  BY <4>1, <5>2, <2>6
      <4> QED  BY <4>2, <4>3
    <3>2. \A s \in Partition : holder'[s] # None => holder'[s] \in Thread
      BY <1>2 DEF TypeOK
    <3> QED  BY <3>1, <3>2, <2>2 DEF LockedIsOwned, Owned
  <2> QED  BY <2>5, <2>7, <2>12, <2>13, <2>14 DEF TableInv
<1> QED  BY <1>6, <1>7

\* Resource::release() of some resources of a task.  A task may lose its last
\* thread only if it gives back everything.
LEMMA ReleaseTables ==
  ASSUME TypeOK, TableInv, NEW k \in Task, NEW S \in SUBSET Owned(k), ReleaseAll(k, S),
         UNCHANGED refused, freed \subseteq freed', freed' \cap Resource \subseteq freed,
         \A q \in Task : Living(q) # {} => Living(q)' # {} \/ (q = k /\ S = Owned(k))
  PROVE  TableInv'
<1>1. /\ None \notin Resource /\ Partition \subseteq Resource /\ S \subseteq Resource
      /\ None \notin S /\ None \notin Thread
  BY ResourcesAssumption, OwnedType DEF Item, Owned
<1>2. \A q \in Task, i \in Fd :
        acquired'[q][i] = IF q = k /\ acquired[q][i] \in S THEN None ELSE acquired[q][i]
  BY DEF ReleaseAll, TypeOK
<1>3. \A s \in Resource : holder'[s] = IF s \in S THEN None ELSE holder[s]
  BY DEF ReleaseAll
<1>4. \A s \in Resource : refCounter'[s] = IF s \in S THEN refCounter[s] - 1 ELSE refCounter[s]
  BY DEF ReleaseAll, Item
<1>5. \A q \in Task : Owned(q)' = IF q = k THEN Owned(q) \ S ELSE Owned(q)
  <2> SUFFICES ASSUME NEW q \in Task
               PROVE  Owned(q)' = IF q = k THEN Owned(q) \ S ELSE Owned(q)
    OBVIOUS
  <2>1. CASE q # k
    BY <2>1, <1>2 DEF Owned
  <2>2. CASE q = k
    <3>1. \A i \in Fd : acquired'[q][i] = IF acquired[q][i] \in S THEN None ELSE acquired[q][i]
      BY <2>2, <1>2
    <3> QED  BY <3>1, <2>2, <1>1 DEF Owned
  <2> QED  BY <2>1, <2>2
<1>6. OncePerTask'
  <2> SUFFICES ASSUME NEW q \in Task, NEW i \in Fd, NEW j \in Fd,
                      acquired'[q][i] = acquired'[q][j], acquired'[q][i] # None
               PROVE  i = j
    BY DEF OncePerTask
  <2> QED  BY <1>2 DEF TableInv, OncePerTask
<1>7. OwnerHolds'
  <2> SUFFICES ASSUME NEW s \in Partition, NEW q \in Task, s \in Owned(q)'
               PROVE  holder'[s] # None /\ owner[holder'[s]] = q
    BY DEF OwnerHolds
  <2>1. s \in Owned(q) /\ (q = k => s \notin S)
    BY <1>5
  <2>2. holder[s] # None /\ owner[holder[s]] = q
    BY <2>1 DEF TableInv, OwnerHolds
  <2>3. s \notin S
    BY <2>1, <2>2 DEF TableInv, OwnerHolds
  <2> QED  BY <2>2, <2>3, <1>1, <1>3
<1>8. LockedIsOwned'
  <2>1. ASSUME NEW s \in Partition, s \notin freed' \cup refused, NEW u \in Thread, holder'[s] = u
        PROVE  s \in Owned(owner[u])'
    <3>1. owner[u] \in Task /\ s \notin S /\ holder[s] = u
      BY <2>1, <1>1, <1>3, ResourcesAssumption
    <3>2. s \in Owned(owner[u])
      BY <3>1, <2>1, <1>1 DEF TableInv, LockedIsOwned
    <3> QED  BY <3>1, <3>2, <1>5
  <2>2. \A s \in Partition : holder'[s] # None => holder'[s] \in Thread
    BY <1>1, <1>3 DEF TypeOK
  <2> QED  BY <2>1, <2>2 DEF LockedIsOwned, Owned
<1>9. \A s \in Resource : s \notin S => References(s)' = References(s)
  <2> SUFFICES ASSUME NEW s \in Resource, s \notin S, NEW e \in Task \X Fd
               PROVE  acquired'[e[1]][e[2]] = s <=> acquired[e[1]][e[2]] = s
    BY DEF References
  <2>1. e[1] \in Task /\ e[2] \in Fd
    OBVIOUS
  <2> QED  BY <2>1, <1>1, <1>2
<1>10. ASSUME NEW s \in S
       PROVE  /\ IsFiniteSet(References(s)')
              /\ Cardinality(References(s)') = Cardinality(References(s)) - 1
              /\ References(s)' \subseteq References(s)
              /\ \A e \in References(s)' : e[1] # k
              /\ References(s) # {}
  <2>1. s \in Resource /\ s # None /\ s \in Owned(k)
    BY <1>1
  <2>2. PICK i \in Fd : acquired[k][i] = s
    BY <2>1 DEF Owned
  <2>3. \A j \in Fd : acquired[k][j] = s => j = i
    BY <2>1, <2>2 DEF TableInv, OncePerTask
  <2>4. References(s)' = References(s) \ {<<k, i>>} /\ \A e \in References(s)' : e[1] # k
    <3>1. ASSUME NEW e \in Task \X Fd
          PROVE  /\ acquired'[e[1]][e[2]] = s <=> acquired[e[1]][e[2]] = s /\ e # <<k, i>>
                 /\ acquired'[e[1]][e[2]] = s => e[1] # k
      <4>1. e[1] \in Task /\ e[2] \in Fd /\ (e = <<k, i>> <=> e[1] = k /\ e[2] = i)
        BY <3>1
      <4>2. CASE e[1] = k
        BY <4>1, <4>2, <1>2, <2>1, <2>3
      <4>3. CASE e[1] # k
        BY <4>1, <4>3, <1>2
      <4> QED  BY <4>2, <4>3
    <3> QED  BY <3>1 DEF References
  <2>5. <<k, i>> \in References(s)
    BY <2>2 DEF References
  <2>6. IsFiniteSet(References(s))
    BY <2>1 DEF TableInv, ReferencesFinite
  <2>7. /\ IsFiniteSet(References(s)')
        /\ Cardinality(References(s)') = Cardinality(References(s)) - 1
    <3>1. PICK R, e : R = References(s) /\ e = <<k, i>>
      OBVIOUS
    <3>2. IsFiniteSet(R) /\ e \in R /\ References(s)' = R \ {e}
      BY <3>1, <2>4, <2>5, <2>6
    <3>3. IsFiniteSet(R \ {e}) /\ Cardinality(R \ {e}) = Cardinality(R) - 1
      BY <3>2, FS_RemoveElement
    <3> QED  BY <3>1, <3>2, <3>3
  <2> QED  BY <2>4, <2>5, <2>7
<1>11. ReferencesFinite'
  BY <1>9, <1>10 DEF TableInv, ReferencesFinite
<1>12. TablesSound'
  <2> SUFFICES ASSUME NEW s \in Resource
               PROVE  /\ s \notin freed' => refCounter'[s] = Cardinality(References(s)')
                      /\ s \in freed' => References(s)' = {}
                      /\ \A e \in References(s)' : Living(e[1])' # {}
    BY DEF TablesSound
  <2>1. (s \in freed' <=> s \in freed) /\ References(s)' \subseteq References(s)
    BY <1>9, <1>10
  <2>2. s \notin freed' => refCounter'[s] = Cardinality(References(s)')
    BY <2>1, <1>4, <1>9, <1>10 DEF TableInv, TablesSound
  <2>3. s \in freed' => References(s)' = {}
    BY <2>1 DEF TableInv, TablesSound
  <2>4. ASSUME NEW e \in References(s)' PROVE Living(e[1])' # {}
    <3>1. e \in References(s) /\ e[1] \in Task /\ e[2] \in Fd
          /\ acquired'[e[1]][e[2]] = s
      BY <2>1, <2>4 DEF References
    <3>2. Living(e[1]) # {}
      BY <3>1 DEF TableInv, TablesSound
    <3>3. s \in Owned(e[1])'
      BY <3>1, <1>1 DEF Owned
    <3>4. ~(e[1] = k /\ S = Owned(k))
      BY <3>1, <3>3, <1>5
    <3> QED  BY <3>1, <3>2, <3>4
  <2> QED  BY <2>2, <2>3, <2>4
<1> QED  BY <1>6, <1>7, <1>8, <1>11, <1>12 DEF TableInv

\* Deleting x at once takes it out of the tables, because the counter is exact.
LEMMA DropTables ==
  ASSUME TypeOK, TableInv, NEW x \in Item, x \notin freed,
         acquired' = Scheduled(acquired, refCounter[x], x), Schedule(x),
         UNCHANGED <<refCounter, holder, refused, pc>>
  PROVE  TableInv'
<1>1. /\ None \notin Resource /\ Partition \subseteq Resource
      /\ None \notin Thread /\ Thread \cap Resource = {}
  BY ResourcesAssumption DEF Item
<1>2. \A q \in Task : Living(q)' = Living(q)
  BY DEF Living
<1>3. CASE count < SIZE
  <2>1. UNCHANGED <<acquired, freed>>
    BY <1>3 DEF Schedule, Scheduled
  <2> QED  BY <2>1, <1>2, TablesKept
<1>4. CASE ~(count < SIZE) /\ x \in Thread
  <2>1. freed' = freed \cup {x}
    BY <1>4 DEF Schedule
  <2>2. x # None /\ x \notin Resource
    BY <1>1, <1>4
  <2>3. \A q \in Task, i \in Fd : acquired[q][i] # x
    BY <2>2 DEF TypeOK
  <2>4. acquired' = acquired
    <3>1. acquired' = Tables(acquired, refCounter[x], x)
      BY <1>4 DEF Scheduled
    <3>2. CASE refCounter[x] > 0
      <4>1. acquired' = [q \in Task |-> [i \in Fd |-> acquired[q][i]]]
        BY <3>1, <3>2, <2>3 DEF Tables
      <4> QED  BY <4>1 DEF TypeOK
    <3>3. CASE ~(refCounter[x] > 0)
      BY <3>1, <3>3 DEF Tables
    <3> QED  BY <3>2, <3>3
  <2> QED  BY <2>1, <2>2, <2>4, <1>2, TablesKept
<1>5. CASE ~(count < SIZE) /\ x \in Resource
  <2>1. freed' = freed \cup {x} /\ x # None
    BY <1>1, <1>5 DEF Schedule
  <2>2. \A q \in Task, i \in Fd :
          acquired'[q][i] = IF acquired[q][i] = x THEN None ELSE acquired[q][i]
    <3>1. acquired' = Tables(acquired, refCounter[x], x)
      BY <1>5 DEF Scheduled
    <3>2. CASE refCounter[x] > 0
      BY <3>1, <3>2 DEF Tables
    <3>3. CASE ~(refCounter[x] > 0)
      <4>1. refCounter[x] = Cardinality(References(x)) /\ IsFiniteSet(References(x))
        BY <1>5 DEF TableInv, TablesSound, ReferencesFinite
      <4>2. Cardinality(References(x)) \in Nat
        BY <4>1, FS_CardinalityType
      <4>3. References(x) = {}
        BY <3>3, <4>1, <4>2, FS_EmptySet
      <4>4. \A q \in Task, i \in Fd : acquired[q][i] # x
        <5>1. ASSUME NEW q \in Task, NEW i \in Fd, acquired[q][i] = x PROVE FALSE
          <6>1. <<q, i>> \in References(x)
            BY <5>1 DEF References
          <6> QED  BY <6>1, <4>3
        <5> QED  BY <5>1
      <4> QED  BY <4>4, <3>1, <3>3 DEF Tables
    <3> QED  BY <3>2, <3>3
  <2>3. \A q \in Task : Owned(q)' = Owned(q) \ {x}
    BY <2>1, <2>2 DEF Owned
  <2>4. OncePerTask'
    <3> SUFFICES ASSUME NEW q \in Task, NEW i \in Fd, NEW j \in Fd,
                        acquired'[q][i] = acquired'[q][j], acquired'[q][i] # None
                 PROVE  i = j
      BY DEF OncePerTask
    <3> QED  BY <2>2 DEF TableInv, OncePerTask
  <2>5. OwnerHolds'
    BY <2>3 DEF TableInv, OwnerHolds
  <2>6. LockedIsOwned'
    <3>1. ASSUME NEW s \in Partition, s \notin freed' \cup refused, NEW u \in Thread, holder[s] = u
          PROVE  s \in Owned(owner[u])'
      <4>1. owner[u] \in Task /\ s # x /\ s \notin freed
        BY <2>1, <3>1, ResourcesAssumption
      <4>2. s \in Owned(owner[u])
        BY <4>1, <3>1, <1>1 DEF TableInv, LockedIsOwned
      <4> QED  BY <4>1, <4>2, <2>3
    <3>2. \A s \in Partition : holder[s] # None => holder[s] \in Thread
      BY <1>1 DEF TypeOK
    <3> QED  BY <3>1, <3>2 DEF LockedIsOwned, Owned
  <2>7. References(x)' = {} /\ \A s \in Resource : s # x => References(s)' = References(s)
    <3>1. ASSUME NEW s \in Resource, NEW e \in Task \X Fd
          PROVE  acquired'[e[1]][e[2]] = s <=> acquired[e[1]][e[2]] = s /\ s # x
      <4>1. e[1] \in Task /\ e[2] \in Fd /\ s # None
        BY <3>1, <1>1
      <4> QED  BY <4>1, <2>2
    <3> QED  BY <3>1, <1>5 DEF References
  <2>8. ReferencesFinite'
    BY <2>7, FS_EmptySet DEF TableInv, ReferencesFinite
  <2>9. TablesSound'
    <3> SUFFICES ASSUME NEW s \in Resource
                 PROVE  /\ s \notin freed' => refCounter[s] = Cardinality(References(s)')
                        /\ s \in freed' => References(s)' = {}
                        /\ \A e \in References(s)' : Living(e[1])' # {}
      BY DEF TablesSound
    <3>1. \A e \in References(s)' : e[1] \in Task
      BY DEF References
    <3>2. CASE s = x
      BY <3>2, <2>1, <2>7
    <3>3. CASE s # x
      BY <3>1, <3>3, <2>1, <2>7, <1>2 DEF TableInv, TablesSound
    <3> QED  BY <3>2, <3>3
  <2> QED  BY <2>4, <2>5, <2>6, <2>8, <2>9 DEF TableInv
<1> QED  BY <1>3, <1>4, <1>5 DEF Item

\* An owner gives up a file and removes it; the file has no mutex.
LEMMA RemoveTables ==
  ASSUME IInv, NEW t \in Thread, NEW r \in Resource, Remove(t, r)
  PROVE  TableInv'
<1>0. TypeOK /\ TableInv /\ r \notin Partition /\ r \in Item /\ r \notin freed
  BY DEF IInv, ListInv, InUseValid, Remove, Item
<1>1. /\ None \notin Resource /\ Partition \subseteq Resource
      /\ None \notin Thread /\ r # None
  BY ResourcesAssumption DEF Item
<1>2. PICK k \in Task : k = owner[t]
  BY ResourcesAssumption
<1>3. PICK f : f = CHOOSE i \in Fd : acquired[k][i] = r
  OBVIOUS
<1>4. \E i \in Fd : acquired[k][i] = r
  BY <1>2 DEF Remove, Owned
<1>5. f \in Fd /\ acquired[k][f] = r
  BY <1>3, <1>4
<1>6. PICK a : a = [acquired EXCEPT ![k][f] = None]
  OBVIOUS
<1>7. /\ a \in Tables2
      /\ \A q \in Task, i \in Fd : a[q][i] = IF q = k /\ i = f THEN None ELSE acquired[q][i]
  BY <1>5, <1>6, <1>0 DEF TypeOK, Tables2
<1>8. acquired' = Scheduled(a, refCounter[r] - 1, r)
  BY <1>2, <1>3, <1>6 DEF Remove
<1>9. PICK R, e : R = References(r) /\ e = <<k, f>>
  OBVIOUS
<1>10. e \in R /\ IsFiniteSet(R) /\ refCounter[r] = Cardinality(R)
  BY <1>0, <1>5, <1>9 DEF References, TableInv, ReferencesFinite, TablesSound
<1>11. IsFiniteSet(R \ {e}) /\ Cardinality(R \ {e}) = Cardinality(R) - 1
  BY <1>10, FS_RemoveElement
<1>12. \A d \in Task \X Fd : a[d[1]][d[2]] = r <=> d \in R \ {e}
  <2> SUFFICES ASSUME NEW d \in Task \X Fd PROVE a[d[1]][d[2]] = r <=> d \in R \ {e}
    OBVIOUS
  <2>1. d[1] \in Task /\ d[2] \in Fd /\ (d = e <=> d[1] = k /\ d[2] = f)
    BY <1>9
  <2>2. d \in R <=> acquired[d[1]][d[2]] = r
    BY <1>9 DEF References
  <2> QED  BY <2>1, <2>2, <1>7, <1>1
<1>13. /\ freed' = IF count < SIZE THEN freed ELSE freed \cup {r}
       /\ UNCHANGED <<pc, refused>>
       /\ \A s \in Resource : s # r => refCounter'[s] = refCounter[s] /\ holder'[s] = holder[s]
       /\ refCounter'[r] = refCounter[r] - 1
  BY <1>0 DEF Remove, Schedule, TypeOK, Item
<1>14. IF count < SIZE
       THEN acquired' = a
       ELSE \A q \in Task, i \in Fd : acquired'[q][i] = IF a[q][i] = r THEN None ELSE a[q][i]
  <2>1. CASE count < SIZE
    BY <2>1, <1>8 DEF Scheduled
  <2>2. CASE ~(count < SIZE)
    <3>1. acquired' = Tables(a, refCounter[r] - 1, r)
      BY <2>2, <1>8 DEF Scheduled
    <3>2. CASE refCounter[r] - 1 > 0
      BY <2>2, <3>1, <3>2 DEF Tables
    <3>3. CASE ~(refCounter[r] - 1 > 0)
      <4>1. Cardinality(R \ {e}) \in Nat
        BY <1>11, FS_CardinalityType
      <4>2. Cardinality(R \ {e}) = refCounter[r] - 1
        BY <1>10, <1>11
      <4>3. Cardinality(R \ {e}) = 0
        BY <3>3, <4>1, <4>2
      <4>4. R \ {e} = {}
        BY <1>11, <4>3, FS_EmptySet
      <4>5. ASSUME NEW q \in Task, NEW i \in Fd PROVE a[q][i] # r
        <5>1. <<q, i>> \in Task \X Fd /\ <<q, i>>[1] = q /\ <<q, i>>[2] = i
          BY <4>5
        <5> QED  BY <5>1, <4>4, <1>12
      <4>6. acquired' = a
        BY <3>1, <3>3 DEF Tables
      <4> QED  BY <2>2, <4>5, <4>6
    <3> QED  BY <3>2, <3>3
  <2> QED  BY <2>1, <2>2
<1>15. \A q \in Task, i \in Fd : acquired'[q][i] = acquired[q][i] \/ acquired'[q][i] = None
  BY <1>7, <1>14
<1>16. \A q \in Task, i \in Fd, s \in Resource :
         s # r => (acquired'[q][i] = s <=> acquired[q][i] = s)
  BY <1>1, <1>5, <1>7, <1>14
<1>17. OncePerTask'
  <2> SUFFICES ASSUME NEW q \in Task, NEW i \in Fd, NEW j \in Fd,
                      acquired'[q][i] = acquired'[q][j], acquired'[q][i] # None
               PROVE  i = j
    BY DEF OncePerTask
  <2> QED  BY <1>0, <1>15 DEF TableInv, OncePerTask
<1>18. \A q \in Task, s \in Resource : s # r => (s \in Owned(q)' <=> s \in Owned(q))
  BY <1>16 DEF Owned
<1>19. OwnerHolds'
  <2> SUFFICES ASSUME NEW s \in Partition, NEW q \in Task, s \in Owned(q)'
               PROVE  holder'[s] # None /\ owner[holder'[s]] = q
    BY DEF OwnerHolds
  <2>1. s \in Resource /\ s # r
    BY <1>0, <1>1
  <2> QED  BY <2>1, <1>0, <1>13, <1>18 DEF TableInv, OwnerHolds
<1>20. LockedIsOwned'
  <2>1. ASSUME NEW s \in Partition, s \notin freed' \cup refused, NEW u \in Thread, holder'[s] = u
        PROVE  s \in Owned(owner[u])'
    <3>1. owner[u] \in Task /\ s \in Resource /\ s # r /\ s \notin freed \cup refused
      BY <1>0, <1>1, <1>13, <2>1, ResourcesAssumption
    <3>2. s \in Owned(owner[u])
      BY <3>1, <2>1, <1>0, <1>1, <1>13 DEF TableInv, LockedIsOwned
    <3> QED  BY <3>1, <3>2, <1>18
  <2>2. \A s \in Partition : holder'[s] # None => holder'[s] \in Thread
    BY <1>0, <1>1, <1>13 DEF TypeOK
  <2> QED  BY <2>1, <2>2, <1>13 DEF LockedIsOwned, Owned
<1>21. \A s \in Resource : s # r => References(s)' = References(s)
  <2> SUFFICES ASSUME NEW s \in Resource, s # r, NEW d \in Task \X Fd
               PROVE  acquired'[d[1]][d[2]] = s <=> acquired[d[1]][d[2]] = s
    BY DEF References
  <2>1. d[1] \in Task /\ d[2] \in Fd
    OBVIOUS
  <2> QED  BY <2>1, <1>16
<1>22. References(r)' = IF count < SIZE THEN R \ {e} ELSE {}
  <2>1. CASE count < SIZE
    <3>1. R \subseteq Task \X Fd
      BY <1>9 DEF References
    <3> QED  BY <2>1, <3>1, <1>12, <1>14 DEF References
  <2>2. CASE ~(count < SIZE)
    <3>1. ASSUME NEW d \in Task \X Fd PROVE acquired'[d[1]][d[2]] # r
      <4>1. d[1] \in Task /\ d[2] \in Fd
        BY <3>1
      <4> QED  BY <4>1, <2>2, <1>1, <1>14
    <3> QED  BY <2>2, <3>1 DEF References
  <2> QED  BY <2>1, <2>2
<1>23. IsFiniteSet(References(r)')
  BY <1>11, <1>22, FS_EmptySet
<1>24. ReferencesFinite'
  BY <1>0, <1>21, <1>23 DEF TableInv, ReferencesFinite
<1>25. TablesSound'
  <2> SUFFICES ASSUME NEW s \in Resource
               PROVE  /\ s \notin freed' => refCounter'[s] = Cardinality(References(s)')
                      /\ s \in freed' => References(s)' = {}
                      /\ \A d \in References(s)' : Living(d[1])' # {}
    BY DEF TablesSound
  <2>1. (\A d \in References(s)' : d[1] \in Task) /\ \A q \in Task : Living(q)' = Living(q)
    BY <1>13 DEF References, Living
  <2>2. CASE s # r
    <3>1. References(s)' = References(s) /\ refCounter'[s] = refCounter[s]
          /\ (s \in freed' <=> s \in freed)
      BY <2>2, <1>13, <1>21
    <3> QED  BY <3>1, <2>1, <1>0 DEF TableInv, TablesSound
  <2>3. CASE s = r
    <3>1. References(s)' \subseteq References(s)
      BY <2>3, <1>9, <1>22
    <3>2. \A d \in References(s)' : Living(d[1])' # {}
      BY <3>1, <2>1, <1>0 DEF TableInv, TablesSound
    <3>3. s \notin freed' => count < SIZE
      BY <2>3, <1>13
    <3>4. s \notin freed' => refCounter'[s] = Cardinality(References(s)')
      BY <3>3, <2>3, <1>10, <1>11, <1>13, <1>22
    <3>5. s \in freed' => References(s)' = {}
      BY <2>3, <1>0, <1>13, <1>22
    <3> QED  BY <3>2, <3>4, <3>5
  <2> QED  BY <2>2, <2>3
<1> QED  BY <1>17, <1>19, <1>20, <1>24, <1>25 DEF TableInv

\* An attempt to take the mutex keeps the tables sound.
LEMMA AttemptTables ==
  ASSUME TypeOK, TableInv, NEW t \in Thread, NEW r \in Resource, Attempt(t, r),
         pc[t] \in {"ready", "spin"}, r \notin freed,
         (r \in Partition /\ holder[r] \notin {None, t}) \/ r \notin Owned(owner[t])
  PROVE  TableInv'
<1>1. \A k \in Task : Living(k)' = Living(k)
  <2>1. \A u \in Thread : pc'[u] # "dead" <=> pc[u] # "dead"
    BY DEF Attempt, TypeOK
  <2> QED  BY <2>1 DEF Living
<1>2. UNCHANGED freed
  BY DEF Attempt
<1>3. CASE r \in Partition /\ holder[r] \notin {None, t}
  <2>1. UNCHANGED <<acquired, refCounter, holder, refused>>
    BY <1>3 DEF Attempt
  <2> QED  BY <2>1, <1>1, <1>2, TablesKept
<1>4. CASE ~(r \in Partition /\ holder[r] \notin {None, t})
  <2>1. /\ holder' = [holder EXCEPT ![r] = IF r \in Partition THEN t ELSE None]
        /\ Acquired(t, r)
    BY <1>4 DEF Attempt
  <2> QED  BY <2>1, <1>1, <1>2, <1>4, AcquiredTables
<1> QED  BY <1>3, <1>4

\* sc_fopen() acquires a resource that is linked and so not freed.
LEMMA OpenTables ==
  ASSUME IInv, NEW t \in Thread, NEW r \in Resource, Open(t, r)
  PROVE  TableInv'
<1>1. r \notin freed
  BY DEF IInv, ListInv, InUseValid, Open
<1> QED  BY <1>1, AttemptTables DEF IInv, ListInv, Open

\* A thread that spins takes the mutex once it is free; nobody owns the
\* resource then.
LEMMA SpinTables ==
  ASSUME IInv, NEW t \in Thread, Spin(t)
  PROVE  TableInv'
<1>1. TypeOK /\ TableInv /\ pc[t] = "spin" /\ arg[t] \notin freed /\ owner[t] \in Task
  BY ResourcesAssumption DEF IInv, ListInv, Spin
<1>2. arg[t] \in Partition /\ holder[arg[t]] # t /\ arg[t] \in Resource
  BY <1>1, ResourcesAssumption DEF IInv, ListInv, SpinKnown
<1>3. holder[arg[t]] = None => arg[t] \notin Owned(owner[t])
  BY <1>1, <1>2 DEF TableInv, OwnerHolds
<1> QED  BY <1>1, <1>2, <1>3, AttemptTables DEF Spin

\* sc_fclose() releases one resource.
LEMMA CloseTables ==
  ASSUME IInv, NEW t \in Thread, NEW r \in Resource, Close(t, r)
  PROVE  TableInv'
<1>1. TypeOK /\ TableInv /\ owner[t] \in Task
  BY ResourcesAssumption DEF IInv, ListInv
<1>2. {r} \in SUBSET Owned(owner[t]) /\ ReleaseAll(owner[t], {r}) /\ UNCHANGED <<pc, freed, refused>>
  BY DEF Close
<1>3. \A q \in Task : Living(q)' = Living(q)
  BY <1>2 DEF Living
<1> QED  BY <1>1, <1>2, <1>3, ReleaseTables

\* sc_task_kill() releases all resources of the task it removes.
LEMMA KillTaskTables ==
  ASSUME IInv, NEW by \in Thread, NEW k \in Task, KillTask(by, k)
  PROVE  TableInv'
<1>1. TypeOK /\ TableInv
  BY DEF IInv, ListInv
<1>2. ReleaseAll(k, Owned(k)) /\ UNCHANGED <<freed, refused>>
  BY DEF KillTask
<1>3. \A q \in Task : q # k => Living(q)' = Living(q)
  BY DEF KillTask, Living
<1> QED  BY <1>1, <1>2, <1>3, ReleaseTables

\* terminateThread() releases all resources with the last thread only.
LEMMA TerminateThreadTables ==
  ASSUME IInv, NEW t \in Thread, NEW by \in Thread, TerminateThread(t, by)
  PROVE  TableInv'
<1>1. TypeOK /\ TableInv /\ owner[t] \in Task /\ t \notin Resource
  BY ResourcesAssumption DEF IInv, ListInv
<1>2. freed \subseteq freed' /\ freed' \cap Resource \subseteq freed /\ UNCHANGED refused
  BY <1>1 DEF TerminateThread, Schedule
<1>3. \A q \in Task : Living(q)' = Living(q) \ {t}
  BY <1>1 DEF TerminateThread, Living, TypeOK
<1>4. t \in Living(owner[t]) /\ \A q \in Task : q # owner[t] => t \notin Living(q)
  BY DEF TerminateThread, Living
<1>5. CASE Living(owner[t]) = {t}
  <2>1. ReleaseAll(owner[t], Owned(owner[t]))
    BY <1>5 DEF TerminateThread
  <2>2. \A q \in Task : Living(q) # {} => Living(q)' # {} \/ q = owner[t]
    BY <1>3, <1>4
  <2> QED  BY <2>1, <2>2, <1>1, <1>2, ReleaseTables
<1>6. CASE Living(owner[t]) # {t}
  <2>1. UNCHANGED <<acquired, refCounter, holder>>
    BY <1>6 DEF TerminateThread
  <2>2. \A q \in Task : Living(q) # {} => Living(q)' # {}
    BY <1>3, <1>4, <1>6
  <2> QED  BY <2>1, <2>2, <1>1, <1>2, TablesKept
<1> QED  BY <1>5, <1>6

\* Sleeping and waking leave the tables alone.
LEMMA SleepWakeTables ==
  ASSUME IInv, NEW t \in Thread, Sleep(t) \/ Wake(t)
  PROVE  TableInv'
<1>1. TypeOK /\ TableInv
  BY DEF IInv, ListInv
<1>2. UNCHANGED <<acquired, refCounter, holder, refused, freed>>
  BY DEF Sleep, Wake, tableVars
<1>3. \A k \in Task : Living(k)' = Living(k)
  BY <1>1 DEF Sleep, Wake, Living, TypeOK
<1> QED  BY <1>1, <1>2, <1>3, TablesKept

\* idleEnter() leaves the tables alone.
LEMMA IdleTables ==
  ASSUME IInv, IdleLoad \/ IdleStore
  PROVE  TableInv'
<1>1. TypeOK /\ TableInv
  BY DEF IInv, ListInv
<1>2. UNCHANGED <<acquired, refCounter, holder, refused, freed, pc>>
  BY DEF IdleLoad, IdleStore, tableVars
<1>3. \A k \in Task : Living(k)' = Living(k)
  BY <1>2 DEF Living
<1> QED  BY <1>1, <1>2, <1>3, TablesKept

\* unregisterBlockDevice() may drop a partition that tasks still own.
LEMMA UnregisterTables ==
  ASSUME IInv, NEW r \in Resource, Unregister(r)
  PROVE  TableInv'
<1>1. TypeOK /\ TableInv /\ r \in Item /\ r \notin freed
  BY DEF IInv, ListInv, InUseValid, Unregister, Item
<1> QED  BY <1>1, DropTables DEF Unregister

\* service() deletes what nobody refers to, or drops it if the list is full.
LEMMA ServiceTables ==
  ASSUME IInv, ~late, Service
  PROVE  TableInv'
<1>1. TypeOK /\ TableInv /\ UNCHANGED <<refCounter, holder, refused, pc>>
  BY DEF IInv, ListInv, Service, ServiceBegin, ServiceVisit, ServiceEnd, tableVars
<1>2. \A k \in Task : Living(k)' = Living(k)
  BY <1>1 DEF Living
<1>3. CASE ServiceBegin \/ ServiceEnd
  <2>1. UNCHANGED <<acquired, freed>>
    BY <1>3 DEF ServiceBegin, ServiceEnd, tableVars
  <2> QED  BY <2>1, <1>1, <1>2, TablesKept
<1>4. CASE ServiceVisit
  <2>1. /\ SIZE \in Nat \ {0} /\ count \in 0..SIZE /\ spc = "scan" /\ sstart = startPos
        /\ si \in Nat /\ sfree \in Nat /\ si < sfree /\ sfree <= count
    BY <1>4, ResourcesAssumption DEF IInv, ListInv, TypeOK, ScanSound, ServiceVisit
  <2>2. PICK x : x = slots[MODULO(sstart + si, SIZE)]
    OBVIOUS
  <2>3. x # None => x \in Item /\ x \notin freed
    <3>1. si \in 0..(SIZE - 1) /\ si \in si..(count - 1)
      BY <2>1
    <3>2. x = Entry(si) /\ x \in Item \cup {None}
      BY <3>1, <2>1, <2>2, <1>1, EntryPlaces DEF Entry, TypeOK
    <3>3. si \in From(Lower, x)
      BY <3>1, <3>2, <2>1 DEF From, Lower
    <3> QED  BY <3>2, <3>3 DEF IInv, ListInv, ListedOnce
  <2>4. \/ UNCHANGED <<acquired, freed>>
        \/ x # None /\ refCounter[x] <= 0 /\ freed' = freed \cup {x} /\ UNCHANGED acquired
        \/ x # None /\ acquired' = Scheduled(acquired, refCounter[x], x) /\ Schedule(x)
    BY <1>4, <2>2 DEF ServiceVisit, IsDeletionSafe
  <2>5. CASE UNCHANGED <<acquired, freed>>
    BY <2>5, <1>1, <1>2, TablesKept
  <2>6. CASE x # None /\ refCounter[x] <= 0 /\ freed' = freed \cup {x} /\ UNCHANGED acquired
    <3>1. ASSUME x \in Resource PROVE References(x) = {}
      <4>1. refCounter[x] = Cardinality(References(x)) /\ IsFiniteSet(References(x))
        BY <3>1, <2>3, <2>6, <1>1 DEF TableInv, TablesSound, ReferencesFinite
      <4>2. Cardinality(References(x)) \in Nat
        BY <4>1, FS_CardinalityType
      <4>3. Cardinality(References(x)) = 0
        BY <4>1, <4>2, <2>6
      <4> QED  BY <4>1, <4>3, FS_EmptySet
    <3>2. \A r \in Resource : r \in freed' => r \in freed \/ References(r) = {}
      BY <3>1, <2>6
    <3>3. freed \subseteq freed' /\ UNCHANGED <<acquired, refCounter, holder, refused>>
      BY <2>6, <1>1
    <3> QED  BY <3>2, <3>3, <1>1, <1>2, TablesKept
  <2>7. CASE x # None /\ acquired' = Scheduled(acquired, refCounter[x], x) /\ Schedule(x)
    BY <2>3, <2>7, <1>1, DropTables
  <2> QED  BY <2>4, <2>5, <2>6, <2>7
<1> QED  BY <1>3, <1>4 DEF Service

-----------------------------------------------------------------------------
(* The invariant and what follows from it.                                 *)

\* The initial state satisfies the invariant.
LEMMA InitInv == Init => IInv
<1> SUFFICES ASSUME Init PROVE IInv
  OBVIOUS
<1>0. SIZE \in Nat \ {0} /\ 0 \in Pos /\ None \notin Item
  BY ResourcesAssumption DEF Pos
<1>1. TypeOK
  <2>1. linked \subseteq Resource /\ freed \subseteq Item /\ forced \subseteq Item
        /\ refused \subseteq Resource /\ late \in BOOLEAN /\ valid \in [Item -> BOOLEAN]
    BY DEF Init
  <2>2. /\ refCounter \in [Item -> Int] /\ holder \in [Resource -> Thread \cup {None}]
        /\ acquired \in [Task -> [Fd -> Resource \cup {None}]]
        /\ arg \in [Thread -> Resource \cup {None}] /\ slots \in [Pos -> Item \cup {None}]
    BY DEF Init
  <2>3. pc \in [Thread -> {"ready", "asleep", "spin", "dead"}] /\ spc \in {"asleep", "scan"}
    BY DEF Init
  <2>4. /\ startPos \in Pos /\ count \in 0..SIZE /\ safeNum \in 0..SIZE
        /\ sstart \in Pos /\ sfree \in 0..SIZE /\ si \in 0..SIZE /\ safeNum <= count
        /\ idleTmp \in 0..SIZE \cup {None}
    BY <1>0 DEF Init
  <2> QED  BY <2>1, <2>2, <2>3, <2>4 DEF TypeOK
<1>2. InUseValid /\ ScanSound /\ SpinKnown /\ NoUseAfterFree /\ SafeNotSpun
  BY DEF Init, InUseValid, ScanSound, SpinKnown, NoUseAfterFree, SafeNotSpun, Item
<1>3. ListedOnce
  <2>1. Lower = 0 /\ count = 0 /\ \A x \in Item : valid[x]
    BY DEF Init, Lower
  <2>2. \A x \in Item : From(Lower, x) = {}
    BY <2>1 DEF From
  <2> QED  BY <2>1, <2>2 DEF ListedOnce
<1>4. \A k \in Task : Owned(k) = {}
  BY DEF Init, Owned
<1>5. \A r \in Resource : References(r) = {}
  <2>1. ASSUME NEW r \in Resource, NEW e \in Task \X Fd PROVE acquired[e[1]][e[2]] # r
    <3>1. e[1] \in Task /\ e[2] \in Fd /\ r # None
      BY <2>1, <1>0 DEF Item
    <3> QED  BY <3>1 DEF Init
  <2> QED  BY <2>1 DEF References
<1>6. OncePerTask
  BY DEF Init, OncePerTask
<1>7. OwnerHolds /\ ReferencesFinite /\ LockedIsOwned
  BY <1>4, <1>5, FS_EmptySet, ResourcesAssumption
     DEF Init, OwnerHolds, ReferencesFinite, LockedIsOwned
<1>8. TablesSound
  BY <1>5, FS_EmptySet DEF Init, TablesSound, Item
<1> QED  BY <1>1, <1>2, <1>3, <1>6, <1>7, <1>8 DEF IInv, ListInv, TableInv

\* A stuttering step keeps the invariant.
LEMMA StutterInv ==
  ASSUME IInv, UNCHANGED vars
  PROVE  IInv'
<1> USE DEF vars, tableVars, ringVars, serviceVars
<1>1. TypeOK' /\ InUseValid' /\ ScanSound' /\ SpinKnown' /\ NoUseAfterFree'
  BY DEF IInv, ListInv, TypeOK, InUseValid, ScanSound, SpinKnown, NoUseAfterFree
<1>2. (\A j : Entry(j)' = Entry(j)) /\ Lower' = Lower /\ SafePart' = SafePart
  BY DEF Entry, Lower, SafePart
<1>3. ListedOnce' /\ SafeNotSpun'
  BY <1>2 DEF IInv, ListInv, ListedOnce, SafeNotSpun, From
<1>4. \A k \in Task : Living(k)' = Living(k)
  BY DEF Living
<1>5. TableInv'
  BY <1>4, TablesKept DEF IInv, ListInv
<1> QED  BY <1>1, <1>3, <1>5 DEF IInv, ListInv

\* Every step keeps the invariant.
LEMMA NextInv == IInv /\ [Next]_vars => IInv'
<1> SUFFICES ASSUME IInv, [Next]_vars PROVE IInv'
  OBVIOUS
<1>1. CASE UNCHANGED vars
  BY <1>1, StutterInv
<1>2. CASE ~late /\ Step
  <2>0. ListInv /\ ~late /\ Partition \subseteq Resource
    BY <1>2, ResourcesAssumption DEF IInv
  <2>1. ASSUME NEW t \in Thread, NEW r \in Resource, Open(t, r) PROVE IInv'
    BY <2>0, <2>1, OpenList, OpenTables DEF IInv
  <2>2. ASSUME NEW t \in Thread, NEW r \in Resource, Close(t, r) PROVE IInv'
    BY <2>0, <2>2, CloseList, CloseTables DEF IInv
  <2>3. ASSUME NEW t \in Thread, NEW r \in Resource, Remove(t, r) PROVE IInv'
    BY <2>0, <2>3, RemoveList, RemoveTables DEF IInv
  <2>4. ASSUME NEW t \in Thread, NEW u \in Thread, TerminateThread(u, t) PROVE IInv'
    BY <2>0, <2>4, TerminateThreadList, TerminateThreadTables DEF IInv
  <2>5. ASSUME NEW t \in Thread, NEW k \in Task, KillTask(t, k) PROVE IInv'
    BY <2>0, <2>5, KillTaskList, KillTaskTables DEF IInv
  <2>6. ASSUME NEW t \in Thread, Spin(t) PROVE IInv'
    BY <2>0, <2>6, SpinList, SpinTables DEF IInv
  <2>7. ASSUME NEW t \in Thread, Sleep(t) \/ Wake(t) PROVE IInv'
    BY <2>0, <2>7, SleepWakeList, SleepWakeTables DEF IInv
  <2>8. ASSUME NEW r \in Partition, Unregister(r) PROVE IInv'
    BY <2>0, <2>8, UnregisterList, UnregisterTables DEF IInv
  <2>9. CASE Service
    BY <2>0, <2>9, ServiceList, ServiceTables DEF IInv
  <2>10. CASE IdleLoad \/ IdleStore
    BY <2>0, <2>10, IdleList, IdleTables DEF IInv
  <2> QED
    BY <1>2, <2>1, <2>2, <2>3, <2>4, <2>5, <2>6, <2>7, <2>8, <2>9, <2>10 DEF Step
<1> QED  BY <1>1, <1>2 DEF Next

\* The inductive invariant holds in every reachable state.
THEOREM Invariance == Spec => []IInv
<1>1. Init => IInv
  BY InitInv
<1>2. IInv /\ [Next]_vars => IInv'
  BY NextInv
<1> QED  BY <1>1, <1>2, PTL DEF Spec

\* The counters, tables and indices of resources and of the list of deletions
\* stay in their ranges; the list never overruns its SIZE entries.
THEOREM TypeCorrect == Spec => []TypeOK
<1>1. IInv => TypeOK
  BY DEF IInv, ListInv
<1> QED  BY <1>1, Invariance, PTL

\* Reference counters are exact however acquire() fails and threads end, a task
\* without threads has no resources, and no table holds freed memory.
THEOREM TablesAreSound == Spec => []TablesSound
<1>1. IInv => TablesSound
  BY DEF IInv, TableInv
<1> QED  BY <1>1, Invariance, PTL

\* Deferred deletion gives back memory only when no path leads to it, no thread
\* spins for its mutex and no thread runs in it; the exception is what
\* scheduleDeletion() deletes at once because its list is full.
THEOREM FreedIsUnused == Spec => []NoUseAfterFree
<1>1. IInv => NoUseAfterFree
  BY DEF IInv, ListInv
<1> QED  BY <1>1, Invariance, PTL

\* A locked mutex belongs to a task that owns the resource, unless acquire()
\* failed after it had taken the mutex.
THEOREM MutexFollowsOwner == Spec => []LockedIsOwned
<1>1. IInv => LockedIsOwned
  BY DEF IInv, TableInv
<1> QED  BY <1>1, Invariance, PTL

\* Until idleEnter() stores a stale count, every item that was given up and is
\* not freed has exactly one entry that service() has still to look at.
THEOREM DeletionsListedOnce == Spec => []ScheduledOnce
<1>1. IInv => ScheduledOnce
  <2> SUFFICES ASSUME IInv, ~late, NEW x \in Item
               PROVE  Cardinality(Places(x)) = IF valid[x] \/ x \in freed THEN 0 ELSE 1
    BY DEF ScheduledOnce
  <2>1. Places(x) = From(Lower, x)
    BY DEF Places, ToVisit, From, Lower, Entry
  <2>2. IF valid[x] \/ x \in freed THEN Places(x) = {} ELSE \E j : Places(x) = {j}
    BY <2>1 DEF IInv, ListInv, ListedOnce
  <2> QED  BY <2>2, FS_EmptySet, FS_Singleton
<1> QED  BY <1>1, Invariance, PTL
=============================================================================
