---------------------------- MODULE ThreadLists ----------------------------
(***************************************************************************)
(* The scheduling lists of the kernel as values.                           *)
(*                                                                         *)
(* Every thread owns one LinkedListItem.  Its host_db field names the list *)
(* the item is in, and LinkedList::addTail, addHead and insertAfter first  *)
(* take the item out of that list.  The lists of the dispatcher are one    *)
(* function from the name of a list to the sequence of its threads (head   *)
(* first), so that an insertion is "detach the item, then insert it".      *)
(***************************************************************************)
EXTENDS Integers, Sequences, SequencesExt

\* The lists a thread's item can be in: the ready queue of the scheduler and
\* the sleep, blocked and wait lists of the dispatcher.
ListNames == {"ready", "sleep", "blocked", "wait"}

\* LinkedListItem::remove(): the item leaves the list it is in, if any.
Detach(L, t) == [n \in ListNames |-> RemoveFirst(L[n], t)]

\* Mutation of AddTail: the item is not taken out of its list first.
AddTailAttached(L, n, t) == [L EXCEPT ![n] = Append(@, t)]

\* LinkedList::addTail(item), which detaches the item first.
AddTail(L, n, t) == [Detach(L, t) EXCEPT ![n] = Append(@, t)]

\* Mutation of LastNotBelow: the comparison the other way round.
LastNotBelowSwapped(q, t, key) == SelectLastInSeq(q, LAMBDA x : key[x] <= key[t])

\* The walk from the tail towards the head that PriorityThreadScheduler::enter
\* and SingleCPUDispatcher::sleep make: behind the last item x with
\* key[x] >= key[t] (priorities) or key[x] <= key[t] (wake-up times); 0 when
\* there is no such item, and the item is then put at the head.
LastNotBelow(q, t, key) == SelectLastInSeq(q, LAMBDA x : key[x] >= key[t])
LastNotAbove(q, t, key) == SelectLastInSeq(q, LAMBDA x : key[x] <= key[t])

\* Mutation of EnterReady: no addHead() when the walk finds no place.
EnterReadyNoHead(L, t, eff) ==
  LET D == Detach(L, t)
      k == LastNotBelow(D["ready"], t, eff)
  IN  IF k = 0 THEN D ELSE [D EXCEPT !["ready"] = InsertAt(@, k + 1, t)]

\* PriorityThreadScheduler::enter(item): ready queue, descending priority.
EnterReady(L, t, eff) ==
  LET D == Detach(L, t)
      k == LastNotBelow(D["ready"], t, eff)
  IN  [D EXCEPT !["ready"] = InsertAt(@, k + 1, t)]

\* SingleCPUDispatcher::sleep(thread), the list part: ascending wake-up time.
EnterSleep(L, t, wake) ==
  LET D == Detach(L, t)
      k == LastNotAbove(D["sleep"], t, wake)
  IN  [D EXCEPT !["sleep"] = InsertAt(@, k + 1, t)]

\* Mutation of TakeHead: getNext() returns the head and leaves it queued.
TakeHeadPeek(L) == L

\* PriorityThreadScheduler::getNext(): the head leaves the ready queue.
TakeHead(L) == [L EXCEPT !["ready"] = Tail(@)]

\* LinkedList::insertAfter asserts that an item is not inserted behind itself.
\* The walk of enter() (of sleep()) ends at the item itself exactly when it is
\* in the list already and no item behind it qualifies.
SelfInsertReady(L, t, eff) ==
  LET k == LastNotBelow(L["ready"], t, eff) IN k # 0 /\ L["ready"][k] = t
SelfInsertSleep(L, t, wake) ==
  LET k == LastNotAbove(L["sleep"], t, wake) IN k # 0 /\ L["sleep"][k] = t

\* The threads of list n, and of all lists.
Members(L, n) == ToSet(L[n])
Listed(L) == UNION { Members(L, n) : n \in ListNames }

\* No thread is twice in s; no thread is in two places of L.
NoDup(s) == \A i, j \in DOMAIN s : s[i] = s[j] => i = j
Disjoint(L) ==
  /\ \A n \in ListNames : NoDup(L[n])
  /\ \A n, m \in ListNames : n # m => Members(L, n) \cap Members(L, m) = {}

\* The sequence q of threads is ordered by descending key.
Descending(q, key) ==
  \A i, j \in DOMAIN q : i < j => key[q[i]] >= key[q[j]]
=============================================================================
