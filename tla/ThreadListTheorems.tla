------------------------- MODULE ThreadListTheorems -------------------------
(***************************************************************************)
(* What the insertions and removals of module ThreadLists do to the type   *)
(* of the lists, to their members and to their order.                      *)
(***************************************************************************)
EXTENDS ThreadLists, TLAPS, FiniteSetTheorems, SequenceTheorems,
        WellFoundedInduction

\* A finite nonempty set of numbers has a largest one: its final segments are
\* finite sets, and the inclusion of finite sets is well founded.
LEMMA FiniteMaxExists ==
  ASSUME NEW S, S \subseteq Nat, IsFiniteSet(S), S # {}
  PROVE  \E x \in S : \A y \in S : x >= y
<1> DEFINE F == {{z \in S : z >= x} : x \in S}
<1>1. FiniteSubsetsOf(S) = SUBSET S
  BY FS_FiniteSubsetsOfFinite
<1>2. F \subseteq SUBSET S /\ F # {}
  OBVIOUS
<1>3. PICK M \in F : \A N \in F : ~ (<<N, M>> \in StrictSubsetOrdering(S))
  <2>1. IsWellFoundedOn(StrictSubsetOrdering(S), SUBSET S)
    BY <1>1, FS_StrictSubsetOrderingWellFounded
  <2> HIDE DEF F
  <2> QED  BY <1>2, <2>1, WFMin
<1>4. PICK x \in S : M = {z \in S : z >= x}
  BY <1>3
<1>5. ASSUME NEW y \in S  PROVE x >= y
  <2>1. SUFFICES ASSUME y > x  PROVE FALSE
    OBVIOUS
  <2> DEFINE N == {z \in S : z >= y}
  <2>2. N \in F
    OBVIOUS
  <2>3. x \in M /\ x \notin N /\ N \subseteq M
    <3>1. x \in Nat /\ y \in Nat /\ ~(x >= y)
      BY <2>1
    <3>2. \A z \in S : z \in Nat /\ (z >= y => z >= x)
      BY <2>1, <3>1
    <3>3. x >= x
      BY <3>1
    <3>4. x \in M
      BY <1>4, <3>3, Zenon
    <3>5. x \notin N
      BY <3>1, Zenon
    <3>6. N \subseteq M
      BY <1>4, <3>2, Zenon
    <3> QED  BY <3>4, <3>5, <3>6
  <2>4. M \in SUBSET S /\ N \in SUBSET S
    BY <1>2, <2>2
  <2> HIDE DEF F, N
  <2> QED  BY <1>3, <2>2, <2>3, <2>4 DEF StrictSubsetOrdering
<1> QED  BY <1>5

\* A nonempty set of positions up to n has a last one.
LEMMA MaxExists ==
  ASSUME NEW n \in Nat, NEW S, S \subseteq 1..n, S # {}
  PROVE  \E x \in S : \A y \in S : x >= y
<1>1. IsFiniteSet(1..n)
  BY FS_Interval
<1>2. IsFiniteSet(S)
  BY <1>1, FS_Subset, Zenon
<1>3. S \subseteq Nat
  OBVIOUS
<1> QED  BY <1>2, <1>3, FiniteMaxExists

\* A nonempty set of positions up to n has a first one.
LEMMA MinExists ==
  ASSUME NEW n \in Nat, NEW S, S \subseteq 1..n, S # {}
  PROVE  \E x \in S : \A y \in S : x <= y
<1> DEFINE T == {(n + 1) - x : x \in S}
<1>1. T \subseteq 1..n /\ T # {}
  <2>1. \A x \in S : x \in 1..n /\ (n + 1) - x \in 1..n
    OBVIOUS
  <2> QED  BY <2>1
<1>2. PICK z \in T : \A y \in T : z >= y
  <2> HIDE DEF T
  <2> QED  BY <1>1, MaxExists
<1>3. PICK x \in S : z = (n + 1) - x
  OBVIOUS
<1>4. ASSUME NEW y \in S  PROVE x <= y
  <2>1. (n + 1) - y \in T /\ z >= (n + 1) - y
    BY <1>2
  <2>2. x \in 1..n /\ y \in 1..n
    OBVIOUS
  <2> HIDE DEF T
  <2> QED  BY <2>1, <2>2, <1>3
<1> QED  BY <1>4

-----------------------------------------------------------------------------
\* RemoveAt closes the gap at position k.
LEMMA RemoveAtElements ==
  ASSUME NEW T, NEW s \in Seq(T), NEW k \in 1..Len(s)
  PROVE  /\ RemoveAt(s, k) \in Seq(T)
         /\ Len(RemoveAt(s, k)) = Len(s) - 1
         /\ \A i \in 1..(Len(s) - 1) :
              RemoveAt(s, k)[i] = IF i < k THEN s[i] ELSE s[i + 1]
<1> DEFINE a == SubSeq(s, 1, k - 1)
           b == SubSeq(s, k + 1, Len(s))
<1>1. a \in Seq(T) /\ Len(a) = k - 1 /\ \A i \in 1..(k - 1) : a[i] = s[i]
  OBVIOUS
<1>2. b \in Seq(T) /\ Len(b) = Len(s) - k /\ \A i \in 1..(Len(s) - k) : b[i] = s[i + k]
  OBVIOUS
<1>3. RemoveAt(s, k) = a \o b
  BY DEF RemoveAt
<1> HIDE DEF a, b
<1>4. /\ a \o b \in Seq(T) /\ Len(a \o b) = Len(a) + Len(b)
      /\ \A i \in 1..(Len(a) + Len(b)) :
           (a \o b)[i] = IF i <= Len(a) THEN a[i] ELSE b[i - Len(a)]
  BY <1>1, <1>2, ConcatProperties
<1>5. ASSUME NEW i \in 1..(Len(s) - 1)
      PROVE  (a \o b)[i] = IF i < k THEN s[i] ELSE s[i + 1]
  <2>1. CASE i < k
    BY <2>1, <1>1, <1>2, <1>4
  <2>2. CASE i >= k
    <3>1. i - (k - 1) \in 1..(Len(s) - k) /\ (i - (k - 1)) + k = i + 1
      BY <2>2
    <3>2. (a \o b)[i] = b[i - (k - 1)]
      BY <2>2, <1>1, <1>2, <1>4
    <3> QED  BY <2>2, <1>2, <3>1, <3>2
  <2>3. i < k \/ i >= k
    OBVIOUS
  <2> QED  BY <2>1, <2>2, <2>3
<1> QED  BY <1>1, <1>2, <1>3, <1>4, <1>5

\* InsertAt shifts the elements from position k on by one.
LEMMA InsertAtElements ==
  ASSUME NEW T, NEW s \in Seq(T), NEW k \in 1..(Len(s) + 1), NEW e \in T
  PROVE  /\ InsertAt(s, k, e) \in Seq(T)
         /\ Len(InsertAt(s, k, e)) = Len(s) + 1
         /\ \A i \in 1..(Len(s) + 1) :
              InsertAt(s, k, e)[i] = IF i < k THEN s[i]
                                     ELSE IF i = k THEN e ELSE s[i - 1]
<1> DEFINE a == SubSeq(s, 1, k - 1)
           b == SubSeq(s, k, Len(s))
<1>1. a \in Seq(T) /\ Len(a) = k - 1 /\ \A i \in 1..(k - 1) : a[i] = s[i]
  OBVIOUS
<1>2. b \in Seq(T) /\ Len(b) = Len(s) - k + 1
      /\ \A i \in 1..(Len(s) - k + 1) : b[i] = s[i + k - 1]
  OBVIOUS
<1>3. InsertAt(s, k, e) = (a \o <<e>>) \o b
  BY DEF InsertAt
<1>4. a \o <<e>> \in Seq(T) /\ Len(a \o <<e>>) = k
      /\ \A i \in 1..k : (a \o <<e>>)[i] = IF i < k THEN s[i] ELSE e
  <2> HIDE DEF a
  <2> QED  BY <1>1
<1> DEFINE c == a \o <<e>>
<1> HIDE DEF a, b, c
<1>5. c \in Seq(T) /\ Len(c) = k /\ \A i \in 1..k : c[i] = IF i < k THEN s[i] ELSE e
  BY <1>4 DEF c
<1>6. /\ c \o b \in Seq(T) /\ Len(c \o b) = Len(c) + Len(b)
      /\ \A i \in 1..(Len(c) + Len(b)) :
           (c \o b)[i] = IF i <= Len(c) THEN c[i] ELSE b[i - Len(c)]
  BY <1>2, <1>5, ConcatProperties
<1>7. ASSUME NEW i \in 1..(Len(s) + 1)
      PROVE  (c \o b)[i] = IF i < k THEN s[i] ELSE IF i = k THEN e ELSE s[i - 1]
  <2>1. CASE i <= k
    BY <2>1, <1>2, <1>5, <1>6
  <2>2. CASE i > k
    <3>1. i - k \in 1..(Len(s) - k + 1) /\ (i - k) + k - 1 = i - 1
      BY <2>2
    <3>2. (c \o b)[i] = b[i - k]
      BY <2>2, <1>2, <1>5, <1>6
    <3> QED  BY <2>2, <1>2, <3>1, <3>2
  <2>3. i <= k \/ i > k
    OBVIOUS
  <2> QED  BY <2>1, <2>2, <2>3
<1>8. InsertAt(s, k, e) = c \o b
  BY <1>3 DEF c
<1> QED  BY <1>2, <1>5, <1>6, <1>7, <1>8

\* RemoveFirst takes out one position, the first that holds the element.
LEMMA RemoveFirstPosition ==
  ASSUME NEW T, NEW s \in Seq(T), NEW e
  PROVE  \/ /\ \A i \in 1..Len(s) : s[i] # e
            /\ RemoveFirst(s, e) = s
         \/ \E k \in 1..Len(s) : s[k] = e /\ RemoveFirst(s, e) = RemoveAt(s, k)
<1> DEFINE I == {i \in 1..Len(s) : s[i] = e}
<1>1. CASE I = {}
  BY <1>1 DEF RemoveFirst
<1>2. CASE I # {}
  <2>1. \E x \in I : \A y \in I : x <= y
    <3>1. Len(s) \in Nat /\ I \subseteq 1..Len(s)
      OBVIOUS
    <3> HIDE DEF I
    <3> QED  BY <1>2, <3>1, MinExists
  <2>2. Min(I) \in I
    BY <2>1 DEF Min
  <2>3. RemoveFirst(s, e) = RemoveAt(s, Min(I))
    BY <1>2 DEF RemoveFirst, SelectInSeq
  <2> QED  BY <2>2, <2>3
<1> QED  BY <1>1, <1>2

\* RemoveFirst keeps the type, brings in nothing new and keeps the order.
LEMMA RemoveFirstSub ==
  ASSUME NEW T, NEW s \in Seq(T), NEW e
  PROVE  /\ RemoveFirst(s, e) \in Seq(T)
         /\ \A i, j \in DOMAIN RemoveFirst(s, e) : i < j =>
              \E p, q \in DOMAIN s : /\ p < q
                                     /\ RemoveFirst(s, e)[i] = s[p]
                                     /\ RemoveFirst(s, e)[j] = s[q]
         /\ ToSet(RemoveFirst(s, e)) \subseteq ToSet(s)
<1>1. CASE RemoveFirst(s, e) = s
  BY <1>1
<1>2. ASSUME NEW k \in 1..Len(s), RemoveFirst(s, e) = RemoveAt(s, k)
      PROVE  /\ RemoveFirst(s, e) \in Seq(T)
             /\ \A i, j \in DOMAIN RemoveFirst(s, e) : i < j =>
                  \E p, q \in DOMAIN s : /\ p < q
                                         /\ RemoveFirst(s, e)[i] = s[p]
                                         /\ RemoveFirst(s, e)[j] = s[q]
             /\ ToSet(RemoveFirst(s, e)) \subseteq ToSet(s)
  <2> DEFINE r == RemoveFirst(s, e)
             pos(i) == IF i < k THEN i ELSE i + 1
  <2>1. r \in Seq(T) /\ Len(r) = Len(s) - 1 /\ DOMAIN r = 1..(Len(s) - 1)
    BY <1>2, RemoveAtElements
  <2>2. \A i \in DOMAIN r : pos(i) \in DOMAIN s /\ r[i] = s[pos(i)]
    <3>1. \A i \in 1..(Len(s) - 1) : r[i] = IF i < k THEN s[i] ELSE s[i + 1]
      BY <1>2, RemoveAtElements
    <3>2. DOMAIN s = 1..Len(s) /\ Len(s) \in Nat
      OBVIOUS
    <3> HIDE DEF r
    <3> QED  BY <2>1, <3>1, <3>2
  <2>3. \A i, j \in DOMAIN r : i < j => pos(i) < pos(j)
    BY <2>1
  <2> HIDE DEF r, pos
  <2>4. \A i, j \in DOMAIN r : i < j =>
           \E p, q \in DOMAIN s : p < q /\ r[i] = s[p] /\ r[j] = s[q]
    BY <2>2, <2>3
  <2>5. ToSet(r) \subseteq ToSet(s)
    BY <2>2 DEF ToSet
  <2> QED  BY <2>1, <2>4, <2>5 DEF r
<1> QED  BY <1>1, <1>2, RemoveFirstPosition

\* From a sequence without duplicates it removes exactly the element.
LEMMA RemoveFirstExact ==
  ASSUME NEW T, NEW s \in Seq(T), NEW e, NoDup(s)
  PROVE  NoDup(RemoveFirst(s, e)) /\ ToSet(RemoveFirst(s, e)) = ToSet(s) \ {e}
<1>1. CASE (\A i \in 1..Len(s) : s[i] # e) /\ RemoveFirst(s, e) = s
  BY <1>1 DEF ToSet
<1>2. ASSUME NEW k \in 1..Len(s), s[k] = e, RemoveFirst(s, e) = RemoveAt(s, k)
      PROVE  NoDup(RemoveFirst(s, e)) /\ ToSet(RemoveFirst(s, e)) = ToSet(s) \ {e}
  <2> DEFINE r == RemoveFirst(s, e)
             pos(i) == IF i < k THEN i ELSE i + 1
  <2>1. r \in Seq(T) /\ Len(r) = Len(s) - 1 /\ DOMAIN r = 1..(Len(s) - 1)
    BY <1>2, RemoveAtElements
  <2>2. \A i \in DOMAIN r : pos(i) \in DOMAIN s /\ pos(i) # k /\ r[i] = s[pos(i)]
    <3>1. \A i \in 1..(Len(s) - 1) : r[i] = IF i < k THEN s[i] ELSE s[i + 1]
      BY <1>2, RemoveAtElements
    <3>2. DOMAIN s = 1..Len(s) /\ Len(s) \in Nat
      OBVIOUS
    <3> HIDE DEF r
    <3> QED  BY <2>1, <3>1, <3>2
  <2>3. \A i, j \in DOMAIN r : pos(i) = pos(j) => i = j
    BY <2>1
  <2>4. \A p \in DOMAIN s : p # k => \E i \in DOMAIN r : pos(i) = p
    <3> SUFFICES ASSUME NEW p \in DOMAIN s, p # k
                 PROVE  \E i \in DOMAIN r : pos(i) = p
      OBVIOUS
    <3>1. CASE p < k
      <4>1. p \in DOMAIN r /\ pos(p) = p
        BY <2>1, <3>1
      <4> QED  BY <4>1
    <3>2. CASE p > k
      <4>1. p - 1 \in DOMAIN r /\ pos(p - 1) = p
        BY <2>1, <3>2
      <4> QED  BY <4>1
    <3> QED  BY <3>1, <3>2
  <2> HIDE DEF r, pos
  <2>5. NoDup(r)
    BY <2>2, <2>3 DEF NoDup
  <2>6. k \in DOMAIN s
    OBVIOUS
  <2>7. ToSet(r) = ToSet(s) \ {e}
    BY <1>2, <2>2, <2>4, <2>6 DEF ToSet, NoDup
  <2> QED  BY <2>5, <2>7 DEF r
<1> QED  BY <1>1, <1>2, RemoveFirstPosition

\* InsertAt adds the element and nothing else.
LEMMA InsertAtExact ==
  ASSUME NEW T, NEW s \in Seq(T), NEW k \in 1..(Len(s) + 1), NEW e \in T
  PROVE  /\ ToSet(InsertAt(s, k, e)) = ToSet(s) \cup {e}
         /\ NoDup(s) /\ e \notin ToSet(s) => NoDup(InsertAt(s, k, e))
<1> DEFINE r == InsertAt(s, k, e)
           pos(i) == IF i < k THEN i ELSE i + 1
<1>1. r \in Seq(T) /\ DOMAIN r = 1..(Len(s) + 1) /\ k \in DOMAIN r /\ r[k] = e
  BY InsertAtElements
<1>2. \A i \in DOMAIN s : pos(i) \in DOMAIN r /\ pos(i) # k /\ r[pos(i)] = s[i]
  <2>1. \A i \in 1..(Len(s) + 1) :
          r[i] = IF i < k THEN s[i] ELSE IF i = k THEN e ELSE s[i - 1]
    BY InsertAtElements
  <2>2. DOMAIN s = 1..Len(s) /\ Len(s) \in Nat
    OBVIOUS
  <2> HIDE DEF r
  <2>3. ASSUME NEW i \in DOMAIN s
        PROVE  pos(i) \in DOMAIN r /\ pos(i) # k /\ r[pos(i)] = s[i]
    <3>1. CASE i < k
      BY <1>1, <2>1, <2>2, <3>1
    <3>2. CASE i >= k
      <4>1. i + 1 \in 1..(Len(s) + 1) /\ ~ (i + 1 < k) /\ i + 1 # k /\ (i + 1) - 1 = i
        BY <2>2, <3>2
      <4> QED  BY <1>1, <2>1, <3>2, <4>1
    <3> QED  BY <2>2, <3>1, <3>2
  <2> QED  BY <2>3
<1>3. \A p \in DOMAIN r : p # k => \E i \in DOMAIN s : pos(i) = p
  <2> SUFFICES ASSUME NEW p \in DOMAIN r, p # k
               PROVE  \E i \in DOMAIN s : pos(i) = p
    OBVIOUS
  <2>1. CASE p < k
    <3>1. p \in DOMAIN s /\ pos(p) = p
      BY <1>1, <2>1
    <3> QED  BY <3>1
  <2>2. CASE p > k
    <3>1. p - 1 \in DOMAIN s /\ pos(p - 1) = p
      BY <1>1, <2>2
    <3> QED  BY <3>1
  <2> QED  BY <1>1, <2>1, <2>2
<1> HIDE DEF r, pos
<1>4. ToSet(r) = ToSet(s) \cup {e}
  BY <1>1, <1>2, <1>3 DEF ToSet
<1>5. ASSUME NoDup(s), e \notin ToSet(s)  PROVE NoDup(r)
  BY <1>1, <1>2, <1>3, <1>5 DEF ToSet, NoDup
<1> QED  BY <1>4, <1>5 DEF r

-----------------------------------------------------------------------------
\* The walk from the tail ends behind the last thread that is not below t.
LEMMA LastNotBelowPosition ==
  ASSUME NEW T, NEW q \in Seq(T), NEW t, NEW key
  PROVE  /\ LastNotBelow(q, t, key) \in 0..Len(q)
         /\ LastNotBelow(q, t, key) # 0 => key[q[LastNotBelow(q, t, key)]] >= key[t]
         /\ \A i \in 1..Len(q) : i > LastNotBelow(q, t, key) => ~(key[q[i]] >= key[t])
<1> DEFINE I == {i \in 1..Len(q) : key[q[i]] >= key[t]}
           k == LastNotBelow(q, t, key)
<1>1. k = IF I # {} THEN Max(I) ELSE 0
  BY Zenon DEF LastNotBelow, SelectLastInSeq
<1>2. Len(q) \in Nat /\ I \subseteq 1..Len(q)
  OBVIOUS
<1>3. CASE I = {}
  <2>1. k = 0
    BY <1>1, <1>3, Zenon
  <2> HIDE DEF k
  <2>2. k \in 0..Len(q) /\ ~(k # 0) /\ \A i \in 1..Len(q) : ~(key[q[i]] >= key[t])
    BY <1>2, <1>3, <2>1
  <2> QED  BY <2>2, Zenon DEF k
<1>4. CASE I # {}
  <2>1. \E x \in I : \A y \in I : x >= y
    <3> HIDE DEF I, k
    <3> QED  BY <1>2, <1>4, MaxExists
  <2>2. Max(I) \in I /\ \A y \in I : Max(I) >= y
    BY <2>1, Zenon DEF Max
  <2>3. k = Max(I)
    BY <1>1, <1>4, Zenon
  <2>4. k \in I /\ \A y \in I : k >= y
    BY <2>2, <2>3, Zenon
  <2> HIDE DEF k
  <2>5. /\ k \in 0..Len(q)
        /\ key[q[k]] >= key[t]
        /\ \A i \in 1..Len(q) : i > k => ~(key[q[i]] >= key[t])
    BY <1>2, <2>4
  <2> QED  BY <2>5, Zenon DEF k
<1> QED  BY <1>3, <1>4

\* The walk of the sleep list ends behind the last thread that is not to wake
\* up later than t.
LEMMA LastNotAbovePosition ==
  ASSUME NEW T, NEW q \in Seq(T), NEW t, NEW key
  PROVE  /\ LastNotAbove(q, t, key) \in 0..Len(q)
         /\ LastNotAbove(q, t, key) # 0 => key[q[LastNotAbove(q, t, key)]] <= key[t]
         /\ \A i \in 1..Len(q) : i > LastNotAbove(q, t, key) => ~(key[q[i]] <= key[t])
<1> DEFINE I == {i \in 1..Len(q) : key[q[i]] <= key[t]}
           k == LastNotAbove(q, t, key)
<1>1. k = IF I # {} THEN Max(I) ELSE 0
  BY Zenon DEF LastNotAbove, SelectLastInSeq
<1>2. Len(q) \in Nat /\ I \subseteq 1..Len(q)
  OBVIOUS
<1>3. CASE I = {}
  <2>1. k = 0
    BY <1>1, <1>3, Zenon
  <2> HIDE DEF k
  <2>2. k \in 0..Len(q) /\ ~(k # 0) /\ \A i \in 1..Len(q) : ~(key[q[i]] <= key[t])
    BY <1>2, <1>3, <2>1
  <2> QED  BY <2>2, Zenon DEF k
<1>4. CASE I # {}
  <2>1. \E x \in I : \A y \in I : x >= y
    <3> HIDE DEF I, k
    <3> QED  BY <1>2, <1>4, MaxExists
  <2>2. Max(I) \in I /\ \A y \in I : Max(I) >= y
    BY <2>1, Zenon DEF Max
  <2>3. k = Max(I)
    BY <1>1, <1>4, Zenon
  <2>4. k \in I /\ \A y \in I : k >= y
    BY <2>2, <2>3, Zenon
  <2> HIDE DEF k
  <2>5. /\ k \in 0..Len(q)
        /\ key[q[k]] <= key[t]
        /\ \A i \in 1..Len(q) : i > k => ~(key[q[i]] <= key[t])
    BY <1>2, <2>4
  <2> QED  BY <2>5, Zenon DEF k
<1> QED  BY <1>3, <1>4

\* The insertion of PriorityThreadScheduler::enter keeps a queue sorted.
LEMMA InsertKeepsOrder ==
  ASSUME NEW T, NEW q \in Seq(T), NEW t \in T, NEW key \in [T -> Nat],
         Descending(q, key)
  PROVE  Descending(InsertAt(q, LastNotBelow(q, t, key) + 1, t), key)
<1> DEFINE k == LastNotBelow(q, t, key)
<1>1. /\ k \in 0..Len(q)
      /\ k # 0 => key[q[k]] >= key[t]
      /\ \A i \in 1..Len(q) : i > k => ~(key[q[i]] >= key[t])
  BY LastNotBelowPosition
<1> HIDE DEF k
<1> DEFINE p == k + 1
           r == InsertAt(q, p, t)
<1>2. p \in 1..(Len(q) + 1)
  BY <1>1
<1> HIDE DEF p
<1>3. /\ r \in Seq(T) /\ Len(r) = Len(q) + 1
      /\ \A i \in 1..(Len(q) + 1) :
           r[i] = IF i < p THEN q[i] ELSE IF i = p THEN t ELSE q[i - 1]
  BY <1>2, InsertAtElements
<1> HIDE DEF r
<1>4. \A i \in 1..Len(q) : q[i] \in T /\ key[q[i]] \in Nat
  OBVIOUS
<1>5. \A i \in 1..Len(q) : i <= k => key[q[i]] >= key[t]
  <2> SUFFICES ASSUME NEW i \in 1..Len(q), i <= k  PROVE key[q[i]] >= key[t]
    OBVIOUS
  <2>1. key[q[k]] >= key[t] /\ k \in 1..Len(q)
    BY <1>1
  <2>2. CASE i = k
    BY <2>1, <2>2
  <2>3. CASE i < k
    <3>1. key[q[i]] >= key[q[k]]
      BY <2>1, <2>3 DEF Descending
    <3> QED  BY <1>4, <2>1, <3>1
  <2> QED  BY <1>1, <2>2, <2>3
<1>6. \A i \in 1..Len(q) : i > k => key[q[i]] <= key[t]
  BY <1>1, <1>4
<1>7. ASSUME NEW i \in 1..(Len(q) + 1), NEW j \in 1..(Len(q) + 1), i < j
      PROVE  key[r[i]] >= key[r[j]]
  <2>6. /\ r[i] = IF i < k + 1 THEN q[i] ELSE IF i = k + 1 THEN t ELSE q[i - 1]
        /\ r[j] = IF j < k + 1 THEN q[j] ELSE IF j = k + 1 THEN t ELSE q[j - 1]
        /\ DOMAIN q = 1..Len(q) /\ Len(q) \in Nat /\ k \in 0..Len(q)
    BY <1>1, <1>3 DEF p
  <2>1. CASE j < k + 1
    <3>1. r[i] = q[i] /\ r[j] = q[j] /\ i \in DOMAIN q /\ j \in DOMAIN q
      BY <1>7, <2>6, <2>1
    <3> QED  BY <1>7, <3>1 DEF Descending
  <2>2. CASE j = k + 1
    <3>1. r[i] = q[i] /\ r[j] = t /\ i \in 1..Len(q) /\ i <= k
      BY <1>7, <2>6, <2>2
    <3> QED  BY <1>5, <3>1
  <2>3. CASE j > k + 1 /\ i = k + 1
    <3>1. r[i] = t /\ r[j] = q[j - 1] /\ j - 1 \in 1..Len(q) /\ j - 1 > k
      BY <1>7, <2>6, <2>3
    <3> QED  BY <1>6, <3>1
  <2>4. CASE j > k + 1 /\ i < k + 1
    <3>1. r[i] = q[i] /\ r[j] = q[j - 1] /\ i \in DOMAIN q /\ j - 1 \in DOMAIN q
          /\ i < j - 1
      BY <1>7, <2>6, <2>4
    <3> QED  BY <3>1 DEF Descending
  <2>5. CASE j > k + 1 /\ i > k + 1
    <3>1. r[i] = q[i - 1] /\ r[j] = q[j - 1] /\ i - 1 \in DOMAIN q
          /\ j - 1 \in DOMAIN q /\ i - 1 < j - 1
      BY <1>7, <2>6, <2>5
    <3> QED  BY <3>1 DEF Descending
  <2> QED  BY <1>1, <1>7, <2>1, <2>2, <2>3, <2>4, <2>5
<1>8. DOMAIN r = 1..(Len(q) + 1)
  BY <1>3
<1>9. Descending(r, key)
  BY <1>7, <1>8 DEF Descending
<1> QED  BY <1>9 DEF r, p, k

\* The sequence q of threads is ordered by ascending key.
Ascending(q, key) ==
  \A i, j \in DOMAIN q : i < j => key[q[i]] <= key[q[j]]

\* The insertion of SingleCPUDispatcher::sleep keeps a list in the order of the
\* wake-up times.
LEMMA InsertKeepsAscending ==
  ASSUME NEW T, NEW q \in Seq(T), NEW t \in T, NEW key \in [T -> Nat],
         Ascending(q, key)
  PROVE  Ascending(InsertAt(q, LastNotAbove(q, t, key) + 1, t), key)
<1> DEFINE k == LastNotAbove(q, t, key)
<1>1. /\ k \in 0..Len(q)
      /\ k # 0 => key[q[k]] <= key[t]
      /\ \A i \in 1..Len(q) : i > k => ~(key[q[i]] <= key[t])
  BY LastNotAbovePosition
<1> HIDE DEF k
<1> DEFINE p == k + 1
           r == InsertAt(q, p, t)
<1>2. p \in 1..(Len(q) + 1)
  BY <1>1
<1> HIDE DEF p
<1>3. /\ r \in Seq(T) /\ Len(r) = Len(q) + 1
      /\ \A i \in 1..(Len(q) + 1) :
           r[i] = IF i < p THEN q[i] ELSE IF i = p THEN t ELSE q[i - 1]
  BY <1>2, InsertAtElements
<1> HIDE DEF r
<1>4. \A i \in 1..Len(q) : q[i] \in T /\ key[q[i]] \in Nat
  OBVIOUS
<1>5. \A i \in 1..Len(q) : i <= k => key[q[i]] <= key[t]
  <2> SUFFICES ASSUME NEW i \in 1..Len(q), i <= k  PROVE key[q[i]] <= key[t]
    OBVIOUS
  <2>1. key[q[k]] <= key[t] /\ k \in 1..Len(q)
    BY <1>1
  <2>2. CASE i = k
    BY <2>1, <2>2
  <2>3. CASE i < k
    <3>1. key[q[i]] <= key[q[k]]
      BY <2>1, <2>3 DEF Ascending
    <3> QED  BY <1>4, <2>1, <3>1
  <2> QED  BY <1>1, <2>2, <2>3
<1>6. \A i \in 1..Len(q) : i > k => key[q[i]] >= key[t]
  BY <1>1, <1>4
<1>7. ASSUME NEW i \in 1..(Len(q) + 1), NEW j \in 1..(Len(q) + 1), i < j
      PROVE  key[r[i]] <= key[r[j]]
  <2>6. /\ r[i] = IF i < k + 1 THEN q[i] ELSE IF i = k + 1 THEN t ELSE q[i - 1]
        /\ r[j] = IF j < k + 1 THEN q[j] ELSE IF j = k + 1 THEN t ELSE q[j - 1]
        /\ DOMAIN q = 1..Len(q) /\ Len(q) \in Nat /\ k \in 0..Len(q)
    BY <1>1, <1>3 DEF p
  <2>1. CASE j < k + 1
    <3>1. r[i] = q[i] /\ r[j] = q[j] /\ i \in DOMAIN q /\ j \in DOMAIN q
      BY <1>7, <2>6, <2>1
    <3> QED  BY <1>7, <3>1 DEF Ascending
  <2>2. CASE j = k + 1
    <3>1. r[i] = q[i] /\ r[j] = t /\ i \in 1..Len(q) /\ i <= k
      BY <1>7, <2>6, <2>2
    <3> QED  BY <1>5, <3>1
  <2>3. CASE j > k + 1 /\ i = k + 1
    <3>1. r[i] = t /\ r[j] = q[j - 1] /\ j - 1 \in 1..Len(q) /\ j - 1 > k
      BY <1>7, <2>6, <2>3
    <3> QED  BY <1>6, <3>1
  <2>4. CASE j > k + 1 /\ i < k + 1
    <3>1. r[i] = q[i] /\ r[j] = q[j - 1] /\ i \in DOMAIN q /\ j - 1 \in DOMAIN q
          /\ i < j - 1
      BY <1>7, <2>6, <2>4
    <3> QED  BY <3>1 DEF Ascending
  <2>5. CASE j > k + 1 /\ i > k + 1
    <3>1. r[i] = q[i - 1] /\ r[j] = q[j - 1] /\ i - 1 \in DOMAIN q
          /\ j - 1 \in DOMAIN q /\ i - 1 < j - 1
      BY <1>7, <2>6, <2>5
    <3> QED  BY <3>1 DEF Ascending
  <2> QED  BY <1>1, <1>7, <2>1, <2>2, <2>3, <2>4, <2>5
<1>8. DOMAIN r = 1..(Len(q) + 1)
  BY <1>3
<1>9. Ascending(r, key)
  BY <1>7, <1>8 DEF Ascending
<1> QED  BY <1>9 DEF r, p, k

-----------------------------------------------------------------------------
\* LinkedListItem::remove() keeps the type and the order of every list; if
\* every thread is in one place, it takes the thread out of all lists.
LEMMA DetachLists ==
  ASSUME NEW T, NEW L \in [ListNames -> Seq(T)], NEW t
  PROVE  /\ Detach(L, t) \in [ListNames -> Seq(T)]
         /\ \A n \in ListNames : Members(Detach(L, t), n) \subseteq Members(L, n)
         /\ Disjoint(L) => /\ Disjoint(Detach(L, t))
                           /\ \A n \in ListNames :
                                Members(Detach(L, t), n) = Members(L, n) \ {t}
         /\ \A key : Descending(L["ready"], key)
                       => Descending(Detach(L, t)["ready"], key)
<1> DEFINE D == Detach(L, t)
<1>1. \A n \in ListNames : D[n] = RemoveFirst(L[n], t) /\ L[n] \in Seq(T)
  BY DEF Detach
<1>2. \A n \in ListNames : D[n] \in Seq(T) /\ ToSet(D[n]) \subseteq ToSet(L[n])
  BY <1>1, RemoveFirstSub
<1>3. D \in [ListNames -> Seq(T)]
  BY <1>1, <1>2 DEF Detach
<1>4. ASSUME Disjoint(L)
      PROVE  \A n \in ListNames : NoDup(D[n]) /\ ToSet(D[n]) = ToSet(L[n]) \ {t}
  BY <1>1, <1>4, RemoveFirstExact DEF Disjoint
<1>5. ASSUME NEW key, Descending(L["ready"], key)
      PROVE  Descending(D["ready"], key)
  <2>1. "ready" \in ListNames
    BY DEF ListNames
  <2> DEFINE q == L["ready"]
             r == D["ready"]
  <2>2. \A i, j \in DOMAIN r : i < j =>
          \E a, b \in DOMAIN q : a < b /\ r[i] = q[a] /\ r[j] = q[b]
    BY <1>1, <2>1, RemoveFirstSub
  <2> HIDE DEF q, r
  <2>3. Descending(q, key)
    BY <1>5 DEF q
  <2>4. Descending(r, key)
    BY <2>2, <2>3 DEF Descending
  <2> QED  BY <2>4 DEF r
<1>6. ASSUME Disjoint(L)  PROVE Disjoint(D)
  <2> HIDE DEF D
  <2> QED  BY <1>2, <1>4, <1>6 DEF Disjoint, Members
<1> HIDE DEF D
<1>7. /\ \A n \in ListNames : Members(D, n) \subseteq Members(L, n)
      /\ Disjoint(L) => \A n \in ListNames : Members(D, n) = Members(L, n) \ {t}
  BY <1>2, <1>4 DEF Members
<1> QED  BY <1>3, <1>5, <1>6, <1>7 DEF D

\* A detached thread is in no list, the others are where they were.
LEMMA DetachMembers ==
  ASSUME NEW T, NEW L \in [ListNames -> Seq(T)], NEW t, Disjoint(L), NEW n \in ListNames
  PROVE  Members(Detach(L, t), n) = Members(L, n) \ {t}
BY DetachLists

\* A detached thread is put into list n, which becomes the sequence s.
LEMMA PlaceLists ==
  ASSUME NEW T, NEW D \in [ListNames -> Seq(T)], NEW t \in T, NEW n \in ListNames,
         NEW s \in Seq(T), ToSet(s) = ToSet(D[n]) \cup {t},
         NoDup(D[n]) /\ t \notin ToSet(D[n]) => NoDup(s)
  PROVE  /\ [D EXCEPT ![n] = s] \in [ListNames -> Seq(T)]
         /\ \A m \in ListNames : Members([D EXCEPT ![n] = s], m)
                                   = IF m = n THEN Members(D, n) \cup {t}
                                     ELSE Members(D, m)
         /\ Disjoint(D) /\ (\A m \in ListNames : t \notin Members(D, m))
              => Disjoint([D EXCEPT ![n] = s])
<1> DEFINE E == [D EXCEPT ![n] = s]
<1>1. E \in [ListNames -> Seq(T)] /\ \A m \in ListNames : E[m] = IF m = n THEN s ELSE D[m]
  OBVIOUS
<1> HIDE DEF E
<1>2. ASSUME NEW m \in ListNames
      PROVE  Members(E, m) = IF m = n THEN Members(D, n) \cup {t} ELSE Members(D, m)
  BY <1>1 DEF Members
<1>3. ASSUME Disjoint(D), \A m \in ListNames : t \notin Members(D, m)
      PROVE  Disjoint(E)
  <2>1. \A m \in ListNames : NoDup(E[m])
    BY <1>1, <1>3 DEF Disjoint, Members
  <2>2. \A k, m \in ListNames : k # m => Members(E, k) \cap Members(E, m) = {}
    BY <1>2, <1>3 DEF Disjoint
  <2> QED  BY <2>1, <2>2 DEF Disjoint
<1> QED  BY <1>1, <1>2, <1>3 DEF E

\* Append adds the element and nothing else.
LEMMA AppendExact ==
  ASSUME NEW T, NEW s \in Seq(T), NEW e \in T
  PROVE  /\ Append(s, e) \in Seq(T)
         /\ ToSet(Append(s, e)) = ToSet(s) \cup {e}
         /\ NoDup(s) /\ e \notin ToSet(s) => NoDup(Append(s, e))
<1> DEFINE r == Append(s, e)
<1>1. /\ r \in Seq(T) /\ DOMAIN r = 1..(Len(s) + 1)
      /\ r[Len(s) + 1] = e /\ \A i \in 1..Len(s) : r[i] = s[i]
  OBVIOUS
<1>2. DOMAIN s = 1..Len(s) /\ Len(s) \in Nat
  OBVIOUS
<1> HIDE DEF r
<1>3. \A i \in DOMAIN r : i = Len(s) + 1 \/ i \in DOMAIN s
  BY <1>1, <1>2
<1>4. Len(s) + 1 \in DOMAIN r /\ DOMAIN s \subseteq DOMAIN r
  BY <1>1, <1>2
<1>5. ToSet(r) = ToSet(s) \cup {e}
  BY <1>1, <1>2, <1>3, <1>4 DEF ToSet
<1>6. ASSUME NoDup(s), e \notin ToSet(s)  PROVE NoDup(r)
  BY <1>1, <1>2, <1>3, <1>6 DEF NoDup, ToSet
<1> QED  BY <1>1, <1>5, <1>6 DEF r

\* Where the threads are after list operation E that moves thread t to list n
\* of the lists L: the type is kept, and t is in list n and in no other.
Moved(T, L, E, t, n) ==
  /\ E \in [ListNames -> Seq(T)]
  /\ Disjoint(L) => /\ Disjoint(E)
                    /\ \A m \in ListNames :
                         Members(E, m) = IF m = n THEN (Members(L, n) \ {t}) \cup {t}
                                         ELSE Members(L, m) \ {t}

\* Detaching t and putting it into list n, which becomes s, moves t there.
LEMMA MoveLists ==
  ASSUME NEW T, NEW L \in [ListNames -> Seq(T)], NEW t \in T, NEW n \in ListNames,
         NEW s \in Seq(T), ToSet(s) = ToSet(Detach(L, t)[n]) \cup {t},
         NoDup(Detach(L, t)[n]) /\ t \notin ToSet(Detach(L, t)[n]) => NoDup(s)
  PROVE  Moved(T, L, [Detach(L, t) EXCEPT ![n] = s], t, n)
<1> DEFINE D == Detach(L, t)
           E == [D EXCEPT ![n] = s]
<1>1. /\ D \in [ListNames -> Seq(T)]
      /\ Disjoint(L) => /\ Disjoint(D)
                        /\ \A m \in ListNames : Members(D, m) = Members(L, m) \ {t}
  BY DetachLists
<1>2. ToSet(s) = ToSet(D[n]) \cup {t} /\ (NoDup(D[n]) /\ t \notin ToSet(D[n]) => NoDup(s))
  OBVIOUS
<1> HIDE DEF D
<1>3. /\ E \in [ListNames -> Seq(T)]
      /\ \A m \in ListNames : Members(E, m) = IF m = n THEN Members(D, n) \cup {t}
                                              ELSE Members(D, m)
      /\ Disjoint(D) /\ (\A m \in ListNames : t \notin Members(D, m)) => Disjoint(E)
  BY <1>1, <1>2, PlaceLists
<1> HIDE DEF E
<1>4. Moved(T, L, E, t, n)
  BY <1>1, <1>3 DEF Moved
<1> QED  BY <1>4 DEF E, D

\* LinkedList::addTail moves the thread to the end of list n.
LEMMA AddTailMoves ==
  ASSUME NEW T, NEW L \in [ListNames -> Seq(T)], NEW t \in T, NEW n \in ListNames
  PROVE  Moved(T, L, AddTail(L, n, t), t, n)
<1> DEFINE D == Detach(L, t)
           s == Append(D[n], t)
<1>1. D \in [ListNames -> Seq(T)]
  BY DetachLists
<1>2. AddTail(L, n, t) = [D EXCEPT ![n] = s]
  BY <1>1 DEF AddTail
<1>3. s \in Seq(T) /\ ToSet(s) = ToSet(D[n]) \cup {t}
      /\ (NoDup(D[n]) /\ t \notin ToSet(D[n]) => NoDup(s))
  <2> HIDE DEF D
  <2> QED  BY <1>1, AppendExact
<1> HIDE DEF s
<1>4. Moved(T, L, [Detach(L, t) EXCEPT ![n] = s], t, n)
  BY <1>3, MoveLists
<1> QED  BY <1>2, <1>4

\* PriorityThreadScheduler::enter moves the thread to the ready queue.
LEMMA EnterReadyMoves ==
  ASSUME NEW T, NEW L \in [ListNames -> Seq(T)], NEW t \in T, NEW key
  PROVE  Moved(T, L, EnterReady(L, t, key), t, "ready")
<1> DEFINE D == Detach(L, t)
           k == LastNotBelow(D["ready"], t, key) + 1
           s == InsertAt(D["ready"], k, t)
<1>1. D \in [ListNames -> Seq(T)] /\ "ready" \in ListNames
  BY DetachLists DEF ListNames
<1>2. EnterReady(L, t, key) = [D EXCEPT !["ready"] = s]
  BY <1>1 DEF EnterReady
<1>3. s \in Seq(T) /\ ToSet(s) = ToSet(D["ready"]) \cup {t}
      /\ (NoDup(D["ready"]) /\ t \notin ToSet(D["ready"]) => NoDup(s))
  <2> DEFINE q == D["ready"]
             j == LastNotBelow(q, t, key)
  <2>1. q \in Seq(T)
    BY <1>1
  <2> HIDE DEF D, q
  <2>2. j \in 0..Len(q)
    BY <2>1, LastNotBelowPosition
  <2>3. k \in 1..(Len(q) + 1)
    <3>1. k = j + 1
      BY DEF q
    <3> HIDE DEF j, k
    <3> QED  BY <2>1, <2>2, <3>1
  <2> HIDE DEF k
  <2>4. InsertAt(q, k, t) \in Seq(T) /\ ToSet(InsertAt(q, k, t)) = ToSet(q) \cup {t}
        /\ (NoDup(q) /\ t \notin ToSet(q) => NoDup(InsertAt(q, k, t)))
    BY <2>1, <2>3, InsertAtElements, InsertAtExact
  <2> QED  BY <2>4 DEF q
<1> HIDE DEF s
<1>4. Moved(T, L, [Detach(L, t) EXCEPT !["ready"] = s], t, "ready")
  BY <1>1, <1>3, MoveLists
<1> QED  BY <1>2, <1>4

\* SingleCPUDispatcher::sleep moves the thread to the sleep list.
LEMMA EnterSleepMoves ==
  ASSUME NEW T, NEW L \in [ListNames -> Seq(T)], NEW t \in T, NEW wake
  PROVE  Moved(T, L, EnterSleep(L, t, wake), t, "sleep")
<1> DEFINE D == Detach(L, t)
           k == LastNotAbove(D["sleep"], t, wake) + 1
           s == InsertAt(D["sleep"], k, t)
<1>1. D \in [ListNames -> Seq(T)] /\ "sleep" \in ListNames
  BY DetachLists DEF ListNames
<1>2. EnterSleep(L, t, wake) = [D EXCEPT !["sleep"] = s]
  BY <1>1 DEF EnterSleep
<1>3. s \in Seq(T) /\ ToSet(s) = ToSet(D["sleep"]) \cup {t}
      /\ (NoDup(D["sleep"]) /\ t \notin ToSet(D["sleep"]) => NoDup(s))
  <2> DEFINE q == D["sleep"]
             j == LastNotAbove(q, t, wake)
  <2>1. q \in Seq(T)
    BY <1>1
  <2> HIDE DEF D, q
  <2>2. j \in 0..Len(q)
    BY <2>1, LastNotAbovePosition
  <2>3. k \in 1..(Len(q) + 1)
    <3>1. k = j + 1
      BY DEF q
    <3> HIDE DEF j, k
    <3> QED  BY <2>1, <2>2, <3>1
  <2> HIDE DEF k
  <2>4. InsertAt(q, k, t) \in Seq(T) /\ ToSet(InsertAt(q, k, t)) = ToSet(q) \cup {t}
        /\ (NoDup(q) /\ t \notin ToSet(q) => NoDup(InsertAt(q, k, t)))
    BY <2>1, <2>3, InsertAtElements, InsertAtExact
  <2> QED  BY <2>4 DEF q
<1> HIDE DEF s
<1>4. Moved(T, L, [Detach(L, t) EXCEPT !["sleep"] = s], t, "sleep")
  BY <1>1, <1>3, MoveLists
<1> QED  BY <1>2, <1>4

\* PriorityThreadScheduler::enter leaves the ready queue sorted if the queue
\* without the thread is sorted.
LEMMA EnterDetachedSorted ==
  ASSUME NEW T, NEW L \in [ListNames -> Seq(T)], NEW t \in T, NEW key \in [T -> Nat],
         Descending(Detach(L, t)["ready"], key)
  PROVE  Descending(EnterReady(L, t, key)["ready"], key)
<1> DEFINE D == Detach(L, t)
           q == D["ready"]
           r == InsertAt(q, LastNotBelow(q, t, key) + 1, t)
<1>1. D \in [ListNames -> Seq(T)]
  BY DetachLists
<1>2. EnterReady(L, t, key)["ready"] = r
  BY <1>1 DEF EnterReady, ListNames
<1>3. q \in Seq(T) /\ Descending(q, key)
  BY <1>1 DEF ListNames
<1> HIDE DEF q
<1>4. Descending(r, key)
  BY <1>3, InsertKeepsOrder
<1> QED  BY <1>2, <1>4

\* PriorityThreadScheduler::enter keeps the ready queue sorted ...
LEMMA EnterReadySorted ==
  ASSUME NEW T, NEW L \in [ListNames -> Seq(T)], NEW t \in T, NEW key \in [T -> Nat],
         Descending(L["ready"], key)
  PROVE  Descending(EnterReady(L, t, key)["ready"], key)
<1>1. Descending(Detach(L, t)["ready"], key)
  BY DetachLists, Zenon
<1> QED  BY <1>1, EnterDetachedSorted

\* ... also if the priority of the thread has just been changed to p.
LEMMA EnterReadyRaised ==
  ASSUME NEW T, NEW L \in [ListNames -> Seq(T)], NEW t \in T,
         NEW old \in [T -> Nat], NEW p \in Nat, Disjoint(L),
         Descending(L["ready"], old)
  PROVE  Descending(EnterReady(L, t, [old EXCEPT ![t] = p])["ready"],
                    [old EXCEPT ![t] = p])
<1> DEFINE key == [old EXCEPT ![t] = p]
           q == Detach(L, t)["ready"]
<1>1. key \in [T -> Nat] /\ \A x \in T : x # t => key[x] = old[x]
  OBVIOUS
<1>2. Descending(q, old)
  BY DetachLists, Zenon
<1>3. q \in Seq(T)
  <2>1. Detach(L, t) \in [ListNames -> Seq(T)]
    BY DetachLists
  <2> QED  BY <2>1 DEF ListNames
<1>4. t \notin ToSet(q)
  <2>1. "ready" \in ListNames
    BY DEF ListNames
  <2>2. Members(Detach(L, t), "ready") = Members(L, "ready") \ {t}
    BY <2>1, DetachMembers
  <2> QED  BY <2>2 DEF Members
<1> HIDE DEF key, q
<1>5. \A i \in DOMAIN q : key[q[i]] = old[q[i]]
  BY <1>1, <1>3, <1>4 DEF ToSet
<1>6. Descending(q, key)
  BY <1>2, <1>5 DEF Descending
<1>7. Descending(EnterReady(L, t, key)["ready"], key)
  BY <1>1, <1>6, EnterDetachedSorted DEF q
<1> QED  BY <1>7 DEF key

\* A thread that is moved to another list leaves the ready queue sorted.
LEMMA MoveKeepsSorted ==
  ASSUME NEW T, NEW L \in [ListNames -> Seq(T)], NEW t \in T, NEW key,
         NEW n \in ListNames, n # "ready", Descending(L["ready"], key)
  PROVE  /\ Descending(AddTail(L, n, t)["ready"], key)
         /\ \A wake : Descending(EnterSleep(L, t, wake)["ready"], key)
<1> DEFINE D == Detach(L, t)
<1>1. D \in [ListNames -> Seq(T)] /\ Descending(D["ready"], key)
  BY DetachLists
<1>2. "ready" \in ListNames /\ "sleep" # "ready"
  BY DEF ListNames
<1>3. AddTail(L, n, t)["ready"] = D["ready"]
  BY <1>1, <1>2 DEF AddTail
<1>4. \A wake : EnterSleep(L, t, wake)["ready"] = D["ready"]
  BY <1>1, <1>2 DEF EnterSleep
<1> QED  BY <1>1, <1>3, <1>4

\* getNext() takes the head out of the ready queue and leaves it sorted.
LEMMA TakeHeadLists ==
  ASSUME NEW T, NEW L \in [ListNames -> Seq(T)], L["ready"] # <<>>
  PROVE  /\ TakeHead(L) \in [ListNames -> Seq(T)]
         /\ Head(L["ready"]) \in T
         /\ Disjoint(L) => /\ Disjoint(TakeHead(L))
                           /\ \A n \in ListNames :
                                Members(TakeHead(L), n) = Members(L, n) \ {Head(L["ready"])}
         /\ \A key : Descending(L["ready"], key) => Descending(TakeHead(L)["ready"], key)
<1> DEFINE E == TakeHead(L)
           q == L["ready"]
           r == Tail(q)
<1>1. q \in Seq(T) /\ q # <<>> /\ "ready" \in ListNames
  BY DEF ListNames
<1>2. /\ E \in [ListNames -> Seq(T)]
      /\ E["ready"] = r
      /\ \A n \in ListNames : n # "ready" => E[n] = L[n]
  BY <1>1 DEF TakeHead
<1> HIDE DEF q, E
<1>3. /\ r \in Seq(T) /\ Len(q) \in Nat /\ Len(q) > 0
      /\ DOMAIN q = 1..Len(q) /\ DOMAIN r = 1..(Len(q) - 1)
      /\ \A i \in 1..(Len(q) - 1) : r[i] = q[i + 1]
      /\ Head(q) = q[1] /\ Head(q) \in T
  BY <1>1
<1>4. L["ready"] = q
  BY DEF q
<1> HIDE DEF r
<1>5. Head(q) \in ToSet(q)
  <2>1. 1 \in DOMAIN q /\ Head(q) = q[1]
    BY <1>3
  <2> QED  BY <2>1 DEF ToSet
<1>6. ToSet(r) \subseteq ToSet(q)
  <2>1. \A i \in DOMAIN r : i + 1 \in DOMAIN q /\ r[i] = q[i + 1]
    BY <1>3
  <2> QED  BY <2>1 DEF ToSet
<1>7. ASSUME NoDup(q)  PROVE NoDup(r) /\ ToSet(r) = ToSet(q) \ {Head(q)}
  <2>1. \A i \in DOMAIN r : i + 1 \in DOMAIN q /\ i + 1 # 1 /\ r[i] = q[i + 1]
    BY <1>3
  <2>2. \A i, j \in DOMAIN r : i + 1 = j + 1 => i = j
    BY <1>3
  <2>3. \A p \in DOMAIN q : p # 1 => p - 1 \in DOMAIN r /\ (p - 1) + 1 = p
    BY <1>3
  <2>4. 1 \in DOMAIN q
    BY <1>3
  <2>5. NoDup(r)
    BY <1>7, <2>1, <2>2 DEF NoDup
  <2>6. \A i \in DOMAIN r : r[i] \in ToSet(q) \ {q[1]}
    BY <1>7, <2>1, <2>4 DEF NoDup, ToSet
  <2>7. ASSUME NEW p \in DOMAIN q, q[p] # q[1]  PROVE \E i \in DOMAIN r : r[i] = q[p]
    <3>1. p - 1 \in DOMAIN r /\ r[p - 1] = q[p]
      BY <2>1, <2>3, <2>7
    <3> QED  BY <3>1
  <2>8. ToSet(r) = ToSet(q) \ {q[1]}
    BY <2>6, <2>7 DEF ToSet
  <2> QED  BY <1>3, <2>5, <2>8
<1>8. ASSUME NEW key, Descending(q, key)  PROVE Descending(r, key)
  <2>1. \A i, j \in DOMAIN r : i < j =>
          /\ i + 1 \in DOMAIN q /\ j + 1 \in DOMAIN q /\ i + 1 < j + 1
          /\ r[i] = q[i + 1] /\ r[j] = q[j + 1]
    BY <1>3
  <2> QED  BY <1>8, <2>1 DEF Descending
<1>9. \A n \in ListNames : Members(E, n) \subseteq Members(L, n)
  BY <1>2, <1>4, <1>6 DEF Members
<1>10. ASSUME Disjoint(L)
       PROVE  \A n \in ListNames : NoDup(E[n]) /\ Members(E, n) = Members(L, n) \ {Head(q)}
  <2>1. \A n \in ListNames : n # "ready" => Head(q) \notin Members(L, n)
    BY <1>1, <1>4, <1>5, <1>10 DEF Disjoint, Members
  <2>2. \A n \in ListNames : n # "ready" =>
           NoDup(E[n]) /\ Members(E, n) = Members(L, n) \ {Head(q)}
    BY <1>2, <1>10, <2>1 DEF Disjoint, Members
  <2>3. NoDup(E["ready"]) /\ Members(E, "ready") = Members(L, "ready") \ {Head(q)}
    BY <1>1, <1>2, <1>4, <1>7, <1>10 DEF Disjoint, Members
  <2> QED  BY <2>2, <2>3
<1>11. ASSUME Disjoint(L)  PROVE Disjoint(E)
  BY <1>9, <1>10, <1>11 DEF Disjoint
<1> QED  BY <1>2, <1>3, <1>4, <1>8, <1>10, <1>11 DEF E

\* SetToSeq lists the elements of a finite set, each of them once.
LEMMA SetToSeqExact ==
  ASSUME NEW S, IsFiniteSet(S)
  PROVE  SetToSeq(S) \in Seq(S) /\ NoDup(SetToSeq(S))
<1> DEFINE n == Cardinality(S)
           Good(f) == f \in [1..n -> S] /\ IsInjective(f)
<1>1. n \in Nat /\ ExistsBijection(1..n, S)
  BY FS_CardinalityType
<1>2. \E f \in [1..n -> S] : IsInjective(f)
  BY <1>1 DEF ExistsBijection, Bijection, Injection, IsInjective
<1>3. SetToSeq(S) = CHOOSE f \in [1..n -> S] : IsInjective(f)
  BY DEF SetToSeq
<1>4. SetToSeq(S) \in [1..n -> S] /\ IsInjective(SetToSeq(S))
  BY <1>2, <1>3, Zenon
<1> HIDE DEF n
<1>5. SetToSeq(S) \in Seq(S)
  BY <1>1, <1>4
<1> QED  BY <1>4, <1>5 DEF NoDup, IsInjective

\* The same for lists in which every thread has one place.
LEMMA TakeHeadSound ==
  ASSUME NEW T, NEW L \in [ListNames -> Seq(T)], L["ready"] # <<>>, Disjoint(L)
  PROVE  /\ Disjoint(TakeHead(L))
         /\ \A n \in ListNames : Members(TakeHead(L), n) = Members(L, n) \ {Head(L["ready"])}
BY TakeHeadLists

\* The order of the queue that is left.
LEMMA TakeHeadSorted ==
  ASSUME NEW T, NEW L \in [ListNames -> Seq(T)], L["ready"] # <<>>,
         NEW key, Descending(L["ready"], key)
  PROVE  Descending(TakeHead(L)["ready"], key)
BY TakeHeadLists, Zenon

\* r is what is left of s after some elements are taken out.
Thinned(s, r) ==
  /\ ToSet(r) \subseteq ToSet(s)
  /\ \A i, j \in DOMAIN r : i < j =>
       \E p, q \in DOMAIN s : p < q /\ r[i] = s[p] /\ r[j] = s[q]

\* A list that is thinned out stays in order, if the keys of what is left stay.
LEMMA ThinnedAscending ==
  ASSUME NEW s, NEW r, Thinned(s, r), NEW key, NEW new, Ascending(s, key),
         \A x \in ToSet(r) : new[x] = key[x]
  PROVE  Ascending(r, new)
<1>1. \A i \in DOMAIN r : new[r[i]] = key[r[i]]
  BY DEF ToSet
<1> QED  BY <1>1 DEF Ascending, Thinned

\* Whatever puts a thread into another list thins the sleep list out.
LEMMA SleepThinned ==
  ASSUME NEW T, NEW L \in [ListNames -> Seq(T)], NEW t
  PROVE  /\ Thinned(L["sleep"], L["sleep"])
         /\ Thinned(L["sleep"], Detach(L, t)["sleep"])
         /\ \A n \in ListNames : n # "sleep" => Thinned(L["sleep"], AddTail(L, n, t)["sleep"])
         /\ \A key : Thinned(L["sleep"], EnterReady(L, t, key)["sleep"])
<1> DEFINE D == Detach(L, t)
<1>1. "sleep" \in ListNames /\ "sleep" # "ready" /\ L["sleep"] \in Seq(T)
  BY DEF ListNames
<1>2. D \in [ListNames -> Seq(T)] /\ D["sleep"] = RemoveFirst(L["sleep"], t)
  <2>1. D \in [ListNames -> Seq(T)]
    BY DetachLists
  <2>2. D["sleep"] = RemoveFirst(L["sleep"], t)
    BY <1>1 DEF Detach
  <2> QED  BY <2>1, <2>2
<1>3. Thinned(L["sleep"], D["sleep"])
  BY <1>1, <1>2, RemoveFirstSub DEF Thinned
<1> HIDE DEF D
<1>4. \A n \in ListNames : n # "sleep" => AddTail(L, n, t)["sleep"] = D["sleep"]
  BY <1>1, <1>2 DEF AddTail, D
<1>5. \A key : EnterReady(L, t, key)["sleep"] = D["sleep"]
  BY <1>1, <1>2 DEF EnterReady, D
<1>6. Thinned(L["sleep"], L["sleep"])
  BY DEF Thinned
<1> QED  BY <1>3, <1>4, <1>5, <1>6 DEF D

\* SingleCPUDispatcher::sleep keeps the sleep list in order, also if the
\* wake-up time of the thread has just been set.
LEMMA EnterSleepAscending ==
  ASSUME NEW T, NEW L \in [ListNames -> Seq(T)], NEW t \in T, t \notin Members(L, "sleep"),
         NEW old \in [T -> Nat], NEW wake \in [T -> Nat], Ascending(L["sleep"], old),
         \A x \in T : x # t => wake[x] = old[x]
  PROVE  Ascending(EnterSleep(L, t, wake)["sleep"], wake)
<1> DEFINE D == Detach(L, t)
           q == D["sleep"]
           r == InsertAt(q, LastNotAbove(q, t, wake) + 1, t)
<1>1. D \in [ListNames -> Seq(T)]
  BY DetachLists
<1>2. EnterSleep(L, t, wake)["sleep"] = r
  BY <1>1 DEF EnterSleep, ListNames
<1>3. q \in Seq(T)
  BY <1>1 DEF ListNames
<1>4. Thinned(L["sleep"], q)
  BY SleepThinned
<1> HIDE DEF D, q
<1>5. \A x \in ToSet(q) : wake[x] = old[x]
  <2>1. t \notin ToSet(q)
    BY <1>4 DEF Thinned, Members
  <2>2. ToSet(q) \subseteq T
    BY <1>3 DEF ToSet
  <2> QED  BY <2>1, <2>2
<1>6. Ascending(q, wake)
  BY <1>4, <1>5, ThinnedAscending
<1>7. Ascending(r, wake)
  BY <1>3, <1>6, InsertKeepsAscending
<1> QED  BY <1>2, <1>7

\* Taking out the element at position k leaves those in front of it in place.
LEMMA RemoveFirstPrefix ==
  ASSUME NEW T, NEW s \in Seq(T), NoDup(s), NEW k \in 1..Len(s)
  PROVE  \A i \in DOMAIN RemoveFirst(s, s[k]) : i < k =>
           i \in DOMAIN s /\ RemoveFirst(s, s[k])[i] = s[i]
<1>1. PICK j \in 1..Len(s) : s[j] = s[k] /\ RemoveFirst(s, s[k]) = RemoveAt(s, j)
  BY RemoveFirstPosition
<1>2. j = k
  BY <1>1 DEF NoDup
<1> DEFINE r == RemoveAt(s, k)
<1>3. /\ r \in Seq(T) /\ DOMAIN r = 1..(Len(s) - 1)
      /\ \A i \in 1..(Len(s) - 1) : r[i] = IF i < k THEN s[i] ELSE s[i + 1]
  BY RemoveAtElements
<1>4. DOMAIN s = 1..Len(s) /\ Len(s) \in Nat
  OBVIOUS
<1> HIDE DEF r
<1>5. \A i \in DOMAIN r : i < k => i \in DOMAIN s /\ r[i] = s[i]
  BY <1>3, <1>4
<1> QED  BY <1>1, <1>2, <1>5 DEF r
=============================================================================
