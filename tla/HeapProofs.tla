----------------------------- MODULE HeapProofs -----------------------------
(***************************************************************************)
(* Proofs about module Heap, for segments, headers, alignments and sizes   *)
(* of any value and any number of threads.                                 *)
(*                                                                         *)
(* All theorems are about requests that fit in a size_t together with      *)
(* SAFETY_BUFFER: a larger one gets a tiny block, and the words of         *)
(* SAFETY_CHAR that alloc() then writes destroy the header of its chunk.   *)
(***************************************************************************)
EXTENDS Heap, FiniteSetTheorems, WellFoundedInduction, TLAPS

-----------------------------------------------------------------------------
(* Arithmetic of the alignment.                                            *)

\* A remainder is smaller than the divisor.
LEMMA ModRange ==
  ASSUME NEW x \in Int, NEW n \in Nat \ {0}
  PROVE  x % n \in 0..(n - 1)
BY SMT

\* Division with remainder.
LEMMA DivMod ==
  ASSUME NEW x \in Nat, NEW n \in Nat \ {0}
  PROVE  x \div n \in Nat /\ x = n * (x \div n) + (x % n)
BY ModRange, SMTT(30)

\* A multiple leaves no remainder.
LEMMA MultipleMod ==
  ASSUME NEW x \in Nat, NEW n \in Nat \ {0}
  PROVE  (n * x) % n = 0
BY ModRange, SMTT(30)

\* alignCeil() returns an aligned address that is not below its argument.
LEMMA AlignCeil ==
  ASSUME NEW a \in Nat, NEW n \in Nat \ {0}
  PROVE  /\ alignCeil(a, n) \in Nat
         /\ alignCeil(a, n) >= a
         /\ alignCeil(a, n) % n = 0
<1> DEFINE x == a + (n - 1)
<1>1. x \in Nat
  OBVIOUS
<1>2. x % n \in 0..(n - 1)
  BY <1>1, ModRange
<1>3. x \div n \in Nat /\ x = n * (x \div n) + (x % n)
  BY <1>1, DivMod
<1>4. (n * (x \div n)) % n = 0
  BY <1>3, MultipleMod
<1>5. alignCeil(a, n) = x - (x % n)
  BY DEF alignCeil, alignFloor
<1>6. n * (x \div n) \in Int
  BY <1>3
<1>7. x - (x % n) = n * (x \div n)
  BY <1>1, <1>2, <1>3, <1>6
<1>8. x - (x % n) >= a
  BY <1>1, <1>2
<1>9. x - (x % n) \in Nat
  BY <1>1, <1>2, <1>8
<1> QED  BY <1>4, <1>5, <1>7, <1>8, <1>9

\* A set of addresses that is not empty has a least element.
LEMMA LeastAddress ==
  ASSUME NEW T, T \subseteq Nat, T # {}
  PROVE  Min(T) \in T /\ \A y \in T : Min(T) <= y
<1>1. \E x \in T : \A y \in T : ~(<<y, x>> \in OpToRel(<, Nat))
  BY WFMin, NatLessThanWellFounded
<1>2. PICK x \in T : \A y \in T : ~(<<y, x>> \in OpToRel(<, Nat))
  BY <1>1
<1>3. \A y \in T : x <= y
  <2> SUFFICES ASSUME NEW y \in T PROVE x <= y
    OBVIOUS
  <2>1. ~(<<y, x>> \in OpToRel(<, Nat))
    BY <1>2
  <2>2. x \in Nat /\ y \in Nat
    OBVIOUS
  <2>3. ~(y < x)
    BY <2>1, <2>2 DEF OpToRel
  <2> QED  BY <2>2, <2>3
<1> QED  BY <1>3, Zenon DEF Min

-----------------------------------------------------------------------------
(* Sums over finite sets.  MapThenSumSet iterates over the subsets of its  *)
(* set; what it computes follows from the equation of that iteration.      *)

Sum(f, S) == MapThenSumSet(LAMBDA x : f[x], S)

\* The element the iteration takes next.
Picked(s) == CHOOSE x \in s : TRUE

\* One round of the iteration over the subsets of S, from the sums g.
Round(g, f, S) ==
  [s \in SUBSET S |-> IF s = {} THEN 0 ELSE f[Picked(s)] + g[s \ {Picked(s)}]]

\* g is the iteration over the subsets of S.
Iterates(g, f, S) == g = Round(g, f, S)

\* g is right for the subsets with up to n elements.
IteratesUpto(g, f, S, n) ==
  \A s \in SUBSET S : Cardinality(s) <= n => g[s] = Round(g, f, S)[s]

\* The element taken is in the set, and what is left is smaller.
LEMMA PickedFacts ==
  ASSUME NEW s, IsFiniteSet(s), s # {}
  PROVE  /\ Picked(s) \in s
         /\ IsFiniteSet(s \ {Picked(s)})
         /\ Cardinality(s) \in Nat \ {0}
         /\ Cardinality(s \ {Picked(s)}) = Cardinality(s) - 1
<1>1. Picked(s) \in s
  BY Zenon DEF Picked
<1>2. Cardinality(s) \in Nat /\ Cardinality(s) # 0
  BY FS_CardinalityType, FS_EmptySet
<1> QED  BY <1>1, <1>2, FS_RemoveElement

\* Two iterations over numbers that agree give the same sums, and these are numbers.
LEMMA IterationsAgree ==
  ASSUME NEW S, NEW f, NEW g, Iterates(g, f, S),
         NEW T, NEW e, NEW h, Iterates(h, e, T),
         NEW U, U \subseteq S, U \subseteq T, IsFiniteSet(U),
         \A x \in U : f[x] = e[x] /\ f[x] \in Nat
  PROVE  g[U] = h[U] /\ g[U] \in Nat
<1> DEFINE Bad == {n \in Nat : \E s \in SUBSET U : Cardinality(s) = n /\ ~(g[s] = h[s] /\ g[s] \in Nat)}
<1>1. ASSUME Bad # {} PROVE FALSE
  <2>1. Bad \subseteq Nat
    OBVIOUS
  <2>2. Min(Bad) \in Bad /\ \A y \in Bad : Min(Bad) <= y
    BY <1>1, <2>1, LeastAddress
  <2>3. PICK m \in Bad : \A y \in Bad : m <= y
    BY <2>2
  <2>4. PICK s \in SUBSET U : Cardinality(s) = m /\ ~(g[s] = h[s] /\ g[s] \in Nat)
    BY <2>3
  <2>5. s \in SUBSET S /\ s \in SUBSET T
    BY <2>4
  <2>6. g[s] = IF s = {} THEN 0 ELSE f[Picked(s)] + g[s \ {Picked(s)}]
    BY <2>5 DEF Iterates, Round
  <2>7. h[s] = IF s = {} THEN 0 ELSE e[Picked(s)] + h[s \ {Picked(s)}]
    BY <2>5 DEF Iterates, Round
  <2>8. s # {}
    BY <2>4, <2>6, <2>7
  <2>9. IsFiniteSet(s)
    BY FS_Subset
  <2>10. /\ Picked(s) \in s /\ IsFiniteSet(s \ {Picked(s)})
         /\ Cardinality(s) \in Nat \ {0}
         /\ Cardinality(s \ {Picked(s)}) = Cardinality(s) - 1
    BY <2>8, <2>9, PickedFacts
  <2>11. s \ {Picked(s)} \in SUBSET U
    OBVIOUS
  <2>12. m - 1 \in Nat /\ m - 1 \notin Bad
    BY <2>3, <2>4, <2>10
  <2>13. g[s \ {Picked(s)}] = h[s \ {Picked(s)}] /\ g[s \ {Picked(s)}] \in Nat
    BY <2>4, <2>10, <2>11, <2>12
  <2>14. f[Picked(s)] = e[Picked(s)] /\ f[Picked(s)] \in Nat
    BY <2>10
  <2> QED  BY <2>4, <2>6, <2>7, <2>8, <2>13, <2>14
<1>2. Cardinality(U) \in Nat
  BY FS_CardinalityType
<1>3. U \in SUBSET U
  OBVIOUS
<1> QED  BY <1>1, <1>2, <1>3

\* The iteration exists.
LEMMA IterationExists ==
  ASSUME NEW S, IsFiniteSet(S), NEW f, \A x \in S : f[x] \in Nat
  PROVE  \E g : Iterates(g, f, S)
<1> DEFINE Bad == {n \in Nat : \A g \in [SUBSET S -> Nat] : ~IteratesUpto(g, f, S, n)}
<1>1. ASSUME NEW g \in [SUBSET S -> Nat] PROVE Round(g, f, S) \in [SUBSET S -> Nat]
  <2> SUFFICES ASSUME NEW s \in SUBSET S, s # {} PROVE f[Picked(s)] + g[s \ {Picked(s)}] \in Nat
    BY DEF Round
  <2>1. Picked(s) \in s
    BY Zenon DEF Picked
  <2>2. f[Picked(s)] \in Nat /\ s \ {Picked(s)} \in SUBSET S
    BY <2>1
  <2> QED  BY <2>2
<1>2. \A s \in SUBSET S : IsFiniteSet(s) /\ Cardinality(s) \in Nat
  BY FS_Subset, FS_CardinalityType
<1> DEFINE Smaller(s) == /\ Picked(s) \in s
                         /\ Cardinality(s) > 0
                         /\ Cardinality(s \ {Picked(s)}) = Cardinality(s) - 1
<1>3. ASSUME NEW s \in SUBSET S, s # {} PROVE Smaller(s)
  BY <1>2, <1>3, PickedFacts
<1>4. ASSUME NEW g \in [SUBSET S -> Nat], NEW n \in Nat, IteratesUpto(g, f, S, n)
      PROVE  IteratesUpto(Round(g, f, S), f, S, n + 1)
  <2> SUFFICES ASSUME NEW s \in SUBSET S, Cardinality(s) <= n + 1
               PROVE  Round(g, f, S)[s] = Round(Round(g, f, S), f, S)[s]
    BY DEF IteratesUpto
  <2>1. CASE s = {}
    BY <2>1 DEF Round
  <2>2. CASE s # {}
    <3> DEFINE r == s \ {Picked(s)}
    <3>1. r \in SUBSET S /\ Cardinality(r) <= n
      BY <2>2, <1>2, <1>3
    <3>2. g[r] = Round(g, f, S)[r]
      BY <3>1, <1>4 DEF IteratesUpto
    <3> HIDE DEF r
    <3>3. Round(g, f, S)[s] = f[Picked(s)] + g[r]
      BY <2>2 DEF r, Round
    <3>4. Round(Round(g, f, S), f, S)[s] = f[Picked(s)] + Round(g, f, S)[r]
      BY <2>2 DEF r, Round
    <3> QED  BY <3>2, <3>3, <3>4
  <2> QED  BY <2>1, <2>2
<1>5. ASSUME Bad # {} PROVE FALSE
  <2>1. Bad \subseteq Nat
    OBVIOUS
  <2>2. Min(Bad) \in Bad /\ \A y \in Bad : Min(Bad) <= y
    BY <1>5, <2>1, LeastAddress
  <2>3. PICK m \in Bad : \A y \in Bad : m <= y
    BY <2>2
  <2>4. CASE m = 0
    <3> DEFINE z == [s \in SUBSET S |-> 0]
    <3>1. z \in [SUBSET S -> Nat]
      OBVIOUS
    <3>2. IteratesUpto(z, f, S, 0)
      <4> SUFFICES ASSUME NEW s \in SUBSET S, Cardinality(s) <= 0 PROVE z[s] = Round(z, f, S)[s]
        BY DEF IteratesUpto
      <4>1. ASSUME s # {} PROVE FALSE
        <5>1. Cardinality(s) \in Nat /\ Cardinality(s) > 0
          BY <4>1, <1>2, <1>3
        <5> QED  BY <5>1
      <4> QED  BY <4>1 DEF Round
    <3> QED  BY <3>1, <3>2, <2>3, <2>4
  <2>5. CASE m # 0
    <3>0. m \in Nat /\ \A y \in Bad : m <= y
      BY <2>3
    <3>1. m - 1 \in Nat /\ m - 1 \notin Bad
      <4> HIDE DEF Bad
      <4> QED  BY <3>0, <2>5
    <3>2. PICK g \in [SUBSET S -> Nat] : IteratesUpto(g, f, S, m - 1)
      BY <3>1
    <3>3. IteratesUpto(Round(g, f, S), f, S, (m - 1) + 1)
      BY <3>1, <3>2, <1>4
    <3>4. Round(g, f, S) \in [SUBSET S -> Nat]
      BY <1>1
    <3>5. (m - 1) + 1 = m
      BY <3>1, <2>3
    <3> QED  BY <3>3, <3>4, <3>5, <2>3
  <2> QED  BY <2>4, <2>5
<1>6. Cardinality(S) \in Nat
  BY FS_CardinalityType
<1>7. PICK g \in [SUBSET S -> Nat] : IteratesUpto(g, f, S, Cardinality(S))
  BY <1>5, <1>6
<1>8. \A s \in SUBSET S : Cardinality(s) <= Cardinality(S)
  BY FS_Subset
<1>9. \A s \in SUBSET S : g[s] = Round(g, f, S)[s]
  BY <1>7, <1>8 DEF IteratesUpto
<1>10. Round(g, f, S) \in [SUBSET S -> Nat]
  BY <1>1
<1>11. g = Round(g, f, S)
  BY <1>9, <1>10
<1> QED  BY <1>11 DEF Iterates

\* MapThenSumSet is such an iteration.
LEMMA SumIteration ==
  ASSUME NEW S, IsFiniteSet(S), NEW f, \A x \in S : f[x] \in Nat
  PROVE  \E g : Iterates(g, f, S) /\ Sum(f, S) = g[S]
<1> DEFINE g == CHOOSE h : Iterates(h, f, S)
<1>1. Sum(f, S) = g[S]
  BY Zenon DEF Sum, MapThenSumSet, MapThenFoldSet, Iterates, Round, Picked
<1>2. Iterates(g, f, S)
  BY IterationExists, Zenon
<1> QED  BY <1>1, <1>2, Zenon

\* A sum is a number and depends only on the numbers that are added.
LEMMA SumSame ==
  ASSUME NEW S, IsFiniteSet(S), NEW f, NEW e,
         \A x \in S : f[x] = e[x] /\ f[x] \in Nat
  PROVE  Sum(f, S) = Sum(e, S) /\ Sum(f, S) \in Nat
<1>1. PICK g : Iterates(g, f, S) /\ Sum(f, S) = g[S]
  BY SumIteration
<1>2. PICK h : Iterates(h, e, S) /\ Sum(e, S) = h[S]
  BY SumIteration
<1>3. g[S] = h[S] /\ g[S] \in Nat
  BY <1>1, <1>2, IterationsAgree
<1> QED  BY <1>1, <1>2, <1>3

\* The sum over no element.
LEMMA SumNone ==
  ASSUME NEW f
  PROVE  Sum(f, {}) = 0
<1>1. PICK g : Iterates(g, f, {}) /\ Sum(f, {}) = g[{}]
  BY SumIteration, FS_EmptySet
<1>2. g[{}] = 0
  BY <1>1 DEF Iterates, Round
<1> QED  BY <1>1, <1>2

\* The element the iteration takes first can be split off a sum ...
LEMMA SumPicked ==
  ASSUME NEW S, IsFiniteSet(S), S # {}, NEW f, \A x \in S : f[x] \in Nat
  PROVE  Sum(f, S) = f[Picked(S)] + Sum(f, S \ {Picked(S)})
<1> DEFINE R == S \ {Picked(S)}
<1>1. IsFiniteSet(R)
  BY PickedFacts
<1>2. PICK g : Iterates(g, f, S) /\ Sum(f, S) = g[S]
  BY SumIteration
<1>3. R \subseteq S /\ \A x \in R : f[x] = f[x] /\ f[x] \in Nat
  OBVIOUS
<1>4. g[S] = f[Picked(S)] + g[R]
  BY <1>2 DEF Iterates, Round
<1> HIDE DEF R
<1>5. PICK h : Iterates(h, f, R) /\ Sum(f, R) = h[R]
  BY <1>1, <1>3, SumIteration
<1>6. g[R] = h[R]
  BY <1>1, <1>2, <1>3, <1>5, IterationsAgree
<1> QED  BY <1>2, <1>4, <1>5, <1>6 DEF R

\* ... and so can any other.
LEMMA SumSplit ==
  ASSUME NEW S, IsFiniteSet(S), NEW f, \A x \in S : f[x] \in Nat, NEW x \in S
  PROVE  Sum(f, S) = f[x] + Sum(f, S \ {x})
<1> DEFINE Bad == {n \in Nat : \E s \in SUBSET S : \E y \in s :
                     Cardinality(s) = n /\ Sum(f, s) # f[y] + Sum(f, s \ {y})}
<1>1. ASSUME Bad # {} PROVE FALSE
  <2>1. Bad \subseteq Nat
    OBVIOUS
  <2>2. Min(Bad) \in Bad /\ \A y \in Bad : Min(Bad) <= y
    BY <1>1, <2>1, LeastAddress
  <2>3. PICK m \in Bad : \A y \in Bad : m <= y
    BY <2>2
  <2>4. PICK s \in SUBSET S : \E y \in s :
          Cardinality(s) = m /\ Sum(f, s) # f[y] + Sum(f, s \ {y})
    BY <2>3
  <2>5. PICK y \in s : Cardinality(s) = m /\ Sum(f, s) # f[y] + Sum(f, s \ {y})
    BY <2>4
  <2>6. IsFiniteSet(s) /\ s # {} /\ \A z \in s : f[z] \in Nat
    BY <2>5, FS_Subset
  <2> DEFINE k == Picked(s)
  <2>7. /\ k \in s /\ IsFiniteSet(s \ {k})
        /\ Cardinality(s) \in Nat \ {0} /\ Cardinality(s \ {k}) = Cardinality(s) - 1
    BY <2>6, PickedFacts
  <2>8. Sum(f, s) = f[k] + Sum(f, s \ {k})
    BY <2>6, SumPicked
  <2> HIDE DEF k
  <2>9. y # k
    BY <2>5, <2>8
  <2>10. m \in Nat /\ m - 1 \in Nat /\ m - 1 \notin Bad
    <3>1. m \in Nat /\ m # 0 /\ \A z \in Bad : m <= z
      BY <2>3, <2>5, <2>7
    <3> HIDE DEF Bad
    <3> QED  BY <3>1
  <2>11. s \ {k} \in SUBSET S /\ y \in s \ {k} /\ Cardinality(s \ {k}) = m - 1
    BY <2>5, <2>7, <2>9
  <2>12. Sum(f, s \ {k}) = f[y] + Sum(f, (s \ {k}) \ {y})
    BY <2>10, <2>11
  <2>13. s \ {y} \in SUBSET S /\ k \in s \ {y} /\ Cardinality(s \ {y}) = m - 1
         /\ IsFiniteSet(s \ {y})
    BY <2>5, <2>6, <2>7, <2>9, FS_RemoveElement
  <2>14. Sum(f, s \ {y}) = f[k] + Sum(f, (s \ {y}) \ {k})
    BY <2>10, <2>13
  <2>15. (s \ {k}) \ {y} = (s \ {y}) \ {k}
    OBVIOUS
  <2>16. IsFiniteSet((s \ {k}) \ {y})
    BY <2>7, FS_RemoveElement, <2>11
  <2>17. Sum(f, (s \ {k}) \ {y}) \in Nat /\ f[k] \in Nat /\ f[y] \in Nat
    <3>1. \A z \in (s \ {k}) \ {y} : f[z] = f[z] /\ f[z] \in Nat
      BY <2>6
    <3>2. Sum(f, (s \ {k}) \ {y}) \in Nat
      BY <3>1, <2>16, SumSame
    <3> QED  BY <3>2, <2>5, <2>6, <2>7
  <2>18. Sum(f, s) = f[y] + Sum(f, s \ {y})
    <3> DEFINE rest == Sum(f, (s \ {k}) \ {y})
    <3>1. Sum(f, s) = f[k] + (f[y] + rest)
      BY <2>8, <2>12
    <3>2. Sum(f, s \ {y}) = f[k] + rest
      BY <2>14, <2>15
    <3>3. rest \in Nat
      BY <2>17
    <3> HIDE DEF rest
    <3>4. f[k] + (f[y] + rest) = f[y] + (f[k] + rest)
      BY <3>3, <2>17
    <3> QED  BY <3>1, <3>2, <3>4
  <2> QED  BY <2>5, <2>18
<1>2. Cardinality(S) \in Nat
  BY FS_CardinalityType
<1>3. S \in SUBSET S
  OBVIOUS
<1> QED  BY <1>1, <1>2, <1>3

\* A new element adds its number.
LEMMA SumAdd ==
  ASSUME NEW S, IsFiniteSet(S), NEW x, x \notin S,
         NEW f, \A y \in S \cup {x} : f[y] \in Nat
  PROVE  Sum(f, S \cup {x}) = f[x] + Sum(f, S)
<1>1. IsFiniteSet(S \cup {x}) /\ x \in S \cup {x} /\ (S \cup {x}) \ {x} = S
  BY FS_AddElement
<1>2. Sum(f, S \cup {x}) = f[x] + Sum(f, (S \cup {x}) \ {x})
  BY <1>1, SumSplit
<1> QED  BY <1>1, <1>2

\* A part of a set has no larger sum.
LEMMA SumPart ==
  ASSUME NEW S, IsFiniteSet(S), NEW f, \A x \in S : f[x] \in Nat,
         NEW T, T \subseteq S
  PROVE  Sum(f, T) <= Sum(f, S)
<1> DEFINE Bad == {n \in Nat : \E s \in SUBSET S :
                     Cardinality(s) = n /\ T \subseteq s /\ ~(Sum(f, T) <= Sum(f, s))}
<1>1. ASSUME Bad # {} PROVE FALSE
  <2>1. Bad \subseteq Nat
    OBVIOUS
  <2>2. Min(Bad) \in Bad /\ \A y \in Bad : Min(Bad) <= y
    BY <1>1, <2>1, LeastAddress
  <2>3. PICK m \in Bad : \A y \in Bad : m <= y
    BY <2>2
  <2>4. PICK s \in SUBSET S : Cardinality(s) = m /\ T \subseteq s /\ ~(Sum(f, T) <= Sum(f, s))
    BY <2>3
  <2>5. IsFiniteSet(s) /\ IsFiniteSet(T) /\ \A z \in s : f[z] \in Nat
    BY <2>4, FS_Subset
  <2>6. Sum(f, T) \in Nat /\ Sum(f, s) \in Nat
    BY <2>4, <2>5, SumSame
  <2>7. T # s
    BY <2>4, <2>6
  <2>8. PICK y \in s : y \notin T
    BY <2>4, <2>7
  <2>9. s \ {y} \in SUBSET S /\ T \subseteq s \ {y} /\ IsFiniteSet(s \ {y})
        /\ Cardinality(s \ {y}) = m - 1 /\ Cardinality(s) \in Nat
    BY <2>4, <2>5, <2>8, FS_RemoveElement, FS_CardinalityType
  <2>10. m \in Nat /\ m - 1 \in Nat /\ m - 1 \notin Bad
    <3>1. m \in Nat /\ m # 0 /\ \A z \in Bad : m <= z
      BY <2>3, <2>4, <2>5, <2>8, FS_EmptySet
    <3> HIDE DEF Bad
    <3> QED  BY <3>1
  <2>11. Sum(f, T) <= Sum(f, s \ {y})
    BY <2>9, <2>10
  <2>12. Sum(f, s) = f[y] + Sum(f, s \ {y}) /\ f[y] \in Nat
    BY <2>5, <2>8, SumSplit
  <2>13. Sum(f, s \ {y}) \in Nat
    BY <2>5, <2>9, SumSame
  <2> QED  BY <2>4, <2>6, <2>11, <2>12, <2>13
<1>2. Cardinality(S) \in Nat
  BY FS_CardinalityType
<1>3. S \in SUBSET S
  OBVIOUS
<1> QED  BY <1>1, <1>2, <1>3

-----------------------------------------------------------------------------
(* The inductive invariant.                                                *)

\* A payload starts inside the segment.
Inside == \A c \in Heads : payload(c) < End

\* A thread inside free() has a chunk there.
FreeingKnown == \A t \in Thread : pc[t] # "idle" => freeing[t] \in Heads

IInv == TypeOK /\ Tiling /\ Inside /\ FreeingKnown

\* Chunks are addresses in the segment and have headers.
LEMMA ChunkFacts ==
  ASSUME TypeOK, NEW c \in Heads
  PROVE  /\ c \in Nat /\ c # Null /\ Start <= c /\ c <= End
         /\ chunk[c] \in [prev : Nat, next : Nat, state : {FREE, OCCUPIED}, size : Nat]
         /\ chunk[c].prev \in Nat /\ chunk[c].next \in Nat /\ chunk[c].size \in Nat
         /\ chunk[c].state \in {FREE, OCCUPIED}
         /\ payload(c) \in Nat /\ endPtr(c) \in Nat
         /\ c < payload(c) /\ payload(c) <= endPtr(c)
<1>1. c \in Start..End
  BY DEF TypeOK
<1>2. Start \in Nat \ {0} /\ End \in Nat /\ HeaderSize \in Nat \ {0}
  BY HeapAssumption DEF End
<1>3. c \in Nat /\ c # Null /\ Start <= c /\ c <= End
  BY <1>1, <1>2 DEF Null
<1>4. chunk[c] \in [prev : Nat, next : Nat, state : {FREE, OCCUPIED}, size : Nat]
  BY DEF TypeOK, Heads
<1>5. /\ chunk[c].prev \in Nat /\ chunk[c].next \in Nat /\ chunk[c].size \in Nat
      /\ chunk[c].state \in {FREE, OCCUPIED}
  BY <1>4
<1>6. /\ payload(c) \in Nat /\ endPtr(c) \in Nat
      /\ c < payload(c) /\ payload(c) <= endPtr(c)
  BY <1>2, <1>3, <1>5 DEF payload, endPtr
<1> QED  BY <1>3, <1>4, <1>5, <1>6

\* No chunk reaches beyond the segment.
LEMMA EndInside ==
  ASSUME TypeOK, Linked, NEW c \in Heads
  PROVE  endPtr(c) <= End
<1>1. CASE chunk[c].next = Null
  <2>1. endPtr(c) = End /\ End \in Nat
    BY <1>1, HeapAssumption DEF Linked, End
  <2> QED  BY <2>1
<1>2. CASE chunk[c].next # Null
  <2>1. chunk[c].next \in Heads /\ endPtr(c) = chunk[c].next
    BY <1>2 DEF Linked
  <2> QED  BY <2>1, ChunkFacts
<1> QED  BY <1>1, <1>2

\* Where split() puts a header: inside the chunk, behind what is handed out,
\* and in front of an aligned payload.
LEMMA SplitPoint ==
  ASSUME IInv, NEW c \in Heads, NEW size \in Nat, Splits(c, size),
         NEW n, n = nextPayload(c, size) - HeaderSize
  PROVE  /\ n \in Nat /\ n \notin Heads
         /\ payload(c) + size <= n
         /\ payload(n) + MINIMUM_PAYLOAD + HeaderSize < endPtr(c)
         /\ payload(n) % ALIGN_VAL = 0
<1>1. HeaderSize \in Nat \ {0} /\ ALIGN_VAL \in Nat \ {0} /\ MINIMUM_PAYLOAD \in Nat
  BY HeapAssumption
<1>2. TypeOK /\ Linked
  BY DEF IInv, Tiling
<1>3. c \in Nat /\ payload(c) \in Nat /\ endPtr(c) \in Nat /\ c < payload(c)
  BY <1>2, ChunkFacts
<1> DEFINE p == nextPayload(c, size)
<1>4. p \in Nat /\ p >= payload(c) + size + HeaderSize /\ p % ALIGN_VAL = 0
  <2>1. payload(c) + size + HeaderSize \in Nat
    BY <1>1, <1>3
  <2> QED  BY <2>1, <1>1, AlignCeil DEF nextPayload
<1>5. n \in Nat /\ payload(n) = p
  BY <1>1, <1>3, <1>4 DEF payload
<1>6. endPtr(c) - p > MINIMUM_PAYLOAD + HeaderSize
  BY DEF Splits
<1>7. payload(c) + size <= n
  BY <1>1, <1>3, <1>4, <1>5
<1>8. payload(n) + MINIMUM_PAYLOAD + HeaderSize < endPtr(c)
  BY <1>1, <1>3, <1>4, <1>5, <1>6
<1>9. n \notin Heads
  <2> SUFFICES ASSUME n \in Heads PROVE FALSE
    OBVIOUS
  <2>1. c < n
    BY <1>3, <1>5, <1>7
  <2>2. endPtr(c) <= n
    BY <2>1, <1>2 DEF Linked
  <2>3. n < endPtr(c)
    BY <1>1, <1>3, <1>4, <1>5, <1>8
  <2> QED  BY <2>2, <2>3, <1>3, <1>5
<1> QED  BY <1>4, <1>5, <1>7, <1>8, <1>9

\* The headers after a split.
LEMMA SplitHeaders ==
  ASSUME IInv, NEW c \in Heads, NEW size \in Nat, Splits(c, size),
         NEW n, n = nextPayload(c, size) - HeaderSize,
         chunk' = SplitChunk(c, size)
  PROVE  /\ Heads' = Heads \cup {n}
         /\ chunk'[c] = [prev |-> chunk[c].prev, next |-> n, state |-> OCCUPIED,
                         size |-> n - payload(c)]
         /\ chunk'[n] = [prev |-> c, next |-> chunk[c].next, state |-> FREE,
                         size |-> endPtr(c) - payload(n)]
         /\ \A d \in Heads \ {c} :
              /\ chunk'[d].prev = IF d = chunk[c].next THEN n ELSE chunk[d].prev
              /\ chunk'[d].next = chunk[d].next
              /\ chunk'[d].state = chunk[d].state
              /\ chunk'[d].size = chunk[d].size
         /\ \A d \in Heads \ {c} :
              chunk'[d] \in [prev : Nat, next : Nat, state : {FREE, OCCUPIED}, size : Nat]
<1>1. n \notin Heads
  BY SplitPoint
<1>2. chunk' = [a \in Heads \cup {n} |->
         IF a = c THEN [chunk[c] EXCEPT !.next = n, !.state = OCCUPIED,
                                        !.size = n - payload(c)]
         ELSE IF a = n THEN [prev |-> c, next |-> chunk[c].next, state |-> FREE,
                             size |-> endPtr(c) - payload(n)]
         ELSE IF a = chunk[c].next THEN [chunk[a] EXCEPT !.prev = n]
         ELSE chunk[a]]
  BY DEF SplitChunk
<1>3. Heads' = Heads \cup {n}
  BY <1>2 DEF Heads
<1>4. \A d \in Heads : chunk[d] \in [prev : Nat, next : Nat, state : {FREE, OCCUPIED}, size : Nat]
  BY ChunkFacts DEF IInv
<1>5. chunk'[c] = [prev |-> chunk[c].prev, next |-> n, state |-> OCCUPIED,
                   size |-> n - payload(c)]
  <2>1. chunk'[c] = [chunk[c] EXCEPT !.next = n, !.state = OCCUPIED,
                                     !.size = n - payload(c)]
    BY <1>2
  <2> QED  BY <2>1, <1>4
<1>6. chunk'[n] = [prev |-> c, next |-> chunk[c].next, state |-> FREE,
                   size |-> endPtr(c) - payload(n)]
  BY <1>1, <1>2
<1>7. ASSUME NEW d \in Heads \ {c}
      PROVE  /\ chunk'[d].prev = IF d = chunk[c].next THEN n ELSE chunk[d].prev
             /\ chunk'[d].next = chunk[d].next
             /\ chunk'[d].state = chunk[d].state
             /\ chunk'[d].size = chunk[d].size
             /\ chunk'[d] \in [prev : Nat, next : Nat, state : {FREE, OCCUPIED}, size : Nat]
  <2>1. d # n /\ d \in Heads /\ n \in Nat
    BY <1>1, SplitPoint
  <2>2. chunk'[d] = IF d = chunk[c].next THEN [chunk[d] EXCEPT !.prev = n] ELSE chunk[d]
    BY <1>2, <2>1
  <2>3. CASE d = chunk[c].next
    BY <2>1, <2>2, <2>3, <1>4
  <2>4. CASE d # chunk[c].next
    BY <2>1, <2>2, <2>4, <1>4
  <2> QED  BY <2>3, <2>4
<1> QED  BY <1>3, <1>5, <1>6, <1>7

\* A split keeps the chunks linked both ways and in address order.
LEMMA SplitLinks ==
  ASSUME IInv, NEW c \in Heads, NEW size \in Nat, Splits(c, size),
         chunk' = SplitChunk(c, size)
  PROVE  Linked'
<1>1. PICK n : n = nextPayload(c, size) - HeaderSize
  OBVIOUS
<1>2. /\ n \in Nat /\ n \notin Heads
      /\ payload(c) + size <= n
      /\ payload(n) + MINIMUM_PAYLOAD + HeaderSize < endPtr(c)
  BY <1>1, SplitPoint
<1>3. /\ Heads' = Heads \cup {n}
      /\ chunk'[c] = [prev |-> chunk[c].prev, next |-> n, state |-> OCCUPIED,
                      size |-> n - payload(c)]
      /\ chunk'[n] = [prev |-> c, next |-> chunk[c].next, state |-> FREE,
                      size |-> endPtr(c) - payload(n)]
      /\ \A d \in Heads \ {c} :
           /\ chunk'[d].prev = IF d = chunk[c].next THEN n ELSE chunk[d].prev
           /\ chunk'[d].next = chunk[d].next
           /\ chunk'[d].size = chunk[d].size
  BY <1>1, SplitHeaders
<1>4. TypeOK /\ Linked /\ HeaderSize \in Nat \ {0} /\ MINIMUM_PAYLOAD \in Nat
  BY HeapAssumption DEF IInv, Tiling
<1>5. \A d \in Heads : /\ d \in Nat /\ d # Null /\ payload(d) \in Nat /\ endPtr(d) \in Nat
                       /\ d < payload(d) /\ payload(d) <= endPtr(d)
  BY <1>4, ChunkFacts
<1>6. c < n /\ n < endPtr(c) /\ n # Null /\ payload(n) \in Nat
  BY <1>2, <1>4, <1>5 DEF payload, Null
<1>7. /\ (endPtr(c))' = n
      /\ (endPtr(n))' = endPtr(c)
      /\ \A d \in Heads \ {c} : (endPtr(d))' = endPtr(d)
  <2>1. (endPtr(c))' = payload(c) + (n - payload(c))
    BY <1>3 DEF endPtr, payload
  <2>2. (endPtr(n))' = payload(n) + (endPtr(c) - payload(n))
    BY <1>3 DEF endPtr, payload
  <2>3. \A d \in Heads \ {c} : (endPtr(d))' = endPtr(d)
    BY <1>3 DEF endPtr, payload
  <2> QED  BY <2>1, <2>2, <2>3, <1>2, <1>5, <1>6
<1>8. FirstHead \in Heads' /\ chunk'[FirstHead].prev = Null
  <2>1. FirstHead \in Heads /\ chunk[FirstHead].prev = Null
    BY <1>4 DEF Linked
  <2>2. FirstHead # chunk[c].next
    BY <2>1, <1>4, <1>5 DEF Linked
  <2>3. CASE FirstHead = c
    BY <2>1, <2>3, <1>3
  <2>4. CASE FirstHead # c
    BY <2>1, <2>2, <2>4, <1>3
  <2> QED  BY <2>3, <2>4
<1>9. ASSUME NEW d \in Heads'
      PROVE  IF chunk'[d].next = Null THEN (endPtr(d))' = End
             ELSE /\ chunk'[d].next \in Heads'
                  /\ (endPtr(d))' = chunk'[d].next
                  /\ chunk'[chunk'[d].next].prev = d
  <2>1. CASE d = c
    BY <2>1, <1>3, <1>6, <1>7
  <2>2. CASE d = n
    <3>1. chunk'[d].next = chunk[c].next /\ (endPtr(d))' = endPtr(c)
      BY <2>2, <1>3, <1>7
    <3>2. CASE chunk[c].next = Null
      BY <3>1, <3>2, <1>4 DEF Linked
    <3>3. CASE chunk[c].next # Null
      <4>1. chunk[c].next \in Heads /\ endPtr(c) = chunk[c].next
        BY <3>3, <1>4 DEF Linked
      <4>2. chunk[c].next # c
        BY <4>1, <1>5
      <4>3. chunk'[chunk[c].next].prev = n
        BY <4>1, <4>2, <1>3
      <4> QED  BY <4>1, <4>3, <3>1, <3>3, <2>2, <1>3
    <3> QED  BY <3>2, <3>3
  <2>3. CASE d # c /\ d # n
    <3>1. d \in Heads \ {c}
      BY <2>3, <1>3
    <3>2. chunk'[d].next = chunk[d].next /\ (endPtr(d))' = endPtr(d)
      BY <3>1, <1>3, <1>7
    <3>3. CASE chunk[d].next = Null
      BY <3>1, <3>2, <3>3, <1>4 DEF Linked
    <3>4. CASE chunk[d].next # Null
      <4>1. /\ chunk[d].next \in Heads /\ endPtr(d) = chunk[d].next
            /\ chunk[chunk[d].next].prev = d
        BY <3>1, <3>4, <1>4 DEF Linked
      <4>2. chunk'[chunk[d].next].prev = d
        <5>1. CASE chunk[d].next = c
          BY <4>1, <5>1, <1>3
        <5>2. CASE chunk[d].next # c
          <6>1. chunk[d].next # chunk[c].next
            BY <4>1, <3>1, <1>4, <1>5 DEF Linked
          <6> QED  BY <4>1, <5>2, <6>1, <1>3
        <5> QED  BY <5>1, <5>2
      <4> QED  BY <4>1, <4>2, <3>2, <3>4, <1>3
    <3> QED  BY <3>3, <3>4
  <2> QED  BY <2>1, <2>2, <2>3
<1>10. ASSUME NEW d \in Heads', NEW e \in Heads', d < e
       PROVE  (endPtr(d))' <= e
  <2>1. \A x, y \in Heads : x < y => endPtr(x) <= y
    BY <1>4 DEF Linked
  <2>2. d \in Nat /\ e \in Nat
    BY <1>2, <1>3, <1>5
  <2>3. CASE d = c
    <3>1. CASE e = n
      BY <3>1, <2>3, <1>2, <1>7
    <3>2. CASE e # n
      <4>1. e \in Heads /\ endPtr(c) <= e
        BY <3>2, <2>1, <2>3, <1>10, <1>3
      <4>2. (endPtr(d))' = n
        BY <2>3, <1>7
      <4> QED  BY <4>1, <4>2, <2>2, <1>2, <1>5, <1>6
    <3> QED  BY <3>1, <3>2
  <2>4. CASE d = n
    <3>1. e \in Heads /\ c < e
      BY <2>2, <2>4, <1>10, <1>2, <1>3, <1>5, <1>6
    <3> QED  BY <3>1, <2>1, <2>4, <1>7
  <2>5. CASE d # c /\ d # n
    <3>1. d \in Heads \ {c} /\ (endPtr(d))' = endPtr(d)
      BY <2>5, <1>3, <1>7
    <3>2. CASE e = n
      <4>1. d < c \/ c < d
        BY <3>1, <2>2, <1>5
      <4>2. ~ (c < d)
        BY <3>1, <3>2, <2>1, <2>2, <1>10, <1>2, <1>5, <1>6
      <4>3. endPtr(d) <= c
        BY <4>1, <4>2, <3>1, <2>1
      <4> QED  BY <4>3, <3>1, <3>2, <1>2, <1>5, <1>6
    <3>3. CASE e # n
      BY <3>1, <3>3, <2>1, <1>10, <1>3
    <3> QED  BY <3>2, <3>3
  <2> QED  BY <2>3, <2>4, <2>5
<1> QED  BY <1>8, <1>9, <1>10 DEF Linked

\* What getFittingChunk() returns is a free chunk of sufficient size.
LEMMA FittingFacts ==
  ASSUME TypeOK, NEW size \in Nat, Fitting(size) # {}
  PROVE  /\ Min(Fitting(size)) \in Heads
         /\ chunk[Min(Fitting(size))].state = FREE
         /\ chunk[Min(Fitting(size))].size >= size
<1>1. Fitting(size) \subseteq Heads
  BY DEF Fitting
<1>2. Fitting(size) \subseteq Nat
  BY <1>1, ChunkFacts
<1>3. Min(Fitting(size)) \in Fitting(size)
  BY <1>2, LeastAddress
<1> QED  BY <1>3 DEF Fitting

\* What alloc() does to the chunks: the one that is handed out is large enough,
\* the others keep their state and their size, and a new one is free.
Taken(c, size) ==
  /\ Heads \subseteq Heads'
  /\ chunk[c].state = FREE
  /\ chunk'[c].state = OCCUPIED
  /\ chunk'[c].size >= size
  /\ \A d \in Heads \ {c} : chunk'[d].state = chunk[d].state /\ chunk'[d].size = chunk[d].size
  /\ \A d \in Heads' \ Heads : chunk'[d].state = FREE

\* The part of the invariant that is about the headers.
Headers ==
  /\ Heads \subseteq Start..End
  /\ chunk \in [Heads -> [prev : Nat, next : Nat, state : {FREE, OCCUPIED}, size : Nat]]
  /\ Tiling
  /\ Inside

\* alloc() with a split.
LEMMA SplitStep ==
  ASSUME IInv, NEW c \in Heads, NEW size \in Nat, Splits(c, size),
         chunk[c].state = FREE, chunk' = SplitChunk(c, size)
  PROVE  Headers' /\ Taken(c, size)
<1>1. PICK n : n = nextPayload(c, size) - HeaderSize
  OBVIOUS
<1>2. /\ n \in Nat /\ n \notin Heads
      /\ payload(c) + size <= n
      /\ payload(n) + MINIMUM_PAYLOAD + HeaderSize < endPtr(c)
      /\ payload(n) % ALIGN_VAL = 0
  BY <1>1, SplitPoint
<1>3. /\ Heads' = Heads \cup {n}
      /\ chunk'[c] = [prev |-> chunk[c].prev, next |-> n, state |-> OCCUPIED,
                      size |-> n - payload(c)]
      /\ chunk'[n] = [prev |-> c, next |-> chunk[c].next, state |-> FREE,
                      size |-> endPtr(c) - payload(n)]
      /\ \A d \in Heads \ {c} : chunk'[d].state = chunk[d].state /\ chunk'[d].size = chunk[d].size
      /\ \A d \in Heads \ {c} :
           chunk'[d] \in [prev : Nat, next : Nat, state : {FREE, OCCUPIED}, size : Nat]
  BY <1>1, SplitHeaders
<1>4. TypeOK /\ Linked /\ Inside /\ Aligned /\ HeaderSize \in Nat \ {0} /\ MINIMUM_PAYLOAD \in Nat
  BY HeapAssumption DEF IInv, Tiling
<1>5. /\ c \in Nat /\ Start <= c /\ payload(c) \in Nat /\ endPtr(c) \in Nat /\ c < payload(c)
      /\ chunk[c].prev \in Nat /\ chunk[c].next \in Nat /\ endPtr(c) <= End
  BY <1>4, ChunkFacts, EndInside
<1>6. End \in Nat /\ Start \in Nat
  BY HeapAssumption DEF End
<1>7. payload(n) \in Nat /\ n < payload(n)
  BY <1>2, <1>4 DEF payload
<1>8. n - payload(c) \in Nat /\ n - payload(c) >= size
  BY <1>2, <1>5
<1>9. endPtr(c) - payload(n) \in Nat /\ payload(n) < End
  BY <1>2, <1>4, <1>5, <1>6, <1>7
<1>10. n \in Start..End
  BY <1>2, <1>5, <1>6, <1>7, <1>9
<1>11. Heads' \subseteq Start..End
  BY <1>3, <1>4, <1>10 DEF TypeOK
<1>12. chunk' \in [Heads' -> [prev : Nat, next : Nat, state : {FREE, OCCUPIED}, size : Nat]]
  <2>1. chunk'[c] \in [prev : Nat, next : Nat, state : {FREE, OCCUPIED}, size : Nat]
    BY <1>2, <1>3, <1>5, <1>8
  <2>2. chunk'[n] \in [prev : Nat, next : Nat, state : {FREE, OCCUPIED}, size : Nat]
    BY <1>3, <1>5, <1>9
  <2>3. \A d \in Heads' :
          chunk'[d] \in [prev : Nat, next : Nat, state : {FREE, OCCUPIED}, size : Nat]
    BY <2>1, <2>2, <1>3
  <2>4. chunk' = [a \in Heads' |-> chunk'[a]]
    <3>1. chunk' = [a \in DOMAIN chunk' |-> chunk'[a]]
      BY DEF SplitChunk
    <3> QED  BY <3>1 DEF Heads
  <2> QED  BY <2>3, <2>4
<1>13. Linked'
  BY SplitLinks
<1>14. Aligned'
  BY <1>2, <1>3, <1>4 DEF Aligned, payload
<1>15. Inside'
  BY <1>3, <1>4, <1>9 DEF Inside, payload
<1>16. Taken(c, size)
  <2>1. chunk'[c].state = OCCUPIED /\ chunk'[c].size >= size
    BY <1>3, <1>8
  <2>2. \A d \in Heads' \ Heads : chunk'[d].state = FREE
    BY <1>3
  <2> QED  BY <2>1, <2>2, <1>3 DEF Taken
<1> QED  BY <1>11, <1>12, <1>13, <1>14, <1>15, <1>16 DEF Headers, Tiling

\* A step that changes the state of a chunk and nothing else.
LEMMA MarkChunk ==
  ASSUME IInv, NEW c \in Heads, NEW s \in {FREE, OCCUPIED},
         chunk' = [chunk EXCEPT ![c].state = s]
  PROVE  /\ Headers'
         /\ Heads' = Heads
         /\ chunk'[c].state = s
         /\ \A d \in Heads : chunk'[d].size = chunk[d].size
         /\ \A d \in Heads \ {c} : chunk'[d] = chunk[d]
<1>1. TypeOK /\ Linked /\ Inside /\ Aligned
  BY DEF IInv, Tiling
<1>2. /\ Heads \subseteq Start..End
      /\ chunk \in [Heads -> [prev : Nat, next : Nat, state : {FREE, OCCUPIED}, size : Nat]]
  BY <1>1 DEF TypeOK
<1>3. Heads' = Heads
  BY <1>2 DEF Heads
<1>4. chunk' \in [Heads -> [prev : Nat, next : Nat, state : {FREE, OCCUPIED}, size : Nat]]
  BY <1>2
<1>5. chunk'[c].state = s /\ \A d \in Heads \ {c} : chunk'[d] = chunk[d]
  BY <1>2
<1>6. \A d \in Heads : /\ chunk'[d].size = chunk[d].size
                       /\ chunk'[d].next = chunk[d].next
                       /\ chunk'[d].prev = chunk[d].prev
  BY <1>2
<1>7. \A d \in Heads : (endPtr(d))' = endPtr(d)
  BY <1>6 DEF endPtr, payload
<1>8. Linked'
  <2>1. FirstHead \in Heads' /\ chunk'[FirstHead].prev = Null
    BY <1>1, <1>3, <1>6 DEF Linked
  <2>2. ASSUME NEW d \in Heads'
        PROVE  IF chunk'[d].next = Null THEN (endPtr(d))' = End
               ELSE /\ chunk'[d].next \in Heads'
                    /\ (endPtr(d))' = chunk'[d].next
                    /\ chunk'[chunk'[d].next].prev = d
    BY <1>1, <1>3, <1>6, <1>7 DEF Linked
  <2>3. \A d, e \in Heads' : d < e => (endPtr(d))' <= e
    BY <1>1, <1>3, <1>7 DEF Linked
  <2> QED  BY <2>1, <2>2, <2>3 DEF Linked
<1>9. Aligned' /\ Inside'
  BY <1>1, <1>3 DEF Aligned, Inside, payload
<1> QED  BY <1>2, <1>3, <1>4, <1>5, <1>6, <1>8, <1>9 DEF Headers, Tiling

\* alloc() of a request that does not wrap.
AllocExact(t, n) ==
  /\ pc[t] = "idle" /\ OnCPU(t)
  /\ LET size == n + SAFETY_BUFFER
         c == Min(Fitting(size))
         split == Splits(c, size)
     IN  /\ Fitting(size) # {}
         /\ chunk' = IF split THEN SplitChunk(c, size) ELSE TakeWhole(c)
         /\ usedBytes' = (usedBytes + chunk'[c].size) % Word
         /\ overheadBytes' = overheadBytes + (IF split THEN HeaderSize ELSE 0)
         /\ lastAllocated' = c
  /\ Overlaps("alloc")
  /\ UNCHANGED <<lastFit, firstFreed, pc, freeing, tmp>>

\* The padded size of such a request is the sum, and the words of SAFETY_CHAR
\* lie behind the block.
LEMMA AllocFits ==
  ASSUME RequestsFit, NEW t \in Thread, NEW n \in Requests, Alloc(t, n)
  PROVE  AllocExact(t, n)
<1>1. /\ n \in Nat /\ SAFETY_BUFFER \in Nat /\ Word \in Nat \ {0}
      /\ n + SAFETY_BUFFER < Word
  BY HeapAssumption DEF RequestsFit
<1>2. Padded(n) = n + SAFETY_BUFFER
  BY <1>1 DEF Padded
<1>3. n + SAFETY_BUFFER >= SAFETY_BUFFER
  BY <1>1
<1>4. \A h, c : WriteGuard(h, c, n + SAFETY_BUFFER) = h
  BY <1>3 DEF WriteGuard
<1> QED  BY <1>2, <1>4 DEF Alloc, AllocExact

\* alloc(): the chunks stay in order, and one of them is handed out.
LEMMA AllocChunk ==
  ASSUME IInv, NEW t \in Thread, NEW n \in Requests, AllocExact(t, n)
  PROVE  Headers' /\ \E c \in Heads : Taken(c, n + SAFETY_BUFFER)
<1>1. n \in Nat /\ SAFETY_BUFFER \in Nat
  BY HeapAssumption
<1>2. PICK size : size = n + SAFETY_BUFFER
  OBVIOUS
<1>3. size \in Nat
  BY <1>1, <1>2
<1>4. PICK c : c = Min(Fitting(size))
  OBVIOUS
<1>5. /\ Fitting(size) # {}
      /\ chunk' = IF Splits(c, size) THEN SplitChunk(c, size) ELSE TakeWhole(c)
  BY <1>2, <1>4 DEF AllocExact
<1>6. c \in Heads /\ chunk[c].state = FREE /\ chunk[c].size >= size
  BY <1>3, <1>4, <1>5, FittingFacts DEF IInv
<1>7. CASE Splits(c, size)
  <2>1. chunk' = SplitChunk(c, size)
    BY <1>5, <1>7
  <2>2. Headers' /\ Taken(c, size)
    BY <2>1, <1>3, <1>6, <1>7, SplitStep
  <2> QED  BY <2>2, <1>2, <1>6
<1>8. CASE ~Splits(c, size)
  <2>1. chunk' = [chunk EXCEPT ![c].state = OCCUPIED]
    BY <1>5, <1>8 DEF TakeWhole
  <2>2. /\ Headers'
        /\ Heads' = Heads
        /\ chunk'[c].state = OCCUPIED
        /\ \A d \in Heads : chunk'[d].size = chunk[d].size
        /\ \A d \in Heads \ {c} : chunk'[d] = chunk[d]
    BY <2>1, <1>6, MarkChunk
  <2>3. Taken(c, size)
    BY <2>2, <1>6 DEF Taken
  <2> QED  BY <2>2, <2>3, <1>2, <1>6
<1> QED  BY <1>7, <1>8

\* alloc() keeps the invariant, with or without a split.
LEMMA AllocInv ==
  ASSUME IInv, NEW t \in Thread, NEW n \in Requests, AllocExact(t, n)
  PROVE  IInv'
<1>1. Headers' /\ \E c \in Heads : Taken(c, n + SAFETY_BUFFER)
  BY AllocChunk
<1>2. Heads \subseteq Heads'
  BY <1>1 DEF Taken
<1>3. TypeOK /\ FreeingKnown
  BY DEF IInv
<1>4. n \in Nat /\ SAFETY_BUFFER \in Nat /\ n + SAFETY_BUFFER \in Nat
  BY HeapAssumption
<1>5. PICK c : c = Min(Fitting(n + SAFETY_BUFFER))
  OBVIOUS
<1>6. /\ Fitting(n + SAFETY_BUFFER) # {}
      /\ usedBytes' = (usedBytes + chunk'[c].size) % Word
      /\ overheadBytes' = overheadBytes
           + (IF Splits(c, n + SAFETY_BUFFER) THEN HeaderSize ELSE 0)
      /\ lastAllocated' = c
      /\ UNCHANGED <<lastFit, firstFreed, pc, freeing, tmp>>
  BY <1>5 DEF AllocExact
<1>7. c \in Heads
  BY <1>3, <1>4, <1>5, <1>6, FittingFacts
<1>8. usedBytes' \in 0..(Word - 1)
  <2>1. c \in Heads'
    BY <1>2, <1>7
  <2>2. chunk'[c].size \in Nat
    BY <1>1, <2>1 DEF Headers
  <2>3. Word \in Nat \ {0} /\ usedBytes \in 0..(Word - 1)
    BY <1>3, HeapAssumption DEF TypeOK
  <2>4. usedBytes + chunk'[c].size \in Int
    BY <2>2, <2>3
  <2> QED  BY <2>3, <2>4, <1>6, ModRange
<1>9. overheadBytes' \in Nat
  <2>1. overheadBytes \in Nat /\ HeaderSize \in Nat
    BY <1>3, HeapAssumption DEF TypeOK
  <2> QED  BY <2>1, <1>6
<1>10. overlap' \in [{"alloc", "free"} -> Nat]
  <2>1. overlap \in [{"alloc", "free"} -> Nat]
    BY <1>3 DEF TypeOK
  <2>2. UNCHANGED overlap \/ overlap' = [overlap EXCEPT !["alloc"] = @ + 1]
    BY DEF AllocExact, Overlaps
  <2> QED  BY <2>1, <2>2
<1>11. TypeOK'
  <2>1. /\ lastFit' \in LastFitBuilds
        /\ lastAllocated' \in Heads'
        /\ firstFreed' \in Heads' \cup {NoFreed}
        /\ pc' \in [Thread -> {"idle", "last", "reset", "first", "lower", "mark", "load", "store"}]
        /\ freeing' \in [Thread -> Heads' \cup {None}]
        /\ tmp' \in [Thread -> 0..(Word - 1)]
    BY <1>2, <1>3, <1>6, <1>7 DEF TypeOK
  <2> QED  BY <2>1, <1>1, <1>8, <1>9, <1>10 DEF TypeOK, Headers
<1>12. FreeingKnown'
  BY <1>2, <1>3, <1>6 DEF FreeingKnown
<1> QED  BY <1>1, <1>11, <1>12 DEF IInv, Headers

\* A step inside free() that leaves the headers alone: only the variables that
\* it names have to be looked at.
LEMMA SameChunks ==
  ASSUME IInv, UNCHANGED chunk
  PROVE  Headers' /\ Heads' = Heads
<1>1. Headers
  BY DEF IInv, Headers, TypeOK
<1>2. Heads' = Heads
  BY DEF Heads
<1>3. Headers'
  BY <1>1, <1>2 DEF Headers, Tiling, Linked, Aligned, Inside, endPtr, payload
<1> QED  BY <1>2, <1>3

\* The program counters.
Labels == {"idle", "last", "reset", "first", "lower", "mark", "load", "store"}

\* free() keeps the invariant, if each of its steps keeps the types of what it
\* assigns and the chunk of a thread that goes on.
LEMMA FreeFrame ==
  ASSUME IInv, NEW t \in Thread, Headers', Heads' = Heads,
         UNCHANGED <<lastFit, overheadBytes>>,
         usedBytes' \in 0..(Word - 1),
         lastAllocated' \in Heads, firstFreed' \in Heads \cup {NoFreed},
         tmp' \in [Thread -> 0..(Word - 1)],
         overlap' \in [{"alloc", "free"} -> Nat],
         NEW l \in Labels, pc' = [pc EXCEPT ![t] = l],
         NEW h \in Heads \cup {None}, freeing' = [freeing EXCEPT ![t] = h],
         l # "idle" => h \in Heads
  PROVE  IInv'
<1>1. TypeOK /\ FreeingKnown
  BY DEF IInv
<1>2. pc' \in [Thread -> Labels]
  BY <1>1 DEF TypeOK, Labels
<1>3. freeing' \in [Thread -> Heads' \cup {None}]
  BY <1>1 DEF TypeOK
<1>4. lastFit' \in LastFitBuilds /\ overheadBytes' \in Nat
  BY <1>1 DEF TypeOK
<1>5. TypeOK'
  BY <1>2, <1>3, <1>4 DEF TypeOK, Headers, Labels
<1>6. FreeingKnown'
  <2> SUFFICES ASSUME NEW u \in Thread, pc'[u] # "idle" PROVE freeing'[u] \in Heads
    BY DEF FreeingKnown
  <2>1. CASE u = t
    <3>1. pc'[t] = l /\ freeing'[t] = h
      BY <1>1 DEF TypeOK
    <3> QED  BY <3>1, <2>1
  <2>2. CASE u # t
    <3>1. pc'[u] = pc[u] /\ freeing'[u] = freeing[u]
      BY <2>2, <1>1 DEF TypeOK
    <3> QED  BY <3>1, <1>1 DEF FreeingKnown
  <2> QED  BY <2>1, <2>2
<1> QED  BY <1>5, <1>6 DEF IInv, Headers

\* The types that a step of free() starts from.
LEMMA FreeTypes ==
  ASSUME IInv
  PROVE  /\ usedBytes \in 0..(Word - 1)
         /\ lastAllocated \in Heads /\ firstFreed \in Heads \cup {NoFreed}
         /\ tmp \in [Thread -> 0..(Word - 1)]
         /\ overlap \in [{"alloc", "free"} -> Nat]
         /\ freeing \in [Thread -> Heads \cup {None}]
         /\ \A t \in Thread : pc[t] # "idle" => freeing[t] \in Heads
         /\ Word \in Nat \ {0}
         /\ FirstHead \in Heads
BY HeapAssumption DEF IInv, TypeOK, FreeingKnown, Tiling, Linked

\* The steps of free() keep the invariant, one lemma for each.
LEMMA FreeBeginInv ==
  ASSUME IInv, NEW t \in Thread, NEW c \in Heads, FreeBegin(t, c)
  PROVE  IInv'
<1>1. UNCHANGED chunk
  BY DEF FreeBegin, segment
<1>2. Headers' /\ Heads' = Heads
  BY <1>1, SameChunks
<1>3. PICK l \in Labels : pc' = [pc EXCEPT ![t] = l] /\ l # "idle"
  BY DEF FreeBegin, Goto, Labels
<1>4. overlap' \in [{"alloc", "free"} -> Nat]
  <2>1. UNCHANGED overlap \/ overlap' = [overlap EXCEPT !["free"] = @ + 1]
    BY DEF FreeBegin, Overlaps
  <2> QED  BY <2>1, FreeTypes
<1>5. /\ UNCHANGED <<lastFit, overheadBytes, usedBytes, lastAllocated, firstFreed, tmp>>
      /\ freeing' = [freeing EXCEPT ![t] = c]
  BY DEF FreeBegin, segment
<1> QED  BY <1>2, <1>3, <1>4, <1>5, FreeTypes, FreeFrame

\* The thread of a step inside free() keeps its chunk.
LEMMA KeepsChunk ==
  ASSUME IInv, NEW t \in Thread, pc[t] # "idle", UNCHANGED freeing
  PROVE  freeing' = [freeing EXCEPT ![t] = freeing[t]] /\ freeing[t] \in Heads
BY FreeTypes

\* The test for the chunk handed out last changes no shared data.
LEMMA TestLastInv ==
  ASSUME IInv, NEW t \in Thread, TestLast(t)
  PROVE  IInv'
<1>1. Headers' /\ Heads' = Heads
  BY SameChunks DEF TestLast, segment
<1>2. PICK l \in Labels : pc' = [pc EXCEPT ![t] = l]
  BY DEF TestLast, Goto, Labels
<1>3. /\ UNCHANGED <<lastFit, overheadBytes, usedBytes, lastAllocated, firstFreed, tmp, overlap>>
      /\ UNCHANGED freeing /\ pc[t] # "idle"
  BY DEF TestLast, At, segment
<1>4. freeing' = [freeing EXCEPT ![t] = freeing[t]] /\ freeing[t] \in Heads
  BY <1>3, KeepsChunk
<1> QED  BY <1>1, <1>2, <1>3, <1>4, FreeTypes, FreeFrame

\* The lookup is reset to a chunk that exists.
LEMMA ResetLastInv ==
  ASSUME IInv, NEW t \in Thread, ResetLast(t)
  PROVE  IInv'
<1>1. Headers' /\ Heads' = Heads
  BY SameChunks DEF ResetLast
<1>2. "first" \in Labels /\ pc' = [pc EXCEPT ![t] = "first"]
  BY DEF ResetLast, Goto, Labels
<1>3. /\ UNCHANGED <<lastFit, overheadBytes, usedBytes, firstFreed, tmp, overlap>>
      /\ UNCHANGED freeing /\ pc[t] # "idle"
      /\ lastAllocated' = FirstHead
  BY DEF ResetLast, At
<1>4. freeing' = [freeing EXCEPT ![t] = freeing[t]] /\ freeing[t] \in Heads
  BY <1>3, KeepsChunk
<1> QED  BY <1>1, <1>2, <1>3, <1>4, FreeTypes, FreeFrame

\* The comparison with firstFreed changes no shared data.
LEMMA TestFirstInv ==
  ASSUME IInv, NEW t \in Thread, TestFirst(t)
  PROVE  IInv'
<1>1. Headers' /\ Heads' = Heads
  BY SameChunks DEF TestFirst, segment
<1>2. PICK l \in Labels : pc' = [pc EXCEPT ![t] = l]
  BY DEF TestFirst, Goto, Labels
<1>3. /\ UNCHANGED <<lastFit, overheadBytes, usedBytes, lastAllocated, firstFreed, tmp, overlap>>
      /\ UNCHANGED freeing /\ pc[t] # "idle"
  BY DEF TestFirst, At, segment
<1>4. freeing' = [freeing EXCEPT ![t] = freeing[t]] /\ freeing[t] \in Heads
  BY <1>3, KeepsChunk
<1> QED  BY <1>1, <1>2, <1>3, <1>4, FreeTypes, FreeFrame

\* firstFreed is lowered to a chunk that exists.
LEMMA LowerFirstInv ==
  ASSUME IInv, NEW t \in Thread, LowerFirst(t)
  PROVE  IInv'
<1>1. Headers' /\ Heads' = Heads
  BY SameChunks DEF LowerFirst
<1>2. "mark" \in Labels /\ pc' = [pc EXCEPT ![t] = "mark"]
  BY DEF LowerFirst, Goto, Labels
<1>3. /\ UNCHANGED <<lastFit, overheadBytes, usedBytes, lastAllocated, tmp, overlap>>
      /\ UNCHANGED freeing /\ pc[t] # "idle"
      /\ firstFreed' = freeing[t]
  BY DEF LowerFirst, At
<1>4. freeing' = [freeing EXCEPT ![t] = freeing[t]] /\ freeing[t] \in Heads
  BY <1>3, KeepsChunk
<1> QED  BY <1>1, <1>2, <1>3, <1>4, FreeTypes, FreeFrame

\* Marking the chunk free keeps its place in the list.
LEMMA MarkFreeInv ==
  ASSUME IInv, NEW t \in Thread, MarkFree(t)
  PROVE  IInv'
<1>1. /\ UNCHANGED <<lastFit, overheadBytes, usedBytes, lastAllocated, firstFreed, tmp, overlap>>
      /\ UNCHANGED freeing /\ pc[t] # "idle"
      /\ chunk' = [chunk EXCEPT ![freeing[t]].state = FREE]
  BY DEF MarkFree, At
<1>2. freeing' = [freeing EXCEPT ![t] = freeing[t]] /\ freeing[t] \in Heads
  BY <1>1, KeepsChunk
<1>3. PICK c \in Heads : c = freeing[t]
  BY <1>2
<1>4. chunk' = [chunk EXCEPT ![c].state = FREE]
  BY <1>1, <1>3
<1>5. Headers' /\ Heads' = Heads
  BY <1>4, MarkChunk
<1>6. "load" \in Labels /\ pc' = [pc EXCEPT ![t] = "load"]
  BY DEF MarkFree, Goto, Labels
<1> QED  BY <1>1, <1>2, <1>5, <1>6, FreeTypes, FreeFrame

\* What is computed from usedBytes fits in a size_t.
LEMMA LoadUsedInv ==
  ASSUME IInv, NEW t \in Thread, LoadUsed(t)
  PROVE  IInv'
<1>1. Headers' /\ Heads' = Heads
  BY SameChunks DEF LoadUsed, segment
<1>2. "store" \in Labels /\ pc' = [pc EXCEPT ![t] = "store"]
  BY DEF LoadUsed, Goto, Labels
<1>3. /\ UNCHANGED <<lastFit, overheadBytes, usedBytes, lastAllocated, firstFreed, overlap>>
      /\ UNCHANGED freeing /\ pc[t] # "idle"
      /\ tmp' = [tmp EXCEPT ![t] = (usedBytes - chunk[freeing[t]].size) % Word]
  BY DEF LoadUsed, At, segment
<1>4. freeing' = [freeing EXCEPT ![t] = freeing[t]] /\ freeing[t] \in Heads
  BY <1>3, KeepsChunk
<1>5. (usedBytes - chunk[freeing[t]].size) % Word \in 0..(Word - 1)
  <2>1. chunk[freeing[t]].size \in Nat
    BY <1>4, ChunkFacts DEF IInv
  <2>2. usedBytes - chunk[freeing[t]].size \in Int
    BY <2>1, FreeTypes
  <2> QED  BY <2>2, FreeTypes, ModRange
<1>6. tmp' \in [Thread -> 0..(Word - 1)]
  BY <1>3, <1>5, FreeTypes
<1> QED  BY <1>1, <1>2, <1>3, <1>4, <1>6, FreeTypes, FreeFrame

\* The value written back to usedBytes fits in a size_t.
LEMMA StoreUsedInv ==
  ASSUME IInv, NEW t \in Thread, StoreUsed(t)
  PROVE  IInv'
<1>1. Headers' /\ Heads' = Heads
  BY SameChunks DEF StoreUsed
<1>2. "idle" \in Labels /\ pc' = [pc EXCEPT ![t] = "idle"]
  BY DEF StoreUsed, Goto, Labels
<1>3. /\ UNCHANGED <<lastFit, overheadBytes, lastAllocated, firstFreed, overlap>>
      /\ freeing' = [freeing EXCEPT ![t] = None]
      /\ usedBytes' = tmp[t]
      /\ tmp' = [tmp EXCEPT ![t] = 0]
  BY DEF StoreUsed
<1>4. usedBytes' \in 0..(Word - 1) /\ tmp' \in [Thread -> 0..(Word - 1)]
  BY <1>3, FreeTypes
<1> QED  BY <1>1, <1>2, <1>3, <1>4, FreeTypes, FreeFrame

-----------------------------------------------------------------------------
\* The segment with one chunk satisfies the invariant.
LEMMA InitInv ==
  Init => IInv
<1> SUFFICES ASSUME Init PROVE IInv
  OBVIOUS
<1>1. /\ Start \in Nat \ {0} /\ SegSize \in Nat /\ HeadRoom \in Nat /\ HeadRoom < SegSize
      /\ HeaderSize \in Nat \ {0} /\ HeaderSize <= HeadRoom /\ Word \in Nat \ {0}
  BY HeapAssumption
<1>2. /\ Heads = {FirstHead}
      /\ chunk[FirstHead] = [prev |-> Null, next |-> Null, state |-> FREE,
                             size |-> SegSize - HeadRoom]
  BY DEF Init, Heads
<1>3. FirstHead \in Start..End /\ payload(FirstHead) = Start + HeadRoom
  BY <1>1 DEF FirstHead, End, payload
<1>4. chunk \in [Heads -> [prev : Nat, next : Nat, state : {FREE, OCCUPIED}, size : Nat]]
  <2>1. SegSize - HeadRoom \in Nat
    BY <1>1
  <2> QED  BY <2>1, <1>2 DEF Init, Null
<1>5. TypeOK
  BY <1>1, <1>2, <1>3, <1>4 DEF Init, TypeOK
<1>6. Linked
  <2>1. endPtr(FirstHead) = End
    BY <1>1, <1>2, <1>3 DEF endPtr, End
  <2>2. FirstHead \in Nat
    BY <1>1, <1>3
  <2> QED  BY <2>1, <2>2, <1>2 DEF Linked
<1>7. Aligned
  BY <1>2, <1>3, HeapAssumption DEF Aligned
<1>8. Inside
  BY <1>1, <1>2, <1>3 DEF Inside, End
<1>9. FreeingKnown
  BY DEF Init, FreeingKnown
<1> QED  BY <1>5, <1>6, <1>7, <1>8, <1>9 DEF IInv, Tiling

\* Every step of every thread keeps the invariant.
LEMMA NextInv ==
  ASSUME RequestsFit
  PROVE  IInv /\ [Next]_vars => IInv'
<1> SUFFICES ASSUME IInv, [Next]_vars PROVE IInv'
  OBVIOUS
<1>1. CASE UNCHANGED vars
  <2>1. UNCHANGED chunk
    BY <1>1 DEF vars, segment
  <2>2. Headers' /\ Heads' = Heads
    BY <2>1, SameChunks
  <2>3. TypeOK' /\ FreeingKnown'
    BY <1>1, <2>2 DEF vars, segment, IInv, TypeOK, FreeingKnown
  <2> QED  BY <2>2, <2>3 DEF IInv, Headers
<1>2. CASE Next
  <2>1. PICK t \in Thread :
          \/ \E n \in Requests : AllocExact(t, n)
          \/ \E c \in Heads : FreeBegin(t, c)
          \/ TestLast(t) \/ ResetLast(t) \/ TestFirst(t) \/ LowerFirst(t)
          \/ MarkFree(t) \/ LoadUsed(t) \/ StoreUsed(t)
    BY <1>2, AllocFits DEF Next
  <2> QED
    BY <2>1, AllocInv, FreeBeginInv, TestLastInv, ResetLastInv, TestFirstInv,
       LowerFirstInv, MarkFreeInv, LoadUsedInv, StoreUsedInv
<1> QED  BY <1>1, <1>2

\* The invariant holds in every reachable state.
THEOREM Invariance ==
  ASSUME RequestsFit
  PROVE  Spec => []IInv
<1>1. IInv /\ [Next]_vars => IInv'
  BY NextInv
<1> QED  BY <1>1, InitInv, PTL DEF Spec

\* The variables of the manager and of the threads inside free() keep their
\* types: lastAllocated and firstFreed name chunks, usedBytes fits in a size_t.
THEOREM TypeCorrect ==
  ASSUME RequestsFit
  PROVE  Spec => []TypeOK
<1>1. IInv => TypeOK
  BY DEF IInv
<1>2. Spec => []IInv
  BY Invariance
<1> QED  BY <1>1, <1>2, PTL

\* The chunks of the segment stay linked both ways, in order, without gaps and
\* aligned, however alloc() and the unlocked free() interleave.
THEOREM ChunksTile ==
  ASSUME RequestsFit
  PROVE  Spec => []Tiling
<1>1. IInv => Tiling
  BY DEF IInv
<1>2. Spec => []IInv
  BY Invariance
<1> QED  BY <1>1, <1>2, PTL

\* A size of a chunk has a bit less than a size_t: `unint4 size :31'.
SizesFit == \A c \in Heads : 2 * chunk[c].size < Word

\* No size of a chunk that alloc() stores in a header is cut to 31 bits.
THEOREM SizesFitField ==
  ASSUME RequestsFit
  PROVE  Spec => []SizesFit
<1>1. IInv => SizesFit
  <2> SUFFICES ASSUME IInv, NEW c \in Heads  PROVE 2 * chunk[c].size < Word
    BY DEF SizesFit
  <2>1. /\ c \in Nat /\ Start <= c /\ chunk[c].size \in Nat
        /\ \A d \in Heads : d <= End
    BY ChunkFacts DEF IInv
  <2>2. endPtr(c) <= End
    <3>1. endPtr(c) = End \/ endPtr(c) \in Heads
      BY DEF IInv, Tiling, Linked
    <3>2. End \in Nat
      BY HeapAssumption DEF End
    <3>3. endPtr(c) = End => endPtr(c) <= End
      BY <3>2
    <3> QED  BY <2>1, <3>1, <3>3
  <2>3. c + HeaderSize + chunk[c].size <= Start + SegSize
    BY <2>2 DEF endPtr, payload, End
  <2>4. /\ Start \in Nat /\ SegSize \in Nat /\ HeaderSize \in Nat \ {0}
        /\ Word \in Nat /\ 2 * SegSize <= Word
    BY HeapAssumption
  <2> QED  BY <2>1, <2>3, <2>4
<1>2. Spec => []IInv
  BY Invariance
<1> QED  BY <1>1, <1>2, PTL

-----------------------------------------------------------------------------
(* Where alloc() starts its search.                                        *)

\* No chunk lies below the first one.
FirstLowest == \A c \in Heads : FirstHead <= c

\* Without a call that overlaps, one thread at most is inside free().
OneInFree ==
  overlap["free"] = 0 => \A t, u \in Thread : pc[t] # "idle" /\ pc[u] # "idle" => t = u

\* A free chunk below firstFreed has never been handed out: it is what the last
\* split left at the end of the segment.
FreedCovered ==
  overlap["free"] = 0 /\ lastFit =>
    \A c \in Heads : chunk[c].state = FREE => firstFreed <= c \/ chunk[c].next = Null

\* firstFreed is only lowered, and that before the chunk is marked free.
MarkCovered ==
  overlap["free"] = 0 /\ lastFit =>
    \A t \in Thread : /\ pc[t] = "lower" => freeing[t] < firstFreed
                      /\ pc[t] = "mark" => firstFreed <= freeing[t]

SearchInv == FirstLowest /\ OneInFree /\ FreedCovered /\ MarkCovered

\* A chunk without a successor is the last one.
LEMMA LastChunk ==
  ASSUME IInv, NEW c \in Heads, chunk[c].next = Null, NEW d \in Heads
  PROVE  d <= c
<1>1. TypeOK /\ Linked
  BY DEF IInv, Tiling
<1>2. c \in Nat /\ d \in Nat /\ d < payload(d) /\ payload(d) \in Nat /\ End \in Nat
  BY <1>1, ChunkFacts, HeapAssumption DEF End
<1>3. endPtr(c) = End /\ payload(d) < End /\ (c < d => endPtr(c) <= d)
  BY <1>1 DEF Linked, IInv, Inside
<1> QED  BY <1>2, <1>3

\* What alloc() does to the links: a new chunk lies behind the one that is
\* handed out and takes over its successor.
LEMMA AllocLinks ==
  ASSUME IInv, NEW t \in Thread, NEW n \in Requests, AllocExact(t, n)
  PROVE  \E c \in Heads :
           /\ chunk[c].state = FREE /\ chunk'[c].state = OCCUPIED
           /\ Heads \subseteq Heads'
           /\ \A d \in Heads \ {c} : chunk'[d].state = chunk[d].state /\ chunk'[d].next = chunk[d].next
           /\ \A d \in Heads' \ Heads : d \in Nat /\ c < d /\ chunk'[d].next = chunk[c].next
<1>1. n \in Nat /\ SAFETY_BUFFER \in Nat
  BY HeapAssumption
<1>2. PICK size : size = n + SAFETY_BUFFER
  OBVIOUS
<1>3. size \in Nat
  BY <1>1, <1>2
<1>4. PICK c : c = Min(Fitting(size))
  OBVIOUS
<1>5. /\ Fitting(size) # {}
      /\ chunk' = IF Splits(c, size) THEN SplitChunk(c, size) ELSE TakeWhole(c)
  BY <1>2, <1>4 DEF AllocExact
<1>6. c \in Heads /\ chunk[c].state = FREE
  BY <1>3, <1>4, <1>5, FittingFacts DEF IInv
<1>7. CASE Splits(c, size)
  <2>1. PICK m : m = nextPayload(c, size) - HeaderSize
    OBVIOUS
  <2>2. m \in Nat /\ payload(c) + size <= m
    BY <2>1, <1>3, <1>6, <1>7, SplitPoint
  <2>3. c \in Nat /\ payload(c) \in Nat /\ c < payload(c)
    BY <1>6, ChunkFacts DEF IInv
  <2>4. c < m
    BY <2>2, <2>3, <1>3
  <2>5. chunk' = SplitChunk(c, size)
    BY <1>5, <1>7
  <2>6. /\ Heads' = Heads \cup {m}
        /\ chunk'[c] = [prev |-> chunk[c].prev, next |-> m, state |-> OCCUPIED,
                        size |-> m - payload(c)]
        /\ chunk'[m] = [prev |-> c, next |-> chunk[c].next, state |-> FREE,
                        size |-> endPtr(c) - payload(m)]
        /\ \A d \in Heads \ {c} : chunk'[d].state = chunk[d].state /\ chunk'[d].next = chunk[d].next
    BY <2>1, <2>5, <1>3, <1>6, <1>7, SplitHeaders
  <2>7. chunk'[c].state = OCCUPIED /\ chunk'[m].next = chunk[c].next
    BY <2>6
  <2> QED  BY <2>2, <2>4, <2>6, <2>7, <1>6
<1>8. CASE ~Splits(c, size)
  <2>1. chunk' = [chunk EXCEPT ![c].state = OCCUPIED]
    BY <1>5, <1>8 DEF TakeWhole
  <2>2. /\ Heads' = Heads /\ chunk'[c].state = OCCUPIED
        /\ \A d \in Heads \ {c} : chunk'[d] = chunk[d]
    BY <2>1, <1>6, MarkChunk
  <2> QED  BY <2>2, <1>6
<1> QED  BY <1>7, <1>8

\* alloc() leaves every free chunk where the search finds it.
LEMMA AllocSearch ==
  ASSUME IInv, SearchInv, NEW t \in Thread, NEW n \in Requests, AllocExact(t, n)
  PROVE  SearchInv'
<1>1. PICK c \in Heads :
           /\ chunk[c].state = FREE /\ chunk'[c].state = OCCUPIED
           /\ Heads \subseteq Heads'
           /\ \A d \in Heads \ {c} : chunk'[d].state = chunk[d].state /\ chunk'[d].next = chunk[d].next
           /\ \A d \in Heads' \ Heads : d \in Nat /\ c < d /\ chunk'[d].next = chunk[c].next
  BY AllocLinks
<1>2. UNCHANGED <<lastFit, firstFreed, pc, freeing>> /\ overlap'["free"] = overlap["free"]
  <2>1. overlap \in [{"alloc", "free"} -> Nat]
    BY FreeTypes
  <2>2. UNCHANGED overlap \/ overlap' = [overlap EXCEPT !["alloc"] = @ + 1]
    BY DEF AllocExact, Overlaps
  <2> QED  BY <2>1, <2>2 DEF AllocExact
<1>3. c \in Nat /\ FirstHead \in Nat /\ firstFreed \in Nat
  <2>1. FirstHead \in Heads /\ firstFreed \in Heads \cup {NoFreed}
    BY FreeTypes
  <2>2. NoFreed \in Nat
    BY HeapAssumption DEF NoFreed, End
  <2> QED  BY <2>1, <2>2, ChunkFacts DEF IInv
<1>4. FirstLowest'
  <2>1. \A d \in Heads' \ Heads : FirstHead <= d
    BY <1>1, <1>3 DEF SearchInv, FirstLowest
  <2> QED  BY <2>1 DEF SearchInv, FirstLowest, FirstHead
<1>5. OneInFree' /\ MarkCovered'
  BY <1>2 DEF SearchInv, OneInFree, MarkCovered
<1>6. FreedCovered'
  <2> SUFFICES ASSUME overlap["free"] = 0, lastFit, NEW d \in Heads', chunk'[d].state = FREE
               PROVE  firstFreed <= d \/ chunk'[d].next = Null
    BY <1>2 DEF FreedCovered
  <2>1. \A e \in Heads : chunk[e].state = FREE => firstFreed <= e \/ chunk[e].next = Null
    BY DEF SearchInv, FreedCovered
  <2>2. CASE d \in Heads
    BY <2>1, <2>2, <1>1 DEF FREE, OCCUPIED
  <2>3. CASE d \notin Heads
    <3>1. d \in Nat /\ c < d /\ chunk'[d].next = chunk[c].next
      BY <2>3, <1>1
    <3>2. firstFreed <= c \/ chunk[c].next = Null
      BY <2>1, <1>1
    <3> QED  BY <3>1, <3>2, <1>3
  <2> QED  BY <2>2, <2>3
<1> QED  BY <1>4, <1>5, <1>6 DEF SearchInv

\* free() starts: if another thread is inside, that is counted.
LEMMA FreeBeginSearch ==
  ASSUME IInv, SearchInv, NEW t \in Thread, NEW c \in Heads, FreeBegin(t, c)
  PROVE  SearchInv'
<1>1. /\ UNCHANGED <<lastFit, chunk, firstFreed>> /\ freeing' = [freeing EXCEPT ![t] = c]
      /\ pc' = [pc EXCEPT ![t] = IF lastFit THEN "last" ELSE "mark"]
  BY DEF FreeBegin, Goto, segment
<1>2. Heads' = Heads /\ pc \in [Thread -> Labels]
  BY <1>1 DEF Heads, IInv, TypeOK, Labels
<1>3. overlap'["free"] = 0 => overlap["free"] = 0 /\ Freeing = {}
  <2>1. overlap \in [{"alloc", "free"} -> Nat]
    BY FreeTypes
  <2>2. CASE Freeing = {}
    BY <2>2, <2>1 DEF FreeBegin, Overlaps
  <2>3. CASE Freeing # {}
    <3>1. overlap' = [overlap EXCEPT !["free"] = @ + 1]
      BY <2>3 DEF FreeBegin, Overlaps
    <3>2. overlap'["free"] = overlap["free"] + 1 /\ overlap["free"] \in Nat
      BY <3>1, <2>1
    <3> QED  BY <3>2
  <2> QED  BY <2>2, <2>3
<1>4. FirstLowest' /\ FreedCovered'
  BY <1>1, <1>2, <1>3 DEF SearchInv, FirstLowest, FreedCovered
<1>5. OneInFree'
  <2>1. \A u \in Thread : u # t => pc'[u] = pc[u]
    BY <1>1, <1>2
  <2> QED  BY <2>1, <1>3 DEF OneInFree, Freeing
<1>6. MarkCovered'
  <2> SUFFICES ASSUME overlap'["free"] = 0, lastFit, NEW u \in Thread,
                      pc'[u] \in {"lower", "mark"}
               PROVE  FALSE
    BY <1>1 DEF MarkCovered
  <2>1. CASE u = t
    BY <2>1, <1>1, <1>2
  <2>2. CASE u # t
    BY <2>2, <1>1, <1>2, <1>3 DEF Freeing
  <2> QED  BY <2>1, <2>2
<1> QED  BY <1>4, <1>5, <1>6 DEF SearchInv

\* A step inside free() that leaves the headers and firstFreed alone.
LEMMA FreeSearch ==
  ASSUME IInv, SearchInv, NEW t \in Thread, pc[t] # "idle",
         UNCHANGED <<lastFit, chunk, firstFreed, overlap>>,
         NEW l, pc' = [pc EXCEPT ![t] = l],
         \A u \in Thread : u # t => freeing'[u] = freeing[u],
         l = "lower" => freeing'[t] < firstFreed,
         l = "mark" => firstFreed <= freeing'[t]
  PROVE  SearchInv'
<1>1. Heads' = Heads /\ pc \in [Thread -> Labels]
  BY DEF Heads, IInv, TypeOK, Labels
<1>2. FirstLowest' /\ FreedCovered'
  BY <1>1 DEF SearchInv, FirstLowest, FreedCovered
<1>3. \A u \in Thread : pc'[u] # "idle" => pc[u] # "idle"
  BY <1>1
<1>4. OneInFree'
  BY <1>3 DEF SearchInv, OneInFree
<1>5. MarkCovered'
  BY <1>1 DEF SearchInv, MarkCovered
<1> QED  BY <1>2, <1>4, <1>5 DEF SearchInv

\* The two tests, the statistics and the reset of lastAllocated.
LEMMA TestsSearch ==
  ASSUME IInv, SearchInv, NEW t \in Thread,
         TestLast(t) \/ ResetLast(t) \/ TestFirst(t) \/ LoadUsed(t) \/ StoreUsed(t)
  PROVE  SearchInv'
<1>1. /\ pc[t] # "idle" /\ UNCHANGED <<lastFit, chunk, firstFreed, overlap>>
      /\ \A u \in Thread : u # t => freeing'[u] = freeing[u]
  BY FreeTypes DEF TestLast, ResetLast, TestFirst, LoadUsed, StoreUsed, At, segment
<1>2. PICK l : /\ pc' = [pc EXCEPT ![t] = l]
               /\ l = "lower" => TestFirst(t) /\ freeing[t] < firstFreed
               /\ l = "mark" => TestFirst(t) /\ ~(freeing[t] < firstFreed)
  <2>1. CASE TestLast(t)
    <3>1. PICK l : l = IF freeing[t] = lastAllocated THEN "reset" ELSE "first"
      OBVIOUS
    <3>2. pc' = [pc EXCEPT ![t] = l] /\ l # "lower" /\ l # "mark"
      BY <2>1, <3>1 DEF TestLast, Goto
    <3> WITNESS l
    <3> QED  BY <3>2
  <2>2. CASE TestFirst(t)
    <3>1. PICK l : l = IF freeing[t] < firstFreed THEN "lower" ELSE "mark"
      OBVIOUS
    <3>2. pc' = [pc EXCEPT ![t] = l]
      BY <2>2, <3>1 DEF TestFirst, Goto
    <3>3. /\ l = "lower" => freeing[t] < firstFreed
          /\ l = "mark" => ~(freeing[t] < firstFreed)
      BY <3>1
    <3> WITNESS l
    <3> QED  BY <2>2, <3>2, <3>3
  <2>3. CASE ResetLast(t)
    <3> WITNESS "first"
    <3> QED  BY <2>3 DEF ResetLast, Goto
  <2>4. CASE LoadUsed(t)
    <3> WITNESS "store"
    <3> QED  BY <2>4 DEF LoadUsed, Goto
  <2>5. CASE StoreUsed(t)
    <3> WITNESS "idle"
    <3> QED  BY <2>5 DEF StoreUsed, Goto
  <2> QED  BY <2>1, <2>2, <2>3, <2>4, <2>5
<1>3. firstFreed \in Nat /\ freeing[t] \in Nat
  <2>1. NoFreed \in Nat
    BY HeapAssumption DEF NoFreed, End
  <2> QED  BY <2>1, <1>1, FreeTypes, ChunkFacts DEF IInv
<1>4. /\ l = "lower" => freeing'[t] < firstFreed
      /\ l = "mark" => firstFreed <= freeing'[t]
  BY <1>2, <1>3 DEF TestFirst
<1> QED  BY <1>1, <1>2, <1>4, FreeSearch

\* firstFreed is lowered; no other thread is about to do the same.
LEMMA LowerFirstSearch ==
  ASSUME IInv, SearchInv, NEW t \in Thread, LowerFirst(t)
  PROVE  SearchInv'
<1>1. /\ pc[t] = "lower" /\ pc' = [pc EXCEPT ![t] = "mark"]
      /\ UNCHANGED <<lastFit, chunk, freeing, overlap>>
      /\ firstFreed' = freeing[t]
  BY DEF LowerFirst, At, Goto
<1>2. Heads' = Heads /\ pc \in [Thread -> Labels]
  BY <1>1 DEF Heads, IInv, TypeOK, Labels
<1>3. \A u \in Thread : pc'[u] # "idle" => pc[u] # "idle"
  BY <1>1, <1>2
<1>4. FirstLowest' /\ OneInFree'
  BY <1>1, <1>2, <1>3 DEF SearchInv, FirstLowest, OneInFree
<1>5. firstFreed \in Nat /\ freeing[t] \in Nat /\ Heads \subseteq Nat
  <2>1. NoFreed \in Nat
    BY HeapAssumption DEF NoFreed, End
  <2>2. freeing[t] \in Heads /\ firstFreed \in Heads \cup {NoFreed}
    BY <1>1, FreeTypes
  <2> QED  BY <2>1, <2>2, ChunkFacts DEF IInv
<1>6. FreedCovered'
  <2> SUFFICES ASSUME overlap["free"] = 0, lastFit, NEW c \in Heads, chunk[c].state = FREE
               PROVE  freeing[t] <= c \/ chunk[c].next = Null
    BY <1>1, <1>2 DEF FreedCovered
  <2>1. firstFreed <= c \/ chunk[c].next = Null
    BY DEF SearchInv, FreedCovered
  <2>2. freeing[t] < firstFreed
    BY <1>1 DEF SearchInv, MarkCovered
  <2> QED  BY <2>1, <2>2, <1>5
<1>7. MarkCovered'
  <2> SUFFICES ASSUME overlap["free"] = 0, lastFit, NEW u \in Thread,
                      pc'[u] \in {"lower", "mark"}
               PROVE  u = t
    BY <1>1, <1>2, <1>5 DEF MarkCovered
  <2>1. pc[u] # "idle"
    BY <1>3
  <2> QED  BY <2>1, <1>1 DEF SearchInv, OneInFree
<1> QED  BY <1>4, <1>6, <1>7 DEF SearchInv

\* The chunk becomes free where the search finds it.
LEMMA MarkFreeSearch ==
  ASSUME IInv, SearchInv, NEW t \in Thread, MarkFree(t)
  PROVE  SearchInv'
<1>1. /\ pc[t] = "mark" /\ pc' = [pc EXCEPT ![t] = "load"]
      /\ UNCHANGED <<lastFit, firstFreed, freeing, overlap>>
      /\ chunk' = [chunk EXCEPT ![freeing[t]].state = FREE]
  BY DEF MarkFree, At, Goto
<1>2. PICK c \in Heads : c = freeing[t]
  BY <1>1, FreeTypes
<1>3. chunk' = [chunk EXCEPT ![c].state = FREE]
  BY <1>1, <1>2
<1>4. Heads' = Heads /\ \A d \in Heads \ {c} : chunk'[d] = chunk[d]
  BY <1>3, MarkChunk
<1>5. pc \in [Thread -> Labels]
  BY DEF IInv, TypeOK, Labels
<1>6. \A u \in Thread : (pc'[u] # "idle" => pc[u] # "idle") /\ (pc'[u] \in {"lower", "mark"} => pc'[u] = pc[u])
  BY <1>1, <1>5
<1>7. FirstLowest' /\ OneInFree' /\ MarkCovered'
  BY <1>1, <1>4, <1>6 DEF SearchInv, FirstLowest, OneInFree, MarkCovered
<1>8. FreedCovered'
  <2> SUFFICES ASSUME overlap["free"] = 0, lastFit, NEW d \in Heads, chunk'[d].state = FREE
               PROVE  firstFreed <= d \/ chunk'[d].next = Null
    BY <1>1, <1>4 DEF FreedCovered
  <2>1. CASE d = c
    BY <2>1, <1>1, <1>2 DEF SearchInv, MarkCovered
  <2>2. CASE d # c
    BY <2>2, <1>4 DEF SearchInv, FreedCovered
  <2> QED  BY <2>1, <2>2
<1> QED  BY <1>7, <1>8 DEF SearchInv

\* The segment with one chunk, the last one.
LEMMA InitSearch ==
  Init => SearchInv
<1> SUFFICES ASSUME Init PROVE SearchInv
  OBVIOUS
<1>1. Heads = {FirstHead} /\ chunk[FirstHead].next = Null
  BY DEF Init, Heads
<1>2. FirstHead \in Nat
  BY HeapAssumption DEF FirstHead
<1>3. FirstLowest
  BY <1>1, <1>2 DEF FirstLowest
<1>4. OneInFree /\ MarkCovered
  BY DEF Init, OneInFree, MarkCovered
<1>5. FreedCovered
  BY <1>1 DEF FreedCovered
<1> QED  BY <1>3, <1>4, <1>5 DEF SearchInv

\* Every step keeps the free chunks where the search finds them.
LEMMA NextSearch ==
  ASSUME RequestsFit
  PROVE  IInv /\ SearchInv /\ [Next]_vars => SearchInv'
<1> SUFFICES ASSUME IInv, SearchInv, [Next]_vars PROVE SearchInv'
  OBVIOUS
<1>1. CASE UNCHANGED vars
  <2>1. UNCHANGED <<lastFit, chunk, firstFreed, pc, freeing, overlap>> /\ Heads' = Heads
    BY <1>1 DEF vars, segment, Heads
  <2> QED  BY <2>1 DEF SearchInv, FirstLowest, OneInFree, FreedCovered, MarkCovered
<1>2. CASE Next
  <2>1. PICK t \in Thread :
          \/ \E n \in Requests : AllocExact(t, n)
          \/ \E c \in Heads : FreeBegin(t, c)
          \/ TestLast(t) \/ ResetLast(t) \/ TestFirst(t) \/ LowerFirst(t)
          \/ MarkFree(t) \/ LoadUsed(t) \/ StoreUsed(t)
    BY <1>2, AllocFits DEF Next
  <2> QED
    BY <2>1, AllocSearch, FreeBeginSearch, TestsSearch, LowerFirstSearch, MarkFreeSearch
<1> QED  BY <1>1, <1>2

\* The search of getFittingChunk() starts at or below every free chunk.
LEMMA SearchFinds ==
  ASSUME IInv, SearchInv, overlap["free"] = 0, NEW c \in Heads, chunk[c].state = FREE
  PROVE  LookupStart <= c
<1>1. FirstHead <= c
  BY DEF SearchInv, FirstLowest
<1>2. CASE ~lastFit
  BY <1>1, <1>2 DEF LookupStart
<1>3. CASE lastFit
  <2>1. firstFreed \in Nat /\ lastAllocated \in Nat /\ c \in Nat /\ lastAllocated \in Heads
    <3>1. NoFreed \in Nat
      BY HeapAssumption DEF NoFreed, End
    <3> QED  BY <3>1, FreeTypes, ChunkFacts DEF IInv
  <2>2. LookupStart = IF firstFreed < lastAllocated THEN firstFreed ELSE lastAllocated
    BY <1>3 DEF LookupStart
  <2>3. firstFreed <= c \/ chunk[c].next = Null
    BY <1>3 DEF SearchInv, FreedCovered
  <2>4. firstFreed <= c \/ lastAllocated <= c
    BY <2>1, <2>3, LastChunk
  <2> QED  BY <2>1, <2>2, <2>4
<1> QED  BY <1>2, <1>3

\* alloc() fails only if no free chunk is large enough, with either value of
\* MEM_LAST_FIT, unless a call of free() was made while another one was
\* interrupted.
THEOREM SearchIsComplete ==
  ASSUME RequestsFit
  PROVE  Spec => []NoFitMissed
<1>1. Spec => [](IInv /\ SearchInv)
  <2>1. Spec => []IInv
    BY Invariance
  <2>2. IInv /\ SearchInv /\ [Next]_vars => SearchInv'
    BY NextSearch
  <2> QED  BY <2>1, <2>2, InitSearch, PTL DEF Spec
<1>2. IInv /\ SearchInv => NoFitMissed
  <2> SUFFICES ASSUME IInv, SearchInv, overlap["free"] = 0, NEW n \in Requests,
                      Fitting(Padded(n)) = {},
                      NEW c \in Heads, chunk[c].state = FREE
               PROVE  chunk[c].size < n + SAFETY_BUFFER
    BY DEF NoFitMissed
  <2>1. LookupStart <= c
    BY SearchFinds
  <2>2. ~(chunk[c].size >= Padded(n))
    BY <2>1 DEF Fitting
  <2>3. /\ chunk[c].size \in Nat /\ n \in Nat /\ SAFETY_BUFFER \in Nat
        /\ Padded(n) = n + SAFETY_BUFFER
    BY ChunkFacts, HeapAssumption DEF IInv, RequestsFit, Padded
  <2> QED  BY <2>2, <2>3
<1> QED  BY <1>1, <1>2, PTL

-----------------------------------------------------------------------------
(* Refinement of module Allocator.                                         *)

\* The blocks in use are the payloads of the occupied chunks.
LEMMA BlockFacts ==
  ASSUME IInv
  PROVE  /\ blocks = [a \in DOMAIN blocks |-> blocks[a]]
         /\ \A a : a \in DOMAIN blocks <=>
                  \E c \in Heads : chunk[c].state = OCCUPIED /\ a = payload(c)
         /\ \A c \in Heads : chunk[c].state = OCCUPIED =>
              blocks[payload(c)] = chunk[c].size - SAFETY_BUFFER
<1>1. DOMAIN blocks = {payload(c) : c \in {d \in Heads : chunk[d].state = OCCUPIED}}
  BY DEF blocks
<1>2. blocks = [a \in DOMAIN blocks |-> blocks[a]]
  BY DEF blocks
<1>3. ASSUME NEW c \in Heads, chunk[c].state = OCCUPIED
      PROVE  blocks[payload(c)] = chunk[c].size - SAFETY_BUFFER
  <2>1. payload(c) \in DOMAIN blocks
    BY <1>1, <1>3
  <2>2. c \in Nat /\ HeaderSize \in Nat
    BY ChunkFacts, HeapAssumption DEF IInv
  <2>3. payload(c) - HeaderSize = c
    BY <2>2 DEF payload
  <2>4. blocks[payload(c)] = chunk[payload(c) - HeaderSize].size - SAFETY_BUFFER
    BY <2>1, <1>1 DEF blocks
  <2> QED  BY <2>3, <2>4
<1> QED  BY <1>1, <1>2, <1>3

\* A step that leaves the headers alone leaves the blocks alone.
LEMMA SameBlocks ==
  ASSUME UNCHANGED chunk
  PROVE  UNCHANGED blocks
BY DEF blocks, Heads, payload

\* alloc() hands out a block that keeps its distance from all the others.
LEMMA AllocPromised ==
  ASSUME IInv, IInv', NEW t \in Thread, NEW n \in Requests, AllocExact(t, n)
  PROVE  Promise!Alloc(n)
<1>1. PICK c \in Heads : Taken(c, n + SAFETY_BUFFER)
  BY AllocChunk
<1>2. /\ n \in Nat /\ SAFETY_BUFFER \in Nat /\ HeaderSize \in Nat
      /\ Start \in Nat /\ End \in Nat
  BY HeapAssumption DEF End
<1>3. PICK a : a = payload(c)
  OBVIOUS
<1>4. PICK len : len = chunk'[c].size - SAFETY_BUFFER
  OBVIOUS
<1>5. /\ c \in Heads' /\ chunk'[c].state = OCCUPIED /\ chunk[c].state = FREE
      /\ chunk'[c].size >= n + SAFETY_BUFFER
      /\ \A d \in Heads \ {c} : /\ d \in Heads'
                               /\ chunk'[d].state = chunk[d].state
                               /\ chunk'[d].size = chunk[d].size
      /\ \A d \in Heads' \ Heads : chunk'[d].state = FREE
  BY <1>1 DEF Taken
<1>6. \A d \in Heads : d \in Nat /\ payload(d) = d + HeaderSize
  BY ChunkFacts DEF IInv, payload
<1>7. \A d \in Heads' : chunk'[d].size \in Nat /\ (endPtr(d))' = d + HeaderSize + chunk'[d].size
  BY DEF IInv, TypeOK, Heads, endPtr, payload
<1>8. a \in Start..(End - 1)
  <2>1. Start <= c /\ c < a /\ a < End /\ a \in Nat
    BY <1>3, ChunkFacts DEF IInv, Inside
  <2> QED  BY <2>1, <1>2, <1>6
<1>9. len \in n..(End - a)
  <2>1. (endPtr(c))' <= End
    <3>1. CASE chunk'[c].next = Null
      BY <3>1, <1>2, <1>5 DEF IInv, Tiling, Linked
    <3>2. CASE chunk'[c].next # Null
      <4>1. chunk'[c].next \in Heads' /\ (endPtr(c))' = chunk'[c].next
        BY <3>2, <1>5 DEF IInv, Tiling, Linked
      <4>2. chunk'[c].next \in Start..End
        BY <4>1 DEF IInv, TypeOK
      <4>3. chunk'[c].next <= End
        BY <4>2, <1>2
      <4> QED  BY <4>1, <4>3
    <3> QED  BY <3>1, <3>2
  <2> QED  BY <2>1, <1>2, <1>3, <1>4, <1>5, <1>6, <1>7, <1>8
<1>10. DOMAIN blocks' = DOMAIN blocks \cup {a}
  <2>1. \A x : x \in DOMAIN blocks <=>
               \E d \in Heads : chunk[d].state = OCCUPIED /\ x = payload(d)
    BY BlockFacts
  <2>2. DOMAIN blocks' = {payload(d) : d \in {e \in Heads' : chunk'[e].state = OCCUPIED}}
    BY DEF blocks, payload
  <2>3. \A d : d \in Heads' /\ chunk'[d].state = OCCUPIED <=>
               d = c \/ (d \in Heads /\ chunk[d].state = OCCUPIED)
    BY <1>5 DEF FREE, OCCUPIED
  <2> QED  BY <2>1, <2>2, <2>3, <1>3
<1>11. \A d \in Heads' : chunk'[d].state = OCCUPIED =>
         blocks'[payload(d)] = chunk'[d].size - SAFETY_BUFFER
  <2> SUFFICES ASSUME NEW d \in Heads', chunk'[d].state = OCCUPIED
               PROVE  blocks'[payload(d)] = chunk'[d].size - SAFETY_BUFFER
    OBVIOUS
  <2>1. d \in Nat /\ payload(d) - HeaderSize = d
    BY <1>2 DEF IInv, TypeOK, payload
  <2>2. blocks'[payload(d)] = chunk'[payload(d) - HeaderSize].size - SAFETY_BUFFER
    BY DEF blocks, payload
  <2> QED  BY <2>1, <2>2
<1>12. ASSUME NEW b \in DOMAIN blocks
       PROVE  /\ Promise!Apart(a, len, b, blocks[b])
              /\ b # a
              /\ blocks'[b] = blocks[b]
  <2>1. PICK d \in Heads : chunk[d].state = OCCUPIED /\ b = payload(d)
    BY BlockFacts
  <2>2. d # c
    BY <2>1, <1>5 DEF FREE, OCCUPIED
  <2>3. d \in Heads' /\ chunk'[d].state = OCCUPIED /\ chunk'[d].size = chunk[d].size
    BY <2>1, <2>2, <1>5
  <2>4. blocks[b] = chunk[d].size - SAFETY_BUFFER
    BY <2>1, BlockFacts
  <2>5. blocks'[b] = blocks[b]
    BY <2>1, <2>3, <2>4, <1>11
  <2>6. (endPtr(c))' <= d \/ (endPtr(d))' <= c
    <3>1. c < d \/ d < c
      BY <2>2, <1>6
    <3>2. \A x, y \in Heads' : x < y => (endPtr(x))' <= y
      BY DEF IInv, Tiling, Linked
    <3> QED  BY <3>1, <3>2, <2>3, <1>5
  <2>7. Promise!Apart(a, len, b, blocks[b])
    <3>1. a + len + (SAFETY_BUFFER + HeaderSize) <= b
            \/ b + blocks[b] + (SAFETY_BUFFER + HeaderSize) <= a
      BY <2>1, <2>3, <2>4, <2>6, <1>2, <1>3, <1>4, <1>5, <1>6, <1>7
    <3> QED  BY <3>1 DEF Promise!Apart
  <2> QED  BY <2>1, <2>2, <2>5, <2>7, <1>2, <1>3, <1>6
<1>13. blocks' = [b \in DOMAIN blocks \cup {a} |-> IF b = a THEN len ELSE blocks[b]]
  <2>1. blocks' = [b \in DOMAIN blocks' |-> blocks'[b]]
    BY DEF blocks
  <2>2. blocks'[a] = len
    BY <1>3, <1>4, <1>5, <1>11
  <2> QED  BY <2>1, <2>2, <1>10, <1>12
<1> QED
  BY <1>8, <1>9, <1>10, <1>12, <1>13 DEF Promise!Alloc

\* The step of free() that marks the chunk gives its block back.
LEMMA MarkFreePromised ==
  ASSUME IInv, NEW t \in Thread, MarkFree(t)
  PROVE  (\E a \in DOMAIN blocks : Promise!Free(a)) \/ UNCHANGED blocks
<1>1. /\ UNCHANGED freeing /\ pc[t] # "idle"
      /\ chunk' = [chunk EXCEPT ![freeing[t]].state = FREE]
  BY DEF MarkFree, At
<1>2. PICK c \in Heads : c = freeing[t]
  BY <1>1, KeepsChunk
<1>3. chunk' = [chunk EXCEPT ![c].state = FREE]
  BY <1>1, <1>2
<1>4. /\ Heads' = Heads
      /\ chunk'[c].state = FREE
      /\ \A d \in Heads : chunk'[d].size = chunk[d].size
      /\ \A d \in Heads \ {c} : chunk'[d] = chunk[d]
  BY <1>3, MarkChunk
<1>5. chunk[c].state \in {FREE, OCCUPIED}
      /\ chunk \in [Heads -> [prev : Nat, next : Nat, state : {FREE, OCCUPIED}, size : Nat]]
  BY ChunkFacts DEF IInv, TypeOK
<1>6. CASE chunk[c].state = FREE
  <2>1. UNCHANGED chunk
    BY <1>3, <1>5, <1>6
  <2> QED  BY <2>1, SameBlocks
<1>7. CASE chunk[c].state = OCCUPIED
  <2>1. PICK a : a = payload(c)
    OBVIOUS
  <2>2. a \in DOMAIN blocks
    BY <2>1, <1>7, BlockFacts
  <2>3. \A d \in Heads : d \in Nat /\ payload(d) = d + HeaderSize /\ payload(d) - HeaderSize = d
    BY ChunkFacts, HeapAssumption DEF IInv, payload
  <2>4. DOMAIN blocks' = DOMAIN blocks \ {a}
    <3>1. DOMAIN blocks' = {payload(d) : d \in {e \in Heads : chunk'[e].state = OCCUPIED}}
      BY <1>4 DEF blocks, payload
    <3>2. {e \in Heads : chunk'[e].state = OCCUPIED}
            = {e \in Heads : chunk[e].state = OCCUPIED} \ {c}
      BY <1>4 DEF FREE, OCCUPIED
    <3>3. \A x : x \in DOMAIN blocks <=>
                 \E d \in Heads : chunk[d].state = OCCUPIED /\ x = payload(d)
      BY BlockFacts
    <3>4. \A d \in Heads : payload(d) = a => d = c
      BY <2>1, <2>3
    <3> QED  BY <3>1, <3>2, <3>3, <3>4, <2>1
  <2>5. ASSUME NEW b \in DOMAIN blocks \ {a}
        PROVE  blocks'[b] = blocks[b]
    <3>1. PICK d \in Heads : chunk[d].state = OCCUPIED /\ b = payload(d)
      BY BlockFacts
    <3>2. blocks[b] = chunk[d].size - SAFETY_BUFFER
      BY <3>1, BlockFacts
    <3>3. b \in DOMAIN blocks'
      BY <2>4
    <3>4. blocks'[b] = chunk'[b - HeaderSize].size - SAFETY_BUFFER
      BY <3>3 DEF blocks
    <3> QED  BY <3>1, <3>2, <3>4, <2>3, <1>4
  <2>6. blocks' = [b \in DOMAIN blocks \ {a} |-> blocks[b]]
    <3>1. blocks' = [b \in DOMAIN blocks' |-> blocks'[b]]
      BY DEF blocks
    <3> QED  BY <3>1, <2>4, <2>5
  <2> QED  BY <2>2, <2>6 DEF Promise!Free
<1> QED  BY <1>5, <1>6, <1>7

\* Initially no block is in use.
LEMMA InitPromised ==
  Init => Promise!Init
<1> SUFFICES ASSUME Init PROVE Promise!Init
  OBVIOUS
<1>1. \A c \in Heads : chunk[c].state = FREE
  BY DEF Init, Heads
<1>2. {payload(c) : c \in {d \in Heads : chunk[d].state = OCCUPIED}} = {}
  BY <1>1 DEF FREE, OCCUPIED
<1>3. DOMAIN blocks = {} /\ blocks = [a \in DOMAIN blocks |-> blocks[a]]
  BY <1>2 DEF blocks
<1> QED  BY <1>3 DEF Promise!Init

\* Every step is one of the abstract allocator, or none that it can see.
LEMMA NextPromised ==
  ASSUME RequestsFit
  PROVE  IInv /\ IInv' /\ [Next]_vars => [Promise!Next]_blocks
<1> SUFFICES ASSUME IInv, IInv', [Next]_vars PROVE Promise!Next \/ UNCHANGED blocks
  OBVIOUS
<1>1. CASE UNCHANGED chunk
  BY <1>1, SameBlocks
<1>2. ASSUME NEW t \in Thread, NEW n \in Requests, AllocExact(t, n)
      PROVE  Promise!Next
  <2>1. Promise!Alloc(n)
    BY <1>2, AllocPromised
  <2> QED  BY <2>1 DEF Promise!Next
<1>3. ASSUME NEW t \in Thread, MarkFree(t)
      PROVE  Promise!Next \/ UNCHANGED blocks
  <2>1. (\E a \in DOMAIN blocks : Promise!Free(a)) \/ UNCHANGED blocks
    BY <1>3, MarkFreePromised
  <2> QED  BY <2>1 DEF Promise!Next
<1>4. \/ UNCHANGED chunk
      \/ \E t \in Thread : MarkFree(t) \/ \E n \in Requests : AllocExact(t, n)
  BY AllocFits DEF Next, vars, segment, FreeBegin, TestLast, ResetLast, TestFirst, LowerFirst,
         LoadUsed, StoreUsed
<1> QED  BY <1>1, <1>2, <1>3, <1>4

\* SequentialFitMemManager implements module Allocator: a block that alloc()
\* returns is as long as asked for, lies in the segment and keeps SAFETY_BUFFER
\* and a header away from every block in use, although free() takes no lock,
\* if no request wraps around when SAFETY_BUFFER is added in a size_t.
THEOREM HeapIsAllocator ==
  ASSUME RequestsFit
  PROVE  Spec => ImplementsAllocator
<1>1. IInv /\ IInv' /\ [Next]_vars => [Promise!Next]_blocks
  BY NextPromised
<1>2. Spec => []IInv
  BY Invariance
<1> QED  BY <1>1, <1>2, InitPromised, PTL DEF Spec, ImplementsAllocator, Promise!Spec

-----------------------------------------------------------------------------
(* The statistics: what is counted is what the chunks hold.                *)

sizes == [c \in Heads |-> chunk[c].size]

\* No byte of the segment gets lost: the payloads and the headers that split()
\* has added make up the chunk that the segment started with.
Accounted ==
  /\ overheadBytes = HeaderSize * (Cardinality(Heads) - 1)
  /\ Sum(sizes, Heads) + overheadBytes = SegSize - HeadRoom

\* While no call is made into an interrupted free(), its chunk is in use up to
\* the step that marks it, and free from there on.
FreeStates ==
  overlap["alloc"] + overlap["free"] = 0 =>
    \A t \in Freeing : chunk[freeing[t]].state = IF t \in MarkedFree THEN FREE ELSE OCCUPIED

\* usedBytes counts the blocks in use and the one that free() has yet to take
\* off; what free() writes back no longer counts that.
UsedExact ==
  overlap["alloc"] + overlap["free"] = 0 =>
    /\ MarkedFree = {} => usedBytes = Sum(sizes, Occupied)
    /\ \A t \in MarkedFree : usedBytes = Sum(sizes, Occupied) + chunk[freeing[t]].size
    /\ \A t \in Thread : pc[t] = "store" => tmp[t] = Sum(sizes, Occupied)

StatInv == Accounted /\ FreeStates /\ UsedExact

\* A number below the modulus is its own remainder.
LEMMA ModSmall ==
  ASSUME NEW n \in Nat \ {0}, NEW x \in 0..(n - 1)
  PROVE  x % n = x
BY SMT

\* There are finitely many chunks, and each has a size.
LEMMA SizeFacts ==
  ASSUME TypeOK
  PROVE  /\ IsFiniteSet(Heads) /\ Cardinality(Heads) \in Nat
         /\ IsFiniteSet(Occupied) /\ Occupied \subseteq Heads
         /\ \A c \in Heads : sizes[c] = chunk[c].size /\ sizes[c] \in Nat
<1>1. Start \in Int /\ End \in Int
  BY HeapAssumption DEF End
<1>2. IsFiniteSet(Start..End) /\ Heads \subseteq Start..End
  BY <1>1, FS_Interval DEF TypeOK
<1>3. IsFiniteSet(Heads)
  BY <1>2, FS_Subset
<1>4. Occupied \subseteq Heads
  BY DEF Occupied
<1>5. IsFiniteSet(Occupied)
  BY <1>3, <1>4, FS_Subset
<1>6. \A c \in Heads : sizes[c] = chunk[c].size /\ sizes[c] \in Nat
  BY ChunkFacts DEF sizes
<1> QED  BY <1>3, <1>4, <1>5, <1>6, FS_CardinalityType

\* What alloc() does to the sizes: it hands out a whole chunk, or the rest goes
\* to a new one, less its header.
LEMMA AllocOutcome ==
  ASSUME IInv, NEW t \in Thread, NEW n \in Requests, AllocExact(t, n)
  PROVE  \E c \in Heads :
           /\ chunk[c].state = FREE /\ chunk'[c].state = OCCUPIED
           /\ usedBytes' = (usedBytes + chunk'[c].size) % Word
           /\ \A d \in Heads \ {c} : chunk'[d].state = chunk[d].state /\ chunk'[d].size = chunk[d].size
           /\ \/ /\ Heads' = Heads /\ chunk'[c].size = chunk[c].size
                 /\ overheadBytes' = overheadBytes
              \/ \E k : /\ k \notin Heads /\ Heads' = Heads \cup {k} /\ chunk'[k].state = FREE
                        /\ chunk'[c].size + chunk'[k].size + HeaderSize = chunk[c].size
                        /\ overheadBytes' = overheadBytes + HeaderSize
<1>1. n \in Nat /\ SAFETY_BUFFER \in Nat /\ HeaderSize \in Nat
  BY HeapAssumption
<1>2. PICK size : size = n + SAFETY_BUFFER
  OBVIOUS
<1>3. size \in Nat
  BY <1>1, <1>2
<1>4. PICK c : c = Min(Fitting(size))
  OBVIOUS
<1>5. /\ Fitting(size) # {}
      /\ chunk' = IF Splits(c, size) THEN SplitChunk(c, size) ELSE TakeWhole(c)
      /\ usedBytes' = (usedBytes + chunk'[c].size) % Word
      /\ overheadBytes' = overheadBytes + (IF Splits(c, size) THEN HeaderSize ELSE 0)
  BY <1>2, <1>4 DEF AllocExact
<1>6. c \in Heads /\ chunk[c].state = FREE /\ chunk[c].size >= size
  BY <1>3, <1>4, <1>5, FittingFacts DEF IInv
<1>7. CASE Splits(c, size)
  <2>1. PICK k : k = nextPayload(c, size) - HeaderSize
    OBVIOUS
  <2>2. chunk' = SplitChunk(c, size)
    BY <1>5, <1>7
  <2>3. k \in Nat /\ k \notin Heads
    BY <2>1, <1>3, <1>6, <1>7, SplitPoint
  <2>4. /\ Heads' = Heads \cup {k}
        /\ chunk'[c] = [prev |-> chunk[c].prev, next |-> k, state |-> OCCUPIED,
                        size |-> k - payload(c)]
        /\ chunk'[k] = [prev |-> c, next |-> chunk[c].next, state |-> FREE,
                        size |-> endPtr(c) - payload(k)]
        /\ \A d \in Heads \ {c} : chunk'[d].state = chunk[d].state /\ chunk'[d].size = chunk[d].size
    BY <2>1, <2>2, <1>3, <1>6, <1>7, SplitHeaders
  <2>5. chunk'[c].size = k - (c + HeaderSize) /\ chunk'[c].state = OCCUPIED
    BY <2>4 DEF payload
  <2>6. /\ chunk'[k].size = (c + HeaderSize + chunk[c].size) - (k + HeaderSize)
        /\ chunk'[k].state = FREE
    BY <2>4 DEF payload, endPtr
  <2>7. c \in Nat /\ chunk[c].size \in Nat
    BY <1>6, ChunkFacts DEF IInv
  <2>8. chunk'[c].size + chunk'[k].size + HeaderSize = chunk[c].size
    BY <2>3, <2>5, <2>6, <2>7, <1>1
  <2>9. overheadBytes' = overheadBytes + HeaderSize
    BY <1>5, <1>7
  <2> QED  BY <2>3, <2>4, <2>5, <2>6, <2>8, <2>9, <1>5, <1>6
<1>8. CASE ~Splits(c, size)
  <2>1. chunk' = [chunk EXCEPT ![c].state = OCCUPIED]
    BY <1>5, <1>8 DEF TakeWhole
  <2>2. /\ Heads' = Heads
        /\ chunk'[c].state = OCCUPIED
        /\ \A d \in Heads : chunk'[d].size = chunk[d].size
        /\ \A d \in Heads \ {c} : chunk'[d] = chunk[d]
    BY <2>1, <1>6, MarkChunk
  <2>3. overheadBytes' = overheadBytes
    <3>1. overheadBytes \in Nat
      BY DEF IInv, TypeOK
    <3> QED  BY <3>1, <1>5, <1>8
  <2> QED  BY <2>2, <2>3, <1>5, <1>6
<1> QED  BY <1>7, <1>8

\* The chunks keep their sizes when none is added or divided.
LEMMA SameSizes ==
  ASSUME IInv, Heads' = Heads, \A d \in Heads : chunk'[d].size = chunk[d].size
  PROVE  sizes' = sizes
BY DEF sizes

\* alloc() loses no byte.
LEMMA AllocAccounted ==
  ASSUME IInv, IInv', Accounted, NEW t \in Thread, NEW n \in Requests, AllocExact(t, n)
  PROVE  Accounted'
<1>1. TypeOK /\ TypeOK' /\ HeaderSize \in Nat
  BY HeapAssumption DEF IInv
<1>2. PICK c \in Heads :
           /\ \A d \in Heads \ {c} : chunk'[d].size = chunk[d].size
           /\ \/ /\ Heads' = Heads /\ chunk'[c].size = chunk[c].size
                 /\ overheadBytes' = overheadBytes
              \/ \E k : /\ k \notin Heads /\ Heads' = Heads \cup {k} /\ chunk'[k].state = FREE
                        /\ chunk'[c].size + chunk'[k].size + HeaderSize = chunk[c].size
                        /\ overheadBytes' = overheadBytes + HeaderSize
  BY AllocOutcome
<1>3. CASE /\ Heads' = Heads /\ chunk'[c].size = chunk[c].size
           /\ overheadBytes' = overheadBytes
  <2>1. sizes' = sizes
    BY <1>2, <1>3, SameSizes
  <2> QED  BY <2>1, <1>3 DEF Accounted
<1>4. CASE \E k : /\ k \notin Heads /\ Heads' = Heads \cup {k} /\ chunk'[k].state = FREE
                  /\ chunk'[c].size + chunk'[k].size + HeaderSize = chunk[c].size
                  /\ overheadBytes' = overheadBytes + HeaderSize
  <2>1. PICK k : /\ k \notin Heads /\ Heads' = Heads \cup {k}
                 /\ chunk'[c].size + chunk'[k].size + HeaderSize = chunk[c].size
                 /\ overheadBytes' = overheadBytes + HeaderSize
    BY <1>4
  <2>2. PICK e : e = sizes'
    OBVIOUS
  <2>3. \A d \in Heads \cup {k} : e[d] = chunk'[d].size /\ e[d] \in Nat
    <3>1. chunk' \in [Heads' -> [prev : Nat, next : Nat, state : {FREE, OCCUPIED}, size : Nat]]
      BY <1>1 DEF TypeOK
    <3> QED  BY <3>1, <2>1, <2>2 DEF sizes
  <2>4. /\ IsFiniteSet(Heads) /\ Cardinality(Heads) \in Nat
        /\ \A d \in Heads : sizes[d] = chunk[d].size /\ sizes[d] \in Nat
    BY <1>1, SizeFacts
  <2>5. Sum(e, Heads \cup {k}) = e[k] + Sum(e, Heads)
    BY <2>1, <2>3, <2>4, SumAdd
  <2>6. Sum(e, Heads) = e[c] + Sum(e, Heads \ {c})
    BY <2>3, <2>4, SumSplit
  <2>7. Sum(sizes, Heads) = sizes[c] + Sum(sizes, Heads \ {c})
    BY <2>4, SumSplit
  <2>8. Sum(sizes, Heads \ {c}) = Sum(e, Heads \ {c}) /\ Sum(sizes, Heads \ {c}) \in Nat
    <3>1. IsFiniteSet(Heads \ {c})
      BY <2>4, FS_Subset
    <3>2. \A d \in Heads \ {c} : sizes[d] = e[d] /\ sizes[d] \in Nat
      BY <2>3, <2>4, <1>2
    <3> QED  BY <3>1, <3>2, SumSame
  <2>9. e[c] \in Nat /\ e[k] \in Nat /\ sizes[c] \in Nat /\ e[c] + e[k] + HeaderSize = sizes[c]
    BY <2>1, <2>3, <2>4
  <2>10. Sum(e, Heads \cup {k}) + HeaderSize = Sum(sizes, Heads)
         /\ Sum(e, Heads \cup {k}) \in Nat
    <3>1. PICK r : r = Sum(sizes, Heads \ {c})
      OBVIOUS
    <3>2. r \in Nat /\ Sum(sizes, Heads) = sizes[c] + r /\ Sum(e, Heads \cup {k}) = e[k] + (e[c] + r)
      BY <3>1, <2>5, <2>6, <2>7, <2>8
    <3>3. e[k] + (e[c] + r) + HeaderSize = sizes[c] + r /\ e[k] + (e[c] + r) \in Nat
      BY <3>2, <2>9, <1>1
    <3> QED  BY <3>2, <3>3
  <2>11. overheadBytes \in Nat /\ Sum(sizes, Heads) + overheadBytes = SegSize - HeadRoom
    BY <1>1 DEF Accounted, TypeOK
  <2>12. Sum(sizes', Heads') + overheadBytes' = SegSize - HeadRoom
    <3>1. PICK r : r = Sum(e, Heads \cup {k})
      OBVIOUS
    <3>2. r + (overheadBytes + HeaderSize) = (r + HeaderSize) + overheadBytes
      BY <3>1, <2>10, <2>11, <1>1
    <3> QED  BY <3>1, <3>2, <2>1, <2>2, <2>10, <2>11
  <2>13. Cardinality(Heads') = Cardinality(Heads) + 1
    BY <2>1, <2>4, FS_AddElement
  <2>14. overheadBytes' = HeaderSize * (Cardinality(Heads') - 1)
    <3>1. PICK m \in Nat : m = Cardinality(Heads)
      BY <2>4
    <3>2. overheadBytes = HeaderSize * (m - 1)
      BY <3>1 DEF Accounted
    <3>3. HeaderSize * (m - 1) + HeaderSize = HeaderSize * ((m + 1) - 1)
      BY <3>1, <1>1
    <3> QED  BY <3>1, <3>2, <3>3, <2>1, <2>13
  <2> QED  BY <2>12, <2>14 DEF Accounted
<1> QED  BY <1>2, <1>3, <1>4

\* The chunks in use fit in the segment, which a size_t can count.
LEMMA SumsFit ==
  TypeOK /\ Accounted => \A S \in SUBSET Heads : Sum(sizes, S) \in 0..(Word - 1)
<1> SUFFICES ASSUME TypeOK, Accounted, NEW S \in SUBSET Heads
             PROVE  Sum(sizes, S) \in 0..(Word - 1)
  OBVIOUS
<1>1. /\ SegSize \in Nat /\ SegSize < Word /\ Word \in Nat /\ HeadRoom \in Nat
      /\ overheadBytes \in Nat
  BY HeapAssumption DEF TypeOK
<1>2. IsFiniteSet(Heads) /\ \A c \in Heads : sizes[c] = sizes[c] /\ sizes[c] \in Nat
  BY SizeFacts
<1>3. IsFiniteSet(S) /\ \A c \in S : sizes[c] = sizes[c] /\ sizes[c] \in Nat
  BY <1>2, FS_Subset
<1>4. Sum(sizes, S) \in Nat /\ Sum(sizes, Heads) \in Nat
  BY <1>2, <1>3, SumSame
<1>5. Sum(sizes, S) <= Sum(sizes, Heads)
  BY <1>2, SumPart
<1>6. Sum(sizes, Heads) + overheadBytes = SegSize - HeadRoom
  BY DEF Accounted
<1> QED  BY <1>1, <1>4, <1>5, <1>6

\* A call is not counted only if no thread is inside free().
LEMMA NotCounted ==
  ASSUME IInv, NEW call \in {"alloc", "free"}, Overlaps(call),
         overlap'["alloc"] + overlap'["free"] = 0
  PROVE  Freeing = {} /\ overlap["alloc"] + overlap["free"] = 0
<1>1. overlap \in [{"alloc", "free"} -> Nat]
  BY FreeTypes
<1>2. CASE Freeing = {}
  BY <1>2 DEF Overlaps
<1>3. CASE Freeing # {}
  <2>1. overlap' = [overlap EXCEPT ![call] = @ + 1]
    BY <1>3 DEF Overlaps
  <2>2. /\ overlap["alloc"] \in Nat /\ overlap["free"] \in Nat
        /\ \/ overlap'["alloc"] = overlap["alloc"] + 1 /\ overlap'["free"] = overlap["free"]
           \/ overlap'["alloc"] = overlap["alloc"] /\ overlap'["free"] = overlap["free"] + 1
    BY <2>1, <1>1
  <2> QED  BY <2>2
<1> QED  BY <1>2, <1>3

\* No thread inside free(): nothing is left to be taken off.
LEMMA NobodyFrees ==
  ASSUME Freeing = {}
  PROVE  MarkedFree = {} /\ \A t \in Thread : pc[t] = "idle"
BY DEF Freeing, MarkedFree

\* alloc() adds the size of the block to usedBytes.
LEMMA AllocStatistics ==
  ASSUME IInv, IInv', StatInv, Accounted', NEW t \in Thread, NEW n \in Requests, AllocExact(t, n)
  PROVE  StatInv'
<1>1. TypeOK /\ TypeOK'
  BY DEF IInv
<1> SUFFICES ASSUME overlap'["alloc"] + overlap'["free"] = 0
             PROVE  Freeing' = {} /\ usedBytes' = Sum(sizes', Occupied')
  <2>1. Freeing' = {} => /\ MarkedFree' = {} /\ \A u \in Thread : pc'[u] = "idle"
    BY DEF Freeing, MarkedFree
  <2> QED  BY <2>1 DEF StatInv, FreeStates, UsedExact
<1>2. Freeing = {} /\ overlap["alloc"] + overlap["free"] = 0
  BY NotCounted DEF AllocExact
<1>3. Freeing' = {}
  BY <1>2 DEF AllocExact, Freeing
<1>4. usedBytes = Sum(sizes, Occupied)
  BY <1>2, NobodyFrees DEF StatInv, UsedExact
<1>5. PICK c \in Heads :
           /\ chunk[c].state = FREE /\ chunk'[c].state = OCCUPIED
           /\ usedBytes' = (usedBytes + chunk'[c].size) % Word
           /\ \A d \in Heads \ {c} : chunk'[d].state = chunk[d].state /\ chunk'[d].size = chunk[d].size
           /\ \/ Heads' = Heads
              \/ \E k : k \notin Heads /\ Heads' = Heads \cup {k} /\ chunk'[k].state = FREE
  BY AllocOutcome
<1>6. c \notin Occupied /\ Occupied' = Occupied \cup {c} /\ Occupied' \subseteq Heads'
  <2>1. FREE # OCCUPIED
    BY DEF FREE, OCCUPIED
  <2> QED  BY <2>1, <1>5 DEF Occupied
<1>7. PICK e : e = sizes'
  OBVIOUS
<1>8. \A d \in Heads' : e[d] = chunk'[d].size /\ e[d] \in Nat
  <2>1. chunk' \in [Heads' -> [prev : Nat, next : Nat, state : {FREE, OCCUPIED}, size : Nat]]
    BY <1>1 DEF TypeOK
  <2> QED  BY <2>1, <1>7 DEF sizes
<1>9. IsFiniteSet(Occupied) /\ Occupied \subseteq Heads
  BY <1>1, SizeFacts
<1>10. Sum(e, Occupied \cup {c}) = e[c] + Sum(e, Occupied)
  <2>1. \A y \in Occupied \cup {c} : e[y] \in Nat
    BY <1>6, <1>8
  <2> QED  BY <2>1, <1>6, <1>9, SumAdd
<1>11. Sum(sizes, Occupied) = Sum(e, Occupied) /\ Sum(sizes, Occupied) \in Nat
  <2>1. \A d \in Occupied : sizes[d] = e[d] /\ sizes[d] \in Nat
    BY <1>1, <1>5, <1>6, <1>8, <1>9, SizeFacts
  <2> QED  BY <2>1, <1>9, SumSame
<1>12. usedBytes' = Sum(sizes', Occupied') % Word
  <2>1. e[c] = chunk'[c].size /\ e[c] \in Nat
    BY <1>5, <1>6, <1>8
  <2>2. usedBytes + chunk'[c].size = e[c] + Sum(sizes, Occupied)
    BY <2>1, <1>4, <1>11
  <2> QED  BY <2>2, <1>5, <1>6, <1>7, <1>10, <1>11
<1>13. Sum(sizes', Occupied') \in 0..(Word - 1)
  <2>1. (TypeOK /\ Accounted => \A S \in SUBSET Heads : Sum(sizes, S) \in 0..(Word - 1))'
    BY SumsFit, PTL
  <2> QED  BY <2>1, <1>1, <1>6
<1> QED  BY <1>3, <1>12, <1>13, ModSmall, HeapAssumption

\* A step inside free() that leaves the headers alone and does not end the call.
LEMMA FreeStatistics ==
  ASSUME IInv, StatInv, NEW t \in Thread, t \in Freeing,
         UNCHANGED <<chunk, overheadBytes, freeing, overlap>>,
         NEW l, pc' = [pc EXCEPT ![t] = l], l # "idle",
         l \in {"load", "store"} <=> t \in MarkedFree,
         usedBytes' = usedBytes,
         \A u \in Thread \ {t} : tmp'[u] = tmp[u],
         l = "store" => tmp'[t] = Sum(sizes, Occupied)
  PROVE  StatInv'
<1>1. Heads' = Heads /\ sizes' = sizes /\ Occupied' = Occupied /\ pc \in [Thread -> Labels]
  BY DEF Heads, sizes, Occupied, IInv, TypeOK, Labels
<1>2. MarkedFree' = MarkedFree /\ Freeing' = Freeing
  BY <1>1 DEF MarkedFree, Freeing
<1>3. Accounted' /\ FreeStates'
  BY <1>1, <1>2 DEF StatInv, Accounted, FreeStates
<1>4. \A u \in Thread \ {t} : pc'[u] = pc[u]
  BY <1>1
<1>5. pc'[t] = l
  BY <1>1
<1>6. UsedExact'
  BY <1>1, <1>2, <1>4, <1>5 DEF StatInv, UsedExact
<1> QED  BY <1>3, <1>6 DEF StatInv

\* The steps up to the one that marks the chunk.
LEMMA TestsStatistics ==
  ASSUME IInv, StatInv, NEW t \in Thread,
         TestLast(t) \/ ResetLast(t) \/ TestFirst(t) \/ LowerFirst(t)
  PROVE  StatInv'
<1>1. /\ t \in Freeing /\ t \notin MarkedFree
      /\ UNCHANGED <<chunk, overheadBytes, freeing, overlap, usedBytes, tmp>>
  BY DEF TestLast, ResetLast, TestFirst, LowerFirst, At, segment, Freeing, MarkedFree
<1>2. PICK l \in {"reset", "first", "lower", "mark"} : pc' = [pc EXCEPT ![t] = l]
  BY DEF TestLast, ResetLast, TestFirst, LowerFirst, Goto
<1>3. l # "idle" /\ (l \in {"load", "store"} <=> t \in MarkedFree) /\ l # "store"
  BY <1>1, <1>2
<1>4. usedBytes' = usedBytes /\ \A u \in Thread \ {t} : tmp'[u] = tmp[u]
  BY <1>1
<1> QED  BY <1>1, <1>2, <1>3, <1>4, FreeStatistics

\* free() starts with a block in use, or it is counted.
LEMMA FreeBeginStatistics ==
  ASSUME IInv, StatInv, NEW t \in Thread, NEW c \in Heads, FreeBegin(t, c)
  PROVE  StatInv'
<1>1. /\ UNCHANGED <<chunk, overheadBytes, usedBytes, tmp>> /\ freeing' = [freeing EXCEPT ![t] = c]
      /\ pc' = [pc EXCEPT ![t] = IF lastFit THEN "last" ELSE "mark"]
      /\ chunk[c].state = OCCUPIED
  BY DEF FreeBegin, Goto, segment
<1>2. Heads' = Heads /\ sizes' = sizes /\ Occupied' = Occupied /\ pc \in [Thread -> Labels]
  BY <1>1 DEF Heads, sizes, Occupied, IInv, TypeOK, Labels
<1>3. Accounted'
  BY <1>1, <1>2 DEF StatInv, Accounted
<1> SUFFICES ASSUME overlap'["alloc"] + overlap'["free"] = 0
             PROVE  /\ MarkedFree' = {} /\ Freeing' = {t}
                    /\ chunk'[freeing'[t]].state = OCCUPIED
                    /\ usedBytes' = Sum(sizes', Occupied')
  <2>1. MarkedFree' = {} => \A u \in Thread : pc'[u] # "store"
    BY DEF MarkedFree
  <2> QED  BY <2>1, <1>3 DEF StatInv, FreeStates, UsedExact
<1>4. Freeing = {} /\ overlap["alloc"] + overlap["free"] = 0
  BY NotCounted DEF FreeBegin
<1>5. MarkedFree = {} /\ \A u \in Thread : pc[u] = "idle"
  BY <1>4, NobodyFrees
<1>6. pc'[t] \in {"last", "mark"} /\ \A u \in Thread \ {t} : pc'[u] = "idle"
  BY <1>1, <1>2, <1>5
<1>7. MarkedFree' = {} /\ Freeing' = {t}
  BY <1>6 DEF MarkedFree, Freeing
<1>8. chunk'[freeing'[t]].state = OCCUPIED
  BY <1>1, FreeTypes
<1>9. usedBytes' = Sum(sizes', Occupied')
  BY <1>1, <1>2, <1>4, <1>5 DEF StatInv, UsedExact
<1> QED  BY <1>7, <1>8, <1>9

\* Without overlap one thread at most is inside free().
LEMMA Alone ==
  ASSUME IInv, OneInFree, overlap["alloc"] + overlap["free"] = 0, NEW t \in Freeing
  PROVE  Freeing = {t}
<1>1. overlap["alloc"] \in Nat /\ overlap["free"] \in Nat
  BY FreeTypes
<1>2. overlap["free"] = 0
  BY <1>1
<1> QED  BY <1>2 DEF OneInFree, Freeing

\* The chunk that is marked free is no longer among the blocks in use, and its
\* size is still to be taken off.
LEMMA MarkFreeStatistics ==
  ASSUME IInv, OneInFree, StatInv, NEW t \in Thread, MarkFree(t)
  PROVE  StatInv'
<1>1. /\ pc[t] = "mark" /\ pc' = [pc EXCEPT ![t] = "load"]
      /\ UNCHANGED <<overheadBytes, usedBytes, freeing, tmp, overlap>>
      /\ chunk' = [chunk EXCEPT ![freeing[t]].state = FREE]
  BY DEF MarkFree, At, Goto
<1>2. PICK c \in Heads : c = freeing[t]
  BY <1>1, FreeTypes
<1>3. chunk' = [chunk EXCEPT ![c].state = FREE]
  BY <1>1, <1>2
<1>4. /\ Heads' = Heads /\ chunk'[c].state = FREE
      /\ \A d \in Heads : chunk'[d].size = chunk[d].size
      /\ \A d \in Heads \ {c} : chunk'[d] = chunk[d]
  BY <1>3, MarkChunk
<1>5. sizes' = sizes
  BY <1>4, SameSizes
<1>6. Accounted'
  BY <1>1, <1>4, <1>5 DEF StatInv, Accounted
<1> SUFFICES ASSUME overlap["alloc"] + overlap["free"] = 0
             PROVE  /\ MarkedFree' = {t} /\ Freeing' = {t} /\ pc'[t] = "load"
                    /\ usedBytes = Sum(sizes, Occupied') + chunk'[c].size
  <2>1. MarkedFree' = {t} /\ pc'[t] = "load" => \A u \in Thread : pc'[u] # "store"
    BY DEF MarkedFree
  <2> QED  BY <2>1, <1>1, <1>2, <1>4, <1>5, <1>6 DEF StatInv, FreeStates, UsedExact
<1>7. t \in Freeing /\ t \notin MarkedFree /\ Freeing = {t}
  <2>1. t \in Freeing /\ t \notin MarkedFree
    BY <1>1 DEF Freeing, MarkedFree
  <2> QED  BY <2>1, Alone
<1>8. /\ pc \in [Thread -> Labels]
      /\ \A u \in Thread \ {t} : pc[u] = "idle"
  BY <1>7 DEF Freeing, IInv, TypeOK, Labels
<1>9. pc'[t] = "load" /\ \A u \in Thread \ {t} : pc'[u] = "idle"
  BY <1>1, <1>8
<1>10. MarkedFree' = {t} /\ Freeing' = {t}
  BY <1>9 DEF MarkedFree, Freeing
<1>11. MarkedFree = {}
  BY <1>1, <1>8 DEF MarkedFree
<1>12. chunk[c].state = OCCUPIED
  BY <1>2, <1>7 DEF StatInv, FreeStates
<1>13. Occupied' = Occupied \ {c} /\ c \in Occupied
  <2>1. FREE # OCCUPIED
    BY DEF FREE, OCCUPIED
  <2> QED  BY <2>1, <1>4, <1>12 DEF Occupied
<1>14. usedBytes = Sum(sizes, Occupied)
  BY <1>11 DEF StatInv, UsedExact
<1>15. /\ IsFiniteSet(Occupied) /\ Occupied \subseteq Heads
       /\ \A d \in Heads : sizes[d] = chunk[d].size /\ sizes[d] \in Nat
  BY SizeFacts DEF IInv
<1>16. Sum(sizes, Occupied) = sizes[c] + Sum(sizes, Occupied \ {c})
  BY <1>13, <1>15, SumSplit
<1>17. sizes[c] = chunk'[c].size /\ sizes[c] \in Nat
  BY <1>4, <1>15
<1>18. Sum(sizes, Occupied \ {c}) \in Nat
  <2>1. IsFiniteSet(Occupied \ {c}) /\ \A d \in Occupied \ {c} : sizes[d] = sizes[d] /\ sizes[d] \in Nat
    BY <1>15, FS_Subset
  <2> QED  BY <2>1, SumSame
<1>19. usedBytes = Sum(sizes, Occupied') + chunk'[c].size
  BY <1>13, <1>14, <1>16, <1>17, <1>18
<1> QED  BY <1>9, <1>10, <1>19

\* What free() computes from usedBytes does not wrap around.
LEMMA LoadUsedStatistics ==
  ASSUME IInv, StatInv, NEW t \in Thread, LoadUsed(t)
  PROVE  StatInv'
<1>1. /\ pc[t] = "load" /\ pc' = [pc EXCEPT ![t] = "store"]
      /\ UNCHANGED <<chunk, overheadBytes, freeing, overlap, usedBytes>>
      /\ tmp' = [tmp EXCEPT ![t] = (usedBytes - chunk[freeing[t]].size) % Word]
  BY DEF LoadUsed, At, Goto, segment
<1>2. t \in Freeing /\ t \in MarkedFree /\ freeing[t] \in Heads
  BY <1>1, FreeTypes DEF Freeing, MarkedFree
<1>3. /\ tmp'[t] = (usedBytes - chunk[freeing[t]].size) % Word
      /\ \A u \in Thread \ {t} : tmp'[u] = tmp[u]
  BY <1>1, FreeTypes
<1>4. CASE overlap["alloc"] + overlap["free"] = 0
  <2>1. usedBytes = Sum(sizes, Occupied) + chunk[freeing[t]].size
    BY <1>2, <1>4 DEF StatInv, UsedExact
  <2>2. chunk[freeing[t]].size \in Nat /\ TypeOK /\ Occupied \subseteq Heads
    BY <1>2, ChunkFacts DEF IInv, Occupied
  <2>3. Sum(sizes, Occupied) \in 0..(Word - 1) /\ Word \in Nat \ {0}
    BY <2>2, SumsFit, HeapAssumption DEF StatInv
  <2>4. usedBytes - chunk[freeing[t]].size = Sum(sizes, Occupied)
    BY <2>1, <2>2, <2>3
  <2>5. tmp'[t] = Sum(sizes, Occupied)
    BY <2>3, <2>4, <1>3, ModSmall
  <2> QED  BY <2>5, <1>1, <1>2, <1>3, FreeStatistics
<1>5. CASE overlap["alloc"] + overlap["free"] # 0
  BY <1>1, <1>5 DEF StatInv, Accounted, FreeStates, UsedExact, Heads, sizes
<1> QED  BY <1>4, <1>5

\* free() ends: the block is off the statistics.
LEMMA StoreUsedStatistics ==
  ASSUME IInv, OneInFree, StatInv, NEW t \in Thread, StoreUsed(t)
  PROVE  StatInv'
<1>1. /\ pc[t] = "store" /\ pc' = [pc EXCEPT ![t] = "idle"]
      /\ UNCHANGED <<chunk, overheadBytes, overlap>>
      /\ usedBytes' = tmp[t]
  BY DEF StoreUsed, At, Goto
<1>2. Heads' = Heads /\ sizes' = sizes /\ Occupied' = Occupied /\ pc \in [Thread -> Labels]
  BY <1>1 DEF Heads, sizes, Occupied, IInv, TypeOK, Labels
<1>3. Accounted'
  BY <1>1, <1>2 DEF StatInv, Accounted
<1> SUFFICES ASSUME overlap["alloc"] + overlap["free"] = 0
             PROVE  Freeing' = {} /\ usedBytes' = Sum(sizes, Occupied)
  <2>1. Freeing' = {} => /\ MarkedFree' = {} /\ \A u \in Thread : pc'[u] # "store"
    BY DEF Freeing, MarkedFree
  <2> QED  BY <2>1, <1>1, <1>2, <1>3 DEF StatInv, FreeStates, UsedExact
<1>4. Freeing = {t}
  <2>1. t \in Freeing
    BY <1>1 DEF Freeing
  <2> QED  BY <2>1, Alone
<1>5. Freeing' = {}
  BY <1>1, <1>2, <1>4 DEF Freeing
<1>6. usedBytes' = Sum(sizes, Occupied)
  BY <1>1 DEF StatInv, UsedExact
<1> QED  BY <1>5, <1>6

\* Nothing is in use at first.
LEMMA InitStatistics ==
  Init => StatInv
<1> SUFFICES ASSUME Init PROVE StatInv
  OBVIOUS
<1>1. /\ Heads = {FirstHead} /\ chunk[FirstHead].state = FREE
      /\ chunk[FirstHead].size = SegSize - HeadRoom
      /\ usedBytes = 0 /\ overheadBytes = 0 /\ pc = [t \in Thread |-> "idle"]
  BY DEF Init, Heads
<1>2. SegSize - HeadRoom \in Nat /\ HeaderSize \in Nat
  BY HeapAssumption
<1>3. Occupied = {}
  BY <1>1 DEF Occupied, FREE, OCCUPIED
<1>4. Cardinality(Heads) = 1 /\ IsFiniteSet({})
  BY <1>1, FS_Singleton, FS_EmptySet
<1>5. Sum(sizes, Heads) = SegSize - HeadRoom
  <2>1. sizes[FirstHead] = SegSize - HeadRoom
    BY <1>1 DEF sizes
  <2>2. Sum(sizes, {} \cup {FirstHead}) = sizes[FirstHead] + Sum(sizes, {})
    <3>1. /\ IsFiniteSet({}) /\ FirstHead \notin {}
          /\ \A x \in {} \cup {FirstHead} : sizes[x] \in Nat
      BY <1>2, <1>4, <2>1
    <3> QED  BY ONLY <3>1, SumAdd
  <2>3. {} \cup {FirstHead} = Heads
    BY <1>1
  <2> QED  BY <2>1, <2>2, <2>3, <1>2, SumNone
<1>6. Accounted
  BY <1>1, <1>2, <1>4, <1>5 DEF Accounted
<1>7. Freeing = {} /\ MarkedFree = {}
  BY <1>1 DEF Freeing, MarkedFree
<1>8. FreeStates /\ UsedExact
  BY <1>1, <1>3, <1>7, SumNone DEF FreeStates, UsedExact
<1> QED  BY <1>6, <1>8 DEF StatInv

\* Every step keeps the statistics.
LEMMA NextStatistics ==
  ASSUME RequestsFit
  PROVE  IInv /\ IInv' /\ SearchInv /\ StatInv /\ [Next]_vars => StatInv'
<1> SUFFICES ASSUME IInv, IInv', SearchInv, StatInv, [Next]_vars PROVE StatInv'
  OBVIOUS
<1>1. OneInFree /\ Accounted
  BY DEF SearchInv, StatInv
<1>2. CASE UNCHANGED vars
  <2>1. UNCHANGED <<chunk, usedBytes, overheadBytes, pc, freeing, tmp, overlap>>
    BY <1>2 DEF vars, segment
  <2>2. /\ Heads' = Heads /\ sizes' = sizes /\ Occupied' = Occupied
        /\ MarkedFree' = MarkedFree /\ Freeing' = Freeing
    BY <2>1 DEF Heads, sizes, Occupied, MarkedFree, Freeing
  <2> QED  BY <2>1, <2>2 DEF StatInv, Accounted, FreeStates, UsedExact
<1>3. CASE Next
  <2>1. PICK t \in Thread :
          \/ \E n \in Requests : AllocExact(t, n)
          \/ \E c \in Heads : FreeBegin(t, c)
          \/ TestLast(t) \/ ResetLast(t) \/ TestFirst(t) \/ LowerFirst(t)
          \/ MarkFree(t) \/ LoadUsed(t) \/ StoreUsed(t)
    BY <1>3, AllocFits DEF Next
  <2> QED
    BY <2>1, <1>1, AllocAccounted, AllocStatistics, FreeBeginStatistics, TestsStatistics,
       MarkFreeStatistics, LoadUsedStatistics, StoreUsedStatistics
<1> QED  BY <1>2, <1>3

\* The size of the blocks in use, as the property writes it ...
LEMMA SumOfSizes ==
  ASSUME TypeOK
  PROVE  MapThenSumSet(LAMBDA c : chunk[c].size, Occupied) = Sum(sizes, Occupied)
<1> DEFINE body(g) == [s \in SUBSET Occupied |->
                         IF s = {} THEN 0 ELSE chunk[Picked(s)].size + g[s \ {Picked(s)}]]
<1> DEFINE h == CHOOSE g : g = body(g)
<1>1. MapThenSumSet(LAMBDA c : chunk[c].size, Occupied) = h[Occupied]
  BY Zenon DEF MapThenSumSet, MapThenFoldSet, Picked
<1>2. IsFiniteSet(Occupied) /\ \A x \in Occupied : sizes[x] = chunk[x].size /\ sizes[x] \in Nat
  BY SizeFacts
<1>3. \A g : body(g) = Round(g, sizes, Occupied)
  <2>1. \A s \in SUBSET Occupied : s # {} => Picked(s) \in Occupied
    BY Zenon DEF Picked
  <2> QED  BY <2>1, <1>2 DEF Round
<1>4. PICK g : Iterates(g, sizes, Occupied) /\ Sum(sizes, Occupied) = g[Occupied]
  BY <1>2, SumIteration
<1>5. g = body(g)
  BY <1>3, <1>4, Zenon DEF Iterates
<1> HIDE DEF body
<1>6. h = body(h)
  BY <1>5, Zenon
<1>7. Iterates(h, sizes, Occupied)
  BY <1>3, <1>6, Zenon DEF Iterates
<1> HIDE DEF h
<1>8. h[Occupied] = g[Occupied]
  BY <1>2, <1>4, <1>7, IterationsAgree
<1> QED  BY <1>1, <1>4, <1>8, Zenon

freedSizes == [t \in Thread |-> chunk[freeing[t]].size]

\* A chunk that free() has marked has a size.
LEMMA FreedFacts ==
  ASSUME IInv
  PROVE  \A t \in MarkedFree : freedSizes[t] = chunk[freeing[t]].size /\ freedSizes[t] \in Nat
<1>1. \A t \in MarkedFree : freeing[t] \in Heads /\ t \in Thread
  BY FreeTypes DEF MarkedFree
<1> QED  BY <1>1, ChunkFacts DEF IInv, freedSizes

\* ... and that of the blocks that free() has yet to take off.
LEMMA SumOfFreed ==
  ASSUME IInv, IsFiniteSet(MarkedFree)
  PROVE  MapThenSumSet(LAMBDA t : chunk[freeing[t]].size, MarkedFree) = Sum(freedSizes, MarkedFree)
<1> DEFINE body(g) == [s \in SUBSET MarkedFree |->
                         IF s = {} THEN 0 ELSE chunk[freeing[Picked(s)]].size + g[s \ {Picked(s)}]]
<1> DEFINE h == CHOOSE g : g = body(g)
<1>1. MapThenSumSet(LAMBDA t : chunk[freeing[t]].size, MarkedFree) = h[MarkedFree]
  BY Zenon DEF MapThenSumSet, MapThenFoldSet, Picked
<1>2. IsFiniteSet(MarkedFree) /\ \A x \in MarkedFree : freedSizes[x] = chunk[freeing[x]].size /\ freedSizes[x] \in Nat
  BY FreedFacts
<1>3. \A g : body(g) = Round(g, freedSizes, MarkedFree)
  <2>1. \A s \in SUBSET MarkedFree : s # {} => Picked(s) \in MarkedFree
    BY Zenon DEF Picked
  <2> QED  BY <2>1, <1>2 DEF Round
<1>4. PICK g : Iterates(g, freedSizes, MarkedFree) /\ Sum(freedSizes, MarkedFree) = g[MarkedFree]
  BY <1>2, SumIteration
<1>5. g = body(g)
  BY <1>3, <1>4, Zenon DEF Iterates
<1> HIDE DEF body
<1>6. h = body(h)
  BY <1>5, Zenon
<1>7. Iterates(h, freedSizes, MarkedFree)
  BY <1>3, <1>6, Zenon DEF Iterates
<1> HIDE DEF h
<1>8. h[MarkedFree] = g[MarkedFree]
  BY <1>2, <1>4, <1>7, IterationsAgree
<1> QED  BY <1>1, <1>4, <1>8, Zenon

\* The segment is accounted for in every state, however alloc() and the unlocked
\* free() interleave: the payloads and the headers that split() has added make
\* up the payload that the segment started with.
THEOREM NoByteIsLost ==
  ASSUME RequestsFit
  PROVE  Spec => []Accounted
<1>1. StatInv => Accounted
  BY DEF StatInv
<1>2. Spec => [](IInv /\ SearchInv)
  <2>1. Spec => []IInv
    BY Invariance
  <2>2. IInv /\ SearchInv /\ [Next]_vars => SearchInv'
    BY NextSearch
  <2> QED  BY <2>1, <2>2, InitSearch, PTL DEF Spec
<1>3. IInv /\ IInv' /\ SearchInv /\ StatInv /\ [Next]_vars => StatInv'
  BY NextStatistics
<1> QED  BY <1>1, <1>2, <1>3, InitStatistics, PTL DEF Spec

\* As long as no call is made into an interrupted free(), usedBytes is the size
\* of the blocks in use, and of the one that free() has yet to take off:
\* getUsedMemSize() finds what it calculates.
THEOREM StatisticsAreExact ==
  ASSUME RequestsFit
  PROVE  Spec => []UsedBytesExact
<1>1. Spec => [](IInv /\ SearchInv)
  <2>1. Spec => []IInv
    BY Invariance
  <2>2. IInv /\ SearchInv /\ [Next]_vars => SearchInv'
    BY NextSearch
  <2> QED  BY <2>1, <2>2, InitSearch, PTL DEF Spec
<1>2. Spec => [](IInv /\ SearchInv /\ StatInv)
  <2>1. IInv /\ IInv' /\ SearchInv /\ StatInv /\ [Next]_vars => StatInv'
    BY NextStatistics
  <2> QED  BY <1>1, <2>1, InitStatistics, PTL DEF Spec
<1>3. IInv /\ SearchInv /\ StatInv => UsedBytesExact
  <2> SUFFICES ASSUME IInv, SearchInv, StatInv, overlap["alloc"] + overlap["free"] = 0
               PROVE  /\ usedBytes = MapThenSumSet(LAMBDA c : chunk[c].size, Occupied)
                                        + MapThenSumSet(LAMBDA t : chunk[freeing[t]].size, MarkedFree)
                      /\ overheadBytes = HeaderSize * (Cardinality(Heads) - 1)
    BY DEF UsedBytesExact
  <2>1. /\ IsFiniteSet(Occupied) /\ Occupied \subseteq Heads
        /\ \A c \in Heads : sizes[c] = chunk[c].size /\ sizes[c] \in Nat
    BY SizeFacts DEF IInv
  <2>2. MapThenSumSet(LAMBDA c : chunk[c].size, Occupied) = Sum(sizes, Occupied)
    BY SumOfSizes DEF IInv
  <2>3. Sum(sizes, Occupied) \in Nat
    <3>1. \A c \in Occupied : sizes[c] = sizes[c] /\ sizes[c] \in Nat
      BY <2>1
    <3> QED  BY <3>1, <2>1, SumSame
  <2>4. \A t \in MarkedFree : freedSizes[t] = chunk[freeing[t]].size /\ freedSizes[t] \in Nat
    BY FreedFacts
  <2>5. usedBytes = Sum(sizes, Occupied) + Sum(freedSizes, MarkedFree) /\ IsFiniteSet(MarkedFree)
    <3>1. CASE MarkedFree = {}
      <4>1. usedBytes = Sum(sizes, Occupied)
        BY <3>1 DEF StatInv, UsedExact
      <4> QED  BY <4>1, <3>1, <2>3, SumNone, FS_EmptySet
    <3>2. CASE MarkedFree # {}
      <4>1. PICK t \in MarkedFree : TRUE
        BY <3>2
      <4>2. t \in Freeing /\ MarkedFree \subseteq Freeing
        BY DEF MarkedFree, Freeing
      <4>3. MarkedFree = {} \cup {t}
        BY <4>1, <4>2, Alone DEF SearchInv
      <4>4. IsFiniteSet({}) /\ IsFiniteSet(MarkedFree)
        BY <4>3, FS_EmptySet, FS_AddElement
      <4>5. Sum(freedSizes, {} \cup {t}) = freedSizes[t] + Sum(freedSizes, {})
        BY <4>3, <4>4, <2>4, SumAdd
      <4>6. Sum(freedSizes, MarkedFree) = freedSizes[t]
        BY <4>3, <4>5, <2>4, SumNone
      <4>7. usedBytes = Sum(sizes, Occupied) + chunk[freeing[t]].size
        BY <4>1 DEF StatInv, UsedExact
      <4> QED  BY <4>1, <4>4, <4>6, <4>7, <2>4
    <3> QED  BY <3>1, <3>2
  <2>6. MapThenSumSet(LAMBDA t : chunk[freeing[t]].size, MarkedFree) = Sum(freedSizes, MarkedFree)
    BY <2>5, SumOfFreed
  <2>7. overheadBytes = HeaderSize * (Cardinality(Heads) - 1)
    BY DEF StatInv, Accounted
  <2> QED  BY <2>2, <2>5, <2>6, <2>7
<1> QED  BY <1>2, <1>3, PTL
=============================================================================
