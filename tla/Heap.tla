-------------------------------- MODULE Heap --------------------------------
(***************************************************************************)
(* SequentialFitMemManager: alloc() and free() on one memory segment.      *)
(*                                                                         *)
(* The segment is a doubly linked list of chunks in address order, a       *)
(* header before each payload.  alloc() searches and splits with           *)
(* interrupts disabled, which makes it one step.  free() takes no lock: it *)
(* is one step for each access to shared data, and a kernel thread, which  *)
(* runs with interrupts enabled, can be preempted between any two of them. *)
(* merge() returns before it merges, so chunks are never joined again.     *)
(*                                                                         *)
(* alloc() does not test whether the request and SAFETY_BUFFER still fit   *)
(* in a size_t.  Callers have to see to that: RequestsFit below is their   *)
(* part of the contract, and what is shown of the manager rests on it.     *)
(***************************************************************************)
EXTENDS Integers, FiniteSetsExt

CONSTANTS
  Thread,            \* callers
  KernelThreads,     \* those that run with interrupts enabled
  None,              \* no thread's chunk
  Start, SegSize,    \* start address and size of the segment
  HeadRoom,          \* offset of the first payload (32)
  HeaderSize,        \* sizeof(Chunk_Header)
  SAFETY_BUFFER, SAFETY_CHAR, MINIMUM_PAYLOAD, ALIGN_VAL,
  Word,              \* size_t holds 0 .. Word - 1
  Requests,          \* sizes that callers ask for
  LastFitBuilds,     \* values of MEM_LAST_FIT the kernel is built with
  MaxOverlap         \* bound on the calls made while a free() is interrupted

End == Start + SegSize
FirstHead == Start + HeadRoom - HeaderSize

ASSUME HeapAssumption ==
  /\ KernelThreads \subseteq Thread
  /\ Start \in Nat \ {0} /\ SegSize \in Nat
  /\ Word \in Nat \ {0} /\ 2 * SegSize <= Word   \* chunk sizes fit in their 31 bits
  /\ HeadRoom \in Nat /\ HeadRoom < SegSize
  /\ HeaderSize \in 1..HeadRoom
  /\ SAFETY_BUFFER \in Nat /\ SAFETY_CHAR \in Nat /\ MINIMUM_PAYLOAD \in Nat
  /\ ALIGN_VAL \in Nat \ {0}
  /\ (Start + HeadRoom) % ALIGN_VAL = 0
  /\ Requests \subseteq 0..(Word - 1)
  /\ LastFitBuilds \subseteq BOOLEAN
  /\ None \notin Nat
  /\ MaxOverlap \in Nat

\* No caller asks for so much that adding SAFETY_BUFFER wraps around.
RequestsFit == \A n \in Requests : n + SAFETY_BUFFER < Word

VARIABLES
  lastFit,           \* MEM_LAST_FIT of this kernel; never changes
  chunk,             \* the header at each address that has one
  usedBytes, overheadBytes, lastAllocated, firstFreed,
  pc,                \* how far each thread is in free()
  freeing,           \* the chunk of that call
  tmp,               \* the result of usedBytes - chunk->size, before its store
  overlap            \* number of calls made while another thread was inside free()

segment == <<chunk, usedBytes, overheadBytes, lastAllocated, firstFreed>>
vars == <<lastFit, segment, pc, freeing, tmp, overlap>>

Heads == DOMAIN chunk
FREE == 0
OCCUPIED == 1
Null == 0           \* no next or previous chunk
NoFreed == End      \* firstFreed = -1, above every address

TypeOK ==
  /\ lastFit \in LastFitBuilds
  /\ Heads \subseteq Start..End
  /\ chunk \in [Heads -> [prev : Nat, next : Nat, state : {FREE, OCCUPIED}, size : Nat]]
  /\ usedBytes \in 0..(Word - 1)
  /\ overheadBytes \in Nat
  /\ lastAllocated \in Heads
  /\ firstFreed \in Heads \cup {NoFreed}
  /\ pc \in [Thread -> {"idle", "last", "reset", "first", "lower", "mark", "load", "store"}]
  /\ freeing \in [Thread -> Heads \cup {None}]
  /\ tmp \in [Thread -> 0..(Word - 1)]
  /\ overlap \in [{"alloc", "free"} -> Nat]

\* The segment after the initialisation that the first call of alloc() does.
Init ==
  /\ lastFit \in LastFitBuilds
  /\ chunk = [a \in {FirstHead} |->
                [prev |-> Null, next |-> Null, state |-> FREE, size |-> SegSize - HeadRoom]]
  /\ usedBytes = 0
  /\ overheadBytes = 0
  /\ lastAllocated = FirstHead
  /\ firstFreed = NoFreed
  /\ pc = [t \in Thread |-> "idle"]
  /\ freeing = [t \in Thread |-> None]
  /\ tmp = [t \in Thread |-> 0]
  /\ overlap = [call \in {"alloc", "free"} |-> 0]

\* A system call runs with interrupts disabled: no other thread runs in it.
OnCPU(t) == \A u \in Thread \ (KernelThreads \cup {t}) : pc[u] = "idle"

Freeing == {t \in Thread : pc[t] # "idle"}

\* A call by a thread that is not inside free() itself, while others may be.
Overlaps(call) ==
  IF Freeing = {} THEN UNCHANGED overlap
  ELSE /\ overlap["alloc"] + overlap["free"] < MaxOverlap
       /\ overlap' = [overlap EXCEPT ![call] = @ + 1]

-----------------------------------------------------------------------------
alignFloor(a, n) == a - (a % n)
alignCeil(a, n) == alignFloor(a + (n - 1), n)

payload(c) == c + HeaderSize
endPtr(c) == payload(c) + chunk[c].size

\* Mutation of LookupStart: the search starts at the last chunk handed out.
LookupStartLast == IF lastFit THEN lastAllocated ELSE FirstHead

LookupStart ==
  IF ~lastFit THEN FirstHead
  ELSE IF firstFreed < lastAllocated THEN firstFreed ELSE lastAllocated

\* The chunks that getFittingChunk(size) accepts.  It follows next_chunk, which
\* leads through the chunks in address order, and takes the first of them.
Fitting(size) ==
  {c \in Heads : LookupStart <= c /\ chunk[c].state = FREE /\ chunk[c].size >= size}

\* Where split() puts the payload of the chunk that takes the rest of c.
nextPayload(c, size) == alignCeil(payload(c) + size + HeaderSize, ALIGN_VAL)

\* Mutation of Splits: the rest need not hold a header and a payload.
SplitsAlways(c, size) == TRUE

Splits(c, size) ==
  endPtr(c) - nextPayload(c, size) > MINIMUM_PAYLOAD + HeaderSize

\* Mutation of SplitChunk: the chunk behind keeps its link to the old neighbour.
SplitChunkOneWay(c, size) ==
  LET n == nextPayload(c, size) - HeaderSize
  IN  [a \in Heads \cup {n} |->
         IF a = c THEN [chunk[c] EXCEPT !.next = n, !.state = OCCUPIED,
                                        !.size = n - payload(c)]
         ELSE IF a = n THEN [prev |-> c, next |-> chunk[c].next, state |-> FREE,
                             size |-> endPtr(c) - payload(n)]
         ELSE chunk[a]]

\* split(): the headers after c has been divided ...
SplitChunk(c, size) ==
  LET n == nextPayload(c, size) - HeaderSize
  IN  [a \in Heads \cup {n} |->
         IF a = c THEN [chunk[c] EXCEPT !.next = n, !.state = OCCUPIED,
                                        !.size = n - payload(c)]
         ELSE IF a = n THEN [prev |-> c, next |-> chunk[c].next, state |-> FREE,
                             size |-> endPtr(c) - payload(n)]
         ELSE IF a = chunk[c].next THEN [chunk[a] EXCEPT !.prev = n]
         ELSE chunk[a]]

\* ... or has been handed out whole.
TakeWhole(c) == [chunk EXCEPT ![c].state = OCCUPIED]

\* Mutation of Padded: one byte more than SAFETY_BUFFER.
PaddedMore(n) == (n + SAFETY_BUFFER + 1) % Word

\* "put some buffer between to avoid erroneous program access", in a size_t.
Padded(n) == (n + SAFETY_BUFFER) % Word

\* The words of SAFETY_CHAR are written from SAFETY_BUFFER bytes before the end
\* of the padded size on.  If the sum has wrapped, that is before the payload:
\* the header of the chunk, which counts here as a whole, is overwritten.
WriteGuard(headers, c, size) ==
  IF size >= SAFETY_BUFFER THEN headers
  ELSE [headers EXCEPT ![c] = [prev |-> SAFETY_CHAR, next |-> SAFETY_CHAR,
                               state |-> SAFETY_CHAR % 2, size |-> SAFETY_CHAR \div 2]]

\* alloc(n) by t; without a fitting chunk it returns 0 and changes nothing.
\* Everything up to the memset of the block is one critical section.
Alloc(t, n) ==
  /\ pc[t] = "idle" /\ OnCPU(t)
  /\ LET size == Padded(n)
         c == Min(Fitting(size))
         split == Splits(c, size)
         headers == IF split THEN SplitChunk(c, size) ELSE TakeWhole(c)
     IN  /\ Fitting(size) # {}
         /\ chunk' = WriteGuard(headers, c, size)
         /\ usedBytes' = (usedBytes + headers[c].size) % Word
         /\ overheadBytes' = overheadBytes + (IF split THEN HeaderSize ELSE 0)
         /\ lastAllocated' = c
  /\ Overlaps("alloc")
  /\ UNCHANGED <<lastFit, firstFreed, pc, freeing, tmp>>

-----------------------------------------------------------------------------
Goto(t, label) == pc' = [pc EXCEPT ![t] = label]
At(t, label) == pc[t] = label /\ OnCPU(t)

\* free() of a block in use, up to and including isValidChunkAddress(), which
\* walks through the list; what alloc() does meanwhile only adds chunks to it.
\* An address that is not that of a chunk is rejected there, without effect.
\* The state of the chunk is not tested: that a block is freed once, by the
\* caller who owns it, is the callers' part of the contract.
FreeBegin(t, c) ==
  /\ At(t, "idle")
  /\ chunk[c].state = OCCUPIED
  /\ \A u \in Thread : freeing[u] = c => pc[u] \in {"idle", "load", "store"}
  /\ Goto(t, IF lastFit THEN "last" ELSE "mark")
  /\ freeing' = [freeing EXCEPT ![t] = c]
  /\ Overlaps("free")
  /\ UNCHANGED <<lastFit, segment, tmp>>

\* "freed chunk was the last one allocated.. reset lookup to start"
TestLast(t) ==
  /\ At(t, "last")
  /\ Goto(t, IF freeing[t] = lastAllocated THEN "reset" ELSE "first")
  /\ UNCHANGED <<lastFit, segment, freeing, tmp, overlap>>

ResetLast(t) ==
  /\ At(t, "reset")
  /\ Goto(t, "first")
  /\ lastAllocated' = FirstHead
  /\ UNCHANGED <<lastFit, chunk, usedBytes, overheadBytes, firstFreed, freeing, tmp, overlap>>

TestFirst(t) ==
  /\ At(t, "first")
  /\ Goto(t, IF freeing[t] < firstFreed THEN "lower" ELSE "mark")
  /\ UNCHANGED <<lastFit, segment, freeing, tmp, overlap>>

LowerFirst(t) ==
  /\ At(t, "lower")
  /\ Goto(t, "mark")
  /\ firstFreed' = freeing[t]
  /\ UNCHANGED <<lastFit, chunk, usedBytes, overheadBytes, lastAllocated, freeing, tmp, overlap>>

\* merge(): the chunk is free from here on ...
MarkFree(t) ==
  /\ At(t, "mark")
  /\ Goto(t, "load")
  /\ chunk' = [chunk EXCEPT ![freeing[t]].state = FREE]
  /\ UNCHANGED <<lastFit, usedBytes, overheadBytes, lastAllocated, firstFreed, freeing,
                 tmp, overlap>>

\* ... while the statistics are still to be read ...
LoadUsed(t) ==
  /\ At(t, "load")
  /\ Goto(t, "store")
  /\ tmp' = [tmp EXCEPT ![t] = (usedBytes - chunk[freeing[t]].size) % Word]
  /\ UNCHANGED <<lastFit, segment, freeing, overlap>>

\* Mutation of StoreUsed: the size of the chunk is not taken off.
StoreUsedNot(t) ==
  /\ At(t, "store")
  /\ Goto(t, "idle")
  /\ freeing' = [freeing EXCEPT ![t] = None]
  /\ tmp' = [tmp EXCEPT ![t] = 0]
  /\ UNCHANGED <<lastFit, segment, overlap>>

\* ... and written back.
StoreUsed(t) ==
  /\ At(t, "store")
  /\ Goto(t, "idle")
  /\ usedBytes' = tmp[t]
  /\ freeing' = [freeing EXCEPT ![t] = None]
  /\ tmp' = [tmp EXCEPT ![t] = 0]
  /\ UNCHANGED <<lastFit, chunk, overheadBytes, lastAllocated, firstFreed, overlap>>

Next ==
  \E t \in Thread :
    \/ \E n \in Requests : Alloc(t, n)
    \/ \E c \in Heads : FreeBegin(t, c)
    \/ TestLast(t) \/ ResetLast(t) \/ TestFirst(t) \/ LowerFirst(t)
    \/ MarkFree(t) \/ LoadUsed(t) \/ StoreUsed(t)

Spec == Init /\ [][Next]_vars

-----------------------------------------------------------------------------
\* What debug() would report as "chunk link error", "chunk size wrong" and "last
\* chunk has wrong size" never happens, however alloc() and the unlocked free()
\* interleave: the chunks tile the segment and are linked both ways, and every
\* payload is aligned, as ASSERT(!(((addr) & (align_val - 1)) != 0)) has it.
Linked ==
  /\ FirstHead \in Heads /\ chunk[FirstHead].prev = Null
  /\ \A c \in Heads :
       IF chunk[c].next = Null THEN endPtr(c) = End
       ELSE /\ chunk[c].next \in Heads
            /\ endPtr(c) = chunk[c].next
            /\ chunk[chunk[c].next].prev = c
  /\ \A c, d \in Heads : c < d => endPtr(c) <= d
Aligned == \A c \in Heads : payload(c) % ALIGN_VAL = 0
Tiling == Linked /\ Aligned

\* A block is the payload without the SAFETY_BUFFER, which together with the
\* next header keeps blocks apart.
blocks == [a \in {payload(c) : c \in {d \in Heads : chunk[d].state = OCCUPIED}} |->
             chunk[a - HeaderSize].size - SAFETY_BUFFER]
Promise == INSTANCE Allocator WITH Low <- Start, High <- End,
                                   Gap <- SAFETY_BUFFER + HeaderSize

\* No block is handed out twice, beyond its chunk or shorter than asked for,
\* however an unlocked free() is interrupted: the manager implements module
\* Allocator, for requests that do not wrap, up to the largest of them.
ImplementsAllocator == Promise!Spec

\* "used mem %d != calculated %d" of getUsedMemSize() is not reported as long
\* as no two threads were inside the manager at once: the statistics agree
\* with the chunks, less what free() has still to take off.
Occupied == {c \in Heads : chunk[c].state = OCCUPIED}
MarkedFree == {t \in Thread : pc[t] \in {"load", "store"}}
UsedBytesExact ==
  overlap["alloc"] + overlap["free"] = 0 =>
    /\ usedBytes = MapThenSumSet(LAMBDA c : chunk[c].size, Occupied)
                     + MapThenSumSet(LAMBDA t : chunk[freeing[t]].size, MarkedFree)
    /\ overheadBytes = HeaderSize * (Cardinality(Heads) - 1)

\* "slower, however ensures we are not endlessly appending and creating holes
\* that can not be filled afterwards": alloc() reports "No more free memory"
\* only if no free chunk is large enough, wherever the search starts, unless
\* two calls of free() have raced on firstFreed.
NoFitMissed ==
  overlap["free"] = 0 =>
    \A n \in Requests :
      Fitting(Padded(n)) = {} =>
        \A c \in Heads : chunk[c].state = FREE => chunk[c].size < n + SAFETY_BUFFER
=============================================================================
