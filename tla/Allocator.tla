----------------------------- MODULE Allocator -----------------------------
(***************************************************************************)
(* What a memory manager promises its callers: every block that is handed  *)
(* out lies in the segment, is as long as the caller asked for, and keeps  *)
(* a distance from every other block that is in use, until it is freed.    *)
(***************************************************************************)
EXTENDS Integers

CONSTANTS
  Low, High,   \* the segment is Low .. High - 1
  Gap,         \* least number of bytes between two blocks
  Requests     \* the sizes that are asked for

VARIABLE blocks   \* length of each block in use, by its address

Init == blocks = [a \in {} |-> 0]

Apart(a, m, b, n) == a + m + Gap <= b \/ b + n + Gap <= a

Alloc(n) ==
  \E a \in Low..(High - 1) :
    /\ DOMAIN blocks' = DOMAIN blocks \cup {a}
    /\ \E len \in n..(High - a) :
         /\ \A b \in DOMAIN blocks : Apart(a, len, b, blocks[b])
         /\ blocks' = [b \in DOMAIN blocks \cup {a} |->
                         IF b = a THEN len ELSE blocks[b]]

Free(a) == blocks' = [b \in DOMAIN blocks \ {a} |-> blocks[b]]

Next ==
  \/ \E n \in Requests : Alloc(n)
  \/ \E a \in DOMAIN blocks : Free(a)

Spec == Init /\ [][Next]_blocks
=============================================================================
