---------------------------- MODULE MCResources ----------------------------
(* A small instance of the Resources specification for TLC.                *)
EXTENDS Resources

CONSTANTS A, B, a1, a2, b1, part, file

Owner == [t \in Thread |-> IF t = b1 THEN B ELSE A]
=============================================================================
