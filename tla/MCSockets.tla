----------------------------- MODULE MCSockets -----------------------------
(* A small instance of the Sockets specification for TLC.                  *)
EXTENDS Sockets

CONSTANTS t1, t2
=============================================================================
