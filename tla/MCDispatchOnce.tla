--------------------------- MODULE MCDispatchOnce ---------------------------
(***************************************************************************)
(* Instances of DispatchOnce for TLC: a winner, two waiters whose records  *)
(* are linked, and a thread that comes late.                               *)
(***************************************************************************)
EXTENDS DispatchOnce

CONSTANTS t1, t2, t3, t4
=============================================================================
