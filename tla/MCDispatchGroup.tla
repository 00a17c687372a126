-------------------------- MODULE MCDispatchGroup --------------------------
(***************************************************************************)
(* Instances of DispatchGroup for TLC: a thread that wakes, one that waits *)
(* and one that notifies, with two blocks so that one links to the other.  *)
(***************************************************************************)
EXTENDS DispatchGroup

CONSTANTS t1, t2, t3, n1, n2
=============================================================================
