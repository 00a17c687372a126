------------------------ MODULE MCDispatchSemaphore ------------------------
(***************************************************************************)
(* Instances of DispatchSemaphore for TLC: three threads are enough for a  *)
(* signaller, a waiter and a third that takes what was meant for it.       *)
(***************************************************************************)
EXTENDS DispatchSemaphore

CONSTANTS t1, t2, t3
=============================================================================
