-------------------------- MODULE MCFutexSemaphore --------------------------
(***************************************************************************)
(* Instances of FutexSemaphore for TLC: two waiters and a signaller.       *)
(***************************************************************************)
EXTENDS FutexSemaphore

CONSTANTS t1, t2, t3
=============================================================================
