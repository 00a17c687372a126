-------------------------- MODULE MCDispatchSource --------------------------
(***************************************************************************)
(* Instances of DispatchSource for TLC: two clients, the manager thread    *)
(* and one thread of the target queue.                                    *)
(***************************************************************************)
EXTENDS DispatchSource

CONSTANTS c1, c2, w1, m
=============================================================================
