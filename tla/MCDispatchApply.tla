--------------------------- MODULE MCDispatchApply ---------------------------
(***************************************************************************)
(* Instances of DispatchApply for TLC: a serial queue on a concurrent one  *)
(* on a narrower one, both with room for the readers of the instance, and  *)
(* two calls at once on queues that are too narrow for them: there, with a *)
(* drain as well, a reservation can take back more than it added.          *)
(***************************************************************************)
EXTENDS DispatchApply

CONSTANTS c1, c2

SerialOnWideOnNarrow == <<1, 10, 8>>
WideOnNarrow == <<6, 4>>
=============================================================================
