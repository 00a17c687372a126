------------------------------ MODULE MCRunLoop ------------------------------
(***************************************************************************)
(* Instances of RunLoop for TLC.                                           *)
(***************************************************************************)
EXTENDS RunLoop

CONSTANTS c1, s1, base, panel
=============================================================================
