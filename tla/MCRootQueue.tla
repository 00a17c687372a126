---------------------------- MODULE MCRootQueue ----------------------------
(***************************************************************************)
(* Instances of RootQueue for TLC.                                         *)
(***************************************************************************)
EXTENDS RootQueue

CONSTANTS p1, p2, w1, w2, w3
=============================================================================
