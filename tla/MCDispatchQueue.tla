-------------------------- MODULE MCDispatchQueue --------------------------
(* Instances of DispatchQueue for TLC. *)
EXTENDS DispatchQueue, TLC

CONSTANTS c1, c2, c3, w1, w2, b1, b2, b3

Symmetry == Permutations(Clients) \cup Permutations(Workers) \cup Permutations(Blocks)
=============================================================================
