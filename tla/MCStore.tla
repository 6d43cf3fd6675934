------------------------------ MODULE MCStore ------------------------------
(* One account with one grant and two interchangeable rotation ids. *)
EXTENDS Store, TLC

Symmetry == Permutations(Operations)
=============================================================================
