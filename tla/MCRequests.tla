---------------------------- MODULE MCRequests ----------------------------
(* Instances of Requests for TLC. *)
EXTENDS Requests, TLC

(* Requests and accounts are interchangeable. *)
Symmetry == Permutations(Accounts) \union Permutations(Keys)
=============================================================================
