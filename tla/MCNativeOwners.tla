--------------------------- MODULE MCNativeOwners ---------------------------
(* One thread per owner; owners are interchangeable, and so are removals. *)
EXTENDS NativeOwners, TLC

OneThread == <<"t">>

Symmetry == Permutations(Owners) \union Permutations(Removals)
=============================================================================
