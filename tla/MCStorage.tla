------------------------------ MODULE MCStorage ------------------------------
(* An instance of Storage for TLC: more keys than slots, so that the store
   can be full of live items as well as of removed ones. *)
EXTENDS Storage, TLC

CONSTANTS k1, k2, k3, k4, v1, v2

Keys   == {k1, k2, k3, k4}
Values == {v1, v2}
(* One pair is too long for a slot. *)
Pairs  == (Keys \X Values) \ {<<k4, v2>>}

Symmetry == Permutations({k1, k2, k3})
=============================================================================
