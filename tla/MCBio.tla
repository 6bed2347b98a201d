------------------------------- MODULE MCBio -------------------------------
(* Instances of Bio for TLC. *)
EXTENDS Bio, TLC

Symmetry == Permutations(Proc) \cup Permutations(Block)
=============================================================================
