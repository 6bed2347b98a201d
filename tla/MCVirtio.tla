----------------------------- MODULE MCVirtio -----------------------------
(* Instances of Virtio for TLC. *)
EXTENDS Virtio, TLC

Symmetry == Permutations(Proc \ Killable) \cup Permutations(Block)
============================================================================
