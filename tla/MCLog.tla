------------------------------ MODULE MCLog ------------------------------
(* Instances of Log for TLC. *)
EXTENDS Log, TLC

(* Processes and blocks are interchangeable in every action. *)
Symmetry == Permutations(Proc) \cup Permutations(Block)
============================================================================
