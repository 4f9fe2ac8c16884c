-------------------------- MODULE MCMethodRegistry --------------------------
(* Instances of MethodRegistry for TLC.                                     *)
EXTENDS MethodRegistry, TLC

Symmetry == Permutations(Workers) \cup Permutations(Keys)
=============================================================================
