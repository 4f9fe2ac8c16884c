---------------------------- MODULE MCCpuSession ----------------------------
(* Instances of CpuSession for TLC: the JVMs are interchangeable where only *)
(* safety is checked.                                                       *)
EXTENDS CpuSession, TLC

Symmetry == Permutations(Jvms)
=============================================================================
