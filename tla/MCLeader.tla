------------------------------ MODULE MCLeader ------------------------------
(* Two replicas, interchangeable.                                          *)
EXTENDS Leader, TLC

MCSymmetry == Permutations(Replicas)
=============================================================================
