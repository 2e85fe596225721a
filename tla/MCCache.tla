------------------------------ MODULE MCCache ------------------------------
(***************************************************************************)
(* Symmetry of the instances of Cache.                                     *)
(***************************************************************************)
EXTENDS Cache, TLC

ThreadSymmetry == Permutations(Thread)
=============================================================================
