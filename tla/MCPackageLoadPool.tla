-------------------------- MODULE MCPackageLoadPool --------------------------
(* Small instances of PackageLoadPool.                                         *)
EXTENDS PackageLoadPool, TLC

Symmetry == Permutations(Jobs)
=============================================================================
