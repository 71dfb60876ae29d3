------------------------ MODULE MCEnvironmentPackages ------------------------
(* Small instances of EnvironmentPackages.                                     *)
EXTENDS EnvironmentPackages, TLC

Symmetry == Permutations(Clients)
=============================================================================
