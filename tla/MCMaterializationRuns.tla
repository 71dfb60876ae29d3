----------------------- MODULE MCMaterializationRuns -----------------------
(* Small instances of MaterializationRuns.                                    *)
EXTENDS MaterializationRuns, TLC

Symmetry ==
  Permutations(Runs) \cup Permutations(Packages)
    \cup Permutations(Sources) \cup Permutations(Clients)
=============================================================================
