-------------------------- MODULE MCEnvironmentStore --------------------------
(* Two destinations: one that is kept while the other comes and goes.           *)
EXTENDS EnvironmentStore, TLC

Symmetric == Permutations(Dests)
=============================================================================
