----------------------------- MODULE MCWatchMode -----------------------------
(* Two environments, two starts and one stop that overlap, and edits in quick     *)
(* succession.                                                                    *)
EXTENDS WatchMode, TLC

Symmetric == Permutations(Starters) \cup Permutations(Envs)
=============================================================================
