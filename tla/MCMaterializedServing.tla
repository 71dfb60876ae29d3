------------------------ MODULE MCMaterializedServing ------------------------
(* Small instances of MaterializedServing.                                     *)
EXTENDS MaterializedServing, TLC

Symmetry == Permutations(Sources) \cup Permutations(Addresses)

Regime(events, runs) == [events |-> events, runs |-> runs]

\* A third run carries forward what a deletion has spared; two are enough for
\* everything that goes wrong around one run.
AllRegimes ==
  {Regime({"buildFault", "deleteSuperseded"}, 3),
   Regime({"deleteSuperseded"}, 3),
   Regime({"cancel", "crash", "deleteSuperseded", "deleteNewest"}, 2),
   Regime({"cancel", "crash", "buildFault", "swapFault", "cleanupFault",
           "deleteSuperseded", "deleteNewest", "deleteRacing"}, 2),
   Regime({"cancel", "buildFault", "swapFault", "loadFault", "host",
           "deleteSuperseded"}, 2)}

FailedBuild == {Regime({"buildFault"}, 2)}
StoppedRun == {Regime({"cancel"}, 2)}
=============================================================================
