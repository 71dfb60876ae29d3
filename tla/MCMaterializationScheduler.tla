---------------------- MODULE MCMaterializationScheduler ----------------------
(* Schedules are periods: every unit of time, or every second one.               *)
EXTENDS MaterializationScheduler, TLC

Periodic(period, t) == period * (t \div period + 1)

Symmetry == Permutations(Ticks)
=============================================================================
