------------------------ MODULE MCIncrementalRefresh ------------------------
(* Small instances of IncrementalRefresh.                                      *)
EXTENDS IncrementalRefresh, TLC

Symmetry == Permutations(Keys) \cup Permutations(Sqls)

\* Every strategy and watermark with the given holder and events.
With(holder, events) ==
  [events : {events}, holder : {holder},
   strategy : {"merge", "range_replace"}, watermark : {"time", "number"}]

SoundRegimes ==
  With("local", {"edit", "emptied", "fault", "crash"})
    \cup With("local", {"emptied", "fault", "ledgerFault", "crash"})
    \cup With("caller", {"edit", "undeclare", "emptied", "fault", "crash"})

Undeclared == With("local", {"edit", "undeclare"})
=============================================================================
