---------------------- MODULE IncrementalRefreshProofs ----------------------
(* Proofs about IncrementalRefresh for any lineages, rows and length of time:  *)
(* where each rebuild by another lineage takes away the boundary, the ledger   *)
(* never leads the table, a refresh is as good as a rebuild, and no key is in  *)
(* the table twice.                                                            *)
EXTENDS IncrementalRefresh, TLAPS

-----------------------------------------------------------------------------
(* Types *)

\* A delta ends at a value of the watermark.
Typed == TypeOK /\ (phase = "delta" => to \in Times)

LEMMA SnapshotType ==
  ASSUME NEW sql
  PROVE  Snapshot(sql) \in [Row -> Nat]
BY DEF Snapshot

LEMMA WorldTypes == Typed /\ World => Typed'
<1> SUFFICES ASSUME Typed, World PROVE Typed'
  OBVIOUS
<1> USE MaxTimeAssumption DEF Typed, TypeOK, Times, runVars, planVars, dataVars
<1>1. CASE Tick
  BY <1>1 DEF Tick
<1>2. ASSUME NEW k \in Keys, NEW t \in Times, Arrive(k, t) PROVE Typed'
  BY <1>2 DEF Arrive
<1>3. ASSUME NEW sql \in Sqls, Edit(sql) PROVE Typed'
  BY <1>3 DEF Edit
<1>4. CASE Emptied
  BY <1>4 DEF Emptied, Empty
<1> QED
  BY <1>1, <1>2, <1>3, <1>4 DEF World

LEMMA RefreshTypes == Typed /\ Refresh => Typed'
<1> SUFFICES ASSUME Typed, Refresh PROVE Typed'
  OBVIOUS
<1> USE MaxTimeAssumption DEF Typed, TypeOK, Times, runVars, planVars, dataVars
<1>1. ASSUME NEW declares \in BOOLEAN, NEW reseed \in BOOLEAN, StartRun(declares, reseed)
      PROVE  Typed'
  <2>1. phase' \in {"ctas", "reset", "plan"}
    BY <1>1 DEF StartRun
  <2>2. ledger' \in {None, ledger}
    BY <1>1 DEF StartRun
  <2>3. declared' \in BOOLEAN
    BY <1>1 DEF StartRun
  <2> QED
    BY <1>1, <2>1, <2>2, <2>3 DEF StartRun
<1>2. CASE PlanSeed \/ RunFails \/ ResetLedgerFails \/ ProbeSeedFails \/ AdvanceLedgerFails \/ Crash
  BY <1>2 DEF PlanSeed, RunFails, ResetLedgerFails, ProbeSeedFails, AdvanceLedgerFails, Crash
<1>3. CASE PlanSkip
  BY <1>3 DEF PlanSkip
<1>4. CASE PlanDelta
  <2>1. ledger \in Boundary
    BY <1>4 DEF PlanDelta, CanAdvance
  <2>2. from' \in 0 .. MaxTime /\ to' \in 0 .. MaxTime
    BY <1>4, <2>1 DEF PlanDelta, Boundary
  <2> QED
    BY <1>4, <2>2 DEF PlanDelta
<1>5. CASE ApplyDelta
  <2>1. \A r \in Row : WithDelta(r) \in Nat
    BY DEF WithDelta
  <2>2. table' \in [Row -> Nat]
    BY <1>5, <2>1 DEF ApplyDelta
  <2>3. reported' \in Boundary
    BY <1>5 DEF ApplyDelta, Boundary
  <2> QED
    BY <1>5, <2>2, <2>3 DEF ApplyDelta
<1>6. CASE ResetLedger \/ AdvanceLedger \/ EndRun
  BY <1>6 DEF ResetLedger, AdvanceLedger, EndRun
<1>7. CASE Ctas
  BY <1>7, SnapshotType DEF Ctas
<1>8. CASE SwapDrop \/ RebuildFails
  BY <1>8 DEF SwapDrop, RebuildFails, Empty
<1>9. CASE SwapRename
  <2>1. phase' \in {"probe", "done"}
    BY <1>9 DEF SwapRename
  <2> QED
    BY <1>9, <2>1 DEF SwapRename, Empty
<1>10. CASE ProbeSeed
  <2>1. PICK t \in 0 .. MaxTime :
          /\ IsMaxWatermark(t)
          /\ reported' = IF t = 0 THEN None
                         ELSE [sql |-> built, through |-> IF Timed THEN now ELSE t]
          /\ phase' = IF t = 0 THEN "done" ELSE "advance"
    BY <1>10 DEF ProbeSeed
  <2>2. t # 0 => (IF Timed THEN now ELSE t) \in Times
    OBVIOUS
  <2>3. reported' \in Boundary \cup {None}
    BY <2>1, <2>2 DEF Boundary
  <2> QED
    BY <1>10, <2>1, <2>3 DEF ProbeSeed
<1> QED
  BY <1>1, <1>2, <1>3, <1>4, <1>5, <1>6, <1>7, <1>8, <1>9, <1>10 DEF Refresh

LEMMA TypeStep == Typed /\ [Next]_vars => Typed'
<1> SUFFICES ASSUME Typed, [Next]_vars PROVE Typed'
  OBVIOUS
<1>1. CASE UNCHANGED vars
  BY <1>1 DEF Typed, TypeOK, vars, dataVars, runVars, planVars
<1> QED
  BY <1>1, WorldTypes, RefreshTypes DEF Next

-----------------------------------------------------------------------------
(* The inductive invariant *)

\* No row of the data arrives below t any more.
Reached(t) == IF Timed THEN t <= clock ELSE \E k \in Keys : source[k] >= t

\* The rows of t are those the run's lineage computes, and none below b is missing.
OfBuilt(t) == \A r \in Row : t[r] > 0 => r.sql = built
Covers(t, b) == \A r \in Row : r.sql = built /\ Computes(r) /\ r.at < b => t[r] > 0

\* Whatever boundary a seed of t is given, t is complete below it.
Seeds(t) ==
  /\ OfBuilt(t)
  /\ Timed => Covers(t, now)
  /\ ~Timed => \A r \in Row : t[r] > 0 => Covers(t, r.at)

Unique(t) ==
  /\ \A r \in Row : t[r] <= 1
  /\ \A r, q \in Row : t[r] > 0 /\ t[q] > 0 /\ r.key = q.key => r = q

Vouched(b) ==
  b # None /\ table # Empty =>
    /\ \A r \in Row : table[r] > 0 => r.sql = b.sql
    /\ \A r \in Row : r.sql = b.sql /\ Computes(r) /\ r.at < b.through => table[r] > 0

\* Boundaries are of the past, and so are the rows of a table under a numbered
\* watermark, which become one.
PastInv ==
  /\ now <= clock
  /\ ledger # None => Reached(ledger.through)
  /\ reported # None => Reached(reported.through)
  /\ ~Timed => \A r \in Row : table[r] > 0 \/ staging[r] > 0 => Reached(r.at)

\* A boundary that a rebuild leaves in place is of the lineage it builds.
LineageInv ==
  /\ ~May("edit") => built = code /\ (ledger # None => ledger.sql = code)
  /\ /\ phase \notin {"idle", "plan", "reset"} \/ (CallerHolds /\ phase # "idle")
     /\ ledger # None
     => ledger.sql = built

\* A delta adds to the table the boundary is about.
DeltaInv ==
  phase = "delta" =>
    /\ ledger # None /\ table # Empty
    /\ from = ledger.through
    /\ Reached(to)
    /\ Timed => to = now

\* A staging table, and the table after the swap, are complete.
StagedInv ==
  phase \in {"staged", "swap"} =>
    Seeds(staging) /\ (ledger # None => Covers(staging, ledger.through))
ProbeInv == phase = "probe" => Seeds(table)

\* What a run reports holds of the table, before the ledger has it.
ReportInv ==
  /\ phase \in {"plan", "delta", "reset", "ctas", "staged", "swap", "probe"} => reported = None
  /\ phase \in {"advance", "done"} =>
       /\ Vouched(reported)
       /\ reported # None => reported.sql = built
       /\ Timed => Covers(table, now)

\* Without merge keys a row of the data is never restated.
UniqueInv ==
  /\ Unique(table) /\ Unique(staging)
  /\ regime.strategy # "merge" =>
       \A r \in Row : table[r] > 0 \/ staging[r] > 0 => Computes(r)

Strong ==
  /\ PastInv /\ LineageInv /\ DeltaInv /\ StagedInv /\ ProbeInv /\ ReportInv /\ UniqueInv
  /\ Vouched(ledger)

\* What a sound regime rules out.
LEMMA SoundRules ==
  Sound => /\ May("undeclare") => CallerHolds
           /\ May("ledgerFault") \/ May("keepEntry") => ~May("edit")
BY DEF Sound

-----------------------------------------------------------------------------
(* The world *)

\* Time passes and rows arrive, all above what has been reached.
LEMMA WorldMoves ==
  ASSUME Typed, Tick \/ \E k \in Keys, t \in Times : Arrive(k, t),
         NEW b \in 0 .. MaxTime, Reached(b)
  PROVE  Reached(b)' /\ \A r \in Row : Computes(r)' /\ r.at < b => Computes(r)
<1> USE DEF Typed, TypeOK, Times
<1>1. CASE Tick
  BY <1>1, MaxTimeAssumption DEF Tick, Reached, Timed, Computes
<1>2. ASSUME NEW k \in Keys, NEW t \in Times, Arrive(k, t)
      PROVE  Reached(b)' /\ \A r \in Row : Computes(r)' /\ r.at < b => Computes(r)
  <2>1. /\ source' = [source EXCEPT ![k] = t] /\ UNCHANGED <<regime, clock>>
        /\ IF Timed THEN t >= clock ELSE \A q \in Keys : source[q] <= t
    BY <1>2 DEF Arrive
  <2>2. b <= t
    BY <2>1, MaxTimeAssumption DEF Reached
  <2>3. Reached(b)'
    BY <2>1, <2>2, MaxTimeAssumption DEF Reached, Timed
  <2>4. ASSUME NEW r \in Row, Computes(r)', r.at < b PROVE Computes(r)
    <3>1. r.key \in Keys /\ r.at \in Times
      BY DEF Row
    <3>2. r.key # k
      BY <2>1, <2>2, <2>4, <3>1, MaxTimeAssumption DEF Computes
    <3> QED
      BY <2>1, <2>4, <3>1, <3>2 DEF Computes
  <2> QED
    BY <2>3, <2>4
<1> QED
  BY <1>1, <1>2

LEMMA WorldStep ==
  ASSUME Typed, Typed', Sound, Strong, World
  PROVE  Strong'
<1> USE DEF Strong
<1>1. CASE Tick \/ \E k \in Keys, t \in Times : Arrive(k, t)
  <2>1. /\ UNCHANGED <<regime, table, staging, ledger, code, phase, built, now, from, to, reported>>
        /\ clock <= clock'
    BY <1>1 DEF Tick, Arrive, runVars, planVars, Typed, TypeOK, Times
  <2>2. \A b \in 0 .. MaxTime : Reached(b) =>
          Reached(b)' /\ \A r \in Row : Computes(r)' /\ r.at < b => Computes(r)
    BY <1>1, WorldMoves
  <2>3. \A r \in Row : r.at \in 0 .. MaxTime
    BY DEF Row, Times
  <2>4. /\ now \in 0 .. MaxTime /\ to \in 0 .. MaxTime
        /\ ledger # None => ledger.through \in 0 .. MaxTime
        /\ reported # None => reported.through \in 0 .. MaxTime
    BY DEF Typed, TypeOK, Times, Boundary
  <2>5. (Timed' <=> Timed) /\ Empty' = Empty
    BY <2>1 DEF Timed, Empty
  <2>6. PastInv'
    <3>1. now' <= clock'
      BY <2>1 DEF PastInv, Typed, TypeOK, Times
    <3> QED
      BY <2>1, <2>2, <2>3, <2>4, <2>5, <3>1 DEF PastInv
  <2>7. LineageInv'
    BY <2>1 DEF LineageInv, May, CallerHolds
  <2>8. DeltaInv'
    BY <2>1, <2>2, <2>4, <2>5 DEF DeltaInv
  <2>9. Timed => Reached(now)
    BY DEF Reached, PastInv
  <2>10. StagedInv'
    <3>1. OfBuilt(staging)' = OfBuilt(staging)
      BY <2>1 DEF OfBuilt
    <3>2. ASSUME phase \in {"staged", "swap"}, Timed PROVE Covers(staging, now)'
      BY <2>1, <2>2, <2>4, <2>9, <3>2 DEF Covers, StagedInv, Seeds
    <3>3. ASSUME phase \in {"staged", "swap"}, ~Timed, NEW r \in Row, staging[r] > 0
          PROVE  Covers(staging, r.at)'
      BY <2>1, <2>2, <2>3, <3>3 DEF Covers, StagedInv, Seeds, PastInv
    <3>4. ASSUME phase \in {"staged", "swap"}, ledger # None PROVE Covers(staging, ledger.through)'
      BY <2>1, <2>2, <2>4, <3>4 DEF Covers, StagedInv, PastInv
    <3> QED
      BY <2>1, <2>5, <3>1, <3>2, <3>3, <3>4 DEF StagedInv, Seeds
  <2>11. ProbeInv'
    <3>1. OfBuilt(table)' = OfBuilt(table)
      BY <2>1 DEF OfBuilt
    <3>2. ASSUME phase = "probe", Timed PROVE Covers(table, now)'
      BY <2>1, <2>2, <2>4, <2>9, <3>2 DEF Covers, ProbeInv, Seeds
    <3>3. ASSUME phase = "probe", ~Timed, NEW r \in Row, table[r] > 0
          PROVE  Covers(table, r.at)'
      BY <2>1, <2>2, <2>3, <3>3 DEF Covers, ProbeInv, Seeds, PastInv
    <3> QED
      BY <2>1, <2>5, <3>1, <3>2, <3>3 DEF ProbeInv, Seeds
  <2>12. Vouched(ledger)'
    BY <2>1, <2>2, <2>4, <2>5 DEF Vouched, PastInv
  <2>13. ReportInv'
    <3>1. ASSUME phase \in {"advance", "done"}, Timed PROVE Covers(table, now)'
      BY <2>1, <2>2, <2>4, <2>9, <3>1 DEF Covers, ReportInv
    <3>2. ASSUME phase \in {"advance", "done"} PROVE Vouched(reported)'
      BY <2>1, <2>2, <2>4, <2>5, <3>2 DEF Vouched, PastInv, ReportInv
    <3> QED
      BY <2>1, <2>5, <3>1, <3>2 DEF ReportInv
  <2>14. UniqueInv'
    <3>1. ASSUME regime.strategy # "merge", NEW r \in Row, Computes(r) PROVE Computes(r)'
      BY <1>1, <3>1 DEF Tick, Arrive, Computes, Row, Times, Typed, TypeOK
    <3> QED
      BY <2>1, <3>1 DEF UniqueInv, Unique
  <2> QED
    BY <2>6, <2>7, <2>8, <2>10, <2>11, <2>12, <2>13, <2>14
<1>2. ASSUME NEW sql \in Sqls, Edit(sql) PROVE Strong'
  <2>1. /\ UNCHANGED <<regime, clock, source, table, staging, ledger, phase, built, now, from, to, reported>>
        /\ May("edit")
    BY <1>2 DEF Edit, runVars, planVars
  <2>2. LineageInv'
    BY <2>1 DEF LineageInv, May, CallerHolds
  <2> QED
    BY <2>1, <2>2
    DEF PastInv, DeltaInv, StagedInv, ProbeInv, ReportInv, UniqueInv, Reached, Timed, Seeds,
        OfBuilt, Covers, Unique, Vouched, Computes, Empty
<1>3. CASE Emptied
  <2>1. /\ UNCHANGED <<regime, clock, source, code, staging, ledger, phase, built, now, from, to, reported>>
        /\ phase = "idle" /\ table' = Empty
    BY <1>3 DEF Emptied, runVars, planVars, dataVars
  <2>2. \A r \in Row : table'[r] = 0
    BY <2>1 DEF Empty
  <2>3. PastInv'
    BY <2>1, <2>2 DEF PastInv, Reached, Timed
  <2>4. LineageInv'
    BY <2>1 DEF LineageInv, May, CallerHolds
  <2>5. UniqueInv'
    BY <2>1, <2>2 DEF UniqueInv, Unique, Computes
  <2>6. Vouched(ledger)'
    BY <2>1 DEF Vouched, Empty
  <2> QED
    BY <2>1, <2>3, <2>4, <2>5, <2>6 DEF DeltaInv, StagedInv, ProbeInv, ReportInv
<1> QED
  BY <1>1, <1>2, <1>3 DEF World

-----------------------------------------------------------------------------
(* The run *)

\* What a step of the run leaves alone.
Still == UNCHANGED <<regime, clock, source, code>>

LEMMA StillWorld ==
  ASSUME Still
  PROVE  /\ \A t : Reached(t)' <=> Reached(t)
         /\ \A r : Computes(r)' <=> Computes(r)
         /\ Timed' <=> Timed
         /\ CallerHolds' <=> CallerHolds
         /\ \A event : May(event)' <=> May(event)
         /\ Empty' = Empty
BY DEF Still, Reached, Computes, Timed, CallerHolds, May, Empty

\* A step that ends the run, or goes on to a phase that has nothing to show, and
\* writes no boundary and no table.
LEMMA QuietStep ==
  ASSUME Strong, Still, UNCHANGED <<table, ledger, built, now, reported>>,
         staging' = staging \/ staging' = Empty,
         \/ phase' = "idle"
         \/ phase = "plan" /\ phase' = "reset"
         \/ /\ phase = "reset" /\ phase' = "ctas"
            /\ ledger # None => ledger.sql = built
  PROVE  Strong'
<1> USE DEF Strong
<1>1. PastInv'
  BY DEF PastInv, Empty, Reached, Timed, Still
<1>2. LineageInv'
  BY StillWorld DEF LineageInv, Still
<1>3. ReportInv'
  BY DEF ReportInv
<1>4. UniqueInv'
  <2>1. Unique(staging)'
    BY DEF UniqueInv, Unique, Empty
  <2> QED
    BY <2>1, StillWorld DEF UniqueInv, Unique, Empty, Still
<1>5. Vouched(ledger)'
  BY StillWorld DEF Vouched
<1> QED
  BY <1>1, <1>2, <1>3, <1>4, <1>5 DEF DeltaInv, StagedInv, ProbeInv

LEMMA StartStep ==
  ASSUME Typed, Sound, Strong, NEW declares \in BOOLEAN, NEW reseed \in BOOLEAN,
         StartRun(declares, reseed)
  PROVE  Strong'
<1> USE DEF Strong
<1>1. /\ phase = "idle" /\ built' = code /\ now' = clock /\ reported' = None
      /\ UNCHANGED <<table, staging>> /\ Still /\ (ledger' = ledger \/ ledger' = None)
  BY DEF StartRun, dataVars, Still
<1>2. phase' \in {"ctas", "reset", "plan"} /\ (~CallerHolds => phase' # "ctas")
  BY SoundRules DEF StartRun
<1>3. CallerHolds /\ ledger' # None => ledger'.sql = code
  <2> SUFFICES ASSUME CallerHolds, ledger' # None PROVE ledger.sql = code
    BY <1>1
  <2>1. Accepted(declares, reseed)
    BY DEF StartRun
  <2>2. CASE May("keepEntry")
    BY <1>1, <2>2, SoundRules DEF LineageInv
  <2> QED
    BY <1>1, <2>1, <2>2 DEF Accepted
<1>4. PastInv'
  BY <1>1 DEF PastInv, Typed, TypeOK, Times, Reached, Timed, Still
<1>5. LineageInv'
  BY <1>1, <1>2, <1>3, StillWorld DEF LineageInv, Still
<1>6. UniqueInv'
  BY <1>1, StillWorld DEF UniqueInv, Unique, Still
<1>7. Vouched(ledger)'
  BY <1>1, StillWorld DEF Vouched
<1> QED
  BY <1>1, <1>2, <1>4, <1>5, <1>6, <1>7 DEF DeltaInv, StagedInv, ProbeInv, ReportInv

LEMMA PlanStep ==
  ASSUME Typed, Strong, PlanSkip \/ PlanDelta
  PROVE  Strong'
<1> USE DEF Strong
<1>1. /\ phase = "plan" /\ UNCHANGED <<table, staging, ledger, built, now>> /\ Still
      /\ ledger # None /\ ledger.sql = built /\ table # Empty
  BY DEF PlanSkip, PlanDelta, CanAdvance, dataVars, planVars, Still
<1>2. LineageInv' /\ UniqueInv' /\ Vouched(ledger)'
  BY <1>1, StillWorld DEF LineageInv, UniqueInv, Unique, Vouched, Still
<1>3. CASE PlanSkip
  <2>1. phase' = "done" /\ reported' = ledger
    BY <1>3 DEF PlanSkip
  <2>2. Timed => now <= ledger.through
    BY <1>3 DEF PlanSkip, IsDeltaEnd
  <2>3. Timed => Covers(table, now)'
    BY <1>1, <2>2, StillWorld DEF Covers, Vouched, Typed, TypeOK, Boundary, Times, Row
  <2>4. PastInv'
    BY <1>1, <2>1 DEF PastInv, Reached, Timed, Still
  <2>5. Vouched(reported)'
    BY <1>1, <2>1, StillWorld DEF Vouched
  <2>6. ReportInv'
    BY <1>1, <2>1, <2>3, <2>5, StillWorld DEF ReportInv
  <2> QED
    BY <1>2, <2>1, <2>4, <2>6 DEF DeltaInv, StagedInv, ProbeInv
<1>4. CASE PlanDelta
  <2>1. PICK t \in Times : IsDeltaEnd(t) /\ t > ledger.through /\ to' = t
    BY <1>4 DEF PlanDelta
  <2>2. phase' = "delta" /\ from' = ledger.through /\ reported' = reported
    BY <1>4 DEF PlanDelta
  <2>3. Reached(t)
    BY <2>1 DEF IsDeltaEnd, IsFrontier, Reached, PastInv, Typed, TypeOK, Times
  <2>4. Reached(to)'
    BY <1>1, <2>1, <2>3 DEF Reached, Timed, Still
  <2>5. DeltaInv'
    BY <1>1, <2>1, <2>2, <2>4, StillWorld DEF DeltaInv, IsDeltaEnd
  <2>6. PastInv'
    BY <1>1, <2>2 DEF PastInv, Reached, Timed, Still
  <2> QED
    BY <1>1, <1>2, <2>2, <2>5, <2>6 DEF StagedInv, ProbeInv, ReportInv
<1> QED
  BY <1>3, <1>4

\* A delta adds to a table that is complete below its range the rows of the range.
LEMMA DeltaStep ==
  ASSUME Typed, Strong, ApplyDelta
  PROVE  Strong'
<1> USE DEF Strong
<1>1. /\ phase = "delta" /\ phase' = "advance" /\ UNCHANGED <<staging, ledger, built, now, from, to>>
      /\ Still /\ reported' = [sql |-> built, through |-> to]
      /\ \A r \in Row : table'[r] = WithDelta(r)
  BY DEF ApplyDelta, dataVars, planVars, Still
<1>2. /\ ledger # None /\ ledger.sql = built /\ from = ledger.through /\ Reached(to)
      /\ \A r \in Row : table[r] > 0 => r.sql = built
      /\ \A r \in Row : r.sql = built /\ Computes(r) /\ r.at < from => table[r] > 0
  BY <1>1 DEF DeltaInv, LineageInv, Vouched
<1>3. /\ from \in Nat /\ to \in Nat
      /\ \A r \in Row : table[r] \in Nat /\ r.at \in Nat /\ source[r.key] \in Nat
  <2>1. from \in Nat /\ to \in Nat
    BY DEF Typed, TypeOK
  <2>2. \A r \in Row : r.key \in Keys /\ r.at \in Nat
    BY DEF Row, Times
  <2> QED
    BY <2>1, <2>2 DEF Typed, TypeOK
<1>4. \A r \in Row : table'[r] > 0 => r.sql = built /\ (table[r] > 0 \/ Computes(r))
  BY <1>1, <1>2, <1>3 DEF WithDelta, InDelta
<1>5. \A r \in Row : r.sql = built /\ Computes(r) /\ r.at < to => table'[r] > 0
  <2> SUFFICES ASSUME NEW r \in Row, r.sql = built, Computes(r), r.at < to PROVE table'[r] > 0
    OBVIOUS
  <2>1. source[r.key] = r.at
    BY DEF Computes
  <2>2. CASE from <= r.at
    BY <1>1, <2>1, <2>2 DEF WithDelta, InDelta, InRange
  <2>3. CASE r.at < from
    BY <1>1, <1>2, <1>3, <2>1, <2>3 DEF WithDelta, InRange
  <2> QED
    BY <1>3, <2>2, <2>3
<1>6. \A r \in Row : r.sql = built /\ Computes(r) /\ r.at < from => table'[r] > 0
  <2> SUFFICES ASSUME NEW r \in Row, r.sql = built, Computes(r), r.at < from PROVE table'[r] > 0
    OBVIOUS
  <2>1. ~InRange(r.at) /\ ~InRange(source[r.key])
    BY <1>3 DEF InRange, Computes
  <2> QED
    BY <1>1, <1>2, <2>1 DEF WithDelta
<1>7. PastInv'
  <2>1. \A r \in Row : ~Timed /\ table'[r] > 0 => Reached(r.at)
    <3>1. \A r \in Row : ~Timed /\ Computes(r) => Reached(r.at)
      BY <1>3 DEF Reached, Computes, Row
    <3> QED
      BY <1>4, <3>1 DEF PastInv
  <2> QED
    BY <1>1, <1>2, <2>1 DEF PastInv, Reached, Timed, Still
<1>8. LineageInv'
  BY <1>1, StillWorld DEF LineageInv, Still
<1>9. ReportInv'
  <2>1. Timed => Covers(table, now)'
    BY <1>1, <1>5, StillWorld DEF Covers, DeltaInv
  <2>2. Vouched(reported)'
    BY <1>1, <1>4, <1>5, StillWorld DEF Vouched
  <2> QED
    BY <1>1, <2>1, <2>2, StillWorld DEF ReportInv
<1>10. UniqueInv'
  <2>1. \A r \in Row : table'[r] <= 1
    BY <1>1 DEF WithDelta, UniqueInv, Unique
  <2>2. regime.strategy # "merge" => \A r \in Row : table'[r] > 0 => Computes(r)
    BY <1>4 DEF UniqueInv
  <2>3. ASSUME NEW r \in Row, NEW q \in Row, table'[r] > 0, table'[q] > 0, r.key = q.key
        PROVE  r = q
    <3>1. r.sql = q.sql
      BY <1>4, <2>3
    <3>2. Computes(r) /\ Computes(q) => r.at = q.at
      BY <2>3 DEF Computes
    <3>3. r.at = q.at => r = q
      BY <2>3, <3>1 DEF Row
    <3>4. CASE regime.strategy = "merge"
      <4>1. CASE InRange(source[r.key])
        <5>1. InDelta(r) /\ InDelta(q)
          BY <1>1, <2>3, <3>4, <4>1 DEF WithDelta
        <5> QED
          BY <3>2, <3>3, <5>1 DEF InDelta
      <4>2. CASE ~InRange(source[r.key])
        <5>1. table[r] > 0 /\ table[q] > 0
          BY <1>1, <2>3, <3>4, <4>2 DEF WithDelta
        <5> QED
          BY <2>3, <5>1 DEF UniqueInv, Unique
      <4> QED
        BY <4>1, <4>2
    <3> QED
      BY <2>2, <2>3, <3>2, <3>3, <3>4
  <2> QED
    BY <1>1, <2>1, <2>2, <2>3, StillWorld DEF UniqueInv, Unique, Still
<1>11. Vouched(ledger)'
  BY <1>1, <1>2, <1>4, <1>6, StillWorld DEF Vouched
<1> QED
  BY <1>1, <1>7, <1>8, <1>9, <1>10, <1>11 DEF DeltaInv, StagedInv, ProbeInv

\* The boundary is gone before another lineage is built, or is of the same one.
LEMMA ResetStep ==
  ASSUME Sound, Strong, ResetLedger \/ ResetLedgerFails
  PROVE  Strong'
<1> USE DEF Strong
<1>1. /\ phase = "reset" /\ phase' = "ctas" /\ Still
      /\ UNCHANGED <<table, staging, built, now, reported>>
  BY DEF ResetLedger, ResetLedgerFails, dataVars, planVars, Still
<1>2. CASE ledger' = ledger /\ (ledger # None => ledger.sql = built)
  BY <1>1, <1>2, QuietStep
<1>3. CASE ledger' = None
  <2>1. PastInv' /\ LineageInv'
    BY <1>1, <1>3 DEF PastInv, LineageInv, Reached, Timed, Still, May
  <2>2. UniqueInv' /\ Vouched(ledger)'
    BY <1>1, <1>3, StillWorld DEF UniqueInv, Unique, Vouched, Still
  <2> QED
    BY <1>1, <2>1, <2>2 DEF DeltaInv, StagedInv, ProbeInv, ReportInv
<1>4. CASE ResetLedger
  BY <1>1, <1>2, <1>3, <1>4 DEF ResetLedger, LineageInv
<1>5. CASE ResetLedgerFails
  BY <1>1, <1>2, <1>5, SoundRules DEF ResetLedgerFails, LineageInv
<1> QED
  BY <1>4, <1>5

\* The staging table has every row there is when it is made.
LEMMA CtasStep ==
  ASSUME Typed, Strong, Ctas
  PROVE  Strong'
<1> USE DEF Strong
<1>1. /\ phase = "ctas" /\ phase' = "staged" /\ Still
      /\ UNCHANGED <<table, ledger, built, now, reported>> /\ staging' = Snapshot(built)
  BY DEF Ctas, dataVars, planVars, Still
<1>2. \A r \in Row : /\ staging'[r] \in {0, 1}
                     /\ staging'[r] > 0 <=> r.sql = built /\ Computes(r)
  BY <1>1 DEF Snapshot
<1>3. \A r \in Row : ~Timed /\ Computes(r) => Reached(r.at)
  BY DEF Reached, Computes, Row, Times, Typed, TypeOK
<1>4. PastInv'
  BY <1>1, <1>2, <1>3 DEF PastInv, Reached, Timed, Still
<1>5. LineageInv'
  BY <1>1, StillWorld DEF LineageInv, Still
<1>6. StagedInv'
  BY <1>1, <1>2, StillWorld DEF StagedInv, Seeds, OfBuilt, Covers
<1>7. UniqueInv'
  <2>1. \A r, q \in Row : staging'[r] > 0 /\ staging'[q] > 0 /\ r.key = q.key => r = q
    BY <1>2 DEF Computes, Row
  <2>2. Unique(staging)'
    BY <1>2, <2>1 DEF Unique
  <2> QED
    BY <1>1, <1>2, <2>2, StillWorld DEF UniqueInv, Unique, Still
<1>8. Vouched(ledger)'
  BY <1>1, StillWorld DEF Vouched
<1> QED
  BY <1>1, <1>4, <1>5, <1>6, <1>7, <1>8 DEF DeltaInv, ProbeInv, ReportInv

LEMMA SwapStep ==
  ASSUME Typed, Strong, SwapDrop \/ SwapRename
  PROVE  Strong'
<1> USE DEF Strong
<1>1. Still /\ UNCHANGED <<ledger, built, now, reported>> /\ phase \in {"staged", "swap"}
  BY DEF SwapDrop, SwapRename, dataVars, planVars, Still
<1>2. \A r \in Row : Empty[r] = 0
  BY DEF Empty
<1>3. CASE SwapDrop
  <2>1. phase' = "swap" /\ table' = Empty /\ staging' = staging
    BY <1>3 DEF SwapDrop
  <2>2. PastInv'
    BY <1>1, <1>2, <2>1 DEF PastInv, Reached, Timed, Still
  <2>3. LineageInv'
    BY <1>1, <2>1, StillWorld DEF LineageInv, Still
  <2>4. StagedInv'
    BY <1>1, <2>1, StillWorld DEF StagedInv, Seeds, OfBuilt, Covers
  <2>5. UniqueInv'
    BY <1>1, <1>2, <2>1, StillWorld DEF UniqueInv, Unique, Still
  <2>6. Vouched(ledger)'
    BY <2>1, <1>1, StillWorld DEF Vouched
  <2> QED
    BY <1>1, <2>1, <2>2, <2>3, <2>4, <2>5, <2>6 DEF DeltaInv, ProbeInv, ReportInv
<1>4. CASE SwapRename
  <2>1. phase = "swap" /\ phase' \in {"probe", "done"} /\ table' = staging /\ staging' = Empty
    BY <1>4 DEF SwapRename
  <2>2. PastInv'
    BY <1>1, <1>2, <2>1 DEF PastInv, Reached, Timed, Still
  <2>3. LineageInv'
    BY <1>1, <2>1, StillWorld DEF LineageInv, Still
  <2>4. Seeds(table)'
    BY <1>1, <2>1, StillWorld DEF StagedInv, Seeds, OfBuilt, Covers
  <2>5. UniqueInv'
    BY <1>1, <1>2, <2>1, StillWorld DEF UniqueInv, Unique, Still
  <2>6. Vouched(ledger)'
    <3>1. ledger # None => ledger.sql = built
      BY <2>1 DEF LineageInv
    <3> QED
      BY <1>1, <2>1, <3>1, StillWorld DEF Vouched, StagedInv, Seeds, OfBuilt, Covers
  <2>7. ReportInv'
    BY <1>1, <2>1, <2>4, StillWorld DEF ReportInv, Seeds, Vouched
  <2> QED
    BY <2>1, <2>2, <2>3, <2>4, <2>5, <2>6, <2>7 DEF DeltaInv, StagedInv, ProbeInv
<1> QED
  BY <1>3, <1>4

\* The boundary of a seed is one below which its table is complete.
LEMMA ProbeStep ==
  ASSUME Typed, Strong, ProbeSeed \/ ProbeSeedFails
  PROVE  Strong'
<1> USE DEF Strong
<1>1. /\ phase = "probe" /\ Still /\ UNCHANGED <<table, staging, ledger, built, now>>
      /\ phase' \in {"advance", "done"}
  BY DEF ProbeSeed, ProbeSeedFails, dataVars, planVars, Still
<1>2. Seeds(table) /\ reported = None
  BY <1>1 DEF ProbeInv, ReportInv
<1>3. reported' # None =>
        /\ reported'.sql = built /\ Reached(reported'.through)
        /\ \A r \in Row : r.sql = built /\ Computes(r) /\ r.at < reported'.through => table[r] > 0
  <2>1. CASE ProbeSeedFails
    BY <1>2, <2>1 DEF ProbeSeedFails
  <2>2. CASE ProbeSeed
    <3>1. PICK t \in 0 .. MaxTime :
            /\ IsMaxWatermark(t)
            /\ reported' = IF t = 0 THEN None
                           ELSE [sql |-> built, through |-> IF Timed THEN now ELSE t]
      BY <2>2 DEF ProbeSeed
    <3>2. CASE t # 0 /\ Timed
      <4>1. reported' = [sql |-> built, through |-> now]
        BY <3>1, <3>2
      <4> QED
        BY <1>2, <3>2, <4>1 DEF Seeds, Covers, PastInv, Reached
    <3>3. CASE t # 0 /\ ~Timed
      <4>1. reported' = [sql |-> built, through |-> t]
        BY <3>1, <3>3
      <4>2. PICK r \in Row : table[r] > 0 /\ r.at = t
        BY <3>1, <3>3 DEF IsMaxWatermark
      <4>3. Covers(table, t) /\ Reached(t)
        BY <1>2, <3>3, <4>2 DEF Seeds, PastInv
      <4> QED
        BY <4>1, <4>3 DEF Covers
    <3> QED
      BY <3>1, <3>2, <3>3
  <2> QED
    BY <2>1, <2>2
<1>4. PastInv'
  BY <1>1, <1>3 DEF PastInv, Reached, Timed, Still
<1>5. LineageInv'
  BY <1>1, StillWorld DEF LineageInv, Still
<1>6. Vouched(reported)'
  BY <1>1, <1>2, <1>3, StillWorld DEF Vouched, Seeds, OfBuilt
<1>7. Timed => Covers(table, now)'
  BY <1>1, <1>2, StillWorld DEF Seeds, Covers
<1>8. ReportInv'
  BY <1>1, <1>3, <1>6, <1>7, StillWorld DEF ReportInv
<1>9. UniqueInv' /\ Vouched(ledger)'
  BY <1>1, StillWorld DEF UniqueInv, Unique, Vouched, Still
<1> QED
  BY <1>1, <1>4, <1>5, <1>8, <1>9 DEF DeltaInv, StagedInv, ProbeInv

\* What a run reports becomes the boundary.
LEMMA BoundaryStep ==
  ASSUME Typed, Strong, AdvanceLedger \/ AdvanceLedgerFails \/ EndRun
  PROVE  Strong'
<1> USE DEF Strong
<1>1. /\ Still /\ UNCHANGED <<table, staging, built, now, reported>>
      /\ phase \in {"advance", "done"} /\ phase' \in {"done", "idle"}
      /\ ledger' = ledger \/ ledger' = reported
  BY DEF AdvanceLedger, AdvanceLedgerFails, EndRun, dataVars, planVars, Still
<1>2. PastInv'
  BY <1>1 DEF PastInv, Reached, Timed, Still
<1>3. LineageInv'
  <2>1. ledger' # None => ledger'.sql = built
    BY <1>1 DEF LineageInv, ReportInv
  <2> QED
    BY <1>1, <2>1, StillWorld DEF LineageInv, Still
<1>4. Vouched(ledger)'
  BY <1>1, StillWorld DEF Vouched, ReportInv
<1>5. ReportInv'
  BY <1>1, StillWorld DEF ReportInv, Vouched, Covers
<1>6. UniqueInv'
  BY <1>1, StillWorld DEF UniqueInv, Unique, Still
<1> QED
  BY <1>1, <1>2, <1>3, <1>4, <1>5, <1>6 DEF DeltaInv, StagedInv, ProbeInv

-----------------------------------------------------------------------------
(* The theorems *)

RefreshInv == Typed /\ (Sound => Strong)

LEMMA InvStep == RefreshInv /\ [Next]_vars => RefreshInv'
<1> SUFFICES ASSUME RefreshInv, [Next]_vars PROVE RefreshInv'
  OBVIOUS
<1>1. Typed /\ Typed'
  BY TypeStep DEF RefreshInv
<1>2. Sound' <=> Sound
  <2>1. regime' = regime
    BY DEF Next, World, Tick, Arrive, Edit, Emptied, Refresh, StartRun, PlanSeed, PlanSkip,
           PlanDelta, ApplyDelta, RunFails, ResetLedger, ResetLedgerFails, Ctas, SwapDrop,
           SwapRename, RebuildFails, ProbeSeed, ProbeSeedFails, AdvanceLedger,
           AdvanceLedgerFails, EndRun, Crash, vars
  <2> QED
    BY <2>1 DEF Sound, May, CallerHolds
<1> SUFFICES ASSUME Sound, Strong PROVE Strong'
  BY <1>1, <1>2 DEF RefreshInv
<1>3. CASE UNCHANGED vars
  BY <1>3
  DEF vars, dataVars, runVars, planVars, Strong, PastInv, LineageInv, DeltaInv, StagedInv,
      ProbeInv, ReportInv, UniqueInv, Reached, Timed, May, CallerHolds, Seeds, OfBuilt, Covers,
      Unique, Vouched, Computes, Empty
<1>4. CASE World
  BY <1>1, <1>4, WorldStep
<1>5. CASE PlanSeed \/ RunFails \/ RebuildFails \/ Crash
  <2>1. /\ Still /\ UNCHANGED <<table, ledger, built, now, reported>>
        /\ staging' = staging \/ staging' = Empty
        /\ phase' = "idle" \/ (phase = "plan" /\ phase' = "reset")
    BY <1>5 DEF PlanSeed, RunFails, RebuildFails, Crash, dataVars, planVars, Still
  <2> QED
    BY <2>1, QuietStep
<1>6. ASSUME NEW declares \in BOOLEAN, NEW reseed \in BOOLEAN, StartRun(declares, reseed)
      PROVE  Strong'
  BY <1>1, <1>6, StartStep
<1> QED
  BY <1>1, <1>3, <1>4, <1>5, <1>6, PlanStep, DeltaStep, ResetStep, CtasStep, SwapStep,
     ProbeStep, BoundaryStep
  DEF Next, Refresh

LEMMA InvInit == Init => RefreshInv
<1> SUFFICES ASSUME Init PROVE RefreshInv
  OBVIOUS
<1>1. Typed
  BY MaxTimeAssumption DEF Init, Typed, TypeOK, Empty, Times
<1>2. \A r \in Row : table[r] = 0 /\ staging[r] = 0
  BY DEF Init, Empty
<1>3. Strong
  BY <1>2
  DEF Init, Strong, PastInv, LineageInv, DeltaInv, StagedInv, ProbeInv, ReportInv, UniqueInv,
      Unique, Vouched
<1> QED
  BY <1>1, <1>3 DEF RefreshInv

LEMMA Invariance == Spec => []RefreshInv
BY InvInit, InvStep, PTL DEF Spec

\* Every step of a run, of the data and of the model leaves each variable in its
\* type, for any lineages, rows and length of time.
THEOREM RefreshTypeCorrect == Spec => []TypeOK
<1>1. RefreshInv => TypeOK
  BY DEF RefreshInv, Typed
<1> QED
  BY <1>1, Invariance, PTL

\* covered_through never leads the table, whichever statement of a run fails and
\* wherever the process dies: a rebuild clears the boundary first (resetLedger),
\* a delta is written before it moves (advanceLedger), and a boundary is a time
\* or a number below which no row arrives any more (resolveDeltaEnd).
THEOREM LedgerNeverLeads == Spec => []SoundNeverLeads
<1>1. RefreshInv => SoundNeverLeads
  BY DEF RefreshInv, Strong, Vouched, SoundNeverLeads, NeverLeads
<1> QED
  BY <1>1, Invariance, PTL

\* A run on a time watermark that is done has in the table what a rebuild at its
\* start would have had, whether it rebuilt, added a delta or skipped.
THEOREM RefreshAlwaysCurrent == Spec => []RefreshIsCurrent
<1>1. RefreshInv => RefreshIsCurrent
  BY DEF RefreshInv, Strong, ReportInv, Covers, RefreshIsCurrent
<1> QED
  BY <1>1, Invariance, PTL

\* No key is in the table twice: the deletion of the range before its insertion,
\* and the merge on the key, make a delta that is repeated or that meets rows of
\* the future harmless (deltaStatements).
THEOREM KeysStayUnique == Spec => []UniqueKeys
<1>1. RefreshInv => UniqueKeys
  BY DEF RefreshInv, Strong, UniqueInv, Unique, UniqueKeys
<1> QED
  BY <1>1, Invariance, PTL

=============================================================================
