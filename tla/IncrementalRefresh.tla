-------------------------- MODULE IncrementalRefresh --------------------------
(* The refresh of one incremental source: whether a run rebuilds its table or  *)
(* adds to it the rows of a range of the watermark, and how far the ledger     *)
(* says the table reaches. Table and ledger are in two databases and are never *)
(* written together, so a run may die, or a statement fail, between any two of *)
(* them.                                                                       *)
(*                                                                             *)
(* The ledger is a row of the local store, or, when a caller supplies it, the  *)
(* caller's own copy: sent with a run, and replaced by what the manifest of a  *)
(* finished run reports.                                                       *)
EXTENDS Integers

CONSTANTS
  Sqls,      \* lineages of the source: its SQL, watermark and merge keys
  Keys,      \* rows of the data it reads
  MaxTime,   \* largest value of the watermark, and of the clock
  None,      \* no boundary
  Regimes    \* what may happen in a behaviour, and where its ledger is

Times == 1 .. MaxTime

\* Edits of the model; a run of a source that no longer declares refresh=; a
\* caller that answers a stale entry with reseed and keeps it; the table emptied
\* or dropped from outside; faults of the warehouse and of the ledger; a crash.
Events == {"edit", "undeclare", "keepEntry", "emptied", "fault", "ledgerFault", "crash"}

Regime == [events : SUBSET Events,
           holder : {"local", "caller"},
           strategy : {"merge", "range_replace"},
           watermark : {"time", "number"}]

ASSUME MaxTimeAssumption == MaxTime \in Nat \ {0}
ASSUME SqlsAssumption == Sqls # {}
ASSUME NoneAssumption == None \notin [sql : Sqls, through : Times]
ASSUME RegimesAssumption == Regimes \subseteq Regime

VARIABLES
  regime,
  clock,     \* the current time
  source,    \* the watermark of each row of the data, 0 where there is none yet
  code,      \* the lineage the model declares
  table,     \* how many copies of each row the serving table holds
  staging,   \* and the staging table
  ledger,    \* the recorded boundary
  phase,     \* where the run is
  built,     \* the lineage it compiled
  declared,  \* whether that declares refresh=
  now,       \* when it started
  from, to,  \* the range of its delta
  reported   \* the boundary its manifest entry reports

dataVars == <<clock, source, code>>
planVars == <<built, declared, now>>
runVars == <<phase, planVars, from, to, reported>>
vars == <<regime, dataVars, table, staging, ledger, runVars>>

-----------------------------------------------------------------------------
Row == [sql : Sqls, key : Keys, at : Times]
Boundary == [sql : Sqls, through : Times]

\* A dropped table has no rows, and is to a refresh as an empty one.
Empty == [r \in Row |-> 0]

TypeOK ==
  /\ regime \in Regimes
  /\ clock \in Times
  /\ source \in [Keys -> 0 .. MaxTime]
  /\ code \in Sqls
  /\ table \in [Row -> Nat]
  /\ staging \in [Row -> Nat]
  /\ ledger \in Boundary \cup {None}
  /\ phase \in {"idle", "plan", "delta", "reset", "ctas", "staged", "swap",
                "probe", "advance", "done"}
  /\ built \in Sqls
  /\ declared \in BOOLEAN
  /\ now \in Times
  /\ from \in 0 .. MaxTime
  /\ to \in 0 .. MaxTime
  /\ reported \in Boundary \cup {None}

May(event) == event \in regime.events
Timed == regime.watermark = "time"
CallerHolds == regime.holder = "caller"

Init ==
  /\ regime \in Regimes
  /\ clock = 1
  /\ source = [k \in Keys |-> 0]
  /\ code \in Sqls
  /\ table = Empty
  /\ staging = Empty
  /\ ledger = None
  /\ phase = "idle"
  /\ built = code
  /\ declared = TRUE
  /\ now = 1
  /\ from = 0 /\ to = 0
  /\ reported = None

\* What the SQL of a lineage computes from the data.
Computes(r) == source[r.key] = r.at
Snapshot(sql) == [r \in Row |-> IF r.sql = sql /\ Computes(r) THEN 1 ELSE 0]

\* MAX(watermark) of the data, and of the table.
IsFrontier(t) ==
  /\ \A k \in Keys : source[k] <= t
  /\ t = 0 \/ \E k \in Keys : source[k] = t
IsMaxWatermark(t) ==
  /\ \A r \in Row : table[r] > 0 => r.at <= t
  /\ t = 0 \/ \E r \in Row : table[r] > 0 /\ r.at = t

-----------------------------------------------------------------------------
(* The world *)

Tick ==
  /\ clock < MaxTime
  /\ clock' = clock + 1
  /\ UNCHANGED <<regime, source, code, table, staging, ledger, runVars>>

\* A row arrives, or with merge_key= is restated, at a watermark the frontier has
\* not passed: a time that is not over, or no number below the largest.
Arrive(k, t) ==
  /\ source[k] = 0 \/ regime.strategy = "merge"
  /\ IF Timed THEN t >= clock ELSE \A q \in Keys : source[q] <= t
  /\ source[k] # t
  /\ source' = [source EXCEPT ![k] = t]
  /\ UNCHANGED <<regime, clock, code, table, staging, ledger, runVars>>

Edit(sql) ==
  /\ May("edit")
  /\ sql # code
  /\ code' = sql
  /\ UNCHANGED <<regime, clock, source, table, staging, ledger, runVars>>

\* Something outside the publisher empties or drops the table, between runs.
Emptied ==
  /\ May("emptied")
  /\ phase = "idle"
  /\ table' = Empty
  /\ UNCHANGED <<regime, dataVars, staging, ledger, runVars>>

-----------------------------------------------------------------------------
(* The plan *)

\* What a caller sends: validateBuildLedger refuses an entry of another lineage,
\* or of a source that does not declare refresh=, unless the run reseeds.
Accepted(declares, reseed) ==
  ledger = None \/ (declares /\ ledger.sql = code) \/ (reseed /\ May("keepEntry"))

\* A run takes its start time and compiles the source. A reseed, and a source
\* that declares no refresh=, rebuild; only the former clears the boundary.
StartRun(declares, reseed) ==
  /\ phase = "idle"
  /\ declares \/ May("undeclare")
  /\ phase' = CASE ~declares -> "ctas" [] reseed -> "reset" [] OTHER -> "plan"
  /\ built' = code
  /\ declared' = declares
  /\ now' = clock
  /\ reported' = None
  /\ ledger' = IF CallerHolds /\ ~Accepted(declares, reseed) THEN None ELSE ledger
  /\ from' = 0 /\ to' = 0
  /\ UNCHANGED <<regime, dataVars, table, staging>>

\* Variant: the boundary of another lineage is built on.
CanAdvanceAnyLineage == ledger # None /\ table # Empty

\* ledgerLineageMismatch and the probes of the target.
CanAdvance == ledger # None /\ ledger.sql = built /\ table # Empty

\* resolveDeltaEnd: the start of the run, or the frontier of the source.
IsDeltaEnd(t) == IF Timed THEN t = now ELSE IsFrontier(t)

PlanSeed ==
  /\ phase = "plan"
  /\ ~CanAdvance \/ May("fault") \/ (May("ledgerFault") /\ ~CallerHolds)
  /\ phase' = "reset"
  /\ UNCHANGED <<regime, dataVars, table, staging, ledger, planVars, from, to, reported>>

\* The frontier has not passed the boundary, or cannot be read.
PlanSkip ==
  /\ phase = "plan"
  /\ CanAdvance
  /\ \/ \E t \in 0 .. MaxTime : IsDeltaEnd(t) /\ t <= ledger.through
     \/ May("fault") /\ ~Timed
  /\ phase' = "done"
  /\ reported' = ledger
  /\ UNCHANGED <<regime, dataVars, table, staging, ledger, planVars, from, to>>

PlanDelta ==
  /\ phase = "plan"
  /\ CanAdvance
  /\ \E t \in Times :
       /\ IsDeltaEnd(t) /\ t > ledger.through
       /\ to' = t
  /\ from' = ledger.through
  /\ phase' = "delta"
  /\ UNCHANGED <<regime, dataVars, table, staging, ledger, planVars, reported>>

-----------------------------------------------------------------------------
(* The delta *)

InRange(t) == from <= t /\ t < to
InDelta(r) == r.sql = built /\ Computes(r) /\ InRange(r.at)

\* Variant: the range is not deleted before its rows are inserted.
WithDeltaInsertOnly(r) ==
  IF regime.strategy = "merge"
  THEN IF InRange(source[r.key]) THEN (IF InDelta(r) THEN 1 ELSE 0) ELSE table[r]
  ELSE table[r] + (IF InDelta(r) THEN 1 ELSE 0)

\* deltaStatements. MERGE: the row of a key is updated, or inserted (a key has one
\* row, see UniqueKeys). Range replace: the range is deleted, then inserted.
WithDelta(r) ==
  IF regime.strategy = "merge"
  THEN IF InRange(source[r.key]) THEN (IF InDelta(r) THEN 1 ELSE 0) ELSE table[r]
  ELSE IF InRange(r.at) THEN (IF InDelta(r) THEN 1 ELSE 0) ELSE table[r]

\* applyDeltaScript: one transaction.
ApplyDelta ==
  /\ phase = "delta"
  /\ table' = [r \in Row |-> WithDelta(r)]
  /\ phase' = "advance"
  /\ reported' = [sql |-> built, through |-> to]
  /\ UNCHANGED <<regime, dataVars, staging, ledger, planVars, from, to>>

\* The script fails and is rolled back, or the run fails over another source:
\* nothing is reported.
RunFails ==
  /\ May("fault")
  /\ phase \in {"delta", "done"}
  /\ phase' = "idle"
  /\ UNCHANGED <<regime, dataVars, table, staging, ledger, planVars, from, to, reported>>

-----------------------------------------------------------------------------
(* The rebuild *)

\* Variant: the boundary is left to be overwritten after the rebuild.
ResetLedgerLater ==
  /\ phase = "reset"
  /\ phase' = "ctas"
  /\ UNCHANGED <<regime, dataVars, table, staging, ledger, planVars, from, to, reported>>

\* resetLedger: nothing to do when a caller holds the ledger.
ResetLedger ==
  /\ phase = "reset"
  /\ ledger' = IF CallerHolds THEN ledger ELSE None
  /\ phase' = "ctas"
  /\ UNCHANGED <<regime, dataVars, table, staging, planVars, from, to, reported>>

\* Its failure is logged, and the rebuild goes on.
ResetLedgerFails ==
  /\ May("ledgerFault") /\ ~CallerHolds
  /\ phase = "reset"
  /\ phase' = "ctas"
  /\ UNCHANGED <<regime, dataVars, table, staging, ledger, planVars, from, to, reported>>

\* CREATE TABLE of the staging table from the whole source.
Ctas ==
  /\ phase = "ctas"
  /\ staging' = Snapshot(built)
  /\ phase' = "staged"
  /\ UNCHANGED <<regime, dataVars, table, ledger, planVars, from, to, reported>>

SwapDrop ==
  /\ phase = "staged"
  /\ table' = Empty
  /\ phase' = "swap"
  /\ UNCHANGED <<regime, dataVars, staging, ledger, planVars, from, to, reported>>

SwapRename ==
  /\ phase = "swap"
  /\ table' = staging
  /\ staging' = Empty
  /\ phase' = IF declared THEN "probe" ELSE "done"
  /\ UNCHANGED <<regime, dataVars, ledger, planVars, from, to, reported>>

\* A statement of the rebuild fails; the staging table is dropped, or that fails
\* as well.
RebuildFails ==
  /\ May("fault")
  /\ phase \in {"ctas", "staged", "swap"}
  /\ staging' \in {Empty, staging}
  /\ phase' = "idle"
  /\ UNCHANGED <<regime, dataVars, table, ledger, planVars, from, to, reported>>

\* seedCoveredThrough: a table without rows has no boundary; otherwise it is the
\* start of the run, or the largest watermark of the table.
ProbeSeed ==
  /\ phase = "probe"
  /\ \E t \in 0 .. MaxTime :
       /\ IsMaxWatermark(t)
       /\ reported' = IF t = 0 THEN None
                      ELSE [sql |-> built, through |-> IF Timed THEN now ELSE t]
       /\ phase' = IF t = 0 THEN "done" ELSE "advance"
  /\ UNCHANGED <<regime, dataVars, table, staging, ledger, planVars, from, to>>

ProbeSeedFails ==
  /\ May("fault")
  /\ phase = "probe"
  /\ phase' = "done"
  /\ UNCHANGED <<regime, dataVars, table, staging, ledger, planVars, from, to, reported>>

-----------------------------------------------------------------------------
(* The boundary *)

\* advanceLedger: nothing to do when a caller holds the ledger.
AdvanceLedger ==
  /\ phase = "advance"
  /\ ledger' = IF CallerHolds THEN ledger ELSE reported
  /\ phase' = "done"
  /\ UNCHANGED <<regime, dataVars, table, staging, planVars, from, to, reported>>

\* Its failure is logged, and the run goes on.
AdvanceLedgerFails ==
  /\ May("ledgerFault") /\ ~CallerHolds
  /\ phase = "advance"
  /\ phase' = "done"
  /\ UNCHANGED <<regime, dataVars, table, staging, ledger, planVars, from, to, reported>>

\* The manifest is committed, and a caller takes its boundary from it.
EndRun ==
  /\ phase = "done"
  /\ ledger' = IF CallerHolds THEN reported ELSE ledger
  /\ phase' = "idle"
  /\ UNCHANGED <<regime, dataVars, table, staging, planVars, from, to, reported>>

Crash ==
  /\ May("crash")
  /\ phase # "idle"
  /\ phase' = "idle"
  /\ UNCHANGED <<regime, dataVars, table, staging, ledger, planVars, from, to, reported>>

-----------------------------------------------------------------------------
World ==
  \/ Tick
  \/ \E k \in Keys, t \in Times : Arrive(k, t)
  \/ \E sql \in Sqls : Edit(sql)
  \/ Emptied

Refresh ==
  \/ \E declares, reseed \in BOOLEAN : StartRun(declares, reseed)
  \/ PlanSeed \/ PlanSkip \/ PlanDelta
  \/ ApplyDelta \/ RunFails
  \/ ResetLedger \/ ResetLedgerFails
  \/ Ctas \/ SwapDrop \/ SwapRename \/ RebuildFails
  \/ ProbeSeed \/ ProbeSeedFails
  \/ AdvanceLedger \/ AdvanceLedgerFails
  \/ EndRun \/ Crash

Next == World \/ Refresh

Spec == Init /\ [][Next]_vars

-----------------------------------------------------------------------------
(* Properties *)

\* "covered_through may LAG what the table actually contains, but it must never
\* LEAD it": when there is a boundary over a table with rows, every row is of the
\* boundary's lineage, and no row of the data below it is missing.
NeverLeads ==
  ledger # None /\ table # Empty =>
    /\ \A r \in Row : table[r] > 0 => r.sql = ledger.sql
    /\ \A r \in Row : r.sql = ledger.sql /\ Computes(r) /\ r.at < ledger.through
                        => table[r] > 0

\* It can be relied on where each rebuild by another lineage takes away the
\* boundary: a source does not drop its declaration, a caller deletes an entry
\* that is refused, and the ledger can be written if the model is edited.
Sound ==
  /\ May("undeclare") => CallerHolds
  /\ May("edit") => ~May("ledgerFault") /\ ~May("keepEntry")
SoundNeverLeads == Sound => NeverLeads

\* Incremental refresh agrees with a rebuild: when a run on a time watermark is
\* done, the table has every row the data had before the run started, computed
\* by the SQL the run compiled.
RefreshIsCurrent ==
  Sound /\ Timed /\ phase = "done" =>
    \A r \in Row : r.sql = built /\ Computes(r) /\ r.at < now => table[r] > 0

\* No repetition of a range, nor a row of the future that a rebuild had already
\* copied, leaves a key of the data in the table twice.
UniqueKeys ==
  Sound =>
    /\ \A r \in Row : table[r] <= 1
    /\ \A r, q \in Row : table[r] > 0 /\ table[q] > 0 /\ r.key = q.key => r = q
=============================================================================
