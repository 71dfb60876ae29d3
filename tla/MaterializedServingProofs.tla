---------------------- MODULE MaterializedServingProofs ----------------------
(* Proofs about MaterializedServing for any sources, addresses, number of runs *)
(* and regimes: the newest manifest tells the truth about the tables as long   *)
(* as the regime is orderly, and what is bound for serving follows the records *)
(* as far as the faults of a regime let it.                                    *)
EXTENDS MaterializedServing, TLAPS

Building == phase \in {"build", "staged", "swap"}
Swapping == phase \in {"staged", "swap"}

\* The entries the build has still to bring about.
Pending == IF Swapping THEN todo \cup {target} ELSE todo

\* Rows are created in order, so the run being built, whose row is open, becomes
\* the newest.
RowsInOrder ==
  /\ \A r \in RunIds : r > run => rows[r].status = "none"
  /\ Building => run \in RunIds /\ rows[run].status = "open"

\* The tables the build vouches for hold what it says, and no other entry of the
\* build is about the same table.
OkHolds == Building => \A e \in ok : table[e[1]] = e[2]
PendingApart ==
  Building =>
    /\ \A e \in Pending : \A f \in ok : e[1] # f[1]
    /\ \A e, f \in Pending : e[1] = f[1] => e = f
    /\ Swapping => target \notin todo

\* A swap finds the staging table of its CTAS.
StagedTarget == Swapping => staging[target[1]] = target[2]

\* The tables a build has written are those it vouches for or is swapping.
TouchedIsBuilt ==
  /\ phase = "idle" => touched = {}
  /\ phase = "swap" => target[1] \in touched
  /\ Building => touched \subseteq SourcesOf(ok) \cup (IF Swapping THEN {target[1]} ELSE {})

\* A deletion overlaps no run and takes nothing from the newest manifest.
DeletesSuperseded ==
  del.pc # "idle" =>
    /\ phase = "idle"
    /\ del.run \in RunIds
    /\ del.pc \in {"drop", "staging", "row"} => IsSuperseded(del.run)
    /\ \A e \in del.left : e[1] \notin SourcesOf(Latest)

Strong ==
  /\ RowsInOrder
  /\ OkHolds
  /\ PendingApart
  /\ StagedTarget
  /\ TouchedIsBuilt
  /\ DeletesSuperseded
  /\ ManifestHolds

IInv == TypeOK /\ (Orderly => Strong)

-----------------------------------------------------------------------------
(* Types *)

\* The newest manifest has entries only.
LEMMA LatestType == TypeOK => Latest \subseteq Entries
BY DEF TypeOK, Latest, ReadyRuns, IsNewest, Row

\* The steps of a build leave every variable within its type.
LEMMA BuildTypeStep == TypeOK /\ Build => TypeOK'
<1> SUFFICES ASSUME TypeOK, Build PROVE TypeOK'
  OBVIOUS
<1> USE MaxRunsAssumption DEF TypeOK
<1>1. ASSUME NEW include \in SUBSET Sources, NEW force \in BOOLEAN, StartRun(include, force)
      PROVE  TypeOK'
  <2>1. {Entry(disk, s) : s \in include} \subseteq Entries
    BY DEF Entry, Entries
  <2>2. ok' \subseteq Entries /\ todo' \subseteq Entries
    BY <1>1, <2>1 DEF StartRun
  <2>3. regime.runs \in 0 .. MaxRuns
    BY RegimesAssumption
  <2>4. run + 1 \in RunIds
    BY <1>1, <2>3 DEF StartRun, RunIds
  <2>5. rows' \in [RunIds -> Row]
    BY <1>1, <2>4 DEF StartRun, Row
  <2> QED
    BY <1>1, <2>2, <2>4, <2>5 DEF StartRun, RunIds, serveVars
<1>2. ASSUME NEW e \in Entries, Stage(e) PROVE TypeOK'
  BY <1>2 DEF Stage, Entries, serveVars
<1>3. ASSUME NEW e \in Entries, StageFails(e) PROVE TypeOK'
  BY <1>3 DEF StageFails, serveVars
<1>4. CASE SwapDrop
  BY <1>4 DEF SwapDrop, Entries, serveVars
<1>5. CASE SwapRename
  BY <1>5 DEF SwapRename, Entries, serveVars
<1>6. CASE SwapFails
  BY <1>6 DEF SwapFails, Entries, serveVars
<1>7. CASE Cancel \/ FailRun
  <2>1. rows' = [rows EXCEPT ![run].status = "over"]
    BY <1>7 DEF Cancel, FailRun
  <2>2. \A i \in RunIds : [rows[i] EXCEPT !.status = "over"] \in Row
    BY DEF Row
  <2>3. rows' \in [RunIds -> Row]
    BY <2>1, <2>2
  <2> QED
    BY <1>7, <2>3 DEF Cancel, FailRun, EndBuild, serveVars
<1>8. CASE Commit
  <2>1. [status |-> "ready", ok |-> ok, failed |-> failed] \in Row
    BY DEF Row
  <2>2. rows' \in [RunIds -> Row]
    BY <1>8, <2>1 DEF Commit
  <2> QED
    BY <1>8, <2>2 DEF Commit, serveVars
<1>9. CASE AutoLoad
  BY <1>9 DEF AutoLoad, EndBuild, ReloadAllModels, serveVars
<1>10. CASE AutoLoadFails
  BY <1>10 DEF AutoLoadFails, EndBuild, serveVars
<1> QED
  BY <1>1, <1>2, <1>3, <1>4, <1>5, <1>6, <1>7, <1>8, <1>9, <1>10 DEF Build

\* So do those of a deletion.
LEMMA DeleteTypeStep == TypeOK /\ Delete => TypeOK'
<1> SUFFICES ASSUME TypeOK, Delete PROVE TypeOK'
  OBVIOUS
<1> USE MaxRunsAssumption DEF TypeOK, buildVars, serveVars
<1>1. ASSUME NEW r \in RunIds, NEW dropTables \in BOOLEAN, DeleteStart(r, dropTables)
      PROVE  TypeOK'
  <2>1. {e \in rows[r].ok : e[1] \notin Referenced(r)} \in SUBSET Entries
    BY DEF Row
  <2>2. r \in 0 .. MaxRuns
    BY DEF RunIds
  <2>3. /\ del'.pc \in {"drop", "row"} /\ del'.run = r
        /\ del'.left \in SUBSET Entries /\ del'.seen = {}
        /\ del' = [pc |-> del'.pc, run |-> del'.run, left |-> del'.left, seen |-> del'.seen]
    BY <1>1, <2>1 DEF DeleteStart, NoDelete
  <2> QED
    BY <1>1, <2>2, <2>3 DEF DeleteStart
<1>2. CASE DropTable
  <2>1. PICK e \in del.left :
          /\ table' = [table EXCEPT ![e[1]] = NoTable]
          /\ del' = [del EXCEPT !.pc = "staging", !.left = @ \ {e}, !.seen = {e}]
    BY <1>2 DEF DropTable
  <2>2. e \in Entries
    BY <2>1
  <2>3. del' \in [pc : {"idle", "drop", "staging", "row", "read", "apply"},
                  run : 0 .. MaxRuns, left : SUBSET Entries, seen : SUBSET Entries]
    BY <2>1, <2>2
  <2> QED
    BY <1>2, <2>1, <2>3 DEF DropTable
<1>3. CASE DropStaging
  BY <1>3 DEF DropStaging
<1>4. CASE DropTableFails
  BY <1>4 DEF DropTableFails
<1>5. CASE DeleteRow
  BY <1>5 DEF DeleteRow, NoRow, Row
<1>6. CASE RebindRead
  BY <1>6, LatestType DEF RebindRead
<1>7. CASE RebindApply
  BY <1>7 DEF RebindApply, ReloadAllModels, NoDelete
<1>8. CASE RebindFails
  BY <1>8 DEF RebindFails, NoDelete
<1> QED
  BY <1>1, <1>2, <1>3, <1>4, <1>5, <1>6, <1>7, <1>8 DEF Delete

\* And every other step.
LEMMA TypeStep == TypeOK /\ [Next]_vars => TypeOK'
<1> SUFFICES ASSUME TypeOK, [Next]_vars PROVE TypeOK'
  OBVIOUS
<1>1. ASSUME NEW s \in Sources, NEW a \in Addresses, Edit(s, a) PROVE TypeOK'
  BY <1>1 DEF TypeOK, Edit, buildVars, serveVars
<1>2. CASE LoadPackage
  BY <1>2, LatestType DEF TypeOK, LoadPackage, CreatePackage, HostOrLocal, buildVars
<1>3. CASE Crash
  <2>1. rows' \in [RunIds -> Row]
    BY <1>3 DEF TypeOK, Crash, Row
  <2> QED
    BY <1>3, <2>1, LatestType, MaxRunsAssumption
    DEF TypeOK, Crash, CreatePackage, HostOrLocal, EndBuild, NoDelete
<1>4. CASE UNCHANGED vars
  BY <1>4 DEF TypeOK, vars, buildVars, serveVars
<1> QED
  BY <1>1, <1>2, <1>3, <1>4, BuildTypeStep, DeleteTypeStep DEF Next

-----------------------------------------------------------------------------
(* The newest manifest *)

LEMMA LatestSame == rows' = rows => Latest' = Latest
BY DEF Latest, ReadyRuns, IsNewest

\* What an orderly regime rules out.
LEMMA OrderlyRules ==
  Orderly => /\ ~May("cancel") /\ ~May("crash") /\ ~May("swapFault")
             /\ ~May("deleteNewest") /\ ~May("deleteRacing")
BY DEF Orderly, Never, May

\* A step that leaves the build, the tables, the rows and the deletion alone.
LEMMA StrongKept ==
  /\ Strong
  /\ UNCHANGED <<table, staging, rows, buildVars, del>>
  => Strong'
BY LatestSame
DEF Strong, buildVars, RowsInOrder, OkHolds, PendingApart, StagedTarget, TouchedIsBuilt,
    DeletesSuperseded, ManifestHolds, Building, Swapping, Pending, IsSuperseded, ReadyRuns

\* A committed row takes the place of the newest.
LEMMA CommitStep ==
  ASSUME TypeOK, Strong, Commit
  PROVE  Strong'
<1>1. Building /\ phase = "build" /\ phase' = "load"
  BY DEF Commit, Building
<1>2. del.pc = "idle" /\ del' = del
  BY <1>1 DEF Commit, Strong, DeletesSuperseded
<1>3. RowsInOrder'
  BY <1>1 DEF Commit, TypeOK, Strong, RowsInOrder, Building
<1>4. \A e \in Latest' : e \in ok
  <2> SUFFICES ASSUME NEW r \in RunIds, rows'[r].status = "ready",
                      \A q \in RunIds : rows'[q].status = "ready" => q <= r,
                      NEW e \in rows'[r].ok
               PROVE  e \in ok
    BY DEF Latest, ReadyRuns, IsNewest
  <2>1. run \in RunIds => r = run
    <3>1. SUFFICES ASSUME run \in RunIds PROVE r = run
      OBVIOUS
    <3>2. rows'[run].status = "ready"
      BY <3>1 DEF Commit, TypeOK
    <3>3. run <= r
      BY <3>1, <3>2
    <3>4. r <= run
      BY <3>1, MaxRunsAssumption DEF Commit, TypeOK, Strong, RowsInOrder, RunIds
    <3> QED
      BY <3>1, <3>3, <3>4, MaxRunsAssumption DEF RunIds
  <2>2. run \in RunIds
    BY <1>1 DEF Strong, RowsInOrder
  <2>3. rows'[run].ok = ok
    BY <2>2 DEF Commit, TypeOK
  <2> QED
    BY <2>1, <2>2, <2>3
<1>5. ManifestHolds'
  BY <1>1, <1>4 DEF Commit, Strong, OkHolds, ManifestHolds
<1> QED
  BY <1>1, <1>2, <1>3, <1>5
  DEF Strong, OkHolds, PendingApart, StagedTarget, TouchedIsBuilt, DeletesSuperseded,
      Building, Swapping

\* A run starts with what it carries forward, and with nothing written.
LEMMA StartStep ==
  ASSUME TypeOK, Orderly, Strong,
         NEW include \in SUBSET Sources, NEW force \in BOOLEAN, StartRun(include, force)
  PROVE  Strong'
<1>1. phase = "idle" /\ phase' = "build" /\ del.pc = "idle" /\ del' = del /\ touched' = {}
  BY OrderlyRules DEF StartRun, Strong, TouchedIsBuilt
<1>2. run + 1 \in RunIds /\ run' = run + 1
  BY RegimesAssumption, MaxRunsAssumption DEF StartRun, TypeOK, RunIds
<1>3. rows[run + 1].status = "none"
  BY <1>2, MaxRunsAssumption DEF TypeOK, Strong, RowsInOrder, RunIds
<1>4. RowsInOrder'
  <2>1. \A r \in RunIds : r > run' => rows'[r].status = "none"
    BY <1>2, MaxRunsAssumption DEF StartRun, TypeOK, Strong, RowsInOrder, RunIds
  <2>2. rows'[run + 1].status = "open"
    BY <1>2 DEF StartRun, TypeOK
  <2> QED
    BY <1>2, <2>1, <2>2 DEF RowsInOrder
<1>5. Latest' = Latest
  <2>1. \A r \in RunIds : rows'[r].ok = rows[r].ok
    BY DEF StartRun, TypeOK
  <2>2. ReadyRuns' = ReadyRuns
    BY <1>2, <1>3 DEF StartRun, TypeOK, ReadyRuns
  <2> QED
    BY <2>1, <2>2 DEF Latest, IsNewest, ReadyRuns
<1>6. \A e \in Latest : table[e[1]] = e[2]
  BY <1>1 DEF Strong, ManifestHolds
<1>7. /\ ok' \subseteq Latest
      /\ \A e \in ok' \cup todo' : e = <<e[1], disk[e[1]]>>
      /\ ok' \cap todo' = {}
  BY DEF StartRun, Entry
<1>8. OkHolds'
  BY <1>6, <1>7 DEF StartRun, OkHolds
<1>9. PendingApart'
  <2>1. Pending' = todo'
    BY <1>1 DEF Pending, Swapping
  <2>2. \A e, f \in ok' \cup todo' : e[1] = f[1] => e = f
    BY <1>7
  <2> QED
    BY <1>1, <1>7, <2>1, <2>2 DEF PendingApart, Swapping
<1>10. ManifestHolds'
  BY <1>5, <1>6 DEF StartRun, ManifestHolds
<1> QED
  BY <1>1, <1>4, <1>8, <1>9, <1>10
  DEF Strong, StagedTarget, TouchedIsBuilt, DeletesSuperseded, Swapping

\* Staging, swapping and failing a source: the entry being built moves from the
\* ones to build to the ones that hold, or to neither.
LEMMA SourceStep ==
  ASSUME TypeOK, Orderly, Strong,
         \/ \E e \in Entries : Stage(e) \/ StageFails(e)
         \/ SwapDrop \/ SwapRename \/ SwapFails
  PROVE  Strong'
<1>1. Building /\ Building' /\ del.pc = "idle" /\ del' = del /\ phase # "idle" /\ rows' = rows /\ run' = run
  BY DEF Stage, StageFails, SwapDrop, SwapRename, SwapFails, SwapMayFail, Building,
         Strong, DeletesSuperseded
<1>2. RowsInOrder' /\ DeletesSuperseded' /\ Latest' = Latest
  BY <1>1, LatestSame DEF Strong, RowsInOrder, DeletesSuperseded
<1>3. phase' # "idle"
  BY <1>1 DEF Building
<1> USE DEF Strong
<1>4. ASSUME NEW e \in Entries, Stage(e) PROVE Strong'
  <2>1. Pending = todo /\ Pending' = todo /\ e \in todo
    BY <1>4 DEF Stage, Pending, Swapping
  <2>2. PendingApart'
    BY <1>1, <1>4, <2>1 DEF Stage, PendingApart, Swapping
  <2>3. StagedTarget'
    BY <1>4 DEF Stage, StagedTarget, TypeOK, Entries
  <2>4. TouchedIsBuilt'
    BY <1>1, <1>4 DEF Stage, TouchedIsBuilt, Swapping, Building
  <2> QED
    BY <1>1, <1>2, <1>4, <2>2, <2>3, <2>4 DEF Stage, OkHolds, ManifestHolds, Building
<1>5. ASSUME NEW e \in Entries, StageFails(e) PROVE Strong'
  <2>1. Pending = todo /\ Pending' = todo \ {e} /\ ~Swapping /\ ~Swapping'
    BY <1>5 DEF StageFails, Pending, Swapping
  <2> QED
    BY <1>1, <1>2, <1>5, <2>1
    DEF StageFails, OkHolds, PendingApart, StagedTarget, TouchedIsBuilt, ManifestHolds, Building
<1>6. CASE SwapDrop
  <2>1. Swapping /\ Swapping' /\ Pending' = Pending /\ target \in Pending
    BY <1>6 DEF SwapDrop, Swapping, Pending
  <2>2. OkHolds'
    <3>1. \A f \in ok : f[1] # target[1] /\ f[1] \in Sources
      BY <1>1, <2>1 DEF PendingApart, TypeOK, Entries
    <3> QED
      BY <1>1, <1>6, <3>1 DEF SwapDrop, OkHolds, TypeOK
  <2>3. ManifestHolds'
    <3>1. \A e \in Latest : e[1] \in Sources
      BY LatestType DEF Entries
    <3> QED
      BY <1>1, <1>2, <1>6, <3>1 DEF SwapDrop, ManifestHolds, TypeOK, Building
  <2> QED
    BY <1>1, <1>2, <1>6, <2>1, <2>2, <2>3
    DEF SwapDrop, PendingApart, StagedTarget, TouchedIsBuilt, Building
<1>7. CASE SwapRename
  <2>1. Swapping /\ ~Swapping' /\ Pending = todo \cup {target} /\ Pending' = todo
    BY <1>7 DEF SwapRename, Swapping, Pending
  <2>2. target = <<target[1], target[2]>> /\ target[1] \in Sources
    BY DEF TypeOK, Entries
  <2>3. table' = [table EXCEPT ![target[1]] = target[2]]
    BY <1>7, <2>1 DEF SwapRename, StagedTarget
  <2>4. OkHolds'
    <3>1. \A f \in ok : f[1] # target[1] /\ f[1] \in Sources
      BY <1>1, <2>1 DEF PendingApart, TypeOK, Entries
    <3> QED
      BY <1>1, <1>7, <2>2, <2>3, <3>1 DEF SwapRename, OkHolds, TypeOK
  <2>5. PendingApart'
    <3>1. \A e \in todo : e[1] # target[1]
      BY <1>1, <2>1 DEF PendingApart
    <3> QED
      BY <1>1, <1>7, <2>1, <3>1 DEF SwapRename, PendingApart
  <2>6. TouchedIsBuilt'
    BY <1>1, <1>3, <1>7, <2>1 DEF SwapRename, TouchedIsBuilt, SourcesOf
  <2>7. ManifestHolds'
    <3>1. \A e \in Latest : e[1] \in Sources
      BY LatestType DEF Entries
    <3>2. target[1] \in touched
      BY <1>7 DEF SwapRename, TouchedIsBuilt
    <3> QED
      BY <1>1, <1>2, <1>7, <2>2, <2>3, <3>1, <3>2
      DEF SwapRename, ManifestHolds, TypeOK, Building
  <2> QED
    BY <1>2, <2>1, <2>4, <2>5, <2>6, <2>7 DEF StagedTarget
<1>8. CASE SwapFails
  <2>1. staging[target[1]] \in Addresses
    BY <1>8 DEF SwapFails, SwapMayFail, StagedTarget, Swapping, TypeOK, Entries
  <2> QED
    BY <1>8, <2>1, OrderlyRules, NoTableAssumption DEF SwapFails, SwapMayFail
<1> QED
  BY <1>4, <1>5, <1>6, <1>7, <1>8

\* What ends a build without a manifest has written no table: in an orderly
\* regime only the failure of every source does.
LEMMA EndStep ==
  ASSUME TypeOK, Orderly, Strong, Cancel \/ FailRun \/ AutoLoad \/ AutoLoadFails
  PROVE  Strong'
<1> USE DEF Strong
<1>1. phase' = "idle" /\ touched' = {} /\ del' = del /\ run' = run /\ table' = table
  BY DEF Cancel, FailRun, AutoLoad, AutoLoadFails, EndBuild
<1>2. phase # "idle" /\ del.pc = "idle"
  BY DEF Cancel, FailRun, AutoLoad, AutoLoadFails, DeletesSuperseded
<1>3. RowsInOrder' /\ Latest' = Latest
  <2>1. CASE FailRun
    <3>1. rows' = [rows EXCEPT ![run].status = "over"]
      BY <2>1 DEF FailRun
    <3>2. RowsInOrder'
      BY <1>1, <3>1, MaxRunsAssumption DEF TypeOK, RowsInOrder, RunIds, Building
    <3>3. Latest' = Latest
      <4>1. run \notin ReadyRuns
        BY <2>1 DEF FailRun, RowsInOrder, Building, ReadyRuns
      <4> QED
        BY <3>1, <4>1 DEF TypeOK, Latest, ReadyRuns, IsNewest
    <3> QED
      BY <3>2, <3>3
  <2>2. CASE AutoLoad \/ AutoLoadFails
    BY <1>1, <2>2, LatestSame DEF AutoLoad, AutoLoadFails, RowsInOrder, Building
  <2>3. ~Cancel
    BY OrderlyRules DEF Cancel
  <2> QED
    BY <2>1, <2>2, <2>3
<1>4. \A e \in Latest : table[e[1]] = e[2]
  <2>1. CASE FailRun
    <3>1. touched = {}
      BY <2>1 DEF FailRun, BuiltNothing, TouchedIsBuilt, Building, Swapping
    <3> QED
      BY <3>1 DEF ManifestHolds
  <2>2. CASE AutoLoad \/ AutoLoadFails
    BY <2>2 DEF AutoLoad, AutoLoadFails, ManifestHolds
  <2> QED
    BY <2>1, <2>2, OrderlyRules DEF Cancel
<1> QED
  BY <1>1, <1>2, <1>3, <1>4
  DEF OkHolds, PendingApart, StagedTarget, TouchedIsBuilt, DeletesSuperseded, ManifestHolds,
      Building, Swapping

\* The newest manifest is not that of a superseded run.
LEMMA SupersededNotNewest ==
  ASSUME TypeOK, NEW r \in RunIds, IsSuperseded(r)
  PROVE  /\ ~IsNewest(r)
         /\ \A q \in RunIds : IsNewest(q) => q \in ReadyRuns \ {r}
BY MaxRunsAssumption DEF IsSuperseded, IsNewest, ReadyRuns, RunIds

\* The removal of a superseded row leaves the newest manifest alone.
LEMMA SupersededRowGone ==
  ASSUME TypeOK, DeletesSuperseded, DeleteRow
  PROVE  Latest' = Latest
<1>1. rows' = [rows EXCEPT ![del.run] = NoRow] /\ del.run \in RunIds
  BY DEF DeleteRow, DeletesSuperseded
<1>2. IsSuperseded(del.run)
  BY DEF DeleteRow, DeletesSuperseded
<1>3. ReadyRuns' = ReadyRuns \ {del.run}
  BY <1>1 DEF ReadyRuns, NoRow, TypeOK
<1>4. \A q \in RunIds : IsNewest(q)' <=> IsNewest(q)
  <2>1. del.run \in ReadyRuns => \E q \in ReadyRuns : q > del.run
    BY <1>2 DEF IsSuperseded, ReadyRuns
  <2>2. \A q, p \in RunIds : q \in Nat /\ p \in Nat
    BY DEF RunIds
  <2>3. ReadyRuns \subseteq RunIds
    BY DEF ReadyRuns
  <2>4. ASSUME NEW q \in RunIds, IsNewest(q) PROVE IsNewest(q)'
    BY <1>1, <1>2, <1>3, <2>4, SupersededNotNewest DEF IsNewest
  <2>5. ASSUME NEW q \in RunIds, IsNewest(q)' PROVE IsNewest(q)
    BY <1>1, <1>3, <2>1, <2>2, <2>3, <2>5 DEF IsNewest
  <2> QED
    BY <2>4, <2>5
<1>5. \A q \in RunIds : IsNewest(q) => rows'[q] = rows[q]
  BY <1>1, <1>2, SupersededNotNewest DEF TypeOK
<1> DEFINE Newest == {q \in ReadyRuns : IsNewest(q)}
<1>6. Newest' = Newest
  BY <1>3, <1>4 DEF IsNewest, ReadyRuns
<1>7. \A q \in Newest : rows'[q].ok = rows[q].ok
  BY <1>5 DEF ReadyRuns
<1>8. {rows'[q].ok : q \in Newest} = {rows[q].ok : q \in Newest}
  BY <1>7
<1> QED
  BY <1>6, <1>8 DEF Latest

\* A deletion drops tables no other run names, and removes a row that is not the
\* newest.
LEMMA DeleteStep ==
  ASSUME TypeOK, Orderly, Strong, Delete
  PROVE  Strong'
<1> USE DEF Strong
<1> DEFINE Kept == UNCHANGED <<run, phase, target, todo, ok, failed, touched>>
<1>1. phase = "idle" /\ Kept
  BY OrderlyRules
  DEF Delete, DeleteStart, DropTable, DropStaging, DropTableFails, DeleteRow, RebindRead,
      RebindApply, RebindFails, DeletesSuperseded, buildVars
<1>2. /\ ~Building /\ ~Building' /\ ~Swapping /\ ~Swapping' /\ touched' = {}
  BY <1>1 DEF Building, Swapping, TouchedIsBuilt
<1>3. OkHolds' /\ PendingApart' /\ StagedTarget' /\ TouchedIsBuilt'
  BY <1>1, <1>2 DEF OkHolds, PendingApart, StagedTarget, TouchedIsBuilt
<1>4. \A e \in Latest : table[e[1]] = e[2]
  BY <1>1 DEF ManifestHolds
<1> HIDE DEF Strong
<1>5. SUFFICES RowsInOrder' /\ DeletesSuperseded' /\ ManifestHolds'
  BY <1>3 DEF Strong
<1> USE DEF Strong
<1>6. ASSUME NEW r \in RunIds, NEW dropTables \in BOOLEAN, DeleteStart(r, dropTables)
      PROVE  RowsInOrder' /\ DeletesSuperseded' /\ ManifestHolds'
  <2>1. rows' = rows /\ table' = table /\ Latest' = Latest
    BY <1>6, LatestSame DEF DeleteStart
  <2>2. IsSuperseded(r)
    BY <1>6, OrderlyRules DEF DeleteStart
  <2>3. \A e \in Latest : e[1] \in Referenced(r)
    BY <2>2, SupersededNotNewest DEF Latest, Referenced, SourcesOf, ReadyRuns
  <2>4. del'.run = r /\ \A e \in del'.left : e[1] \notin Referenced(r)
    BY <1>6 DEF DeleteStart, NoDelete
  <2>5. \A e \in del'.left : e[1] \notin SourcesOf(Latest)
    BY <2>3, <2>4 DEF SourcesOf
  <2>6. DeletesSuperseded'
    BY <1>1, <2>1, <2>2, <2>4, <2>5 DEF DeletesSuperseded, IsSuperseded, ReadyRuns
  <2> QED
    BY <1>1, <1>2, <1>4, <2>1, <2>6 DEF RowsInOrder, ManifestHolds
<1>7. CASE DropTable
  <2>1. PICK e \in del.left :
          /\ table' = [table EXCEPT ![e[1]] = NoTable]
          /\ del' = [del EXCEPT !.pc = "staging", !.left = @ \ {e}, !.seen = {e}]
    BY <1>7 DEF DropTable
  <2>2. rows' = rows /\ Latest' = Latest /\ del.pc = "drop"
    BY <1>7, LatestSame DEF DropTable
  <2>3. del'.run = del.run /\ del'.left \subseteq del.left /\ del'.pc = "staging"
    BY <2>1 DEF TypeOK
  <2>4. \A f \in Latest : f[1] # e[1] /\ f[1] \in Sources
    BY <2>2, LatestType DEF DeletesSuperseded, SourcesOf, Entries
  <2>5. ManifestHolds'
    BY <1>4, <2>1, <2>2, <2>4 DEF ManifestHolds, TypeOK
  <2> QED
    BY <1>1, <1>2, <2>2, <2>3, <2>5
    DEF RowsInOrder, DeletesSuperseded, IsSuperseded, ReadyRuns
<1>8. CASE DropStaging \/ DropTableFails \/ RebindRead
  <2>1. rows' = rows /\ Latest' = Latest /\ table' = table /\ del.pc # "idle"
    BY <1>8, LatestSame DEF DropStaging, DropTableFails, RebindRead
  <2>2. del'.run = del.run /\ del'.left \subseteq del.left
    BY <1>8 DEF DropStaging, DropTableFails, RebindRead, TypeOK
  <2>3. del'.pc \in {"drop", "staging", "row"} => del.pc \in {"drop", "staging", "row"}
    BY <1>8 DEF DropStaging, DropTableFails, RebindRead, TypeOK
  <2> QED
    BY <1>1, <1>2, <1>4, <2>1, <2>2, <2>3
    DEF RowsInOrder, DeletesSuperseded, IsSuperseded, ReadyRuns, ManifestHolds
<1>9. CASE DeleteRow
  <2>1. rows' = [rows EXCEPT ![del.run] = NoRow] /\ table' = table /\ del.run \in RunIds
    BY <1>9 DEF DeleteRow, DeletesSuperseded
  <2>2. Latest' = Latest
    BY <1>9, SupersededRowGone
  <2>3. del'.pc = "read" /\ del'.left = {} /\ del'.run = del.run
    BY <1>9 DEF DeleteRow, TypeOK
  <2>4. RowsInOrder'
    BY <1>1, <1>2, <2>1 DEF RowsInOrder, NoRow, TypeOK
  <2>5. DeletesSuperseded'
    BY <1>1, <2>1, <2>3 DEF DeletesSuperseded
  <2> QED
    BY <1>4, <2>1, <2>2, <2>4, <2>5 DEF ManifestHolds
<1>10. CASE RebindApply \/ RebindFails
  <2>1. rows' = rows /\ Latest' = Latest /\ table' = table /\ del'.pc = "idle"
    BY <1>10, LatestSame DEF RebindApply, RebindFails, NoDelete
  <2> QED
    BY <1>1, <1>2, <1>4, <2>1 DEF RowsInOrder, DeletesSuperseded, ManifestHolds
<1> QED
  BY <1>6, <1>7, <1>8, <1>9, <1>10 DEF Delete

-----------------------------------------------------------------------------
(* The theorems *)

LEMMA InvInit == Init => IInv
<1> SUFFICES ASSUME Init PROVE IInv
  OBVIOUS
<1> USE DEF Init
<1>1. TypeOK
  BY MaxRunsAssumption DEF TypeOK, NoRow, Row, NoDelete, HostOrLocal
<1>2. Latest = {}
  BY DEF Latest, ReadyRuns, NoRow
<1>3. Strong
  BY <1>2
  DEF Strong, RowsInOrder, OkHolds, PendingApart, StagedTarget, TouchedIsBuilt,
      DeletesSuperseded, ManifestHolds, Building, Swapping, Pending, NoRow, NoDelete
<1> QED
  BY <1>1, <1>3 DEF IInv

LEMMA InvStep == IInv /\ [Next]_vars => IInv'
<1> SUFFICES ASSUME IInv, [Next]_vars PROVE IInv'
  OBVIOUS
<1>1. TypeOK /\ TypeOK'
  BY TypeStep DEF IInv
<1>2. Orderly' = Orderly
  BY DEF Next, Edit, LoadPackage, Crash, Build, StartRun, Stage, StageFails, SwapDrop,
         SwapRename, SwapFails, Cancel, FailRun, Commit, AutoLoad, AutoLoadFails, Delete,
         DeleteStart, DropTable, DropStaging, DropTableFails, DeleteRow, RebindRead,
         RebindApply, RebindFails, vars, Orderly, Never
<1> SUFFICES ASSUME Orderly PROVE Strong'
  BY <1>1, <1>2 DEF IInv
<1>3. Strong
  BY DEF IInv
<1>4. CASE UNCHANGED vars
  BY <1>3, <1>4, StrongKept DEF vars
<1>5. ASSUME NEW s \in Sources, NEW a \in Addresses, Edit(s, a) PROVE Strong'
  BY <1>3, <1>5, StrongKept DEF Edit
<1>6. CASE LoadPackage
  BY <1>3, <1>6, StrongKept DEF LoadPackage
<1>7. CASE Build
  <2>1. ASSUME NEW include \in SUBSET Sources, NEW force \in BOOLEAN, StartRun(include, force)
        PROVE  Strong'
    BY <1>1, <1>3, <2>1, StartStep
  <2>2. CASE Commit
    BY <1>1, <1>3, <2>2, CommitStep
  <2>3. CASE \/ \E e \in Entries : Stage(e) \/ StageFails(e)
             \/ SwapDrop \/ SwapRename \/ SwapFails
    BY <1>1, <1>3, <2>3, SourceStep
  <2>4. CASE Cancel \/ FailRun \/ AutoLoad \/ AutoLoadFails
    BY <1>1, <1>3, <2>4, EndStep
  <2> QED
    BY <1>7, <2>1, <2>2, <2>3, <2>4 DEF Build
<1>8. CASE Delete
  BY <1>1, <1>3, <1>8, DeleteStep
<1>9. CASE Crash
  BY <1>9, OrderlyRules DEF Crash
<1> QED
  BY <1>4, <1>5, <1>6, <1>7, <1>8, <1>9 DEF Next

LEMMA Invariance == Spec => []IInv
BY InvInit, InvStep, PTL DEF Spec

\* Every step of the build, the reloads and the deletions leaves each variable
\* in its type, for any sources, addresses, number of runs and faults.
THEOREM ServingTypeCorrect == Spec => []TypeOK
<1>1. IInv => TypeOK
  BY DEF IInv
<1> QED
  BY <1>1, Invariance, PTL

\* In an orderly regime the tables hold what the newest manifest says they hold,
\* however builds, failed sources, failed reloads, package loads, edits and
\* deletions of superseded records interleave: what commitManifest records and
\* deriveSelfInstructions carries forward is true.
THEOREM ManifestTellsTruth == Spec => []OrderlyManifestHolds
<1>1. IInv => OrderlyManifestHolds
  BY DEF IInv, Strong, OrderlyManifestHolds
<1> QED
  BY <1>1, Invariance, PTL

-----------------------------------------------------------------------------
(* The records, whatever happens *)

\* The row a deletion is about has settled, so it is not that of the build.
DeletesSettled ==
  del.pc \in {"drop", "staging", "row"} =>
    del.run \in RunIds /\ rows[del.run].status \in {"ready", "over"}

Base == TypeOK /\ RowsInOrder /\ DeletesSettled

\* A manifest that is neither added nor removed stays what it was.
LEMMA ReadyKept ==
  ASSUME ReadyRuns' = ReadyRuns, \A r \in ReadyRuns : rows'[r] = rows[r]
  PROVE  Latest' = Latest /\ Recorded' = Recorded
<1> DEFINE Newest == {q \in ReadyRuns : IsNewest(q)}
<1>1. Newest' = Newest
  BY DEF IsNewest
<1>2. {rows'[r].ok : r \in Newest} = {rows[r].ok : r \in Newest}
  OBVIOUS
<1>3. {rows'[r].ok \cup rows'[r].failed : r \in ReadyRuns}
        = {rows[r].ok \cup rows[r].failed : r \in ReadyRuns}
  OBVIOUS
<1> QED
  BY <1>1, <1>2, <1>3 DEF Latest, Recorded

\* The newest manifest is recorded.
LEMMA LatestRecorded == Latest \subseteq Recorded
BY DEF Latest, Recorded, ReadyRuns

\* A run that ends without a manifest settles its row and no other.
LEMMA OverRow ==
  ASSUME TypeOK, run \in RunIds, rows' = [rows EXCEPT ![run].status = "over"]
  PROVE  rows'[run].status = "over" /\ \A r \in RunIds : r # run => rows'[r] = rows[r]
BY DEF TypeOK, Row

\* Only a commit and the deletion of a row change the manifests on record: a
\* run that starts, ends without one or dies has no manifest.
LEMMA ManifestsKept ==
  ASSUME Base, [Next]_vars, ~Commit, ~DeleteRow
  PROVE  Latest' = Latest /\ Recorded' = Recorded
<1> USE DEF Base, TypeOK
<1>1. ASSUME rows' = rows PROVE ReadyRuns' = ReadyRuns /\ \A r \in ReadyRuns : rows'[r] = rows[r]
  BY <1>1 DEF ReadyRuns
<1>2. ASSUME NEW include \in SUBSET Sources, NEW force \in BOOLEAN, StartRun(include, force)
      PROVE  ReadyRuns' = ReadyRuns /\ \A r \in ReadyRuns : rows'[r] = rows[r]
  <2>1. run + 1 \in RunIds /\ rows[run + 1].status = "none"
    BY <1>2, RegimesAssumption, MaxRunsAssumption DEF StartRun, RunIds, RowsInOrder
  <2>2. /\ rows'[run + 1].status = "open"
        /\ \A r \in RunIds : r # run + 1 => rows'[r] = rows[r]
    BY <1>2, <2>1 DEF StartRun
  <2> QED
    BY <2>1, <2>2 DEF ReadyRuns
<1>3. ASSUME Cancel \/ FailRun
      PROVE  ReadyRuns' = ReadyRuns /\ \A r \in ReadyRuns : rows'[r] = rows[r]
  <2>1. run \in RunIds /\ rows[run].status = "open"
    BY <1>3 DEF Cancel, FailRun, RowsInOrder, Building
  <2>2. /\ rows'[run].status = "over"
        /\ \A r \in RunIds : r # run => rows'[r] = rows[r]
    BY <1>3, <2>1, OverRow DEF Cancel, FailRun
  <2> QED
    BY <2>1, <2>2 DEF ReadyRuns
<1>4. ASSUME Crash PROVE ReadyRuns' = ReadyRuns /\ \A r \in ReadyRuns : rows'[r] = rows[r]
  <2>1. \A r \in RunIds : \/ rows[r].status = "open" /\ rows'[r].status = "over"
                          \/ rows[r].status # "open" /\ rows'[r] = rows[r]
    BY <1>4 DEF Crash, Row
  <2> QED
    BY <2>1 DEF ReadyRuns
<1> QED
  BY <1>1, <1>2, <1>3, <1>4, ReadyKept
  DEF Next, Edit, LoadPackage, Build, Stage, StageFails, SwapDrop, SwapRename, SwapFails,
      AutoLoad, AutoLoadFails, Delete, DeleteStart, DropTable, DropStaging, DropTableFails,
      RebindRead, RebindApply, RebindFails, vars

\* A commit makes its manifest the newest and removes none.
LEMMA CommitIsNewest ==
  ASSUME Base, Commit
  PROVE  /\ run \in RunIds
         /\ rows'[run] = [status |-> "ready", ok |-> ok, failed |-> failed]
         /\ Latest' = ok
         /\ Recorded \subseteq Recorded'
<1> USE DEF Base, TypeOK
<1>1. run \in RunIds /\ rows[run].status = "open"
  BY DEF Commit, RowsInOrder, Building
<1>2. /\ rows'[run] = [status |-> "ready", ok |-> ok, failed |-> failed]
      /\ \A r \in RunIds : r # run => rows'[r] = rows[r]
  BY <1>1 DEF Commit
<1>3. ReadyRuns' = ReadyRuns \cup {run} /\ run \notin ReadyRuns
  BY <1>1, <1>2 DEF ReadyRuns
<1>4. \A r \in ReadyRuns : r \in RunIds /\ r <= run
  BY <1>1, MaxRunsAssumption DEF ReadyRuns, RowsInOrder, RunIds
<1>5. \A r \in ReadyRuns' : IsNewest(r)' <=> r = run
  BY <1>1, <1>3, <1>4, MaxRunsAssumption DEF IsNewest, RunIds
<1>6. {r \in ReadyRuns : IsNewest(r)}' = {run}
  BY <1>3, <1>5
<1>7. Latest' = ok
  BY <1>2, <1>6 DEF Latest
<1>8. Recorded \subseteq Recorded'
  BY <1>2, <1>3, <1>4 DEF Recorded
<1> QED
  BY <1>1, <1>2, <1>7, <1>8

\* Rows stay in order under every fault and every deletion.
LEMMA BaseStep == Base /\ [Next]_vars => Base'
<1> SUFFICES ASSUME Base, [Next]_vars PROVE RowsInOrder' /\ DeletesSettled'
  BY TypeStep DEF Base
<1> USE DEF Base, TypeOK
<1>1. ASSUME NEW include \in SUBSET Sources, NEW force \in BOOLEAN, StartRun(include, force)
      PROVE  RowsInOrder' /\ DeletesSettled'
  <2>1. run + 1 \in RunIds /\ rows[run + 1].status = "none" /\ run' = run + 1
    BY <1>1, RegimesAssumption, MaxRunsAssumption DEF StartRun, RunIds, RowsInOrder
  <2>2. /\ rows'[run + 1].status = "open"
        /\ \A r \in RunIds : r # run + 1 => rows'[r] = rows[r]
    BY <1>1, <2>1 DEF StartRun
  <2>3. RowsInOrder'
    BY <2>1, <2>2, MaxRunsAssumption DEF RowsInOrder, RunIds
  <2>4. DeletesSettled'
    BY <1>1, <2>1, <2>2 DEF StartRun, DeletesSettled
  <2> QED
    BY <2>3, <2>4
<1>2. ASSUME Commit \/ Cancel \/ FailRun PROVE RowsInOrder' /\ DeletesSettled'
  <2>1. run \in RunIds /\ rows[run].status = "open"
    BY <1>2 DEF Commit, Cancel, FailRun, RowsInOrder, Building
  <2>2. /\ rows'[run].status \in {"ready", "over"}
        /\ \A r \in RunIds : r # run => rows'[r] = rows[r]
    <3>1. CASE Commit
      BY <2>1, <3>1 DEF Commit
    <3>2. CASE Cancel \/ FailRun
      BY <2>1, <3>2, OverRow DEF Cancel, FailRun
    <3> QED
      BY <1>2, <3>1, <3>2
  <2>3. run' = run /\ del' = del /\ ~Building'
    BY <1>2 DEF Commit, Cancel, FailRun, EndBuild, Building
  <2>4. RowsInOrder'
    BY <2>1, <2>2, <2>3, MaxRunsAssumption DEF RowsInOrder, RunIds
  <2> QED
    BY <2>1, <2>2, <2>3, <2>4 DEF DeletesSettled
<1>3. ASSUME Crash PROVE RowsInOrder' /\ DeletesSettled'
  <2>1. \A r \in RunIds : rows[r].status = "none" => rows'[r] = rows[r]
    BY <1>3 DEF Crash
  <2> QED
    BY <1>3, <2>1 DEF Crash, EndBuild, NoDelete, Building, RowsInOrder, DeletesSettled
<1>4. ASSUME DeleteRow PROVE RowsInOrder' /\ DeletesSettled'
  <2>1. del.run \in RunIds /\ rows[del.run].status \in {"ready", "over"}
    BY <1>4 DEF DeleteRow, DeletesSettled
  <2>2. /\ rows'[del.run].status = "none"
        /\ \A r \in RunIds : r # del.run => rows'[r] = rows[r]
    BY <1>4, <2>1 DEF DeleteRow, NoRow
  <2>3. del'.pc = "read" /\ run' = run /\ phase' = phase
    BY <1>4 DEF DeleteRow, buildVars
  <2> QED
    BY <2>1, <2>2, <2>3 DEF RowsInOrder, DeletesSettled, Building
<1>5. ASSUME rows' = rows, run' = run, Building' => Building PROVE RowsInOrder'
  BY <1>5 DEF RowsInOrder
<1>6. ASSUME NEW r \in RunIds, NEW dropTables \in BOOLEAN, DeleteStart(r, dropTables)
      PROVE  RowsInOrder' /\ DeletesSettled'
  <2>1. del'.run = r /\ rows' = rows
    BY <1>6 DEF DeleteStart, NoDelete
  <2> QED
    BY <1>5, <1>6, <2>1 DEF DeleteStart, DeletesSettled, buildVars, Building
<1>7. ASSUME DropTable \/ DropStaging \/ DropTableFails \/ RebindRead \/ RebindApply \/ RebindFails
      PROVE  RowsInOrder' /\ DeletesSettled'
  <2>1. rows' = rows /\ run' = run /\ phase' = phase
    BY <1>7 DEF DropTable, DropStaging, DropTableFails, RebindRead, RebindApply, RebindFails, buildVars
  <2>2. del'.pc \in {"drop", "staging", "row"}
          => del'.run = del.run /\ del.pc \in {"drop", "staging", "row"}
    <3>1. CASE DropTable
      BY <3>1 DEF DropTable
    <3>2. CASE DropStaging
      BY <3>2 DEF DropStaging
    <3>3. CASE DropTableFails
      BY <3>3 DEF DropTableFails
    <3>4. CASE RebindRead
      BY <3>4 DEF RebindRead
    <3>5. CASE RebindApply \/ RebindFails
      BY <3>5 DEF RebindApply, RebindFails, NoDelete
    <3> QED
      BY <1>7, <3>1, <3>2, <3>3, <3>4, <3>5
  <2> QED
    BY <1>5, <2>1, <2>2 DEF DeletesSettled, Building
<1>8. ASSUME rows' = rows, del' = del PROVE DeletesSettled'
  BY <1>8 DEF DeletesSettled
<1> QED
  BY <1>1, <1>2, <1>3, <1>4, <1>5, <1>6, <1>7, <1>8
  DEF Next, Edit, LoadPackage, Build, Stage, StageFails, SwapDrop, SwapRename, SwapFails,
      SwapMayFail, AutoLoad, AutoLoadFails, EndBuild, Delete, vars, buildVars, Building

-----------------------------------------------------------------------------
(* Staging tables *)

\* The one staging table there can be is that of the entry being swapped.
StagingInUse == \A s \in Sources : staging[s] # NoTable => Swapping /\ s = target[1]

LEMMA StagingStep ==
  ASSUME TypeOK, Never({"crash", "cleanupFault"}), StagingInUse, [Next]_vars
  PROVE  StagingInUse'
<1> USE DEF TypeOK
<1>1. ~May("crash") /\ ~May("cleanupFault")
  BY DEF Never, May
<1>2. ASSUME ~Swapping, \A s \in Sources : staging'[s] = staging[s] PROVE StagingInUse'
  BY <1>2 DEF StagingInUse
<1>3. ASSUME NEW e \in Entries, Stage(e) PROVE StagingInUse'
  <2>1. /\ staging' = [staging EXCEPT ![e[1]] = e[2]] /\ target' = e /\ Swapping'
        /\ \A s \in Sources : staging[s] = NoTable
    BY <1>3 DEF Stage, StagingInUse, Swapping
  <2> QED
    BY <2>1 DEF StagingInUse
<1>4. CASE SwapDrop
  BY <1>4 DEF SwapDrop, StagingInUse, Swapping
<1>5. ASSUME staging' = [staging EXCEPT ![target[1]] = NoTable] PROVE StagingInUse'
  BY <1>5 DEF StagingInUse
<1>6. CASE SwapRename \/ SwapFails
  BY <1>1, <1>5, <1>6 DEF SwapRename, SwapFails
<1>7. CASE DropStaging
  BY <1>7 DEF DropStaging, StagingInUse, Swapping, buildVars
<1>8. ASSUME staging' = staging, phase' = phase, target' = target PROVE StagingInUse'
  BY <1>8 DEF StagingInUse, Swapping
<1>9. CASE \/ \E include \in SUBSET Sources, force \in BOOLEAN : StartRun(include, force)
           \/ Cancel \/ FailRun \/ Commit \/ AutoLoad \/ AutoLoadFails
  BY <1>2, <1>9 DEF StartRun, Cancel, FailRun, Commit, AutoLoad, AutoLoadFails, Swapping
<1>10. ASSUME NEW e \in Entries, StageFails(e) PROVE StagingInUse'
  BY <1>8, <1>10 DEF StageFails
<1>11. CASE Delete
  BY <1>7, <1>8, <1>11
  DEF Delete, DeleteStart, DropTable, DropTableFails, DeleteRow, RebindRead, RebindApply,
      RebindFails, buildVars
<1> QED
  BY <1>1, <1>3, <1>4, <1>6, <1>8, <1>9, <1>10, <1>11
  DEF Next, Edit, LoadPackage, Crash, Build, vars, buildVars

-----------------------------------------------------------------------------
(* What is bound is on record *)

Rebinding == del.pc \in {"read", "apply"}

\* From the row's removal to the rebind the package may be bound to what is
\* gone. The reload of a build waits between its commit and its end, in which a
\* deletion may remove the manifest: the rebind is then still to come.
BindsRecords ==
  /\ ~Rebinding => bound \subseteq Recorded
  /\ ~Rebinding /\ phase = "load" =>
       run \in RunIds /\ rows[run] = [status |-> "ready", ok |-> ok, failed |-> failed]
  /\ del.pc = "apply" => del.seen \subseteq Recorded

LEMMA RecordedStep ==
  ASSUME Base, Never({"loadFault", "host"}), BindsRecords, [Next]_vars
  PROVE  BindsRecords'
<1>1. ~May("loadFault") /\ ~May("host")
  BY DEF Never, May
<1>2. ASSUME Recorded \subseteq Recorded', bound' = bound \/ bound' \subseteq Recorded',
             del' = del, phase' # "load"
      PROVE  BindsRecords'
  BY <1>2 DEF BindsRecords, Rebinding
<1>3. CASE Commit
  <2>1. del' = del /\ bound' = bound /\ run' = run /\ ok' = ok /\ failed' = failed
    BY <1>3 DEF Commit, serveVars
  <2> QED
    BY <1>3, <2>1, CommitIsNewest DEF BindsRecords, Rebinding
<1>4. CASE DeleteRow
  <2>1. del'.pc = "read"
    BY <1>4 DEF DeleteRow, Base, TypeOK
  <2> QED
    BY <2>1 DEF BindsRecords, Rebinding
<1>5. SUFFICES ASSUME ~Commit, ~DeleteRow PROVE BindsRecords'
  BY <1>3, <1>4
<1>6. Latest' = Latest /\ Recorded' = Recorded
  BY <1>5, ManifestsKept
<1>7. CASE AutoLoad
  <2>1. del' = del /\ phase = "load" /\ phase' = "idle"
    BY <1>7 DEF AutoLoad, EndBuild
  <2>2. ~Rebinding => ok \cup failed \subseteq Recorded
    <3> SUFFICES ASSUME ~Rebinding PROVE ok \cup failed \subseteq Recorded
      OBVIOUS
    <3>1. run \in RunIds /\ rows[run].status = "ready" /\ rows[run].ok = ok /\ rows[run].failed = failed
      BY <2>1 DEF BindsRecords
    <3> QED
      BY <3>1 DEF Recorded, ReadyRuns
  <2>3. bound' = bound \/ bound' = ok \cup failed
    BY <1>7 DEF AutoLoad, ReloadAllModels, serveVars
  <2> QED
    BY <1>6, <2>1, <2>2, <2>3 DEF BindsRecords, Rebinding
<1>8. CASE LoadPackage \/ Crash
  <2>1. bound' \subseteq Latest
    BY <1>1, <1>8 DEF LoadPackage, Crash, CreatePackage
  <2>2. bound' \subseteq Recorded'
    BY <1>6, <2>1, LatestRecorded
  <2>3. CASE LoadPackage
    BY <1>2, <1>6, <2>2, <2>3 DEF LoadPackage, buildVars
  <2>4. CASE Crash
    <3>1. del'.pc = "idle" /\ phase' = "idle"
      BY <2>4 DEF Crash, NoDelete, EndBuild
    <3> QED
      BY <2>2, <3>1 DEF BindsRecords, Rebinding
  <2> QED
    BY <1>8, <2>3, <2>4
<1>9. CASE \/ \E include \in SUBSET Sources, force \in BOOLEAN : StartRun(include, force)
           \/ \E e \in Entries : Stage(e) \/ StageFails(e)
           \/ SwapDrop \/ SwapRename \/ SwapFails \/ Cancel \/ FailRun
  <2>1. bound' = bound /\ del' = del /\ phase' # "load"
    BY <1>9
    DEF StartRun, Stage, StageFails, SwapDrop, SwapRename, SwapFails, Cancel, FailRun,
        EndBuild, serveVars
  <2> QED
    BY <1>2, <1>6, <2>1
<1>10. CASE RebindRead
  <2>1. del'.pc = "apply" /\ del'.seen = Latest
    BY <1>10 DEF RebindRead, Base, TypeOK
  <2> QED
    BY <1>6, <2>1, LatestRecorded DEF BindsRecords, Rebinding
<1>11. CASE RebindApply
  <2>1. del'.pc = "idle" /\ phase' = phase /\ phase # "load" /\ del.pc = "apply"
    BY <1>11 DEF RebindApply, NoDelete, buildVars
  <2>2. bound' \subseteq Recorded
    BY <1>1, <1>11, <2>1 DEF RebindApply, ReloadAllModels, serveVars, BindsRecords
  <2> QED
    BY <1>6, <2>1, <2>2 DEF BindsRecords, Rebinding
<1>12. ASSUME UNCHANGED <<bound, rows, run, phase, ok, failed>>,
              ~Rebinding, del'.pc # "apply"
       PROVE  BindsRecords'
  BY <1>6, <1>12 DEF BindsRecords, Rebinding
<1>13. CASE \/ \E r \in RunIds, dropTables \in BOOLEAN : DeleteStart(r, dropTables)
            \/ DropTable \/ DropStaging \/ DropTableFails
  <2>1. ~Rebinding /\ UNCHANGED <<bound, rows, run, phase, ok, failed>>
    BY <1>13
    DEF DeleteStart, DropTable, DropStaging, DropTableFails, Rebinding, buildVars, serveVars
  <2>2. del'.pc # "apply"
    BY <1>13 DEF DeleteStart, DropTable, DropStaging, DropTableFails, NoDelete, Base, TypeOK
  <2> QED
    BY <1>12, <2>1, <2>2
<1>14. ASSUME UNCHANGED <<bound, rows, run, phase, ok, failed, del>> PROVE BindsRecords'
  BY <1>6, <1>14 DEF BindsRecords, Rebinding
<1>15. CASE \/ \E s \in Sources, a \in Addresses : Edit(s, a)
            \/ UNCHANGED vars
  BY <1>14, <1>15 DEF Edit, vars, buildVars, serveVars
<1>16. ~AutoLoadFails /\ ~RebindFails
  BY <1>1 DEF AutoLoadFails, RebindFails
<1> QED
  BY <1>5, <1>7, <1>8, <1>9, <1>10, <1>11, <1>13, <1>15, <1>16 DEF Next, Build, Delete

-----------------------------------------------------------------------------
(* What is bound is the newest manifest *)

Steady == Never({"buildFault", "swapFault", "loadFault", "deleteRacing", "host"})

\* Where no source fails a run has its whole manifest or none, and its reload
\* or the rebind of a deletion is the only step due before the next of them.
BindsLatest ==
  /\ routing = "local" /\ failed = {}
  /\ StagedTarget
  /\ del.pc # "idle" => phase = "idle"
  /\ phase = "load" => ok = Latest
  /\ del.pc = "apply" => del.seen = Latest
  /\ phase # "load" /\ ~Rebinding =>
       \A s \in Sources : Entry(mem, s) \in bound <=> Entry(mem, s) \in Latest

LEMMA LatestStep ==
  ASSUME Base, Steady, BindsLatest, [Next]_vars
  PROVE  BindsLatest'
<1>1. /\ ~May("buildFault") /\ ~May("swapFault") /\ ~May("loadFault")
      /\ ~May("deleteRacing") /\ ~May("host")
  BY DEF Steady, Never, May
<1>2. TypeOK
  BY DEF Base
<1>3. ASSUME NEW entries, ReloadAllModels(entries), entries = Latest, Latest' = Latest
      PROVE  /\ routing' = "local"
             /\ \A s \in Sources : Entry(mem, s)' \in bound' <=> Entry(mem, s)' \in Latest'
  BY <1>3 DEF ReloadAllModels, serveVars, BindsLatest
<1>4. ASSUME CreatePackage, Latest' = Latest
      PROVE  /\ routing' = "local"
             /\ \A s \in Sources : Entry(mem, s)' \in bound' <=> Entry(mem, s)' \in Latest'
  BY <1>1, <1>4 DEF CreatePackage, HostOrLocal, Entry
<1>5. CASE Commit
  <2>1. /\ phase = "build" /\ phase' = "load" /\ del' = del /\ ok' = ok /\ failed' = failed
        /\ routing' = routing
    BY <1>5 DEF Commit, serveVars
  <2>2. Latest' = ok
    BY <1>5, CommitIsNewest
  <2> QED
    BY <2>1, <2>2 DEF BindsLatest, StagedTarget, Swapping, Rebinding
<1>6. CASE DeleteRow
  <2>1. /\ del'.pc = "read" /\ del.pc # "idle" /\ phase' = phase /\ routing' = routing
        /\ failed' = failed
    BY <1>2, <1>6 DEF DeleteRow, TypeOK, serveVars, buildVars
  <2> QED
    BY <2>1 DEF BindsLatest, StagedTarget, Swapping, Rebinding
<1>7. SUFFICES ASSUME ~Commit, ~DeleteRow PROVE BindsLatest'
  BY <1>5, <1>6
<1>8. Latest' = Latest
  BY <1>7, ManifestsKept
<1>9. CASE AutoLoad
  <2>1. /\ phase = "load" /\ phase' = "idle" /\ failed' = {} /\ del' = del
        /\ ReloadAllModels(ok \cup failed)
    BY <1>9 DEF AutoLoad, EndBuild
  <2>2. ok \cup failed = Latest /\ del.pc = "idle"
    BY <2>1 DEF BindsLatest
  <2> QED
    BY <1>3, <1>8, <2>1, <2>2 DEF BindsLatest, StagedTarget, Swapping
<1>10. CASE LoadPackage
  <2>1. UNCHANGED <<phase, failed, target, staging, ok, del>> /\ phase # "load" /\ CreatePackage
    BY <1>10 DEF LoadPackage, buildVars
  <2> QED
    BY <1>4, <1>8, <2>1 DEF BindsLatest, StagedTarget, Swapping, Rebinding
<1>11. CASE Crash
  <2>1. phase' = "idle" /\ failed' = {} /\ del'.pc = "idle" /\ CreatePackage
    BY <1>11 DEF Crash, EndBuild, NoDelete
  <2> QED
    BY <1>4, <1>8, <2>1 DEF BindsLatest, StagedTarget, Swapping, Rebinding
<1>12. ASSUME UNCHANGED serveVars, del' = del, failed' = {}, StagedTarget',
              phase' # "load", phase # "load", del.pc # "idle" => phase' = "idle"
       PROVE  BindsLatest'
  BY <1>8, <1>12 DEF BindsLatest, serveVars, Rebinding, Entry
<1>13. ASSUME NEW include \in SUBSET Sources, NEW force \in BOOLEAN, StartRun(include, force)
       PROVE  BindsLatest'
  <2>1. phase = "idle" /\ phase' = "build" /\ del.pc = "idle" /\ del' = del /\ failed' = failed
    BY <1>1, <1>13 DEF StartRun
  <2> QED
    BY <1>12, <1>13, <2>1 DEF StartRun, StagedTarget, Swapping, BindsLatest
<1>14. ASSUME NEW e \in Entries, Stage(e) PROVE BindsLatest'
  <2>1. phase = "build" /\ phase' = "staged" /\ del' = del /\ failed' = failed
    BY <1>14 DEF Stage
  <2>2. StagedTarget'
    BY <1>2, <1>14 DEF Stage, StagedTarget, TypeOK, Entries
  <2>3. del.pc = "idle"
    BY <2>1 DEF BindsLatest
  <2> QED
    BY <1>12, <1>14, <2>1, <2>2, <2>3 DEF Stage, BindsLatest
<1>15. CASE SwapDrop \/ SwapRename
  <2>1. /\ phase \in {"staged", "swap"} /\ phase' \in {"swap", "build"} /\ del' = del
        /\ failed' = failed /\ UNCHANGED serveVars
    BY <1>15 DEF SwapDrop, SwapRename
  <2>2. StagedTarget'
    BY <1>15 DEF SwapDrop, SwapRename, StagedTarget, Swapping, BindsLatest
  <2>3. del.pc = "idle"
    BY <2>1 DEF BindsLatest
  <2> QED
    BY <1>12, <2>1, <2>2, <2>3 DEF BindsLatest
<1>16. ~SwapFails
  <2> SUFFICES ASSUME SwapFails PROVE FALSE
    OBVIOUS
  <2>1. phase = "swap" /\ staging[target[1]] = NoTable
    BY <1>1 DEF SwapFails, SwapMayFail
  <2> QED
    BY <1>2, <2>1, NoTableAssumption DEF BindsLatest, StagedTarget, Swapping, TypeOK, Entries
<1>17. CASE Cancel
  <2>1. phase = "build" /\ phase' = "idle" /\ failed' = {} /\ del' = del /\ UNCHANGED serveVars
    BY <1>17 DEF Cancel, EndBuild
  <2> QED
    BY <1>12, <2>1 DEF StagedTarget, Swapping
<1>18. ~FailRun /\ ~AutoLoadFails /\ ~RebindFails /\ ~(\E e \in Entries : StageFails(e))
  BY <1>1 DEF FailRun, BuiltNothing, BindsLatest, AutoLoadFails, RebindFails, StageFails
<1>19. CASE RebindRead
  <2>1. /\ del'.pc = "apply" /\ del'.seen = Latest /\ del.pc = "read" /\ phase' = phase
        /\ UNCHANGED <<routing, failed>>
    BY <1>2, <1>19 DEF RebindRead, TypeOK, serveVars, buildVars
  <2> QED
    BY <1>8, <2>1 DEF BindsLatest, StagedTarget, Swapping, Rebinding
<1>20. CASE RebindApply
  <2>1. /\ del'.pc = "idle" /\ del.pc = "apply" /\ phase' = phase /\ phase # "load"
        /\ UNCHANGED <<failed, target, staging>> /\ ReloadAllModels(del.seen)
    BY <1>1, <1>20 DEF RebindApply, NoDelete, buildVars
  <2>2. del.seen = Latest
    BY <2>1 DEF BindsLatest
  <2> QED
    BY <1>3, <1>8, <2>1, <2>2 DEF BindsLatest, StagedTarget, Swapping
<1>21. CASE \/ \E r \in RunIds, dropTables \in BOOLEAN : DeleteStart(r, dropTables)
            \/ DropTable \/ DropStaging \/ DropTableFails
  <2>1. UNCHANGED <<mem, bound, routing, phase, failed>> /\ ~Rebinding /\ phase = "idle"
    BY <1>1, <1>21
    DEF DeleteStart, DropTable, DropStaging, DropTableFails, Rebinding, buildVars, serveVars,
        BindsLatest
  <2>2. del'.pc # "apply"
    BY <1>2, <1>21 DEF DeleteStart, DropTable, DropStaging, DropTableFails, NoDelete, TypeOK
  <2> QED
    BY <1>8, <2>1, <2>2 DEF BindsLatest, StagedTarget, Swapping, Rebinding, Entry
<1>22. CASE \/ \E s \in Sources, a \in Addresses : Edit(s, a)
            \/ UNCHANGED vars
  <2>1. UNCHANGED <<mem, bound, routing, phase, failed, ok, target, staging, del>>
    BY <1>22 DEF Edit, vars, buildVars, serveVars
  <2> QED
    BY <1>8, <2>1 DEF BindsLatest, StagedTarget, Swapping, Rebinding, Entry
<1> QED
  BY <1>7, <1>9, <1>10, <1>11, <1>13, <1>14, <1>15, <1>16, <1>17, <1>18, <1>19, <1>20,
     <1>21, <1>22
  DEF Next, Build, Delete

-----------------------------------------------------------------------------
(* What is served is what is loaded *)

Faultless == Orderly /\ Never({"buildFault", "loadFault"})

\* The package is bound to the newest manifest or to part of it. Between a
\* commit and its reload it is bound to the one before, whose tables are as it
\* says but for those the build has written.
BindsTruth ==
  /\ failed = {}
  /\ phase = "load" =>
       ok = Latest /\ \A e \in bound : table[e[1]] = e[2] \/ e[1] \in touched
  /\ phase # "load" => bound \subseteq Latest
  /\ del.pc = "apply" => del.seen \subseteq Latest

LEMMA TruthStep ==
  ASSUME Base, Faultless, Strong, BindsTruth, [Next]_vars
  PROVE  BindsTruth'
<1>1. /\ ~May("buildFault") /\ ~May("loadFault") /\ ~May("crash") /\ ~May("cancel")
      /\ ~May("swapFault") /\ ~May("deleteRacing")
  BY OrderlyRules DEF Faultless, Never, May
<1>2. TypeOK /\ StagedTarget /\ DeletesSuperseded /\ ManifestHolds
  BY DEF Base, Strong
<1>3. CASE Commit
  <2>1. /\ phase = "build" /\ phase' = "load"
        /\ UNCHANGED <<bound, table, touched, ok, failed, del>>
    BY <1>3 DEF Commit, serveVars
  <2>2. Latest' = ok /\ del.pc = "idle"
    BY <1>2, <1>3, <2>1, CommitIsNewest DEF DeletesSuperseded
  <2>3. \A e \in bound : table[e[1]] = e[2] \/ e[1] \in touched
    BY <1>2, <2>1 DEF BindsTruth, ManifestHolds
  <2> QED
    BY <2>1, <2>2, <2>3 DEF BindsTruth
<1>4. Latest' = Latest \/ Commit
  BY <1>2, ManifestsKept, SupersededRowGone
<1>5. SUFFICES ASSUME Latest' = Latest PROVE BindsTruth'
  BY <1>3, <1>4
<1>6. ASSUME phase # "load", phase' # "load", failed' = {}, bound' = bound \/ bound' \subseteq Latest,
             del' = del
      PROVE  BindsTruth'
  BY <1>5, <1>6 DEF BindsTruth
<1>7. ~FailRun /\ ~Cancel /\ ~Crash /\ ~AutoLoadFails /\ ~RebindFails
      /\ ~(\E e \in Entries : StageFails(e))
  BY <1>1
  DEF FailRun, BuiltNothing, BindsTruth, Cancel, Crash, AutoLoadFails, RebindFails, StageFails
<1>8. ~SwapFails
  <2> SUFFICES ASSUME SwapFails PROVE FALSE
    OBVIOUS
  <2>1. phase = "swap" /\ staging[target[1]] = NoTable
    BY <1>1 DEF SwapFails, SwapMayFail
  <2> QED
    BY <1>2, <2>1, NoTableAssumption DEF StagedTarget, Swapping, TypeOK, Entries
<1>9. CASE AutoLoad
  <2>1. /\ phase = "load" /\ phase' = "idle" /\ failed' = {} /\ del' = del
        /\ ReloadAllModels(ok \cup failed)
    BY <1>9 DEF AutoLoad, EndBuild
  <2>2. ok \cup failed = Latest
    BY <2>1 DEF BindsTruth
  <2>3. bound' \subseteq Latest
    BY <2>1, <2>2 DEF ReloadAllModels, serveVars
  <2> QED
    BY <1>5, <2>1, <2>3 DEF BindsTruth
<1>10. CASE LoadPackage
  <2>1. bound' \subseteq Latest /\ phase # "load"
    BY <1>10 DEF LoadPackage, CreatePackage
  <2> QED
    BY <1>6, <1>10, <2>1 DEF LoadPackage, buildVars, BindsTruth
<1>11. CASE \/ \E include \in SUBSET Sources, force \in BOOLEAN : StartRun(include, force)
            \/ \E e \in Entries : Stage(e)
            \/ SwapDrop \/ SwapRename
  <2>1. /\ phase # "load" /\ phase' # "load" /\ failed' = failed /\ bound' = bound
        /\ del' = del
    BY <1>11 DEF StartRun, Stage, SwapDrop, SwapRename, serveVars
  <2> QED
    BY <1>6, <2>1 DEF BindsTruth
<1>12. ASSUME phase = "idle", phase' = phase, failed' = failed,
              bound' = bound \/ bound' \subseteq Latest,
              del'.pc = "apply" => del'.seen \subseteq Latest
       PROVE  BindsTruth'
  BY <1>5, <1>12 DEF BindsTruth
<1>13. CASE Delete
  <2>1. phase = "idle" /\ phase' = phase /\ failed' = failed
    BY <1>1, <1>2, <1>13
    DEF Delete, DeleteStart, DropTable, DropStaging, DropTableFails, DeleteRow, RebindRead,
        RebindApply, RebindFails, DeletesSuperseded, buildVars
  <2>2. CASE RebindApply
    <3>1. del.seen \subseteq Latest
      BY <2>2 DEF RebindApply, BindsTruth
    <3>2. bound' = bound \/ bound' \subseteq Latest
      BY <2>2, <3>1 DEF RebindApply, ReloadAllModels, serveVars
    <3>3. del'.pc = "idle"
      BY <2>2 DEF RebindApply, NoDelete
    <3> QED
      BY <1>12, <2>1, <3>2, <3>3
  <2>3. CASE RebindRead
    <3>1. del'.seen = Latest /\ bound' = bound
      BY <1>2, <2>3 DEF RebindRead, TypeOK, serveVars
    <3> QED
      BY <1>12, <2>1, <3>1
  <2>4. CASE \/ \E r \in RunIds, dropTables \in BOOLEAN : DeleteStart(r, dropTables)
             \/ DropTable \/ DropStaging \/ DropTableFails \/ DeleteRow
    <3>1. bound' = bound
      BY <2>4 DEF DeleteStart, DropTable, DropStaging, DropTableFails, DeleteRow, serveVars
    <3>2. CASE \E r \in RunIds, dropTables \in BOOLEAN : DeleteStart(r, dropTables)
      <4>1. del'.pc \in {"drop", "row"}
        BY <3>2 DEF DeleteStart, NoDelete
      <4> QED
        BY <1>12, <2>1, <3>1, <4>1
    <3>3. CASE DropTable \/ DropStaging \/ DropTableFails \/ DeleteRow
      <4>1. del'.pc # "apply"
        BY <1>2, <3>3 DEF DropTable, DropStaging, DropTableFails, DeleteRow, TypeOK
      <4> QED
        BY <1>12, <2>1, <3>1, <4>1
    <3> QED
      BY <2>4, <3>2, <3>3
  <2> QED
    BY <1>7, <1>13, <2>2, <2>3, <2>4 DEF Delete
<1>14. CASE \/ \E s \in Sources, a \in Addresses : Edit(s, a)
            \/ UNCHANGED vars
  <2>1. UNCHANGED <<phase, failed, bound, table, touched, ok, del>>
    BY <1>14 DEF Edit, vars, buildVars, serveVars
  <2> QED
    BY <1>5, <2>1 DEF BindsTruth
<1> QED
  BY <1>3, <1>7, <1>8, <1>9, <1>10, <1>11, <1>13, <1>14 DEF Next, Build

-----------------------------------------------------------------------------
(* The theorems about serving *)

ServingInv ==
  /\ IInv
  /\ RowsInOrder /\ DeletesSettled
  /\ Never({"crash", "cleanupFault"}) => StagingInUse
  /\ Never({"loadFault", "host"}) => BindsRecords
  /\ Steady => BindsLatest
  /\ Faultless => BindsTruth

LEMMA ServingInit == Init => ServingInv
<1> SUFFICES ASSUME Init PROVE ServingInv
  OBVIOUS
<1>1. IInv
  BY InvInit
<1>2. Latest = {}
  BY DEF Init, Latest, ReadyRuns, NoRow
<1>3. RowsInOrder /\ DeletesSettled
  BY DEF Init, RowsInOrder, DeletesSettled, NoRow, NoDelete, Building
<1>4. StagingInUse
  BY DEF Init, StagingInUse
<1>5. BindsRecords
  BY DEF Init, BindsRecords, NoDelete, Rebinding
<1>6. Steady => BindsLatest
  BY <1>2 DEF Init, Steady, Never, May, HostOrLocal, BindsLatest, StagedTarget, Swapping, NoDelete
<1>7. BindsTruth
  BY <1>2 DEF Init, BindsTruth, NoDelete
<1> QED
  BY <1>1, <1>3, <1>4, <1>5, <1>6, <1>7 DEF ServingInv

LEMMA ServingStep == ServingInv /\ [Next]_vars => ServingInv'
<1> SUFFICES ASSUME ServingInv, [Next]_vars PROVE ServingInv'
  OBVIOUS
<1>1. Base /\ Base'
  BY BaseStep DEF ServingInv, IInv, Base
<1>2. IInv'
  BY InvStep DEF ServingInv
<1>3. regime' = regime
  BY DEF Next, Edit, LoadPackage, Crash, Build, StartRun, Stage, StageFails, SwapDrop,
         SwapRename, SwapFails, Cancel, FailRun, Commit, AutoLoad, AutoLoadFails, Delete,
         DeleteStart, DropTable, DropStaging, DropTableFails, DeleteRow, RebindRead,
         RebindApply, RebindFails, vars
<1>4. (Never({"crash", "cleanupFault"}) => StagingInUse)'
  BY <1>1, <1>3, StagingStep DEF ServingInv, Base, Never
<1>5. (Never({"loadFault", "host"}) => BindsRecords)'
  BY <1>1, <1>3, RecordedStep DEF ServingInv, Never
<1>6. (Steady => BindsLatest)'
  BY <1>1, <1>3, LatestStep DEF ServingInv, Never, Steady
<1>7. (Faultless => BindsTruth)'
  <2>1. Faultless' = Faultless
    BY <1>3 DEF Faultless, Orderly, Never
  <2>2. Faultless => Strong
    BY DEF ServingInv, IInv, Faultless
  <2> QED
    BY <1>1, <2>1, <2>2, TruthStep DEF ServingInv
<1> QED
  BY <1>1, <1>2, <1>4, <1>5, <1>6, <1>7 DEF ServingInv, Base

LEMMA ServingInvariance == Spec => []ServingInv
BY ServingInit, ServingStep, PTL DEF Spec

\* A build that is over has left no staging table, whether it committed, failed
\* or was cancelled and whatever a deletion swept meanwhile: the clean-up of a
\* failed swap in buildOneSource accounts for every one, as long as it runs.
THEOREM StagingAlwaysReclaimed == Spec => []StagingReclaimed
<1>1. ServingInv => StagingReclaimed
  BY DEF ServingInv, StagingInUse, StagingReclaimed, Swapping
<1> QED
  BY <1>1, ServingInvariance, PTL

\* Once a deletion is over the package is bound to no entry of a record that is
\* gone, also when the deletion raced a build, its commit and its reload: the
\* rebind of rebindServeBindingsAfterDelete comes after all of them.
THEOREM BoundAlwaysRecorded == Spec => []BoundIsRecorded
<1>1. ServingInv => BoundIsRecorded
  BY DEF ServingInv, BindsRecords, BoundIsRecorded, Rebinding
<1> QED
  BY <1>1, ServingInvariance, PTL

\* At rest exactly the loaded SQL that the newest manifest names is served from
\* its table: autoLoadManifest, rebindServeBindingsAfterDelete and
\* rebindServeBindingsFromLocalStore bind to the same effect, through
\* cancellations, crashes and deletions of any record.
THEOREM BoundAlwaysLatest == Spec => []BoundIsLatest
<1>1. ServingInv => BoundIsLatest
  BY DEF ServingInv, BindsLatest, BoundIsLatest, Steady, AtRest, Serves, Rebinding
<1> QED
  BY <1>1, ServingInvariance, PTL

\* In an orderly regime without failed builds or reloads, a source that is
\* served from its table is served the SQL it was compiled with, except between
\* the swap of that table and the reload after it.
THEOREM AlwaysServesItsSql == Spec => []ServesItsSql
<1>1. ServingInv => ServesItsSql
  <2> SUFFICES ASSUME ServingInv, Faultless, NEW s \in Sources, Entry(mem, s) \in bound
               PROVE  table[s] = mem[s] \/ s \in touched
    BY DEF ServesItsSql, Serves, Faultless
  <2>1. BindsTruth /\ ManifestHolds
    BY DEF ServingInv, IInv, Faultless, Strong
  <2> QED
    BY <2>1 DEF BindsTruth, ManifestHolds, Entry
<1> QED
  BY <1>1, ServingInvariance, PTL

=============================================================================
