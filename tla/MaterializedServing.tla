------------------------- MODULE MaterializedServing -------------------------
(* What the auto-run of one package writes, records and serves. A source built *)
(* into its own warehouse lands in a table that keeps one name across all the  *)
(* generations of its SQL; a manifest entry pairs the source with the content  *)
(* address of the SQL a run built it from, and the package serves the source   *)
(* from its table whenever the address it compiled is bound. The table, the    *)
(* manifests and the binding are changed by different steps: here are those of *)
(* the build, of the reloads and of a record's deletion.                       *)
(*                                                                             *)
(* MaterializationRuns shows that one run at a time is active, so there is one *)
(* build here. The reload that follows a commit queues for the package lock    *)
(* one statement after it, before any later request can, so a later run        *)
(* compiles its plan, and a deletion rebinds, after it.                        *)
EXTENDS Naturals

CONSTANTS
  Sources,   \* persist sources, each with its own table
  Addresses, \* content addresses: the SQL a source may be given
  NoTable,   \* no table by that name
  MaxRuns,   \* runs of the package, numbered by created_at
  Regimes    \* what may happen in a behaviour, and how many runs it has

\* What may go wrong with a run, which records are deleted and when, and
\* whether a host distributes the manifest of the package (manifestLocation).
Events ==
  {"cancel", "crash", "buildFault", "swapFault", "cleanupFault", "loadFault",
   "deleteSuperseded", "deleteNewest", "deleteRacing", "host"}

ASSUME NoTableAssumption == NoTable \notin Addresses
ASSUME MaxRunsAssumption == MaxRuns \in Nat
ASSUME RegimesAssumption == Regimes \subseteq [events : SUBSET Events, runs : 0 .. MaxRuns]

VARIABLES
  regime,   \* the regime of this behaviour
  disk,     \* the SQL of each source in the package directory
  mem,      \* the SQL of each source in the loaded models
  bound,    \* entries bound for serving from the local manifests
  routing,  \* whose manifest is bound: "local" or "host"
  table,    \* the SQL each physical table was populated from
  staging,  \* and each staging table
  rows,     \* the records of the runs, with their manifests
  run,      \* number of runs created; the last one is the one being built
  phase,    \* where its build is
  target,   \* the entry it is building
  todo,     \* the entries it has still to build
  ok,       \* the entries of its manifest whose tables it vouches for
  failed,   \* the entries that mirror a failed source
  touched,  \* the sources whose tables it has written
  del       \* the deletion in progress

buildVars == <<run, phase, target, todo, ok, failed, touched>>
serveVars == <<mem, bound, routing>>
vars == <<regime, disk, serveVars, table, staging, rows, buildVars, del>>

-----------------------------------------------------------------------------
Entries == Sources \X Addresses
Entry(code, s) == <<s, code[s]>>
SourcesOf(entries) == {e[1] : e \in entries}

RunIds == 1 .. MaxRuns
NoRow == [status |-> "none", ok |-> {}, failed |-> {}]
Row == [status : {"none", "open", "ready", "over"},
        ok : SUBSET Entries, failed : SUBSET Entries]
NoDelete == [pc |-> "idle", run |-> 0, left |-> {}, seen |-> {}]

TypeOK ==
  /\ regime \in Regimes
  /\ disk \in [Sources -> Addresses]
  /\ mem \in [Sources -> Addresses]
  /\ bound \subseteq Entries
  /\ routing \in {"local", "host"}
  /\ table \in [Sources -> Addresses \cup {NoTable}]
  /\ staging \in [Sources -> Addresses \cup {NoTable}]
  /\ rows \in [RunIds -> Row]
  /\ run \in 0 .. MaxRuns
  /\ phase \in {"idle", "build", "staged", "swap", "load"}
  /\ target \in Entries
  /\ todo \subseteq Entries
  /\ ok \subseteq Entries
  /\ failed \subseteq Entries
  /\ touched \subseteq Sources
  /\ del \in [pc : {"idle", "drop", "staging", "row", "read", "apply"},
              run : 0 .. MaxRuns, left : SUBSET Entries, seen : SUBSET Entries]

May(event) == event \in regime.events
HostOrLocal == IF May("host") THEN "host" ELSE "local"

Init ==
  /\ regime \in Regimes
  /\ disk \in [Sources -> Addresses]
  /\ mem = disk
  /\ bound = {}
  /\ routing = HostOrLocal
  /\ table = [s \in Sources |-> NoTable]
  /\ staging = [s \in Sources |-> NoTable]
  /\ rows = [r \in RunIds |-> NoRow]
  /\ run = 0
  /\ phase = "idle"
  /\ target \in Entries
  /\ todo = {} /\ ok = {} /\ failed = {} /\ touched = {}
  /\ del = NoDelete

ReadyRuns == {r \in RunIds : rows[r].status = "ready"}
IsNewest(r) == r \in ReadyRuns /\ \A q \in ReadyRuns : q <= r

\* getMostRecentManifestEntries: the entries of the newest successful run, less
\* those that mirror a failure.
Latest == UNION {rows[r].ok : r \in {q \in ReadyRuns : IsNewest(q)}}

-----------------------------------------------------------------------------
(* The package *)

\* The author edits the model of a source.
Edit(s, a) ==
  /\ a # disk[s]
  /\ disk' = [disk EXCEPT ![s] = a]
  /\ UNCHANGED <<regime, serveVars, table, staging, rows, buildVars, del>>

\* reloadAllModels: recompile from disk against the entries and bind them, but
\* not when there is nothing to bind and nothing was bound.
ReloadAllModels(entries) ==
  IF entries = {} /\ bound = {} /\ routing = "local"
  THEN UNCHANGED serveVars
  ELSE /\ mem' = disk
       /\ bound' = entries
       /\ routing' = "local"

\* Variant: the package is compiled and bound to nothing.
CreatePackageUnbound ==
  /\ mem' = disk
  /\ bound' = {}
  /\ routing' = HostOrLocal

\* Package.create, then rebindServeBindingsFromLocalStore: the entries of the
\* newest run whose SQL the package has just compiled, unless a host binds it.
CreatePackage ==
  /\ mem' = disk
  /\ bound' = IF May("host") THEN {}
              ELSE {e \in Latest : e = Entry(disk, e[1])}
  /\ routing' = HostOrLocal

LoadPackage ==
  /\ phase # "load"
  /\ CreatePackage
  /\ UNCHANGED <<regime, disk, table, staging, rows, buildVars, del>>

-----------------------------------------------------------------------------
(* The build *)

EndBuild ==
  /\ phase' = "idle"
  /\ todo' = {} /\ ok' = {} /\ failed' = {} /\ touched' = {}
  /\ UNCHANGED <<run, target>>

\* Variant: a source is carried forward by its name, whatever its address.
StartRunByName(include, force) ==
  /\ phase = "idle"
  /\ run < regime.runs
  /\ May("deleteRacing") \/ del.pc = "idle"
  /\ LET planned == {Entry(disk, s) : s \in include}
         carried == IF force THEN {} ELSE {e \in planned : e[1] \in SourcesOf(Latest)}
     IN /\ ok' = carried
        /\ todo' = planned \ carried
  /\ run' = run + 1
  /\ rows' = [rows EXCEPT ![run + 1].status = "open"]
  /\ phase' = "build"
  /\ UNCHANGED <<regime, disk, serveVars, table, staging, target, failed, touched, del>>

\* The plan of a run and deriveSelfInstructions: of the sources included, those
\* of an unchanged address are carried forward unless the run is forced.
StartRun(include, force) ==
  /\ phase = "idle"
  /\ run < regime.runs
  /\ May("deleteRacing") \/ del.pc = "idle"
  /\ LET planned == {Entry(disk, s) : s \in include}
         carried == IF force THEN {} ELSE planned \cap Latest
     IN /\ ok' = carried
        /\ todo' = planned \ carried
  /\ run' = run + 1
  /\ rows' = [rows EXCEPT ![run + 1].status = "open"]
  /\ phase' = "build"
  /\ UNCHANGED <<regime, disk, serveVars, table, staging, target, failed, touched, del>>

\* buildOneSource: the CTAS of the staging table.
Stage(e) ==
  /\ phase = "build"
  /\ e \in todo
  /\ todo' = todo \ {e}
  /\ target' = e
  /\ staging' = [staging EXCEPT ![e[1]] = e[2]]
  /\ phase' = "staged"
  /\ UNCHANGED <<regime, disk, serveVars, table, rows, run, ok, failed, touched, del>>

\* The CTAS fails: the failure is mirrored in the entries and the run goes on.
StageFails(e) ==
  /\ May("buildFault")
  /\ phase = "build"
  /\ e \in todo
  /\ todo' = todo \ {e}
  /\ failed' = failed \cup {e}
  /\ UNCHANGED <<regime, disk, serveVars, table, staging, rows, run, phase, target, ok, touched, del>>

\* DROP TABLE IF EXISTS of the physical table.
SwapDrop ==
  /\ phase = "staged"
  /\ table' = [table EXCEPT ![target[1]] = NoTable]
  /\ touched' = touched \cup {target[1]}
  /\ phase' = "swap"
  /\ UNCHANGED <<regime, disk, serveVars, staging, rows, run, target, todo, ok, failed, del>>

\* ALTER TABLE ... RENAME of the staging table.
SwapRename ==
  /\ phase = "swap"
  /\ staging[target[1]] # NoTable
  /\ table' = [table EXCEPT ![target[1]] = staging[target[1]]]
  /\ staging' = [staging EXCEPT ![target[1]] = NoTable]
  /\ ok' = ok \cup {target}
  /\ phase' = "build"
  /\ UNCHANGED <<regime, disk, serveVars, rows, run, target, todo, failed, touched, del>>

SwapMayFail ==
  \/ phase \in {"staged", "swap"} /\ May("swapFault")
  \/ phase = "swap" /\ staging[target[1]] = NoTable

\* Variant: the staging table of a failed swap is left behind.
SwapFailsUncleaned ==
  /\ SwapMayFail
  /\ failed' = failed \cup {target}
  /\ phase' = "build"
  /\ UNCHANGED <<regime, disk, serveVars, table, staging, rows, run, target, todo, ok, touched, del>>

\* The swap fails: the staging table is dropped, if that does not fail as well,
\* and the failure mirrored.
SwapFails ==
  /\ SwapMayFail
  /\ \/ staging' = [staging EXCEPT ![target[1]] = NoTable]
     \/ May("cleanupFault") /\ staging' = staging
  /\ failed' = failed \cup {target}
  /\ phase' = "build"
  /\ UNCHANGED <<regime, disk, serveVars, table, rows, run, target, todo, ok, touched, del>>

\* executeInstructedBuild sees the signal before its next source.
Cancel ==
  /\ May("cancel")
  /\ phase = "build"
  /\ todo # {}
  /\ rows' = [rows EXCEPT ![run].status = "over"]
  /\ EndBuild
  /\ UNCHANGED <<regime, disk, serveVars, table, staging, del>>

BuiltNothing == failed # {} /\ SourcesOf(ok) \cap touched = {}

\* A run whose every build failed is FAILED.
FailRun ==
  /\ phase = "build"
  /\ todo = {}
  /\ BuiltNothing
  /\ rows' = [rows EXCEPT ![run].status = "over"]
  /\ EndBuild
  /\ UNCHANGED <<regime, disk, serveVars, table, staging, del>>

\* commitManifest.
Commit ==
  /\ phase = "build"
  /\ todo = {}
  /\ ~BuiltNothing
  /\ rows' = [rows EXCEPT ![run] = [status |-> "ready", ok |-> ok, failed |-> failed]]
  /\ phase' = "load"
  /\ UNCHANGED <<regime, disk, serveVars, table, staging, run, target, todo, ok, failed, touched, del>>

\* autoLoadManifest: every entry with a table name is bound, a mirrored failure
\* among them, and whoever binds the package.
AutoLoad ==
  /\ phase = "load"
  /\ ReloadAllModels(ok \cup failed)
  /\ EndBuild
  /\ UNCHANGED <<regime, disk, table, staging, rows, del>>

\* The reload fails; the failure is logged.
AutoLoadFails ==
  /\ May("loadFault")
  /\ phase = "load"
  /\ EndBuild
  /\ UNCHANGED <<regime, disk, serveVars, table, staging, rows, del>>

\* The process dies and the package is loaded again. The row of an unfinished
\* build is taken to be stopped by an operator, which is how it ever settles.
Crash ==
  /\ May("crash")
  /\ rows' = [r \in RunIds |->
                IF rows[r].status = "open" THEN [rows[r] EXCEPT !.status = "over"]
                                           ELSE rows[r]]
  /\ CreatePackage
  /\ EndBuild
  /\ del' = NoDelete
  /\ UNCHANGED <<regime, disk, table, staging>>

-----------------------------------------------------------------------------
(* Deletion of a record *)

\* Variant: the sweep does not ask which tables other runs name.
ReferencedByNone(r) == {}

\* The sources whose table another successful run names; an entry that mirrors a
\* failure has no connectionName and does not count.
Referenced(r) == SourcesOf(UNION {rows[q].ok : q \in ReadyRuns \ {r}})

IsSuperseded(r) == rows[r].status = "over" \/ \E q \in ReadyRuns : q > r

\* deleteMaterialization checks the status and, with dropTables, collects the
\* tables no other run names.
DeleteStart(r, dropTables) ==
  /\ del.pc = "idle"
  /\ rows[r].status \in {"ready", "over"}
  /\ \/ May("deleteNewest")
     \/ May("deleteSuperseded") /\ IsSuperseded(r)
  /\ May("deleteRacing") \/ phase = "idle"
  /\ del' = [NoDelete EXCEPT
       !.pc = IF dropTables THEN "drop" ELSE "row",
       !.run = r,
       !.left = IF dropTables THEN {e \in rows[r].ok : e[1] \notin Referenced(r)}
                              ELSE {}]
  /\ UNCHANGED <<regime, disk, serveVars, table, staging, rows, buildVars>>

DropTable ==
  /\ del.pc = "drop"
  /\ \E e \in del.left :
       /\ table' = [table EXCEPT ![e[1]] = NoTable]
       /\ del' = [del EXCEPT !.pc = "staging", !.left = @ \ {e}, !.seen = {e}]
  /\ UNCHANGED <<regime, disk, serveVars, staging, rows, buildVars>>

\* The staging table a crash may have left; its name holds the address.
DropStaging ==
  /\ del.pc = "staging"
  /\ staging' = [s \in Sources |->
                   IF <<s, staging[s]>> \in del.seen THEN NoTable ELSE staging[s]]
  /\ del' = [del EXCEPT !.pc = "drop", !.seen = {}]
  /\ UNCHANGED <<regime, disk, serveVars, table, rows, buildVars>>

\* A failed DROP is logged and the sweep goes on.
DropTableFails ==
  /\ May("swapFault")
  /\ del.pc = "drop"
  /\ \E e \in del.left : del' = [del EXCEPT !.left = @ \ {e}]
  /\ UNCHANGED <<regime, disk, serveVars, table, staging, rows, buildVars>>

DeleteRow ==
  /\ del.pc \in {"drop", "row"}
  /\ del.left = {}
  /\ rows' = [rows EXCEPT ![del.run] = NoRow]
  /\ del' = [del EXCEPT !.pc = "read"]
  /\ UNCHANGED <<regime, disk, serveVars, table, staging, buildVars>>

\* rebindServeBindingsAfterDelete reads the newest remaining manifest ...
RebindRead ==
  /\ del.pc = "read"
  /\ del' = [del EXCEPT !.pc = "apply", !.seen = Latest]
  /\ UNCHANGED <<regime, disk, serveVars, table, staging, rows, buildVars>>

\* Variant: nothing is rebound when no run is left to bind.
RebindApplyUnlessEmpty ==
  /\ del.pc = "apply"
  /\ phase # "load"
  /\ IF May("host") \/ del.seen = {} THEN UNCHANGED serveVars
                                          ELSE ReloadAllModels(del.seen)
  /\ del' = NoDelete
  /\ UNCHANGED <<regime, disk, table, staging, rows, buildVars>>

\* ... and binds it once it has the package lock, unless a host binds it.
RebindApply ==
  /\ del.pc = "apply"
  /\ phase # "load"
  /\ IF May("host") THEN UNCHANGED serveVars ELSE ReloadAllModels(del.seen)
  /\ del' = NoDelete
  /\ UNCHANGED <<regime, disk, table, staging, rows, buildVars>>

RebindFails ==
  /\ May("loadFault")
  /\ del.pc \in {"read", "apply"}
  /\ del' = NoDelete
  /\ UNCHANGED <<regime, disk, serveVars, table, staging, rows, buildVars>>

-----------------------------------------------------------------------------
Build ==
  \/ \E include \in SUBSET Sources, force \in BOOLEAN : StartRun(include, force)
  \/ \E e \in Entries : Stage(e) \/ StageFails(e)
  \/ SwapDrop \/ SwapRename \/ SwapFails
  \/ Cancel \/ FailRun \/ Commit
  \/ AutoLoad \/ AutoLoadFails

Delete ==
  \/ \E r \in RunIds, dropTables \in BOOLEAN : DeleteStart(r, dropTables)
  \/ DropTable \/ DropStaging \/ DropTableFails
  \/ DeleteRow \/ RebindRead \/ RebindApply \/ RebindFails

Next ==
  \/ \E s \in Sources, a \in Addresses : Edit(s, a)
  \/ LoadPackage
  \/ Build
  \/ Delete
  \/ Crash

Spec == Init /\ [][Next]_vars

-----------------------------------------------------------------------------
(* Properties *)

AtRest == phase = "idle" /\ del.pc = "idle"
Serves(s) == Entry(mem, s) \in bound /\ routing = "local"

Never(events) == regime.events \cap events = {}

\* The newest manifest tells the truth: each table it vouches for holds the SQL
\* it names, except where a build in progress has already replaced it. The next
\* run carries tables forward on the strength of this (skip-if-unchanged).
ManifestHolds ==
  \A e \in Latest :
    \/ table[e[1]] = e[2]
    \/ phase \in {"build", "staged", "swap"} /\ e[1] \in touched

\* ... as long as no run ends between two sources, no swap fails halfway, and
\* only superseded records are deleted, while no run is in progress.
Orderly == Never({"cancel", "crash", "swapFault", "deleteNewest", "deleteRacing"})
OrderlyManifestHolds == Orderly => ManifestHolds

\* A query on a source that is served from its table reads the SQL of the loaded
\* model, except between the swap of the table and the reload that follows it:
\* where, besides, no build fails and every reload succeeds.
ServesItsSql ==
  Orderly /\ Never({"buildFault", "loadFault"})
    => \A s \in Sources : Serves(s) => table[s] = mem[s] \/ s \in touched

\* At rest a source is served from its table exactly when the newest manifest
\* has an entry for the SQL that is loaded: the reloads after a build, after a
\* deletion and of a package agree, whatever stops or crashes.
BoundIsLatest ==
  Never({"buildFault", "swapFault", "loadFault", "deleteRacing", "host"}) /\ AtRest
    => \A s \in Sources : Serves(s) <=> Entry(mem, s) \in Latest

\* Under every fault but that of the rebind itself, a package is served only
\* from entries of records that exist: what a deletion removed is not bound. A
\* package whose manifest a host distributes is left out: autoLoadManifest binds
\* it, and the rebind after a deletion passes it by.
Recorded == UNION {rows[r].ok \cup rows[r].failed : r \in ReadyRuns}
BoundIsRecorded ==
  Never({"loadFault", "host"}) /\ del.pc = "idle" => bound \subseteq Recorded

\* A build leaves no staging table behind, whatever failed, unless the process
\* died or the cleanup itself failed.
StagingReclaimed ==
  Never({"crash", "cleanupFault"}) /\ phase = "idle" => \A s \in Sources : staging[s] = NoTable

\* splitManifestEntries: an entry that mirrors a failure is not bound, for it
\* would serve the prior generation as though it were fresh.
FailedEntryUnbound ==
  \A r \in ReadyRuns : IsNewest(r) => bound \cap rows[r].failed = {}
=============================================================================
