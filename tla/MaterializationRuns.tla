------------------------- MODULE MaterializationRuns -------------------------
(* The run lifecycle of MaterializationService: the rows it keeps in           *)
(* publisher.db through MaterializationRepository, the background task that    *)
(* carries each run, the in-process table of abort controllers, and the HTTP   *)
(* handlers that create, stop and delete runs while tasks make progress.       *)
(*                                                                             *)
(* A step is one database statement with the synchronous code that follows it  *)
(* up to the next await: statements are serialised by the mutex of             *)
(* DuckDBConnection, and a handler resumes before any other statement returns. *)
EXTENDS MaterializationStatus

CONSTANTS
  Runs,      \* materialization ids, each used once
  Packages,  \* packages of one environment
  NoPackage, \* no owner, or no active_key
  Sources,   \* persist sources of a package
  Clients,   \* requests that can be in progress at the same time
  Crashes,   \* BOOLEAN: the process may die and restart
  DbFaults,  \* BOOLEAN: a statement on publisher.db may throw
  Purges     \* BOOLEAN: a package may be deleted while it has runs

ASSUME NoPackageAssumption == NoPackage \notin Packages

VARIABLES
  status,     \* materializations.status, by run
  owner,      \* materializations.package_name, by run
  activeKey,  \* materializations.active_key, by run
  controller, \* runningAbortControllers: "none", "live" or "aborted", by run
  task,       \* where the background promise of each run is
  build,      \* what executeInstructedBuild has done with each source, by run
  client      \* where each request in progress is

rowVars == <<status, owner, activeKey>>
vars == <<status, owner, activeKey, controller, task, build, client>>

-----------------------------------------------------------------------------
\* The steps of a background task. Those of a transition are its read, its
\* write and the read-back of repo.update.
Phases ==
  {"none", "start", "plan", "build",
   "rowsRead", "rowsWrite", "rowsBack", "fileRead", "fileWrite", "fileBack",
   "autoLoad", "fail", "cancel"}

Outcomes == {"skip", "todo", "built", "failed"}

Idle == [op |-> "idle"]
Requests ==
  {Idle} \cup [op : {"insert"}, pkg : Packages]
         \cup [op : {"stopRead", "stopWrite", "delete"}, run : Runs]

TypeOK ==
  /\ status \in [Runs -> Statuses]
  /\ owner \in [Runs -> Packages \cup {NoPackage}]
  /\ activeKey \in [Runs -> Packages \cup {NoPackage}]
  /\ controller \in [Runs -> {"none", "live", "aborted"}]
  /\ task \in [Runs -> Phases]
  /\ build \in [Runs -> [Sources -> Outcomes]]
  /\ client \in [Clients -> Requests]

Init ==
  /\ status = [r \in Runs |-> "unborn"]
  /\ owner = [r \in Runs |-> NoPackage]
  /\ activeKey = [r \in Runs |-> NoPackage]
  /\ controller = [r \in Runs |-> "none"]
  /\ task = [r \in Runs |-> "none"]
  /\ build = [r \in Runs |-> [s \in Sources |-> "skip"]]
  /\ client = [c \in Clients |-> Idle]

IsActive(r) == status[r] \in ACTIVE_STATUSES
HasRow(r) == status[r] \notin NoRow
IsRunning(r) == task[r] # "none"

\* Variant: active_key is written by the INSERT only.
UpdateStatusKeepingKey(r, next) ==
  /\ status' = IF HasRow(r) THEN [status EXCEPT ![r] = next] ELSE status
  /\ UNCHANGED <<owner, activeKey>>

\* UPDATE materializations SET status = next: without a row it touches nothing,
\* a terminal status clears active_key and any other sets it.
UpdateStatus(r, next) ==
  IF HasRow(r)
  THEN /\ status' = [status EXCEPT ![r] = next]
       /\ activeKey' = [activeKey EXCEPT ![r] =
                          IF next \in TERMINAL_STATUSES THEN NoPackage ELSE owner[r]]
       /\ UNCHANGED owner
  ELSE UNCHANGED rowVars

Goto(r, phase) == task' = [task EXCEPT ![r] = phase]

\* A throw out of the run: the catch handler of runInBackground reads the signal
\* on entry.
Throw(r) == Goto(r, IF controller[r] = "aborted" THEN "cancel" ELSE "fail")

Reply(c, request) == client' = [client EXCEPT ![c] = request]

-----------------------------------------------------------------------------
(* Requests *)

\* createMaterialization up to its check for an active run; a conflict is the
\* end of the request and changes nothing.
CreateCheck(c, p) ==
  /\ client[c] = Idle
  /\ \A r \in Runs : owner[r] = p => ~IsActive(r)
  /\ Reply(c, [op |-> "insert", pkg |-> p])
  /\ UNCHANGED <<status, owner, activeKey, controller, task, build>>

\* Variant: the insert relies on the check and the table has no unique index.
CreateInsertUnindexed(c) ==
  /\ client[c].op = "insert"
  /\ Reply(c, Idle)
  /\ \E r \in Runs :
       /\ status[r] = "unborn"
       /\ status' = [status EXCEPT ![r] = "PENDING"]
       /\ owner' = [owner EXCEPT ![r] = client[c].pkg]
       /\ activeKey' = [activeKey EXCEPT ![r] = client[c].pkg]
       /\ controller' = [controller EXCEPT ![r] = "live"]
       /\ Goto(r, "start")
       /\ UNCHANGED build

\* The conditional INSERT: the unique index on active_key refuses the loser of a
\* race, and the winner's task starts in the same turn of the event loop.
CreateInsert(c) ==
  /\ client[c].op = "insert"
  /\ Reply(c, Idle)
  /\ \/ /\ \E r \in Runs : activeKey[r] = client[c].pkg
        /\ UNCHANGED <<status, owner, activeKey, controller, task, build>>
     \/ /\ \A r \in Runs : activeKey[r] # client[c].pkg
        /\ \E r \in Runs :
             /\ status[r] = "unborn"
             /\ status' = [status EXCEPT ![r] = "PENDING"]
             /\ owner' = [owner EXCEPT ![r] = client[c].pkg]
             /\ activeKey' = [activeKey EXCEPT ![r] = client[c].pkg]
             /\ controller' = [controller EXCEPT ![r] = "live"]
             /\ Goto(r, "start")
             /\ UNCHANGED build

\* Variant: the row is cancelled whether or not a task is running it.
StopRecordOnly(c, r) ==
  /\ client[c] = Idle
  /\ IsActive(r)
  /\ Reply(c, [op |-> "stopRead", run |-> r])
  /\ UNCHANGED <<status, owner, activeKey, controller, task, build>>

\* stopMaterialization: a run with a controller is only signalled, one without is
\* cancelled through transition().
Stop(c, r) ==
  /\ client[c] = Idle
  /\ IsActive(r)
  /\ IF controller[r] = "none"
     THEN /\ Reply(c, [op |-> "stopRead", run |-> r])
          /\ UNCHANGED controller
     ELSE /\ controller' = [controller EXCEPT ![r] = "aborted"]
          /\ UNCHANGED client
  /\ UNCHANGED <<status, owner, activeKey, task, build>>

StopTransition(c) ==
  /\ client[c].op = "stopRead"
  /\ LET r == client[c].run IN
     IF "CANCELLED" \in VALID_TRANSITIONS(status[r])
     THEN Reply(c, [op |-> "stopWrite", run |-> r])
     ELSE Reply(c, Idle)
  /\ UNCHANGED <<status, owner, activeKey, controller, task, build>>

StopWrite(c) ==
  /\ client[c].op = "stopWrite"
  /\ UpdateStatus(client[c].run, "CANCELLED")
  /\ Reply(c, Idle)
  /\ UNCHANGED <<controller, task, build>>

\* Variant: any row can be deleted.
DeleteCheckAny(c, r) ==
  /\ client[c] = Idle
  /\ HasRow(r)
  /\ Reply(c, [op |-> "delete", run |-> r])
  /\ UNCHANGED <<status, owner, activeKey, controller, task, build>>

\* deleteMaterialization accepts terminal rows only.
DeleteCheck(c, r) ==
  /\ client[c] = Idle
  /\ status[r] \in TERMINAL_STATUSES
  /\ Reply(c, [op |-> "delete", run |-> r])
  /\ UNCHANGED <<status, owner, activeKey, controller, task, build>>

DeleteRow(c) ==
  /\ client[c].op = "delete"
  /\ LET r == client[c].run IN
       /\ status' = [status EXCEPT ![r] = "deleted"]
       /\ activeKey' = [activeKey EXCEPT ![r] = NoPackage]
  /\ Reply(c, Idle)
  /\ UNCHANGED <<owner, controller, task, build>>

\* deletePackage: every row of the package goes in one statement, whatever its
\* status, and no task is told.
PurgePackage(p) ==
  /\ Purges
  /\ \E r \in Runs : owner[r] = p /\ HasRow(r)
  /\ status' = [r \in Runs |-> IF owner[r] = p THEN "deleted" ELSE status[r]]
  /\ activeKey' = [r \in Runs |-> IF owner[r] = p THEN NoPackage ELSE activeKey[r]]
  /\ UNCHANGED <<owner, controller, task, build, client>>

-----------------------------------------------------------------------------
(* The background task of a run *)

\* runBuild records startedAt; repo.update throws when the row is gone.
StartBuild(r) ==
  /\ task[r] = "start"
  /\ IF HasRow(r) THEN Goto(r, "plan") ELSE Throw(r)
  /\ UNCHANGED <<status, owner, activeKey, controller, build, client>>

\* Compile the plan and choose the sources to build; anything there may throw.
PlanBuild(r) ==
  /\ task[r] = "plan"
  /\ \/ /\ \E S \in SUBSET Sources :
             build' = [build EXCEPT ![r] =
                         [s \in Sources |-> IF s \in S THEN "todo" ELSE "skip"]]
        /\ Goto(r, "build")
     \/ /\ Throw(r)
        /\ UNCHANGED build
  /\ UNCHANGED <<status, owner, activeKey, controller, client>>

\* One source, built or failed: a failing source does not end the run. The abort
\* signal is looked at before each source and nowhere else.
BuildSource(r, s) ==
  /\ task[r] = "build"
  /\ build[r][s] = "todo"
  /\ controller[r] # "aborted"
  /\ \E o \in {"built", "failed"} : build' = [build EXCEPT ![r][s] = o]
  /\ UNCHANGED <<status, owner, activeKey, controller, task, client>>

\* "Build cancelled", or an error that is not one source's own.
AbandonBuild(r) ==
  /\ task[r] = "build"
  /\ Throw(r)
  /\ UNCHANGED <<status, owner, activeKey, controller, build, client>>

\* The end of the loop: a run that lost every source it attempted throws.
FinishBuild(r) ==
  /\ task[r] = "build"
  /\ \A s \in Sources : build[r][s] # "todo"
  /\ IF (\E s \in Sources : build[r][s] = "failed") /\ (\A s \in Sources : build[r][s] # "built")
     THEN Throw(r)
     ELSE Goto(r, "rowsRead")
  /\ UNCHANGED <<status, owner, activeKey, controller, build, client>>

\* The read and the check of transition().
TransitionRead(r, at, next, then) ==
  /\ task[r] = at
  /\ IF next \in VALID_TRANSITIONS(status[r]) THEN Goto(r, then) ELSE Throw(r)
  /\ UNCHANGED <<status, owner, activeKey, controller, build, client>>

\* Its UPDATE, which does not look at the status again.
TransitionWrite(r, at, next, then) ==
  /\ task[r] = at
  /\ UpdateStatus(r, next)
  /\ Goto(r, then)
  /\ UNCHANGED <<controller, build, client>>

\* The read-back that ends repo.update.
ReadBack(r, at, then) ==
  /\ task[r] = at
  /\ IF HasRow(r) THEN Goto(r, then) ELSE Throw(r)
  /\ UNCHANGED <<status, owner, activeKey, controller, build, client>>

\* commitManifest: two transitions in a row.
CommitManifest(r) ==
  \/ TransitionRead(r, "rowsRead", "MANIFEST_ROWS_READY", "rowsWrite")
  \/ TransitionWrite(r, "rowsWrite", "MANIFEST_ROWS_READY", "rowsBack")
  \/ ReadBack(r, "rowsBack", "fileRead")
  \/ TransitionRead(r, "fileRead", "MANIFEST_FILE_READY", "fileWrite")
  \/ TransitionWrite(r, "fileWrite", "MANIFEST_FILE_READY", "fileBack")
  \/ ReadBack(r, "fileBack", "autoLoad")

\* The end of the promise: finally removes the controller.
Settle(r) ==
  /\ Goto(r, "none")
  /\ controller' = [controller EXCEPT ![r] = "none"]

\* autoLoadManifest of an auto-run (it swallows its own failures); an
\* orchestrated run has nothing to load and ends here too.
AutoLoad(r) ==
  /\ task[r] = "autoLoad"
  /\ Settle(r)
  /\ UNCHANGED <<status, owner, activeKey, build, client>>

\* Variant: a cancelled run is taken to have been recorded by the stop request.
RecordFailureUnlessCancelled(r) ==
  /\ task[r] \in {"fail", "cancel"}
  /\ IF task[r] = "fail" THEN UpdateStatus(r, "FAILED") ELSE UNCHANGED rowVars
  /\ Settle(r)
  /\ UNCHANGED <<build, client>>

\* The catch of runInBackground: an UPDATE with no transition check.
RecordFailure(r) ==
  /\ task[r] \in {"fail", "cancel"}
  /\ UpdateStatus(r, IF task[r] = "cancel" THEN "CANCELLED" ELSE "FAILED")
  /\ Settle(r)
  /\ UNCHANGED <<build, client>>

\* A statement of the task throws, before taking effect; in the catch of
\* runInBackground the error is logged and the row stays as it was.
DbFault(r) ==
  /\ DbFaults
  /\ IsRunning(r)
  /\ task[r] # "autoLoad"
  /\ IF task[r] \in {"fail", "cancel"}
     THEN Settle(r)
     ELSE Throw(r) /\ UNCHANGED controller
  /\ UNCHANGED <<status, owner, activeKey, build, client>>

\* The process dies and comes back: rows survive, tasks, controllers and requests
\* do not, and nothing at boot looks at the rows.
Crash ==
  /\ Crashes
  /\ task' = [r \in Runs |-> "none"]
  /\ controller' = [r \in Runs |-> "none"]
  /\ client' = [c \in Clients |-> Idle]
  /\ UNCHANGED <<status, owner, activeKey, build>>

TaskStep(r) ==
  \/ StartBuild(r) \/ PlanBuild(r)
  \/ (\E s \in Sources : BuildSource(r, s)) \/ AbandonBuild(r) \/ FinishBuild(r)
  \/ CommitManifest(r) \/ AutoLoad(r) \/ RecordFailure(r)

\* What a request that has started goes on to do.
RequestStep(c) ==
  CreateInsert(c) \/ StopTransition(c) \/ StopWrite(c) \/ DeleteRow(c)

NewRequest(c) ==
  \/ \E p \in Packages : CreateCheck(c, p)
  \/ \E r \in Runs : Stop(c, r) \/ DeleteCheck(c, r)

Next ==
  \/ \E r \in Runs : TaskStep(r) \/ DbFault(r)
  \/ \E c \in Clients : NewRequest(c) \/ RequestStep(c)
  \/ \E p \in Packages : PurgePackage(p)
  \/ Crash

Spec == Init /\ [][Next]_vars

\* The event loop resumes every settled promise, and the warehouse answers: a task
\* or a request in progress is never left waiting.
FairSpec ==
  /\ Spec
  /\ \A r \in Runs : WF_vars(TaskStep(r))
  /\ \A c \in Clients : WF_vars(RequestStep(c))

-----------------------------------------------------------------------------
(* Properties *)

\* The task of r may still write tables and ledgers of its package, or has a
\* manifest left to publish.
IsBuilding(r) ==
  task[r] \in {"start", "plan", "build", "rowsRead", "rowsWrite", "rowsBack", "fileRead", "fileWrite"}

\* active_key is set on exactly the rows that are active, to their own package:
\* UpdateStatus and the INSERT must keep two columns in step on every path.
KeyMarksActive ==
  \A r \in Runs : activeKey[r] = IF IsActive(r) THEN owner[r] ELSE NoPackage

\* At most one active row per package, whatever requests race (the check of
\* createMaterialization and its INSERT are separate statements).
SingleActive ==
  \A q, r \in Runs :
    IsActive(q) /\ IsActive(r) /\ owner[q] = owner[r] => q = r

\* The claim the ledger rests on, "single writer": no two tasks of one package
\* are building at the same time.
SingleBuilder ==
  \A q, r \in Runs :
    IsBuilding(q) /\ IsBuilding(r) /\ owner[q] = owner[r] => q = r

\* A row that says FAILED or CANCELLED has no task left behind it: nothing is
\* still writing tables for a run that reads as over.
OverMeansStopped ==
  \A r \in Runs : status[r] \in {"FAILED", "CANCELLED"} => ~IsRunning(r)

\* Every run settles: its row does not stay active for ever.
RunsSettle == \A r \in Runs : IsActive(r) ~> ~IsActive(r)

\* The service implements the lifecycle the API promises: what a caller can tell
\* of a run is the status and the owner of its row.
Lifecycle == INSTANCE MaterializationLifecycle WITH status <- status, owner <- owner
ImplementsLifecycle == Lifecycle!Spec
=============================================================================
