---------------------- MODULE MaterializationRunsProofs ----------------------
(* Proofs about MaterializationRuns for any number of runs, packages, sources  *)
(* and requests.                                                               *)
EXTENDS MaterializationRuns, TLAPS

\* Each step of the service leaves every variable within its type.
LEMMA TypeStep == TypeOK /\ [Next]_vars => TypeOK'
<1> SUFFICES ASSUME TypeOK, [Next]_vars PROVE TypeOK'
  OBVIOUS
<1> USE DEF TypeOK, Statuses, NoRow, ACTIVE_STATUSES, TERMINAL_STATUSES, Phases
<1>1. ASSUME NEW r \in Runs, TaskStep(r) PROVE TypeOK'
  <2>1. CASE StartBuild(r)
    BY <2>1 DEF StartBuild, Throw, Goto
  <2>2. CASE PlanBuild(r)
    <3>1. build' \in [Runs -> [Sources -> Outcomes]]
      <4>1. CASE UNCHANGED build
        BY <4>1
      <4>2. ASSUME NEW S \in SUBSET Sources,
                   build' = [build EXCEPT ![r] =
                               [s \in Sources |-> IF s \in S THEN "todo" ELSE "skip"]]
            PROVE  build' \in [Runs -> [Sources -> Outcomes]]
        <5>1. [s \in Sources |-> IF s \in S THEN "todo" ELSE "skip"] \in [Sources -> Outcomes]
          BY DEF Outcomes
        <5> QED
          BY <4>2, <5>1
      <4> QED
        BY <2>2, <4>1, <4>2 DEF PlanBuild
    <3> QED
      BY <2>2, <3>1 DEF PlanBuild, Throw, Goto
  <2>3. ASSUME NEW s \in Sources, BuildSource(r, s) PROVE TypeOK'
    BY <2>3 DEF BuildSource, Outcomes
  <2>4. CASE AbandonBuild(r)
    BY <2>4 DEF AbandonBuild, Throw, Goto
  <2>5. CASE FinishBuild(r)
    BY <2>5 DEF FinishBuild, Throw, Goto
  <2>6. CASE CommitManifest(r)
    <3>1. ASSUME NEW at, NEW next, NEW then \in Phases, TransitionRead(r, at, next, then)
          PROVE  TypeOK'
      BY <3>1 DEF TransitionRead, Throw, Goto
    <3>2. ASSUME NEW at, NEW next \in Statuses, NEW then \in Phases,
                 TransitionWrite(r, at, next, then)
          PROVE  TypeOK'
      BY <3>2 DEF TransitionWrite, UpdateStatus, HasRow, rowVars, Goto
    <3>3. ASSUME NEW at, NEW then \in Phases, ReadBack(r, at, then) PROVE TypeOK'
      BY <3>3 DEF ReadBack, Throw, Goto
    <3> QED
      BY ONLY <2>6, <3>1, <3>2, <3>3
         DEF CommitManifest, Phases, Statuses, ACTIVE_STATUSES, TERMINAL_STATUSES
  <2>7. CASE AutoLoad(r)
    BY <2>7 DEF AutoLoad, Settle, Goto
  <2>8. CASE RecordFailure(r)
    BY <2>8 DEF RecordFailure, UpdateStatus, HasRow, rowVars, Settle, Goto
  <2> QED
    BY <1>1, <2>1, <2>2, <2>3, <2>4, <2>5, <2>6, <2>7, <2>8 DEF TaskStep
<1>2. ASSUME NEW r \in Runs, DbFault(r) PROVE TypeOK'
  BY <1>2 DEF DbFault, Settle, Throw, Goto
<1>3. ASSUME NEW c \in Clients, NewRequest(c) PROVE TypeOK'
  <2>1. ASSUME NEW p \in Packages, CreateCheck(c, p) PROVE TypeOK'
    BY <2>1 DEF CreateCheck, Reply, Requests
  <2>2. ASSUME NEW r \in Runs, Stop(c, r) PROVE TypeOK'
    BY <2>2 DEF Stop, Reply, Requests
  <2>3. ASSUME NEW r \in Runs, DeleteCheck(c, r) PROVE TypeOK'
    BY <2>3 DEF DeleteCheck, Reply, Requests
  <2> QED
    BY <1>3, <2>1, <2>2, <2>3 DEF NewRequest
<1>4. ASSUME NEW c \in Clients, RequestStep(c) PROVE TypeOK'
  <2>1. CASE CreateInsert(c)
    <3>1. client[c].pkg \in Packages
      BY <2>1 DEF CreateInsert, Requests, Idle
    <3>2. client' \in [Clients -> Requests]
      BY <2>1 DEF CreateInsert, Reply, Requests
    <3>3. CASE UNCHANGED <<status, owner, activeKey, controller, task, build>>
      BY <3>2, <3>3
    <3>4. ASSUME NEW r \in Runs,
                 status' = [status EXCEPT ![r] = "PENDING"],
                 owner' = [owner EXCEPT ![r] = client[c].pkg],
                 activeKey' = [activeKey EXCEPT ![r] = client[c].pkg],
                 controller' = [controller EXCEPT ![r] = "live"],
                 task' = [task EXCEPT ![r] = "start"],
                 UNCHANGED build
          PROVE  TypeOK'
      BY <3>1, <3>2, <3>4
    <3> QED
      BY <2>1, <3>3, <3>4 DEF CreateInsert, Goto
  <2>2. CASE StopTransition(c)
    <3>1. client[c].run \in Runs
      BY <2>2 DEF StopTransition, Requests, Idle
    <3> QED
      BY <2>2, <3>1 DEF StopTransition, Reply, Requests
  <2>3. CASE StopWrite(c)
    <3>1. client[c].run \in Runs
      BY <2>3 DEF StopWrite, Requests, Idle
    <3> QED
      BY <2>3, <3>1 DEF StopWrite, UpdateStatus, HasRow, rowVars, Reply, Requests
  <2>4. CASE DeleteRow(c)
    <3>1. client[c].run \in Runs
      BY <2>4 DEF DeleteRow, Requests, Idle
    <3> QED
      BY <2>4, <3>1 DEF DeleteRow, Reply, Requests
  <2> QED
    BY <1>4, <2>1, <2>2, <2>3, <2>4 DEF RequestStep
<1>5. ASSUME NEW p \in Packages, PurgePackage(p) PROVE TypeOK'
  BY <1>5 DEF PurgePackage
<1>6. CASE Crash
  BY <1>6 DEF Crash, Requests
<1>7. CASE UNCHANGED vars
  BY <1>7 DEF vars
<1> QED
  BY <1>1, <1>2, <1>3, <1>4, <1>5, <1>6, <1>7 DEF Next

\* Every variable holds a value of its type, whatever the constants: in
\* particular the unchecked UPDATE of runInBackground writes known statuses only.
THEOREM TypeCorrect == Spec => []TypeOK
<1>1. Init => TypeOK
  BY DEF Init, TypeOK, Statuses, NoRow, Phases, Outcomes, Requests
<1> QED
  BY <1>1, TypeStep, PTL DEF Spec

-----------------------------------------------------------------------------
(* The inductive invariant: SingleActive holds because the insert looks at     *)
(* active_key, so KeyMarksActive must hold, and that because no UPDATE of a    *)
(* task or a request finds its row at a status other than the one it read.     *)

\* The statuses the row of a task may have in each phase.
Fits(phase, st) ==
  /\ phase \in {"start", "plan", "build", "rowsRead", "rowsWrite"} =>
       st = "PENDING" \/ (Purges /\ st = "deleted")
  /\ phase \in {"rowsBack", "fileRead", "fileWrite"} =>
       st = "MANIFEST_ROWS_READY" \/ (Purges /\ st = "deleted")
  /\ phase \in {"fileBack", "autoLoad"} => st \in {"MANIFEST_FILE_READY", "deleted"}
  /\ phase \in {"fail", "cancel"} =>
       st \in ACTIVE_STATUSES \cup {"deleted"} \/ (DbFaults /\ st = "MANIFEST_FILE_READY")

\* The row of a running task is at the status its step expects, or gone.
RowOfTask == \A r \in Runs : Fits(task[r], status[r])

\* A controller exists for exactly the tasks that run.
ControllerOfTask == \A r \in Runs : IsRunning(r) <=> controller[r] # "none"

\* A run has an owner from its INSERT on, and no task before it.
RowOfOwner ==
  \A r \in Runs :
    /\ status[r] = "unborn" => owner[r] = NoPackage /\ ~IsRunning(r)
    /\ status[r] # "unborn" => owner[r] \in Packages

\* A request that has checked its run still finds it where it may write it.
RowOfRequest ==
  \A c \in Clients :
    /\ client[c].op \in {"stopRead", "stopWrite"} =>
         ~IsRunning(client[c].run) /\ status[client[c].run] # "unborn"
    /\ client[c].op = "stopWrite" =>
         status[client[c].run] \in ACTIVE_STATUSES \cup {"CANCELLED", "deleted"}
    /\ client[c].op = "delete" =>
         status[client[c].run] \in TERMINAL_STATUSES \cup {"deleted"}

IInv ==
  /\ TypeOK
  /\ RowOfTask
  /\ ControllerOfTask
  /\ RowOfOwner
  /\ RowOfRequest
  /\ KeyMarksActive
  /\ SingleActive

\* What UPDATE ... SET status does to the rows: it moves the row of r, if there is
\* one, and keeps active_key in step, as long as it revives no settled row.
LEMMA UpdateStatusEffect ==
  ASSUME TypeOK, RowOfOwner, KeyMarksActive, SingleActive,
         NEW r \in Runs, NEW next \in ACTIVE_STATUSES \cup TERMINAL_STATUSES,
         UpdateStatus(r, next),
         next \in ACTIVE_STATUSES /\ HasRow(r) => IsActive(r)
  PROVE  /\ KeyMarksActive'
         /\ SingleActive'
         /\ owner' = owner
         /\ status' = [status EXCEPT ![r] = IF HasRow(r) THEN next ELSE status[r]]
<1> USE DEF TypeOK, UpdateStatus, rowVars, HasRow, IsActive
<1>1. CASE ~HasRow(r)
  BY <1>1 DEF KeyMarksActive, SingleActive
<1>2. CASE HasRow(r)
  <2>1. KeyMarksActive'
    BY <1>2 DEF KeyMarksActive, ACTIVE_STATUSES, TERMINAL_STATUSES
  <2>2. SingleActive'
    BY <1>2 DEF SingleActive
  <2> QED
    BY <1>2, <2>1, <2>2
<1> QED
  BY <1>1, <1>2

\* The invariant holds of the initial state.
LEMMA InvInit == Init => IInv
BY NoPackageAssumption
   DEF Init, IInv, TypeOK, RowOfTask, ControllerOfTask, RowOfOwner, RowOfRequest,
       KeyMarksActive, SingleActive, Fits, IsActive, IsRunning, Statuses, NoRow, ACTIVE_STATUSES,
       Phases, Outcomes, Requests, Idle

\* Moving the task of a run that has one, or ending it, disturbs neither the rows
\* nor what a request has checked.
LEMMA TaskMoves ==
  ASSUME IInv, TypeOK', UNCHANGED <<rowVars, client>>,
         NEW r \in Runs, IsRunning(r),
         \A q \in Runs : q # r => task'[q] = task[q]
  PROVE  KeyMarksActive' /\ SingleActive' /\ RowOfOwner' /\ RowOfRequest'
<1> USE DEF IInv, rowVars, IsRunning, IsActive
<1>1. KeyMarksActive' /\ SingleActive'
  BY DEF KeyMarksActive, SingleActive
<1>2. RowOfOwner'
  BY DEF RowOfOwner
<1>3. RowOfRequest'
  <2> SUFFICES ASSUME NEW c \in Clients, client[c].op \in {"stopRead", "stopWrite", "delete"}
               PROVE  client[c].run \in Runs
    BY DEF RowOfRequest, TypeOK
  <2> QED
    BY DEF TypeOK, Requests, Idle
<1> QED
  BY <1>1, <1>2, <1>3

\* The steps of a task that write no status.
LEMMA QuietTaskStep ==
  ASSUME IInv, TypeOK', NEW r \in Runs,
         \/ StartBuild(r) \/ PlanBuild(r) \/ (\E s \in Sources : BuildSource(r, s))
         \/ AbandonBuild(r) \/ FinishBuild(r)
         \/ TransitionRead(r, "rowsRead", "MANIFEST_ROWS_READY", "rowsWrite")
         \/ ReadBack(r, "rowsBack", "fileRead")
         \/ TransitionRead(r, "fileRead", "MANIFEST_FILE_READY", "fileWrite")
         \/ ReadBack(r, "fileBack", "autoLoad")
         \/ AutoLoad(r) \/ DbFault(r)
  PROVE  IInv'
<1> USE DEF StartBuild, PlanBuild, BuildSource, AbandonBuild, FinishBuild, TransitionRead,
            ReadBack, AutoLoad, DbFault, Throw, Goto, Settle, TypeOK, IsRunning
<1>1. /\ UNCHANGED <<rowVars, client>>
      /\ IsRunning(r)
      /\ \A q \in Runs : q # r => task'[q] = task[q] /\ controller'[q] = controller[q]
  BY DEF IInv, rowVars, Phases
<1>2. RowOfTask'
  <2> USE DEF Fits, ACTIVE_STATUSES
  <2> SUFFICES Fits(task'[r], status[r])
    BY <1>1 DEF IInv, RowOfTask, rowVars
  <2>0. Fits(task[r], status[r])
    BY DEF IInv, RowOfTask
  <2>1. CASE StartBuild(r) \/ PlanBuild(r)
    BY <2>0, <2>1, <1>1 DEF HasRow, NoRow
  <2>2. CASE (\E s \in Sources : BuildSource(r, s)) \/ AbandonBuild(r) \/ FinishBuild(r)
    BY <2>0, <2>2, <1>1
  <2>3. CASE TransitionRead(r, "rowsRead", "MANIFEST_ROWS_READY", "rowsWrite")
    BY <2>0, <2>3, <1>1 DEF VALID_TRANSITIONS
  <2>4. CASE ReadBack(r, "rowsBack", "fileRead")
    BY <2>0, <2>4, <1>1 DEF HasRow, NoRow
  <2>5. CASE TransitionRead(r, "fileRead", "MANIFEST_FILE_READY", "fileWrite")
    BY <2>0, <2>5, <1>1 DEF VALID_TRANSITIONS
  <2>6. CASE ReadBack(r, "fileBack", "autoLoad")
    BY <2>0, <2>6, <1>1 DEF HasRow, NoRow
  <2>7. CASE AutoLoad(r)
    BY <2>0, <2>7
  <2>8. CASE DbFault(r)
    <3>1. task'[r] \in {"none", "fail", "cancel"} /\ DbFaults /\ task[r] \notin {"none", "autoLoad"}
      BY <2>8
    <3>2. task[r] \in Phases
      BY DEF IInv
    <3>3. status[r] \in ACTIVE_STATUSES \cup {"deleted", "MANIFEST_FILE_READY"}
      BY <2>0, <3>1, <3>2 DEF Phases
    <3> QED
      BY <3>1, <3>3
  <2> QED
    BY <2>1, <2>2, <2>3, <2>4, <2>5, <2>6, <2>7, <2>8
<1>3. ControllerOfTask'
  BY <1>1 DEF IInv, ControllerOfTask
<1> QED
  BY <1>1, <1>2, <1>3, TaskMoves DEF IInv

\* The steps of a task that write the status: the two of commitManifest and the
\* catch of runInBackground.
LEMMA WritingTaskStep ==
  ASSUME IInv, TypeOK', NEW r \in Runs,
         \/ TransitionWrite(r, "rowsWrite", "MANIFEST_ROWS_READY", "rowsBack")
         \/ TransitionWrite(r, "fileWrite", "MANIFEST_FILE_READY", "fileBack")
         \/ RecordFailure(r)
  PROVE  IInv'
<1> USE DEF TransitionWrite, RecordFailure, Goto, Settle
<1>0. Fits(task[r], status[r]) /\ task \in [Runs -> Phases] /\ status \in [Runs -> Statuses]
  BY DEF IInv, RowOfTask, TypeOK
<1>1. PICK next \in ACTIVE_STATUSES \cup TERMINAL_STATUSES :
        /\ UpdateStatus(r, next)
        /\ next = "MANIFEST_ROWS_READY" => task[r] = "rowsWrite"
        /\ next \in {"MANIFEST_ROWS_READY", "MANIFEST_FILE_READY", "FAILED", "CANCELLED"}
        /\ Fits(task'[r], IF HasRow(r) THEN next ELSE status[r])
  BY <1>0 DEF Fits, HasRow, NoRow, ACTIVE_STATUSES, TERMINAL_STATUSES
<1>2. /\ UNCHANGED client
      /\ IsRunning(r)
      /\ \A q \in Runs : q # r => task'[q] = task[q] /\ controller'[q] = controller[q]
  BY DEF IInv, TypeOK, IsRunning
<1>3. next \in ACTIVE_STATUSES /\ HasRow(r) => IsActive(r)
  BY <1>0, <1>1 DEF Fits, HasRow, NoRow, IsActive, ACTIVE_STATUSES
<1>4. /\ KeyMarksActive'
      /\ SingleActive'
      /\ owner' = owner
      /\ status' = [status EXCEPT ![r] = IF HasRow(r) THEN next ELSE status[r]]
  BY <1>1, <1>3, UpdateStatusEffect DEF IInv
<1>5. RowOfTask'
  BY <1>0, <1>1, <1>2, <1>4 DEF IInv, RowOfTask
<1>6. ControllerOfTask'
  BY <1>2 DEF IInv, ControllerOfTask, IsRunning, TypeOK
<1>7. RowOfOwner'
  BY <1>0, <1>1, <1>2, <1>4 DEF IInv, RowOfOwner, HasRow, NoRow, IsRunning
<1>8. RowOfRequest'
  <2> SUFFICES ASSUME NEW c \in Clients, client[c].op \in {"stopRead", "stopWrite", "delete"}
               PROVE  /\ client[c].op \in {"stopRead", "stopWrite"} =>
                           ~IsRunning(client[c].run)' /\ status'[client[c].run] # "unborn"
                      /\ client[c].op = "stopWrite" =>
                           status'[client[c].run] \in ACTIVE_STATUSES \cup {"CANCELLED", "deleted"}
                      /\ client[c].op = "delete" =>
                           status'[client[c].run] \in TERMINAL_STATUSES \cup {"deleted"}
    BY <1>2 DEF RowOfRequest, IsRunning
  <2>1. client[c].run \in Runs
    <3>1. client[c] \in Requests
      BY DEF IInv, TypeOK
    <3> QED
      BY <3>1 DEF Requests, Idle
  <2>2. CASE client[c].run # r
    BY <1>0, <1>2, <1>4, <2>1, <2>2 DEF IInv, RowOfRequest, IsRunning
  <2>3. CASE client[c].run = r
    <3>1. client[c].op = "delete"
      BY <1>2, <2>3 DEF IInv, RowOfRequest
    <3>2. status[r] \in TERMINAL_STATUSES \cup {"deleted"}
      BY <2>3, <3>1 DEF IInv, RowOfRequest
    <3>3. HasRow(r) => next # "MANIFEST_ROWS_READY"
      BY <1>0, <1>1, <3>2 DEF Fits, HasRow, NoRow, TERMINAL_STATUSES
    <3> QED
      BY <1>0, <1>1, <1>4, <2>3, <3>1, <3>2, <3>3 DEF HasRow, NoRow, TERMINAL_STATUSES
  <2> QED
    BY <2>2, <2>3
<1> QED
  BY <1>4, <1>5, <1>6, <1>7, <1>8 DEF IInv

\* A request that only looks.
LEMMA QuietRequestStep ==
  ASSUME IInv, TypeOK', NEW c \in Clients,
         \/ \E p \in Packages : CreateCheck(c, p)
         \/ \E r \in Runs : Stop(c, r) \/ DeleteCheck(c, r)
         \/ StopTransition(c)
  PROVE  IInv'
<1> USE DEF CreateCheck, Stop, DeleteCheck, StopTransition, Reply
<1>1. UNCHANGED <<rowVars, task>>
  BY DEF rowVars
<1>2. KeyMarksActive' /\ SingleActive' /\ RowOfTask' /\ RowOfOwner'
  BY <1>1 DEF IInv, KeyMarksActive, SingleActive, RowOfTask, RowOfOwner, IsActive, IsRunning, rowVars
<1>3. ControllerOfTask'
  BY <1>1 DEF IInv, ControllerOfTask, IsRunning, TypeOK
<1>4. RowOfRequest'
  <2> USE DEF RowOfRequest, IInv, TypeOK, rowVars
  <2>1. ASSUME NEW p \in Packages, CreateCheck(c, p) PROVE RowOfRequest'
    BY <2>1 DEF IsRunning
  <2>2. ASSUME NEW r \in Runs, Stop(c, r) PROVE RowOfRequest'
    BY <2>2 DEF IsRunning, IsActive, ACTIVE_STATUSES, ControllerOfTask
  <2>3. ASSUME NEW r \in Runs, DeleteCheck(c, r) PROVE RowOfRequest'
    BY <2>3 DEF IsRunning
  <2>4. CASE StopTransition(c)
    BY <2>4 DEF IsRunning, VALID_TRANSITIONS, ACTIVE_STATUSES, Idle
  <2> QED
    BY <2>1, <2>2, <2>3, <2>4
<1> QED
  BY <1>2, <1>3, <1>4 DEF IInv

\* The insert: no active row of the package is there, or its active_key would be.
LEMMA CreateStep ==
  ASSUME IInv, TypeOK', NEW c \in Clients, CreateInsert(c)
  PROVE  IInv'
<1> USE DEF IInv
<1>1. client[c].pkg \in Packages
  <2>1. client[c] \in Requests /\ client[c].op = "insert"
    BY DEF CreateInsert, TypeOK
  <2> QED
    BY <2>1 DEF Requests, Idle
<1>2. /\ client' = [client EXCEPT ![c] = Idle]
      /\ client \in [Clients -> Requests]
  BY DEF CreateInsert, Reply, TypeOK
<1>3. CASE UNCHANGED <<status, owner, activeKey, controller, task, build>>
  <2>1. RowOfRequest'
    BY <1>2, <1>3 DEF RowOfRequest, IsRunning, Idle
  <2> QED
    BY <1>3, <2>1 DEF KeyMarksActive, SingleActive, RowOfTask, RowOfOwner, ControllerOfTask,
                      IsActive, IsRunning
<1>4. ASSUME NEW r \in Runs,
             \A q \in Runs : activeKey[q] # client[c].pkg,
             status[r] = "unborn",
             status' = [status EXCEPT ![r] = "PENDING"],
             owner' = [owner EXCEPT ![r] = client[c].pkg],
             activeKey' = [activeKey EXCEPT ![r] = client[c].pkg],
             controller' = [controller EXCEPT ![r] = "live"],
             task' = [task EXCEPT ![r] = "start"]
      PROVE  IInv'
  <2> USE <1>4 DEF TypeOK
  <2>1. KeyMarksActive'
    BY DEF KeyMarksActive, IsActive, ACTIVE_STATUSES
  <2>2. SingleActive'
    BY <1>1 DEF SingleActive, KeyMarksActive, IsActive, ACTIVE_STATUSES
  <2>3. RowOfTask'
    BY DEF RowOfTask, Fits
  <2>4. ControllerOfTask'
    BY DEF ControllerOfTask, IsRunning
  <2>5. RowOfOwner'
    BY <1>1 DEF RowOfOwner, IsRunning
  <2>6. RowOfRequest'
    <3> SUFFICES ASSUME NEW d \in Clients, d # c,
                        client[d].op \in {"stopRead", "stopWrite", "delete"}
                 PROVE  client[d].run \in Runs /\ client[d].run # r
      <4>1. client'[c].op = "idle" /\ \A d \in Clients : d # c => client'[d] = client[d]
        BY <1>2 DEF Idle
      <4>2. \A q \in Runs : q # r => status'[q] = status[q] /\ task'[q] = task[q]
        OBVIOUS
      <4> QED
        BY <4>1, <4>2, SMTT(30) DEF RowOfRequest, IsRunning
    <3>1. client[d].run \in Runs
      <4>1. client[d] \in Requests
        OBVIOUS
      <4> QED
        BY <4>1 DEF Requests, Idle
    <3> QED
      BY <3>1 DEF RowOfRequest, TERMINAL_STATUSES
  <2> QED
    BY <2>1, <2>2, <2>3, <2>4, <2>5, <2>6
<1> QED
  BY <1>3, <1>4 DEF CreateInsert, Goto

\* The write of a stop: its run has no task, and its row may have settled or gone
\* since the check, but never to be revived by CANCELLED.
LEMMA StopWriteStep ==
  ASSUME IInv, TypeOK', NEW c \in Clients, StopWrite(c)
  PROVE  IInv'
<1> DEFINE r == client[c].run
<1>1. /\ r \in Runs
      /\ UpdateStatus(r, "CANCELLED")
      /\ client' = [client EXCEPT ![c] = Idle]
      /\ UNCHANGED <<controller, task>>
      /\ ~IsRunning(r)
      /\ status[r] # "unborn"
  BY DEF StopWrite, Reply, IInv, TypeOK, Requests, Idle, RowOfRequest
<1>2. /\ KeyMarksActive'
      /\ SingleActive'
      /\ owner' = owner
      /\ status' = [status EXCEPT ![r] = IF HasRow(r) THEN "CANCELLED" ELSE status[r]]
  <2> HIDE DEF r
  <2> QED
    BY <1>1, UpdateStatusEffect DEF IInv, ACTIVE_STATUSES, TERMINAL_STATUSES
<1>3. status \in [Runs -> Statuses] /\ client \in [Clients -> Requests]
  BY DEF IInv, TypeOK
<1> HIDE DEF r
<1>4. RowOfTask'
  BY <1>1, <1>2, <1>3 DEF IInv, RowOfTask, Fits, IsRunning
<1>5. ControllerOfTask'
  BY <1>1 DEF IInv, ControllerOfTask, IsRunning
<1>6. RowOfOwner'
  BY <1>1, <1>2, <1>3 DEF IInv, RowOfOwner, IsRunning
<1>7. RowOfRequest'
  <2> SUFFICES ASSUME NEW d \in Clients, d # c,
                      client[d].op \in {"stopRead", "stopWrite", "delete"}
               PROVE  /\ client[d].run \in Runs
                      /\ status'[client[d].run] \in {status[client[d].run], "CANCELLED"}
    BY <1>1, <1>3 DEF IInv, RowOfRequest, IsRunning, Idle, TERMINAL_STATUSES
  <2>1. client[d].run \in Runs
    BY <1>3 DEF Requests, Idle
  <2> QED
    BY <1>2, <1>3, <2>1
<1> QED
  BY <1>2, <1>4, <1>5, <1>6, <1>7 DEF IInv

\* The rows of a set of runs disappear: one that is being deleted, or those of a
\* package. What is left of a running task must be allowed to find its row gone.
LEMMA RowsGo ==
  ASSUME IInv, TypeOK', NEW S \in SUBSET Runs,
         status' = [r \in Runs |-> IF r \in S THEN "deleted" ELSE status[r]],
         activeKey' = [r \in Runs |-> IF r \in S THEN NoPackage ELSE activeKey[r]],
         UNCHANGED <<owner, controller, task>>,
         \A r \in S : status[r] # "unborn",
         \A r \in S : Purges \/ status[r] \in TERMINAL_STATUSES \cup {"deleted"},
         \A c \in Clients : client'[c] \in {client[c], Idle}
  PROVE  IInv'
<1> USE DEF IInv
<1>1. KeyMarksActive'
  BY DEF KeyMarksActive, IsActive, ACTIVE_STATUSES
<1>2. SingleActive'
  BY DEF SingleActive, IsActive, ACTIVE_STATUSES
<1>3. RowOfTask'
  <2> SUFFICES ASSUME NEW r \in S PROVE Fits(task[r], "deleted")
    BY DEF RowOfTask
  <2> QED
    BY DEF RowOfTask, Fits, TERMINAL_STATUSES
<1>4. ControllerOfTask' /\ RowOfOwner'
  BY DEF ControllerOfTask, RowOfOwner, IsRunning
<1>5. RowOfRequest'
  <2> SUFFICES ASSUME NEW c \in Clients, client'[c] = client[c],
                      client[c].op \in {"stopRead", "stopWrite", "delete"}
               PROVE  /\ client[c].run \in Runs
                      /\ status'[client[c].run] \in {status[client[c].run], "deleted"}
    BY DEF RowOfRequest, IsRunning, Idle
  <2> QED
    BY DEF TypeOK, Requests, Idle
<1> QED
  BY <1>1, <1>2, <1>3, <1>4, <1>5

\* The invariant is inductive.
LEMMA InvStep == IInv /\ [Next]_vars => IInv'
<1> SUFFICES ASSUME IInv, [Next]_vars PROVE IInv'
  OBVIOUS
<1>0. TypeOK /\ TypeOK'
  BY TypeStep DEF IInv
<1>1. ASSUME NEW r \in Runs, TaskStep(r) \/ DbFault(r) PROVE IInv'
  BY <1>0, <1>1, QuietTaskStep, WritingTaskStep DEF TaskStep, CommitManifest
<1>2. ASSUME NEW c \in Clients, NewRequest(c) \/ CreateInsert(c) \/ StopTransition(c) \/ StopWrite(c)
      PROVE  IInv'
  BY <1>0, <1>2, QuietRequestStep, CreateStep, StopWriteStep DEF NewRequest
<1>3. ASSUME NEW c \in Clients, DeleteRow(c) PROVE IInv'
  <2> DEFINE S == {client[c].run}
  <2>1. client[c].run \in Runs
    BY <1>0, <1>3 DEF DeleteRow, TypeOK, Requests, Idle
  <2>2. /\ S \in SUBSET Runs
        /\ \A r \in S : status[r] # "unborn"
        /\ \A r \in S : status[r] \in TERMINAL_STATUSES \cup {"deleted"}
    BY <1>3, <2>1 DEF DeleteRow, IInv, RowOfRequest, TERMINAL_STATUSES
  <2>3. /\ status' = [r \in Runs |-> IF r \in S THEN "deleted" ELSE status[r]]
        /\ activeKey' = [r \in Runs |-> IF r \in S THEN NoPackage ELSE activeKey[r]]
        /\ UNCHANGED <<owner, controller, task>>
        /\ \A d \in Clients : client'[d] \in {client[d], Idle}
    BY <1>0, <1>3 DEF DeleteRow, Reply, TypeOK
  <2> HIDE DEF S
  <2> QED
    BY <1>0, <2>2, <2>3, RowsGo
<1>4. ASSUME NEW p \in Packages, PurgePackage(p) PROVE IInv'
  <2> DEFINE S == {r \in Runs : owner[r] = p}
  <2>1. \A r \in S : status[r] # "unborn"
    BY NoPackageAssumption DEF IInv, RowOfOwner
  <2>2. /\ status' = [q \in Runs |-> IF q \in S THEN "deleted" ELSE status[q]]
        /\ activeKey' = [q \in Runs |-> IF q \in S THEN NoPackage ELSE activeKey[q]]
        /\ UNCHANGED <<owner, controller, task, client>>
        /\ Purges
    BY <1>4 DEF PurgePackage
  <2> QED
    BY <1>0, <2>1, <2>2, RowsGo
<1>5. CASE Crash
  BY <1>0, <1>5
     DEF Crash, IInv, KeyMarksActive, SingleActive, RowOfTask, Fits, ControllerOfTask, RowOfOwner,
         RowOfRequest, IsActive, IsRunning, Idle
<1>6. CASE UNCHANGED vars
  BY <1>6 DEF vars, IInv, TypeOK, KeyMarksActive, SingleActive, RowOfTask, ControllerOfTask,
              RowOfOwner, RowOfRequest, IsActive, IsRunning
<1> QED
  BY <1>1, <1>2, <1>3, <1>4, <1>5, <1>6 DEF Next, RequestStep

LEMMA Invariance == Spec => []IInv
BY InvInit, InvStep, PTL DEF Spec

-----------------------------------------------------------------------------
(* What follows from the invariant *)

\* At most one active row per package, whatever requests race and whatever
\* crashes, faults and package deletions happen: createMaterialization's check
\* is only an optimisation, and the unique index carries the guarantee.
THEOREM OneActiveRun == Spec => []SingleActive
<1>1. IInv => SingleActive
  BY DEF IInv
<1> QED
  BY <1>1, Invariance, PTL

\* active_key is set on exactly the active rows, to their own package, on every path
\* of INSERT, UPDATE and DELETE: what the unique index sees is what the rows say.
THEOREM KeyAlwaysMarksActive == Spec => []KeyMarksActive
<1>1. IInv => KeyMarksActive
  BY DEF IInv
<1> QED
  BY <1>1, Invariance, PTL

\* Nothing runs behind a row that says FAILED or CANCELLED: stopMaterialization
\* never writes the row of a run that has a controller.
THEOREM OverIsStopped == Spec => []OverMeansStopped
<1>1. IInv => OverMeansStopped
  BY DEF IInv, OverMeansStopped, RowOfTask, Fits, IsRunning, TypeOK, Phases, ACTIVE_STATUSES
<1> QED
  BY <1>1, Invariance, PTL

\* As long as no package is deleted under its runs, one task at a time builds the
\* tables of a package: the single writer the incremental ledger assumes.
THEOREM OneBuilder ==
  ASSUME ~Purges
  PROVE  Spec => []SingleBuilder
<1>1. IInv => SingleBuilder
  <2> SUFFICES ASSUME IInv, NEW q \in Runs, NEW r \in Runs,
                      IsBuilding(q), IsBuilding(r), owner[q] = owner[r]
               PROVE  q = r
    BY DEF SingleBuilder
  <2>1. IsActive(q) /\ IsActive(r)
    BY DEF IInv, RowOfTask, Fits, IsBuilding, IsActive, ACTIVE_STATUSES
  <2> QED
    BY <2>1 DEF IInv, SingleActive
<1> QED
  BY <1>1, Invariance, PTL

\* While no statement on publisher.db throws, the service implements the lifecycle
\* the API promises, through any crash, race and package deletion: a settled run
\* never changes status, and every move is one VALID_TRANSITIONS allows.
THEOREM Refinement ==
  ASSUME ~DbFaults
  PROVE  Spec => ImplementsLifecycle
<1>1. Init => Lifecycle!Init
  BY DEF Init, Lifecycle!Init
<1>2. IInv /\ [Next]_vars => [Lifecycle!Next]_(Lifecycle!vars)
  <2> SUFFICES ASSUME IInv, [Next]_vars, ~(UNCHANGED <<status, owner>>) PROVE Lifecycle!Next
    BY DEF Lifecycle!vars
  <2>0. TypeOK
    BY DEF IInv
  <2>1. ASSUME NEW r \in Runs, NEW next \in {"MANIFEST_ROWS_READY", "MANIFEST_FILE_READY", "FAILED", "CANCELLED"},
               UpdateStatus(r, next),
               HasRow(r) => next \in VALID_TRANSITIONS(status[r])
        PROVE  Lifecycle!Advance(r)
    BY <2>1 DEF UpdateStatus, rowVars, HasRow, Lifecycle!Advance, VALID_TRANSITIONS,
                Lifecycle!VALID_TRANSITIONS
  <2>2. ASSUME NEW r \in Runs, TaskStep(r) \/ DbFault(r) PROVE Lifecycle!Next
    <3>1. Fits(task[r], status[r])
      BY DEF IInv, RowOfTask
    <3>2. PICK next \in {"MANIFEST_ROWS_READY", "MANIFEST_FILE_READY", "FAILED", "CANCELLED"} :
            /\ UpdateStatus(r, next)
            /\ HasRow(r) => next \in VALID_TRANSITIONS(status[r])
      <4>1. \/ TransitionWrite(r, "rowsWrite", "MANIFEST_ROWS_READY", "rowsBack")
            \/ TransitionWrite(r, "fileWrite", "MANIFEST_FILE_READY", "fileBack")
            \/ RecordFailure(r)
        BY <2>2 DEF TaskStep, DbFault, StartBuild, PlanBuild, BuildSource, AbandonBuild,
                    FinishBuild, CommitManifest, TransitionRead, ReadBack, AutoLoad
      <4> QED
        BY <3>1, <4>1 DEF TransitionWrite, RecordFailure, Fits, HasRow, NoRow,
                          VALID_TRANSITIONS, ACTIVE_STATUSES
    <3> QED
      BY <2>1, <3>2 DEF Lifecycle!Next
  <2>3. ASSUME NEW c \in Clients, NewRequest(c) PROVE FALSE
    BY <2>3 DEF NewRequest, CreateCheck, Stop, DeleteCheck
  <2>4. ASSUME NEW c \in Clients, CreateInsert(c) PROVE Lifecycle!Next
    <3>1. client[c].pkg \in Packages
      <4>1. client[c] \in Requests /\ client[c].op = "insert"
        BY <2>0, <2>4 DEF CreateInsert, TypeOK
      <4> QED
        BY <4>1 DEF Requests, Idle
    <3>2. PICK r \in Runs :
            /\ status[r] = "unborn"
            /\ status' = [status EXCEPT ![r] = "PENDING"]
            /\ owner' = [owner EXCEPT ![r] = client[c].pkg]
      BY <2>4 DEF CreateInsert
    <3>3. \A q \in Runs : owner[q] = client[c].pkg => ~IsActive(q)
      BY <2>4 DEF CreateInsert, IInv, KeyMarksActive
    <3>4. Lifecycle!Open(r, client[c].pkg)
      BY <3>2, <3>3 DEF Lifecycle!Open, Lifecycle!IsActive, IsActive, ACTIVE_STATUSES,
                        Lifecycle!ACTIVE_STATUSES
    <3> QED
      BY <3>1, <3>4 DEF Lifecycle!Next
  <2>5. ASSUME NEW c \in Clients, StopTransition(c) PROVE FALSE
    BY <2>5 DEF StopTransition
  <2>6. ASSUME NEW c \in Clients, StopWrite(c) PROVE Lifecycle!Next
    <3>1. client[c].run \in Runs /\ UpdateStatus(client[c].run, "CANCELLED")
      BY <2>0, <2>6 DEF StopWrite, TypeOK, Requests, Idle
    <3>2. status[client[c].run] \in ACTIVE_STATUSES \cup {"CANCELLED", "deleted"}
      BY <2>6 DEF StopWrite, IInv, RowOfRequest
    <3>3. status[client[c].run] \in ACTIVE_STATUSES
      BY <2>0, <3>1, <3>2 DEF UpdateStatus, rowVars, HasRow, NoRow, TypeOK
    <3> QED
      BY <2>1, <3>1, <3>3 DEF Lifecycle!Next, ACTIVE_STATUSES, VALID_TRANSITIONS
  <2>7. ASSUME NEW c \in Clients, DeleteRow(c) PROVE Lifecycle!Next
    <3>1. client[c].run \in Runs /\ status[client[c].run] \in TERMINAL_STATUSES \cup {"deleted"}
      BY <2>0, <2>7 DEF DeleteRow, TypeOK, Requests, Idle, IInv, RowOfRequest
    <3>2. status[client[c].run] \in TERMINAL_STATUSES
      BY <2>0, <2>7, <3>1 DEF DeleteRow, TypeOK
    <3>3. Lifecycle!Discard(client[c].run)
      BY <2>7, <3>2 DEF DeleteRow, Lifecycle!Discard, Lifecycle!TERMINAL_STATUSES, TERMINAL_STATUSES
    <3> QED
      BY <3>1, <3>3 DEF Lifecycle!Next
  <2>8. ASSUME NEW p \in Packages, PurgePackage(p) PROVE Lifecycle!Next
    BY <2>8 DEF PurgePackage, Lifecycle!Next, Lifecycle!Purge
  <2>9. CASE Crash
    BY <2>9 DEF Crash
  <2> QED
    BY <2>2, <2>3, <2>4, <2>5, <2>6, <2>7, <2>8, <2>9 DEF Next, RequestStep, vars
<1> QED
  BY <1>1, <1>2, Invariance, PTL DEF Spec, ImplementsLifecycle, Lifecycle!Spec
=============================================================================
