--------------------------- MODULE PackageLoadPool ---------------------------
(* The main-thread half of the package-load worker pool: the queue of load     *)
(* requests, the workers it spawns, and what happens to both as workers get    *)
(* ready, answer, time out, crash and shut down.                               *)
(*                                                                             *)
(* A step is one event of the main thread's loop, or one of a worker thread.   *)
(* The continuations of `await pw.ready` are microtasks: they run before the   *)
(* loop takes its next event, though not before the caller's own code.         *)
EXTENDS Naturals, Sequences, FiniteSets

CONSTANTS
  Jobs,       \* load requests, each submitted at most once
  MaxWorkers  \* PACKAGE_LOAD_WORKERS

ASSUME MaxWorkersAssumption == MaxWorkers \in Nat \ {0}
ASSUME JobsAssumption == IsFiniteSet(Jobs)

\* A worker is spawned for the jobs of a non-empty queue, so there are never more
\* workers than jobs.
WorkerIds == 1 .. Cardinality(Jobs)

VARIABLES
  queue,        \* jobs no worker has been found for
  job,          \* where each job is
  on,           \* the worker a job was dispatched to
  inFlight,     \* pw.inFlight, by worker
  ready,        \* the promise pw.ready, by worker
  life,         \* the worker thread: "dead" by itself or "terminated" by the
                \* pool, and "exited" once the exit event is handled
  answer,       \* what the worker has done with a job posted to it
  stop,         \* the workers that have been sent {type: "shutdown"}
  shuttingDown

poolVars == <<queue, job, on, inFlight, ready, life>>
vars == <<queue, job, on, inFlight, ready, life, answer, stop, shuttingDown>>

NoWorker == 0

TypeOK ==
  /\ queue \in Seq(Jobs)
  /\ job \in [Jobs -> {"new", "queued", "waiting", "running", "resolved", "rejected"}]
  /\ on \in [Jobs -> WorkerIds \cup {NoWorker}]
  /\ inFlight \in [WorkerIds -> SUBSET Jobs]
  /\ ready \in [WorkerIds -> {"pending", "resolved", "rejected"}]
  /\ life \in [WorkerIds -> {"unborn", "booting", "up", "dead", "terminated", "exited"}]
  /\ answer \in [Jobs -> {"none", "computing", "late", "result", "error"}]
  /\ stop \in SUBSET WorkerIds
  /\ shuttingDown \in BOOLEAN

Init ==
  /\ queue = <<>>
  /\ job = [j \in Jobs |-> "new"]
  /\ on = [j \in Jobs |-> NoWorker]
  /\ inFlight = [w \in WorkerIds |-> {}]
  /\ ready = [w \in WorkerIds |-> "pending"]
  /\ life = [w \in WorkerIds |-> "unborn"]
  /\ answer = [j \in Jobs |-> "none"]
  /\ stop = {}
  /\ shuttingDown = FALSE

Live(l) == {w \in WorkerIds : l[w] \notin {"unborn", "exited"}}
Workers == Live(life)
Dying == {w \in WorkerIds : life[w] \in {"dead", "terminated"}}
First(W) == CHOOSE w \in W : \A v \in W : w <= v

\* No continuation of `await pw.ready` is due.
LoopIsFree == \A j \in Jobs : job[j] = "waiting" => ready[on[j]] = "pending"

-----------------------------------------------------------------------------
(* Dispatch *)

\* findIdleOrSpawnable, among the workers of l with the jobs of f: the first with
\* no job in flight, else a new one if there is room.
FindIdleOrSpawnable(l, f) ==
  LET idle == {w \in Live(l) : f[w] = {}}
      spawnable == {w \in WorkerIds : l[w] = "unborn"}
  IN IF idle # {} THEN {First(idle)}
     ELSE IF Cardinality(Live(l)) < MaxWorkers THEN {First(spawnable)} ELSE {}

\* tryDispatch on queue q, from jobs s, workers l and jobs in flight f. The loop
\* takes the whole queue to one worker: dispatchToWorker awaits pw.ready before
\* it adds to inFlight, so the worker found for one job is found for the next.
TryDispatch(q, s, l, f) ==
  LET found == FindIdleOrSpawnable(l, f)
      taken == {q[i] : i \in DOMAIN q}
  IN /\ inFlight' = f
     /\ IF shuttingDown \/ q = <<>> \/ found = {}
        THEN /\ queue' = q
             /\ job' = s
             /\ life' = l
             /\ UNCHANGED on
        ELSE \E w \in found :
               /\ queue' = <<>>
               /\ job' = [j \in Jobs |-> IF j \in taken THEN "waiting" ELSE s[j]]
               /\ on' = [j \in Jobs |-> IF j \in taken THEN w ELSE on[j]]
               /\ life' = IF l[w] = "unborn" THEN [l EXCEPT ![w] = "booting"] ELSE l

\* Variant: a load is queued whether or not the pool is shutting down.
LoadPackageAnyTime(j) ==
  /\ job[j] = "new"
  /\ TryDispatch(Append(queue, j), [job EXCEPT ![j] = "queued"], life, inFlight)
  /\ UNCHANGED <<ready, answer, stop, shuttingDown>>

LoadPackage(j) ==
  /\ job[j] = "new"
  /\ IF shuttingDown
     THEN /\ job' = [job EXCEPT ![j] = "rejected"]
          /\ UNCHANGED <<queue, on, inFlight, life>>
     ELSE TryDispatch(Append(queue, j), [job EXCEPT ![j] = "queued"], life, inFlight)
  /\ UNCHANGED <<ready, answer, stop, shuttingDown>>

\* dispatchToWorker past `await pw.ready`: the job is registered and posted. A job
\* posted after the shutdown message will be read after it.
Register(j) ==
  LET w == on[j] IN
  /\ job[j] = "waiting"
  /\ ready[w] = "resolved"
  /\ job' = [job EXCEPT ![j] = "running"]
  /\ inFlight' = [inFlight EXCEPT ![w] = @ \cup {j}]
  /\ answer' = [answer EXCEPT ![j] = IF w \in stop THEN "late" ELSE "computing"]
  /\ UNCHANGED <<queue, on, ready, life, stop, shuttingDown>>

\* The same when the spawn failed: this job is rejected and the queue gets a try.
SpawnFailed(j) ==
  /\ job[j] = "waiting"
  /\ ready[on[j]] = "rejected"
  /\ TryDispatch(queue, [job EXCEPT ![j] = "rejected"], life, inFlight)
  /\ UNCHANGED <<ready, answer, stop, shuttingDown>>

-----------------------------------------------------------------------------
(* Events of the main thread *)

\* completeJob and errorJob: a message about a job that is gone is ignored.
WorkerAnswered(j) ==
  LET w == on[j] IN
  /\ LoopIsFree
  /\ answer[j] \in {"result", "error"}
  /\ life[w] = "up" \/ w \in Dying
  /\ answer' = [answer EXCEPT ![j] = "none"]
  /\ IF job[j] = "running"
     THEN TryDispatch(queue,
                      [job EXCEPT ![j] = IF answer[j] = "result" THEN "resolved" ELSE "rejected"],
                      life, [inFlight EXCEPT ![w] = @ \ {j}])
     ELSE UNCHANGED <<queue, job, on, inFlight, life>>
  /\ UNCHANGED <<ready, stop, shuttingDown>>

\* Variant: the timeout leaves inFlight to the exit handler.
JobTimeoutKeepsInFlight(j) ==
  /\ LoopIsFree
  /\ job[j] = "running"
  /\ job' = [job EXCEPT ![j] = "rejected"]
  /\ life' = [life EXCEPT ![on[j]] = "terminated"]
  /\ UNCHANGED <<queue, on, inFlight, ready, answer, stop, shuttingDown>>

\* handleJobTimeout: the job fails and its worker is terminated. Nothing is
\* dispatched until the exit event.
JobTimeout(j) ==
  LET w == on[j] IN
  /\ LoopIsFree
  /\ job[j] = "running"
  /\ job' = [job EXCEPT ![j] = "rejected"]
  /\ inFlight' = [inFlight EXCEPT ![w] = @ \ {j}]
  /\ life' = [life EXCEPT ![w] = "terminated"]
  /\ UNCHANGED <<queue, on, ready, answer, stop, shuttingDown>>

\* The handshake of a new worker.
WorkerReady(w) ==
  /\ LoopIsFree
  /\ life[w] = "up"
  /\ ready[w] = "pending"
  /\ ready' = [ready EXCEPT ![w] = "resolved"]
  /\ UNCHANGED <<queue, job, on, inFlight, life, answer, stop, shuttingDown>>

\* The error event of a worker that has not been ready, and the timer on its spawn.
WorkerError(w) ==
  /\ LoopIsFree
  /\ w \in Dying
  /\ ready[w] = "pending"
  /\ ready' = [ready EXCEPT ![w] = "rejected"]
  /\ UNCHANGED <<queue, job, on, inFlight, life, answer, stop, shuttingDown>>

SpawnTimeout(w) ==
  /\ LoopIsFree
  /\ w \in Workers
  /\ ready[w] = "pending"
  /\ ready' = [ready EXCEPT ![w] = "rejected"]
  /\ life' = [life EXCEPT ![w] = "terminated"]
  /\ UNCHANGED <<queue, job, on, inFlight, answer, stop, shuttingDown>>

\* Variant: the jobs in flight are forgotten, not failed.
WorkerExitSilently(w) ==
  /\ LoopIsFree
  /\ w \in Dying
  /\ ready' = [ready EXCEPT ![w] = IF @ = "pending" THEN "rejected" ELSE @]
  /\ TryDispatch(queue, job, [life EXCEPT ![w] = "exited"], [inFlight EXCEPT ![w] = {}])
  /\ UNCHANGED <<answer, stop, shuttingDown>>

\* The exit event: fail what was in flight, prune the worker, try the queue.
WorkerExit(w) ==
  /\ LoopIsFree
  /\ w \in Dying
  /\ ready' = [ready EXCEPT ![w] = IF @ = "pending" THEN "rejected" ELSE @]
  /\ TryDispatch(queue,
                 [j \in Jobs |-> IF j \in inFlight[w] THEN "rejected" ELSE job[j]],
                 [life EXCEPT ![w] = "exited"], [inFlight EXCEPT ![w] = {}])
  /\ UNCHANGED <<answer, stop, shuttingDown>>

\* Variant: only idle workers are told to stop.
ShutdownIdle ==
  /\ ~shuttingDown
  /\ shuttingDown' = TRUE
  /\ queue' = <<>>
  /\ job' = [j \in Jobs |-> IF job[j] = "queued" THEN "rejected" ELSE job[j]]
  /\ stop' = {w \in Workers : inFlight[w] = {}}
  /\ UNCHANGED <<on, inFlight, ready, life, answer>>

\* shutdown: what is queued is rejected, what was dispatched is left to its worker.
Shutdown ==
  /\ ~shuttingDown
  /\ shuttingDown' = TRUE
  /\ queue' = <<>>
  /\ job' = [j \in Jobs |-> IF job[j] = "queued" THEN "rejected" ELSE job[j]]
  /\ stop' = Workers
  /\ UNCHANGED <<on, inFlight, ready, life, answer>>

\* The hard ceiling on a worker that will not exit.
ShutdownCeiling(w) ==
  /\ LoopIsFree
  /\ w \in stop
  /\ life[w] \in {"booting", "up"}
  /\ life' = [life EXCEPT ![w] = "terminated"]
  /\ UNCHANGED <<queue, job, on, inFlight, ready, answer, stop, shuttingDown>>

-----------------------------------------------------------------------------
(* The worker threads *)

\* The module has loaded and posts {type: "ready"}.
Boot(w) ==
  /\ life[w] = "booting"
  /\ life' = [life EXCEPT ![w] = "up"]
  /\ UNCHANGED <<queue, job, on, inFlight, ready, answer, stop, shuttingDown>>

\* runJob, or the refusal of a job read after the shutdown message.
Answer(j) ==
  /\ answer[j] \in {"computing", "late"}
  /\ life[on[j]] = "up"
  /\ \/ /\ answer[j] = "computing"
        /\ \E a \in {"result", "error"} : answer' = [answer EXCEPT ![j] = a]
     \/ /\ answer[j] = "late"
        /\ answer' = [answer EXCEPT ![j] = "error"]
  /\ UNCHANGED <<poolVars, stop, shuttingDown>>

\* maybeExit: a worker told to stop exits when it has no job of its own.
ExitWhenIdle(w) ==
  /\ life[w] = "up"
  /\ w \in stop
  /\ \A j \in Jobs : on[j] = w => answer[j] # "computing"
  /\ life' = [life EXCEPT ![w] = "dead"]
  /\ UNCHANGED <<queue, job, on, inFlight, ready, answer, stop, shuttingDown>>

\* A thread may die at any time: an uncaught error, out of memory.
Die(w) ==
  /\ life[w] \in {"booting", "up"}
  /\ life' = [life EXCEPT ![w] = "dead"]
  /\ UNCHANGED <<queue, job, on, inFlight, ready, answer, stop, shuttingDown>>

-----------------------------------------------------------------------------
JobNext(j) ==
  \/ LoadPackage(j) \/ Register(j) \/ SpawnFailed(j)
  \/ WorkerAnswered(j) \/ JobTimeout(j) \/ Answer(j)

WorkerNext(w) ==
  \/ WorkerReady(w) \/ WorkerError(w) \/ SpawnTimeout(w) \/ WorkerExit(w)
  \/ ShutdownCeiling(w) \/ Boot(w) \/ ExitWhenIdle(w) \/ Die(w)

Next ==
  \/ \E j \in Jobs : JobNext(j)
  \/ \E w \in WorkerIds : WorkerNext(w)
  \/ Shutdown

Spec == Init /\ [][Next]_vars

\* Continuations run, timers fire, and a thread that is gone is reported. Nothing is
\* assumed of a worker's progress: a compile may hang.
FairSpec ==
  /\ Spec
  /\ \A j \in Jobs : WF_vars(Register(j) \/ SpawnFailed(j)) /\ WF_vars(JobTimeout(j))
  /\ \A w \in WorkerIds :
       WF_vars(SpawnTimeout(w)) /\ WF_vars(WorkerExit(w)) /\ WF_vars(ShutdownCeiling(w))

-----------------------------------------------------------------------------
(* Properties *)

\* The two books agree: pw.inFlight holds exactly the running jobs of the worker,
\* and an exited worker has none, whichever of answer, timeout and exit comes
\* first for a job.
InFlightIsRunning ==
  \A w \in WorkerIds : inFlight[w] = {j \in Jobs : job[j] = "running" /\ on[j] = w}

\* No promise is left with nobody to settle it: a running job is on a worker whose
\* exit is still to come, and a waiting one on a promise that settles.
NoStrandedJob ==
  \A j \in Jobs :
    /\ job[j] = "running" => on[j] \in Workers
    /\ job[j] = "waiting" => on[j] \in Workers \/ ready[on[j]] = "rejected"

\* Every load settles, hung compiles and crashing workers included.
LoadsSettle ==
  \A j \in Jobs :
    job[j] \in {"queued", "waiting", "running"} ~> job[j] \in {"resolved", "rejected"}

\* A shutdown ends: the workers exit and stay gone.
ShutdownCompletes == shuttingDown ~> [](Workers = {})

\* "Per-worker active job cap = 1."
OneJobPerWorker == \A w \in WorkerIds : Cardinality(inFlight[w]) <= 1
=============================================================================
