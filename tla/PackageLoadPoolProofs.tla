------------------------ MODULE PackageLoadPoolProofs ------------------------
(* Proofs about PackageLoadPool for any finite set of loads and any number of   *)
(* workers: the pool's two books on its jobs agree, and no load is left on a    *)
(* worker that will not settle it.                                              *)
EXTENDS PackageLoadPool, FiniteSetTheorems, WellFoundedInduction, TLAPS

JobState == {"new", "queued", "waiting", "running", "resolved", "rejected"}
Life == {"unborn", "booting", "up", "dead", "terminated", "exited"}

\* The parts of the inductive invariant, of a queue q, the places s of the jobs,
\* the worker a of each, the workers l, their jobs f and their promises r: what a
\* caller of tryDispatch has changed when it calls it is among them.

\* A job in the queue is queued.
QueueIsQueued(q, s) == \A i \in DOMAIN q : s[q[i]] = "queued"

\* A job has a worker from its dispatch on.
Assigned(s, a) ==
  \A j \in Jobs : /\ s[j] \in {"new", "queued"} => a[j] = NoWorker
                  /\ s[j] \in {"waiting", "running"} => a[j] \in WorkerIds

\* A worker was spawned for the jobs it was given first, so it has had some.
Spawned(a, l) ==
  /\ \A j \in Jobs : a[j] # NoWorker => l[a[j]] # "unborn"
  /\ \A w \in WorkerIds : l[w] # "unborn" => \E j \in Jobs : a[j] = w

BooksAgree(s, a, f) == \A w \in WorkerIds : f[w] = {j \in Jobs : s[j] = "running" /\ a[j] = w}

Attended(s, a, l, r) ==
  \A j \in Jobs : /\ s[j] = "running" => a[j] \in Live(l)
                  /\ s[j] = "waiting" => a[j] \in Live(l) \/ r[a[j]] = "rejected"

PoolInv ==
  /\ TypeOK
  /\ QueueIsQueued(queue, job)
  /\ Assigned(job, on)
  /\ Spawned(on, life)
  /\ BooksAgree(job, on, inFlight)
  /\ Attended(job, on, life, ready)

-----------------------------------------------------------------------------
(* The workers findIdleOrSpawnable may answer with *)

LEMMA JobCount == Cardinality(Jobs) \in Nat
  BY JobsAssumption, FS_CardinalityType

LEMMA WorkerIdsFacts == WorkerIds \subseteq Nat /\ NoWorker \notin WorkerIds
  BY JobCount DEF WorkerIds, NoWorker

\* The first of some workers is one of them.
LEMMA FirstIsOne ==
  ASSUME NEW W, W \subseteq WorkerIds, W # {}
  PROVE  First(W) \in W
<1>1. W \subseteq Nat
  BY WorkerIdsFacts
<1>2. PICK w \in W : \A v \in W : ~(<<v, w>> \in OpToRel(<, Nat))
  BY <1>1, NatLessThanWellFounded, WFMin, Zenon
<1>3. \A u, v \in Nat : u < v => <<u, v>> \in OpToRel(<, Nat)
  BY SMT DEF OpToRel
<1>4. ASSUME NEW v \in W PROVE w <= v
  <2>1. v \in Nat /\ w \in Nat
    BY <1>1
  <2>2. ~(v < w)
    BY <1>2, <1>3, <2>1, Zenon
  <2> QED BY <2>1, <2>2
<1> QED BY <1>4 DEF First

\* While a job waits in the queue there is a worker to spawn: every worker that was
\* spawned has had a job of its own.
LEMMA RoomForOne ==
  ASSUME NEW a \in [Jobs -> WorkerIds \cup {NoWorker}], NEW l \in [WorkerIds -> Life],
         Spawned(a, l), NEW k \in Jobs, a[k] = NoWorker
  PROVE  \E w \in WorkerIds : l[w] = "unborn"
<1> SUFFICES ASSUME \A w \in WorkerIds : l[w] # "unborn" PROVE FALSE
  OBVIOUS
<1> DEFINE T == {j \in Jobs : a[j] # NoWorker}
           g == [j \in T |-> a[j]]
<1>1. g \in Surjection(T, WorkerIds)
  <2>1. g \in [T -> WorkerIds]
    OBVIOUS
  <2>2. \A w \in WorkerIds : \E j \in T : g[j] = w
    BY WorkerIdsFacts DEF Spawned
  <2> HIDE DEF g
  <2> QED BY <2>1, <2>2 DEF Surjection
<1>2. IsFiniteSet(Jobs \ {k}) /\ Cardinality(Jobs \ {k}) = Cardinality(Jobs) - 1
  BY JobsAssumption, FS_RemoveElement
<1>3. IsFiniteSet(T) /\ Cardinality(T) <= Cardinality(Jobs \ {k}) /\ Cardinality(T) \in Nat
  <2>1. T \in SUBSET (Jobs \ {k})
    OBVIOUS
  <2> HIDE DEF T
  <2> QED BY <1>2, <2>1, FS_Subset, FS_CardinalityType
<1>4. Cardinality(WorkerIds) <= Cardinality(T)
  <2> HIDE DEF T, g
  <2> QED BY <1>1, <1>3, FS_Surjection
<1>5. Cardinality(WorkerIds) = Cardinality(Jobs)
  BY JobCount, FS_Interval DEF WorkerIds
<1> HIDE DEF T
<1> QED BY <1>2, <1>3, <1>4, <1>5, JobCount

\* findIdleOrSpawnable answers with a worker that is in the pool or is to be spawned.
LEMMA FoundIsWorker ==
  ASSUME NEW a \in [Jobs -> WorkerIds \cup {NoWorker}], NEW l \in [WorkerIds -> Life], NEW f,
         Spawned(a, l), NEW k \in Jobs, a[k] = NoWorker,
         NEW w \in FindIdleOrSpawnable(l, f)
  PROVE  w \in WorkerIds /\ (w \in Live(l) \/ l[w] = "unborn")
<1> DEFINE idle == {v \in Live(l) : f[v] = {}}
           spawnable == {v \in WorkerIds : l[v] = "unborn"}
<1>1. spawnable # {}
  BY RoomForOne
<1>2. First(spawnable) \in spawnable
  BY <1>1, FirstIsOne
<1>3. idle # {} => First(idle) \in idle
  BY FirstIsOne DEF Live
<1>4. w = First(spawnable) \/ (idle # {} /\ w = First(idle))
  BY DEF FindIdleOrSpawnable
<1> QED BY <1>2, <1>3, <1>4 DEF Live

-----------------------------------------------------------------------------
(* Dispatch *)

\* What tryDispatch starts from holds of what it leaves, whether it finds a worker
\* or not.
LEMMA DispatchKeeps ==
  ASSUME TypeOK, NEW q \in Seq(Jobs), NEW s \in [Jobs -> JobState],
         NEW l \in [WorkerIds -> Life], NEW f \in [WorkerIds -> SUBSET Jobs], NEW r,
         QueueIsQueued(q, s), Assigned(s, on), Spawned(on, l), BooksAgree(s, on, f),
         Attended(s, on, l, r), TryDispatch(q, s, l, f)
  PROVE  /\ queue' \in Seq(Jobs) /\ job' \in [Jobs -> JobState]
         /\ on' \in [Jobs -> WorkerIds \cup {NoWorker}]
         /\ life' \in [WorkerIds -> Life] /\ inFlight' \in [WorkerIds -> SUBSET Jobs]
         /\ QueueIsQueued(queue', job') /\ Assigned(job', on') /\ Spawned(on', life')
         /\ BooksAgree(job', on', inFlight') /\ Attended(job', on', life', r)
<1> DEFINE found == FindIdleOrSpawnable(l, f)
           taken == {q[i] : i \in DOMAIN q}
<1>1. CASE shuttingDown \/ q = <<>> \/ found = {}
  <2>1. queue' = q /\ job' = s /\ life' = l /\ on' = on /\ inFlight' = f
    BY <1>1 DEF TryDispatch
  <2> QED BY <2>1 DEF TypeOK
<1>2. CASE ~(shuttingDown \/ q = <<>> \/ found = {})
  <2>1. PICK w \in found :
          /\ queue' = <<>>
          /\ job' = [j \in Jobs |-> IF j \in taken THEN "waiting" ELSE s[j]]
          /\ on' = [j \in Jobs |-> IF j \in taken THEN w ELSE on[j]]
          /\ life' = IF l[w] = "unborn" THEN [l EXCEPT ![w] = "booting"] ELSE l
          /\ inFlight' = f
    BY <1>2 DEF TryDispatch
  <2>2. 1 \in DOMAIN q /\ q[1] \in taken
    BY <1>2
  <2>3. \A j \in taken : j \in Jobs /\ s[j] = "queued" /\ on[j] = NoWorker
    BY DEF QueueIsQueued, Assigned
  <2>4. on \in [Jobs -> WorkerIds \cup {NoWorker}]
    BY DEF TypeOK
  <2>5. w \in WorkerIds /\ (w \in Live(l) \/ l[w] = "unborn")
    BY <2>2, <2>3, <2>4, FoundIsWorker
  <2> HIDE DEF found, taken
  <2>6. queue' \in Seq(Jobs) /\ QueueIsQueued(queue', job')
    BY <2>1 DEF QueueIsQueued
  <2>7. job' \in [Jobs -> JobState]
    BY <2>1 DEF JobState
  <2>8. on' \in [Jobs -> WorkerIds \cup {NoWorker}]
    BY <2>1, <2>4, <2>5
  <2>9. life' \in [WorkerIds -> Life] /\ w \in Live(life')
    BY <2>1, <2>5 DEF Life, Live
  <2>10. \A v \in WorkerIds : v # w => life'[v] = l[v]
    BY <2>1
  <2>11. Assigned(job', on')
    BY <2>1, <2>5 DEF Assigned
  <2>12. Spawned(on', life')
    <3>1. \A j \in Jobs : on'[j] # NoWorker => life'[on'[j]] # "unborn"
      BY <2>1, <2>4, <2>5, <2>9, <2>10 DEF Spawned, Live
    <3>2. \E j \in Jobs : on'[j] = w
      BY <2>1, <2>2, <2>3
    <3>3. ASSUME NEW v \in WorkerIds, v # w, life'[v] # "unborn"
          PROVE  \E j \in Jobs : on'[j] = v
      <4>1. PICK j \in Jobs : on[j] = v
        BY <2>10, <3>3 DEF Spawned
      <4>2. j \notin taken
        BY <2>3, <4>1, WorkerIdsFacts
      <4> QED BY <2>1, <4>1, <4>2
    <3> QED BY <3>1, <3>2, <3>3 DEF Spawned
  <2>13. BooksAgree(job', on', inFlight')
    <3>1. \A j \in Jobs : job'[j] = "running" <=> s[j] = "running"
      BY <2>1, <2>3
    <3>2. \A j \in Jobs : s[j] = "running" => on'[j] = on[j]
      BY <2>1, <2>3
    <3> QED BY <2>1, <3>1, <3>2 DEF BooksAgree
  <2>14. Attended(job', on', life', r)
    <3>1. ASSUME NEW j \in Jobs
          PROVE  j \notin taken => job'[j] = s[j] /\ on'[j] = on[j]
      BY <2>1
    <3>2. ASSUME NEW j \in taken PROVE job'[j] = "waiting" /\ on'[j] = w
      BY <2>1, <2>3
    <3>3. \A v \in Live(l) : v \in Live(life')
      BY <2>9, <2>10 DEF Live
    <3> QED BY <2>9, <3>1, <3>2, <3>3 DEF Attended
  <2> QED BY <2>1, <2>6, <2>7, <2>8, <2>9, <2>11, <2>12, <2>13, <2>14
<1> QED BY <1>1, <1>2

-----------------------------------------------------------------------------
(* The invariant *)

LEMMA PoolInit == Init => PoolInv
<1> SUFFICES ASSUME Init PROVE PoolInv
  OBVIOUS
<1>1. queue \in Seq(Jobs) /\ QueueIsQueued(queue, job)
  BY DEF Init, QueueIsQueued
<1>2. TypeOK
  BY <1>1 DEF Init, TypeOK
<1>3. Assigned(job, on) /\ Spawned(on, life)
  BY DEF Init, Assigned, Spawned
<1>4. BooksAgree(job, on, inFlight) /\ Attended(job, on, life, ready)
  BY DEF Init, BooksAgree, Attended
<1> QED BY <1>1, <1>2, <1>3, <1>4 DEF PoolInv

\* A step in which the life of workers moves on, none being born or exiting, and
\* promises settle, disturbs nothing.
LEMMA LifeKeeps ==
  ASSUME PoolInv, UNCHANGED <<queue, job, on, inFlight, answer, stop, shuttingDown>>,
         life' \in [WorkerIds -> Life], Live(life') = Live(life),
         \A w \in WorkerIds : life[w] = "unborn" <=> life'[w] = "unborn",
         ready' \in [WorkerIds -> {"pending", "resolved", "rejected"}],
         \A w \in WorkerIds : ready[w] = "rejected" => ready'[w] = "rejected"
  PROVE  PoolInv'
<1>1. TypeOK'
  BY DEF PoolInv, TypeOK, Life
<1>2. QueueIsQueued(queue, job)' /\ Assigned(job, on)' /\ BooksAgree(job, on, inFlight)'
  BY DEF PoolInv, QueueIsQueued, Assigned, BooksAgree
<1>3. Spawned(on, life)'
  BY DEF PoolInv, Spawned, TypeOK
<1>4. Attended(job, on, life, ready)'
  BY DEF PoolInv, Attended, Assigned
<1> QED BY <1>1, <1>2, <1>3, <1>4 DEF PoolInv

LEMMA PoolStep == PoolInv /\ [Next]_vars => PoolInv'
<1> SUFFICES ASSUME PoolInv, [Next]_vars PROVE PoolInv'
  OBVIOUS
<1>0. TypeOK /\ QueueIsQueued(queue, job) /\ Assigned(job, on) /\ Spawned(on, life)
      /\ BooksAgree(job, on, inFlight) /\ Attended(job, on, life, ready)
  BY DEF PoolInv
<1>t. /\ queue \in Seq(Jobs) /\ job \in [Jobs -> JobState]
      /\ on \in [Jobs -> WorkerIds \cup {NoWorker}]
      /\ inFlight \in [WorkerIds -> SUBSET Jobs] /\ life \in [WorkerIds -> Life]
  BY <1>0 DEF TypeOK, JobState, Life
<1>1. ASSUME NEW j \in Jobs, LoadPackage(j) PROVE PoolInv'
  <2>0. job[j] = "new" /\ UNCHANGED <<ready, answer, stop, shuttingDown>>
    BY <1>1 DEF LoadPackage
  <2>1. CASE shuttingDown
    <3>1. job' = [job EXCEPT ![j] = "rejected"] /\ UNCHANGED <<queue, on, inFlight, life>>
      BY <1>1, <2>1 DEF LoadPackage
    <3>2. TypeOK'
      BY <1>0, <2>0, <3>1 DEF TypeOK
    <3>3. QueueIsQueued(queue, job)'
      BY <1>0, <1>t, <2>0, <3>1 DEF QueueIsQueued
    <3>4. Assigned(job, on)' /\ Spawned(on, life)'
      BY <1>0, <1>t, <2>0, <3>1 DEF Assigned, Spawned
    <3>5. BooksAgree(job, on, inFlight)' /\ Attended(job, on, life, ready)'
      BY <1>0, <1>t, <2>0, <3>1 DEF BooksAgree, Attended
    <3> QED BY <3>2, <3>3, <3>4, <3>5 DEF PoolInv
  <2>2. CASE ~shuttingDown
    <3> DEFINE q == Append(queue, j)
               s == [job EXCEPT ![j] = "queued"]
    <3>1. TryDispatch(q, s, life, inFlight)
      BY <1>1, <2>2 DEF LoadPackage
    <3>2. q \in Seq(Jobs) /\ s \in [Jobs -> JobState]
      BY <1>t DEF JobState
    <3>3. QueueIsQueued(q, s)
      BY <1>0, <1>t DEF QueueIsQueued
    <3>4. Assigned(s, on)
      BY <1>0, <1>t, <2>0 DEF Assigned
    <3>5. BooksAgree(s, on, inFlight) /\ Attended(s, on, life, ready)
      BY <1>0, <1>t, <2>0 DEF BooksAgree, Attended
    <3> HIDE DEF q, s
    <3> QED BY <1>0, <1>t, <2>0, <3>1, <3>2, <3>3, <3>4, <3>5, DispatchKeeps
            DEF PoolInv, TypeOK, JobState, Life
  <2> QED BY <2>1, <2>2
<1>2. ASSUME NEW j \in Jobs, Register(j) PROVE PoolInv'
  <2> DEFINE w == on[j]
  <2>0. /\ job[j] = "waiting" /\ ready[w] = "resolved"
        /\ job' = [job EXCEPT ![j] = "running"]
        /\ inFlight' = [inFlight EXCEPT ![w] = @ \cup {j}]
        /\ answer' = [answer EXCEPT ![j] = IF w \in stop THEN "late" ELSE "computing"]
        /\ UNCHANGED <<queue, on, ready, life, stop, shuttingDown>>
    BY <1>2 DEF Register
  <2>1. w \in WorkerIds
    BY <1>0, <2>0 DEF Assigned
  <2> HIDE DEF w
  <2>2. TypeOK'
    BY <1>0, <2>0, <2>1 DEF TypeOK
  <2>3. QueueIsQueued(queue, job)'
    BY <1>0, <1>t, <2>0 DEF QueueIsQueued
  <2>4. Assigned(job, on)' /\ Spawned(on, life)'
    BY <1>0, <1>t, <2>0 DEF Assigned, Spawned
  <2>5. BooksAgree(job, on, inFlight)'
    BY <1>0, <1>t, <2>0, <2>1 DEF BooksAgree, w
  <2>6. Attended(job, on, life, ready)'
    BY <1>0, <1>t, <2>0, <2>1 DEF Attended, w
  <2> QED BY <2>2, <2>3, <2>4, <2>5, <2>6 DEF PoolInv
<1>3. ASSUME NEW j \in Jobs, SpawnFailed(j) PROVE PoolInv'
  <2> DEFINE s == [job EXCEPT ![j] = "rejected"]
  <2>0. job[j] = "waiting" /\ TryDispatch(queue, s, life, inFlight)
        /\ UNCHANGED <<ready, answer, stop, shuttingDown>>
    BY <1>3 DEF SpawnFailed
  <2>2. s \in [Jobs -> JobState] /\ QueueIsQueued(queue, s)
    BY <1>0, <1>t, <2>0 DEF QueueIsQueued, JobState
  <2>4. Assigned(s, on)
    BY <1>0, <1>t, <2>0 DEF Assigned
  <2>5. BooksAgree(s, on, inFlight) /\ Attended(s, on, life, ready)
    BY <1>0, <1>t, <2>0 DEF BooksAgree, Attended
  <2> HIDE DEF s
  <2> QED BY <1>0, <1>t, <2>0, <2>2, <2>4, <2>5, DispatchKeeps
          DEF PoolInv, TypeOK, JobState, Life
<1>4. ASSUME NEW j \in Jobs, WorkerAnswered(j) PROVE PoolInv'
  <2> DEFINE w == on[j]
             s == [job EXCEPT ![j] = IF answer[j] = "result" THEN "resolved" ELSE "rejected"]
             f == [inFlight EXCEPT ![w] = @ \ {j}]
  <2>0. answer' = [answer EXCEPT ![j] = "none"] /\ UNCHANGED <<ready, stop, shuttingDown>>
    BY <1>4 DEF WorkerAnswered
  <2>1. CASE job[j] = "running"
    <3>1. TryDispatch(queue, s, life, f)
      BY <1>4, <2>1 DEF WorkerAnswered
    <3>2. w \in WorkerIds
      BY <1>0, <2>1 DEF Assigned
    <3>3. s \in [Jobs -> JobState] /\ QueueIsQueued(queue, s)
      BY <1>0, <1>t, <2>1 DEF QueueIsQueued, JobState
    <3>4. f \in [WorkerIds -> SUBSET Jobs]
      BY <1>t, <3>2
    <3>5. Assigned(s, on)
      BY <1>0, <1>t, <2>1 DEF Assigned
    <3>6. BooksAgree(s, on, f)
      BY <1>0, <1>t, <2>1, <3>2 DEF BooksAgree
    <3>7. Attended(s, on, life, ready)
      BY <1>0, <1>t, <2>1 DEF Attended
    <3> HIDE DEF s, f
    <3> QED BY <1>0, <1>t, <2>0, <3>1, <3>3, <3>4, <3>5, <3>6, <3>7, DispatchKeeps
            DEF PoolInv, TypeOK, JobState, Life
  <2>2. CASE job[j] # "running"
    <3>1. UNCHANGED <<queue, job, on, inFlight, life>>
      BY <1>4, <2>2 DEF WorkerAnswered
    <3>2. TypeOK'
      BY <1>0, <2>0, <3>1 DEF TypeOK
    <3> QED BY <1>0, <2>0, <3>1, <3>2
            DEF PoolInv, QueueIsQueued, Assigned, Spawned, BooksAgree, Attended, Live
  <2> QED BY <2>1, <2>2
<1>5. ASSUME NEW j \in Jobs, JobTimeout(j) PROVE PoolInv'
  <2> DEFINE w == on[j]
  <2>0. /\ job[j] = "running"
        /\ job' = [job EXCEPT ![j] = "rejected"]
        /\ inFlight' = [inFlight EXCEPT ![w] = @ \ {j}]
        /\ life' = [life EXCEPT ![w] = "terminated"]
        /\ UNCHANGED <<queue, on, ready, answer, stop, shuttingDown>>
    BY <1>5 DEF JobTimeout
  <2>1. w \in WorkerIds /\ w \in Live(life)
    BY <1>0, <2>0 DEF Assigned, Attended
  <2> HIDE DEF w
  <2>2. TypeOK'
    BY <1>0, <2>0, <2>1 DEF TypeOK
  <2>3. QueueIsQueued(queue, job)'
    BY <1>0, <1>t, <2>0 DEF QueueIsQueued
  <2>4. Assigned(job, on)'
    BY <1>0, <1>t, <2>0 DEF Assigned
  <2>5. Live(life') = Live(life) /\ \A v \in WorkerIds : life'[v] = "unborn" <=> life[v] = "unborn"
    BY <1>t, <2>0, <2>1 DEF Live
  <2>6. Spawned(on, life)'
    BY <1>0, <1>t, <2>0, <2>5 DEF Spawned
  <2>7. BooksAgree(job, on, inFlight)'
    BY <1>0, <1>t, <2>0, <2>1 DEF BooksAgree, w
  <2>8. Attended(job, on, life, ready)'
    BY <1>0, <1>t, <2>0, <2>5 DEF Attended
  <2> QED BY <2>2, <2>3, <2>4, <2>6, <2>7, <2>8 DEF PoolInv
<1>6. ASSUME NEW j \in Jobs, Answer(j) PROVE PoolInv'
  <2>1. UNCHANGED <<queue, job, on, inFlight, ready, life, stop, shuttingDown>>
    BY <1>6 DEF Answer, poolVars
  <2>2. answer' \in [Jobs -> {"none", "computing", "late", "result", "error"}]
    BY <1>0, <1>6 DEF Answer, TypeOK
  <2>3. TypeOK'
    BY <1>0, <2>1, <2>2 DEF TypeOK
  <2> QED BY <1>0, <2>1, <2>3
          DEF PoolInv, QueueIsQueued, Assigned, Spawned, BooksAgree, Attended, Live
<1>7. ASSUME NEW w \in WorkerIds,
             \/ WorkerReady(w) \/ WorkerError(w) \/ SpawnTimeout(w) \/ ShutdownCeiling(w)
             \/ Boot(w) \/ ExitWhenIdle(w) \/ Die(w)
      PROVE  PoolInv'
  <2>1. UNCHANGED <<queue, job, on, inFlight, answer, stop, shuttingDown>>
    BY <1>7 DEF WorkerReady, WorkerError, SpawnTimeout, ShutdownCeiling, Boot, ExitWhenIdle, Die
  <2>2. \/ ready' = ready
        \/ /\ ready[w] = "pending"
           /\ \E r \in {"resolved", "rejected"} : ready' = [ready EXCEPT ![w] = r]
    BY <1>7 DEF WorkerReady, WorkerError, SpawnTimeout, ShutdownCeiling, Boot, ExitWhenIdle, Die
  <2>3. /\ ready' \in [WorkerIds -> {"pending", "resolved", "rejected"}]
        /\ \A v \in WorkerIds : ready[v] = "rejected" => ready'[v] = "rejected"
    BY <1>0, <2>2 DEF TypeOK
  <2>4. life' = life \/ (w \in Live(life)
                         /\ \E x \in {"up", "dead", "terminated"} : life' = [life EXCEPT ![w] = x])
    BY <1>7 DEF WorkerReady, WorkerError, SpawnTimeout, ShutdownCeiling, Boot, ExitWhenIdle, Die,
                Workers, Live
  <2>5. life' \in [WorkerIds -> Life] /\ Live(life') = Live(life)
        /\ \A v \in WorkerIds : life[v] = "unborn" <=> life'[v] = "unborn"
    BY <1>t, <2>4 DEF Life, Live
  <2> QED BY <2>1, <2>3, <2>5, LifeKeeps
<1>8. ASSUME NEW w \in WorkerIds, WorkerExit(w) PROVE PoolInv'
  <2> DEFINE s == [j \in Jobs |-> IF j \in inFlight[w] THEN "rejected" ELSE job[j]]
             l == [life EXCEPT ![w] = "exited"]
             f == [inFlight EXCEPT ![w] = {}]
  <2>0. /\ LoopIsFree /\ life[w] \in {"dead", "terminated"}
        /\ ready' = [ready EXCEPT ![w] = IF @ = "pending" THEN "rejected" ELSE @]
        /\ TryDispatch(queue, s, l, f)
        /\ UNCHANGED <<answer, stop, shuttingDown>>
    BY <1>8 DEF WorkerExit, Dying
  <2>1. s \in [Jobs -> JobState] /\ l \in [WorkerIds -> Life] /\ f \in [WorkerIds -> SUBSET Jobs]
    BY <1>t DEF JobState, Life
  <2>2. ready' \in [WorkerIds -> {"pending", "resolved", "rejected"}]
    BY <1>0, <2>0 DEF TypeOK
  <2>3. \A j \in Jobs : j \in inFlight[w] <=> job[j] = "running" /\ on[j] = w
    BY <1>0 DEF BooksAgree
  <2>4. QueueIsQueued(queue, s)
    BY <1>0, <1>t, <2>3 DEF QueueIsQueued
  <2>5. Assigned(s, on)
    BY <1>0, <1>t DEF Assigned
  <2>6. Spawned(on, l)
    BY <1>0, <1>t, <2>0 DEF Spawned
  <2>7. BooksAgree(s, on, f)
    BY <1>0, <1>t, <2>3 DEF BooksAgree
  <2>8. Attended(s, on, l, ready')
    <3>1. \A v \in WorkerIds : v # w /\ v \in Live(life) => v \in Live(l)
      BY <1>t DEF Live
    <3>2. ASSUME NEW j \in Jobs, s[j] = "running" PROVE on[j] \in Live(l)
      BY <1>0, <1>t, <2>3, <3>1, <3>2 DEF Attended, Live
    <3>3. ASSUME NEW j \in Jobs, s[j] = "waiting"
          PROVE  on[j] \in Live(l) \/ ready'[on[j]] = "rejected"
      <4>1. job[j] = "waiting" /\ on[j] \in WorkerIds /\ ready[on[j]] = "pending"
        BY <1>0, <2>0, <3>3 DEF Assigned, LoopIsFree
      <4>2. on[j] \in Live(life)
        BY <1>0, <4>1 DEF Attended
      <4>3. on[j] = w => ready'[on[j]] = "rejected"
        BY <1>0, <2>0, <4>1 DEF TypeOK
      <4> QED BY <3>1, <4>1, <4>2, <4>3
    <3> QED BY <3>2, <3>3 DEF Attended
  <2> HIDE DEF s, l, f
  <2> QED BY <1>0, <1>t, <2>0, <2>1, <2>2, <2>4, <2>5, <2>6, <2>7, <2>8, DispatchKeeps
          DEF PoolInv, TypeOK, JobState, Life
<1>9. CASE Shutdown
  <2>0. /\ queue' = <<>> /\ shuttingDown' = TRUE /\ stop' = Workers
        /\ job' = [j \in Jobs |-> IF job[j] = "queued" THEN "rejected" ELSE job[j]]
        /\ UNCHANGED <<on, inFlight, ready, life, answer>>
    BY <1>9 DEF Shutdown
  <2>1. job' \in [Jobs -> JobState] /\ queue' \in Seq(Jobs) /\ stop' \subseteq WorkerIds
    BY <1>t, <2>0 DEF JobState, Workers, Live
  <2>2. TypeOK'
    BY <1>0, <2>0, <2>1 DEF TypeOK, JobState
  <2>3. QueueIsQueued(queue, job)' /\ Assigned(job, on)' /\ Spawned(on, life)'
    BY <1>0, <1>t, <2>0 DEF QueueIsQueued, Assigned, Spawned
  <2>4. BooksAgree(job, on, inFlight)' /\ Attended(job, on, life, ready)'
    BY <1>0, <1>t, <2>0 DEF BooksAgree, Attended, Live
  <2> QED BY <2>2, <2>3, <2>4 DEF PoolInv
<1>10. CASE UNCHANGED vars
  BY <1>0, <1>10 DEF vars, PoolInv, TypeOK, QueueIsQueued, Assigned, Spawned, BooksAgree,
                     Attended, Live
<1> QED BY <1>1, <1>2, <1>3, <1>4, <1>5, <1>6, <1>7, <1>8, <1>9, <1>10
        DEF Next, JobNext, WorkerNext

-----------------------------------------------------------------------------
(* Theorems *)

LEMMA PoolInvariant == Spec => []PoolInv
  BY PoolInit, PoolStep, PTL DEF Spec

\* Every variable of the pool keeps its type; in particular a worker found for a
\* queued load is one of as many workers as there are loads (findIdleOrSpawnable).
THEOREM PoolTypes == Spec => []TypeOK
<1>1. PoolInv => TypeOK
  BY DEF PoolInv
<1> QED BY <1>1, PoolInvariant, PTL

\* pw.inFlight holds exactly the running jobs of its worker, in whatever order
\* answer, timeout, exit and shutdown come (completeJob, handleJobTimeout, the exit
\* handler).
THEOREM InFlightAlwaysRunning == Spec => []InFlightIsRunning
<1>1. PoolInv => InFlightIsRunning
  BY DEF PoolInv, BooksAgree, InFlightIsRunning
<1> QED BY <1>1, PoolInvariant, PTL

\* No load is left on a worker that has exited, or on a promise that will not
\* settle: the exit handler finds every job of its worker, in flight or waiting.
THEOREM NeverStranded == Spec => []NoStrandedJob
<1>1. PoolInv => NoStrandedJob
  BY DEF PoolInv, Attended, NoStrandedJob, Workers
<1> QED BY <1>1, PoolInvariant, PTL

-----------------------------------------------------------------------------
(* What a step may never do *)

\* A load's promise settles once: neither a late answer nor the exit of the worker
\* changes the outcome its caller has seen.
SettlesOnce ==
  [][\A j \in Jobs : job[j] \in {"resolved", "rejected"} => job'[j] = job[j]]_vars

\* After shutdown no worker is spawned, and none that exited comes back.
NoSpawnAfterShutdown ==
  [][shuttingDown => shuttingDown' /\ Live(life') \subseteq Live(life)]_vars

LEMMA DispatchSettles ==
  ASSUME NEW q, NEW s \in [Jobs -> JobState], NEW l, NEW f, QueueIsQueued(q, s),
         TryDispatch(q, s, l, f)
  PROVE  /\ \A j \in Jobs : s[j] \in {"resolved", "rejected"} => job'[j] = s[j]
         /\ shuttingDown => life' = l
  BY DEF TryDispatch, QueueIsQueued

\* The two at once, for a step that leads on from the invariant.
LEMMA StepSettles ==
  ASSUME PoolInv, Next
  PROVE  /\ \A j \in Jobs : job[j] \in {"resolved", "rejected"} => job'[j] = job[j]
         /\ shuttingDown => shuttingDown' /\ Live(life') \subseteq Live(life)
<1>0. QueueIsQueued(queue, job) /\ BooksAgree(job, on, inFlight) /\ Attended(job, on, life, ready)
      /\ job \in [Jobs -> JobState] /\ life \in [WorkerIds -> Life] /\ queue \in Seq(Jobs)
  BY DEF PoolInv, TypeOK, JobState, Life
<1>a. ASSUME NEW j \in Jobs, Assigned(job, on), job[j] = "running" PROVE on[j] \in Live(life)
  BY <1>0, <1>a DEF Attended
<1>b. Assigned(job, on)
  BY DEF PoolInv
<1>1. ASSUME NEW j \in Jobs, LoadPackage(j)
      PROVE  /\ \A k \in Jobs : job[k] \in {"resolved", "rejected"} => job'[k] = job[k]
             /\ shuttingDown => shuttingDown' /\ Live(life') \subseteq Live(life)
  <2> DEFINE s == [job EXCEPT ![j] = "queued"]
             q == Append(queue, j)
  <2>1. s \in [Jobs -> JobState] /\ QueueIsQueued(q, s)
    BY <1>0 DEF JobState, QueueIsQueued
  <2>2. CASE ~shuttingDown
    <3>1. TryDispatch(q, s, life, inFlight) /\ job[j] = "new"
      BY <1>1, <2>2 DEF LoadPackage
    <3>2. \A k \in Jobs : s[k] \in {"resolved", "rejected"} => job'[k] = s[k]
      <4> HIDE DEF s, q
      <4> QED BY <2>1, <3>1, DispatchSettles
    <3> QED BY <1>0, <2>2, <3>1, <3>2
  <2>3. CASE shuttingDown
    BY <1>0, <1>1, <2>3 DEF LoadPackage
  <2> QED BY <2>2, <2>3
<1>2. ASSUME NEW j \in Jobs, Register(j) \/ JobTimeout(j) \/ Answer(j)
      PROVE  /\ \A k \in Jobs : job[k] \in {"resolved", "rejected"} => job'[k] = job[k]
             /\ shuttingDown => shuttingDown' /\ Live(life') \subseteq Live(life)
  <2>1. CASE Register(j) \/ Answer(j)
    BY <1>0, <2>1 DEF Register, Answer, poolVars
  <2>2. CASE JobTimeout(j)
    BY <1>0, <1>a, <1>b, <2>2 DEF JobTimeout, Live
  <2> QED BY <1>2, <2>1, <2>2
<1>3. ASSUME NEW j \in Jobs, SpawnFailed(j)
      PROVE  /\ \A k \in Jobs : job[k] \in {"resolved", "rejected"} => job'[k] = job[k]
             /\ shuttingDown => shuttingDown' /\ Live(life') \subseteq Live(life)
  <2> DEFINE s == [job EXCEPT ![j] = "rejected"]
  <2>1. job[j] = "waiting" /\ TryDispatch(queue, s, life, inFlight) /\ shuttingDown' = shuttingDown
    BY <1>3 DEF SpawnFailed
  <2>2. s \in [Jobs -> JobState] /\ QueueIsQueued(queue, s)
    BY <1>0, <2>1 DEF JobState, QueueIsQueued
  <2>3. /\ \A k \in Jobs : s[k] \in {"resolved", "rejected"} => job'[k] = s[k]
        /\ shuttingDown => life' = life
    <3> HIDE DEF s
    <3> QED BY <2>1, <2>2, DispatchSettles
  <2> QED BY <1>0, <2>1, <2>3
<1>4. ASSUME NEW j \in Jobs, WorkerAnswered(j)
      PROVE  /\ \A k \in Jobs : job[k] \in {"resolved", "rejected"} => job'[k] = job[k]
             /\ shuttingDown => shuttingDown' /\ Live(life') \subseteq Live(life)
  <2> DEFINE s == [job EXCEPT ![j] = IF answer[j] = "result" THEN "resolved" ELSE "rejected"]
             f == [inFlight EXCEPT ![on[j]] = @ \ {j}]
  <2>1. CASE job[j] = "running"
    <3>1. TryDispatch(queue, s, life, f) /\ shuttingDown' = shuttingDown
      BY <1>4, <2>1 DEF WorkerAnswered
    <3>2. s \in [Jobs -> JobState] /\ QueueIsQueued(queue, s)
      BY <1>0, <2>1 DEF JobState, QueueIsQueued
    <3>3. /\ \A k \in Jobs : s[k] \in {"resolved", "rejected"} => job'[k] = s[k]
          /\ shuttingDown => life' = life
      <4> HIDE DEF s, f
      <4> QED BY <3>1, <3>2, DispatchSettles
    <3> QED BY <1>0, <2>1, <3>1, <3>3
  <2>2. CASE job[j] # "running"
    BY <1>4, <2>2 DEF WorkerAnswered
  <2> QED BY <2>1, <2>2
<1>5. ASSUME NEW w \in WorkerIds, WorkerExit(w)
      PROVE  /\ \A k \in Jobs : job[k] \in {"resolved", "rejected"} => job'[k] = job[k]
             /\ shuttingDown => shuttingDown' /\ Live(life') \subseteq Live(life)
  <2> DEFINE s == [j \in Jobs |-> IF j \in inFlight[w] THEN "rejected" ELSE job[j]]
             l == [life EXCEPT ![w] = "exited"]
             f == [inFlight EXCEPT ![w] = {}]
  <2>1. TryDispatch(queue, s, l, f) /\ shuttingDown' = shuttingDown
    BY <1>5 DEF WorkerExit
  <2>2. \A j \in inFlight[w] : job[j] = "running"
    BY <1>0 DEF BooksAgree
  <2>3. s \in [Jobs -> JobState] /\ QueueIsQueued(queue, s)
    BY <1>0, <2>2 DEF JobState, QueueIsQueued
  <2>4. /\ \A k \in Jobs : s[k] \in {"resolved", "rejected"} => job'[k] = s[k]
        /\ shuttingDown => life' = l
    <3> HIDE DEF s, l, f
    <3> QED BY <2>1, <2>3, DispatchSettles
  <2>5. Live(l) \subseteq Live(life)
    BY <1>0 DEF Live
  <2> QED BY <1>0, <2>1, <2>2, <2>4, <2>5
<1>6. ASSUME NEW w \in WorkerIds,
             \/ WorkerReady(w) \/ WorkerError(w) \/ SpawnTimeout(w) \/ ShutdownCeiling(w)
             \/ Boot(w) \/ ExitWhenIdle(w) \/ Die(w)
      PROVE  /\ \A k \in Jobs : job[k] \in {"resolved", "rejected"} => job'[k] = job[k]
             /\ shuttingDown => shuttingDown' /\ Live(life') \subseteq Live(life)
  BY <1>0, <1>6 DEF WorkerReady, WorkerError, SpawnTimeout, ShutdownCeiling, Boot, ExitWhenIdle,
                    Die, Workers, Live
<1>7. CASE Shutdown
  BY <1>0, <1>7 DEF Shutdown
<1> QED BY <1>1, <1>2, <1>3, <1>4, <1>5, <1>6, <1>7 DEF Next, JobNext, WorkerNext

\* A load's caller sees one outcome: a result that arrives after the timeout, or an
\* exit event after the answer, changes nothing (errorJob, completeJob).
THEOREM LoadSettlesOnce == Spec => SettlesOnce
<1>1. PoolInv /\ [Next]_vars =>
        [\A j \in Jobs : job[j] \in {"resolved", "rejected"} => job'[j] = job[j]]_vars
  BY StepSettles
<1> QED BY <1>1, PoolInvariant, PTL DEF Spec, SettlesOnce

\* A pool that shuts down only loses workers: no event of the old ones, and no late
\* load, spawns another (tryDispatch's early return).
THEOREM ShutdownOnlyLosesWorkers == Spec => NoSpawnAfterShutdown
<1>1. PoolInv /\ [Next]_vars =>
        [shuttingDown => shuttingDown' /\ Live(life') \subseteq Live(life)]_vars
  BY StepSettles
<1> QED BY <1>1, PoolInvariant, PTL DEF Spec, NoSpawnAfterShutdown
=============================================================================
